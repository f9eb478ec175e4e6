-------------------------- MODULE UdevTable_proofs --------------------------
(***************************************************************************)
(* The table of devices in tcluvc.c, for any number of ports, models,      *)
(* cameras plugged and other devices removed.                              *)
(*                                                                         *)
(* The argument is about the events of one port that are not serviced yet. *)
(* They form a Chain that ends in what is at the port now, so a camera     *)
(* that is not in the table has an add event to come (Missing).  An add    *)
(* event whose camera is gone by then leaves an orphan in the table, and   *)
(* in the queue of that port the remove event that will search for one     *)
(* (Owing): orphans and such ports come and go together (Answered), until  *)
(* a scan is ahead of the events.                                          *)
(***************************************************************************)
EXTENDS UdevTable, FiniteSetTheorems, TLAPS

\* The operations of UdevTable keep the types of its state.
THEOREM TypeCorrect == Spec => []TypeOK
<1> USE TableAssumption DEF TypeOK
<1>1. Init => TypeOK
  <2> SUFFICES ASSUME Init
               PROVE  TypeOK
    OBVIOUS
  <2>1. bus \in [Ports -> Names \cup {NoCamera}] /\ plugs \in 0..MaxPlugs
    <3>1. CASE bus = [p \in Ports |-> NoCamera] /\ plugs = 0
      BY <3>1
    <3>2. CASE /\ plugs = 1
               /\ \E q \in Ports, m \in Models :
                    bus = [p \in Ports |->
                             IF p = q THEN [model |-> m, num |-> 1]
                             ELSE NoCamera]
      BY <3>2 DEF Names
    <3>3. QED
      BY <3>1, <3>2 DEF Init
  <2>2. queue \in [Ports -> Seq(Event)]
    BY DEF Init
  <2>3. others \in 0..MaxOthers /\ devs \subseteq Names /\ known \subseteq Names
    BY DEF Init
  <2>4. QED
    BY <2>1, <2>2, <2>3, Zenon DEF Init
<1>2. TypeOK /\ [Next]_vars => TypeOK'
  <2> SUFFICES ASSUME TypeOK, [Next]_vars
               PROVE  TypeOK'
    OBVIOUS
  <2> USE DEF environment
  <2>a. Plugged \subseteq Names /\ Orphans \subseteq devs
    BY DEF Plugged, Orphans
  <2>1. CASE Tcluvc_Init
    BY <2>1, <2>a DEF Tcluvc_Init, UdevScan, Overtaken
  <2>2. ASSUME NEW p \in Ports, UdevMonitor(p)
        PROVE  TypeOK'
    <3>1. Head(queue[p]) \in Event /\ Tail(queue[p]) \in Seq(Event)
      BY <2>2 DEF UdevMonitor
    <3>2. UdevUVCName(p, Head(queue[p])) \in Names
      BY <3>1 DEF UdevUVCName, Event, Names, NoCamera
    <3>3. devs' \subseteq Names /\ known' \subseteq Names
      BY <2>2, <2>a, <3>2
         DEF UdevMonitor, DeviceAdded, DeviceRemoved, RemoveUnknown, SyncTable
    <3>4. devsNeedRefresh' \in BOOLEAN
      BY <2>2 DEF UdevMonitor, DeviceAdded, RemoveUnknown, SyncTable
    <3>5. queue' \in [Ports -> Seq(Event)]
      BY <2>2, <3>1 DEF UdevMonitor
    <3>6. QED
      BY <2>2, <3>3, <3>4, <3>5 DEF UdevMonitor
  <2>3. CASE UdevMonitor_other
    <3>1. devs' \subseteq Names /\ known' \subseteq Names
      BY <2>3, <2>a
         DEF UdevMonitor_other, RemoveUnknown, SyncTable, DeviceRemoved
    <3>2. QED
      BY <2>3, <3>1 DEF UdevMonitor_other, RemoveUnknown, SyncTable
  <2>4. CASE CMD_devices
    BY <2>4, <2>a DEF CMD_devices, UdevScan, Overtaken
  <2>5. ASSUME NEW p \in Ports, NEW model \in Models, plug(p, model)
        PROVE  TypeOK'
    <3>1. /\ [model |-> model, num |-> plugs + 1] \in Names
          /\ plugs' \in 0..MaxPlugs
      BY <2>5 DEF plug, Names
    <3>2. [action |-> "add", model |-> model] \in Event
      BY DEF Event
    <3>3. bus' \in [Ports -> Names \cup {NoCamera}]
      BY <2>5, <3>1 DEF plug
    <3>4. queue' \in [Ports -> Seq(Event)]
      BY <2>5, <3>2 DEF plug, Queued
    <3>5. QED
      BY <2>5, <3>1, <3>3, <3>4 DEF plug
  <2>6. ASSUME NEW p \in Ports, unplug(p)
        PROVE  TypeOK'
    <3>1. [action |-> "remove", model |-> bus[p].model] \in Event
      BY <2>6 DEF unplug, Event, Names
    <3>2. queue' \in [Ports -> Seq(Event)]
      BY <2>6, <3>1 DEF unplug, Queued
    <3>3. bus' \in [Ports -> Names \cup {NoCamera}]
      BY <2>6 DEF unplug
    <3>4. QED
      BY <2>6, <3>2, <3>3 DEF unplug
  <2>7. CASE unplug_other
    BY <2>7 DEF unplug_other
  <2>8. CASE UNCHANGED vars
    BY <2>8 DEF vars
  <2>9. QED
    BY <2>1, <2>2, <2>3, <2>4, <2>5, <2>6, <2>7, <2>8 DEF Next
<1>3. QED
  BY <1>1, <1>2, PTL DEF Spec

-----------------------------------------------------------------------------
\* An add event is followed by the remove event of the same camera, and a remove
\* event by the add event of the next.
Follows(e, f) ==
  IF e.action = "add" THEN f = [action |-> "remove", model |-> e.model]
                      ELSE f.action = "add"

\* The events q of a port where the camera cam is now.
Chain(q, cam) ==
  /\ \A i \in 1..Len(q) - 1 : Follows(q[i], q[i + 1])
  /\ q # <<>> => IF cam = NoCamera THEN q[Len(q)].action = "remove"
                 ELSE q[Len(q)] = [action |-> "add", model |-> cam.model]

\* The kernel's add event goes on with the chain of an empty port.
LEMMA ChainPlugged ==
  ASSUME NEW q \in Seq(Event), Chain(q, NoCamera), NEW cam \in Names
  PROVE  Chain(Append(q, [action |-> "add", model |-> cam.model]), cam)
<1> DEFINE e == [action |-> "add", model |-> cam.model]
           r == Append(q, e)
<1>1. e \in Event /\ cam # NoCamera
  BY TableAssumption DEF Event, Names, NoCamera
<1>2. r \in Seq(Event) /\ Len(r) = Len(q) + 1 /\ r[Len(r)] = e
  BY <1>1
<1>3. ASSUME NEW i \in 1..Len(r) - 1
      PROVE  Follows(r[i], r[i + 1])
  <2>1. CASE i < Len(q)
    BY <2>1, <1>1 DEF Chain
  <2>2. CASE i = Len(q)
    BY <2>2, <1>1, <1>2 DEF Chain, Follows, Event
  <2>3. QED
    BY <2>1, <2>2, <1>2, <1>3
<1>4. QED
  BY <1>1, <1>2, <1>3 DEF Chain

\* The kernel's remove event goes on with the chain of a camera.
LEMMA ChainUnplugged ==
  ASSUME NEW cam \in Names, NEW q \in Seq(Event), Chain(q, cam)
  PROVE  Chain(Append(q, [action |-> "remove", model |-> cam.model]), NoCamera)
<1> DEFINE e == [action |-> "remove", model |-> cam.model]
           r == Append(q, e)
<1>1. e \in Event /\ cam # NoCamera
  BY TableAssumption DEF Event, Names, NoCamera
<1>2. r \in Seq(Event) /\ Len(r) = Len(q) + 1 /\ r[Len(r)] = e
  BY <1>1
<1>3. ASSUME NEW i \in 1..Len(r) - 1
      PROVE  Follows(r[i], r[i + 1])
  <2>1. CASE i < Len(q)
    BY <2>1, <1>1 DEF Chain
  <2>2. CASE i = Len(q)
    BY <2>2, <1>1, <1>2 DEF Chain, Follows, Event
  <2>3. QED
    BY <2>1, <2>2, <1>2, <1>3
<1>4. QED
  BY <1>1, <1>2, <1>3 DEF Chain

\* UdevMonitor takes the first event away: what is left is still a chain.
LEMMA ChainServiced ==
  ASSUME NEW cam, NEW q \in Seq(Event), Chain(q, cam), q # <<>>
  PROVE  Chain(Tail(q), cam)
<1> DEFINE r == Tail(q)
<1>1. r \in Seq(Event) /\ Len(r) = Len(q) - 1 /\ Len(q) >= 1
  OBVIOUS
<1>2. \A i \in 1..Len(r) : r[i] = q[i + 1]
  BY <1>1
<1>3. ASSUME NEW i \in 1..Len(r) - 1
      PROVE  Follows(r[i], r[i + 1])
  BY <1>1, <1>2 DEF Chain
<1>4. r # <<>> => r[Len(r)] = q[Len(q)]
  BY <1>1, <1>2
<1>5. QED
  BY <1>3, <1>4 DEF Chain

-----------------------------------------------------------------------------
\* The kernel numbers the cameras, and the table is not ahead of it.
Numbers ==
  /\ \A p \in Ports : bus[p] # NoCamera => bus[p].num \in 1..plugs
  /\ \A p, q \in Ports : bus[p] # NoCamera /\ bus[p].num = bus[q].num => p = q
  /\ \A name \in devs : name.num <= plugs

Chains == \A p \in Ports : Chain(queue[p], bus[p])

BusInv == Numbers /\ Chains

\* What RemoveUnknown takes out of the table is not plugged.
LEMMA OrphanRemoved ==
  ASSUME RemoveUnknown
  PROVE  \/ Orphans = {} /\ UNCHANGED <<devs, known>>
         \/ \E name \in Orphans :
              devs' = devs \ {name} /\ known' = known \ {name}
BY DEF RemoveUnknown, SyncTable, DeviceRemoved

\* The numbers and the chains are those of a kernel, whatever tcluvc does.
LEMMA BusInvariant == Spec => []BusInv
<1> USE TableAssumption
<1>1. Init => BusInv
  <2> SUFFICES ASSUME Init
               PROVE  BusInv
    OBVIOUS
  <2>1. Chains
    BY DEF Init, Chains, Chain
  <2>2. CASE bus = [p \in Ports |-> NoCamera] /\ plugs = 0
    BY <2>1, <2>2 DEF Init, BusInv, Numbers
  <2>3. CASE /\ plugs = 1
             /\ \E q \in Ports, m \in Models :
                  bus = [p \in Ports |-> IF p = q THEN [model |-> m, num |-> 1]
                                                 ELSE NoCamera]
    BY <2>1, <2>3 DEF Init, BusInv, Numbers, NoCamera
  <2>4. QED
    BY <2>2, <2>3 DEF Init
<1>2. TypeOK /\ BusInv /\ [Next]_vars => BusInv'
  <2> SUFFICES ASSUME TypeOK, Numbers, Chains, [Next]_vars
               PROVE  Numbers' /\ Chains'
    BY DEF BusInv
  <2> USE DEF environment
  <2>a. \A p \in Ports : /\ bus[p] \in Names \cup {NoCamera}
                         /\ bus[p].num <= plugs
                         /\ queue[p] \in Seq(Event)
    BY DEF TypeOK, Numbers, NoCamera
  <2>b. \A name \in Plugged : name.num <= plugs
    BY <2>a DEF Plugged
  <2>c. ASSUME UNCHANGED <<bus, plugs>>, \A name \in devs' : name.num <= plugs
        PROVE  Numbers'
    BY <2>c DEF Numbers
  <2>d. ASSUME UNCHANGED <<bus, queue>>
        PROVE  Chains'
    BY <2>d DEF Chains
  <2>1. CASE Tcluvc_Init \/ CMD_devices
    BY <2>1, <2>b, <2>c, <2>d DEF Tcluvc_Init, CMD_devices, UdevScan
  <2>2. ASSUME NEW p \in Ports, UdevMonitor(p)
        PROVE  Numbers' /\ Chains'
    <3>1. UdevUVCName(p, Head(queue[p])).num <= plugs
      BY <2>a DEF UdevUVCName
    <3>2. \A name \in devs' : name.num <= plugs
      BY <2>2, <3>1, OrphanRemoved
         DEF UdevMonitor, DeviceAdded, DeviceRemoved, Numbers
    <3>3. Chain(queue[p], bus[p]) /\ queue[p] # <<>>
      BY <2>2 DEF UdevMonitor, Chains
    <3>4. Chain(Tail(queue[p]), bus[p])
      BY <2>a, <3>3, ChainServiced
    <3>5. UNCHANGED <<bus, plugs>> /\ queue' = [queue EXCEPT ![p] = Tail(@)]
      BY <2>2 DEF UdevMonitor
    <3>6. Chains'
      BY <3>4, <3>5 DEF Chains, TypeOK
    <3>7. QED
      BY <3>2, <3>5, <3>6, <2>c
  <2>3. CASE UdevMonitor_other
    <3>1. UNCHANGED <<bus, plugs, queue>> /\ devs' \subseteq devs
      BY <2>3, OrphanRemoved DEF UdevMonitor_other
    <3>2. QED
      BY <3>1, <2>c, <2>d DEF Numbers
  <2>4. ASSUME NEW p \in Ports, NEW model \in Models, plug(p, model)
        PROVE  Numbers' /\ Chains'
    <3> DEFINE cam == [model |-> model, num |-> plugs + 1]
    <3>1. /\ cam \in Names /\ cam.num = plugs + 1 /\ cam.model = model
          /\ plugs \in Nat /\ plugs' = plugs + 1
      BY <2>4 DEF plug, Names, TypeOK
    <3>2. /\ bus[p] = NoCamera /\ bus' = [bus EXCEPT ![p] = cam]
          /\ UNCHANGED devs
          /\ queue' = [queue EXCEPT ![p] =
                         Append(@, [action |-> "add", model |-> cam.model])]
      BY <2>4 DEF plug, Queued
    <3>3. \A q \in Ports : bus'[q] = IF q = p THEN cam ELSE bus[q]
      BY <3>2 DEF TypeOK
    <3>a. NoCamera.num = 0 /\ \A q \in Ports : bus[q].num # plugs + 1
      BY <2>a, <3>1 DEF NoCamera, Numbers
    <3>b. ASSUME NEW q \in Ports, NEW r \in Ports, bus'[q] # NoCamera
          PROVE  /\ bus'[q].num \in 1..plugs'
                 /\ bus'[q].num = bus'[r].num => q = r
      <4>1. CASE q = p
        BY <4>1, <3>1, <3>3, <3>a
      <4>2. CASE q # p
        <5>1. bus[q] # NoCamera /\ bus'[q] = bus[q]
          BY <4>2, <3>3, <3>b
        <5>2. bus[q].num \in 1..plugs /\ (bus[q].num = bus[r].num => q = r)
          BY <5>1 DEF Numbers
        <5>3. QED
          BY <4>2, <5>1, <5>2, <3>1, <3>3, <3>a
      <4>3. QED
        BY <4>1, <4>2
    <3>c. \A name \in devs' : name.num <= plugs'
      BY <3>1, <3>2 DEF Numbers, TypeOK, Names
    <3>4. Numbers'
      BY <3>b, <3>c DEF Numbers
    <3>5. Chain(queue[p], NoCamera)
      BY <3>2 DEF Chains
    <3>6. Chain(Append(queue[p], [action |-> "add", model |-> cam.model]), cam)
      BY <2>a, <3>1, <3>5, ChainPlugged
    <3>7. Chains'
      BY <3>2, <3>3, <3>6 DEF Chains, TypeOK
    <3>8. QED
      BY <3>4, <3>7
  <2>5. ASSUME NEW p \in Ports, unplug(p)
        PROVE  Numbers' /\ Chains'
    <3>1. /\ bus[p] # NoCamera /\ bus' = [bus EXCEPT ![p] = NoCamera]
          /\ UNCHANGED <<devs, plugs>>
          /\ queue' = [queue EXCEPT ![p] =
                         Append(@, [action |-> "remove",
                                    model |-> bus[p].model])]
      BY <2>5 DEF unplug, Queued
    <3>2. \A q \in Ports : bus'[q] = IF q = p THEN NoCamera ELSE bus[q]
      BY <3>1 DEF TypeOK
    <3>a. NoCamera.num = 0 /\ plugs \in Nat
      BY DEF NoCamera, TypeOK
    <3>b. ASSUME NEW q \in Ports, NEW r \in Ports, bus'[q] # NoCamera
          PROVE  /\ bus'[q].num \in 1..plugs'
                 /\ bus'[q].num = bus'[r].num => q = r
      <4>1. q # p /\ bus'[q] = bus[q] /\ bus[q].num \in 1..plugs
        BY <3>1, <3>2, <3>b DEF Numbers
      <4>2. CASE r = p
        BY <4>1, <4>2, <3>1, <3>2, <3>a
      <4>3. CASE r # p
        <5>1. bus[q] # NoCamera /\ bus'[q] = bus[q] /\ bus'[r] = bus[r]
          BY <4>1, <4>3, <3>2, <3>b
        <5>2. bus[q].num = bus[r].num => q = r
          BY <5>1 DEF Numbers
        <5>3. QED
          BY <4>1, <5>1, <5>2, <3>1
      <4>4. QED
        BY <4>2, <4>3
    <3>3. Numbers'
      BY <3>1, <3>b DEF Numbers
    <3>4. Chain(queue[p], bus[p]) /\ bus[p] \in Names
      BY <2>a, <3>1 DEF Chains
    <3>5. Chain(Append(queue[p], [action |-> "remove", model |-> bus[p].model]),
                NoCamera)
      BY <2>a, <3>4, ChainUnplugged
    <3>6. Chains'
      BY <3>1, <3>2, <3>5 DEF Chains, TypeOK
    <3>7. QED
      BY <3>3, <3>6
  <2>6. CASE unplug_other \/ UNCHANGED vars
    BY <2>6, <2>c, <2>d DEF unplug_other, vars, Numbers
  <2>7. QED
    BY <2>1, <2>2, <2>3, <2>4, <2>5, <2>6 DEF Next
<1>3. QED
  BY <1>1, <1>2, TypeCorrect, PTL DEF Spec

-----------------------------------------------------------------------------
\* A camera whose number an event of port p carries is the one at port p.
LEMMA ServicedName ==
  ASSUME TypeOK, Numbers,
         NEW p \in Ports, NEW model \in Models, NEW q \in Ports,
         bus[q] = [model |-> model, num |-> bus[p].num]
  PROVE  q = p
<1>1. bus[q] # NoCamera /\ bus[q].num = bus[p].num
  BY TableAssumption DEF NoCamera
<1>2. QED
  BY <1>1 DEF Numbers

\* The first of the events at port p, and what is left of them.
LEMMA FirstEvent ==
  ASSUME TypeOK, Chains, NEW p \in Ports, queue[p] # <<>>
  PROVE  LET e == Head(queue[p])
             rest == Tail(queue[p])
         IN  /\ e \in Event /\ rest \in Seq(Event)
             /\ rest = <<>> /\ bus[p] = NoCamera => e.action = "remove"
             /\ rest = <<>> /\ bus[p] # NoCamera
                  => e = [action |-> "add", model |-> bus[p].model]
             /\ rest # <<>> => Follows(e, Head(rest))
<1> DEFINE q == queue[p]
<1>1. q \in Seq(Event) /\ Chain(q, bus[p])
  BY DEF TypeOK, Chains
<1>2. Head(q) \in Event /\ Tail(q) \in Seq(Event) /\ Head(q) = q[1]
  BY <1>1
<1>3. CASE Tail(q) = <<>>
  <2>a. Len(Tail(q)) = 0
    <3>1. \A s \in Seq(Event) : s = <<>> => Len(s) = 0
      OBVIOUS
    <3>2. QED
      BY <1>2, <1>3, <3>1
  <2>b. Len(Tail(q)) = Len(q) - 1 /\ Len(q) \in Nat
    BY <1>1
  <2>1. Len(q) = 1
    BY <2>a, <2>b
  <2>2. QED
    BY <1>1, <1>2, <1>3, <2>1 DEF Chain
<1>4. CASE Tail(q) # <<>>
  <2>1. Len(q) > 1 /\ Head(Tail(q)) = q[2]
    BY <1>1, <1>4
  <2>2. Follows(q[1], q[1 + 1])
    BY <1>1, <2>1 DEF Chain
  <2>3. QED
    BY <1>2, <1>4, <2>1, <2>2
<1>5. QED
  BY <1>3, <1>4

\* A camera that is missing has events to come, the last of which adds it.
Missing ==
  ready => \A p \in Ports :
             bus[p] \notin devs \cup {NoCamera} => queue[p] # <<>>

\* No operation on the table loses a camera for good.
LEMMA MissingInvariant == Spec => []Missing
<1>1. Init => Missing
  BY DEF Init, Missing
<1>2. TypeOK /\ BusInv /\ Missing /\ [Next]_vars => Missing'
  <2> SUFFICES ASSUME TypeOK, Numbers, Chains, Missing, [Next]_vars, ready',
                      NEW r \in Ports, bus'[r] \notin devs' \cup {NoCamera}
               PROVE  queue'[r] # <<>>
    BY DEF BusInv, Missing
  <2> USE DEF environment
  <2>a. ASSUME ready, UNCHANGED bus, queue'[r] = queue[r],
               bus[r] \in devs => bus[r] \in devs'
        PROVE  queue'[r] # <<>>
    BY <2>a DEF Missing
  <2>b. ASSUME RemoveUnknown, UNCHANGED bus, bus[r] \in devs
        PROVE  bus[r] \in devs'
    <3>1. bus[r] \in Plugged
      BY <2>b DEF Plugged
    <3>2. QED
      BY <2>b, <3>1, OrphanRemoved DEF Orphans
  <2>1. CASE Tcluvc_Init \/ CMD_devices
    BY <2>1 DEF Tcluvc_Init, CMD_devices, UdevScan, Plugged
  <2>2. ASSUME NEW p \in Ports, UdevMonitor(p)
        PROVE  queue'[r] # <<>>
    <3> DEFINE e == Head(queue[p])
               name == UdevUVCName(p, e)
    <3>1. /\ ready /\ queue[p] # <<>> /\ UNCHANGED bus
          /\ queue' = [queue EXCEPT ![p] = Tail(@)]
      BY <2>2 DEF UdevMonitor
    <3>2. \/ e.action = "add" /\ devs' = devs \cup {name}
          \/ e.action = "remove" /\ devs' = devs \ {name}
          \/ e.action = "remove" /\ RemoveUnknown
      BY <2>2 DEF UdevMonitor, DeviceAdded, DeviceRemoved
    <3>3. e.model \in Models /\ name = [model |-> e.model, num |-> bus[p].num]
      BY <3>1, FirstEvent DEF Event, UdevUVCName
    <3>4. CASE r # p
      <4>1. bus[r] # name
        BY <3>3, <3>4, ServicedName
      <4>2. queue'[r] = queue[r]
        BY <3>1, <3>4 DEF TypeOK
      <4>3. QED
        BY <3>1, <3>2, <4>1, <4>2, <2>a, <2>b
    <3>5. CASE r = p
      <4>1. SUFFICES ASSUME Tail(queue[p]) = <<>>
                     PROVE  FALSE
        BY <3>1, <3>5 DEF TypeOK
      <4>2. bus[p] # NoCamera
        BY <3>1, <3>5
      <4>3. e = [action |-> "add", model |-> bus[p].model]
        BY <3>1, <4>1, <4>2, FirstEvent
      <4>4. name = bus[p]
        BY <3>3, <4>2, <4>3 DEF TypeOK, Names
      <4>5. QED
        BY <3>1, <3>2, <3>5, <4>3, <4>4
    <3>6. QED
      BY <3>4, <3>5
  <2>3. CASE UdevMonitor_other
    BY <2>3, <2>a, <2>b DEF UdevMonitor_other
  <2>4. ASSUME NEW p \in Ports, NEW model \in Models, plug(p, model)
        PROVE  queue'[r] # <<>>
    <3>1. CASE r = p
      BY <2>4, <3>1, SMTT(60) DEF plug, Queued, TypeOK
    <3>2. CASE r # p
      BY <2>4, <3>2 DEF plug, Queued, TypeOK, Missing
    <3>3. QED
      BY <3>1, <3>2
  <2>5. ASSUME NEW p \in Ports, unplug(p)
        PROVE  queue'[r] # <<>>
    <3>1. CASE r = p
      BY <2>5, <3>1 DEF unplug, Queued, TypeOK
    <3>2. CASE r # p
      BY <2>5, <3>2 DEF unplug, Queued, TypeOK, Missing
    <3>3. QED
      BY <3>1, <3>2
  <2>6. CASE unplug_other \/ UNCHANGED vars
    BY <2>6, <2>a DEF unplug_other, vars
  <2>7. QED
    BY <2>1, <2>2, <2>3, <2>4, <2>5, <2>6 DEF Next
<1>3. QED
  BY <1>1, <1>2, TypeCorrect, BusInvariant, PTL DEF Spec

\* A camera that UdevMonitor, SyncTable or UdevScan left out of the table, or
\* took out of it, has its add event to come.
THEOREM MissingCameras == Spec => []MissingArePending
<1>1. TypeOK /\ BusInv /\ Missing => MissingArePending
  <2> SUFFICES ASSUME TypeOK, Chains, Missing, ready, NEW p \in Ports,
                      bus[p] \notin devs \cup {NoCamera}
               PROVE  Pending(p, "add") # {}
    BY DEF BusInv, MissingArePending
  <2>1. queue[p] # <<>> /\ queue[p] \in Seq(Event)
    BY DEF Missing, TypeOK
  <2>2. Len(queue[p]) \in DOMAIN queue[p]
    BY <2>1
  <2>a. queue[p][Len(queue[p])] = [action |-> "add", model |-> bus[p].model]
    BY <2>1 DEF Chains, Chain
  <2>3. queue[p][Len(queue[p])].action = "add"
    BY <2>a
  <2>4. QED
    BY <2>2, <2>3 DEF Pending
<1>2. QED
  BY <1>1, TypeCorrect, BusInvariant, MissingInvariant, PTL

-----------------------------------------------------------------------------
\* The set A is finite and has no more elements than B.
Covered(A, B) == IsFiniteSet(A) /\ Cardinality(A) <= Cardinality(B)

\* Covered is kept by a smaller first and a greater second set.
LEMMA CoveredSubset ==
  ASSUME NEW A, NEW B, NEW A1 \in SUBSET A, NEW B1, IsFiniteSet(B1),
         Covered(A, B), B \subseteq B1
  PROVE  Covered(A1, B1)
<1>1. /\ IsFiniteSet(A1) /\ Cardinality(A1) <= Cardinality(A)
      /\ Cardinality(B) <= Cardinality(B1) /\ IsFiniteSet(B)
  BY FS_Subset DEF Covered
<1>2. {Cardinality(A), Cardinality(A1), Cardinality(B), Cardinality(B1)}
        \subseteq Nat
  BY <1>1, FS_CardinalityType DEF Covered
<1>3. QED
  BY <1>1, <1>2 DEF Covered

\* Covered is kept by one more element on both sides.
LEMMA CoveredGrows ==
  ASSUME NEW A, NEW B, IsFiniteSet(B), Covered(A, B), NEW x, NEW y, y \notin B
  PROVE  Covered(A \cup {x}, B \cup {y})
<1>1. /\ IsFiniteSet(A \cup {x})
      /\ Cardinality(A \cup {x}) =
           IF x \in A THEN Cardinality(A) ELSE Cardinality(A) + 1
      /\ Cardinality(B \cup {y}) = Cardinality(B) + 1
  BY FS_AddElement DEF Covered
<1>2. Cardinality(A) \in Nat /\ Cardinality(B) \in Nat
  BY FS_CardinalityType DEF Covered
<1>3. QED
  BY <1>1, <1>2 DEF Covered

\* Covered is kept by one element less on both sides.
LEMMA CoveredShrinks ==
  ASSUME NEW A, NEW B, NEW x \in A, NEW y, NEW A1, NEW B1,
         IsFiniteSet(B), IsFiniteSet(B1),
         Covered(A, B), A1 \subseteq A \ {x}, B \ {y} \subseteq B1
  PROVE  Covered(A1, B1)
<1>1. /\ IsFiniteSet(A \ {x})
      /\ Cardinality(A \ {x}) = Cardinality(A) - 1
      /\ Cardinality(B \ {y}) =
           IF y \in B THEN Cardinality(B) - 1 ELSE Cardinality(B)
  BY FS_RemoveElement DEF Covered
<1>2. Cardinality(A) \in Nat /\ Cardinality(B) \in Nat
  BY FS_CardinalityType DEF Covered
<1>3. Covered(A \ {x}, B \ {y})
  BY <1>1, <1>2 DEF Covered
<1>4. QED
  BY <1>3, CoveredSubset

\* The empty set is covered by any finite set.
LEMMA CoveredEmpty ==
  ASSUME NEW B, IsFiniteSet(B)
  PROVE  Covered({}, B)
<1>1. Cardinality(B) \in Nat
  BY FS_CardinalityType
<1>2. QED
  BY <1>1, FS_EmptySet DEF Covered

\* The ports whose next event will find nothing of the port in the table.
Owing ==
  {p \in Ports : /\ queue[p] # <<>> /\ Head(queue[p]).action = "remove"
                 /\ bus[p] \notin devs}

\* Without a scan ahead of the events, the listener and the table agree, the
\* table has the camera of a port before its own add event only if an earlier
\* one of the same model is still to be removed, and each orphan is matched by
\* a port that owes a search for one.
Answered ==
  /\ known = devs
  /\ \A p \in Ports :
       queue[p] # <<>> /\ bus[p] \in devs
         => Head(queue[p]) = [action |-> "remove", model |-> bus[p].model]
  /\ Covered(Orphans, Owing)

\* A scan ahead of the events is not forgotten.
LEMMA OvertakenBefore == [Next]_vars /\ overtaken => overtaken'
BY DEF Next, Tcluvc_Init, Overtaken, UdevMonitor, UdevMonitor_other,
       CMD_devices, plug, unplug, unplug_other, vars

\* There are finitely many ports that owe something.
LEMMA OwingFinite == IsFiniteSet(Owing) /\ IsFiniteSet(Owing')
<1>1. Owing \subseteq Ports /\ Owing' \subseteq Ports
  BY DEF Owing
<1>2. QED
  BY <1>1, TableAssumption, FS_Subset

\* A scan finds the table as the events have left it, if none is to come.
LEMMA ScanAnswered ==
  ASSUME TypeOK, Missing, Answered, ready, AllServiced
  PROVE  devs = Plugged
<1>1. Owing = {}
  BY DEF Owing, AllServiced
<1>2. Cardinality(Orphans) <= 0 /\ IsFiniteSet(Orphans)
  BY <1>1, FS_EmptySet DEF Answered, Covered
<1>3. Orphans = {}
  BY <1>2, FS_EmptySet, FS_CardinalityType
<1>4. Plugged \subseteq devs
  BY DEF Plugged, Missing, AllServiced
<1>5. QED
  BY <1>3, <1>4 DEF Orphans

\* Tcluvc_Init and CMD_devices, when all events are serviced.
LEMMA AnsweredScan ==
  ASSUME Tcluvc_Init \/ CMD_devices, TypeOK, Missing, Answered, ~overtaken'
  PROVE  Answered'
<1>1. AllServiced /\ UNCHANGED <<bus, queue>> /\ devs' = Plugged
  BY DEF Tcluvc_Init, CMD_devices, Overtaken, UdevScan, environment
<1>2. known' = devs'
  <2>1. CASE Tcluvc_Init
    BY <2>1 DEF Tcluvc_Init
  <2>2. CASE CMD_devices
    <3>1. devs = Plugged
      BY <1>1, <2>2, ScanAnswered DEF CMD_devices
    <3>2. QED
      BY <1>1, <2>2, <3>1 DEF CMD_devices, Answered
  <2>3. QED
    BY <2>1, <2>2
<1>3. Orphans' = {}
  BY <1>1 DEF Orphans, Plugged
<1>4. Covered(Orphans', Owing')
  BY <1>3, OwingFinite, CoveredEmpty
<1>5. QED
  BY <1>1, <1>2, <1>4 DEF Answered, AllServiced

\* UdevMonitor for an event of a camera.  An add event whose name is not that of
\* the camera at the port makes one orphan, and the port owes one; a remove
\* event finds an orphan by its name, or takes any there is.
LEMMA AnsweredMonitor ==
  ASSUME NEW p \in Ports, UdevMonitor(p), TypeOK, Numbers, Chains, Answered
  PROVE  Answered'
<1> DEFINE e == Head(queue[p])
           rest == Tail(queue[p])
           name == [model |-> e.model, num |-> bus[p].num]
<1>1. /\ queue[p] # <<>> /\ UNCHANGED bus
      /\ queue' = [queue EXCEPT ![p] = rest]
  BY DEF UdevMonitor
<1>2. /\ e \in Event /\ e.model \in Models /\ rest \in Seq(Event)
      /\ rest # <<>> => Follows(e, Head(rest))
  BY <1>1, FirstEvent DEF Event
<1>3. rest = <<>> =>
        \/ bus[p] # NoCamera /\ e = [action |-> "add", model |-> bus[p].model]
        \/ e.action = "remove"
  BY <1>1, FirstEvent
<1>4. \/ e.action = "add" /\ DeviceAdded(name)
      \/ e.action = "remove" /\ name \in devs /\ DeviceRemoved(name)
      \/ e.action = "remove" /\ name \notin devs /\ RemoveUnknown
  BY DEF UdevMonitor, UdevUVCName
<1>5. /\ name # NoCamera
      /\ \A q \in Ports : bus[q] = name => q = p
      /\ bus[p] # NoCamera /\ e.model = bus[p].model => name = bus[p]
  <2>1. name # NoCamera
    BY <1>2, TableAssumption DEF NoCamera
  <2>2. \A q \in Ports : bus[q] = name => q = p
    BY <1>2, ServicedName
  <2>3. bus[p] # NoCamera /\ e.model = bus[p].model => name = bus[p]
    BY DEF TypeOK, Names
  <2>4. QED
    BY <2>1, <2>2, <2>3
<1> HIDE DEF name
<1>6. /\ queue'[p] = rest
      /\ \A q \in Ports : q # p => queue'[q] = queue[q]
      /\ NoCamera \notin devs
      /\ Plugged' = Plugged
  BY <1>1, TableAssumption DEF TypeOK, NoCamera, Names, Plugged
<1>7. \A q \in Ports : q # p => (bus[q] \in devs' <=> bus[q] \in devs)
  <2>1. ASSUME NEW q \in Ports, q # p
        PROVE  bus[q] \in devs' <=> bus[q] \in devs
    <3>1. bus[q] # name
      BY <1>5, <2>1
    <3>2. bus[q] \notin Orphans
      BY <1>6 DEF Orphans, Plugged
    <3>3. QED
      BY <1>4, <3>1, <3>2, OrphanRemoved DEF DeviceAdded, DeviceRemoved
  <2>2. QED
    BY <2>1
<1>8. Owing \ {p} \subseteq Owing'
  BY <1>1, <1>6, <1>7 DEF Owing
<1>a. bus[p] \in devs => e = [action |-> "remove", model |-> bus[p].model]
  BY <1>1 DEF Answered
<1>9. bus[p] \in devs => e.action = "remove" /\ e.model = bus[p].model
  BY <1>a
<1>10. bus[p] \in devs => bus[p] # NoCamera /\ name = bus[p]
  BY <1>5, <1>6, <1>9
<1>11. known' = devs'
  BY <1>4, OrphanRemoved DEF Answered, DeviceAdded, DeviceRemoved
<1>12. ASSUME NEW q \in Ports, queue'[q] # <<>>, bus[q] \in devs'
       PROVE  Head(queue'[q]) = [action |-> "remove", model |-> bus[q].model]
  <2>1. CASE q # p
    BY <2>1, <1>6, <1>7, <1>12 DEF Answered
  <2>2. CASE q = p /\ e.action = "add"
    <3>1. bus[p] = name
      BY <2>2, <1>4, <1>9, <1>12 DEF DeviceAdded
    <3>2. e.model = bus[p].model
      BY <3>1 DEF name
    <3>3. QED
      BY <2>2, <3>2, <1>2, <1>6, <1>12 DEF Follows
  <2>3. CASE q = p /\ e.action = "remove"
    <3>1. devs' \subseteq devs
      BY <2>3, <1>4, OrphanRemoved DEF DeviceRemoved
    <3>2. bus[p] = name /\ name \in devs
      BY <2>3, <3>1, <1>10, <1>12
    <3>3. QED
      BY <2>3, <3>2, <1>4, <1>12 DEF DeviceRemoved
  <2>4. QED
    BY <2>1, <2>2, <2>3, <1>4
<1>13. Covered(Orphans', Owing')
  <2>a. Covered(Orphans, Owing)
    BY DEF Answered
  <2>1. CASE e.action = "add" /\ name = bus[p]
    <3>1. Orphans' \subseteq Orphans
      BY <2>1, <1>4, <1>5, <1>6 DEF DeviceAdded, Orphans, Plugged
    <3>2. Owing \subseteq Owing'
      BY <2>1, <1>8 DEF Owing
    <3>3. QED
      BY <2>a, <3>1, <3>2, OwingFinite, CoveredSubset
  <2>2. CASE e.action = "add" /\ name # bus[p]
    <3>1. rest # <<>>
      BY <2>2, <1>3, <1>5
    <3>2. Head(rest).action = "remove"
      BY <2>2, <3>1, <1>2 DEF Follows
    <3>3. bus[p] \notin devs'
      BY <2>2, <1>4, <1>9 DEF DeviceAdded
    <3>4. p \in Owing' /\ p \notin Owing
      BY <2>2, <3>1, <3>2, <3>3, <1>1, <1>6 DEF Owing
    <3>5. Orphans' \subseteq Orphans \cup {name}
      BY <2>2, <1>4, <1>6 DEF DeviceAdded, Orphans
    <3>6. Owing \cup {p} \subseteq Owing'
      BY <3>4, <1>8
    <3>7. Covered(Orphans \cup {name}, Owing \cup {p})
      BY <2>a, <3>4, OwingFinite, CoveredGrows
    <3>8. QED
      BY <3>5, <3>6, <3>7, OwingFinite, CoveredSubset
  <2>3. CASE e.action = "remove" /\ name \in devs /\ name = bus[p]
    <3>1. Orphans' \subseteq Orphans
      BY <2>3, <1>4, <1>6 DEF DeviceRemoved, Orphans
    <3>2. Owing \subseteq Owing'
      BY <2>3, <1>8 DEF Owing
    <3>3. QED
      BY <2>a, <3>1, <3>2, OwingFinite, CoveredSubset
  <2>4. CASE e.action = "remove" /\ name \in devs /\ name # bus[p]
    <3>1. name \in Orphans
      BY <2>4, <1>5 DEF Orphans, Plugged
    <3>2. Orphans' \subseteq Orphans \ {name}
      BY <2>4, <1>4, <1>6 DEF DeviceRemoved, Orphans
    <3>3. QED
      BY <2>a, <3>1, <3>2, <1>8, OwingFinite, CoveredShrinks
  <2>5. CASE e.action = "remove" /\ name \notin devs
    <3>1. CASE Orphans = {} /\ UNCHANGED devs
      <4>1. Orphans' = {}
        BY <3>1, <1>6 DEF Orphans
      <4>2. QED
        BY <4>1, OwingFinite, CoveredEmpty
    <3>2. ASSUME NEW orphan \in Orphans, devs' = devs \ {orphan}
          PROVE  Covered(Orphans', Owing')
      <4>1. Orphans' \subseteq Orphans \ {orphan}
        BY <3>2, <1>6 DEF Orphans
      <4>2. QED
        BY <2>a, <4>1, <1>8, OwingFinite, CoveredShrinks
    <3>3. QED
      BY <2>5, <3>1, <3>2, <1>4, OrphanRemoved
  <2>6. QED
    BY <2>1, <2>2, <2>3, <2>4, <2>5, <1>4
<1>14. QED
  BY <1>1, <1>11, <1>12, <1>13 DEF Answered

\* UdevMonitor for a remove event of something else.
LEMMA AnsweredOther ==
  ASSUME UdevMonitor_other, Answered
  PROVE  Answered'
<1>1. UNCHANGED <<bus, queue>> /\ RemoveUnknown
  BY DEF UdevMonitor_other
<1>2. devs' \subseteq devs /\ Orphans' \subseteq Orphans /\ known' = devs'
  BY <1>1, OrphanRemoved DEF Orphans, Plugged, Answered
<1>3. Owing \subseteq Owing'
  BY <1>1, <1>2 DEF Owing
<1>4. Covered(Orphans', Owing')
  BY <1>2, <1>3, OwingFinite, CoveredSubset DEF Answered
<1>5. QED
  BY <1>1, <1>2, <1>4 DEF Answered

\* A camera is plugged: no orphan is made and none is found.
LEMMA AnsweredPlug ==
  ASSUME NEW p \in Ports, NEW model \in Models, plug(p, model),
         TypeOK, Numbers, Answered
  PROVE  Answered'
<1> DEFINE cam == [model |-> model, num |-> plugs + 1]
           e == [action |-> "add", model |-> model]
<1>1. /\ bus[p] = NoCamera /\ bus' = [bus EXCEPT ![p] = cam]
      /\ queue' = [queue EXCEPT ![p] = Append(@, e)]
      /\ UNCHANGED <<devs, known>>
  BY DEF plug, Queued
<1>2. \A q \in Ports : q # p => bus'[q] = bus[q] /\ queue'[q] = queue[q]
  BY <1>1 DEF TypeOK
<1>3. bus'[p] = cam /\ cam \notin devs
  <2>1. plugs \in Nat /\ cam.num = plugs + 1
    BY DEF TypeOK
  <2>2. QED
    BY <1>1, <2>1 DEF TypeOK, Numbers
<1>4. queue[p] # <<>> => Head(queue'[p]) = Head(queue[p]) /\ queue'[p] # <<>>
  <2>1. queue[p] \in Seq(Event) /\ e \in Event
    BY DEF TypeOK, Event
  <2>2. QED
    BY <1>1, <2>1, SMTT(60) DEF TypeOK
<1>5. Orphans' \subseteq Orphans
  BY <1>1, <1>2 DEF Orphans, Plugged
<1>6. Owing \subseteq Owing'
  BY <1>1, <1>2, <1>3, <1>4 DEF Owing
<1>7. Covered(Orphans', Owing')
  BY <1>5, <1>6, OwingFinite, CoveredSubset DEF Answered
<1>8. QED
  BY <1>1, <1>2, <1>3, <1>7 DEF Answered

\* A camera is unplugged: if it was in the table it is an orphan now.
LEMMA AnsweredUnplug ==
  ASSUME NEW p \in Ports, unplug(p), TypeOK, Answered
  PROVE  Answered'
<1> DEFINE e == [action |-> "remove", model |-> bus[p].model]
<1>1. /\ bus[p] # NoCamera /\ bus' = [bus EXCEPT ![p] = NoCamera]
      /\ queue' = [queue EXCEPT ![p] = Append(@, e)]
      /\ UNCHANGED <<devs, known>>
  BY DEF unplug, Queued
<1>2. \A q \in Ports : q # p => bus'[q] = bus[q] /\ queue'[q] = queue[q]
  BY <1>1 DEF TypeOK
<1>3. bus'[p] = NoCamera /\ NoCamera \notin devs
  BY <1>1, TableAssumption DEF TypeOK, Names, NoCamera
<1>4. /\ queue'[p] # <<>>
      /\ Head(queue'[p]) = IF queue[p] = <<>> THEN e ELSE Head(queue[p])
  <2>1. queue[p] \in Seq(Event) /\ e \in Event
    BY <1>1 DEF TypeOK, Event, Names
  <2>2. QED
    BY <1>1, <2>1 DEF TypeOK
<1>5. Owing \subseteq Owing'
  BY <1>1, <1>2, <1>3, <1>4 DEF Owing
<1>6. CASE bus[p] \in devs
  <2>1. queue[p] # <<>> => Head(queue[p]) = e
    BY <1>6 DEF Answered
  <2>2. Head(queue'[p]).action = "remove"
    BY <1>4, <2>1
  <2>3. p \in Owing' /\ p \notin Owing
    BY <1>1, <1>3, <1>4, <1>6, <2>2 DEF Owing
  <2>4. Covered(Orphans \cup {bus[p]}, Owing \cup {p})
    BY <2>3, OwingFinite, CoveredGrows DEF Answered
  <2>5. Orphans' \subseteq Orphans \cup {bus[p]}
    BY <1>1, <1>2 DEF Orphans, Plugged
  <2>6. Covered(Orphans', Owing')
    BY <1>5, <2>3, <2>4, <2>5, OwingFinite, CoveredSubset
  <2>7. QED
    BY <1>1, <1>2, <1>3, <2>6 DEF Answered
<1>7. CASE bus[p] \notin devs
  <2>1. Orphans' \subseteq Orphans
    BY <1>1, <1>2, <1>7 DEF Orphans, Plugged
  <2>2. Covered(Orphans', Owing')
    BY <1>5, <2>1, OwingFinite, CoveredSubset DEF Answered
  <2>3. QED
    BY <1>1, <1>2, <1>3, <2>2 DEF Answered
<1>8. QED
  BY <1>6, <1>7

\* Orphans are matched as long as no scan is ahead of the events.
LEMMA AnsweredInvariant == Spec => [](~overtaken => Answered)
<1>1. Init => Answered
  <2> SUFFICES ASSUME Init
               PROVE  Answered
    OBVIOUS
  <2>1. Orphans = {}
    BY DEF Init, Orphans
  <2>2. Covered(Orphans, Owing)
    BY <2>1, OwingFinite, CoveredEmpty
  <2>3. QED
    BY <2>2 DEF Init, Answered
<1>2. TypeOK /\ BusInv /\ Missing /\ (~overtaken => Answered) /\ [Next]_vars
        => (~overtaken => Answered)'
  <2> SUFFICES ASSUME TypeOK, Numbers, Chains, Missing, Answered, [Next]_vars,
                      ~overtaken'
               PROVE  Answered'
    BY OvertakenBefore DEF BusInv
  <2>1. CASE unplug_other \/ UNCHANGED vars
    <3>1. UNCHANGED <<bus, queue, devs, known>>
      BY <2>1 DEF unplug_other, vars, environment
    <3>2. UNCHANGED <<Orphans, Owing>>
      BY <3>1 DEF Orphans, Owing, Plugged
    <3>3. QED
      BY <3>1, <3>2 DEF Answered
  <2>2. QED
    BY <2>1, AnsweredScan, AnsweredMonitor, AnsweredOther, AnsweredPlug,
       AnsweredUnplug DEF Next
<1>3. QED
  BY <1>1, <1>2, TypeCorrect, BusInvariant, MissingInvariant, PTL DEF Spec

\* A script that lists the devices and follows its listen callback (UdevMonitor)
\* from there knows what is plugged once all events are serviced.
THEOREM ListenerInformed == Spec => []ListenerKnows
<1>1. TypeOK /\ Missing /\ (~overtaken => Answered) => ListenerKnows
  BY ScanAnswered DEF ListenerKnows, Answered
<1>2. QED
  BY <1>1, TypeCorrect, MissingInvariant, AnsweredInvariant, PTL

\* There is a remove event to come at each port that owes one.
LEMMA OwingPending ==
  ASSUME TypeOK
  PROVE  IsFiniteSet(Removes) /\ Cardinality(Owing) <= Cardinality(Removes)
<1> DEFINE at(p) == {p} \X Pending(p, "remove")
           ats == {at(p) : p \in Ports}
           f == [p \in Ports |-> at(p)]
           g == [p \in Owing |-> <<p, 1>>]
<1>1. ASSUME NEW p \in Ports
      PROVE  IsFiniteSet(at(p))
  <2>a. queue[p] \in Seq(Event)
    BY DEF TypeOK
  <2>1. Pending(p, "remove") \subseteq 1..Len(queue[p]) /\ Len(queue[p]) \in Nat
    BY <2>a DEF Pending
  <2>2. IsFiniteSet(1..Len(queue[p]))
    BY <2>1, FS_Interval
  <2>b. IsFiniteSet(Pending(p, "remove"))
    BY <2>1, <2>2, FS_Subset
  <2>3. IsFiniteSet({p})
    BY FS_Singleton
  <2>4. QED
    BY <2>b, <2>3, FS_Product
<1>2. IsFiniteSet(ats)
  <2>1. f \in Surjection(Ports, ats)
    BY DEF Surjection
  <2>2. QED
    BY <2>1, TableAssumption, FS_Surjection
<1>3. IsFiniteSet(Removes)
  BY <1>1, <1>2, FS_UNION DEF Removes
<1>4. g \in Injection(Owing, Removes)
  <2>1. ASSUME NEW p \in Owing
        PROVE  <<p, 1>> \in Removes
    <3>1. p \in Ports /\ queue[p] \in Seq(Event) /\ queue[p] # <<>>
      BY DEF Owing, TypeOK
    <3>2. 1 \in DOMAIN queue[p] /\ queue[p][1].action = "remove"
      BY <3>1 DEF Owing
    <3>3. QED
      BY <3>1, <3>2 DEF Removes, Pending
  <2>2. \A p, q \in Owing : g[p] = g[q] => p = q
    OBVIOUS
  <2>3. g \in [Owing -> Removes]
    BY <2>1
  <2>4. QED
    BY <2>2, <2>3 DEF Injection, IsInjective
<1>5. QED
  BY <1>3, <1>4, FS_Injection

\* What the table of UdevMonitor and SyncTable has too much or too little, an
\* event to come puts right.
THEOREM ChangesPending == Spec => []ChangesArePending
<1>1. TypeOK /\ (~overtaken => Answered) => OrphansArePending
  <2> SUFFICES ASSUME TypeOK, Answered
               PROVE  Cardinality(devs \ Plugged) <= Cardinality(Removes)
    BY DEF OrphansArePending
  <2>1. /\ Cardinality(Orphans) <= Cardinality(Owing)
        /\ Cardinality(Owing) <= Cardinality(Removes)
    BY OwingPending DEF Answered, Covered
  <2>2. /\ Cardinality(Orphans) \in Nat /\ Cardinality(Owing) \in Nat
        /\ Cardinality(Removes) \in Nat
    BY OwingPending, OwingFinite, FS_CardinalityType DEF Answered, Covered
  <2>3. QED
    BY <2>1, <2>2 DEF Orphans
<1>2. QED
  BY <1>1, TypeCorrect, AnsweredInvariant, MissingCameras, PTL
     DEF ChangesArePending
=============================================================================
