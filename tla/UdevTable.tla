----------------------------- MODULE UdevTable ------------------------------
(***************************************************************************)
(* The table of devices in tcluvc.c, kept up to date by events of udev.    *)
(*                                                                         *)
(* The bus runs ahead of the events.  What an event says of its device was *)
(* recorded with it, but the device number is read from sysfs when the     *)
(* event is serviced: it is missing if the port is empty by then, and that *)
(* of another device if one was plugged into the same port.  A name is     *)
(* [model, num], with num = 0 for a missing number.  Events of one port    *)
(* arrive in order, events of different ports in any order.                *)
(*                                                                         *)
(* A definition named X_Y is the definition X with a slip Y in it: the     *)
(* properties are tried on those too.  Next does not use them.             *)
(***************************************************************************)
EXTENDS Naturals, Sequences, FiniteSets

CONSTANTS
  Ports, Models,
  MaxPlugs,    \* bound: devices plugged, which the kernel numbers
  MaxOthers    \* bound: pending remove events of what is not a camera

ASSUME TableAssumption ==
  /\ MaxPlugs \in Nat \ {0} /\ MaxOthers \in Nat
  /\ IsFiniteSet(Ports) /\ "none" \notin Models

VARIABLES
  bus,              \* the camera at each port
  plugs,            \* the number given last
  queue,            \* for each port the events not serviced
  others,           \* remove events of other USB devices and interfaces
  ready,            \* Tcluvc_Init is done
  devs, devsNeedRefresh,
  known,            \* history: what a script that lists the devices once and
                    \* follows its listen callback from there takes to be plugged
  overtaken         \* history: a scan was ahead of an event not serviced

environment == <<bus, plugs, queue, others>>

vars == <<environment, ready, devs, devsNeedRefresh, known, overtaken>>

Names == [model : Models, num : 0..MaxPlugs]

NoCamera == [model |-> "none", num |-> 0]

Event == [action : {"add", "remove"}, model : Models]

TypeOK ==
  /\ bus \in [Ports -> Names \cup {NoCamera}]
  /\ plugs \in 0..MaxPlugs
  /\ queue \in [Ports -> Seq(Event)]
  /\ others \in 0..MaxOthers
  /\ ready \in BOOLEAN /\ devsNeedRefresh \in BOOLEAN /\ overtaken \in BOOLEAN
  /\ devs \subseteq Names /\ known \subseteq Names

Plugged == {bus[p] : p \in Ports} \ {NoCamera}

AllServiced == \A p \in Ports : queue[p] = << >>

-----------------------------------------------------------------------------
(***************************************************************************)
(* The operations of tcluvc.c.                                             *)
(***************************************************************************)

\* UdevUVCName of an event of port p.
UdevUVCName(p, event) == [model |-> event.model, num |-> bus[p].num]

\* UdevScan empties the table and fills it from the bus.
UdevScan == Plugged

Overtaken == overtaken' = (overtaken \/ ~AllServiced)

Tcluvc_Init ==
  /\ ~ready
  /\ ready' = TRUE
  /\ devs' = UdevScan /\ known' = devs' /\ Overtaken
  /\ UNCHANGED <<environment, devsNeedRefresh>>

\* An add event whose name is in the table already is not announced.
DeviceAdded(name) ==
  /\ devs' = devs \cup {name}
  /\ known' = IF name \in devs THEN known ELSE known \cup {name}
  /\ UNCHANGED devsNeedRefresh

DeviceRemoved(name) ==
  /\ devs' = devs \ {name}
  /\ known' = known \ {name}

Orphans == devs \ Plugged

SyncTable_Silent ==
  /\ \/ Orphans = {} /\ UNCHANGED devs
     \/ \E name \in Orphans : devs' = devs \ {name}
  /\ devsNeedRefresh' = TRUE /\ UNCHANGED known

\* "Sync the table the long way": drop and announce one entry, if there is one,
\* that is not on the bus.
SyncTable ==
  /\ \/ Orphans = {} /\ UNCHANGED <<devs, known>>
     \/ \E name \in Orphans : DeviceRemoved(name)
  /\ devsNeedRefresh' = TRUE

RemoveUnknown_Ignored == UNCHANGED <<devs, known, devsNeedRefresh>>

RemoveUnknown == SyncTable

\* UdevMonitor, for the first event of port p.
UdevMonitor(p) ==
  /\ ready /\ queue[p] # << >>
  /\ LET event == Head(queue[p])
         name  == UdevUVCName(p, event)
     IN \/ event.action = "add" /\ DeviceAdded(name)
        \/ /\ event.action = "remove" /\ name \in devs
           /\ DeviceRemoved(name) /\ UNCHANGED devsNeedRefresh
        \/ event.action = "remove" /\ name \notin devs /\ RemoveUnknown
  /\ queue' = [queue EXCEPT ![p] = Tail(@)]
  /\ UNCHANGED <<bus, plugs, others, ready, overtaken>>

\* UdevMonitor, for the remove event of something that is not a camera.
UdevMonitor_other ==
  /\ ready /\ others > 0
  /\ RemoveUnknown
  /\ others' = others - 1
  /\ UNCHANGED <<bus, plugs, queue, ready, overtaken>>

CMD_devices ==
  /\ ready /\ devsNeedRefresh
  /\ devs' = UdevScan
  /\ devsNeedRefresh' = FALSE /\ Overtaken
  /\ UNCHANGED <<environment, ready, known>>

-----------------------------------------------------------------------------
(***************************************************************************)
(* The user at the USB ports.                                              *)
(***************************************************************************)

Queued(p, action, model) ==
  queue' = [queue EXCEPT ![p] = Append(@, [action |-> action, model |-> model])]

plug(p, model) ==
  /\ bus[p] = NoCamera /\ plugs < MaxPlugs
  /\ plugs' = plugs + 1
  /\ bus' = [bus EXCEPT ![p] = [model |-> model, num |-> plugs + 1]]
  /\ Queued(p, "add", model)
  /\ UNCHANGED <<others, ready, devs, devsNeedRefresh, known, overtaken>>

unplug(p) ==
  /\ bus[p] # NoCamera
  /\ bus' = [bus EXCEPT ![p] = NoCamera]
  /\ Queued(p, "remove", bus[p].model)
  /\ UNCHANGED <<plugs, others, ready, devs, devsNeedRefresh, known, overtaken>>

unplug_other ==
  /\ others < MaxOthers
  /\ others' = others + 1
  /\ UNCHANGED <<bus, plugs, queue, ready, devs, devsNeedRefresh, known, overtaken>>

-----------------------------------------------------------------------------
\* From the moment at which the monitor is enabled, with a camera or none at the
\* bus, to the scan of Tcluvc_Init, events are queued.
Init ==
  /\ \/ bus = [p \in Ports |-> NoCamera] /\ plugs = 0
     \/ /\ plugs = 1
        /\ \E q \in Ports, m \in Models :
             bus = [p \in Ports |-> IF p = q THEN [model |-> m, num |-> 1] ELSE NoCamera]
  /\ queue = [p \in Ports |-> << >>] /\ others = 0
  /\ ready = FALSE
  /\ devs = {} /\ devsNeedRefresh = FALSE
  /\ known = {} /\ overtaken = FALSE

Next ==
  \/ Tcluvc_Init
  \/ \E p \in Ports : UdevMonitor(p)
  \/ UdevMonitor_other
  \/ CMD_devices
  \/ \E p \in Ports, model \in Models : plug(p, model)
  \/ \E p \in Ports : unplug(p)
  \/ unplug_other

Spec == Init /\ [][Next]_vars

-----------------------------------------------------------------------------
Pending(p, action) == {i \in DOMAIN queue[p] : queue[p][i].action = action}

Removes == UNION {{p} \X Pending(p, "remove") : p \in Ports}

\* Entries of cameras that are gone never outnumber the remove events to come:
\* although an event may be serviced when its port is empty or holds another
\* camera, and the name it looks for is not the one in the table, each entry left
\* over is found by a later event.  This holds as long as no scan (UdevScan) is
\* ahead of the events.
OrphansArePending ==
  ready /\ ~overtaken => Cardinality(devs \ Plugged) <= Cardinality(Removes)

\* A camera that is missing from the table has its add event to come, also after
\* scans: neither the remove event of an earlier camera at its port nor a search
\* for orphans takes it out for good.
MissingArePending ==
  ready => \A p \in Ports :
             bus[p] \notin devs \cup {NoCamera} => Pending(p, "add") # {}

\* What the table has too much or too little, an event to come puts right.
ChangesArePending == OrphansArePending /\ MissingArePending

\* Once all events are serviced, a listener was told of all that is plugged and
\* of all that is gone (UdevMonitor's callback), unless a scan changed the table
\* ahead of the events.
ListenerKnows ==
  ready /\ ~overtaken /\ AllServiced => known = Plugged

\* uvc.n:327 of "uvc devices": the list "is refreshed on plug and unplug of
\* devices".  Once all events are serviced, the table is what is plugged, or the
\* command will scan again.
DevicesRefreshed ==
  ready /\ AllServiced /\ ~devsNeedRefresh => devs = Plugged

=============================================================================
