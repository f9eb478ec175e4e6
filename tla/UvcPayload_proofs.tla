------------------------- MODULE UvcPayload_proofs --------------------------
(***************************************************************************)
(* Proofs about UvcPayload, for cameras with any number of frames, of any  *)
(* number of packets, and for any number of starts.                        *)
(***************************************************************************)
EXTENDS UvcPayload, TLAPS

LastOf(b) == b[Len(b)]

Ordered(b) == \A p \in Neighbours(b) :
                p[1].frame <= p[2].frame /\ p[1].frame % 2 = p[2].frame % 2

\* While the camera is within a frame, the frame has room for a further packet.
Unfinished ==
  /\ ~camera.ended => first <= camera.frame /\ camera.index < MaxPackets
  /\ first <= camera.frame + 1

\* The frames that were published, and the one that is being assembled, do not
\* outnumber those of the camera, of which an unfinished one was not published;
\* and if the identifier bit is about to change within a frame, all in outbuf is
\* of earlier ones.
Counting ==
  /\ buf.seq <= camera.frame
  /\ ~camera.ended \/ buf.outbuf # << >> => buf.seq < camera.frame
  /\ /\ ~is_isight /\ camera.frame >= first
     /\ buf.outbuf # << >> /\ fid # camera.frame % 2
     => buf.seq + 1 < camera.frame

TypeInv == TypeOK /\ Unfinished /\ Counting

\* What is assembled has the identifier bit of the last header.
OneFrameInv ==
  ~is_isight /\ starts = 1 =>
    /\ Ordered(buf.outbuf) /\ Ordered(buf.holdbuf)
    /\ buf.outbuf # << >> =>
         /\ LastOf(buf.outbuf).frame <= camera.frame
         /\ LastOf(buf.outbuf).frame % 2 = fid

-----------------------------------------------------------------------------
(***************************************************************************)
(* One packet.                                                             *)
(***************************************************************************)

Buffers == [outbuf : Seq(DataPacket), holdbuf : Seq(DataPacket),
            seq : Nat, hold_seq : Nat]

Payload == [header : BOOLEAN, fid : {0, 1}, eof : BOOLEAN,
            data : {<< >>} \cup {<<d>> : d \in DataPacket}]

Swapped(p) == IF FrameChanged(p) THEN SwapBuffers(buf) ELSE buf

LEMMA Parity == \A n \in Nat : n % 2 \in {0, 1}
  BY SMT

LEMMA SwapBuffersType ==
  ASSUME NEW b \in Buffers
  PROVE  /\ SwapBuffers(b) \in Buffers
         /\ SwapBuffers(b).outbuf = << >> /\ SwapBuffers(b).seq = b.seq + 1
         /\ SwapBuffers(b).hold_seq = b.seq
         /\ SwapBuffers(b).holdbuf = b.outbuf
  BY DEF SwapBuffers, Buffers

\* The packets that the camera sends.
LEMMA PacketType ==
  \A header \in BOOLEAN, n \in Nat, eof \in BOOLEAN,
     data \in {<< >>} \cup {<<d>> : d \in DataPacket} :
    Packet(header, n, eof, data) \in Payload
  BY Parity DEF Packet, Payload

\* What a packet does to the buffers: it ends the previous frame, or this one,
\* or both.
LEMMA Processed ==
  ASSUME buf \in Buffers, NEW p \in Payload, ProcessPayload(p)
  PROVE  /\ buf' \in Buffers
         /\ buf'.seq = buf.seq + (IF FrameChanged(p) THEN 1 ELSE 0)
                               + (IF p.data # << >> /\ p.eof THEN 1 ELSE 0)
         /\ buf'.hold_seq = buf.hold_seq \/ buf'.hold_seq < buf'.seq
         /\ buf'.outbuf # << >> =>
              \/ p.data # << >> /\ ~p.eof
              \/ p.data = << >> /\ ~FrameChanged(p) /\ buf.outbuf # << >>
<1> DEFINE appended == IF p.data = << >> THEN Swapped(p)
                       ELSE [Swapped(p) EXCEPT !.outbuf = @ \o p.data]
<1>1. /\ Swapped(p) \in Buffers
      /\ Swapped(p).seq = buf.seq + (IF FrameChanged(p) THEN 1 ELSE 0)
      /\ Swapped(p).hold_seq = buf.hold_seq \/ Swapped(p).hold_seq < Swapped(p).seq
      /\ Swapped(p).outbuf # << >> => ~FrameChanged(p) /\ buf.outbuf # << >>
  <2>1. CASE FrameChanged(p)
    <3>1. Swapped(p) = SwapBuffers(buf)
      BY <2>1 DEF Swapped
    <3>2. SwapBuffers(buf).hold_seq < SwapBuffers(buf).seq
      BY SwapBuffersType DEF Buffers
    <3>3. QED
      BY <2>1, <3>1, <3>2, SwapBuffersType
  <2>2. CASE ~FrameChanged(p)
    BY <2>2 DEF Swapped, Buffers
  <2>3. QED
    BY <2>1, <2>2
<1>2. p.data \in Seq(DataPacket)
  <2>1. p.data = << >> \/ \E d \in DataPacket : p.data = <<d>>
    BY DEF Payload
  <2>2. \A d \in DataPacket : <<d>> \in Seq(DataPacket)
    OBVIOUS
  <2>3. << >> \in Seq(DataPacket)
    OBVIOUS
  <2>4. QED
    BY <2>1, <2>2, <2>3
<1>3. /\ appended \in Buffers
      /\ appended.seq = Swapped(p).seq /\ appended.hold_seq = Swapped(p).hold_seq
      /\ p.data = << >> => appended = Swapped(p)
  <2>1. CASE p.data = << >>
    BY <2>1, <1>1
  <2>2. CASE p.data # << >>
    <3> DEFINE out == Swapped(p).outbuf \o p.data
    <3>1. out \in Seq(DataPacket)
      BY <1>1, <1>2 DEF Buffers
    <3>2. appended = [Swapped(p) EXCEPT !.outbuf = out]
      BY <2>2
    <3> HIDE DEF appended, out
    <3>3. QED
      BY <2>2, <1>1, <3>1, <3>2 DEF Buffers
  <2>3. QED
    BY <2>1, <2>2
<1> HIDE DEF appended
<1>4. buf' = IF p.data # << >> /\ p.eof THEN SwapBuffers(appended) ELSE appended
  BY DEF ProcessPayload, appended, Swapped
<1>5. CASE p.data # << >> /\ p.eof
  <2>1. /\ buf' \in Buffers /\ buf'.seq = appended.seq + 1
        /\ buf'.hold_seq = appended.seq /\ buf'.outbuf = << >>
    BY <1>3, <1>4, <1>5, SwapBuffersType
  <2>2. appended.seq \in Nat
    BY <1>3 DEF Buffers
  <2>3. buf'.seq = buf.seq + (IF FrameChanged(p) THEN 1 ELSE 0)
                           + (IF p.data # << >> /\ p.eof THEN 1 ELSE 0)
    BY <1>1, <1>3, <1>5, <2>1
  <2>4. buf'.hold_seq < buf'.seq
    BY <2>1, <2>2
  <2>5. QED
    BY <2>1, <2>3, <2>4
<1>6. CASE ~(p.data # << >> /\ p.eof)
  <2>1. buf' = appended
    BY <1>4, <1>6
  <2>2. buf.seq + (IF FrameChanged(p) THEN 1 ELSE 0) \in Nat
    BY DEF Buffers
  <2>3. buf'.seq = buf.seq + (IF FrameChanged(p) THEN 1 ELSE 0)
                           + (IF p.data # << >> /\ p.eof THEN 1 ELSE 0)
    BY <1>1, <1>3, <1>6, <2>1, <2>2
  <2>4. buf'.outbuf # << >> =>
              \/ p.data # << >> /\ ~p.eof
              \/ p.data = << >> /\ ~FrameChanged(p) /\ buf.outbuf # << >>
    BY <1>1, <1>3, <1>6, <2>1 DEF Payload
  <2>5. QED
    BY <1>1, <1>3, <2>1, <2>3, <2>4
<1>7. QED
  BY <1>5, <1>6

-----------------------------------------------------------------------------
(***************************************************************************)
(* The types, and the fit of the copy.                                     *)
(***************************************************************************)

\* What the actions of the camera have in common when they send packet p.
CameraStep(p) ==
  /\ Arrives(p)
  /\ ~is_isight => p.header /\ p.fid = camera'.frame % 2
  /\ is_isight /\ p.header => camera.frame < camera'.frame
  /\ p.data # << >> \/ ~camera'.ended => camera.frame < camera'.frame \/ ~camera.ended
  /\ p.data # << >> /\ p.eof => camera'.ended
  /\ \A d \in DataPacket : p.data = <<d>> => d.frame = camera'.frame
  /\ camera.frame <= camera'.frame /\ first <= camera'.frame
  /\ camera' \in [frame : 0..MaxFrames, index : 0..MaxPackets, ended : BOOLEAN]
  /\ ~camera'.ended => camera'.index < MaxPackets
  /\ UNCHANGED <<kind, frame, starts, first>>

\* How packet p follows the previous ones: a frame begins with a header, after
\* the end of the frame before, and its data packets are numbered.
Follows(p) ==
  /\ p.fid = camera'.frame % 2
  /\ camera.frame < camera'.frame =>
       p.header /\ camera.ended /\ camera'.frame = camera.frame + 1
  /\ p.data = << >> =>
       \/ camera' = camera
       \/ camera.frame < camera'.frame /\ camera'.index = 0 /\ ~camera'.ended
  /\ \A d \in DataPacket : p.data = <<d>> =>
       /\ d.index = camera'.index /\ d.last = camera'.ended
       /\ camera'.index = IF camera.frame < camera'.frame THEN 1
                          ELSE camera.index + 1

LEMMA CameraSteps ==
  ASSUME TypeInv, FrameHeader \/ FirstData \/ MoreData \/ Trailer
  PROVE  \E p \in Payload : CameraStep(p) /\ Follows(p)
<1> USE PayloadAssumption DEF TypeInv, TypeOK, Unfinished
<1>1. CASE FrameHeader
  <2> DEFINE p == Packet(TRUE, camera.frame + 1, FALSE, << >>)
  <2>1. p \in Payload
    <3>1. camera.frame + 1 \in Nat
      OBVIOUS
    <3>2. QED
      BY <3>1, PacketType, Zenon
  <2>2. p.header = TRUE /\ p.fid = (camera.frame + 1) % 2 /\ p.eof = FALSE /\ p.data = << >>
    BY DEF Packet
  <2>3. \A d \in DataPacket : << >> # <<d>>
    OBVIOUS
  <2>4. /\ camera.ended /\ camera.frame < MaxFrames /\ Arrives(p)
        /\ camera' = [frame |-> camera.frame + 1, index |-> 0, ended |-> FALSE]
        /\ UNCHANGED <<kind, frame, starts, first>>
    BY <1>1 DEF FrameHeader
  <2> HIDE DEF p
  <2>5. CameraStep(p)
    BY <2>2, <2>3, <2>4, SMTT(60) DEF CameraStep
  <2>6. Follows(p)
    BY <2>2, <2>3, <2>4 DEF Follows
  <2>7. QED
    BY <2>1, <2>5, <2>6
<1>2. ASSUME NEW n \in 1..MaxFrames, NEW i \in 1..MaxPackets,
             DataPackets(n, i), first <= n,
             \/ n = camera.frame + 1 /\ i = 1 /\ camera.ended /\ ~is_isight
             \/ n = camera.frame /\ i = camera.index + 1 /\ ~camera.ended
      PROVE  \E p \in Payload : CameraStep(p) /\ Follows(p)
  <2>1. PICK last \in BOOLEAN :
          /\ i = MaxPackets => last
          /\ camera' = [frame |-> n, index |-> i, ended |-> last]
          /\ Arrives(Packet(~is_isight, n, last /\ marks /\ ~is_isight,
                            <<[frame |-> n, index |-> i, last |-> last]>>))
          /\ UNCHANGED <<kind, frame, starts, first>>
    BY <1>2 DEF DataPackets
  <2> DEFINE d == [frame |-> n, index |-> i, last |-> last]
             eof == last /\ marks /\ ~is_isight
             p == Packet(~is_isight, n, eof, <<d>>)
  <2>2. d \in DataPacket
    BY DEF DataPacket
  <2>3. eof \in BOOLEAN
    OBVIOUS
  <2>4. p \in Payload
    <3>1. n \in Nat /\ (~is_isight) \in BOOLEAN
      OBVIOUS
    <3> HIDE DEF eof, d
    <3>2. QED
      BY <2>2, <2>3, <3>1, PacketType, Zenon
  <2>5. /\ p.header = ~is_isight /\ p.fid = n % 2 /\ p.eof = eof
    BY DEF Packet
  <2>6. Arrives(p)
    BY <2>1
  <2> HIDE DEF p
  <2>7. /\ camera'.frame = n /\ camera'.index = i /\ camera'.ended = last
        /\ camera' \in [frame : 0..MaxFrames, index : 0..MaxPackets, ended : BOOLEAN]
    BY <2>1
  <2>8. ~camera'.ended => camera'.index < MaxPackets
    BY <2>1, <2>7
  <2>9. p.eof => camera'.ended
    BY <2>5, <2>7
  <2>10. UNCHANGED <<kind, frame, starts, first>>
    BY <2>1
  <2>11. camera.frame <= camera'.frame /\ first <= camera'.frame
    BY <1>2, <2>7, SMTT(60)
  <2>12. camera.frame < camera'.frame \/ ~camera.ended
    BY <1>2, <2>7, SMTT(60)
  <2>13. /\ ~is_isight => p.header /\ p.fid = camera'.frame % 2
         /\ ~(is_isight /\ p.header)
    BY <2>5, <2>7
  <2>14. \A e \in DataPacket : p.data = <<e>> =>
           e.frame = camera'.frame /\ e.index = camera'.index /\ e.last = camera'.ended
    <3>1. p.data = <<d>> /\ d.frame = n /\ d.index = i /\ d.last = last
      BY DEF p, Packet
    <3>2. \A e \in DataPacket : <<d>> = <<e>> => d = e
      BY Zenon
    <3>3. QED
      BY <2>7, <3>1, <3>2
  <2>15. CameraStep(p)
    BY <2>6, <2>7, <2>8, <2>9, <2>10, <2>11, <2>12, <2>13, <2>14 DEF CameraStep
  <2>16. p.data # << >> /\ p.fid = camera'.frame % 2
    <3>1. p.data = <<d>>
      BY DEF p, Packet
    <3>2. QED
      BY <2>5, <2>7, <3>1
  <2>17. /\ camera.frame < camera'.frame =>
               p.header /\ camera.ended /\ camera'.frame = camera.frame + 1
         /\ camera'.index = IF camera.frame < camera'.frame THEN 1
                            ELSE camera.index + 1
    BY <1>2, <2>5, <2>7, SMTT(120)
  <2>18. Follows(p)
    BY <2>14, <2>16, <2>17 DEF Follows
  <2>19. QED
    BY <2>4, <2>15, <2>18
<1>3. CASE FirstData
  BY <1>2, <1>3 DEF FirstData
<1>4. CASE MoreData
  BY <1>2, <1>4 DEF MoreData
<1>5. CASE Trailer
  <2> DEFINE p == Packet(TRUE, camera.frame, camera.ended, << >>)
  <2>1. p \in Payload
    <3>1. camera.frame \in Nat /\ camera.ended \in BOOLEAN
      OBVIOUS
    <3>2. QED
      BY <3>1, PacketType, Zenon
  <2>2. /\ p.header = TRUE /\ p.fid = camera.frame % 2 /\ p.data = << >>
        /\ \A d \in DataPacket : << >> # <<d>>
    BY DEF Packet
  <2>3. /\ ~is_isight /\ camera.frame >= first /\ Arrives(p)
        /\ UNCHANGED <<kind, camera, frame, starts, first>>
    BY <1>5 DEF Trailer
  <2> HIDE DEF p
  <2>4. CameraStep(p)
    BY <2>2, <2>3 DEF CameraStep
  <2>5. Follows(p)
    BY <2>2, <2>3 DEF Follows
  <2>6. QED
    BY <2>1, <2>4, <2>5
<1>6. QED
  BY <1>1, <1>3, <1>4, <1>5

LEMMA CameraStepKeeps ==
  ASSUME TypeInv, NEW p \in Payload, CameraStep(p)
  PROVE  TypeInv'
<1> USE PayloadAssumption DEF TypeInv, TypeOK, Unfinished
<1>1. buf \in Buffers
  BY DEF Buffers
<1>2. CASE DropPayload
  <2>1. TypeOK' /\ Unfinished'
    BY <1>2, SMTT(60) DEF DropPayload, CameraStep, kind
  <2>2. /\ UNCHANGED <<buf, fid, is_isight, first>>
        /\ camera.frame <= camera'.frame /\ first <= camera'.frame
        /\ ~camera'.ended => camera.frame < camera'.frame \/ ~camera.ended
    BY <1>2 DEF DropPayload, CameraStep, kind
  <2>3. camera.frame \in Nat /\ camera'.frame \in Nat /\ buf.seq \in Nat
    BY DEF CameraStep
  <2>4. Counting'
    <3>1. CASE camera'.frame = camera.frame
      BY <2>2, <3>1 DEF Counting
    <3>2. CASE camera.frame < camera'.frame
      <4>1. buf.seq < camera'.frame
        BY <2>3, <3>2, SMTT(60) DEF Counting
      <4>2. buf.outbuf # << >> => buf.seq + 1 < camera'.frame
        BY <2>3, <3>2, SMTT(60) DEF Counting
      <4>3. QED
        BY <2>2, <2>3, <4>1, <4>2, SMTT(60) DEF Counting
    <3>3. QED
      BY <2>2, <2>3, <3>1, <3>2, SMTT(60)
  <2>5. QED
    BY <2>1, <2>4
<1>3. CASE ProcessPayload(p) /\ UNCHANGED lossy
  <2>1. fid' = IF p.header THEN p.fid ELSE fid
    BY <1>3 DEF ProcessPayload
  <2>2. FrameChanged(p) => p.header /\ p.fid # fid /\ buf.outbuf # << >>
    BY DEF FrameChanged
  <2> DEFINE changes == IF FrameChanged(p) THEN 1 ELSE 0
             ends    == IF p.data # << >> /\ p.eof THEN 1 ELSE 0
  <2>3. /\ buf' \in Buffers
        /\ buf'.seq = buf.seq + changes + ends
        /\ buf'.hold_seq = buf.hold_seq \/ buf'.hold_seq < buf'.seq
        /\ buf'.outbuf # << >> =>
              \/ p.data # << >> /\ ~p.eof
              \/ p.data = << >> /\ ~FrameChanged(p) /\ buf.outbuf # << >>
    BY <1>1, <1>3, Processed
  <2>4. /\ camera.frame \in Nat /\ camera'.frame \in Nat /\ buf.seq \in Nat
        /\ first \in Nat /\ first' = first /\ is_isight' = is_isight
        /\ camera.frame <= camera'.frame /\ first <= camera'.frame
    BY DEF CameraStep, kind
  <2>5. buf.seq + changes <= camera.frame
    BY <2>2, <2>4, SMTT(60) DEF Counting
  <2>6. ~is_isight => fid' = camera'.frame % 2
    BY <2>1 DEF CameraStep
  <2>7. camera.frame < camera'.frame \/ ~camera.ended =>
          buf.seq + changes < camera'.frame
    <3>1. CASE camera.frame < camera'.frame
      BY <2>4, <2>5, <3>1, SMTT(60)
    <3>2. CASE camera.frame = camera'.frame /\ ~camera.ended /\ FrameChanged(p)
      <4>1. ~is_isight /\ fid # camera.frame % 2 /\ buf.outbuf # << >>
        BY <2>2, <3>2, SMTT(60) DEF CameraStep
      <4>2. first <= camera.frame
        BY <2>4, <3>2
      <4>3. buf.seq + 1 < camera.frame
        BY <2>4, <4>1, <4>2 DEF Counting
      <4>4. QED
        BY <2>4, <3>2, <4>3
    <3>3. CASE camera.frame = camera'.frame /\ ~camera.ended /\ ~FrameChanged(p)
      BY <2>4, <3>3 DEF Counting
    <3>4. QED
      BY <2>4, <3>1, <3>2, <3>3, SMTT(60)
  <2>8. buf'.seq <= camera'.frame
    <3>1. ends = 1 => camera.frame < camera'.frame \/ ~camera.ended
      BY DEF CameraStep
    <3>2. CASE ends = 0
      BY <2>3, <2>4, <2>5, <3>2, SMTT(60)
    <3>3. CASE ends = 1
      BY <2>3, <2>4, <2>7, <3>1, <3>3, SMTT(60)
    <3>4. QED
      BY <3>2, <3>3, Zenon
  <2>9. ~camera'.ended => buf'.seq < camera'.frame
    <3>1. ~camera'.ended => ends = 0
      BY DEF CameraStep
    <3>2. QED
      BY <2>3, <2>4, <2>7, <3>1, SMTT(60) DEF CameraStep
  <2>10. buf'.outbuf # << >> => buf'.seq < camera'.frame
    <3>1. CASE p.data # << >> /\ ~p.eof
      BY <2>3, <2>4, <2>7, <3>1, SMTT(60) DEF CameraStep
    <3>2. CASE p.data = << >> /\ ~FrameChanged(p) /\ buf.outbuf # << >>
      BY <2>3, <2>4, <3>2, SMTT(60) DEF Counting
    <3>3. QED
      BY <2>3, <3>1, <3>2
  <2>11. Counting'
    <3>1. /\ ~is_isight' /\ camera'.frame >= first'
          /\ buf'.outbuf # << >> /\ fid' # camera'.frame % 2
          => buf'.seq + 1 < camera'.frame
      BY <2>4, <2>6
    <3>2. QED
      BY <2>8, <2>9, <2>10, <3>1 DEF Counting
  <2>12. buf' \in [outbuf : Seq(DataPacket), holdbuf : Seq(DataPacket),
                   seq : 0..MaxFrames, hold_seq : 0..MaxFrames]
    <3>1. camera'.frame <= MaxFrames
      BY DEF CameraStep
    <3>2. buf'.seq \in Nat /\ buf'.hold_seq \in Nat
      BY <2>3 DEF Buffers
    <3>3. MaxFrames \in Nat /\ buf'.seq <= MaxFrames
      BY <2>4, <2>8, <3>1, <3>2, SMTT(60)
    <3>4. buf.hold_seq <= MaxFrames
      OBVIOUS
    <3>5. buf'.hold_seq <= MaxFrames
      BY <2>3, <3>2, <3>3, <3>4, SMTT(60)
    <3>6. buf'.seq \in 0..MaxFrames /\ buf'.hold_seq \in 0..MaxFrames
      BY <3>2, <3>3, <3>5, SMTT(60)
    <3>7. QED
      BY <2>3, <3>6 DEF Buffers
  <2>13. fid' \in {0, 1}
    BY <2>1 DEF Payload
  <2>14. /\ UNCHANGED <<is_isight, marks, mjpeg, frame, starts, first, lossy>>
         /\ camera' \in [frame : 0..MaxFrames, index : 0..MaxPackets, ended : BOOLEAN]
    BY <1>3 DEF CameraStep, kind
  <2>15. TypeOK'
    BY <2>12, <2>13, <2>14
  <2>16. Unfinished'
    <3>1. /\ ~camera'.ended => camera'.index < MaxPackets
          /\ first <= camera'.frame
      BY DEF CameraStep
    <3>2. QED
      BY <2>4, <3>1, SMTT(60)
  <2>17. QED
    BY <2>11, <2>15, <2>16
<1>4. QED
  BY <1>2, <1>3 DEF CameraStep, Arrives


LEMMA InitKeeps == Init => TypeInv
<1> SUFFICES ASSUME Init PROVE TypeInv
  OBVIOUS
<1> USE PayloadAssumption DEF Init
<1>1. /\ camera.frame = 0 /\ camera.ended = TRUE /\ buf.seq = 0 /\ buf.outbuf = << >>
      /\ first = 1
  OBVIOUS
<1>2. camera \in [frame : 0..MaxFrames, index : 0..MaxPackets, ended : BOOLEAN]
  OBVIOUS
<1>3. buf \in [outbuf : Seq(DataPacket), holdbuf : Seq(DataPacket),
              seq : 0..MaxFrames, hold_seq : 0..MaxFrames]
  <2>1. << >> \in Seq(DataPacket) /\ 0 \in 0..MaxFrames
    OBVIOUS
  <2>2. QED
    BY <2>1
<1>4. starts \in 1..MaxStarts /\ first \in 1..MaxFrames + 1
  OBVIOUS
<1>5. TypeOK
  BY <1>2, <1>3, <1>4 DEF TypeOK
<1>6. Unfinished /\ Counting
  BY <1>1 DEF Unfinished, Counting
<1>7. QED
  BY <1>5, <1>6 DEF TypeInv

LEMMA PopulateKeeps == TypeInv /\ uvc_populate_frame => TypeInv'
<1> SUFFICES ASSUME TypeInv, uvc_populate_frame PROVE TypeInv'
  OBVIOUS
<1> DEFINE hold_bytes == Len(buf.holdbuf)
<1>1. hold_bytes \in Nat
  BY DEF TypeInv, TypeOK
<1>2. Addsize \in Nat /\ \A n \in MarkerBytes(hold_bytes) : n \in Nat
  BY DEF Addsize, MarkerBytes
<1>3. frame' \in [data_bytes : Nat, allocated : Nat]
  BY <1>1, <1>2, SMTT(60) DEF uvc_populate_frame, TypeInv, TypeOK
<1>4. QED
  BY <1>3 DEF uvc_populate_frame, kind, history, TypeInv, TypeOK, Unfinished, Counting

LEMMA StartKeeps == TypeInv /\ uvc_stream_start => TypeInv'
<1> SUFFICES ASSUME TypeInv, uvc_stream_start PROVE TypeInv'
  OBVIOUS
<1> USE PayloadAssumption DEF TypeInv, TypeOK, Unfinished
<1>1. PICK n \in 0..1 :
        /\ camera.frame + n <= MaxFrames
        /\ camera' = [camera EXCEPT !.frame = @ + n, !.ended = TRUE]
        /\ first' = camera.frame + n + 1
  BY DEF uvc_stream_start
<1>2. /\ camera'.frame = camera.frame + n /\ camera'.ended = TRUE
      /\ camera' \in [frame : 0..MaxFrames, index : 0..MaxPackets, ended : BOOLEAN]
  <2> DEFINE m == camera.frame + n
  <2>1. m \in 0..MaxFrames
    BY <1>1, SMTT(60)
  <2>2. camera' = [camera EXCEPT !.frame = m, !.ended = TRUE]
    BY <1>1
  <2> HIDE DEF m
  <2>3. camera'.frame = m /\ camera'.ended = TRUE
    BY <2>2
  <2>4. camera' \in [frame : 0..MaxFrames, index : 0..MaxPackets, ended : BOOLEAN]
    BY <2>1, <2>2
  <2>5. QED
    BY <2>3, <2>4 DEF m
<1>3. /\ buf'.seq = 0 /\ buf'.outbuf = buf.outbuf
      /\ buf' \in [outbuf : Seq(DataPacket), holdbuf : Seq(DataPacket),
                   seq : 0..MaxFrames, hold_seq : 0..MaxFrames]
  <2>1. buf' = [buf EXCEPT !.seq = 0]
    BY DEF uvc_stream_start, SeqRestarted
  <2>2. 0 \in 0..MaxFrames
    OBVIOUS
  <2>3. QED
    BY <2>1, <2>2
<1>4. Counting'
  <2>1. camera.frame \in Nat /\ n \in Nat /\ camera'.frame \in Nat
    BY <1>2
  <2>2. 0 <= camera'.frame /\ first' = camera'.frame + 1
    BY <1>1, <1>2, <2>1
  <2>3. buf.outbuf # << >> => 0 < camera'.frame
    BY <1>2, <2>1, SMTT(60) DEF Counting
  <2>4. ~(camera'.frame >= first')
    BY <2>1, <2>2, SMTT(60)
  <2>5. QED
    BY <1>2, <1>3, <2>2, <2>3, <2>4 DEF Counting
<1>5. /\ first' \in 1..MaxFrames + 1 /\ first' <= camera'.frame + 1
      /\ starts' \in 1..MaxStarts
  <2>1. camera.frame \in Nat /\ n \in Nat /\ MaxFrames \in Nat /\ MaxStarts \in Nat
    OBVIOUS
  <2>2. first' = camera.frame + n + 1 /\ camera.frame + n <= MaxFrames
    BY <1>1
  <2>3. first' \in 1..MaxFrames + 1
    BY <2>1, <2>2, SMTT(60)
  <2>4. first' <= camera'.frame + 1
    BY <2>1, <2>2, <1>2
  <2>5. starts < MaxStarts /\ starts' = starts + 1
    BY DEF uvc_stream_start
  <2>6. starts' \in 1..MaxStarts
    BY <2>1, <2>5
  <2>7. QED
    BY <2>3, <2>4, <2>6
<1>6. TypeOK'
  BY <1>2, <1>3, <1>5 DEF uvc_stream_start, kind
<1>7. Unfinished'
  BY <1>2, <1>5
<1>8. QED
  BY <1>4, <1>6, <1>7

LEMMA TypeInvariant == Spec => []TypeInv
<1>1. TypeInv /\ [Next]_vars => TypeInv'
  <2>1. TypeInv /\ UNCHANGED vars => TypeInv'
    BY DEF vars, kind, history, TypeInv, TypeOK, Unfinished, Counting
  <2>2. TypeInv /\ Next => TypeInv'
    BY CameraSteps, CameraStepKeeps, PopulateKeeps, StartKeeps DEF Next
  <2>3. QED
    BY <2>1, <2>2
<1>2. QED
  BY <1>1, InitKeeps, PTL DEF Spec

\* Every variable stays in its range; the sequence numbers that _uvc_swap_buffers
\* counts never exceed the number of frames the camera sent.
THEOREM TypeCorrect == Spec => []TypeOK
<1>1. TypeInv => TypeOK
  BY DEF TypeInv
<1>2. QED
  BY <1>1, TypeInvariant, PTL

\* _uvc_populate_frame never writes behind the end of the consumer's copy.
THEOREM CopyFits == Spec => []FrameFits
<1>1. Init => FrameFits
  BY DEF Init, FrameFits
<1>2. TypeInv /\ FrameFits /\ [Next]_vars => FrameFits'
  <2> SUFFICES ASSUME TypeInv, FrameFits, [Next]_vars PROVE FrameFits'
    OBVIOUS
  <2>1. CASE uvc_populate_frame
    <3> DEFINE hold_bytes == Len(buf.holdbuf)
    <3>1. hold_bytes \in Nat /\ frame.data_bytes \in Nat /\ frame.allocated \in Nat
      BY DEF TypeInv, TypeOK
    <3>2. Addsize \in Nat /\ \A n \in MarkerBytes(hold_bytes) : n \in Nat /\ n <= Addsize
      BY DEF Addsize, MarkerBytes
    <3>3. PICK n \in MarkerBytes(hold_bytes) :
            frame' = [data_bytes |-> hold_bytes + n,
                      allocated  |-> IF frame.data_bytes < hold_bytes + Addsize
                                     THEN hold_bytes + Addsize
                                     ELSE frame.allocated]
      BY <2>1 DEF uvc_populate_frame
    <3> HIDE DEF hold_bytes
    <3>4. /\ frame'.data_bytes = hold_bytes + n
          /\ frame'.allocated = IF frame.data_bytes < hold_bytes + Addsize
                                THEN hold_bytes + Addsize ELSE frame.allocated
      BY <3>3
    <3>5. QED
      BY <3>1, <3>2, <3>4 DEF FrameFits
  <2>2. CASE UNCHANGED frame
    BY <2>2 DEF FrameFits
  <2>3. CASE FrameHeader \/ FirstData \/ MoreData \/ Trailer
    BY <2>2, <2>3, CameraSteps DEF CameraStep
  <2>4. CASE uvc_stream_start
    BY <2>2, <2>4 DEF uvc_stream_start
  <2>5. CASE UNCHANGED vars
    BY <2>2, <2>5 DEF vars
  <2>6. QED
    BY <2>1, <2>3, <2>4, <2>5 DEF Next
<1>3. QED
  BY <1>1, <1>2, TypeInvariant, PTL DEF Spec

-----------------------------------------------------------------------------
(***************************************************************************)
(* What a published frame consists of.                                     *)
(***************************************************************************)

Alike(d, e) == d.frame <= e.frame /\ d.frame % 2 = e.frame % 2

LEMMA OrderedByIndex ==
  ASSUME NEW b \in Seq(DataPacket)
  PROVE  Ordered(b) <=> \A i \in 1..Len(b) - 1 : Alike(b[i], b[i + 1])
<1>1. ASSUME Ordered(b), NEW i \in 1..Len(b) - 1
      PROVE  Alike(b[i], b[i + 1])
  <2>1. <<b[i], b[i + 1]>> \in Neighbours(b)
    BY DEF Neighbours
  <2>2. QED
    BY <1>1, <2>1 DEF Ordered, Alike
<1>2. ASSUME \A i \in 1..Len(b) - 1 : Alike(b[i], b[i + 1]),
             NEW p \in Neighbours(b)
      PROVE  p[1].frame <= p[2].frame /\ p[1].frame % 2 = p[2].frame % 2
  BY <1>2 DEF Neighbours, Alike
<1>3. QED
  BY <1>1, <1>2 DEF Ordered

LEMMA OrderedEmpty == Ordered(<< >>)
  BY DEF Ordered, Neighbours

LEMMA OrderedAppend ==
  ASSUME NEW b \in Seq(DataPacket), NEW d \in DataPacket, Ordered(b),
         b # << >> => Alike(LastOf(b), d)
  PROVE  /\ Ordered(b \o <<d>>) /\ b \o <<d>> # << >>
         /\ LastOf(b \o <<d>>) = d
<1> DEFINE c == b \o <<d>>
<1>1. /\ c \in Seq(DataPacket) /\ Len(c) = Len(b) + 1 /\ c[Len(b) + 1] = d
      /\ \A i \in 1..Len(b) : c[i] = b[i]
  OBVIOUS
<1>2. Len(b) \in Nat /\ (Len(b) > 0 => b # << >>)
  OBVIOUS
<1> HIDE DEF c
<1>3. ASSUME NEW i \in 1..Len(c) - 1
      PROVE  Alike(c[i], c[i + 1])
  <2>1. CASE i = Len(b)
    <3>1. c[i] = LastOf(b) /\ c[i + 1] = d /\ b # << >>
      BY <1>1, <1>2, <2>1 DEF LastOf
    <3>2. QED
      BY <3>1
  <2>2. CASE i # Len(b)
    <3>1. i \in 1..Len(b) - 1 /\ i \in 1..Len(b) /\ i + 1 \in 1..Len(b)
      BY <1>1, <1>2, <2>2
    <3>2. c[i] = b[i] /\ c[i + 1] = b[i + 1]
      BY <1>1, <3>1
    <3>3. QED
      BY <3>1, <3>2, OrderedByIndex
  <2>3. QED
    BY <2>1, <2>2
<1>4. Ordered(c)
  BY <1>1, <1>3, OrderedByIndex
<1>5. c # << >> /\ LastOf(c) = d
  BY <1>1, <1>2 DEF LastOf
<1>6. QED
  BY <1>4, <1>5 DEF c

\* The sequence that a packet makes of outbuf, and where it goes.
LEMMA Assembled ==
  ASSUME buf \in Buffers, NEW p \in Payload, ProcessPayload(p)
  PROVE  \E kept, out \in Seq(DataPacket) :
           /\ FrameChanged(p) => kept = << >>
           /\ ~FrameChanged(p) => kept = buf.outbuf
           /\ \/ p.data = << >> /\ out = kept
              \/ \E d \in DataPacket : p.data = <<d>> /\ out = kept \o <<d>>
           /\ \/ /\ buf'.outbuf = out
                 /\ buf'.holdbuf \in {buf.holdbuf, buf.outbuf}
              \/ buf'.outbuf = << >> /\ buf'.holdbuf = out
<1> DEFINE kept == Swapped(p).outbuf
           out  == IF p.data = << >> THEN kept ELSE kept \o p.data
           appended == IF p.data = << >> THEN Swapped(p)
                       ELSE [Swapped(p) EXCEPT !.outbuf = @ \o p.data]
<1>1. /\ Swapped(p) \in Buffers
      /\ Swapped(p).holdbuf \in {buf.holdbuf, buf.outbuf}
      /\ FrameChanged(p) => kept = << >>
      /\ ~FrameChanged(p) => kept = buf.outbuf
  <2>1. CASE FrameChanged(p)
    BY <2>1, SwapBuffersType DEF Swapped
  <2>2. CASE ~FrameChanged(p)
    BY <2>2 DEF Swapped, Buffers
  <2>3. QED
    BY <2>1, <2>2
<1>2. p.data = << >> \/ \E d \in DataPacket : p.data = <<d>>
  BY DEF Payload
<1>3. kept \in Seq(DataPacket)
  BY <1>1 DEF Buffers
<1>4. /\ out \in Seq(DataPacket)
      /\ \/ p.data = << >> /\ out = kept
         \/ \E d \in DataPacket : p.data = <<d>> /\ out = kept \o <<d>>
  <2>1. CASE p.data = << >>
    BY <1>3, <2>1
  <2>2. CASE p.data # << >>
    <3>1. PICK d \in DataPacket : p.data = <<d>>
      BY <1>2, <2>2
    <3>2. out = kept \o <<d>>
      BY <2>2, <3>1
    <3> HIDE DEF out, kept
    <3>3. kept \o <<d>> \in Seq(DataPacket)
      BY <1>3
    <3>4. QED
      BY <3>1, <3>2, <3>3
  <2>3. QED
    BY <2>1, <2>2
<1>5. /\ appended \in Buffers
      /\ appended.outbuf = out /\ appended.holdbuf = Swapped(p).holdbuf
  <2>1. CASE p.data = << >>
    BY <2>1, <1>1
  <2>2. CASE p.data # << >>
    <3>1. appended = [Swapped(p) EXCEPT !.outbuf = out]
      BY <2>2
    <3> HIDE DEF appended, out, kept
    <3>2. QED
      BY <1>1, <1>4, <3>1 DEF Buffers
  <2>3. QED
    BY <2>1, <2>2
<1>6. buf' = IF p.data # << >> /\ p.eof THEN SwapBuffers(appended) ELSE appended
  BY DEF ProcessPayload, Swapped
<1> HIDE DEF appended, out, kept
<1>7. \/ buf'.outbuf = out /\ buf'.holdbuf \in {buf.holdbuf, buf.outbuf}
      \/ buf'.outbuf = << >> /\ buf'.holdbuf = out
  <2>1. CASE p.data # << >> /\ p.eof
    BY <1>5, <1>6, <2>1, SwapBuffersType
  <2>2. CASE ~(p.data # << >> /\ p.eof)
    BY <1>1, <1>5, <1>6, <2>2
  <2>3. QED
    BY <2>1, <2>2
<1>8. QED
  BY <1>1, <1>3, <1>4, <1>7


LEMMA CameraStepOrders ==
  ASSUME TypeInv, OneFrameInv, NEW p \in Payload, CameraStep(p)
  PROVE  OneFrameInv'
<1> SUFFICES ASSUME ~is_isight, starts = 1
             PROVE  /\ Ordered(buf'.outbuf) /\ Ordered(buf'.holdbuf)
                    /\ buf'.outbuf # << >> =>
                         /\ LastOf(buf'.outbuf).frame <= camera'.frame
                         /\ LastOf(buf'.outbuf).frame % 2 = fid'
  BY DEF OneFrameInv, LastOf, CameraStep, kind, Ordered, Neighbours
<1>1. buf \in Buffers
  BY DEF TypeInv, TypeOK, Buffers
<1>2. /\ camera.frame \in Nat /\ camera'.frame \in Nat /\ camera.frame <= camera'.frame
      /\ p.header /\ p.fid = camera'.frame % 2
      /\ \A d \in DataPacket : p.data = <<d>> => d.frame = camera'.frame
  BY SMTT(60) DEF TypeInv, TypeOK, CameraStep
<1>3. /\ Ordered(buf.outbuf) /\ Ordered(buf.holdbuf)
      /\ buf.outbuf # << >> =>
           /\ LastOf(buf.outbuf).frame <= camera.frame
           /\ LastOf(buf.outbuf).frame % 2 = fid
  BY DEF OneFrameInv
<1>4. buf.outbuf # << >> => LastOf(buf.outbuf).frame \in Nat
  <2> SUFFICES ASSUME buf.outbuf # << >> PROVE LastOf(buf.outbuf).frame \in Nat
    OBVIOUS
  <2>1. buf.outbuf \in Seq(DataPacket)
    BY <1>1 DEF Buffers
  <2>2. LastOf(buf.outbuf) \in DataPacket
    BY <2>1 DEF LastOf
  <2>3. QED
    BY <2>2 DEF DataPacket
<1>5. CASE DropPayload
  <2>1. buf' = buf /\ fid' = fid
    BY <1>5 DEF DropPayload
  <2>2. QED
    BY <1>2, <1>3, <1>4, <2>1
<1>6. CASE ProcessPayload(p)
  <2>1. fid' = camera'.frame % 2
    BY <1>2, <1>6 DEF ProcessPayload
  <2>2. PICK kept \in Seq(DataPacket), out \in Seq(DataPacket) :
           /\ FrameChanged(p) => kept = << >>
           /\ ~FrameChanged(p) => kept = buf.outbuf
           /\ \/ p.data = << >> /\ out = kept
              \/ \E d \in DataPacket : p.data = <<d>> /\ out = kept \o <<d>>
           /\ \/ /\ buf'.outbuf = out
                 /\ buf'.holdbuf \in {buf.holdbuf, buf.outbuf}
              \/ buf'.outbuf = << >> /\ buf'.holdbuf = out
    BY <1>1, <1>6, Assembled
  <2>3. Ordered(kept)
    BY <1>3, <2>2, OrderedEmpty
  <2>4. kept # << >> => /\ LastOf(kept).frame <= camera'.frame
                        /\ LastOf(kept).frame % 2 = camera'.frame % 2
    <3> SUFFICES ASSUME kept # << >>
                 PROVE  /\ LastOf(kept).frame <= camera'.frame
                        /\ LastOf(kept).frame % 2 = camera'.frame % 2
      OBVIOUS
    <3>1. ~FrameChanged(p) /\ kept = buf.outbuf /\ buf.outbuf # << >>
      BY <2>2
    <3>2. fid = camera'.frame % 2
      BY <1>2, <3>1 DEF FrameChanged
    <3>3. QED
      BY <1>2, <1>3, <1>4, <3>1, <3>2
  <2>5. /\ Ordered(out)
        /\ out # << >> => /\ LastOf(out).frame <= camera'.frame
                          /\ LastOf(out).frame % 2 = fid'
    <3>1. CASE p.data = << >> /\ out = kept
      BY <2>1, <2>3, <2>4, <3>1
    <3>2. ASSUME NEW d \in DataPacket, p.data = <<d>>, out = kept \o <<d>>
          PROVE  /\ Ordered(out)
                 /\ LastOf(out).frame <= camera'.frame
                 /\ LastOf(out).frame % 2 = fid'
      <4>1. d.frame = camera'.frame
        BY <1>2, <3>2
      <4>2. kept # << >> => Alike(LastOf(kept), d)
        BY <2>4, <4>1 DEF Alike
      <4>3. Ordered(out) /\ LastOf(out) = d
        BY <2>3, <3>2, <4>2, OrderedAppend
      <4>4. QED
        BY <1>2, <2>1, <4>1, <4>3
    <3>3. QED
      BY <2>2, <3>1, <3>2
  <2>6. QED
    BY <1>3, <2>2, <2>5, OrderedEmpty
<1>7. QED
  BY <1>5, <1>6 DEF CameraStep, Arrives

\* Until the stream is started again, data of two frames of the camera end up in
\* one frame of libuvc only if the identifier bits are the same: the test of the
\* bit in _uvc_process_payload separates all others, whatever packets are lost.
THEOREM FramesSeparate == Spec => []OneFrame
<1>1. Init => OneFrameInv
  BY OrderedEmpty DEF Init, OneFrameInv
<1>2. TypeInv /\ OneFrameInv /\ [Next]_vars => OneFrameInv'
  <2> SUFFICES ASSUME TypeInv, OneFrameInv, [Next]_vars PROVE OneFrameInv'
    OBVIOUS
  <2>1. CASE FrameHeader \/ FirstData \/ MoreData \/ Trailer
    BY <2>1, CameraSteps, CameraStepOrders
  <2>2. CASE uvc_populate_frame
    BY <2>2 DEF uvc_populate_frame, OneFrameInv, LastOf, Ordered, Neighbours, kind, history
  <2>3. CASE uvc_stream_start
    <3>1. starts' # 1
      BY <2>3 DEF uvc_stream_start, TypeInv, TypeOK
    <3>2. QED
      BY <3>1 DEF OneFrameInv
  <2>4. CASE UNCHANGED vars
    BY <2>4 DEF vars, OneFrameInv, LastOf, Ordered, Neighbours, kind, history
  <2>5. QED
    BY <2>1, <2>2, <2>3, <2>4 DEF Next
<1>3. OneFrameInv => OneFrame
  BY DEF OneFrameInv, OneFrame, Ordered
<1>4. QED
  BY <1>1, <1>2, <1>3, TypeInvariant, PTL DEF Spec

-----------------------------------------------------------------------------
(***************************************************************************)
(* Restarts, and streams without loss.                                     *)
(***************************************************************************)

\* Sequence b with packet d behind it.
With(b, d) == b \o <<d>>

Upto(b, n)   == \A i \in 1..Len(b) : b[i].frame <= n
Before(b, n) == \A i \in 1..Len(b) : b[i].frame < n
Since(b, n)  == \A i \in 1..Len(b) : n <= b[i].frame

\* A frame with data of two starts is numbered 0, whether it was published or is
\* being assembled; and no frame has data that the camera did not send.
StaleInv ==
  /\ Upto(buf.outbuf, camera.frame) /\ Upto(buf.holdbuf, camera.frame)
  /\ Since(buf.outbuf, first) \/ buf.seq = 0
  /\ Since(buf.holdbuf, first) \/ Before(buf.holdbuf, first) \/ buf.hold_seq = 0

Counts(b, n) == \A i \in 1..Len(b) : b[i].index = i /\ b[i].frame = n

\* Without losses, outbuf is what the camera sent of the frame it is at, the
\* frame before has been published, and so has this one if outbuf is empty again.
LosslessInv ==
  ~lossy /\ starts = 1 =>
    /\ first = 1 /\ fid = camera.frame % 2
    /\ buf.seq = IF buf.outbuf = << >> /\ camera.ended THEN camera.frame
                                                       ELSE camera.frame - 1
    /\ Counts(buf.outbuf, camera.frame)
    /\ ~camera.ended => Len(buf.outbuf) = camera.index
    /\ camera.ended /\ buf.outbuf # << >> => LastOf(buf.outbuf).last
    /\ Published => /\ Complete(buf.holdbuf)
                    /\ buf.hold_seq = buf.holdbuf[1].frame - 1

\* A packet is processed in two stages: the frame before it may end, then its
\* data are appended, and they may end this frame.
LEMMA Stages ==
  ASSUME buf \in Buffers, NEW p \in Payload, ProcessPayload(p)
  PROVE  /\ Swapped(p) \in Buffers
         /\ p.data = << >> => buf' = Swapped(p)
         /\ \A d \in DataPacket : p.data = <<d>> =>
              LET out == With(Swapped(p).outbuf, d) IN
              /\ p.eof  => /\ buf'.outbuf = << >> /\ buf'.holdbuf = out
                           /\ buf'.seq = Swapped(p).seq + 1
                           /\ buf'.hold_seq = Swapped(p).seq
              /\ ~p.eof => /\ buf'.outbuf = out
                           /\ buf'.holdbuf = Swapped(p).holdbuf
                           /\ buf'.seq = Swapped(p).seq
                           /\ buf'.hold_seq = Swapped(p).hold_seq
<1>1. Swapped(p) \in Buffers
  BY SwapBuffersType DEF Swapped
<1>2. ASSUME p.data = << >>
      PROVE  buf' = Swapped(p)
  BY <1>2 DEF ProcessPayload, Swapped
<1>3. ASSUME NEW d \in DataPacket, p.data = <<d>>
      PROVE  LET out == With(Swapped(p).outbuf, d) IN
              /\ p.eof  => /\ buf'.outbuf = << >> /\ buf'.holdbuf = out
                           /\ buf'.seq = Swapped(p).seq + 1
                           /\ buf'.hold_seq = Swapped(p).seq
              /\ ~p.eof => /\ buf'.outbuf = out
                           /\ buf'.holdbuf = Swapped(p).holdbuf
                           /\ buf'.seq = Swapped(p).seq
                           /\ buf'.hold_seq = Swapped(p).hold_seq
  <2> DEFINE out      == With(Swapped(p).outbuf, d)
             appended == [Swapped(p) EXCEPT !.outbuf = out]
  <2>1. <<d>> # << >>
    OBVIOUS
  <2>2. buf' = IF p.eof THEN SwapBuffers(appended) ELSE appended
    BY <1>3, <2>1 DEF ProcessPayload, Swapped, With
  <2>3. out \in Seq(DataPacket)
    BY <1>1 DEF Buffers, With
  <2> HIDE DEF out
  <2>4. /\ appended \in Buffers
        /\ appended.outbuf = out /\ appended.holdbuf = Swapped(p).holdbuf
        /\ appended.seq = Swapped(p).seq /\ appended.hold_seq = Swapped(p).hold_seq
    BY <1>1, <2>3 DEF Buffers
  <2> HIDE DEF appended
  <2>5. CASE p.eof
    BY <2>2, <2>4, <2>5, SwapBuffersType DEF out
  <2>6. CASE ~p.eof
    BY <2>2, <2>4, <2>6 DEF out
  <2>7. QED
    BY <2>5, <2>6
<1>4. QED
  BY <1>1, <1>2, <1>3

\* The data that a packet adds are the last of the sequence.
LEMMA Appended ==
  ASSUME NEW b \in Seq(DataPacket), NEW d \in DataPacket
  PROVE  LET c == With(b, d) IN
         /\ Len(c) = Len(b) + 1 /\ c # << >> /\ LastOf(c) = d
         /\ \A i \in 1..Len(c) : \/ c[i] = d /\ i = Len(b) + 1
                                 \/ c[i] = b[i] /\ i \in 1..Len(b)
<1> DEFINE c == With(b, d)
<1>1. /\ Len(c) = Len(b) + 1 /\ c[Len(b) + 1] = d
      /\ \A i \in 1..Len(b) : c[i] = b[i]
  BY DEF With
<1>2. Len(b) \in Nat
  OBVIOUS
<1> HIDE DEF c
<1>3. c # << >>
  BY <1>1, <1>2
<1>4. ASSUME NEW i \in 1..Len(c)
      PROVE  \/ c[i] = d /\ i = Len(b) + 1
             \/ c[i] = b[i] /\ i \in 1..Len(b)
  <2>1. i = Len(b) + 1 \/ i \in 1..Len(b)
    BY <1>1, <1>2
  <2>2. QED
    BY <1>1, <2>1
<1>5. QED
  BY <1>1, <1>3, <1>4 DEF LastOf, c

LEMMA InRange ==
  ASSUME NEW b \in Seq(DataPacket)
  PROVE  \A i \in 1..Len(b) : /\ b[i] \in DataPacket
                              /\ b[i].frame \in Nat /\ b[i].index \in Nat
<1>1. \A i \in 1..Len(b) : b[i] \in DataPacket
  OBVIOUS
<1>2. QED
  BY <1>1, PayloadAssumption DEF DataPacket

LEMMA CameraStepStale ==
  ASSUME TypeInv, StaleInv, NEW p \in Payload, CameraStep(p)
  PROVE  StaleInv'
<1>1. /\ buf \in Buffers /\ first' = first
      /\ camera.frame \in Nat /\ camera'.frame \in Nat /\ first \in Nat
      /\ camera.frame <= camera'.frame /\ first <= camera'.frame
      /\ \A d \in DataPacket : p.data = <<d>> => d.frame = camera'.frame
  BY PayloadAssumption, SMTT(60) DEF TypeInv, TypeOK, Buffers, CameraStep
<1>2. /\ buf.outbuf \in Seq(DataPacket) /\ buf.holdbuf \in Seq(DataPacket)
  BY <1>1 DEF Buffers
<1>3. Upto(buf.outbuf, camera'.frame) /\ Upto(buf.holdbuf, camera'.frame)
  BY <1>1, <1>2, InRange, SMTT(60) DEF StaleInv, Upto
<1>4. CASE DropPayload
  BY <1>1, <1>3, <1>4 DEF DropPayload, StaleInv
<1>5. CASE ProcessPayload(p)
  <2> DEFINE mid == Swapped(p)
  <2>1. /\ Upto(mid.outbuf, camera'.frame) /\ Upto(mid.holdbuf, camera'.frame)
        /\ Since(mid.outbuf, first) \/ mid.seq = 0
        /\ \/ Since(mid.holdbuf, first) \/ Before(mid.holdbuf, first)
           \/ mid.hold_seq = 0
    <3>1. CASE FrameChanged(p)
      <4>1. /\ mid.outbuf = << >> /\ mid.holdbuf = buf.outbuf
            /\ mid.hold_seq = buf.seq
        BY <1>1, <3>1, SwapBuffersType DEF Swapped
      <4>2. Upto(<< >>, camera'.frame) /\ Since(<< >>, first)
        BY DEF Upto, Since
      <4>3. QED
        BY <1>3, <4>1, <4>2 DEF StaleInv
    <3>2. CASE ~FrameChanged(p)
      <4>1. mid = buf
        BY <3>2 DEF Swapped
      <4>2. QED
        BY <1>3, <4>1 DEF StaleInv
    <3>3. QED
      BY <3>1, <3>2
  <2>2. mid \in Buffers
    BY <1>1, <1>5, Stages
  <2>3. mid.outbuf \in Seq(DataPacket)
    BY <2>2 DEF Buffers
  <2>4. CASE p.data = << >>
    <3>1. buf' = mid
      BY <1>1, <1>5, <2>4, Stages
    <3>2. QED
      BY <1>1, <2>1, <3>1 DEF StaleInv
  <2>5. ASSUME NEW d \in DataPacket, p.data = <<d>>
        PROVE  StaleInv'
    <3> DEFINE out == With(mid.outbuf, d)
    <3>1. /\ p.eof  => /\ buf'.outbuf = << >> /\ buf'.holdbuf = out
                       /\ buf'.seq = mid.seq + 1 /\ buf'.hold_seq = mid.seq
          /\ ~p.eof => /\ buf'.outbuf = out /\ buf'.holdbuf = mid.holdbuf
                       /\ buf'.seq = mid.seq /\ buf'.hold_seq = mid.hold_seq
      BY <1>1, <1>5, <2>5, Stages
    <3>2. \A i \in 1..Len(out) : \/ out[i] = d
                                 \/ out[i] = mid.outbuf[i] /\ i \in 1..Len(mid.outbuf)
      BY <2>3, Appended
    <3>3. d.frame = camera'.frame
      BY <1>1, <2>5
    <3> HIDE DEF out, mid
    <3>4. /\ Upto(out, camera'.frame)
          /\ Since(mid.outbuf, first) => Since(out, first)
      <4>1. d.frame <= camera'.frame /\ first <= d.frame
        BY <1>1, <3>3
      <4>2. QED
        BY <2>1, <3>2, <4>1 DEF Upto, Since
    <3>5. Upto(<< >>, camera'.frame) /\ Since(<< >>, first)
      BY DEF Upto, Since
    <3>6. QED
      BY <1>1, <2>1, <3>1, <3>4, <3>5 DEF StaleInv
  <2>6. QED
    BY <2>4, <2>5 DEF Payload
<1>6. QED
  BY <1>4, <1>5 DEF CameraStep, Arrives

LEMMA StartStale ==
  ASSUME TypeInv, StaleInv, uvc_stream_start
  PROVE  StaleInv'
<1>1. PICK n \in 0..1 :
        /\ camera' = [camera EXCEPT !.frame = @ + n, !.ended = TRUE]
        /\ first' = camera.frame + n + 1
  BY DEF uvc_stream_start
<1>2. /\ camera.frame \in Nat /\ camera'.frame = camera.frame + n
      /\ buf.outbuf \in Seq(DataPacket) /\ buf.holdbuf \in Seq(DataPacket)
  BY <1>1 DEF TypeInv, TypeOK
<1>3. /\ buf'.seq = 0 /\ buf'.outbuf = buf.outbuf /\ buf'.holdbuf = buf.holdbuf
  BY DEF uvc_stream_start, SeqRestarted, TypeInv, TypeOK
<1>4. \A b \in Seq(DataPacket) : Upto(b, camera.frame) =>
        Upto(b, camera'.frame) /\ Before(b, first')
  BY <1>1, <1>2, InRange, SMTT(60) DEF Upto, Before
<1>5. QED
  BY <1>2, <1>3, <1>4 DEF StaleInv

\* What uvc_stream_start leaves in outbuf shows in the first frame published
\* after it, at most: that frame is numbered 0, and no later one is.
THEOREM StaleDataShowOnce == Spec => []StaleDataOnce
<1>1. Init => StaleInv
  BY DEF Init, StaleInv, Upto, Since
<1>2. TypeInv /\ StaleInv /\ [Next]_vars => StaleInv'
  <2> SUFFICES ASSUME TypeInv, StaleInv, [Next]_vars PROVE StaleInv'
    OBVIOUS
  <2>1. CASE FrameHeader \/ FirstData \/ MoreData \/ Trailer
    BY <2>1, CameraSteps, CameraStepStale
  <2>2. CASE UNCHANGED <<buf, camera, first>>
    BY <2>2 DEF StaleInv, Upto, Since, Before
  <2>3. CASE uvc_populate_frame
    BY <2>2, <2>3 DEF uvc_populate_frame, history
  <2>4. CASE uvc_stream_start
    BY <2>4, StartStale
  <2>5. CASE UNCHANGED vars
    BY <2>2, <2>5 DEF vars, history
  <2>6. QED
    BY <2>1, <2>3, <2>4, <2>5 DEF Next
<1>3. TypeInv /\ StaleInv => StaleDataOnce
  <2> SUFFICES ASSUME TypeInv, StaleInv, buf.hold_seq # 0,
                      NEW i \in DOMAIN buf.holdbuf, NEW j \in DOMAIN buf.holdbuf,
                      buf.holdbuf[i].frame < first, buf.holdbuf[j].frame >= first
               PROVE  FALSE
    BY DEF StaleDataOnce
  <2>1. /\ buf.holdbuf \in Seq(DataPacket) /\ first \in Nat
        /\ i \in 1..Len(buf.holdbuf) /\ j \in 1..Len(buf.holdbuf)
    BY SMTT(60) DEF TypeInv, TypeOK
  <2>2. buf.holdbuf[i].frame \in Nat /\ buf.holdbuf[j].frame \in Nat
    BY <2>1, InRange
  <2>3. QED
    BY <2>1, <2>2 DEF StaleInv, Since, Before
<1>4. QED
  BY <1>1, <1>2, <1>3, TypeInvariant, PTL DEF Spec

\* Data that follow the ones in outbuf, or begin a frame, leave what
\* LosslessInv says of the buffers.
LEMMA CountsAppend ==
  ASSUME NEW b \in Seq(DataPacket), NEW n \in Nat, Counts(b, n),
         NEW d \in DataPacket, d.frame = n, d.index = Len(b) + 1
  PROVE  LET c == With(b, d) IN
         /\ Counts(c, n) /\ Len(c) = d.index /\ c # << >> /\ LastOf(c) = d
         /\ d.last => Complete(c) /\ c[1].frame = n
<1> DEFINE c == With(b, d)
<1> HIDE DEF c
<1>1. /\ Len(c) = Len(b) + 1 /\ c # << >> /\ LastOf(c) = d
      /\ \A i \in 1..Len(c) : \/ c[i] = d /\ i = Len(b) + 1
                              \/ c[i] = b[i] /\ i \in 1..Len(b)
  BY Appended DEF c
<1>2. Counts(c, n)
  BY <1>1 DEF Counts
<1>3. 1 \in 1..Len(c)
  <2>1. Len(b) \in Nat
    OBVIOUS
  <2>2. QED
    BY <1>1, <2>1
<1>4. QED
  BY <1>1, <1>2, <1>3 DEF Counts, Complete, LastOf, c

\* At the end of a frame, without losses, all of it is in outbuf.
LEMMA CountsEnd ==
  ASSUME NEW b \in Seq(DataPacket), NEW n, Counts(b, n), b # << >>, LastOf(b).last
  PROVE  Complete(b) /\ b[1].frame = n
<1>1. 1 \in 1..Len(b)
  OBVIOUS
<1>2. QED
  BY <1>1 DEF Counts, Complete, LastOf

LEMMA ParityAlternates ==
  \A n \in Nat : (n + 1) % 2 # n % 2
  BY SMT

LEMMA CameraStepLossless ==
  ASSUME TypeInv, LosslessInv, NEW p \in Payload, CameraStep(p), Follows(p)
  PROVE  LosslessInv'
<1> SUFFICES ASSUME ~lossy', starts' = 1 PROVE LosslessInv'
  BY DEF LosslessInv
<1>1. /\ buf \in Buffers /\ lossy \in BOOLEAN
      /\ buf.outbuf \in Seq(DataPacket) /\ buf.holdbuf \in Seq(DataPacket)
      /\ camera.frame \in Nat /\ camera'.frame \in Nat /\ buf.seq \in Nat
      /\ camera.frame <= camera'.frame /\ camera.index \in Nat
  BY PayloadAssumption DEF TypeInv, TypeOK, Buffers, CameraStep
<1>2. /\ ProcessPayload(p) /\ ~lossy /\ starts = 1 /\ first' = first
  BY DEF CameraStep, Arrives, DropPayload
<1>3. /\ first = 1 /\ fid = camera.frame % 2
      /\ buf.seq = IF buf.outbuf = << >> /\ camera.ended THEN camera.frame
                                                         ELSE camera.frame - 1
      /\ Counts(buf.outbuf, camera.frame)
      /\ ~camera.ended => Len(buf.outbuf) = camera.index
      /\ camera.ended /\ buf.outbuf # << >> => LastOf(buf.outbuf).last
      /\ Published => /\ Complete(buf.holdbuf)
                      /\ buf.hold_seq = buf.holdbuf[1].frame - 1
  BY <1>2 DEF LosslessInv
<1>4. first' = 1 /\ fid' = camera'.frame % 2
  BY <1>1, <1>2, <1>3 DEF ProcessPayload, Follows
<1> DEFINE mid == Swapped(p)
<1>5. /\ mid \in Buffers
      /\ mid.outbuf \in Seq(DataPacket) /\ mid.seq \in Nat
  BY <1>1, <1>2, Stages DEF Buffers
<1>6. CASE camera'.frame = camera.frame
  <2>1. p.fid = fid
    BY <1>3, <1>6 DEF Follows
  <2>2. mid = buf
    BY <2>1 DEF Swapped, FrameChanged
  <2>3. CASE p.data = << >>
    <3>1. camera' = camera /\ buf' = buf
      BY <1>1, <1>2, <1>6, <2>2, <2>3, Stages DEF Follows
    <3>2. QED
      BY <1>3, <1>4, <3>1 DEF LosslessInv, Counts, LastOf, Published, Complete
  <2>4. ASSUME NEW d \in DataPacket, p.data = <<d>>
        PROVE  LosslessInv'
    <3> DEFINE out == With(buf.outbuf, d)
    <3>1. /\ p.eof  => /\ buf'.outbuf = << >> /\ buf'.holdbuf = out
                       /\ buf'.seq = buf.seq + 1 /\ buf'.hold_seq = buf.seq
          /\ ~p.eof => /\ buf'.outbuf = out /\ buf'.holdbuf = buf.holdbuf
                       /\ buf'.seq = buf.seq /\ buf'.hold_seq = buf.hold_seq
      BY <1>1, <1>2, <2>2, <2>4, Stages
    <3>2. p.data # << >>
      BY <2>4
    <3>3. /\ ~camera.ended /\ d.frame = camera.frame /\ d.index = camera.index + 1
          /\ d.index = camera'.index /\ d.last = camera'.ended
          /\ p.eof => camera'.ended
      BY <1>1, <1>6, <2>4, <3>2 DEF CameraStep, Follows
    <3>4. d.index = Len(buf.outbuf) + 1 /\ buf.seq = camera.frame - 1
      BY <1>3, <3>3
    <3>5. /\ Counts(out, camera.frame) /\ Len(out) = d.index
          /\ out # << >> /\ LastOf(out) = d
          /\ d.last => Complete(out) /\ out[1].frame = camera.frame
      <4>1. Counts(buf.outbuf, camera.frame)
        BY <1>3
      <4>2. QED
        BY <1>1, <3>3, <3>4, <4>1, CountsAppend, SMTT(60)
    <3> HIDE DEF out, mid
    <3>6. CASE p.eof
      <4>1. /\ buf'.outbuf = << >> /\ buf'.holdbuf = out
            /\ buf'.seq = camera'.frame /\ buf'.hold_seq = out[1].frame - 1
            /\ camera'.ended /\ Complete(out)
        BY <1>1, <1>6, <3>1, <3>3, <3>4, <3>5, <3>6
      <4>2. Counts(<< >>, camera'.frame)
        BY DEF Counts
      <4>3. QED
        BY <1>4, <4>1, <4>2 DEF LosslessInv, Published, Complete
    <3>7. CASE ~p.eof
      <4>1. /\ buf'.outbuf = out /\ buf'.holdbuf = buf.holdbuf
            /\ buf'.seq = camera'.frame - 1 /\ buf'.hold_seq = buf.hold_seq
            /\ Len(out) = camera'.index
            /\ camera'.ended => LastOf(out).last
        BY <1>1, <1>6, <3>1, <3>3, <3>4, <3>5, <3>7
      <4>2. QED
        BY <1>3, <1>4, <1>6, <3>5, <4>1 DEF LosslessInv, Published, Complete, LastOf
    <3>8. QED
      BY <3>6, <3>7
  <2>5. QED
    BY <2>3, <2>4 DEF Payload
<1>7. CASE camera.frame < camera'.frame
  <2>1. /\ p.header /\ camera.ended /\ camera'.frame = camera.frame + 1
        /\ p.fid # fid
    BY <1>1, <1>3, <1>7, ParityAlternates DEF Follows
  <2>2. /\ mid.outbuf = << >> /\ mid.seq = camera.frame
        /\ mid.holdbuf # << >> => /\ Complete(mid.holdbuf)
                                  /\ mid.hold_seq = mid.holdbuf[1].frame - 1
    <3>1. CASE FrameChanged(p)
      <4>1. /\ mid.outbuf = << >> /\ mid.seq = buf.seq + 1
            /\ mid.holdbuf = buf.outbuf /\ mid.hold_seq = buf.seq
        BY <1>1, <3>1, SwapBuffersType DEF Swapped
      <4>2. buf.outbuf # << >>
        BY <3>1 DEF FrameChanged
      <4>3. buf.seq = camera.frame - 1
        BY <1>3, <4>2
      <4>4. Complete(buf.outbuf) /\ buf.outbuf[1].frame = camera.frame
        BY <1>1, <1>3, <2>1, <4>2, CountsEnd
      <4> HIDE DEF mid
      <4>5. QED
        BY <1>1, <4>1, <4>3, <4>4
    <3>2. CASE ~FrameChanged(p)
      <4>1. mid = buf /\ buf.outbuf = << >>
        BY <2>1, <3>2 DEF Swapped, FrameChanged
      <4>2. QED
        BY <1>3, <2>1, <4>1 DEF Published
    <3>3. QED
      BY <3>1, <3>2
  <2>3. CASE p.data = << >>
    <3>1. buf' = mid
      BY <1>1, <1>2, <2>3, Stages
    <3>2. camera'.index = 0 /\ ~camera'.ended
      BY <1>1, <1>7, <2>3 DEF Follows
    <3> HIDE DEF mid
    <3>3. Counts(<< >>, camera'.frame) /\ Len(<< >>) = 0
      BY DEF Counts
    <3>4. buf'.seq = camera'.frame - 1
      BY <1>1, <2>1, <2>2, <3>1
    <3>5. QED
      BY <1>4, <2>2, <3>1, <3>2, <3>3, <3>4 DEF LosslessInv, Published, Complete
  <2>4. ASSUME NEW d \in DataPacket, p.data = <<d>>
        PROVE  LosslessInv'
    <3> DEFINE out == With(<< >>, d)
    <3>1. /\ p.eof  => /\ buf'.outbuf = << >> /\ buf'.holdbuf = out
                       /\ buf'.seq = mid.seq + 1 /\ buf'.hold_seq = mid.seq
          /\ ~p.eof => /\ buf'.outbuf = out /\ buf'.holdbuf = mid.holdbuf
                       /\ buf'.seq = mid.seq /\ buf'.hold_seq = mid.hold_seq
      BY <1>1, <1>2, <2>2, <2>4, Stages
    <3>2. p.data # << >>
      BY <2>4
    <3>3. /\ d.frame = camera'.frame /\ d.index = 1
          /\ d.index = camera'.index /\ d.last = camera'.ended
          /\ p.eof => camera'.ended
      BY <1>1, <1>7, <2>4, <3>2 DEF CameraStep, Follows
    <3>4. << >> \in Seq(DataPacket) /\ Len(<< >>) = 0 /\ Counts(<< >>, camera'.frame)
      BY DEF Counts
    <3>5. /\ Counts(out, camera'.frame) /\ Len(out) = d.index
          /\ out # << >> /\ LastOf(out) = d
          /\ d.last => Complete(out) /\ out[1].frame = camera'.frame
      <4>1. d.index = Len(<< >>) + 1
        BY <3>3, <3>4
      <4>2. QED
        BY <1>1, <3>3, <3>4, <4>1, CountsAppend, ZenonT(120) DEF out
    <3> HIDE DEF out, mid
    <3>6. CASE p.eof
      <4>1. /\ buf'.outbuf = << >> /\ buf'.holdbuf = out
            /\ buf'.seq = camera'.frame /\ buf'.hold_seq = out[1].frame - 1
            /\ camera'.ended /\ Complete(out)
        BY <1>1, <2>1, <2>2, <3>1, <3>3, <3>5, <3>6
      <4>2. QED
        BY <1>4, <3>4, <4>1 DEF LosslessInv, Published, Complete
    <3>7. CASE ~p.eof
      <4>1. /\ buf'.outbuf = out /\ buf'.holdbuf = mid.holdbuf
            /\ buf'.seq = camera'.frame - 1 /\ buf'.hold_seq = mid.hold_seq
            /\ Len(out) = camera'.index
            /\ camera'.ended => LastOf(out).last
        BY <1>1, <2>1, <2>2, <3>1, <3>3, <3>5, <3>7
      <4>2. QED
        BY <1>4, <2>2, <3>5, <4>1 DEF LosslessInv, Published, Complete, LastOf
    <3>8. QED
      BY <3>6, <3>7
  <2>5. QED
    BY <2>3, <2>4 DEF Payload
<1>8. QED
  BY <1>1, <1>6, <1>7

\* Without losses, _uvc_process_payload publishes each frame of the camera whole,
\* and _uvc_swap_buffers numbers it with its place among the camera's frames,
\* whichever of the two signs of its end the camera gives.
THEOREM LosslessFramesWhole == Spec => []LosslessFrames
<1>1. Init => LosslessInv
  BY DEF Init, LosslessInv, Counts, Published
<1>2. TypeInv /\ LosslessInv /\ [Next]_vars => LosslessInv'
  <2> SUFFICES ASSUME TypeInv, LosslessInv, [Next]_vars PROVE LosslessInv'
    OBVIOUS
  <2>1. CASE FrameHeader \/ FirstData \/ MoreData \/ Trailer
    BY <2>1, CameraSteps, CameraStepLossless
  <2>2. CASE UNCHANGED <<buf, camera, fid, starts, first, lossy>>
    BY <2>2 DEF LosslessInv, Counts, LastOf, Published, Complete
  <2>3. CASE uvc_populate_frame
    BY <2>2, <2>3 DEF uvc_populate_frame, history
  <2>4. CASE uvc_stream_start
    <3>1. starts' # 1
      BY <2>4 DEF uvc_stream_start, TypeInv, TypeOK
    <3>2. QED
      BY <3>1 DEF LosslessInv
  <2>5. CASE UNCHANGED vars
    BY <2>2, <2>5 DEF vars, history
  <2>6. QED
    BY <2>1, <2>3, <2>4, <2>5 DEF Next
<1>3. LosslessInv => LosslessFrames
  BY DEF LosslessInv, LosslessFrames
<1>4. QED
  BY <1>1, <1>2, <1>3, TypeInvariant, PTL DEF Spec

=============================================================================
