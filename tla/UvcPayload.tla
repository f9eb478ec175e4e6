----------------------------- MODULE UvcPayload -----------------------------
(***************************************************************************)
(* How libuvc makes frames of payloads (libuvc/src/stream.c), between a    *)
(* camera, a bus that loses packets, and the copy a consumer gets.         *)
(*                                                                         *)
(* A data packet is a record that says which camera frame it belongs to,   *)
(* its position there, and whether it is the last; outbuf and holdbuf are  *)
(* sequences of those, and one packet counts as one byte.  The mutex of    *)
(* the stream is held throughout each of the operations.                   *)
(*                                                                         *)
(* A definition named X_Y is the definition X with a slip Y in it: the     *)
(* properties are tried on those too.  Next does not use them.             *)
(***************************************************************************)
EXTENDS Naturals, Sequences

CONSTANTS
  MaxPackets,   \* data packets in a frame, at most
  MaxFrames,    \* bound: frames the camera sends
  MaxStarts     \* bound: starts of the stream

ASSUME PayloadAssumption ==
  MaxPackets \in Nat \ {0} /\ MaxFrames \in Nat /\ MaxStarts \in Nat \ {0}

VARIABLES
  is_isight,    \* headers come in packets of their own
  marks,        \* the camera sets the end-of-frame bit on its last data packet
  mjpeg,        \* the frame format
  camera,       \* frame and position it sent last, and whether the frame ended
  fid,
  buf,          \* outbuf, holdbuf, seq, hold_seq
  frame,        \* the copy for the consumer: data_bytes, and its allocation
  starts,       \* history: starts so far
  first,        \* history: first frame sent since the last start
  lossy         \* history: a packet was lost since then

kind    == <<is_isight, marks, mjpeg>>
history == <<starts, first, lossy>>

vars == <<kind, camera, fid, buf, frame, history>>

DataPacket == [frame : 1..MaxFrames, index : 1..MaxPackets, last : BOOLEAN]

TypeOK ==
  /\ is_isight \in BOOLEAN /\ marks \in BOOLEAN /\ mjpeg \in BOOLEAN
  /\ camera \in [frame : 0..MaxFrames, index : 0..MaxPackets, ended : BOOLEAN]
  /\ fid \in {0, 1}
  /\ buf \in [outbuf : Seq(DataPacket), holdbuf : Seq(DataPacket),
             seq : 0..MaxFrames, hold_seq : 0..MaxFrames]
  /\ frame \in [data_bytes : Nat, allocated : Nat]
  /\ starts \in 1..MaxStarts /\ first \in 1..MaxFrames + 1 /\ lossy \in BOOLEAN

-----------------------------------------------------------------------------
(***************************************************************************)
(* The operations of stream.c.                                             *)
(***************************************************************************)

SwapBuffers_CountFirst(b) ==
  [outbuf |-> << >>, holdbuf |-> b.outbuf, hold_seq |-> b.seq + 1,
   seq |-> b.seq + 1]

SwapBuffers(b) ==
  [outbuf |-> << >>, holdbuf |-> b.outbuf, hold_seq |-> b.seq,
   seq |-> b.seq + 1]

FrameChanged_Unnoticed(p) == FALSE

FrameChanged(p) == p.header /\ p.fid # fid /\ buf.outbuf # << >>

\* _uvc_process_payload: the frame identifier may end the previous frame, the
\* end-of-frame bit this one, but only in a packet with data.
ProcessPayload(p) ==
  LET swapped  == IF FrameChanged(p) THEN SwapBuffers(buf) ELSE buf
      appended == IF p.data = << >> THEN swapped
                  ELSE [swapped EXCEPT !.outbuf = @ \o p.data]
  IN /\ buf' = IF p.data # << >> /\ p.eof THEN SwapBuffers(appended)
                                          ELSE appended
     /\ fid' = IF p.header THEN p.fid ELSE fid

\* A packet that did not arrive, whose header is bogus or has the error bit set.
DropPayload == lossy' = TRUE /\ UNCHANGED <<buf, fid>>

Addsize_None == 0

\* Room for the end-of-image marker that may have to be added.
Addsize == IF mjpeg THEN 2 ELSE 0

\* How many bytes of the marker the data lack, going by their last two.
MarkerBytes(hold_bytes) == IF mjpeg /\ hold_bytes >= 2 THEN {0, 1, 2} ELSE {0}

\* The allocation grows or shrinks if data_bytes, the size of the last frame,
\* is less than what is needed now.
uvc_populate_frame ==
  LET hold_bytes == Len(buf.holdbuf) IN
  /\ hold_bytes > 0
  /\ \E n \in MarkerBytes(hold_bytes) :
       frame' = [data_bytes |-> hold_bytes + n,
                 allocated  |-> IF frame.data_bytes < hold_bytes + Addsize
                                THEN hold_bytes + Addsize
                                ELSE frame.allocated]
  /\ UNCHANGED <<kind, camera, fid, buf, history>>

SeqRestarted_Continues == buf.seq

SeqRestarted == 0

\* uvc_stream_start leaves what is in the buffers.  The camera begins with a new
\* frame, of either identifier.
uvc_stream_start ==
  /\ starts < MaxStarts
  /\ starts' = starts + 1
  /\ fid' = 0
  /\ buf' = [buf EXCEPT !.seq = SeqRestarted]
  /\ \E n \in 0..1 :
       /\ camera.frame + n <= MaxFrames
       /\ camera' = [camera EXCEPT !.frame = @ + n, !.ended = TRUE]
       /\ first' = camera.frame + n + 1
  /\ lossy' = FALSE
  /\ UNCHANGED <<kind, frame>>

-----------------------------------------------------------------------------
(***************************************************************************)
(* The camera and the bus.                                                 *)
(***************************************************************************)

Arrives(p) ==
  \/ ProcessPayload(p) /\ UNCHANGED lossy
  \/ DropPayload

\* The packets of the code: the data they carry, if any, and their header.
Packet(header, n, eof, data) ==
  [header |-> header, fid |-> n % 2, eof |-> eof, data |-> data]

\* A header without data begins a frame: always so with an iSight.
FrameHeader ==
  /\ camera.ended /\ camera.frame < MaxFrames
  /\ camera' = [frame |-> camera.frame + 1, index |-> 0, ended |-> FALSE]
  /\ Arrives(Packet(TRUE, camera.frame + 1, FALSE, << >>))
  /\ UNCHANGED <<kind, frame, starts, first>>

DataPackets(n, i) ==
  \E last \in BOOLEAN :
    /\ i = MaxPackets => last
    /\ camera' = [frame |-> n, index |-> i, ended |-> last]
    /\ Arrives(Packet(~is_isight, n, last /\ marks /\ ~is_isight,
                      <<[frame |-> n, index |-> i, last |-> last]>>))
    /\ UNCHANGED <<kind, frame, starts, first>>

FirstData ==
  /\ camera.ended /\ camera.frame < MaxFrames /\ ~is_isight
  /\ DataPackets(camera.frame + 1, 1)

MoreData ==
  /\ ~camera.ended
  /\ DataPackets(camera.frame, camera.index + 1)

\* Further headers without data, which may have the end-of-frame bit.
Trailer ==
  /\ ~is_isight /\ camera.frame >= first
  /\ Arrives(Packet(TRUE, camera.frame, camera.ended, << >>))
  /\ UNCHANGED <<kind, camera, frame, starts, first>>

-----------------------------------------------------------------------------
Init ==
  /\ is_isight \in BOOLEAN /\ marks \in BOOLEAN /\ mjpeg \in BOOLEAN
  /\ camera = [frame |-> 0, index |-> 0, ended |-> TRUE]
  /\ fid = 0
  /\ buf = [outbuf |-> << >>, holdbuf |-> << >>, seq |-> 0, hold_seq |-> 0]
  /\ frame = [data_bytes |-> 0, allocated |-> 0]
  /\ starts = 1 /\ first = 1 /\ lossy = FALSE

Next ==
  \/ FrameHeader \/ FirstData \/ MoreData \/ Trailer
  \/ uvc_populate_frame \/ uvc_stream_start

Spec == Init /\ [][Next]_vars

-----------------------------------------------------------------------------
Published == buf.holdbuf # << >>

Neighbours(b) == {<<b[i], b[i + 1]>> : i \in 1..Len(b) - 1}

Complete(b) ==
  /\ \A i \in 1..Len(b) : b[i].index = i /\ b[i].frame = b[1].frame
  /\ b[Len(b)].last

\* A published frame mixes two frames of the camera only if these have the same
\* identifier bit, so that _uvc_process_payload cannot tell them apart: every
\* frame between them must have been lost.
OneFrame ==
  ~is_isight /\ starts = 1 =>
    \A p \in Neighbours(buf.holdbuf) :
      p[1].frame <= p[2].frame /\ p[1].frame % 2 = p[2].frame % 2

\* As long as no packet is lost, each frame is published whole, and the sequence
\* numbers of _uvc_swap_buffers count the frames of the camera.
LosslessFrames ==
  Published /\ ~lossy /\ starts = 1 =>
    /\ Complete(buf.holdbuf)
    /\ buf.hold_seq = buf.holdbuf[1].frame - first

\* Data of an earlier start, which uvc_stream_start leaves in outbuf, can only
\* show in the first frame published after it.
StaleDataOnce ==
  (\E i, j \in DOMAIN buf.holdbuf :
     buf.holdbuf[i].frame < first /\ buf.holdbuf[j].frame >= first)
    => buf.hold_seq = 0

\* The copy of _uvc_populate_frame, with the marker added to it, fits its
\* allocation, although that is decided by the size of the previous copy.
FrameFits == frame.data_bytes <= frame.allocated

=============================================================================
