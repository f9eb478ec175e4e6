---------------------------- MODULE UvcNegotiate ----------------------------
(***************************************************************************)
(* From the descriptors of a camera to a running stream: the parser of the *)
(* streaming interfaces (device.c), the table of formats that tcluvc shows *)
(* to scripts, "uvc format" and "uvc start" (tcluvc.c), and the            *)
(* negotiation of libuvc with the camera, up to the alternate setting and  *)
(* the size of the transfers (stream.c).                                   *)
(*                                                                         *)
(* Everything here runs in the thread of the script; what makes it hard is *)
(* the camera, which answers as it likes.  A behaviour looks at one camera *)
(* and one build, both chosen in Init.  The recording that "uvc format"    *)
(* ends and "uvc start" resumes is part of TcluvcCapture, and what happens *)
(* to a stream that runs is UvcStream.                                     *)
(*                                                                         *)
(* A definition named X_Y before X, as FixUp_None, is X with a slip Y in   *)
(* it, for the properties to catch.  Next does not use them.               *)
(***************************************************************************)
EXTENDS Integers, Sequences, FiniteSets, SequencesExt

CONSTANTS
  Cameras,  \* the cameras to look at, see Camera
  Builds,   \* the builds to look at: TRUE with LIBUVC_HAVE_JPEG
  Rates     \* what scripts pass to "uvc format" as frame rate

Unlimited == 65535   \* 0xFFFF, a payload size that says nothing
Unset     == -1      \* 0xffffffff in a field of 32 bits
TicksPerSecond == 10000000
Ticks     == 1..TicksPerSecond   \* intervals between frames, in 100 ns

VARIABLES
  cam,     \* the camera, which does not change
  jpeg,    \* whether tcluvc was built with JPEG, which does not change
  info,    \* uvc_device_info_t: the streaming interfaces as parsed
  tuvc,    \* the settings in TUVC
  pc,      \* where the command is
  tried,   \* StartCapture: i
  ctrl,    \* StartCapture: the control block
  strmh,   \* the stream handle
  result   \* of the last "uvc start"

vars == <<cam, jpeg, info, tuvc, pc, tried, ctrl, strmh, result>>

(***************************************************************************)
(* A camera.  Its interfaces have a number, the descriptor blocks, and per *)
(* alternate setting the bytes per packet of the video endpoint, 0 where   *)
(* it has none.  The other fields say how it answers:                      *)
(*   bcdUVC   the version it claims                                        *)
(*   obeys    it accepts every setting it lists, else it stays with the    *)
(*            first one of the interface                                   *)
(*   payload  its dwMaxPayloadTransferSize, and wild the intervals for     *)
(*            which it answers 0xFFFF                                      *)
(*   size     what it says of the frame size: "given", 0 or Unset          *)
(*   fails    the requests it refuses; "hinted" stands for GET_CUR while   *)
(*            bmHint is set                                                *)
(***************************************************************************)
FormatKinds == {"FORMAT_UNCOMPRESSED", "FORMAT_MJPEG", "FORMAT_FRAME_BASED"}
FrameKinds  == {"FRAME_UNCOMPRESSED", "FRAME_MJPEG", "FRAME_FRAME_BASED"}

FormatBlock(subtype, index, guid) ==
  [subtype |-> subtype, index |-> index, guid |-> guid]

\* intervals is empty for a range, which step describes.
FrameBlock(subtype, index, width, height, bytes, default, intervals, step) ==
  [subtype |-> subtype, index |-> index, width |-> width, height |-> height,
   size |-> bytes, default |-> default, intervals |-> intervals,
   step |-> step]

Block(subtype) == [subtype |-> subtype]

NoStep == [min |-> 0, max |-> 0, by |-> 1]

IsFormat(block) == block.subtype \in FormatKinds
IsFrame(block)  == block.subtype \in FrameKinds

\* Block q is the format that block p belongs to: the last one before it.
Owns(blocks, q, p) ==
  /\ q <= p /\ IsFormat(blocks[q])
  /\ \A r \in q + 1..p : ~IsFormat(blocks[r])

\* The blocks as the camera means them, found without the parser: a frame, at
\* x[2], and the format it belongs to, at x[1].
Listed(blocks) ==
  {x \in (DOMAIN blocks) \X (DOMAIN blocks) :
     IsFrame(blocks[x[2]]) /\ Owns(blocks, x[1], x[2])}

\* An MJPEG block has no GUID; it stands for the one that the parser puts in
\* its place, "MJPG".
FormatBlocks ==
  {b \in [subtype : FormatKinds, index : Nat, guid : STRING] :
     b.subtype = "FORMAT_MJPEG" => b.guid = "MJPG"}

FrameBlocks ==
  [subtype : FrameKinds, index : Nat, width : Nat, height : Nat,
   size : Nat \ {0}, default : Ticks, intervals : Seq(Ticks),
   step : [min : Nat, max : Nat, by : Nat \ {0}]]

OtherBlocks == {b \in [subtype : STRING] : ~IsFormat(b) /\ ~IsFrame(b)}

Blocks == FormatBlocks \union FrameBlocks \union OtherBlocks

\* What the device class asks of the descriptors, and the code does not check:
\* interfaces have numbers of their own, a frame follows a format, and the
\* indices name one frame of an interface.
WellFormed(interfaces) ==
  /\ interfaces \in Seq([number : Nat, alts : Seq(Nat), blocks : Seq(Blocks)])
  /\ \A k, l \in DOMAIN interfaces :
       interfaces[k].number = interfaces[l].number => k = l
  /\ \A k \in DOMAIN interfaces :
       LET blocks == interfaces[k].blocks IN
       /\ \A p \in DOMAIN blocks :
            IsFrame(blocks[p]) => \E q \in 1..p : Owns(blocks, q, p)
       /\ \A x, y \in Listed(blocks) :
            /\ blocks[x[1]].index = blocks[y[1]].index
            /\ blocks[x[2]].index = blocks[y[2]].index
            => x = y

ASSUME CamerasAssumption == \A c \in Cameras : WellFormed(c.interfaces)

\* How a camera answers.
ASSUME AnswersAssumption ==
  \A c \in Cameras : /\ c.obeys \in BOOLEAN /\ c.payload \in Nat
                     /\ c.size \in {"given", "zero", "unset"}

ASSUME BuildsAssumption == Builds \subseteq BOOLEAN

-----------------------------------------------------------------------------
(***************************************************************************)
(* The parser                                                              *)
(***************************************************************************)

\* uvc_parse_vs_frame_frame leaves dwMaxVideoFrameBufferSize zero.
FrameDesc(block) ==
  [index |-> block.index, width |-> block.width, height |-> block.height,
   size |-> IF block.subtype = "FRAME_FRAME_BASED" THEN 0 ELSE block.size,
   default |-> block.default, intervals |-> block.intervals,
   step |-> block.step]

uvc_parse_vs_First(formats, block) ==
  CASE block.subtype \in FormatKinds ->
         Append(formats, [subtype |-> block.subtype, index |-> block.index,
                          guid |-> block.guid, frames |-> <<>>])
    [] block.subtype \in FrameKinds ->
         [formats EXCEPT ![1].frames = Append(@, FrameDesc(block))]
    [] OTHER -> formats

\* A frame belongs to the format block before it; blocks that are not known
\* are skipped.
uvc_parse_vs(formats, block) ==
  CASE block.subtype \in FormatKinds ->
         Append(formats, [subtype |-> block.subtype, index |-> block.index,
                          guid |-> block.guid, frames |-> <<>>])
    [] block.subtype \in FrameKinds ->
         [formats EXCEPT ![Len(formats)].frames =
                           Append(@, FrameDesc(block))]
    [] OTHER -> formats

uvc_scan_streaming(interface) ==
  LET parsed[n \in 0..Len(interface.blocks)] ==
        IF n = 0 THEN <<>>
        ELSE uvc_parse_vs(parsed[n - 1], interface.blocks[n])
  IN  [number |-> interface.number, alts |-> interface.alts,
       formats |-> parsed[Len(interface.blocks)]]

Scannable(c) == c.bcdUVC \in {"1.0", "1.0a", "1.1"}

\* The frames of the formats of some kinds, in the order the loops of the code
\* meet them.
FramesOf(stream_ifs, kinds) ==
  FlattenSeq([k \in DOMAIN stream_ifs |->
    FlattenSeq([m \in DOMAIN stream_ifs[k].formats |->
      LET format == stream_ifs[k].formats[m] IN
      IF format.subtype \in kinds
      THEN [n \in DOMAIN format.frames |->
              [interface |-> stream_ifs[k].number, format |-> format,
               frame |-> format.frames[n]]]
      ELSE <<>>])])

AllFrames(stream_ifs) == FramesOf(stream_ifs, FormatKinds)

\* The format table of InitControls, whose indices start at 0.
FormatTable(stream_ifs) ==
  FramesOf(stream_ifs, {"FORMAT_UNCOMPRESSED"})
    \o FramesOf(stream_ifs, {"FORMAT_MJPEG"})

Rate(interval) == TicksPerSecond \div interval

\* The settings of TUVC for an entry of the table.
Settings(index, entry) ==
  [usefmt |-> index, width |-> entry.frame.width,
   height |-> entry.frame.height, fps |-> Rate(entry.frame.default),
   iscomp |-> entry.format.subtype = "FORMAT_MJPEG"]

\* What CMD_open sets, and keeps where the table is empty.
Defaults ==
  [usefmt |-> 0, width |-> 640, height |-> 480, fps |-> 30, iscomp |-> FALSE]

-----------------------------------------------------------------------------
(***************************************************************************)
(* The control block and the requests                                      *)
(***************************************************************************)
Ctrl(interface, hint, format, frame, interval) ==
  [interface |-> interface, hint |-> hint, format |-> format,
   frame |-> frame, interval |-> interval, size |-> 0, payload |-> 0]

NoCtrl == Ctrl(-1, FALSE, 0, 0, 0)

InterfaceOf(stream_ifs, number) ==
  CHOOSE i \in ToSet(stream_ifs) : i.number = number

Least(s) == CHOOSE k \in s : \A m \in s : k <= m

\* Where a loop over s stops that looks for one of the places at.
First(s, at, none) == IF at = {} THEN none ELSE s[Least(at)]

NoFrame == [interface |-> -1]

\* The descriptor of a format index and a frame index.
FindFrame(frames, format, frame) ==
  First(frames, {i \in DOMAIN frames : /\ frames[i].format.index = format
                                       /\ frames[i].frame.index = frame},
        NoFrame)

\* In any interface; and in the one interface of a stream.
uvc_find_frame_desc(stream_ifs, format, frame) ==
  FindFrame(AllFrames(stream_ifs), format, frame)

uvc_find_frame_desc_stream_AnyInterface(stream_ifs, number, format, frame) ==
  uvc_find_frame_desc(stream_ifs, format, frame)

uvc_find_frame_desc_stream(stream_ifs, number, format, frame) ==
  FindFrame(AllFrames(<<InterfaceOf(stream_ifs, number)>>), format, frame)

\* The blocks that a format index and a frame index stand for.
Named(blocks, format, frame) ==
  CHOOSE x \in Listed(blocks) : /\ blocks[x[1]].index = format
                                /\ blocks[x[2]].index = frame

Meant(c, number, format, frame) ==
  LET blocks == InterfaceOf(c.interfaces, number).blocks
      x == Named(blocks, format, frame)
  IN  [format |-> blocks[x[1]], frame |-> blocks[x[2]]]

\* What the camera makes of settings it is sent, with its own sizes; without
\* the hint it takes the interval it likes.
Accepts(c, asked) ==
  LET blocks == InterfaceOf(c.interfaces, asked.interface).blocks
      frames == {p \in DOMAIN blocks : IsFrame(blocks[p])}
      frame  == blocks[Least(frames)]
      format == blocks[CHOOSE q \in DOMAIN blocks :
                         Owns(blocks, q, Least(frames))]
      frameOf == Meant(c, asked.interface, asked.format, asked.frame).frame
      held == IF c.obeys
              THEN IF asked.hint THEN asked
                   ELSE [asked EXCEPT !.interval = frameOf.default]
              ELSE [asked EXCEPT !.format = format.index,
                                 !.frame = frame.index,
                                 !.interval = frame.default]
  IN  [held EXCEPT
        !.payload = IF held.interval \in c.wild
                    THEN Unlimited ELSE c.payload,
        !.size = IF c.size = "given"
                 THEN Meant(c, held.interface, held.format, held.frame)
                        .frame.size
                 ELSE IF c.size = "zero" THEN 0 ELSE Unset]

Refuses(c, asked) ==
  \/ "GET_CUR" \in c.fails
  \/ "hinted" \in c.fails /\ asked.hint

\* uvc_query_stream_ctrl with GET_CUR: the answer, with a frame size from the
\* descriptors where the camera gives none.
FixUp_None(stream_ifs, answer) == answer

FixUp(stream_ifs, answer) ==
  LET desc == uvc_find_frame_desc(stream_ifs, answer.format, answer.frame) IN
  IF answer.size \in {0, Unset} /\ desc # NoFrame
  THEN [answer EXCEPT !.size = desc.frame.size]
  ELSE answer

-----------------------------------------------------------------------------
(***************************************************************************)
(* uvc_get_stream_ctrl_format_size                                         *)
(***************************************************************************)

\* The format table of libuvc: RGB has no entry, so it matches nothing.
Guid == [YUYV |-> "YUY2", UYVY |-> "UYVY", GRAY8 |-> "Y800",
         GRAY16 |-> "Y16", MJPEG |-> "MJPG"]

Matches(cf, guid) == cf \in DOMAIN Guid /\ Guid[cf] = guid

uvc_frame_format_for_guid(guid) ==
  IF \E f \in DOMAIN Guid : Guid[f] = guid
  THEN CHOOSE f \in DOMAIN Guid : Guid[f] = guid
  ELSE "UNKNOWN"

\* The intervals of a frame that are looked at, and those that have the rate; a
\* rate of 0 takes any that is listed.
Intervals(frame, fps) ==
  IF frame.intervals # <<>> THEN frame.intervals
  ELSE <<TicksPerSecond \div fps>>

HasRate(frame, v, fps) ==
  IF frame.intervals # <<>> THEN Rate(v) = fps \/ fps = 0
  ELSE /\ v >= frame.step.min
       /\ v <= frame.step.max
       /\ (v - frame.step.min) % frame.step.by = 0

\* Listed intervals are tried on the camera, and dropped if it answers that
\* it needs 0xFFFF bytes.  Where it refuses to answer, the block still holds
\* the payload of GET_MAX, or, where that was refused too, what was on the
\* stack, which max stands for.
Tried(c, frame, asked, max) ==
  \/ frame.intervals = <<>>
  \/ IF Refuses(c, asked)
     THEN max # Unlimited
     ELSE Accepts(c, asked).payload # Unlimited

\* The control blocks of all frames and intervals, in the order of the loops.
Candidates(stream_ifs, fps) ==
  LET all == AllFrames(stream_ifs)
  IN  FlattenSeq([k \in DOMAIN all |->
        LET intervals == Intervals(all[k].frame, fps) IN
        [m \in DOMAIN intervals |->
           [format |-> all[k].format, frame |-> all[k].frame,
            asked |-> Ctrl(all[k].interface, TRUE, all[k].format.index,
                           all[k].frame.index, intervals[m])]]])

Takes(c, cf, t, max, d) ==
  /\ Matches(cf, d.format.guid)
  /\ d.frame.width = t.width /\ d.frame.height = t.height
  /\ HasRate(d.frame, d.asked.interval, t.fps)
  /\ Tried(c, d.frame, d.asked, max)

Found(c, stream_ifs, cf, t, max) ==
  LET all == Candidates(stream_ifs, t.fps)
  IN  First(all, {i \in DOMAIN all : Takes(c, cf, t, max, all[i])},
            [asked |-> NoCtrl]).asked

\* uvc_probe_stream_ctrl, a second time without the hint if it fails: what
\* was sent when it succeeded.
Probes(c, asked) ==
  LET again == [asked EXCEPT !.hint = FALSE] IN
  IF ~Refuses(c, asked) THEN {asked}
  ELSE IF ~Refuses(c, again) THEN {again} ELSE {}

-----------------------------------------------------------------------------
(***************************************************************************)
(* uvc_stream_start                                                        *)
(***************************************************************************)
Isochronous(interface) == Len(interface.alts) > 1

\* Bytes per microframe of the frame at six bits per pixel and its rate.
Estimate(frame, interval) ==
  (frame.width * frame.height * 6 * (Rate(interval) + 1)) \div 8000 + 12

BytesNeeded(frame, c) ==
  IF c.payload = Unlimited THEN Estimate(frame, c.interval) ELSE c.payload

\* The first alternate setting whose packets hold a payload, else the first
\* of the largest, else none.
AltSetting(alts, need) ==
  LET enough == {k \in DOMAIN alts : alts[k] >= need}
      most == {k \in DOMAIN alts : /\ alts[k] > 0
                                   /\ \A m \in DOMAIN alts :
                                        alts[m] <= alts[k]}
  IN  IF enough # {} THEN Least(enough)
      ELSE IF most # {} THEN Least(most) ELSE 0

MaxPackets == 32

\* A transfer holds a frame, but not more than MaxPackets packets.
PacketsFor(size, bytes) ==
  LET n == (size + bytes - 1) \div bytes IN
  IF n > MaxPackets THEN MaxPackets ELSE n

NoStream == [interface |-> -1]

\* The process is gone: it divided by zero.
Crashed == [interface |-> -2]

\* The handle of a stream that started, or NoStream and the stream is closed.
\* alt and packets are 0 for bulk transfers.  A payload of 0 bytes fits the
\* alternate setting without bandwidth, which comes first, and the frame is
\* divided into packets of 0 bytes.
Opened(c, stream_ifs, cur) ==
  LET interface == InterfaceOf(stream_ifs, cur.interface)
      desc == uvc_find_frame_desc_stream(stream_ifs, cur.interface,
                                         cur.format, cur.frame)
      Handle(alt, packets, bytes) ==
        [interface |-> cur.interface, cur |-> cur,
         frame_format |-> uvc_frame_format_for_guid(desc.format.guid),
         alt |-> alt, packets |-> packets, bytes |-> bytes]
  IN  IF \/ "COMMIT" \in c.fails
         \/ desc = NoFrame
         \/ uvc_frame_format_for_guid(desc.format.guid) = "UNKNOWN"
      THEN NoStream
      ELSE IF ~Isochronous(interface) THEN Handle(0, 0, cur.payload)
      ELSE LET need == BytesNeeded(desc.frame, cur)
               alt == AltSetting(interface.alts, need)
               bytes == interface.alts[alt]
               packets == PacketsFor(cur.size, bytes)
               enough == bytes >= need
           IN  IF alt = 0 THEN NoStream
               ELSE IF bytes = 0 THEN Crashed
               ELSE IF (~enough /\ packets = 0) \/ "ALT" \in c.fails
               THEN NoStream
               ELSE Handle(alt, packets, packets * bytes)

-----------------------------------------------------------------------------
(***************************************************************************)
(* tcluvc                                                                  *)
(***************************************************************************)
Try(fmt, iscomp) == [fmt |-> fmt, iscomp |-> iscomp]

tryfmts ==
  (IF jpeg THEN <<Try("MJPEG", TRUE)>> ELSE <<>>)
  \o <<Try("YUYV", FALSE), Try("UYVY", FALSE), Try("GRAY16", FALSE),
       Try("GRAY8", FALSE), Try("RGB", FALSE)>>

fmts == FormatTable(info)

Init ==
  /\ cam \in Cameras
  /\ jpeg \in Builds
  /\ info = <<>>
  /\ tuvc = Defaults
  /\ pc = "closed"
  /\ tried = 0
  /\ ctrl = NoCtrl
  /\ strmh = NoStream
  /\ result = "none"

\* uvc_open: the descriptors are parsed and the first entry of the table
\* becomes the setting.  A camera of another version cannot be opened.
OpenDevice ==
  /\ pc = "closed" /\ info = <<>>
  /\ Scannable(cam)
  /\ info' = [k \in DOMAIN cam.interfaces |->
                uvc_scan_streaming(cam.interfaces[k])]
  /\ tuvc' = IF FormatTable(info') = <<>> THEN Defaults
             ELSE Settings(0, FormatTable(info')[1])
  /\ pc' = "idle"
  /\ UNCHANGED <<cam, jpeg, tried, ctrl, strmh, result>>

\* The first listed rate that is not above the one asked for, else the last.
FrameRate(rates, fps) ==
  LET low == {k \in DOMAIN rates : rates[k] <= fps} IN
  IF low # {} THEN rates[Least(low)] ELSE rates[Len(rates)]

\* CMD_format, with a frame rate or with the one of the entry, fps = 0.
CMD_format(index, fps) ==
  /\ pc = "idle"
  /\ index + 1 \in DOMAIN fmts
  /\ LET entry == fmts[index + 1]
         rates == [k \in DOMAIN entry.frame.intervals |->
                     Rate(entry.frame.intervals[k])]
     IN  tuvc' = IF fps > 0 /\ rates # <<>>
                 THEN [Settings(index, entry) EXCEPT
                         !.fps = FrameRate(rates, fps)]
                 ELSE Settings(index, entry)
  /\ result' = "none"
  /\ UNCHANGED <<cam, jpeg, info, pc, tried, ctrl, strmh>>

\* StartCapture, up to the loop over the formats.
StartCapture ==
  /\ pc = "idle"
  /\ tried' = 0
  /\ pc' = "trying"
  /\ result' = "none"
  /\ UNCHANGED <<cam, jpeg, info, tuvc, ctrl, strmh>>

Format == tryfmts[tried + 1]

Skips == ~tuvc.iscomp /\ Format.iscomp

SkipFormat ==
  /\ pc = "trying" /\ tried < Len(tryfmts)
  /\ Skips
  /\ tried' = tried + 1
  /\ UNCHANGED <<cam, jpeg, info, tuvc, pc, ctrl, strmh, result>>

\* On a failure the loop increments i, and then the for statement does.
AfterFailure_More(i) == i + 3

AfterFailure(i) == i + 2

\* One format of the loop.
TryFormat ==
  /\ pc = "trying" /\ tried < Len(tryfmts)
  /\ ~Skips
  /\ \E max \in IF "GET_MAX" \in cam.fails THEN {0, Unlimited}
                ELSE {cam.payload} :
       LET asked == Found(cam, info, Format.fmt, tuvc, max)
           sent  == IF asked = NoCtrl THEN {} ELSE Probes(cam, asked)
       IN  \/ /\ \E p \in sent : ctrl' = FixUp(info, Accepts(cam, p))
              /\ pc' = "negotiated"
              /\ UNCHANGED tried
           \/ /\ sent = {}
              /\ tried' = AfterFailure(tried)
              /\ UNCHANGED <<ctrl, pc>>
  /\ UNCHANGED <<cam, jpeg, info, tuvc, strmh, result>>

\* No format is left: "error setting format".
NoFormat ==
  /\ pc = "trying" /\ tried >= Len(tryfmts)
  /\ pc' = "idle"
  /\ result' = "refused"
  /\ tried' = 0 /\ ctrl' = NoCtrl
  /\ UNCHANGED <<cam, jpeg, info, tuvc, strmh>>

\* uvc_start_streaming with the block that was negotiated.
StartStreaming ==
  /\ pc = "negotiated"
  /\ strmh' = Opened(cam, info, ctrl)
  /\ \/ strmh' = NoStream /\ pc' = "idle" /\ result' = "refused"
     \/ strmh' = Crashed /\ pc' = "crashed" /\ result' = "none"
     \/ /\ strmh' \notin {NoStream, Crashed}
        /\ pc' = "running" /\ result' = "started"
  /\ tried' = 0 /\ ctrl' = NoCtrl
  /\ UNCHANGED <<cam, jpeg, info, tuvc>>

\* StopCapture; the handle of the stream is freed.
StopCapture ==
  /\ pc = "running"
  /\ strmh' = NoStream
  /\ pc' = "idle"
  /\ result' = "none"
  /\ UNCHANGED <<cam, jpeg, info, tuvc, tried, ctrl>>

Next ==
  \/ OpenDevice
  \/ \E index \in 0..Len(fmts) - 1, fps \in Rates : CMD_format(index, fps)
  \/ StartCapture \/ SkipFormat \/ TryFormat \/ NoFormat
  \/ StartStreaming \/ StopCapture

Spec == Init /\ [][Next]_vars

-----------------------------------------------------------------------------
(***************************************************************************)
(* Properties                                                              *)
(***************************************************************************)

\* The variables hold what the code can put there; the handle exists exactly
\* while the stream runs.
TypeOK ==
  /\ pc \in {"closed", "idle", "trying", "negotiated", "running", "crashed"}
  /\ result \in {"none", "started", "refused"}
  /\ tried \in 0..Len(tryfmts) + 1
  /\ DOMAIN tuvc = DOMAIN Defaults
  /\ tuvc.usefmt = 0 \/ tuvc.usefmt \in 0..Len(fmts) - 1
  /\ DOMAIN ctrl = DOMAIN NoCtrl
  /\ (pc = "running") = (strmh \notin {NoStream, Crashed})
  /\ (pc = "crashed") = (strmh = Crashed)

\* The format and the frame, as the camera means them, that a running stream
\* was committed to.
Sent == Meant(cam, strmh.cur.interface, strmh.cur.format, strmh.cur.frame)

\* A camera that accepts what it lists, and answers all requests.
Cooperates == cam.obeys /\ cam.fails \subseteq {"GET_MAX", "hinted"}

\* The frames that arrive are the ones the script chose: with the width, the
\* height and the rate that "uvc format" reports, and compressed only for an
\* entry that says so.  (Where the camera only accepts a block without the
\* hint, the rate is its own.)  The choice passes through the table of
\* tcluvc, which keeps sizes and no indices, the search of libuvc, which
\* finds indices again, and the answer of the camera (tcluvc.c:2194,
\* stream.c:375).
StartedAsAsked ==
  pc = "running" /\ Cooperates =>
    /\ Sent.frame.width = tuvc.width
    /\ Sent.frame.height = tuvc.height
    /\ strmh.cur.hint => Rate(strmh.cur.interval) = tuvc.fps
    /\ Sent.format.guid = "MJPG" => tuvc.iscomp /\ jpeg

\* However the camera answers, the frames are taken for what it was committed
\* to: the format by which tcluvc will convert them is the one of the format
\* block that the camera means, although two interfaces may use the same
\* indices (stream.c:871).
DecodedAsSent ==
  pc = "running" =>
    uvc_frame_format_for_guid(Sent.format.guid) = strmh.frame_format

\* The choice of the script reaches the camera, and what the camera sends is
\* taken for what it is.
FramesAsChosen == StartedAsAsked /\ DecodedAsSent

\* Where the camera leaves the size of a frame to the descriptors, there is one:
\* that of a frame based frame is left 0, and no stream that can start has such
\* a frame.  (FixUp takes any interface's frame of the same indices.)
SizesKnown(c) ==
  c.size # "given" =>
    \A k, l \in DOMAIN c.interfaces :
      LET this == c.interfaces[k].blocks
          that == c.interfaces[l].blocks
      IN  \A x \in Listed(this), y \in Listed(that) :
            /\ this[x[1]].index = that[y[1]].index
            /\ this[x[2]].index = that[y[2]].index
            /\ that[y[2]].subtype = "FRAME_FRAME_BASED"
            => uvc_frame_format_for_guid(this[x[1]].guid) = "UNKNOWN"

\* Whatever the camera answers, the alternate setting of an isochronous stream
\* reserves what the stream needs, or the most there is, and a transfer has at
\* most MaxPackets packets.  The transfers have room for data, and the search
\* for the setting ends without a division by zero, if the camera names a
\* payload and there is a size of the frame, even one that only the
\* descriptors give (stream.c:937, stream.c:266).
TransfersCarryData ==
  /\ pc = "crashed" => cam.payload = 0
  /\ pc = "running" =>
       LET interface == InterfaceOf(cam.interfaces, strmh.interface)
           held == {interface.alts[k] : k \in DOMAIN interface.alts}
       IN  /\ Isochronous(interface) =>
                /\ strmh.packets \in 0..MaxPackets
                /\ LET bytes == interface.alts[strmh.alt]
                       need == BytesNeeded(Sent.frame, strmh.cur)
                   IN  bytes >= need \/ \A b \in held : b <= bytes
           /\ cam.payload # 0 /\ SizesKnown(cam) => strmh.bytes > 0

\* "uvc start" survives a camera that names no payload too, as one expects of
\* "fix up block for cameras that fail to set dwMax*" (stream.c:265).
ZerosFixedUp == pc # "crashed"

\* The indices of "uvc listformats" name the frames of the camera, each once,
\* and the uncompressed ones come first: the default, index 0, is compressed
\* only if the camera has nothing else (tcluvc.c:2590).
TableNamesFrames ==
  info # <<>> =>
    /\ \A i \in DOMAIN fmts :
         LET m == Meant(cam, fmts[i].interface, fmts[i].format.index,
                        fmts[i].frame.index)
         IN  /\ m.frame.width = fmts[i].frame.width
             /\ m.frame.height = fmts[i].frame.height
             /\ m.format.guid = fmts[i].format.guid
    /\ \A i, j \in DOMAIN fmts :
         /\ i # j => fmts[i] # fmts[j]
         /\ i < j /\ fmts[i].format.subtype = "FORMAT_MJPEG" =>
              fmts[j].format.subtype = "FORMAT_MJPEG"

\* The format of the entry in use.
Chosen ==
  IF fmts = <<>> THEN "UNKNOWN"
  ELSE uvc_frame_format_for_guid(fmts[tuvc.usefmt + 1].format.guid)

\* A frame offers its default interval: it is in its list, or, for a range,
\* what the code makes of it, a rate and an interval again, is in the range.
OffersDefault(frame) ==
  LET rate == Rate(frame.default) IN
  IF frame.intervals # <<>> THEN frame.default \in ToSet(frame.intervals)
  ELSE HasRate(frame, TicksPerSecond \div rate, rate)

\* The blocks of a camera describe streams that it can send: the guid of MJPEG
\* is on no other format, frames offer their default, and isochronous
\* interfaces have an alternate setting with bandwidth.
Consistent(interface) ==
  LET blocks == interface.blocks IN
  /\ \A x \in Listed(blocks) :
       /\ blocks[x[1]].guid = "MJPG" => blocks[x[1]].subtype = "FORMAT_MJPEG"
       /\ OffersDefault(blocks[x[2]])
  /\ Isochronous(interface) =>
       \E m \in DOMAIN interface.alts : interface.alts[m] > 0

\* The camera also has a payload for every rate, its frames have sizes, and
\* nothing in its descriptors is in the way.
Willing ==
  /\ Cooperates
  /\ "GET_MAX" \notin cam.fails
  /\ cam.wild = {} /\ cam.payload \notin {0, Unlimited}
  /\ SizesKnown(cam)
  /\ \A k \in DOMAIN cam.interfaces : Consistent(cam.interfaces[k])

\* "uvc start" succeeds for an entry of the table if the camera does its
\* part and the loop of StartCapture gets to the format of the entry, which
\* it does for MJPEG, YUYV and 16 bit grey (tcluvc.c:2190).
ReachedFormatStarts ==
  result = "refused" /\ Willing =>
    Chosen \notin {"YUYV", "GRAY16"} \union IF jpeg THEN {"MJPEG"} ELSE {}

\* The same for every entry with a format that StartCapture has in its list,
\* as doc/uvc.n has it: the indices of "uvc listformats" can be used in
\* "uvc format" to switch to another frame size, and "uvc start" starts
\* capturing images.
ListedFormatStarts ==
  result = "refused" /\ Willing =>
    Chosen \notin {f.fmt : f \in ToSet(tryfmts)}

=============================================================================
