--------------------------- MODULE TcluvcCapture ----------------------------
(***************************************************************************)
(* Capture and recording in tcluvc.c: one device (a TUVC), shared by the   *)
(* Tcl thread that opened it and by the libuvc thread that runs            *)
(* FrameCallback.                                                          *)
(*                                                                         *)
(*   cb    where FrameCallback is                                          *)
(*   tcl   where the Tcl thread is: "ready" for the next command of a      *)
(*         script or the next event, or in the middle of a command         *)
(*                                                                         *)
(* The stream below them is StreamContract, which UvcStream implements, of *)
(* a device that stays connected.  A critical section of uvcMutex is one   *)
(* step, and rmutex is held across the steps of WriteFrame.  The code uses *)
(* no mutex for rstate, conv, tid and running: where it tests one of them  *)
(* and acts on that later, test and act are two steps.                     *)
(*                                                                         *)
(* cb = tcl = "undefined" once the program frees a frame that it may not   *)
(* free, or reads one that is freed: the model ends there.  tcl = "freed"  *)
(* once the Tcl thread uses a TUVC that is freed: it takes no step then.   *)
(*                                                                         *)
(* A definition named X_Y is the definition X with a slip Y in it: the     *)
(* properties are tried on those too.  Next does not use them.             *)
(***************************************************************************)
EXTENDS Integers

CONSTANTS
  Frames,      \* what uvc_allocate_frame can return
  NULL,        \* no frame
  LIB,         \* the frame within the uvc_stream_handle_t
  GONE,        \* that frame, once its uvc_stream_handle_t is freed
  Encoded,     \* the camera delivers neither RGB nor GRAY8
  ConvModes,   \* the values the application gives convmode
  IdleModes,   \* the values the application gives update-mode
  MayRecord,   \* the application records
  MaxEvents,   \* bound: events in flight
  MaxDepth     \* bound: callbacks within callbacks

ASSUME CaptureAssumption ==
  /\ {NULL, LIB, GONE} \cap Frames = {}
  /\ NULL # LIB /\ NULL # GONE /\ LIB # GONE
  /\ Encoded \in BOOLEAN /\ MayRecord \in BOOLEAN
  /\ ConvModes \subseteq BOOLEAN /\ IdleModes \subseteq BOOLEAN
  /\ MaxEvents \in Nat \ {0} /\ MaxDepth \in Nat \ {0}

VARIABLES
  phase, inCallback,   \* the stream: see StreamContract
  open,                \* the TUVC exists
  running, tid, conv,
  frame,               \* tuvc->frame
  heap,                \* frames allocated for this device and not freed
  newest,              \* history: the frame of the latest image
  numev, evts,         \* events counted as queued; valid events in flight
  idle, idleCall,      \* update-mode; FrameReady is due when idle
  rstate, ruser,
  rchan,               \* there is a recording channel
  failed,              \* history: a write to that channel failed
  rmutex,              \* its holder
  cb, new, old,        \* FrameCallback, its frame and the one it replaced
  restarted,           \* history: a recording was started since it tested rstate
  tcl, taken,          \* the Tcl thread, and the frame it took out
  after, rnext,        \* where its command goes on; the rstate it will store
  evals,               \* callback scripts of the TUVC being evaluated
  orphans              \* those being evaluated whose TUVC is freed

stream  == <<phase, inCallback>>
device  == <<open, running, tid, conv>>
store   == <<frame, heap, newest>>
events  == <<numev, evts, idle, idleCall>>
record  == <<rstate, ruser, rchan, failed, rmutex>>
cbVars  == <<cb, new, old, restarted>>
scripts == <<evals, orphans>>
tclVars == <<tcl, taken, after, rnext, scripts>>

vars == <<stream, device, store, events, record, cbVars, tclVars>>

Stream == INSTANCE StreamContract

RecStates == {"stop", "recpri", "record", "pausepri", "pause", "error"}
Recording == {"recpri", "record"}
FrameRefs == Frames \cup {NULL, LIB, GONE}

DeviceOK ==
  /\ Stream!ContractTypeOK
  /\ open \in BOOLEAN /\ running \in BOOLEAN
  /\ tid \in BOOLEAN /\ conv \in BOOLEAN

StoreOK ==
  /\ frame \in FrameRefs /\ newest \in FrameRefs
  /\ new \in FrameRefs /\ old \in FrameRefs /\ taken \in FrameRefs
  /\ heap \subseteq Frames

EventsOK ==
  /\ numev \in -MaxEvents..1 /\ evts \in 0..MaxEvents
  /\ idle \in BOOLEAN /\ idleCall \in BOOLEAN

RecordOK ==
  /\ rstate \in RecStates /\ rnext \in RecStates
  /\ ruser \in BOOLEAN /\ rchan \in BOOLEAN /\ failed \in BOOLEAN
  /\ restarted \in BOOLEAN
  /\ rmutex \in {"none", "cb"}

ThreadsOK ==
  /\ cb \in {"out", "record", "writing", "convert", "publish", "return",
             "undefined"}
  /\ tcl \in {"ready", "starting", "started", "stopping", "stopped", "closing",
              "finishing", "storing", "writing", "putback", "image",
              "undefined", "freed"}
  /\ after \in {"ready", "closing"}
  /\ evals \in Nat /\ orphans \in Nat /\ evals + orphans <= MaxDepth

TypeOK == DeviceOK /\ StoreOK /\ EventsOK /\ RecordOK /\ ThreadsOK

Undefined ==
  /\ cb' = "undefined" /\ tcl' = "undefined"
  /\ UNCHANGED <<stream, device, store, events, record, new, old, restarted,
                 taken, after, rnext, scripts>>

\* The Tcl thread can run a command on this device.
Ready == open /\ tcl = "ready"

Return == tcl' = "ready"

-----------------------------------------------------------------------------
(***************************************************************************)
(* WriteFrame and the recording channel.                                   *)
(***************************************************************************)

Paused(state) ==
  CASE state = "recpri" -> "pausepri"
    [] state = "record" -> "pause"
    [] OTHER            -> state

Resumed(state) ==
  CASE state = "pausepri" -> "recpri"
    [] state = "pause"    -> "record"
    [] OTHER              -> state

\* The write of a frame, or of an AVI header, succeeds or sets REC_ERROR.
Written(state) ==
  \/ rstate' = state /\ UNCHANGED failed
  \/ rstate' = "error" /\ failed' = TRUE

RecordingLocked_Not == TRUE

RecordingLocked == rmutex = "none"

\* FinishRecording with the mutex free: only the Tcl thread closes the channel.
FinishRecording(state) ==
  /\ RecordingLocked
  /\ IF rchan THEN Written(state) ELSE rstate' = state /\ UNCHANGED failed
  /\ rchan' = FALSE
  /\ UNCHANGED <<ruser, rmutex>>

-----------------------------------------------------------------------------
(***************************************************************************)
(* FrameCallback, on the thread of libuvc.                                 *)
(***************************************************************************)

FrameCallback ==
  /\ cb = "out"
  /\ Stream!Deliver
  /\ cb' = IF ~tid THEN "return"
           ELSE IF rstate = "recpri" THEN "record" ELSE "convert"
  /\ UNCHANGED <<device, store, events, record, new, old, restarted, tclVars>>

\* Lock rmutex and enter WriteFrame, which writes only to an open channel and
\* not after an error.
FrameCallback_lock ==
  /\ cb = "record" /\ rmutex = "none"
  /\ IF rchan /\ rstate # "error"
     THEN /\ cb' = "writing"
          /\ rmutex' = "cb"
          /\ UNCHANGED <<rstate, restarted>>
     ELSE /\ cb' = "convert"
          /\ rstate' = IF rchan THEN rstate ELSE "error"
          /\ restarted' = FALSE
          /\ UNCHANGED rmutex
  /\ UNCHANGED <<stream, device, store, events, ruser, rchan, failed, new, old,
                 tclVars>>

Unlock_Forgotten == UNCHANGED rmutex

Unlock == rmutex' = "none"

FrameCallback_written ==
  /\ cb = "writing"
  /\ Written(rstate)
  /\ Unlock
  /\ cb' = "convert"
  /\ restarted' = FALSE
  /\ UNCHANGED <<stream, device, store, events, ruser, rchan, new, old, tclVars>>

FreshFrame == CHOOSE f \in Frames : f \notin heap

\* Convert into a frame of our own, or pass on the frame of libuvc.
FrameCallback_convert ==
  /\ cb = "convert"
  /\ IF conv /\ Encoded
     THEN /\ heap # Frames
          /\ new' = FreshFrame
          /\ heap' = heap \cup {FreshFrame}
     ELSE new' = LIB /\ UNCHANGED heap
  /\ cb' = "publish"
  /\ UNCHANGED <<stream, device, frame, newest, events, record, old, restarted,
                 tclVars>>

\* No memory, or a frame that cannot be converted.
FrameCallback_convert_fails ==
  /\ cb = "convert" /\ conv /\ Encoded
  /\ cb' = "return"
  /\ UNCHANGED <<stream, device, store, events, record, new, old, restarted,
                 tclVars>>

NoneQueued == numev = 0

\* Swap the frame in and queue an event unless one is counted as queued.
FrameCallback_publish ==
  /\ cb = "publish"
  /\ frame' = new /\ old' = frame /\ new' = NULL /\ newest' = new
  /\ IF tid /\ NoneQueued
     THEN evts' = evts + 1 /\ numev' = numev + 1
     ELSE UNCHANGED <<evts, numev>>
  /\ cb' = "return"
  /\ UNCHANGED <<stream, device, heap, idle, idleCall, record, restarted,
                 tclVars>>

Freed_Kept == heap

Freed == heap \ {old}

FrameCallback_returns ==
  /\ cb = "return"
  /\ IF old \in heap \cup {NULL}
     THEN /\ Stream!Return
          /\ heap' = Freed
          /\ old' = NULL
          /\ cb' = "out"
          /\ UNCHANGED <<device, frame, newest, events, record, new, restarted,
                         tclVars>>
     ELSE Undefined

-----------------------------------------------------------------------------
(***************************************************************************)
(* Starting and stopping the capture.                                      *)
(***************************************************************************)

CMD_open ==
  /\ ~open /\ tcl = "ready"
  /\ open' = TRUE /\ running' = FALSE /\ tid' = FALSE /\ conv' = TRUE
  /\ numev' = 0 /\ idle' = FALSE
  /\ rstate' = "stop" /\ ruser' = FALSE /\ rchan' = FALSE /\ failed' = FALSE
  /\ UNCHANGED <<stream, store, evts, idleCall, rmutex, cbVars, tclVars>>

EventsCounted_Kept == numev

EventsCounted == 0

\* running and tid are set before uvc_start_streaming opens the stream.
StartCapture ==
  /\ Ready /\ ~running
  /\ running' = TRUE /\ tid' = TRUE
  /\ numev' = EventsCounted
  /\ Stream!Open
  /\ tcl' = "starting"
  /\ UNCHANGED <<open, conv, store, evts, idle, idleCall, record, cbVars, taken,
                 after, rnext, scripts>>

uvc_start_streaming ==
  /\ tcl = "starting"
  /\ Stream!Start
  /\ tcl' = "started"
  /\ UNCHANGED <<device, store, events, record, cbVars, taken, after, rnext,
                 scripts>>

StartCapture_fails ==
  /\ tcl = "starting"
  /\ Stream!Close
  /\ running' = FALSE /\ tid' = FALSE
  /\ Return
  /\ UNCHANGED <<open, conv, store, events, record, cbVars, taken, after, rnext,
                 scripts>>

StartCapture_resumes ==
  /\ tcl = "started"
  /\ rstate' = Resumed(rstate)
  /\ Return
  /\ UNCHANGED <<stream, device, store, events, ruser, rchan, failed, rmutex,
                 cbVars, taken, after, rnext, scripts>>

Invalidated_Not == evts

Invalidated == 0

\* Ask the stream to stop, if it runs; go on with next.
StopCapture(next) ==
  /\ Ready
  /\ IF running
     THEN Stream!StopRequest /\ tcl' = "stopping" /\ after' = next
          /\ UNCHANGED evts
     ELSE tcl' = next /\ evts' = Invalidated /\ UNCHANGED <<stream, after>>
  /\ UNCHANGED <<device, store, numev, idle, idleCall, record, cbVars, taken,
                 rnext>>

uvc_stop_streaming ==
  /\ tcl = "stopping"
  /\ Stream!StopReturn
  /\ tcl' = "stopped"
  /\ UNCHANGED <<device, store, events, record, cbVars, taken, after, rnext,
                 scripts>>

StateWhenStopped(state) == Paused(state)

\* The stream is closed, and what was within its handle is freed.
StopCapture_stopped ==
  /\ tcl = "stopped"
  /\ Stream!Close
  /\ tid' = FALSE /\ running' = FALSE
  /\ idleCall' = FALSE /\ evts' = Invalidated
  /\ rstate' = StateWhenStopped(rstate)
  /\ frame' = IF frame = LIB THEN GONE ELSE frame
  /\ newest' = IF newest = LIB THEN GONE ELSE newest
  /\ tcl' = after
  /\ UNCHANGED <<open, conv, heap, numev, idle, ruser, rchan, failed, rmutex,
                 cbVars, taken, after, rnext, scripts>>

CMD_stop == StopCapture("ready") /\ UNCHANGED scripts

CMD_close == StopCapture("closing") /\ UNCHANGED scripts

\* The rest of CMD_close.  The frame in the TUVC is lost with it.  The callbacks that
\* are being evaluated go on: one of them may have closed its own device.
CMD_close_stopped ==
  /\ tcl = "closing"
  /\ RecordingLocked
  /\ open' = FALSE
  /\ rchan' = FALSE
  /\ frame' = NULL /\ heap' = {} /\ newest' = NULL
  /\ orphans' = orphans + evals /\ evals' = 0
  /\ Return
  /\ UNCHANGED <<stream, running, tid, conv, events, rstate, ruser, failed,
                 rmutex, cbVars, taken, after, rnext>>

-----------------------------------------------------------------------------
(***************************************************************************)
(* Events and frames on the Tcl thread.                                    *)
(***************************************************************************)

\* Evaluate the callback, or first record the frame if that is done here.
FrameReady ==
  /\ IF ~ruser /\ rstate = "record" /\ frame # NULL
     THEN /\ taken' = frame /\ frame' = NULL
          /\ tcl' = IF rchan THEN "writing" ELSE "putback"
          /\ rstate' = IF rchan THEN rstate ELSE "error"
          /\ UNCHANGED scripts
     ELSE /\ evals' = IF frame # NULL THEN evals + 1 ELSE evals
          /\ UNCHANGED <<taken, frame, tcl, rstate, orphans>>
  /\ UNCHANGED <<stream, device, heap, newest, ruser, rchan, failed, rmutex,
                 cbVars, after, rnext>>

CanNest == Ready /\ evals + orphans < MaxDepth

\* A valid event is serviced, by the event loop or by a nested one.
FrameReady0 ==
  /\ CanNest /\ evts > 0
  /\ evts' = evts - 1
  /\ numev' = IF ~tid THEN 0 ELSE IF idle THEN numev ELSE numev - 1
  /\ IF idle \/ ~tid
     THEN idleCall' = (tid \/ idleCall)
          /\ UNCHANGED <<stream, device, store, record, cbVars, tclVars>>
     ELSE FrameReady /\ UNCHANGED idleCall
  /\ UNCHANGED idle

CountWhenIdle_Kept == numev

CountWhenIdle == IF idle THEN 0 ELSE numev

FrameReady_idle ==
  /\ CanNest /\ idleCall
  /\ idleCall' = FALSE
  /\ numev' = CountWhenIdle
  /\ FrameReady
  /\ UNCHANGED <<evts, idle>>

\* The innermost callback script ends.  Those whose TUVC is freed are the outer ones.
callback_returns ==
  /\ tcl = "ready" /\ evals + orphans > 0
  /\ IF evals > 0 THEN evals' = evals - 1 /\ UNCHANGED orphans
                  ELSE orphans' = orphans - 1 /\ UNCHANGED evals
  /\ UNCHANGED <<stream, device, store, events, record, cbVars, tcl, taken,
                 after, rnext>>

callback_fails ==
  /\ evals > 0
  /\ StopCapture("ready")
  /\ evals' = evals - 1 /\ UNCHANGED orphans

\* The same of a callback that closed its device: StopCapture gets the freed TUVC.
\* So does Tcl_EvalEx, whose script is in there, if the callback has a command left.
callback_fails_closed ==
  /\ tcl = "ready" /\ evals = 0 /\ orphans > 0
  /\ tcl' = "freed"
  /\ UNCHANGED <<stream, device, store, events, record, cbVars, taken, after,
                 rnext, scripts>>

SlotEmpty_Assumed == TRUE

SlotEmpty == frame = NULL

\* Put the frame back unless FrameCallback stored a newer one: free it then.
PutBack ==
  /\ IF SlotEmpty THEN frame' = taken /\ UNCHANGED heap
                  ELSE heap' = heap \ {taken} /\ UNCHANGED frame
  /\ taken' = NULL
  /\ Return
  /\ UNCHANGED <<stream, device, newest, events, record, cbVars, after, rnext>>

CanPutBack == frame = NULL \/ taken \in heap

FrameReady_putback ==
  /\ tcl = "putback"
  /\ IF CanPutBack THEN PutBack /\ evals' = evals + 1 /\ UNCHANGED orphans
                   ELSE Undefined

GetImage ==
  /\ Ready /\ frame # NULL
  /\ taken' = frame /\ frame' = NULL
  /\ tcl' = "image"
  /\ UNCHANGED <<stream, device, heap, newest, events, record, cbVars, after,
                 rnext, scripts>>

\* An encoded frame is converted here, and the original freed; not so if the
\* conversion fails, or the raw GRAY16 data is what was asked for.
GetImage_returns ==
  /\ tcl = "image"
  /\ \/ /\ CanPutBack /\ taken # GONE
        /\ PutBack /\ UNCHANGED scripts
     \/ /\ ~CanPutBack \/ taken = GONE \/ (taken = LIB /\ Encoded)
        /\ Undefined

\* The parameter update-mode: any change cancels the idle call and starts to
\* count anew.
SetControls(flag) ==
  /\ Ready /\ flag # idle
  /\ evts < MaxEvents
  /\ idle' = flag
  /\ idleCall' = FALSE
  /\ numev' = 0
  /\ UNCHANGED <<stream, device, store, evts, record, cbVars, tclVars>>

-----------------------------------------------------------------------------
(***************************************************************************)
(* Recording commands.                                                     *)
(***************************************************************************)

InitialState(user) ==
  IF user \/ ~conv THEN IF running THEN "record" ELSE "pause"
                   ELSE IF running THEN "recpri" ELSE "pausepri"

StartState_Sticky(user) == IF rstate = "error" THEN rstate ELSE InitialState(user)

StartState(user) == InitialState(user)

\* The channel of an earlier recording is finished first.
StartRecording(user) ==
  /\ Ready /\ MayRecord
  /\ RecordingLocked
  /\ rchan' = TRUE /\ failed' = FALSE
  /\ ruser' = user
  /\ rstate' = StartState(user)
  /\ restarted' = (cb = "record")
  /\ UNCHANGED <<stream, device, store, events, rmutex, cb, new, old, tclVars>>

\* The test of rstate; record_store is the assignment.
record_pause ==
  /\ Ready /\ rstate \in Recording
  /\ rnext' = Paused(rstate)
  /\ tcl' = "storing"
  /\ UNCHANGED <<stream, device, store, events, record, cbVars, taken, after,
                 scripts>>

record_resume ==
  /\ Ready /\ running /\ rstate \in {"pausepri", "pause"}
  /\ rnext' = Resumed(rstate)
  /\ tcl' = "storing"
  /\ UNCHANGED <<stream, device, store, events, record, cbVars, taken, after,
                 scripts>>

record_store ==
  /\ tcl = "storing"
  /\ rstate' = rnext
  /\ Return
  /\ UNCHANGED <<stream, device, store, events, ruser, rchan, failed, rmutex,
                 cbVars, taken, after, rnext, scripts>>

record_stop ==
  /\ Ready
  /\ rstate' = "stop"
  /\ tcl' = "finishing"
  /\ UNCHANGED <<stream, device, store, events, ruser, rchan, failed, rmutex,
                 cbVars, taken, after, rnext, scripts>>

record_stop_finishes ==
  /\ tcl = "finishing"
  /\ FinishRecording(rstate)
  /\ Return
  /\ UNCHANGED <<stream, device, store, events, cbVars, taken, after, rnext,
                 scripts>>

\* RecordFrameFromData, which enters WriteFrame without rmutex.
record_frame ==
  /\ Ready /\ ruser /\ rstate \in {"record", "pause"}
  /\ IF rchan THEN tcl' = "writing" /\ UNCHANGED rstate
              ELSE rstate' = "error" /\ UNCHANGED tcl
  /\ UNCHANGED <<stream, device, store, events, ruser, rchan, failed, rmutex,
                 cbVars, taken, after, rnext, scripts>>

\* WriteFrame returns to FrameReady, which has taken a frame, or to
\* RecordFrameFromData.
WriteFrame_returns ==
  /\ tcl = "writing"
  /\ Written(rstate)
  /\ tcl' = IF taken # NULL THEN "putback" ELSE "ready"
  /\ UNCHANGED <<stream, device, store, events, ruser, rchan, rmutex, cbVars,
                 taken, after, rnext, scripts>>

ChannelFinished_Kept == UNCHANGED record

ChannelFinished == FinishRecording(rstate)

CMD_convmode(flag) ==
  /\ Ready /\ flag # conv
  /\ ChannelFinished
  /\ conv' = flag
  /\ UNCHANGED <<stream, open, running, tid, store, events, cbVars, tclVars>>

CMD_format ==
  /\ Ready /\ ~running
  /\ FinishRecording("stop")
  /\ UNCHANGED <<stream, device, store, events, cbVars, tclVars>>

-----------------------------------------------------------------------------
Init ==
  /\ Stream!ContractInit
  /\ open = FALSE /\ running = FALSE /\ tid = FALSE /\ conv = TRUE
  /\ frame = NULL /\ heap = {} /\ newest = NULL
  /\ numev = 0 /\ evts = 0 /\ idle = FALSE /\ idleCall = FALSE
  /\ rstate = "stop" /\ ruser = FALSE /\ rchan = FALSE /\ failed = FALSE
  /\ rmutex = "none"
  /\ cb = "out" /\ new = NULL /\ old = NULL /\ restarted = FALSE
  /\ tcl = "ready" /\ taken = NULL /\ after = "ready" /\ rnext = "stop"
  /\ evals = 0 /\ orphans = 0

\* FrameCallback, once it has been called.
CallbackNext ==
  \/ FrameCallback_lock
  \/ FrameCallback_written
  \/ FrameCallback_convert
  \/ FrameCallback_convert_fails
  \/ FrameCallback_publish
  \/ FrameCallback_returns

EventNext == FrameReady0 \/ FrameReady_idle

ScriptNext == callback_returns \/ callback_fails \/ callback_fails_closed

CommandNext ==
  \/ CMD_open
  \/ StartCapture
  \/ CMD_stop
  \/ CMD_close
  \/ GetImage
  \/ \E flag \in IdleModes : SetControls(flag)
  \/ \E user \in BOOLEAN : StartRecording(user)
  \/ record_pause
  \/ record_resume
  \/ record_stop
  \/ record_frame
  \/ \E flag \in ConvModes : CMD_convmode(flag)
  \/ CMD_format

\* The Tcl thread in the middle of a command.
CommandContinues ==
  \/ uvc_start_streaming
  \/ StartCapture_fails
  \/ StartCapture_resumes
  \/ uvc_stop_streaming
  \/ StopCapture_stopped
  \/ CMD_close_stopped
  \/ FrameReady_putback
  \/ GetImage_returns
  \/ record_store
  \/ record_stop_finishes
  \/ WriteFrame_returns

Next ==
  \/ FrameCallback \/ CallbackNext
  \/ EventNext \/ ScriptNext \/ CommandNext \/ CommandContinues

Spec == Init /\ [][Next]_vars

TopLevel == evals = 0 /\ orphans = 0

\* Threads keep running, callback scripts end, and the event loop is entered
\* again and again, also by an application that issues commands all the time.
\* Nothing obliges the camera to deliver.
Fairness ==
  /\ WF_vars(CallbackNext)
  /\ WF_vars(CommandContinues)
  /\ SF_vars(callback_returns)
  /\ SF_vars(TopLevel /\ FrameReady0)
  /\ SF_vars(TopLevel /\ FrameReady_idle)

FairSpec == Spec /\ Fairness

-----------------------------------------------------------------------------
(***************************************************************************)
(* Frames and events.                                                      *)
(***************************************************************************)

\* Every frame allocated for the device has exactly one holder: none is leaked
\* while the device is open, none freed while it is held.
FramesHeld ==
  /\ heap = {frame, new, old, taken} \cap Frames
  /\ frame \in Frames => frame \notin {new, old, taken}
  /\ new \in Frames => new \notin {old, taken}
  /\ old \in Frames => old # taken

\* "uvc image" gets the most recent frame: putting one back never hides a newer.
MostRecent == frame # NULL => frame = newest

\* While the count of events stops FrameCallback from queueing another one, there
\* is one, or an idle call, that will reset it.
CountHasEvent ==
  phase = "streaming" /\ numev > 0 => evts > 0 \/ idleCall

\* No event in the queue, no idle call and no FrameCallback refers to a TUVC that
\* CMD_close has freed.  A callback script may: see ClosedUnused.
ClosedQuiet ==
  ~open => evts = 0 /\ ~idleCall /\ cb \in {"out", "undefined"} /\ rmutex = "none"

\* uvc.n:299 of "uvc close": it closes the device that was opened before.  Nothing
\* of the device is used after that, also if the command is one of its callback.
ClosedUnused == tcl # "freed"

\* The Tcl thread is between two commands, or at an end of the model.
AtRest == {"ready", "undefined", "freed"}

\* A command returns: no thread waits for another for ever.
CommandReturns == (tcl \notin AtRest) ~> (tcl \in AtRest)

Ended == tcl \in {"undefined", "freed"}

\* While images come they are announced: FrameCallback is not kept from queueing
\* events for ever, unless the count has become negative.
CountReturnsToZero ==
  (running /\ numev > 0) ~> (numev <= 0 \/ ~running \/ Ended)

\* The same without that exception: "When an image is ready, the callback command
\* set on uvc open is invoked" (uvc.n:480).
FramesAnnounced ==
  (running /\ numev # 0) ~> (numev = 0 \/ ~running \/ Ended)

\* No frame is freed or read that is not there to be.
NeverUndefined == tcl # "undefined"

(***************************************************************************)
(* Recording.                                                              *)
(***************************************************************************)

\* The channel that FrameCallback is writing to stays open.
ChannelStaysValid == [][cb = "writing" => rchan']_vars

\* Recording is on only while capturing: StopCapture pauses it.
RecordsWhileCapturing == rstate \in Recording => running

\* rstate tells which thread writes: FrameCallback in conversion mode and with a
\* recording of the device's own frames, else the Tcl thread.
StateMatchesMode ==
  rchan => /\ rstate \in {"recpri", "pausepri"} => conv /\ ~ruser
           /\ rstate \in {"record", "pause"} => ~conv \/ ruser

\* A FrameCallback that writes does so in that mode and for such a recording (see
\* uvc.n:462), with one exception: it tested rstate in an earlier recording.
WriterHasMode == cb = "writing" => (conv /\ ~ruser) \/ restarted

\* The recording state, and who writes, fit the capture and the modes, whichever
\* command changed any of them.
RecorderMatchesCapture ==
  RecordsWhileCapturing /\ StateMatchesMode /\ WriterHasMode

\* FrameReady and RecordFrameFromData enter WriteFrame without rmutex, which
\* "is required" (tcluvc.c:1299).  Nobody else is in it then, as the states keep
\* FrameCallback out, again unless it tested rstate in an earlier recording.
OneWriter == tcl = "writing" /\ cb = "writing" => restarted

\* With a channel, the state "error" means that a write to it failed.
ErrorMeansFailure == rchan /\ rstate = "error" => failed

\* "The state error indicates a write error on the file or stream" (uvc.n:471),
\* also without a channel.  A FrameCallback that tested rstate before "record stop"
\* finds no channel after it, and WriteFrame takes that for an error.
ErrorIsWriteError == rstate = "error" => failed

=============================================================================
