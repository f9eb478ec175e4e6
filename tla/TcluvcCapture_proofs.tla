------------------------- MODULE TcluvcCapture_proofs -------------------------
(***************************************************************************)
(* Proofs about TcluvcCapture, for any set of frames, number of events in  *)
(* flight, depth of callbacks, and use of convmode and update-mode.        *)
(*                                                                         *)
(* The invariant adds to the properties where the command under way leaves *)
(* the stream (Stages), where FrameCallback is (Callbacks), who may hold a *)
(* frame (Holders), how the count of events and the events differ (Events) *)
(* and what a recording command will store (Recorder).  Stages and         *)
(* Callbacks are what the others rest on: they say which of the two        *)
(* threads can be where while the other one acts.                          *)
(***************************************************************************)
EXTENDS TcluvcCapture, TLAPS

\* A handle is there while the device is capturing, which StartCapture says of
\* it before and StopCapture until after it is.
Stages ==
  /\ tid = running
  /\ running <=> phase # "closed"
  /\ phase # "lost"
  /\ running \/ tcl \notin {"ready", "freed"} => open
  /\ tcl = "undefined" <=> cb = "undefined"
  /\ phase = "idle" <=> tcl \in {"starting", "stopped"}
  /\ tcl = "stopping" => phase = "stopping"
  /\ phase = "stopping" => tcl \in {"stopping", "undefined"}
  /\ tcl = "started" => phase = "streaming"
  /\ tcl = "closing" => ~running

\* FrameCallback runs on a started stream, and has rmutex while it writes.
Callbacks ==
  /\ cb # "undefined" =>
       /\ inCallback <=> cb # "out"
       /\ rmutex = "cb" <=> cb = "writing"
  /\ inCallback => phase \in {"streaming", "stopping"}
  /\ cb = "writing" => rchan

\* Where a frame may be outside the TUVC; the one that was taken out is the latest
\* until FrameCallback stores another.
Holders ==
  /\ new # NULL => cb \in {"publish", "undefined"}
  /\ cb = "publish" => new # NULL
  /\ old # NULL => cb \in {"return", "undefined"}
  /\ taken # NULL => tcl \in {"writing", "putback", "image", "undefined"}
  /\ taken # NULL /\ frame = NULL => taken = newest

\* The count is behind the events in flight by those of the last change of
\* update-mode at most, and by one fewer once an idle call came of one of them.
Events ==
  /\ numev - evts >= 1 - MaxEvents
  /\ idleCall => idle /\ numev - evts >= 2 - MaxEvents
  /\ evts > 0 \/ idleCall => running /\ tcl # "starting"
  /\ tcl = "starting" => numev = 0
  /\ tcl = "putback" \/ (tcl = "writing" /\ taken # NULL) =>
       evals + orphans < MaxDepth

\* A command that tested rstate will store a state that still fits.
Recorder ==
  /\ tcl = "starting" => rstate \notin Recording
  /\ tcl = "storing" =>
       /\ rnext # "error"
       /\ rnext \in Recording => running
       /\ rchan => /\ rnext \in {"recpri", "pausepri"} => conv /\ ~ruser
                   /\ rnext \in {"record", "pause"} => ~conv \/ ruser

Modes == RecordsWhileCapturing /\ StateMatchesMode

\* Who writes, or is about to: FrameCallback as WriterHasMode says, and the Tcl
\* thread in the other modes, which no command changes in the meantime.
Writers ==
  /\ WriterHasMode
  /\ cb = "record" /\ rchan => (conv /\ ~ruser) \/ restarted
  /\ tcl = "writing" => rchan /\ (~conv \/ ruser)

Latest == MostRecent /\ Holders

Inv ==
  /\ TypeOK /\ Stages /\ Callbacks
  /\ FramesHeld /\ Latest
  /\ Events /\ CountHasEvent
  /\ Recorder /\ Modes /\ Writers /\ ErrorMeansFailure

\* What a step leaves FrameCallback with while it writes.
ChannelKept == cb = "writing" => rchan'

-----------------------------------------------------------------------------
\* There is a frame to allocate, as long as not all are in use.
LEMMA FrameFresh ==
  ASSUME heap \subseteq Frames, heap # Frames
  PROVE  FreshFrame \in Frames \ heap
<1>1. \E f \in Frames : f \notin heap
  OBVIOUS
<1>2. QED
  BY <1>1 DEF FreshFrame

\* An event is serviced while capturing only: StopCapture took the others back.
\* It brings on the idle call, or else it is taken off the count.
LEMMA EventServiced ==
  ASSUME Inv, FrameReady0
  PROVE  /\ evts > 0 /\ evts' = evts - 1 /\ UNCHANGED idle
         /\ \/ /\ idle /\ idleCall' = TRUE /\ numev' = numev
               /\ UNCHANGED <<stream, device, store, record, cbVars, tclVars>>
            \/ /\ ~idle /\ idleCall' = idleCall /\ numev' = numev - 1
               /\ FrameReady
<1> USE DEF Inv
<1>1. tid
  BY DEF FrameReady0, Events, Stages
<1>2. QED
  BY <1>1 DEF FrameReady0

\* The flags of the device stay flags, the stream stays in its phases.
LEMMA DeviceTypes == Inv /\ [Next]_vars => DeviceOK'
<1> SUFFICES ASSUME Inv, [Next]_vars PROVE DeviceOK'
  OBVIOUS
<1> USE CaptureAssumption
        DEF Inv, stream, device, store, events, record, cbVars, tclVars, scripts
<1>1. ASSUME UNCHANGED <<phase, inCallback, open, running, tid, conv>>
      PROVE  DeviceOK'
  BY <1>1 DEF DeviceOK, Stream!ContractTypeOK, Stream!Phases, TypeOK
<1>2. CASE FrameCallback
  BY <1>2
     DEF FrameCallback, Stream!Deliver, DeviceOK, Stream!ContractTypeOK,
         TypeOK
<1>3. CASE FrameCallback_returns
  BY <1>3
     DEF FrameCallback_returns, Stream!Return, Undefined, DeviceOK,
         Stream!ContractTypeOK, TypeOK
<1>4. CASE callback_fails \/ CMD_stop \/ CMD_close
  BY <1>4
     DEF callback_fails, CMD_stop, CMD_close, StopCapture,
         Stream!StopRequest, Stream!Move, DeviceOK, Stream!ContractTypeOK,
         Stream!Phases, TypeOK
<1>5. CASE CMD_open
  BY <1>5 DEF CMD_open, DeviceOK, Stream!ContractTypeOK, TypeOK
<1>6. CASE StartCapture
  BY <1>6
     DEF StartCapture, Stream!Open, Stream!Move, DeviceOK,
         Stream!ContractTypeOK, Stream!Phases, TypeOK
<1>7. CASE uvc_start_streaming
  BY <1>7
     DEF uvc_start_streaming, Stream!Start, Stream!Move, DeviceOK,
         Stream!ContractTypeOK, Stream!Phases, TypeOK
<1>8. CASE StartCapture_fails
  BY <1>8
     DEF StartCapture_fails, Stream!Close, Stream!Move, DeviceOK,
         Stream!ContractTypeOK, Stream!Phases, TypeOK
<1>9. CASE uvc_stop_streaming
  BY <1>9
     DEF uvc_stop_streaming, Stream!StopReturn, Stream!Move, DeviceOK,
         Stream!ContractTypeOK, Stream!Phases, TypeOK
<1>10. CASE StopCapture_stopped
  BY <1>10
     DEF StopCapture_stopped, Stream!Close, Stream!Move, DeviceOK,
         Stream!ContractTypeOK, Stream!Phases, TypeOK
<1>11. CASE CMD_close_stopped
  BY <1>11 DEF CMD_close_stopped, DeviceOK, Stream!ContractTypeOK, TypeOK
<1>12. ASSUME NEW flag \in ConvModes, CMD_convmode(flag)
      PROVE  DeviceOK'
  BY <1>12 DEF CMD_convmode, DeviceOK, Stream!ContractTypeOK, TypeOK
<1>13. CASE \/ FrameCallback_lock \/ FrameCallback_written
            \/ FrameCallback_convert \/ FrameCallback_convert_fails
            \/ FrameCallback_publish \/ FrameReady0 \/ FrameReady_idle
            \/ callback_returns \/ callback_fails_closed \/ StartCapture_resumes
            \/ GetImage
            \/ GetImage_returns \/ FrameReady_putback \/ WriteFrame_returns
            \/ (\E flag \in IdleModes : SetControls(flag))
            \/ (\E user \in BOOLEAN : StartRecording(user)) \/ record_pause
            \/ record_resume \/ record_store \/ record_stop
            \/ record_stop_finishes \/ CMD_format \/ record_frame
  BY <1>1, <1>13
     DEF FrameCallback_lock, FrameCallback_written, FrameCallback_convert,
         FrameCallback_convert_fails, FrameCallback_publish, FrameReady0,
         FrameReady, FrameReady_idle, callback_returns, callback_fails_closed,
         StartCapture_resumes,
         GetImage, GetImage_returns, PutBack, Undefined, FrameReady_putback,
         WriteFrame_returns, SetControls, StartRecording, record_pause,
         record_resume, record_store, record_stop, record_stop_finishes,
         FinishRecording, Written, CMD_format, record_frame
<1>14. CASE UNCHANGED vars
  BY <1>1, <1>14 DEF vars
<1>15. QED
  BY <1>1, <1>2, <1>3, <1>4, <1>5, <1>6, <1>7, <1>8, <1>9, <1>10, <1>11,
     <1>12, <1>13, <1>14
     DEF Next, CallbackNext, EventNext, ScriptNext, CommandNext,
         CommandContinues

\* Only frames and the two marks for a frame of libuvc are passed around.
LEMMA StoreTypes == Inv /\ [Next]_vars => StoreOK'
<1> SUFFICES ASSUME Inv, [Next]_vars PROVE StoreOK'
  OBVIOUS
<1> USE CaptureAssumption
        DEF Inv, stream, device, store, events, record, cbVars, tclVars, scripts
<1>1. ASSUME UNCHANGED <<frame, heap, newest, new, old, taken>>
      PROVE  StoreOK'
  BY <1>1 DEF StoreOK, FrameRefs, TypeOK
<1>2. CASE FrameCallback_convert
  <2>1. \/ new' \in Frames \ heap /\ heap' = heap \cup {new'}
        \/ new' = LIB /\ heap' = heap
    BY <1>2, FrameFresh DEF FrameCallback_convert, TypeOK, StoreOK
  <2>2. QED
    BY <1>2, <2>1 DEF FrameCallback_convert, TypeOK, StoreOK, FrameRefs
<1>3. CASE FrameCallback_publish
  BY <1>3 DEF FrameCallback_publish, StoreOK, FrameRefs, TypeOK
<1>4. CASE FrameCallback_returns
  BY <1>4
     DEF FrameCallback_returns, Freed, Undefined, StoreOK, FrameRefs, TypeOK
<1>5. CASE FrameReady0
  BY <1>5 DEF FrameReady0, FrameReady, StoreOK, FrameRefs, TypeOK
<1>6. CASE FrameReady_idle
  BY <1>6 DEF FrameReady_idle, FrameReady, StoreOK, FrameRefs, TypeOK
<1>7. CASE StopCapture_stopped
  BY <1>7 DEF StopCapture_stopped, StoreOK, FrameRefs, TypeOK
<1>8. CASE CMD_close_stopped
  BY <1>8 DEF CMD_close_stopped, StoreOK, FrameRefs, TypeOK
<1>9. CASE GetImage
  BY <1>9 DEF GetImage, StoreOK, FrameRefs, TypeOK
<1>10. CASE GetImage_returns
  BY <1>10
     DEF GetImage_returns, PutBack, Undefined, StoreOK, FrameRefs, TypeOK
<1>11. CASE FrameReady_putback
  BY <1>11
     DEF FrameReady_putback, PutBack, Undefined, StoreOK, FrameRefs, TypeOK
<1>12. CASE \/ FrameCallback \/ FrameCallback_lock \/ FrameCallback_written
            \/ FrameCallback_convert_fails \/ callback_returns
            \/ callback_fails_closed
            \/ callback_fails \/ CMD_stop \/ CMD_close \/ CMD_open
            \/ StartCapture \/ uvc_start_streaming \/ StartCapture_fails
            \/ StartCapture_resumes \/ uvc_stop_streaming
            \/ WriteFrame_returns
            \/ (\E flag \in IdleModes : SetControls(flag))
            \/ (\E user \in BOOLEAN : StartRecording(user)) \/ record_pause
            \/ record_resume \/ record_store \/ record_stop
            \/ record_stop_finishes \/ CMD_format \/ record_frame
            \/ (\E flag \in ConvModes : CMD_convmode(flag))
  BY <1>1, <1>12
     DEF FrameCallback, Stream!Deliver, FrameCallback_lock,
         FrameCallback_written, FrameCallback_convert_fails,
         callback_returns, callback_fails_closed, callback_fails, StopCapture,
         CMD_stop, CMD_close,
         CMD_open, StartCapture, uvc_start_streaming, StartCapture_fails,
         StartCapture_resumes, uvc_stop_streaming, WriteFrame_returns,
         SetControls, StartRecording, record_pause, record_resume,
         record_store, record_stop, record_stop_finishes, FinishRecording,
         Written, CMD_format, record_frame, CMD_convmode, ChannelFinished
<1>13. CASE UNCHANGED vars
  BY <1>1, <1>13 DEF vars
<1>14. QED
  BY <1>1, <1>2, <1>3, <1>4, <1>5, <1>6, <1>7, <1>8, <1>9, <1>10, <1>11,
     <1>12, <1>13
     DEF Next, CallbackNext, EventNext, ScriptNext, CommandNext,
         CommandContinues

\* The count and the events in flight stay bounded, whatever their difference.
LEMMA EventTypes == Inv /\ [Next]_vars => EventsOK'
<1> SUFFICES ASSUME Inv, [Next]_vars PROVE EventsOK'
  OBVIOUS
<1> USE CaptureAssumption
        DEF Inv, stream, device, store, events, record, cbVars, tclVars, scripts
<1>1. ASSUME UNCHANGED <<numev, evts, idle, idleCall>>
      PROVE  EventsOK'
  BY <1>1 DEF EventsOK, TypeOK
<1>2. CASE FrameCallback_publish
  BY <1>2 DEF FrameCallback_publish, NoneQueued, EventsOK, TypeOK, Events
<1>3. CASE FrameReady0
  <2>1. numev' \in -MaxEvents..1 /\ evts' \in 0..MaxEvents
    <3>1. numev - evts >= 1 - MaxEvents
      BY DEF Events
    <3>2. numev' \in {numev, numev - 1} /\ evts > 0 /\ evts' = evts - 1
      BY <1>3, EventServiced
    <3>3. QED
      BY <3>1, <3>2 DEF TypeOK, EventsOK
  <2>2. idle' \in BOOLEAN /\ idleCall' \in BOOLEAN
    BY <1>3, EventServiced DEF TypeOK, EventsOK
  <2>3. QED
    BY <2>1, <2>2 DEF EventsOK
<1>4. CASE FrameReady_idle
  <2>1. numev' \in -MaxEvents..1 /\ evts' \in 0..MaxEvents
    BY <1>4 DEF FrameReady_idle, FrameReady, CountWhenIdle, TypeOK, EventsOK
  <2>2. idle' \in BOOLEAN /\ idleCall' \in BOOLEAN
    BY <1>4 DEF FrameReady_idle, FrameReady, CountWhenIdle, TypeOK, EventsOK
  <2>3. QED
    BY <2>1, <2>2 DEF EventsOK
<1>5. CASE callback_fails \/ CMD_stop \/ CMD_close
  BY <1>5
     DEF callback_fails, CMD_stop, CMD_close, StopCapture, Invalidated,
         EventsOK, TypeOK
<1>6. CASE CMD_open
  <2>1. numev' \in -MaxEvents..1 /\ evts' \in 0..MaxEvents
    BY <1>6 DEF CMD_open, TypeOK, EventsOK
  <2>2. idle' \in BOOLEAN /\ idleCall' \in BOOLEAN
    BY <1>6 DEF CMD_open, TypeOK, EventsOK
  <2>3. QED
    BY <2>1, <2>2 DEF EventsOK
<1>7. CASE StartCapture
  BY <1>7 DEF StartCapture, EventsCounted, EventsOK, TypeOK
<1>8. CASE StopCapture_stopped
  <2>1. numev' \in -MaxEvents..1 /\ evts' \in 0..MaxEvents
    BY <1>8 DEF StopCapture_stopped, Invalidated, TypeOK, EventsOK
  <2>2. idle' \in BOOLEAN /\ idleCall' \in BOOLEAN
    BY <1>8 DEF StopCapture_stopped, Invalidated, TypeOK, EventsOK
  <2>3. QED
    BY <2>1, <2>2 DEF EventsOK
<1>9. ASSUME NEW flag \in IdleModes, SetControls(flag)
      PROVE  EventsOK'
  <2>1. numev' \in -MaxEvents..1 /\ evts' \in 0..MaxEvents
    BY <1>9 DEF SetControls, TypeOK, EventsOK
  <2>2. idle' \in BOOLEAN /\ idleCall' \in BOOLEAN
    BY <1>9 DEF SetControls, TypeOK, EventsOK
  <2>3. QED
    BY <2>1, <2>2 DEF EventsOK
<1>10. CASE \/ FrameCallback \/ FrameCallback_lock \/ FrameCallback_written
            \/ FrameCallback_convert \/ FrameCallback_convert_fails
            \/ FrameCallback_returns \/ callback_returns
            \/ callback_fails_closed
            \/ uvc_start_streaming \/ StartCapture_fails
            \/ StartCapture_resumes \/ uvc_stop_streaming
            \/ CMD_close_stopped \/ GetImage \/ GetImage_returns
            \/ FrameReady_putback \/ WriteFrame_returns
            \/ (\E user \in BOOLEAN : StartRecording(user)) \/ record_pause
            \/ record_resume \/ record_store \/ record_stop
            \/ record_stop_finishes \/ CMD_format \/ record_frame
            \/ (\E flag \in ConvModes : CMD_convmode(flag))
  BY <1>1, <1>10
     DEF FrameCallback, Stream!Deliver, FrameCallback_lock,
         FrameCallback_written, FrameCallback_convert,
         FrameCallback_convert_fails, FrameCallback_returns, Undefined,
         Stream!Return, callback_returns, callback_fails_closed,
         uvc_start_streaming,
         StartCapture_fails, StartCapture_resumes, uvc_stop_streaming,
         CMD_close_stopped, GetImage, GetImage_returns, PutBack,
         FrameReady_putback, WriteFrame_returns, StartRecording,
         record_pause, record_resume, record_store, record_stop,
         record_stop_finishes, FinishRecording, Written, CMD_format,
         record_frame, CMD_convmode, ChannelFinished
<1>11. CASE UNCHANGED vars
  BY <1>1, <1>11 DEF vars
<1>12. QED
  BY <1>1, <1>2, <1>3, <1>4, <1>5, <1>6, <1>7, <1>8, <1>9, <1>10, <1>11
     DEF Next, CallbackNext, EventNext, ScriptNext, CommandNext,
         CommandContinues

\* rstate stays a state of recording.
LEMMA RecordTypes == Inv /\ [Next]_vars => RecordOK'
<1> SUFFICES ASSUME Inv, [Next]_vars PROVE RecordOK'
  OBVIOUS
<1> USE CaptureAssumption
        DEF Inv, stream, device, store, events, record, cbVars, tclVars, scripts
<1>1. ASSUME UNCHANGED <<rstate, ruser, rchan, failed, rmutex, rnext>>,
             restarted' = restarted
      PROVE  RecordOK'
  BY <1>1 DEF RecordOK, RecStates, Recording, TypeOK
<1>2. CASE FrameCallback_lock
  BY <1>2 DEF FrameCallback_lock, RecordOK, RecStates, TypeOK
<1>3. CASE FrameCallback_written
  BY <1>3
     DEF FrameCallback_written, Written, Unlock, RecordOK, RecStates, TypeOK
<1>4. CASE FrameReady0
  BY <1>4 DEF FrameReady0, FrameReady, RecordOK, RecStates, TypeOK
<1>5. CASE FrameReady_idle
  BY <1>5 DEF FrameReady_idle, FrameReady, RecordOK, RecStates, TypeOK
<1>6. CASE CMD_open
  BY <1>6 DEF CMD_open, RecordOK, RecStates, TypeOK
<1>7. CASE StartCapture_resumes
  BY <1>7 DEF StartCapture_resumes, Resumed, RecordOK, RecStates, TypeOK
<1>8. CASE StopCapture_stopped
  BY <1>8
     DEF StopCapture_stopped, StateWhenStopped, Paused, RecordOK, RecStates,
         TypeOK
<1>9. CASE CMD_close_stopped
  BY <1>9 DEF CMD_close_stopped, RecordOK, TypeOK
<1>10. CASE WriteFrame_returns
  BY <1>10 DEF WriteFrame_returns, Written, RecordOK, RecStates, TypeOK
<1>11. ASSUME NEW user \in BOOLEAN, StartRecording(user)
      PROVE  RecordOK'
  BY <1>11
     DEF StartRecording, StartState, InitialState, RecordOK, RecStates,
         TypeOK
<1>12. CASE record_pause \/ record_resume
  BY <1>12
     DEF record_pause, record_resume, Paused, Resumed, RecordOK, RecStates,
         TypeOK
<1>13. CASE record_store
  BY <1>13 DEF record_store, RecordOK, TypeOK
<1>14. CASE record_stop
  BY <1>14 DEF record_stop, RecordOK, RecStates, TypeOK
<1>15. CASE record_stop_finishes \/ CMD_format
  BY <1>15, ZenonT(60)
     DEF record_stop_finishes, CMD_format, FinishRecording, Written,
         RecordOK, RecStates, TypeOK
<1>16. CASE record_frame
  BY <1>16 DEF record_frame, RecordOK, RecStates, TypeOK
<1>17. ASSUME NEW flag \in ConvModes, CMD_convmode(flag)
      PROVE  RecordOK'
  BY <1>17, ZenonT(60)
     DEF CMD_convmode, ChannelFinished, FinishRecording, Written, RecordOK,
         RecStates, TypeOK
<1>18. CASE \/ FrameCallback \/ FrameCallback_convert
            \/ FrameCallback_convert_fails \/ FrameCallback_publish
            \/ FrameCallback_returns \/ callback_returns
            \/ callback_fails_closed \/ callback_fails
            \/ CMD_stop \/ CMD_close \/ StartCapture \/ uvc_start_streaming
            \/ StartCapture_fails \/ uvc_stop_streaming \/ GetImage
            \/ GetImage_returns \/ FrameReady_putback
            \/ (\E flag \in IdleModes : SetControls(flag))
  BY <1>1, <1>18
     DEF FrameCallback, Stream!Deliver, FrameCallback_convert,
         FrameCallback_convert_fails, FrameCallback_publish,
         FrameCallback_returns, Undefined, Stream!Return, callback_returns,
         callback_fails_closed,
         callback_fails, StopCapture, CMD_stop, CMD_close, StartCapture,
         uvc_start_streaming, StartCapture_fails, uvc_stop_streaming,
         GetImage, GetImage_returns, PutBack, FrameReady_putback, SetControls
<1>19. CASE UNCHANGED vars
  BY <1>1, <1>19 DEF vars
<1>20. QED
  BY <1>1, <1>2, <1>3, <1>4, <1>5, <1>6, <1>7, <1>8, <1>9, <1>10, <1>11,
     <1>12, <1>13, <1>14, <1>15, <1>16, <1>17, <1>18, <1>19
     DEF Next, CallbackNext, EventNext, ScriptNext, CommandNext,
         CommandContinues

\* The two threads stay where they can be.
LEMMA ThreadTypes == Inv /\ [Next]_vars => ThreadsOK'
<1> SUFFICES ASSUME Inv, [Next]_vars PROVE ThreadsOK'
  OBVIOUS
<1> USE CaptureAssumption
        DEF Inv, stream, device, store, events, record, cbVars, tclVars, scripts
<1>1. ASSUME UNCHANGED <<cb, tcl, after, scripts>>
      PROVE  ThreadsOK'
  BY <1>1 DEF ThreadsOK, TypeOK
<1>2. CASE FrameCallback
  BY <1>2 DEF FrameCallback, ThreadsOK, TypeOK
<1>3. CASE FrameCallback_lock
  BY <1>3 DEF FrameCallback_lock, ThreadsOK, TypeOK
<1>4. CASE FrameCallback_written
  BY <1>4 DEF FrameCallback_written, ThreadsOK, TypeOK
<1>5. CASE FrameCallback_convert
  BY <1>5 DEF FrameCallback_convert, ThreadsOK, TypeOK
<1>6. CASE FrameCallback_convert_fails
  BY <1>6 DEF FrameCallback_convert_fails, ThreadsOK, TypeOK
<1>7. CASE FrameCallback_publish
  BY <1>7 DEF FrameCallback_publish, ThreadsOK, TypeOK
<1>8. CASE FrameCallback_returns
  BY <1>8 DEF FrameCallback_returns, Undefined, ThreadsOK, TypeOK
<1>9. CASE FrameReady0
  <2>1. CASE idle
    BY <1>9, <2>1, EventServiced, ZenonT(60) DEF TypeOK, ThreadsOK
  <2>2. CASE ~idle
    <3>1. FrameReady /\ UNCHANGED <<cb, after>>
      BY <1>9, <2>2, EventServiced DEF FrameReady
    <3>2. tcl' \in {"ready", "writing", "putback"}
      BY <1>9, <3>1 DEF FrameReady0, CanNest, Ready, FrameReady
    <3>3. /\ evals' \in {evals, evals + 1} /\ orphans' = orphans
          /\ evals + orphans < MaxDepth
      BY <1>9, <3>1 DEF FrameReady0, CanNest, FrameReady
    <3>4. evals' \in Nat /\ orphans' \in Nat /\ evals' + orphans' <= MaxDepth
      <4>1. evals \in Nat /\ orphans \in Nat /\ MaxDepth \in Nat
        BY DEF TypeOK, ThreadsOK
      <4>2. CASE evals' = evals
        BY <3>3, <4>1, <4>2
      <4>3. CASE evals' = evals + 1
        BY <3>3, <4>1, <4>3
      <4>4. QED
        BY <3>3, <4>2, <4>3
    <3>5. QED
      BY <3>1, <3>2, <3>4 DEF TypeOK, ThreadsOK
  <2>3. QED
    BY <2>1, <2>2
<1>10. CASE FrameReady_idle
  BY <1>10 DEF FrameReady_idle, FrameReady, CanNest, ThreadsOK, TypeOK
<1>11. CASE callback_returns \/ callback_fails_closed
  BY <1>11 DEF callback_returns, callback_fails_closed, ThreadsOK, TypeOK
<1>12. CASE callback_fails \/ CMD_stop \/ CMD_close
  BY <1>12
     DEF callback_fails, CMD_stop, CMD_close, StopCapture, ThreadsOK, TypeOK
<1>13. CASE StartCapture
  BY <1>13 DEF StartCapture, ThreadsOK, TypeOK
<1>14. CASE uvc_start_streaming
  BY <1>14 DEF uvc_start_streaming, ThreadsOK, TypeOK
<1>15. CASE StartCapture_fails
  BY <1>15 DEF StartCapture_fails, Return, ThreadsOK, TypeOK
<1>16. CASE StartCapture_resumes
  BY <1>16 DEF StartCapture_resumes, Return, ThreadsOK, TypeOK
<1>17. CASE uvc_stop_streaming
  BY <1>17 DEF uvc_stop_streaming, ThreadsOK, TypeOK
<1>18. CASE StopCapture_stopped
  BY <1>18 DEF StopCapture_stopped, ThreadsOK, TypeOK
<1>19. CASE CMD_close_stopped
  BY <1>19 DEF CMD_close_stopped, Return, ThreadsOK, TypeOK
<1>20. CASE GetImage
  BY <1>20 DEF GetImage, ThreadsOK, TypeOK
<1>21. CASE GetImage_returns
  BY <1>21
     DEF GetImage_returns, PutBack, Undefined, Return, ThreadsOK, TypeOK
<1>22. CASE FrameReady_putback
  BY <1>22
     DEF FrameReady_putback, PutBack, Undefined, Return, ThreadsOK, TypeOK,
         Events
<1>23. CASE WriteFrame_returns
  BY <1>23 DEF WriteFrame_returns, ThreadsOK, TypeOK
<1>24. CASE record_pause \/ record_resume
  BY <1>24 DEF record_pause, record_resume, ThreadsOK, TypeOK
<1>25. CASE record_store
  BY <1>25 DEF record_store, Return, ThreadsOK, TypeOK
<1>26. CASE record_stop
  BY <1>26 DEF record_stop, ThreadsOK, TypeOK
<1>27. CASE record_stop_finishes \/ CMD_format
  BY <1>27 DEF record_stop_finishes, CMD_format, Return, ThreadsOK, TypeOK
<1>28. CASE record_frame
  BY <1>28 DEF record_frame, ThreadsOK, TypeOK
<1>29. CASE \/ CMD_open \/ (\E flag \in IdleModes : SetControls(flag))
            \/ (\E user \in BOOLEAN : StartRecording(user))
            \/ (\E flag \in ConvModes : CMD_convmode(flag))
  BY <1>1, <1>29
     DEF CMD_open, SetControls, StartRecording, CMD_convmode,
         ChannelFinished, FinishRecording, Written
<1>30. CASE UNCHANGED vars
  BY <1>1, <1>30 DEF vars
<1>31. QED
  BY <1>1, <1>2, <1>3, <1>4, <1>5, <1>6, <1>7, <1>8, <1>9, <1>10, <1>11,
     <1>12, <1>13, <1>14, <1>15, <1>16, <1>17, <1>18, <1>19, <1>20, <1>21,
     <1>22, <1>23, <1>24, <1>25, <1>26, <1>27, <1>28, <1>29, <1>30
     DEF Next, CallbackNext, EventNext, ScriptNext, CommandNext,
         CommandContinues

\* Every command leaves the stream where its next step expects it.
LEMMA StagesStep == Inv /\ [Next]_vars => Stages'
<1> SUFFICES ASSUME Inv, [Next]_vars PROVE Stages'
  OBVIOUS
<1> USE CaptureAssumption
        DEF Inv, stream, device, store, events, record, cbVars, tclVars, scripts
<1>1. ASSUME UNCHANGED <<phase, open, running, tid, cb, tcl>>
      PROVE  Stages'
  BY <1>1 DEF Stages
<1>2. CASE FrameCallback
  BY <1>2 DEF FrameCallback, Stream!Deliver, Stages
<1>3. CASE FrameCallback_lock
  BY <1>3 DEF FrameCallback_lock, Stages
<1>4. CASE FrameCallback_written
  BY <1>4 DEF FrameCallback_written, Stages
<1>5. CASE FrameCallback_convert
  BY <1>5 DEF FrameCallback_convert, Stages
<1>6. CASE FrameCallback_convert_fails
  BY <1>6 DEF FrameCallback_convert_fails, Stages
<1>7. CASE FrameCallback_publish
  BY <1>7 DEF FrameCallback_publish, Stages
<1>8. CASE FrameCallback_returns
  BY <1>8
     DEF FrameCallback_returns, Stream!Return, Undefined, Stages, Callbacks
<1>9. CASE FrameReady0
  BY <1>9 DEF FrameReady0, FrameReady, CanNest, Ready, Stages
<1>10. CASE FrameReady_idle
  BY <1>10 DEF FrameReady_idle, FrameReady, CanNest, Ready, Stages
<1>11. CASE callback_fails \/ CMD_stop \/ CMD_close
  BY <1>11
     DEF callback_fails, CMD_stop, CMD_close, StopCapture,
         Stream!StopRequest, Stream!Move, Ready, Stages
<1>12. CASE CMD_open
  BY <1>12 DEF CMD_open, Stages
<1>13. CASE StartCapture
  BY <1>13 DEF StartCapture, Stream!Open, Stream!Move, Ready, Stages
<1>14. CASE uvc_start_streaming
  BY <1>14 DEF uvc_start_streaming, Stream!Start, Stream!Move, Stages
<1>15. CASE StartCapture_fails
  BY <1>15 DEF StartCapture_fails, Stream!Close, Stream!Move, Return, Stages
<1>16. CASE StartCapture_resumes
  BY <1>16 DEF StartCapture_resumes, Return, Stages
<1>17. CASE uvc_stop_streaming
  BY <1>17 DEF uvc_stop_streaming, Stream!StopReturn, Stream!Move, Stages
<1>18. CASE StopCapture_stopped
  BY <1>18
     DEF StopCapture_stopped, Stream!Close, Stream!Move, Stages, TypeOK,
         ThreadsOK
<1>19. CASE CMD_close_stopped
  BY <1>19 DEF CMD_close_stopped, Return, Stages
<1>20. CASE GetImage
  BY <1>20 DEF GetImage, Ready, Stages
<1>21. CASE GetImage_returns
  <2>1. CASE Undefined
    BY <1>21, <2>1 DEF GetImage_returns, Undefined, Stages
  <2>2. CASE PutBack
    BY <1>21, <2>2 DEF GetImage_returns, PutBack, SlotEmpty, Return, Stages
  <2>3. QED
    BY <1>21, <2>1, <2>2 DEF GetImage_returns
<1>22. CASE FrameReady_putback
  BY <1>22 DEF FrameReady_putback, PutBack, Undefined, Return, Stages
<1>23. CASE WriteFrame_returns
  BY <1>23 DEF WriteFrame_returns, Stages
<1>24. CASE record_pause \/ record_resume
  BY <1>24 DEF record_pause, record_resume, Ready, Stages
<1>25. CASE record_store
  BY <1>25 DEF record_store, Return, Stages
<1>26. CASE record_stop
  BY <1>26 DEF record_stop, Ready, Stages
<1>27. CASE record_stop_finishes \/ CMD_format
  BY <1>27 DEF record_stop_finishes, CMD_format, Return, Stages
<1>28. CASE record_frame
  BY <1>28 DEF record_frame, Ready, Stages
<1>29. CASE \/ callback_returns
            \/ (\E flag \in IdleModes : SetControls(flag))
            \/ (\E user \in BOOLEAN : StartRecording(user))
            \/ (\E flag \in ConvModes : CMD_convmode(flag))
  BY <1>1, <1>29
     DEF callback_returns, SetControls, StartRecording, CMD_convmode,
         ChannelFinished, FinishRecording, Written
<1>30. CASE UNCHANGED vars
  BY <1>1, <1>30 DEF vars
<1>31. CASE callback_fails_closed
  BY <1>31 DEF callback_fails_closed, Stages
<1>32. QED
  BY <1>1, <1>2, <1>3, <1>4, <1>5, <1>6, <1>7, <1>8, <1>9, <1>10, <1>11,
     <1>12, <1>13, <1>14, <1>15, <1>16, <1>17, <1>18, <1>19, <1>20, <1>21,
     <1>22, <1>23, <1>24, <1>25, <1>26, <1>27, <1>28, <1>29, <1>30, <1>31
     DEF Next, CallbackNext, EventNext, ScriptNext, CommandNext,
         CommandContinues

\* FrameCallback is called on a started stream only, and keeps the channel open
\* that it writes to.
LEMMA CallbacksStep == Inv /\ [Next]_vars => Callbacks'
<1> SUFFICES ASSUME Inv, [Next]_vars PROVE Callbacks'
  OBVIOUS
<1> USE CaptureAssumption
        DEF Inv, stream, device, store, events, record, cbVars, tclVars, scripts
<1>1. ASSUME UNCHANGED <<phase, inCallback, rchan, rmutex, cb>>
      PROVE  Callbacks'
  BY <1>1 DEF Callbacks
<1>2. CASE FrameCallback
  BY <1>2 DEF FrameCallback, Stream!Deliver, Callbacks
<1>3. CASE FrameCallback_lock
  BY <1>3 DEF FrameCallback_lock, Callbacks
<1>4. CASE FrameCallback_written
  BY <1>4 DEF FrameCallback_written, Unlock, Callbacks
<1>5. CASE FrameCallback_convert
  BY <1>5 DEF FrameCallback_convert, Callbacks
<1>6. CASE FrameCallback_convert_fails
  BY <1>6 DEF FrameCallback_convert_fails, Callbacks
<1>7. CASE FrameCallback_publish
  BY <1>7 DEF FrameCallback_publish, Callbacks
<1>8. CASE FrameCallback_returns
  BY <1>8 DEF FrameCallback_returns, Stream!Return, Undefined, Callbacks
<1>9. CASE callback_fails \/ CMD_stop \/ CMD_close
  BY <1>9
     DEF callback_fails, CMD_stop, CMD_close, StopCapture,
         Stream!StopRequest, Stream!Move, Callbacks
<1>10. CASE CMD_open
  BY <1>10 DEF CMD_open, Callbacks, Stages
<1>11. CASE StartCapture
  BY <1>11 DEF StartCapture, Stream!Open, Stream!Move, Callbacks
<1>12. CASE uvc_start_streaming
  BY <1>12 DEF uvc_start_streaming, Stream!Start, Callbacks
<1>13. CASE StartCapture_fails
  BY <1>13 DEF StartCapture_fails, Stream!Close, Callbacks
<1>14. CASE uvc_stop_streaming
  BY <1>14 DEF uvc_stop_streaming, Stream!StopReturn, Callbacks
<1>15. CASE StopCapture_stopped
  BY <1>15 DEF StopCapture_stopped, Stream!Close, Callbacks
<1>16. CASE CMD_close_stopped
  BY <1>16 DEF CMD_close_stopped, RecordingLocked, Callbacks
<1>17. CASE GetImage_returns
  <2>1. CASE Undefined
    BY <1>17, <2>1 DEF GetImage_returns, Undefined, Callbacks, Stages
  <2>2. CASE PutBack
    BY <1>17, <2>2
       DEF GetImage_returns, PutBack, SlotEmpty, Return, Callbacks, Stages
  <2>3. QED
    BY <1>17, <2>1, <2>2 DEF GetImage_returns
<1>18. CASE FrameReady_putback
  BY <1>18 DEF FrameReady_putback, PutBack, Undefined, Callbacks
<1>19. ASSUME NEW user \in BOOLEAN, StartRecording(user)
      PROVE  Callbacks'
  BY <1>19 DEF StartRecording, Callbacks
<1>20. CASE record_stop_finishes \/ CMD_format
  BY <1>20
     DEF record_stop_finishes, CMD_format, FinishRecording, RecordingLocked,
         Callbacks
<1>21. ASSUME NEW flag \in ConvModes, CMD_convmode(flag)
      PROVE  Callbacks'
  BY <1>21
     DEF CMD_convmode, ChannelFinished, FinishRecording, RecordingLocked,
         Callbacks
<1>22. CASE \/ FrameReady0 \/ FrameReady_idle \/ callback_returns
            \/ callback_fails_closed
            \/ StartCapture_resumes \/ GetImage \/ WriteFrame_returns
            \/ (\E flag \in IdleModes : SetControls(flag)) \/ record_pause
            \/ record_resume \/ record_store \/ record_stop \/ record_frame
  BY <1>1, <1>22
     DEF FrameReady0, FrameReady, FrameReady_idle, callback_returns,
         callback_fails_closed,
         StartCapture_resumes, GetImage, WriteFrame_returns, SetControls,
         record_pause, record_resume, record_store, record_stop, record_frame
<1>23. CASE UNCHANGED vars
  BY <1>1, <1>23 DEF vars
<1>24. QED
  BY <1>1, <1>2, <1>3, <1>4, <1>5, <1>6, <1>7, <1>8, <1>9, <1>10, <1>11,
     <1>12, <1>13, <1>14, <1>15, <1>16, <1>17, <1>18, <1>19, <1>20, <1>21,
     <1>22, <1>23
     DEF Next, CallbackNext, EventNext, ScriptNext, CommandNext,
         CommandContinues

\* A frame is handed on and never duplicated: the swap in FrameCallback, the frame
\* put back and the frame freed have one holder each.
LEMMA FramesStep == Inv /\ [Next]_vars => FramesHeld'
<1> SUFFICES ASSUME Inv, [Next]_vars PROVE FramesHeld'
  OBVIOUS
<1> USE CaptureAssumption
        DEF Inv, stream, device, store, events, record, cbVars, tclVars, scripts
<1>1. ASSUME UNCHANGED <<frame, heap, new, old, taken>>
      PROVE  FramesHeld'
  BY <1>1 DEF FramesHeld
<1>2. CASE FrameCallback_convert
  <2>1. \/ new' \in Frames \ heap /\ heap' = heap \cup {new'}
        \/ new' = LIB /\ heap' = heap
    BY <1>2, FrameFresh DEF FrameCallback_convert, TypeOK, StoreOK
  <2>2. QED
    BY <1>2, <2>1
       DEF FrameCallback_convert, TypeOK, StoreOK, FramesHeld, Latest,
           Holders, FrameRefs
<1>3. CASE FrameCallback_publish
  BY <1>3 DEF FrameCallback_publish, FramesHeld, Latest, Holders
<1>4. CASE FrameCallback_returns
  BY <1>4 DEF FrameCallback_returns, Freed, Undefined, FramesHeld
<1>5. CASE FrameReady0
  BY <1>5
     DEF FrameReady0, FrameReady, CanNest, Ready, FramesHeld, Latest, Holders
<1>6. CASE FrameReady_idle
  BY <1>6
     DEF FrameReady_idle, FrameReady, CanNest, Ready, FramesHeld, Latest,
         Holders
<1>7. CASE StopCapture_stopped
  BY <1>7 DEF StopCapture_stopped, FramesHeld
<1>8. CASE CMD_close_stopped
  BY <1>8
     DEF CMD_close_stopped, FramesHeld, Latest, Holders, Stages, Callbacks
<1>9. CASE GetImage
  BY <1>9 DEF GetImage, Ready, FramesHeld, Latest, Holders
<1>10. CASE GetImage_returns
  BY <1>10 DEF GetImage_returns, PutBack, SlotEmpty, Undefined, FramesHeld
<1>11. CASE FrameReady_putback
  BY <1>11 DEF FrameReady_putback, PutBack, SlotEmpty, Undefined, FramesHeld
<1>12. CASE \/ FrameCallback \/ FrameCallback_lock \/ FrameCallback_written
            \/ FrameCallback_convert_fails \/ callback_returns
            \/ callback_fails_closed
            \/ callback_fails \/ CMD_stop \/ CMD_close \/ CMD_open
            \/ StartCapture \/ uvc_start_streaming \/ StartCapture_fails
            \/ StartCapture_resumes \/ uvc_stop_streaming
            \/ WriteFrame_returns
            \/ (\E flag \in IdleModes : SetControls(flag))
            \/ (\E user \in BOOLEAN : StartRecording(user)) \/ record_pause
            \/ record_resume \/ record_store \/ record_stop
            \/ record_stop_finishes \/ CMD_format \/ record_frame
            \/ (\E flag \in ConvModes : CMD_convmode(flag))
  BY <1>1, <1>12
     DEF FrameCallback, Stream!Deliver, FrameCallback_lock,
         FrameCallback_written, FrameCallback_convert_fails,
         callback_returns, callback_fails_closed, callback_fails, StopCapture,
         CMD_stop, CMD_close,
         CMD_open, StartCapture, uvc_start_streaming, StartCapture_fails,
         StartCapture_resumes, uvc_stop_streaming, WriteFrame_returns,
         SetControls, StartRecording, record_pause, record_resume,
         record_store, record_stop, record_stop_finishes, FinishRecording,
         Written, CMD_format, record_frame, CMD_convmode, ChannelFinished
<1>13. CASE UNCHANGED vars
  BY <1>1, <1>13 DEF vars
<1>14. QED
  BY <1>1, <1>2, <1>3, <1>4, <1>5, <1>6, <1>7, <1>8, <1>9, <1>10, <1>11,
     <1>12, <1>13
     DEF Next, CallbackNext, EventNext, ScriptNext, CommandNext,
         CommandContinues

\* What is in the TUVC, or was taken out of it and not yet replaced, is the
\* latest image.
LEMMA LatestStep == Inv /\ [Next]_vars => Latest'
<1> SUFFICES ASSUME Inv, [Next]_vars PROVE Latest'
  OBVIOUS
<1> USE CaptureAssumption
        DEF Inv, stream, device, store, events, record, cbVars, tclVars, scripts
<1>1. ASSUME UNCHANGED <<frame, newest, cb, new, old, tcl, taken>>
      PROVE  Latest'
  BY <1>1 DEF Latest, MostRecent, Holders
<1>2. CASE FrameCallback
  BY <1>2 DEF FrameCallback, Latest, MostRecent, Holders
<1>3. CASE FrameCallback_lock
  BY <1>3 DEF FrameCallback_lock, Latest, MostRecent, Holders
<1>4. CASE FrameCallback_written
  BY <1>4 DEF FrameCallback_written, Latest, MostRecent, Holders
<1>5. CASE FrameCallback_convert
  <2>1. \/ new' \in Frames \ heap /\ heap' = heap \cup {new'}
        \/ new' = LIB /\ heap' = heap
    BY <1>5, FrameFresh DEF FrameCallback_convert, TypeOK, StoreOK
  <2>2. QED
    BY <1>5, <2>1
       DEF FrameCallback_convert, TypeOK, StoreOK, Latest, MostRecent,
           Holders, Stages
<1>6. CASE FrameCallback_convert_fails
  BY <1>6 DEF FrameCallback_convert_fails, Latest, MostRecent, Holders
<1>7. CASE FrameCallback_publish
  BY <1>7 DEF FrameCallback_publish, Latest, MostRecent, Holders
<1>8. CASE FrameCallback_returns
  BY <1>8 DEF FrameCallback_returns, Undefined, Latest, MostRecent, Holders
<1>9. CASE FrameReady0
  BY <1>9 DEF FrameReady0, FrameReady, Latest, MostRecent, Holders
<1>10. CASE FrameReady_idle
  BY <1>10 DEF FrameReady_idle, FrameReady, Latest, MostRecent, Holders
<1>11. CASE callback_fails \/ CMD_stop \/ CMD_close
  BY <1>11
     DEF callback_fails, CMD_stop, CMD_close, StopCapture, Ready, Latest,
         MostRecent, Holders
<1>12. CASE StartCapture
  BY <1>12 DEF StartCapture, Ready, Latest, MostRecent, Holders
<1>13. CASE uvc_start_streaming
  BY <1>13 DEF uvc_start_streaming, Latest, MostRecent, Holders
<1>14. CASE StartCapture_fails
  BY <1>14 DEF StartCapture_fails, Latest, MostRecent, Holders
<1>15. CASE StartCapture_resumes
  BY <1>15 DEF StartCapture_resumes, Latest, MostRecent, Holders
<1>16. CASE uvc_stop_streaming
  BY <1>16 DEF uvc_stop_streaming, Latest, MostRecent, Holders
<1>17. CASE StopCapture_stopped
  BY <1>17 DEF StopCapture_stopped, Latest, MostRecent, Holders
<1>18. CASE CMD_close_stopped
  BY <1>18 DEF CMD_close_stopped, Latest, MostRecent, Holders
<1>19. CASE GetImage
  BY <1>19 DEF GetImage, Latest, MostRecent, Holders
<1>20. CASE GetImage_returns
  BY <1>20
     DEF GetImage_returns, PutBack, SlotEmpty, Undefined, Latest, MostRecent,
         Holders
<1>21. CASE FrameReady_putback
  BY <1>21
     DEF FrameReady_putback, PutBack, SlotEmpty, Undefined, Latest,
         MostRecent, Holders
<1>22. CASE WriteFrame_returns
  BY <1>22 DEF WriteFrame_returns, Latest, MostRecent, Holders
<1>23. CASE record_pause \/ record_resume
  BY <1>23
     DEF record_pause, record_resume, Ready, Latest, MostRecent, Holders
<1>24. CASE record_store
  BY <1>24 DEF record_store, Latest, MostRecent, Holders
<1>25. CASE record_stop
  BY <1>25 DEF record_stop, Ready, Latest, MostRecent, Holders
<1>26. CASE record_stop_finishes \/ CMD_format
  BY <1>26 DEF record_stop_finishes, CMD_format, Latest, MostRecent, Holders
<1>27. CASE record_frame
  BY <1>27 DEF record_frame, Latest, MostRecent, Holders
<1>28. CASE \/ callback_returns \/ CMD_open
            \/ (\E flag \in IdleModes : SetControls(flag))
            \/ (\E user \in BOOLEAN : StartRecording(user))
            \/ (\E flag \in ConvModes : CMD_convmode(flag))
  BY <1>1, <1>28
     DEF callback_returns, CMD_open, SetControls, StartRecording,
         CMD_convmode, ChannelFinished, FinishRecording, Written
<1>29. CASE UNCHANGED vars
  BY <1>1, <1>29 DEF vars
<1>30. CASE callback_fails_closed
  BY <1>30 DEF callback_fails_closed, Latest, MostRecent, Holders
<1>31. QED
  BY <1>1, <1>2, <1>3, <1>4, <1>5, <1>6, <1>7, <1>8, <1>9, <1>10, <1>11,
     <1>12, <1>13, <1>14, <1>15, <1>16, <1>17, <1>18, <1>19, <1>20, <1>21,
     <1>22, <1>23, <1>24, <1>25, <1>26, <1>27, <1>28, <1>29, <1>30
     DEF Next, CallbackNext, EventNext, ScriptNext, CommandNext,
         CommandContinues

\* Each event is counted once, and taken off the count when serviced unless
\* update-mode changed in between.
LEMMA EventsStep == Inv /\ [Next]_vars => Events'
<1> SUFFICES ASSUME Inv, [Next]_vars PROVE Events'
  OBVIOUS
<1> USE CaptureAssumption
        DEF Inv, stream, device, store, events, record, cbVars, tclVars, scripts
<1>1. ASSUME UNCHANGED <<running, numev, evts, idle, idleCall, tcl, taken,
        scripts>>
      PROVE  Events'
  BY <1>1 DEF Events
<1>2. CASE FrameCallback_publish
  BY <1>2
     DEF FrameCallback_publish, Events, TypeOK, EventsOK, Stages, Callbacks
<1>3. CASE FrameCallback_returns
  BY <1>3 DEF FrameCallback_returns, Undefined, Events
<1>4. CASE FrameReady0
  <2>1. evts \in Nat /\ evts > 0 /\ evts' = evts - 1 /\ UNCHANGED idle
    BY <1>4, EventServiced DEF TypeOK, EventsOK
  <2>2. numev \in Int /\ numev - evts >= 1 - MaxEvents /\ running
    BY <2>1 DEF TypeOK, EventsOK, Events
  <2>3. CASE idle
    <3>1. UNCHANGED <<numev, running, tcl, taken, scripts>>
      BY <1>4, <2>3, EventServiced
    <3>2. QED
      BY <2>1, <2>2, <2>3, <3>1 DEF Events, FrameReady0, CanNest, Ready
  <2>4. CASE ~idle
    <3>1. numev' = numev - 1 /\ idleCall' = idleCall /\ FrameReady
      BY <1>4, <2>4, EventServiced
    <3>2. ~idleCall
      BY <2>4 DEF Events
    <3>3. tcl = "ready" /\ evals + orphans < MaxDepth
      BY <1>4 DEF FrameReady0, CanNest, Ready
    <3>4. tcl' \in {"ready", "writing", "putback"}
      BY <3>1, <3>3 DEF FrameReady
    <3>5. tcl' # "ready" => UNCHANGED scripts
      BY <3>1, <3>3 DEF FrameReady
    <3>6. UNCHANGED running
      BY <3>1 DEF FrameReady
    <3>7. QED
      BY <2>1, <2>2, <2>4, <3>1, <3>2, <3>3, <3>4, <3>5, <3>6 DEF Events
  <2>5. QED
    BY <2>3, <2>4
<1>5. CASE FrameReady_idle
  BY <1>5
     DEF FrameReady_idle, FrameReady, CanNest, Ready, CountWhenIdle, Events,
         TypeOK, EventsOK
<1>6. CASE callback_returns \/ callback_fails_closed
  BY <1>6 DEF callback_returns, callback_fails_closed, Events, TypeOK, ThreadsOK
<1>7. CASE callback_fails \/ CMD_stop \/ CMD_close
  BY <1>7
     DEF callback_fails, CMD_stop, CMD_close, StopCapture, Invalidated,
         Events, TypeOK, EventsOK
<1>8. CASE CMD_open
  BY <1>8 DEF CMD_open, Events, TypeOK, EventsOK, Stages
<1>9. CASE StartCapture
  BY <1>9 DEF StartCapture, EventsCounted, Events, TypeOK, EventsOK
<1>10. CASE uvc_start_streaming
  BY <1>10 DEF uvc_start_streaming, Events
<1>11. CASE StartCapture_fails
  BY <1>11 DEF StartCapture_fails, Return, Events
<1>12. CASE StartCapture_resumes
  BY <1>12 DEF StartCapture_resumes, Return, Events
<1>13. CASE uvc_stop_streaming
  BY <1>13 DEF uvc_stop_streaming, Events
<1>14. CASE StopCapture_stopped
  BY <1>14
     DEF StopCapture_stopped, Invalidated, Events, TypeOK, EventsOK,
         ThreadsOK
<1>15. CASE CMD_close_stopped
  BY <1>15 DEF CMD_close_stopped, Return, Events
<1>16. CASE GetImage
  BY <1>16 DEF GetImage, Events
<1>17. CASE GetImage_returns
  <2>1. CASE Undefined
    BY <1>17, <2>1 DEF GetImage_returns, Undefined, Events
  <2>2. CASE PutBack
    BY <1>17, <2>2 DEF GetImage_returns, PutBack, SlotEmpty, Return, Events
  <2>3. QED
    BY <1>17, <2>1, <2>2 DEF GetImage_returns
<1>18. CASE FrameReady_putback
  BY <1>18 DEF FrameReady_putback, PutBack, Undefined, Return, Events
<1>19. CASE WriteFrame_returns
  BY <1>19 DEF WriteFrame_returns, Events
<1>20. ASSUME NEW flag \in IdleModes, SetControls(flag)
      PROVE  Events'
  BY <1>20 DEF SetControls, Events, TypeOK, EventsOK
<1>21. CASE record_pause \/ record_resume
  BY <1>21 DEF record_pause, record_resume, Events
<1>22. CASE record_store
  BY <1>22 DEF record_store, Return, Events
<1>23. CASE record_stop
  BY <1>23 DEF record_stop, Events
<1>24. CASE record_stop_finishes \/ CMD_format
  BY <1>24 DEF record_stop_finishes, CMD_format, Return, Events
<1>25. CASE record_frame
  BY <1>25 DEF record_frame, Ready, Events, Holders, Latest
<1>26. CASE \/ FrameCallback \/ FrameCallback_lock \/ FrameCallback_written
            \/ FrameCallback_convert \/ FrameCallback_convert_fails
            \/ (\E user \in BOOLEAN : StartRecording(user))
            \/ (\E flag \in ConvModes : CMD_convmode(flag))
  BY <1>1, <1>26
     DEF FrameCallback, Stream!Deliver, FrameCallback_lock,
         FrameCallback_written, FrameCallback_convert,
         FrameCallback_convert_fails, StartRecording, CMD_convmode,
         ChannelFinished, FinishRecording, Written
<1>27. CASE UNCHANGED vars
  BY <1>1, <1>27 DEF vars
<1>28. QED
  BY <1>1, <1>2, <1>3, <1>4, <1>5, <1>6, <1>7, <1>8, <1>9, <1>10, <1>11,
     <1>12, <1>13, <1>14, <1>15, <1>16, <1>17, <1>18, <1>19, <1>20, <1>21,
     <1>22, <1>23, <1>24, <1>25, <1>26, <1>27
     DEF Next, CallbackNext, EventNext, ScriptNext, CommandNext,
         CommandContinues

\* FrameCallback counts what it queues, and what is serviced leaves an idle call
\* or the count at zero.
LEMMA CountStep == Inv /\ [Next]_vars => CountHasEvent'
<1> SUFFICES ASSUME Inv, [Next]_vars PROVE CountHasEvent'
  OBVIOUS
<1> USE CaptureAssumption
        DEF Inv, stream, device, store, events, record, cbVars, tclVars, scripts
<1>1. ASSUME UNCHANGED <<phase, numev, evts, idleCall>>
      PROVE  CountHasEvent'
  BY <1>1 DEF CountHasEvent
<1>2. CASE FrameCallback_publish
  BY <1>2 DEF FrameCallback_publish, CountHasEvent, TypeOK, EventsOK
<1>3. CASE FrameReady0
  BY <1>3, EventServiced
     DEF FrameReady0, FrameReady, TypeOK, EventsOK, CountHasEvent
<1>4. CASE FrameReady_idle
  BY <1>4 DEF FrameReady_idle, CountWhenIdle, CountHasEvent, Events
<1>5. CASE callback_fails \/ CMD_stop \/ CMD_close
  BY <1>5
     DEF callback_fails, CMD_stop, CMD_close, StopCapture,
         Stream!StopRequest, Stream!Move, CountHasEvent, Stages
<1>6. CASE CMD_open
  BY <1>6 DEF CMD_open, CountHasEvent
<1>7. CASE StartCapture
  BY <1>7 DEF StartCapture, Stream!Open, Stream!Move, CountHasEvent
<1>8. CASE uvc_start_streaming
  BY <1>8 DEF uvc_start_streaming, CountHasEvent, Events
<1>9. CASE StartCapture_fails
  BY <1>9 DEF StartCapture_fails, Stream!Close, Stream!Move, CountHasEvent
<1>10. CASE uvc_stop_streaming
  BY <1>10
     DEF uvc_stop_streaming, Stream!StopReturn, Stream!Move, CountHasEvent
<1>11. CASE StopCapture_stopped
  BY <1>11 DEF StopCapture_stopped, Stream!Close, Stream!Move, CountHasEvent
<1>12. ASSUME NEW flag \in IdleModes, SetControls(flag)
      PROVE  CountHasEvent'
  BY <1>12 DEF SetControls, CountHasEvent
<1>13. CASE \/ FrameCallback \/ FrameCallback_lock \/ FrameCallback_written
            \/ FrameCallback_convert \/ FrameCallback_convert_fails
            \/ FrameCallback_returns \/ callback_returns
            \/ callback_fails_closed
            \/ StartCapture_resumes \/ CMD_close_stopped \/ GetImage
            \/ GetImage_returns \/ FrameReady_putback \/ WriteFrame_returns
            \/ (\E user \in BOOLEAN : StartRecording(user)) \/ record_pause
            \/ record_resume \/ record_store \/ record_stop
            \/ record_stop_finishes \/ CMD_format \/ record_frame
            \/ (\E flag \in ConvModes : CMD_convmode(flag))
  BY <1>1, <1>13
     DEF FrameCallback, Stream!Deliver, FrameCallback_lock,
         FrameCallback_written, FrameCallback_convert,
         FrameCallback_convert_fails, FrameCallback_returns, Undefined,
         Stream!Return, callback_returns, callback_fails_closed,
         StartCapture_resumes,
         CMD_close_stopped, GetImage, GetImage_returns, PutBack,
         FrameReady_putback, WriteFrame_returns, StartRecording,
         record_pause, record_resume, record_store, record_stop,
         record_stop_finishes, FinishRecording, Written, CMD_format,
         record_frame, CMD_convmode, ChannelFinished
<1>14. CASE UNCHANGED vars
  BY <1>1, <1>14 DEF vars
<1>15. QED
  BY <1>1, <1>2, <1>3, <1>4, <1>5, <1>6, <1>7, <1>8, <1>9, <1>10, <1>11,
     <1>12, <1>13, <1>14
     DEF Next, CallbackNext, EventNext, ScriptNext, CommandNext,
         CommandContinues

\* Nothing that a test of rstate rests on changes before record_store, but for an
\* error.
LEMMA RecorderStep == Inv /\ [Next]_vars => Recorder'
<1> SUFFICES ASSUME Inv, [Next]_vars PROVE Recorder'
  OBVIOUS
<1> USE CaptureAssumption
        DEF Inv, stream, device, store, events, record, cbVars, tclVars, scripts
<1>1. ASSUME UNCHANGED <<running, conv, rstate, ruser, rchan, tcl, rnext>>
      PROVE  Recorder'
  BY <1>1 DEF Recorder, Recording
<1>2. CASE FrameCallback_lock
  BY <1>2 DEF FrameCallback_lock, Recorder, Recording
<1>3. CASE FrameCallback_written
  BY <1>3 DEF FrameCallback_written, Written, Recorder, Recording
<1>4. CASE FrameCallback_returns
  BY <1>4 DEF FrameCallback_returns, Undefined, Recorder
<1>5. CASE FrameReady0
  BY <1>5 DEF FrameReady0, FrameReady, Recorder
<1>6. CASE FrameReady_idle
  BY <1>6 DEF FrameReady_idle, FrameReady, Recorder
<1>7. CASE callback_fails \/ CMD_stop \/ CMD_close
  BY <1>7 DEF callback_fails, CMD_stop, CMD_close, StopCapture, Recorder
<1>8. CASE CMD_open
  BY <1>8 DEF CMD_open, Recorder
<1>9. CASE StartCapture
  BY <1>9
     DEF StartCapture, Recorder, Modes,
         RecordsWhileCapturing
<1>10. CASE uvc_start_streaming
  BY <1>10 DEF uvc_start_streaming, Recorder
<1>11. CASE StartCapture_fails
  BY <1>11 DEF StartCapture_fails, Return, Recorder
<1>12. CASE StartCapture_resumes
  BY <1>12 DEF StartCapture_resumes, Return, Recorder
<1>13. CASE uvc_stop_streaming
  BY <1>13 DEF uvc_stop_streaming, Recorder
<1>14. CASE StopCapture_stopped
  BY <1>14 DEF StopCapture_stopped, Recorder, TypeOK, ThreadsOK
<1>15. CASE CMD_close_stopped
  BY <1>15 DEF CMD_close_stopped, Return, Recorder
<1>16. CASE GetImage
  BY <1>16 DEF GetImage, Recorder
<1>17. CASE GetImage_returns
  BY <1>17 DEF GetImage_returns, PutBack, Undefined, Return, Recorder
<1>18. CASE FrameReady_putback
  BY <1>18 DEF FrameReady_putback, PutBack, Undefined, Return, Recorder
<1>19. CASE WriteFrame_returns
  BY <1>19 DEF WriteFrame_returns, Recorder
<1>20. ASSUME NEW user \in BOOLEAN, StartRecording(user)
      PROVE  Recorder'
  BY <1>20 DEF StartRecording, Ready, Recorder
<1>21. CASE record_pause \/ record_resume
  BY <1>21
     DEF record_pause, record_resume, Paused, Resumed, Recorder, Recording,
         Modes, StateMatchesMode
<1>22. CASE record_store
  BY <1>22 DEF record_store, Return, Recorder
<1>23. CASE record_stop
  BY <1>23 DEF record_stop, Recorder
<1>24. CASE record_stop_finishes \/ CMD_format
  BY <1>24 DEF record_stop_finishes, CMD_format, Ready, Return, Recorder
<1>25. CASE record_frame
  BY <1>25 DEF record_frame, Ready, Recorder
<1>26. ASSUME NEW flag \in ConvModes, CMD_convmode(flag)
      PROVE  Recorder'
  BY <1>26 DEF CMD_convmode, Ready, Recorder
<1>27. CASE \/ FrameCallback \/ FrameCallback_convert
            \/ FrameCallback_convert_fails \/ FrameCallback_publish
            \/ callback_returns
            \/ (\E flag \in IdleModes : SetControls(flag))
  BY <1>1, <1>27
     DEF FrameCallback, Stream!Deliver, FrameCallback_convert,
         FrameCallback_convert_fails, FrameCallback_publish,
         callback_returns, SetControls
<1>28. CASE UNCHANGED vars
  BY <1>1, <1>28 DEF vars
<1>29. CASE callback_fails_closed
  BY <1>29 DEF callback_fails_closed, Recorder
<1>30. QED
  BY <1>1, <1>2, <1>3, <1>4, <1>5, <1>6, <1>7, <1>8, <1>9, <1>10, <1>11,
     <1>12, <1>13, <1>14, <1>15, <1>16, <1>17, <1>18, <1>19, <1>20, <1>21,
     <1>22, <1>23, <1>24, <1>25, <1>26, <1>27, <1>28, <1>29
     DEF Next, CallbackNext, EventNext, ScriptNext, CommandNext,
         CommandContinues

\* Commands keep recorder and capture in step.
LEMMA ModesStep == Inv /\ [Next]_vars => Modes'
<1> SUFFICES ASSUME Inv, [Next]_vars PROVE Modes'
  OBVIOUS
<1> USE CaptureAssumption
        DEF Inv, stream, device, store, events, record, cbVars, tclVars, scripts
<1>1. ASSUME UNCHANGED <<running, conv, rstate, ruser, rchan>>
      PROVE  Modes'
  BY <1>1
     DEF Modes, RecordsWhileCapturing, StateMatchesMode,
         Recording
<1>2. CASE FrameCallback_lock
  BY <1>2
     DEF FrameCallback_lock, Modes, RecordsWhileCapturing,
         StateMatchesMode, Recording
<1>3. CASE FrameCallback_written
  BY <1>3
     DEF FrameCallback_written, Written, Modes,
         RecordsWhileCapturing, StateMatchesMode, Recording
<1>4. CASE FrameReady0
  BY <1>4
     DEF FrameReady0, FrameReady, Modes,
         RecordsWhileCapturing, StateMatchesMode, Recording
<1>5. CASE FrameReady_idle
  BY <1>5
     DEF FrameReady_idle, FrameReady, Modes,
         RecordsWhileCapturing, StateMatchesMode, Recording
<1>6. CASE CMD_open
  BY <1>6
     DEF CMD_open, Modes, RecordsWhileCapturing,
         StateMatchesMode, Recording
<1>7. CASE StartCapture
  BY <1>7
     DEF StartCapture, Modes, RecordsWhileCapturing,
         StateMatchesMode
<1>8. CASE StartCapture_fails
  BY <1>8
     DEF StartCapture_fails, Modes, RecordsWhileCapturing,
         StateMatchesMode, Recorder
<1>9. CASE StartCapture_resumes
  BY <1>9
     DEF StartCapture_resumes, Resumed, Modes,
         RecordsWhileCapturing, StateMatchesMode, Stages
<1>10. CASE StopCapture_stopped
  BY <1>10
     DEF StopCapture_stopped, StateWhenStopped, Paused,
         Modes, RecordsWhileCapturing, StateMatchesMode,
         Recording
<1>11. CASE CMD_close_stopped
  BY <1>11
     DEF CMD_close_stopped, Modes, RecordsWhileCapturing,
         StateMatchesMode
<1>12. CASE WriteFrame_returns
  BY <1>12
     DEF WriteFrame_returns, Written, Modes,
         RecordsWhileCapturing, StateMatchesMode, Recording
<1>13. ASSUME NEW user \in BOOLEAN, StartRecording(user)
      PROVE  Modes'
  BY <1>13
     DEF StartRecording, StartState, InitialState, Modes,
         RecordsWhileCapturing, StateMatchesMode, Recording
<1>14. CASE record_store
  <2>1. /\ rstate' = rnext /\ tcl = "storing"
        /\ running' = running /\ conv' = conv /\ ruser' = ruser
        /\ rchan' = rchan
    BY <1>14 DEF record_store
  <2>2. QED
    BY <2>1
       DEF Modes, RecordsWhileCapturing, StateMatchesMode, Recorder, Recording
<1>15. CASE record_stop
  BY <1>15
     DEF record_stop, Modes, RecordsWhileCapturing,
         StateMatchesMode, Recording
<1>16. CASE record_stop_finishes \/ CMD_format
  BY <1>16
     DEF record_stop_finishes, CMD_format, FinishRecording, Written,
         Modes, RecordsWhileCapturing, StateMatchesMode,
         Recording
<1>17. CASE record_frame
  BY <1>17
     DEF record_frame, Modes, RecordsWhileCapturing,
         StateMatchesMode, Recording
<1>18. ASSUME NEW flag \in ConvModes, CMD_convmode(flag)
      PROVE  Modes'
  BY <1>18
     DEF CMD_convmode, ChannelFinished, FinishRecording, Written,
         Modes, RecordsWhileCapturing, StateMatchesMode,
         Recording
<1>19. CASE \/ FrameCallback \/ FrameCallback_convert
            \/ FrameCallback_convert_fails \/ FrameCallback_publish
            \/ FrameCallback_returns \/ callback_returns
            \/ callback_fails_closed \/ callback_fails
            \/ CMD_stop \/ CMD_close \/ uvc_start_streaming
            \/ uvc_stop_streaming \/ GetImage \/ GetImage_returns
            \/ FrameReady_putback
            \/ (\E flag \in IdleModes : SetControls(flag)) \/ record_pause
            \/ record_resume
  BY <1>1, <1>19
     DEF FrameCallback, Stream!Deliver, FrameCallback_convert,
         FrameCallback_convert_fails, FrameCallback_publish,
         FrameCallback_returns, Undefined, Stream!Return, callback_returns,
         callback_fails_closed,
         callback_fails, StopCapture, CMD_stop, CMD_close,
         uvc_start_streaming, uvc_stop_streaming, GetImage, GetImage_returns,
         PutBack, FrameReady_putback, SetControls, record_pause,
         record_resume
<1>20. CASE UNCHANGED vars
  BY <1>1, <1>20 DEF vars
<1>21. QED
  BY <1>1, <1>2, <1>3, <1>4, <1>5, <1>6, <1>7, <1>8, <1>9, <1>10, <1>11,
     <1>12, <1>13, <1>14, <1>15, <1>16, <1>17, <1>18, <1>19, <1>20
     DEF Next, CallbackNext, EventNext, ScriptNext, CommandNext,
         CommandContinues

\* A step that is none of FrameCallback's, and keeps channel and modes, at most ends a
\* write of the Tcl thread.
LEMMA WritersKept ==
  ASSUME Inv, UNCHANGED <<conv, ruser, rchan, restarted>>,
         cb' \in {"record", "writing"} => cb' = cb,
         tcl' = "writing" => tcl' = tcl
  PROVE  Writers'
BY DEF Inv, Writers, WriterHasMode

\* The channel is closed, and a recording started, with rmutex free.
LEMMA WritersRestart ==
  ASSUME Inv, RecordingLocked, cb # "undefined", cb' = cb,
         tcl' # "writing",
         rchan' => restarted' = (cb = "record")
  PROVE  Writers'
BY DEF Inv, Callbacks, RecordingLocked, Writers, WriterHasMode

\* Commands wait for a FrameCallback that writes before they change the modes, and
\* one that is about to write is told by restarted.
LEMMA WritersStep == Inv /\ [Next]_vars => Writers'
<1> SUFFICES ASSUME Inv, [Next]_vars PROVE Writers'
  OBVIOUS
<1> USE DEF stream, device, store, events, record, cbVars, tclVars, scripts
<1>1. CASE FrameCallback
  BY <1>1
     DEF FrameCallback, Inv, Modes, StateMatchesMode, Writers, WriterHasMode
<1>2. CASE FrameCallback_lock
  BY <1>2 DEF FrameCallback_lock, Inv, Writers, WriterHasMode
<1>3. CASE FrameCallback_written
  BY <1>3 DEF FrameCallback_written, Inv, Writers, WriterHasMode
<1>4. CASE \/ FrameCallback_convert \/ FrameCallback_convert_fails
           \/ FrameCallback_publish \/ FrameCallback_returns
  BY <1>4, WritersKept
     DEF FrameCallback_convert, FrameCallback_convert_fails,
         FrameCallback_publish, FrameCallback_returns, Undefined
<1>5. ASSUME tcl = "ready", FrameReady, UNCHANGED device
      PROVE  Writers'
  BY <1>5
     DEF FrameReady, Inv, Modes, StateMatchesMode, Writers, WriterHasMode
<1>6. CASE FrameReady0
  <2>1. CASE idle \/ ~tid
    BY <1>6, <2>1, WritersKept DEF FrameReady0
  <2>2. CASE ~(idle \/ ~tid)
    BY <1>5, <1>6, <2>2 DEF FrameReady0, FrameReady, CanNest, Ready
  <2>3. QED
    BY <2>1, <2>2
<1>7. CASE FrameReady_idle
  BY <1>5, <1>7 DEF FrameReady_idle, FrameReady, CanNest, Ready
<1>8. CASE CMD_open
  BY <1>8 DEF CMD_open, Inv, Stages, Callbacks, Writers, WriterHasMode
<1>9. CASE CMD_close_stopped
  BY <1>9, WritersRestart
     DEF CMD_close_stopped, Return, Inv, Stages
<1>10. ASSUME NEW user \in BOOLEAN, StartRecording(user)
       PROVE  Writers'
  BY <1>10, WritersRestart DEF StartRecording, Ready, Inv, Stages
<1>11. CASE record_stop_finishes \/ CMD_format
  BY <1>11, WritersRestart
     DEF record_stop_finishes, CMD_format, FinishRecording, Ready, Return,
         Inv, Stages
<1>12. ASSUME NEW flag \in ConvModes, CMD_convmode(flag)
       PROVE  Writers'
  BY <1>12, WritersRestart
     DEF CMD_convmode, ChannelFinished, FinishRecording, Ready, Inv, Stages
<1>13. CASE record_frame
  BY <1>13 DEF record_frame, Inv, Writers, WriterHasMode
<1>14. CASE \/ StartCapture \/ uvc_start_streaming \/ StartCapture_fails
            \/ StartCapture_resumes \/ uvc_stop_streaming
            \/ StopCapture_stopped
  BY <1>14, WritersKept
     DEF StartCapture, uvc_start_streaming, StartCapture_fails,
         StartCapture_resumes, uvc_stop_streaming, StopCapture_stopped,
         Return, Inv, TypeOK, ThreadsOK
<1>15. CASE callback_returns \/ callback_fails \/ callback_fails_closed
            \/ CMD_stop \/ CMD_close
  BY <1>15, WritersKept
     DEF callback_returns, callback_fails, callback_fails_closed, CMD_stop,
         CMD_close, StopCapture
<1>16. CASE GetImage \/ GetImage_returns \/ FrameReady_putback
  BY <1>16, WritersKept
     DEF GetImage, GetImage_returns, FrameReady_putback, PutBack, Undefined,
         Return
<1>17. CASE \/ record_pause \/ record_resume \/ record_store
            \/ record_stop \/ WriteFrame_returns
            \/ \E flag \in IdleModes : SetControls(flag)
  BY <1>17, WritersKept
     DEF record_pause, record_resume, record_store, record_stop,
         WriteFrame_returns, SetControls, Return
<1>18. CASE UNCHANGED vars
  BY <1>18, WritersKept DEF vars
<1>19. QED
  BY <1>1, <1>2, <1>3, <1>4, <1>6, <1>7, <1>8, <1>9, <1>10, <1>11, <1>12,
     <1>13, <1>14, <1>15, <1>16, <1>17, <1>18
     DEF Next, CallbackNext, EventNext, ScriptNext, CommandNext,
         CommandContinues

\* REC_ERROR is set where a write failed, or where there is no channel.
LEMMA ErrorStep == Inv /\ [Next]_vars => ErrorMeansFailure'
<1> SUFFICES ASSUME Inv, [Next]_vars PROVE ErrorMeansFailure'
  OBVIOUS
<1> USE CaptureAssumption
        DEF Inv, stream, device, store, events, record, cbVars, tclVars, scripts
<1>1. ASSUME UNCHANGED <<rstate, rchan, failed>>
      PROVE  ErrorMeansFailure'
  BY <1>1 DEF ErrorMeansFailure
<1>2. CASE FrameCallback_lock
  BY <1>2 DEF FrameCallback_lock, ErrorMeansFailure
<1>3. CASE FrameCallback_written
  BY <1>3 DEF FrameCallback_written, Written, ErrorMeansFailure
<1>4. CASE FrameReady0
  BY <1>4 DEF FrameReady0, FrameReady, ErrorMeansFailure
<1>5. CASE FrameReady_idle
  BY <1>5 DEF FrameReady_idle, FrameReady, ErrorMeansFailure
<1>6. CASE CMD_open
  BY <1>6 DEF CMD_open, ErrorMeansFailure
<1>7. CASE StartCapture_resumes
  BY <1>7 DEF StartCapture_resumes, Resumed, ErrorMeansFailure
<1>8. CASE StopCapture_stopped
  BY <1>8
     DEF StopCapture_stopped, StateWhenStopped, Paused, ErrorMeansFailure
<1>9. CASE CMD_close_stopped
  BY <1>9 DEF CMD_close_stopped, ErrorMeansFailure
<1>10. CASE WriteFrame_returns
  BY <1>10 DEF WriteFrame_returns, Written, ErrorMeansFailure
<1>11. ASSUME NEW user \in BOOLEAN, StartRecording(user)
      PROVE  ErrorMeansFailure'
  BY <1>11 DEF StartRecording, StartState, InitialState, ErrorMeansFailure
<1>12. CASE record_store
  BY <1>12 DEF record_store, ErrorMeansFailure, Recorder
<1>13. CASE record_stop
  BY <1>13 DEF record_stop, ErrorMeansFailure
<1>14. CASE record_stop_finishes \/ CMD_format
  BY <1>14
     DEF record_stop_finishes, CMD_format, FinishRecording, ErrorMeansFailure
<1>15. CASE record_frame
  BY <1>15 DEF record_frame, ErrorMeansFailure
<1>16. ASSUME NEW flag \in ConvModes, CMD_convmode(flag)
      PROVE  ErrorMeansFailure'
  BY <1>16
     DEF CMD_convmode, ChannelFinished, FinishRecording, ErrorMeansFailure
<1>17. CASE \/ FrameCallback \/ FrameCallback_convert
            \/ FrameCallback_convert_fails \/ FrameCallback_publish
            \/ FrameCallback_returns \/ callback_returns
            \/ callback_fails_closed \/ callback_fails
            \/ CMD_stop \/ CMD_close \/ StartCapture \/ uvc_start_streaming
            \/ StartCapture_fails \/ uvc_stop_streaming \/ GetImage
            \/ GetImage_returns \/ FrameReady_putback
            \/ (\E flag \in IdleModes : SetControls(flag)) \/ record_pause
            \/ record_resume
  BY <1>1, <1>17
     DEF FrameCallback, Stream!Deliver, FrameCallback_convert,
         FrameCallback_convert_fails, FrameCallback_publish,
         FrameCallback_returns, Undefined, Stream!Return, callback_returns,
         callback_fails_closed,
         callback_fails, StopCapture, CMD_stop, CMD_close, StartCapture,
         uvc_start_streaming, StartCapture_fails, uvc_stop_streaming,
         GetImage, GetImage_returns, PutBack, FrameReady_putback,
         SetControls, record_pause, record_resume
<1>18. CASE UNCHANGED vars
  BY <1>1, <1>18 DEF vars
<1>19. QED
  BY <1>1, <1>2, <1>3, <1>4, <1>5, <1>6, <1>7, <1>8, <1>9, <1>10, <1>11,
     <1>12, <1>13, <1>14, <1>15, <1>16, <1>17, <1>18
     DEF Next, CallbackNext, EventNext, ScriptNext, CommandNext,
         CommandContinues

\* Where the Tcl thread closes the channel, FrameCallback does not have rmutex.
LEMMA ChannelStep == Inv /\ [Next]_vars => ChannelKept
<1> SUFFICES ASSUME Inv, [Next]_vars PROVE ChannelKept
  OBVIOUS
<1> USE CaptureAssumption
        DEF Inv, stream, device, store, events, record, cbVars, tclVars, scripts
<1>1. ASSUME UNCHANGED <<rchan>>
      PROVE  ChannelKept
  BY <1>1 DEF ChannelKept, Callbacks
<1>2. CASE CMD_open
  BY <1>2 DEF CMD_open, ChannelKept, Callbacks, Stages
<1>3. CASE CMD_close_stopped
  BY <1>3 DEF CMD_close_stopped, RecordingLocked, ChannelKept, Callbacks
<1>4. ASSUME NEW user \in BOOLEAN, StartRecording(user)
      PROVE  ChannelKept
  BY <1>4 DEF StartRecording, ChannelKept
<1>5. CASE record_stop_finishes \/ CMD_format
  BY <1>5
     DEF record_stop_finishes, CMD_format, FinishRecording, RecordingLocked,
         ChannelKept, Callbacks
<1>6. ASSUME NEW flag \in ConvModes, CMD_convmode(flag)
      PROVE  ChannelKept
  BY <1>6
     DEF CMD_convmode, ChannelFinished, FinishRecording, RecordingLocked,
         ChannelKept, Callbacks
<1>7. CASE \/ FrameCallback \/ FrameCallback_lock \/ FrameCallback_written
           \/ FrameCallback_convert \/ FrameCallback_convert_fails
           \/ FrameCallback_publish \/ FrameCallback_returns \/ FrameReady0
           \/ FrameReady_idle \/ callback_returns \/ callback_fails_closed
           \/ callback_fails
           \/ CMD_stop \/ CMD_close \/ StartCapture \/ uvc_start_streaming
           \/ StartCapture_fails \/ StartCapture_resumes
           \/ uvc_stop_streaming \/ StopCapture_stopped \/ GetImage
           \/ GetImage_returns \/ FrameReady_putback \/ WriteFrame_returns
           \/ (\E flag \in IdleModes : SetControls(flag)) \/ record_pause
           \/ record_resume \/ record_store \/ record_stop \/ record_frame
  BY <1>1, <1>7
     DEF FrameCallback, Stream!Deliver, FrameCallback_lock,
         FrameCallback_written, FrameCallback_convert,
         FrameCallback_convert_fails, FrameCallback_publish,
         FrameCallback_returns, Undefined, Stream!Return, FrameReady0,
         FrameReady, FrameReady_idle, callback_returns, callback_fails_closed,
         callback_fails,
         StopCapture, CMD_stop, CMD_close, StartCapture, uvc_start_streaming,
         StartCapture_fails, StartCapture_resumes, uvc_stop_streaming,
         StopCapture_stopped, GetImage, GetImage_returns, PutBack,
         FrameReady_putback, WriteFrame_returns, SetControls, record_pause,
         record_resume, record_store, record_stop, record_frame
<1>8. CASE UNCHANGED vars
  BY <1>1, <1>8 DEF vars
<1>9. QED
  BY <1>1, <1>2, <1>3, <1>4, <1>5, <1>6, <1>7, <1>8
     DEF Next, CallbackNext, EventNext, ScriptNext, CommandNext,
         CommandContinues

-----------------------------------------------------------------------------
\* A device that is not opened yet, or was closed, has nothing to be wrong with.
LEMMA Initially == Init => Inv
<1> SUFFICES ASSUME Init PROVE Inv
  OBVIOUS
<1> USE CaptureAssumption DEF Init, Stream!ContractInit
<1>1. TypeOK
  <2>1. DeviceOK
    BY DEF DeviceOK, Stream!ContractTypeOK, Stream!Phases
  <2>2. StoreOK
    BY DEF StoreOK, FrameRefs
  <2>3. EventsOK
    <3>1. numev \in -MaxEvents..1 /\ evts \in 0..MaxEvents
      OBVIOUS
    <3>2. idle \in BOOLEAN /\ idleCall \in BOOLEAN
      OBVIOUS
    <3>3. QED
      BY <3>1, <3>2 DEF EventsOK
  <2>4. RecordOK
    BY DEF RecordOK, RecStates
  <2>5. ThreadsOK
    BY DEF ThreadsOK
  <2>6. QED
    BY <2>1, <2>2, <2>3, <2>4, <2>5 DEF TypeOK
<1>2. Stages /\ Callbacks
  BY DEF Stages, Callbacks
<1>3. FramesHeld /\ Latest
  BY DEF FramesHeld, Latest, MostRecent, Holders
<1>4. Events /\ CountHasEvent
  BY DEF Events, CountHasEvent
<1>5. Recorder /\ Modes /\ Writers /\ ErrorMeansFailure
  BY DEF Recorder, Modes, RecordsWhileCapturing, StateMatchesMode, Writers,
         WriterHasMode, ErrorMeansFailure, Recording
<1>6. QED
  BY <1>1, <1>2, <1>3, <1>4, <1>5 DEF Inv

\* The invariant holds throughout.
LEMMA Invariant == Spec => []Inv
<1>1. Inv /\ [Next]_vars => Inv'
  <2> SUFFICES ASSUME Inv, [Next]_vars PROVE Inv'
    OBVIOUS
  <2>1. TypeOK'
    BY DeviceTypes, StoreTypes, EventTypes, RecordTypes, ThreadTypes DEF TypeOK
  <2>2. QED
    BY <2>1, StagesStep, CallbacksStep, FramesStep, LatestStep, EventsStep,
       CountStep, RecorderStep, ModesStep, WritersStep,
       ErrorStep DEF Inv
<1>2. QED
  BY <1>1, Initially, PTL DEF Spec

\* Every variable stays in its range: no more events are in flight than a change
\* of update-mode leaves room for, and the count is never above one.
THEOREM TypeCorrect == Spec => []TypeOK
<1>1. Inv => TypeOK
  BY DEF Inv
<1>2. QED
  BY <1>1, Invariant, PTL

\* FrameCallback, FrameReady, GetImage and CMD_close share frames without losing
\* one or freeing one that another still has.
THEOREM FrameSafety == Spec => []FramesHeld
<1>1. Inv => FramesHeld
  BY DEF Inv
<1>2. QED
  BY <1>1, Invariant, PTL

\* A frame that GetImage or FrameReady puts back hides no newer one.
THEOREM LatestFrame == Spec => []MostRecent
<1>1. Inv => MostRecent
  BY DEF Inv, Latest
<1>2. QED
  BY <1>1, Invariant, PTL

\* As long as FrameCallback queues no event for one being counted, there is one,
\* however update-mode is changed and the capture stopped and started.
THEOREM EventsCome == Spec => []CountHasEvent
<1>1. Inv => CountHasEvent
  BY DEF Inv
<1>2. QED
  BY <1>1, Invariant, PTL

\* CMD_close leaves no event, idle call or FrameCallback that knows the TUVC.  A
\* callback that is evaluated while it closes its own device is left behind in
\* orphans, and is not part of this.
THEOREM ClosedSafety == Spec => []ClosedQuiet
<1>1. Inv => ClosedQuiet
  <2> SUFFICES ASSUME Inv, ~open PROVE ClosedQuiet
    BY DEF ClosedQuiet
  <2>1. ~running /\ tcl \in {"ready", "freed"}
    BY DEF Inv, Stages
  <2>2. evts = 0 /\ ~idleCall
    BY <2>1 DEF Inv, TypeOK, EventsOK, Events
  <2>3. cb = "out" /\ rmutex = "none"
    BY <2>1 DEF Inv, TypeOK, DeviceOK, RecordOK, Stages, Callbacks
  <2>4. QED
    BY <2>2, <2>3 DEF ClosedQuiet
<1>2. QED
  BY <1>1, Invariant, PTL

\* Recording states follow the capture and the modes, whichever of the commands that
\* change them come between the test and the store of a state; and FrameCallback only
\* writes in its modes, or else it tested the state in an earlier recording.
THEOREM RecorderSafety == Spec => []RecorderMatchesCapture
<1>1. Inv => RecorderMatchesCapture
  BY DEF Inv, Modes, Writers, RecorderMatchesCapture
<1>2. QED
  BY <1>1, Invariant, PTL

\* FrameCallback and the Tcl thread are in WriteFrame at the same time only if
\* FrameCallback tested rstate in an earlier recording.
THEOREM WriterSafety == Spec => []OneWriter
<1>1. Inv => OneWriter
  BY DEF Inv, Writers, WriterHasMode, OneWriter
<1>2. QED
  BY <1>1, Invariant, PTL

\* The error state of an open recording is that of a write that failed.
THEOREM ErrorSafety == Spec => []ErrorMeansFailure
<1>1. Inv => ErrorMeansFailure
  BY DEF Inv
<1>2. QED
  BY <1>1, Invariant, PTL

\* No command of the Tcl thread closes the channel while FrameCallback writes.
THEOREM ChannelSafety == Spec => ChannelStaysValid
<1>1. Inv /\ [Next]_vars => [cb = "writing" => rchan']_vars
  BY ChannelStep DEF ChannelKept
<1>2. QED
  BY <1>1, Invariant, PTL DEF Spec, ChannelStaysValid
=============================================================================
