-------------------------- MODULE UvcStream_proofs --------------------------
(***************************************************************************)
(* Proofs about UvcStream, for every number of transfers, frames, starts   *)
(* and poll modes.                                                         *)
(***************************************************************************)
EXTENDS UvcStream, TLAPS

\* Every variable stays in its range: the counters of frames, the slots of the
\* table of transfers, and the stages of the four threads.
THEOREM TypeCorrect == Spec => []TypeOK
<1>1. Init => TypeOK
  <2> SUFFICES ASSUME Init PROVE TypeOK
    OBVIOUS
  <2> USE DEF Init
  <2>1. FlagsOK
    BY DEF FlagsOK
  <2>2. ThreadsOK
    BY DEF ThreadsOK, AppStages
  <2>3. CountersOK
    BY ConstantsAssumption DEF CountersOK
  <2>4. TransfersOK
    BY DEF TransfersOK
  <2>5. QED
    BY <2>1, <2>2, <2>3, <2>4 DEF TypeOK
<1>2. TypeOK /\ [Next]_vars => TypeOK'
  <2> SUFFICES ASSUME FlagsOK, ThreadsOK, CountersOK, TransfersOK, [Next]_vars
               PROVE  TypeOK'
    BY DEF TypeOK
  <2> USE DEF handleVars, seqVars, callerVars, pollVars, appVars, xferVars
  <2>1. CASE uvc_stream_open_ctrl
    <3>1. FlagsOK'
      BY <2>1 DEF FlagsOK, uvc_stream_open_ctrl
    <3>2. ThreadsOK'
      BY <2>1 DEF uvc_stream_open_ctrl, ThreadsOK
    <3>3. CountersOK'
      BY <2>1, ConstantsAssumption DEF uvc_stream_open_ctrl, CountersOK
    <3>4. TransfersOK'
      BY <2>1 DEF uvc_stream_open_ctrl, TransfersOK
    <3>5. QED
      BY <3>1, <3>2, <3>3, <3>4 DEF TypeOK
  <2>2. ASSUME NEW cb \in BOOLEAN, uvc_stream_start(cb)
        PROVE  TypeOK'
    <3>1. FlagsOK'
      BY <2>2 DEF FlagsOK, uvc_stream_start
    <3>2. ThreadsOK'
      BY <2>2 DEF uvc_stream_start, ThreadsOK, AppStages
    <3>3. CountersOK'
      BY <2>2, ConstantsAssumption
         DEF uvc_stream_start, Slots, CountersOK, CanStart
    <3>4. TransfersOK'
      BY <2>2 DEF uvc_stream_start, TransfersOK
    <3>5. QED
      BY <3>1, <3>2, <3>3, <3>4 DEF TypeOK
  <2>3. CASE uvc_stream_start_fails
    <3>1. FlagsOK'
      BY <2>3 DEF FlagsOK, uvc_stream_start_fails
    <3>2. ThreadsOK'
      BY <2>3 DEF uvc_stream_start_fails, ThreadsOK
    <3>3. CountersOK'
      BY <2>3, ConstantsAssumption
         DEF uvc_stream_start_fails, CountersOK, CanStart
    <3>4. TransfersOK'
      BY <2>3 DEF uvc_stream_start_fails, TransfersOK
    <3>5. QED
      BY <3>1, <3>2, <3>3, <3>4 DEF TypeOK
  <2>4. CASE uvc_stream_start_submit
    <3>1. FlagsOK'
      BY <2>4 DEF FlagsOK, uvc_stream_start_submit
    <3>2. ThreadsOK'
      BY <2>4 DEF uvc_stream_start_submit, ThreadsOK, AppStages
    <3>3. CountersOK'
      BY <2>4, ConstantsAssumption
         DEF uvc_stream_start_submit, Slots, CountersOK, LastSubmitted
    <3>4. TransfersOK'
      BY <2>4 DEF uvc_stream_start_submit, TransfersOK
    <3>5. QED
      BY <3>1, <3>2, <3>3, <3>4 DEF TypeOK
  <2>5. CASE uvc_stream_start_submit_fails
    <3>1. FlagsOK'
      BY <2>5 DEF FlagsOK, uvc_stream_start_submit_fails
    <3>2. ThreadsOK'
      BY <2>5 DEF uvc_stream_start_submit_fails, ThreadsOK, AppStages
    <3>3. CountersOK'
      BY <2>5 DEF uvc_stream_start_submit_fails, CountersOK
    <3>4. TransfersOK'
      BY <2>5 DEF uvc_stream_start_submit_fails, TransfersOK, FreeUnsubmitted
    <3>5. QED
      BY <3>1, <3>2, <3>3, <3>4 DEF TypeOK
  <2>6. ASSUME NEW close \in BOOLEAN, StopRequest(close)
        PROVE  TypeOK'
    <3>1. FlagsOK'
      BY <2>6 DEF FlagsOK, StopRequest
    <3>2. ThreadsOK'
      BY <2>6 DEF StopRequest, ThreadsOK, AppStages, Broadcast, WakeAll
    <3>3. CountersOK'
      BY <2>6 DEF StopRequest, CountersOK
    <3>4. TransfersOK'
      BY <2>6 DEF StopRequest, TransfersOK
    <3>5. QED
      BY <3>1, <3>2, <3>3, <3>4 DEF TypeOK
  <2>7. CASE uvc_stream_stop_join
    <3>1. FlagsOK'
      BY <2>7 DEF FlagsOK, uvc_stream_stop_join
    <3>2. ThreadsOK'
      BY <2>7 DEF uvc_stream_stop_join, ThreadsOK, AppStages
    <3>3. CountersOK'
      BY <2>7 DEF uvc_stream_stop_join, CountersOK
    <3>4. TransfersOK'
      BY <2>7 DEF uvc_stream_stop_join, TransfersOK
    <3>5. QED
      BY <3>1, <3>2, <3>3, <3>4 DEF TypeOK
  <2>8. CASE uvc_stream_stop_cancel
    <3>1. FlagsOK'
      BY <2>8 DEF FlagsOK, uvc_stream_stop_cancel
    <3>2. ThreadsOK'
      BY <2>8
         DEF uvc_stream_stop_cancel, ThreadsOK, AppStages, Threads,
             FreeTransfers, WaitForTransfers
    <3>3. CountersOK'
      BY <2>8
         DEF uvc_stream_stop_cancel, CountersOK, FreeTransfers,
             WaitForTransfers
    <3>4. TransfersOK'
      BY <2>8
         DEF uvc_stream_stop_cancel, TransfersOK, FreeTransfers,
             WaitForTransfers
    <3>5. QED
      BY <3>1, <3>2, <3>3, <3>4 DEF TypeOK
  <2>9. CASE uvc_stream_stop_drain
    <3>1. FlagsOK'
      BY <2>9 DEF FlagsOK, uvc_stream_stop_drain
    <3>2. ThreadsOK'
      BY <2>9
         DEF uvc_stream_stop_drain, ThreadsOK, AppStages, Threads,
             FreeTransfers, WaitForTransfers
    <3>3. CountersOK'
      BY <2>9
         DEF uvc_stream_stop_drain, CountersOK, FreeTransfers, WaitForTransfers
    <3>4. TransfersOK'
      BY <2>9
         DEF uvc_stream_stop_drain, TransfersOK, FreeTransfers,
             WaitForTransfers
    <3>5. QED
      BY <3>1, <3>2, <3>3, <3>4 DEF TypeOK
  <2>10. CASE uvc_stream_stop_timeout
    <3>1. FlagsOK'
      BY <2>10 DEF FlagsOK, uvc_stream_stop_timeout
    <3>2. ThreadsOK'
      BY <2>10 DEF uvc_stream_stop_timeout, ThreadsOK, AppStages, FreeTransfers
    <3>3. CountersOK'
      BY <2>10 DEF uvc_stream_stop_timeout, CountersOK, FreeTransfers
    <3>4. TransfersOK'
      BY <2>10 DEF uvc_stream_stop_timeout, TransfersOK, FreeTransfers
    <3>5. QED
      BY <3>1, <3>2, <3>3, <3>4 DEF TypeOK
  <2>11. CASE uvc_stream_close
    <3>1. FlagsOK'
      BY <2>11 DEF FlagsOK, uvc_stream_close
    <3>2. ThreadsOK'
      BY <2>11 DEF uvc_stream_close, ThreadsOK, AppStages
    <3>3. CountersOK'
      BY <2>11 DEF uvc_stream_close, CountersOK
    <3>4. TransfersOK'
      BY <2>11 DEF uvc_stream_close, TransfersOK
    <3>5. QED
      BY <3>1, <3>2, <3>3, <3>4 DEF TypeOK
  <2>12. CASE uvc_user_caller
    <3>1. FlagsOK'
      BY <2>12 DEF FlagsOK, uvc_user_caller
    <3>2. ThreadsOK'
      BY <2>12 DEF uvc_user_caller, ThreadsOK, Threads, TakeFrame
    <3>3. CountersOK'
      BY <2>12 DEF uvc_user_caller, CountersOK, TakeFrame
    <3>4. TransfersOK'
      BY <2>12 DEF uvc_user_caller, TransfersOK
    <3>5. QED
      BY <3>1, <3>2, <3>3, <3>4 DEF TypeOK
  <2>13. CASE user_cb_returns
    <3>1. FlagsOK'
      BY <2>13 DEF FlagsOK, user_cb_returns
    <3>2. ThreadsOK'
      BY <2>13 DEF user_cb_returns, ThreadsOK
    <3>3. CountersOK'
      BY <2>13 DEF user_cb_returns, CountersOK
    <3>4. TransfersOK'
      BY <2>13 DEF user_cb_returns, TransfersOK
    <3>5. QED
      BY <3>1, <3>2, <3>3, <3>4 DEF TypeOK
  <2>14. ASSUME NEW mode \in PollModes, uvc_stream_get_frame(mode)
         PROVE  TypeOK'
    <3>1. FlagsOK'
      BY <2>14 DEF FlagsOK, uvc_stream_get_frame
    <3>2. ThreadsOK'
      BY <2>14, ConstantsAssumption DEF uvc_stream_get_frame, ThreadsOK
    <3>3. CountersOK'
      BY <2>14 DEF uvc_stream_get_frame, CountersOK
    <3>4. TransfersOK'
      BY <2>14 DEF uvc_stream_get_frame, TransfersOK
    <3>5. QED
      BY <3>1, <3>2, <3>3, <3>4 DEF TypeOK
  <2>15. CASE uvc_stream_get_frame_check
    <3>1. FlagsOK'
      BY <2>15 DEF FlagsOK, uvc_stream_get_frame_check
    <3>2. ThreadsOK'
      BY <2>15
         DEF uvc_stream_get_frame_check, ThreadsOK, Threads, PollAnswer,
             PollReturns
    <3>3. CountersOK'
      BY <2>15 DEF uvc_stream_get_frame_check, CountersOK, PollAnswer
    <3>4. TransfersOK'
      BY <2>15 DEF uvc_stream_get_frame_check, TransfersOK
    <3>5. QED
      BY <3>1, <3>2, <3>3, <3>4 DEF TypeOK
  <2>16. CASE uvc_stream_get_frame_wake
    <3>1. FlagsOK'
      BY <2>16 DEF FlagsOK, uvc_stream_get_frame_wake
    <3>2. ThreadsOK'
      BY <2>16
         DEF uvc_stream_get_frame_wake, ThreadsOK, PollAnswer, PollReturns
    <3>3. CountersOK'
      BY <2>16 DEF uvc_stream_get_frame_wake, CountersOK, PollAnswer
    <3>4. TransfersOK'
      BY <2>16 DEF uvc_stream_get_frame_wake, TransfersOK
    <3>5. QED
      BY <3>1, <3>2, <3>3, <3>4 DEF TypeOK
  <2>17. CASE uvc_stream_get_frame_timeout
    <3>1. FlagsOK'
      BY <2>17 DEF FlagsOK, uvc_stream_get_frame_timeout
    <3>2. ThreadsOK'
      BY <2>17 DEF uvc_stream_get_frame_timeout, ThreadsOK, PollReturns
    <3>3. CountersOK'
      BY <2>17 DEF uvc_stream_get_frame_timeout, CountersOK
    <3>4. TransfersOK'
      BY <2>17 DEF uvc_stream_get_frame_timeout, TransfersOK
    <3>5. QED
      BY <3>1, <3>2, <3>3, <3>4 DEF TypeOK
  <2>18. CASE uvc_stream_callback_release
    <3>1. FlagsOK'
      BY <2>18 DEF FlagsOK, uvc_stream_callback_release
    <3>2. ThreadsOK'
      BY <2>18 DEF uvc_stream_callback_release, ThreadsOK, Broadcast
    <3>3. CountersOK'
      BY <2>18 DEF uvc_stream_callback_release, CountersOK
    <3>4. TransfersOK'
      BY <2>18 DEF uvc_stream_callback_release, TransfersOK, ReleaseTransfer
    <3>5. QED
      BY <3>1, <3>2, <3>3, <3>4 DEF TypeOK
  <2>19. CASE uvc_stream_callback_resubmit
    <3>1. FlagsOK'
      BY <2>19 DEF FlagsOK, uvc_stream_callback_resubmit, SwapBuffers
    <3>2. ThreadsOK'
      BY <2>19 DEF uvc_stream_callback_resubmit, ThreadsOK, Broadcast, Notify
    <3>3. CountersOK'
      BY <2>19, ConstantsAssumption
         DEF uvc_stream_callback_resubmit, CountersOK, SwapBuffers
    <3>4. TransfersOK'
      BY <2>19 DEF uvc_stream_callback_resubmit, TransfersOK
    <3>5. QED
      BY <3>1, <3>2, <3>3, <3>4 DEF TypeOK
  <2>20. CASE uvc_stream_callback_submit_fails
    <3>1. FlagsOK'
      BY <2>20 DEF FlagsOK, uvc_stream_callback_submit_fails, SwapBuffers
    <3>2. ThreadsOK'
      BY <2>20 DEF uvc_stream_callback_submit_fails, ThreadsOK, Broadcast
    <3>3. CountersOK'
      BY <2>20, ConstantsAssumption
         DEF uvc_stream_callback_submit_fails, CountersOK, SwapBuffers
    <3>4. TransfersOK'
      BY <2>20
         DEF uvc_stream_callback_submit_fails, TransfersOK, ReleaseTransfer
    <3>5. QED
      BY <3>1, <3>2, <3>3, <3>4 DEF TypeOK
  <2>21. ASSUME NEW i \in Slots, usb_report(i)
         PROVE  TypeOK'
    <3>1. FlagsOK'
      BY <2>21 DEF FlagsOK, usb_report
    <3>2. ThreadsOK'
      BY <2>21 DEF usb_report, ThreadsOK
    <3>3. CountersOK'
      BY <2>21 DEF usb_report, CountersOK
    <3>4. TransfersOK'
      BY <2>21 DEF usb_report, TransfersOK, Statuses, Reports
    <3>5. QED
      BY <3>1, <3>2, <3>3, <3>4 DEF TypeOK
  <2>22. ASSUME NEW t \in Threads, spurious_wakeup(t)
         PROVE  TypeOK'
    <3>1. FlagsOK'
      BY <2>22 DEF FlagsOK, spurious_wakeup
    <3>2. ThreadsOK'
      BY <2>22 DEF spurious_wakeup, ThreadsOK
    <3>3. CountersOK'
      BY <2>22 DEF spurious_wakeup, CountersOK
    <3>4. TransfersOK'
      BY <2>22 DEF spurious_wakeup, TransfersOK
    <3>5. QED
      BY <3>1, <3>2, <3>3, <3>4 DEF TypeOK
  <2>23. CASE unplug
    <3>1. FlagsOK'
      BY <2>23 DEF FlagsOK, unplug
    <3>2. ThreadsOK'
      BY <2>23 DEF unplug, ThreadsOK
    <3>3. CountersOK'
      BY <2>23 DEF unplug, CountersOK
    <3>4. TransfersOK'
      BY <2>23 DEF unplug, TransfersOK
    <3>5. QED
      BY <3>1, <3>2, <3>3, <3>4 DEF TypeOK
  <2>24. CASE UNCHANGED vars
    <3>1. FlagsOK'
      BY <2>24 DEF FlagsOK, vars
    <3>2. ThreadsOK'
      BY <2>24 DEF vars, ThreadsOK
    <3>3. CountersOK'
      BY <2>24 DEF vars, CountersOK
    <3>4. TransfersOK'
      BY <2>24 DEF vars, TransfersOK
    <3>5. QED
      BY <3>1, <3>2, <3>3, <3>4 DEF TypeOK
  <2> HIDE DEF handleVars, seqVars, callerVars, pollVars, appVars, xferVars
  <2> QED
    BY <2>1, <2>2, <2>3, <2>4, <2>5, <2>6, <2>7, <2>8, <2>9, <2>10, <2>11,
       <2>12, <2>13, <2>14, <2>15, <2>16, <2>17, <2>18, <2>19, <2>20, <2>21,
       <2>22, <2>23, <2>24 DEF Next, AppNext, CallerNext, PollerNext,
       CallbackNext, EnvNext, uvc_stream_stop, uvc_stream_close_stop
<1>3. QED
  BY <1>1, <1>2, PTL DEF Spec

-----------------------------------------------------------------------------
(***************************************************************************)
(* Safety.  While the device is plugged in, libusb owns only transfers the *)
(* table still holds unmarked, and it owns any, and the caller thread      *)
(* runs, only between a start and the end of the stop that follows.        *)
(***************************************************************************)

Stopping == {"join", "cancel", "drain"}

\* A transfer is in flight or in the callback, not both; and it is neither
\* freed nor marked before the callback says so.
Ownership ==
  \A i \in Slots :
    /\ ev.xfer = i => usb[i] = "idle"
    /\ Owned(i) => transfers[i] = "allocated" /\ ~transfer_flags[i]

\* What each stage of the application thread says about the other threads.
Stages ==
  /\ running => handle = "open"
  /\ app # "idle" => handle = "open"
  /\ app \in Stopping \cup {"closing"} => ~running
  /\ app = "submit" => running
  /\ CallerRuns => user_cb
  /\ CallerRuns => running \/ app = "join"
  /\ (\E i \in Slots : Owned(i)) => running \/ app \in Stopping
  /\ ev.status # "nodevice"

\* Where every transfer of the table is: below next, given to libusb or marked;
\* from next on, untouched.  Later, the first holds of all or none was given.
Accounting ==
  /\ app = "submit" => \A i \in Slots :
       /\ i < next => Owned(i) \/ transfer_flags[i]
       /\ i >= next => /\ transfers[i] = "allocated"
                       /\ ~transfer_flags[i] /\ ~Owned(i)
  /\ app # "submit" /\ (running \/ app \in Stopping) =>
       \/ \A i \in Slots :
            transfers[i] = "allocated" => Owned(i) \/ transfer_flags[i]
       \/ \A i \in Slots : /\ transfers[i] = "allocated"
                          /\ ~transfer_flags[i] /\ ~Owned(i)

SafetyInv == Ownership /\ Stages /\ Accounting

\* A step that ends with the device plugged in began so.
LEMMA PluggedBefore == [Next]_vars /\ plugged' => plugged
  BY DEF Next, AppNext, CallerNext, PollerNext, CallbackNext, EnvNext, vars,
         handleVars, uvc_stream_open_ctrl, uvc_stream_start,
         uvc_stream_start_fails, uvc_stream_start_submit,
         uvc_stream_start_submit_fails, uvc_stream_stop, uvc_stream_close_stop,
         StopRequest, uvc_stream_stop_join, uvc_stream_stop_cancel,
         uvc_stream_stop_drain, uvc_stream_stop_timeout, uvc_stream_close,
         uvc_user_caller, user_cb_returns, uvc_stream_get_frame,
         uvc_stream_get_frame_check, uvc_stream_get_frame_wake,
         uvc_stream_get_frame_timeout, uvc_stream_callback_release,
         uvc_stream_callback_resubmit, uvc_stream_callback_submit_fails,
         usb_report, spurious_wakeup, unplug

\* The inductive invariant, from the assumption that the 5 s of a stop are
\* enough for libusb to give a transfer back.
LEMMA SafetyInvariant ==
  ASSUME SlowCancel = FALSE
  PROVE  Spec => [](plugged => SafetyInv)
<1>a. SlowCancel = FALSE
  OBVIOUS
<1>1. Init => SafetyInv
  BY DEF Init, SafetyInv, Stopping, Accounting, Stages, Ownership, CallerRuns,
         NoEvent, Slots, Owned
<1>2. TypeOK /\ (plugged => SafetyInv) /\ [Next]_vars => (plugged => SafetyInv)'
  <2> SUFFICES ASSUME ThreadsOK, CountersOK, TransfersOK, plugged,
                      Ownership, Stages, Accounting, plugged', [Next]_vars
               PROVE  SafetyInv'
    BY PluggedBefore DEF TypeOK, SafetyInv
  <2> USE DEF Stopping, handleVars, seqVars, callerVars, pollVars, appVars, xferVars
  <2>1. CASE uvc_stream_open_ctrl
    <3>1. Ownership'
      BY <2>1 DEF uvc_stream_open_ctrl, Stages, Ownership, Owned
    <3>2. Stages'
      BY <2>1 DEF uvc_stream_open_ctrl, Stages, CallerRuns, Owned
    <3>3. Accounting'
      BY <2>1 DEF uvc_stream_open_ctrl, Accounting
    <3>4. QED
      BY <3>1, <3>2, <3>3 DEF SafetyInv
  <2>2. ASSUME NEW cb \in BOOLEAN, uvc_stream_start(cb)
        PROVE  SafetyInv'
    <3>1. Ownership'
      BY <2>2 DEF uvc_stream_start, Ownership
    <3>2. Stages'
      BY <2>2 DEF uvc_stream_start, Stages, CallerRuns, CanStart
    <3>3. Accounting'
      BY <2>2 DEF uvc_stream_start, Accounting, Stages, Slots, Owned, CanStart
    <3>4. QED
      BY <3>1, <3>2, <3>3 DEF SafetyInv
  <2>3. CASE uvc_stream_start_fails
    <3>1. Ownership'
      BY <2>3 DEF uvc_stream_start_fails, Ownership, Owned
    <3>2. Stages'
      BY <2>3 DEF uvc_stream_start_fails, Stages, CallerRuns, Owned, CanStart
    <3>3. Accounting'
      BY <2>3 DEF uvc_stream_start_fails, Accounting, CanStart
    <3>4. QED
      BY <3>1, <3>2, <3>3 DEF SafetyInv
  <2>4. CASE uvc_stream_start_submit
    <3>1. Ownership'
      BY <2>4
         DEF uvc_stream_start_submit, Accounting, Ownership, CountersOK, Owned
    <3>2. Stages'
      BY <2>4 DEF uvc_stream_start_submit, Stages, CallerRuns
    <3>3. Accounting'
      BY <2>4
         DEF uvc_stream_start_submit, Accounting, Slots, TransfersOK,
             CountersOK, Owned, LastSubmitted
    <3>4. QED
      BY <3>1, <3>2, <3>3 DEF SafetyInv
  <2>5. CASE uvc_stream_start_submit_fails
    <3>1. Ownership'
      BY <2>5
         DEF uvc_stream_start_submit_fails, Accounting, Ownership, Slots,
             CountersOK, Owned, FreeUnsubmitted
    <3>2. Stages'
      BY <2>5 DEF uvc_stream_start_submit_fails, Stages, CallerRuns
    <3>3. Accounting'
      BY <2>5
         DEF uvc_stream_start_submit_fails, Accounting, Slots, CountersOK,
             Owned, FreeUnsubmitted
    <3>4. QED
      BY <3>1, <3>2, <3>3 DEF SafetyInv
  <2>6. ASSUME NEW close \in BOOLEAN, StopRequest(close)
        PROVE  SafetyInv'
    <3>1. Ownership'
      BY <2>6 DEF StopRequest, Ownership, Owned
    <3>2. Stages'
      BY <2>6 DEF StopRequest, Stages, CallerRuns
    <3>3. Accounting'
      BY <2>6 DEF StopRequest, Accounting, Owned
    <3>4. QED
      BY <3>1, <3>2, <3>3 DEF SafetyInv
  <2>7. CASE uvc_stream_stop_join
    <3>1. Ownership'
      BY <2>7 DEF uvc_stream_stop_join, Ownership, Owned
    <3>2. Stages'
      BY <2>7 DEF uvc_stream_stop_join, Stages, CallerRuns, CallerJoined
    <3>3. Accounting'
      BY <2>7 DEF uvc_stream_stop_join, Accounting, Owned
    <3>4. QED
      BY <3>1, <3>2, <3>3 DEF SafetyInv
  <2>8. CASE uvc_stream_stop_cancel
    <3> DEFINE flags(failed) ==
                 [i \in Slots |-> transfer_flags[i] \/ i \in failed]
    <3>1. PICK failed \in SUBSET {i \in Unreleased(transfer_flags) :
                                     usb[i] # "idle" /\ ~plugged} :
            /\ transfer_flags' = flags(failed)
            /\ usb' = [i \in Slots |->
                         IF i \in Unreleased(flags(failed)) /\ usb[i] = "flight"
                         THEN "cancelling" ELSE usb[i]]
            /\ IF Unreleased(flags(failed)) = {} THEN FreeTransfers
                                                 ELSE WaitForTransfers
      BY <2>8 DEF uvc_stream_stop_cancel
    <3>2. failed = {}
      BY <3>1
    <3>3. \A i \in Slots : transfer_flags'[i] <=> transfer_flags[i]
      BY <3>1, <3>2
    <3>4. \A i \in Slots : Owned(i)' <=> Owned(i)
      BY <3>1, <2>8 DEF uvc_stream_stop_cancel, Owned
    <3>5. Unreleased(flags(failed)) = Unreleased(transfer_flags)
      BY <3>2 DEF Unreleased
    <3> HIDE DEF flags
    <3>6. CASE Unreleased(transfer_flags) = {}
      <4>1. \A i \in Slots : ~Owned(i)
        BY <3>6 DEF Ownership, Unreleased
      <4>2. /\ \A i \in Slots : transfers'[i] = "NULL"
            /\ app' \in {"closing", "idle"}
        BY <3>1, <3>5, <3>6 DEF FreeTransfers
      <4>3. Ownership'
        BY <2>8, <3>1, <3>4, <4>1 DEF uvc_stream_stop_cancel, Ownership
      <4>4. Stages'
        BY <2>8, <3>4, <4>1, <4>2
           DEF uvc_stream_stop_cancel, Stages, CallerRuns
      <4>5. Accounting'
        BY <2>8, <4>2 DEF uvc_stream_stop_cancel, Accounting
      <4>6. QED
        BY <4>3, <4>4, <4>5 DEF SafetyInv
    <3>7. CASE Unreleased(transfer_flags) # {}
      <4>1. transfers' = transfers /\ app' = "drain"
        BY <3>1, <3>5, <3>7 DEF WaitForTransfers
      <4>2. Ownership'
        BY <2>8, <3>1, <3>3, <3>4, <4>1 DEF uvc_stream_stop_cancel, Ownership
      <4>3. Stages'
        BY <2>8, <3>4, <4>1 DEF uvc_stream_stop_cancel, Stages, CallerRuns
      <4>4. Accounting'
        BY <2>8, <3>3, <3>4, <4>1 DEF uvc_stream_stop_cancel, Accounting
      <4>5. QED
        BY <4>2, <4>3, <4>4 DEF SafetyInv
    <3>8. QED
      BY <3>6, <3>7
  <2>9. CASE uvc_stream_stop_drain
    <3>1. Ownership'
      BY <2>9
         DEF uvc_stream_stop_drain, Ownership, Owned, WaitForTransfers,
             Unreleased, AllReleased
    <3>2. Stages'
      BY <2>9
         DEF uvc_stream_stop_drain, Stages, Ownership, CallerRuns, Owned,
             FreeTransfers, WaitForTransfers, Unreleased, AllReleased
    <3>3. Accounting'
      BY <2>9
         DEF uvc_stream_stop_drain, Accounting, Owned, FreeTransfers,
             WaitForTransfers
    <3>4. QED
      BY <3>1, <3>2, <3>3 DEF SafetyInv
  <2>10. CASE uvc_stream_stop_timeout
    <3>1. Ownership'
      BY <2>10, <1>a DEF uvc_stream_stop_timeout, Ownership, Owned, Unreleased
    <3>2. Stages'
      BY <2>10, <1>a
         DEF uvc_stream_stop_timeout, Stages, Ownership, CallerRuns, Owned,
             FreeTransfers, Unreleased
    <3>3. Accounting'
      BY <2>10, <1>a DEF uvc_stream_stop_timeout, Accounting, FreeTransfers
    <3>4. QED
      BY <3>1, <3>2, <3>3 DEF SafetyInv
  <2>11. CASE uvc_stream_close
    <3>1. Ownership'
      BY <2>11 DEF uvc_stream_close, Ownership, Owned
    <3>2. Stages'
      BY <2>11 DEF uvc_stream_close, Stages, CallerRuns, Owned, StreamStopped
    <3>3. Accounting'
      BY <2>11 DEF uvc_stream_close, Accounting, Owned, StreamStopped
    <3>4. QED
      BY <3>1, <3>2, <3>3 DEF SafetyInv
  <2>12. CASE uvc_user_caller
    <3>1. Ownership'
      BY <2>12 DEF uvc_user_caller, Ownership, Owned
    <3>2. Stages'
      BY <2>12 DEF uvc_user_caller, Stages, CallerRuns
    <3>3. Accounting'
      BY <2>12 DEF uvc_user_caller, Accounting, Owned
    <3>4. QED
      BY <3>1, <3>2, <3>3 DEF SafetyInv
  <2>13. CASE user_cb_returns
    <3>1. Ownership'
      BY <2>13 DEF user_cb_returns, Ownership, Owned
    <3>2. Stages'
      BY <2>13 DEF user_cb_returns, Stages, CallerRuns
    <3>3. Accounting'
      BY <2>13 DEF user_cb_returns, Accounting, Owned
    <3>4. QED
      BY <3>1, <3>2, <3>3 DEF SafetyInv
  <2>14. ASSUME NEW mode \in PollModes, uvc_stream_get_frame(mode)
         PROVE  SafetyInv'
    <3>1. Ownership'
      BY <2>14 DEF uvc_stream_get_frame, Ownership, Owned
    <3>2. Stages'
      BY <2>14 DEF uvc_stream_get_frame, Stages, CallerRuns
    <3>3. Accounting'
      BY <2>14 DEF uvc_stream_get_frame, Accounting, Owned
    <3>4. QED
      BY <3>1, <3>2, <3>3 DEF SafetyInv
  <2>15. CASE uvc_stream_get_frame_check
    <3>1. Ownership'
      BY <2>15 DEF uvc_stream_get_frame_check, Ownership, Owned
    <3>2. Stages'
      BY <2>15 DEF uvc_stream_get_frame_check, Stages, CallerRuns, Owned
    <3>3. Accounting'
      BY <2>15 DEF uvc_stream_get_frame_check, Accounting, Owned
    <3>4. QED
      BY <3>1, <3>2, <3>3 DEF SafetyInv
  <2>16. CASE uvc_stream_get_frame_wake
    <3>1. Ownership'
      BY <2>16 DEF uvc_stream_get_frame_wake, Ownership, Owned
    <3>2. Stages'
      BY <2>16 DEF uvc_stream_get_frame_wake, Stages, CallerRuns, Owned
    <3>3. Accounting'
      BY <2>16 DEF uvc_stream_get_frame_wake, Accounting, Owned
    <3>4. QED
      BY <3>1, <3>2, <3>3 DEF SafetyInv
  <2>17. CASE uvc_stream_get_frame_timeout
    <3>1. Ownership'
      BY <2>17 DEF uvc_stream_get_frame_timeout, Ownership, Owned
    <3>2. Stages'
      BY <2>17 DEF uvc_stream_get_frame_timeout, Stages, CallerRuns, Owned
    <3>3. Accounting'
      BY <2>17 DEF uvc_stream_get_frame_timeout, Accounting, Owned
    <3>4. QED
      BY <3>1, <3>2, <3>3 DEF SafetyInv
  <2>18. CASE uvc_stream_callback_release
    <3>1. Ownership'
      BY <2>18
         DEF uvc_stream_callback_release, Ownership, NoEvent, Slots, Owned,
             ReleaseTransfer
    <3>2. Stages'
      BY <2>18
         DEF uvc_stream_callback_release, Stages, CallerRuns, NoEvent,
             TransfersOK, Owned
    <3>3. Accounting'
      <4>1. PICK x \in Slots : /\ ev.xfer = x
                              /\ Owned(x) /\ transfers[x] = "allocated"
        BY <2>18 DEF uvc_stream_callback_release, Ownership, TransfersOK, Owned
      <4>2. ~Owned(x)'
        BY <2>18, <4>1
           DEF uvc_stream_callback_release, Ownership, NoEvent, Slots, Owned,
               ReleaseTransfer
      <4>3. transfer_flags'[x]
        BY <2>18, <4>1
           DEF uvc_stream_callback_release, TransfersOK, ReleaseTransfer
      <4>4. \A i \in Slots \ {x} :
              /\ transfer_flags'[i] <=> transfer_flags[i]
              /\ Owned(i)' <=> Owned(i)
        BY <2>18, <4>1
           DEF uvc_stream_callback_release, NoEvent, Slots, Owned,
               ReleaseTransfer
      <4>5. UNCHANGED <<transfers, app, next>> /\ (running' => running)
        BY <2>18 DEF uvc_stream_callback_release
      <4>6. QED
        BY <4>1, <4>2, <4>3, <4>4, <4>5 DEF Accounting
    <3>4. QED
      BY <3>1, <3>2, <3>3 DEF SafetyInv
  <2>19. CASE uvc_stream_callback_resubmit
    <3>1. Ownership'
      BY <2>19
         DEF uvc_stream_callback_resubmit, Ownership, NoEvent, Slots, Owned
    <3>2. Stages'
      BY <2>19
         DEF uvc_stream_callback_resubmit, Stages, CallerRuns, NoEvent,
             TransfersOK, Owned
    <3>3. Accounting'
      BY <2>19
         DEF uvc_stream_callback_resubmit, Accounting, NoEvent, Slots,
             TransfersOK, Owned
    <3>4. QED
      BY <3>1, <3>2, <3>3 DEF SafetyInv
  <2>20. CASE uvc_stream_callback_submit_fails
    <3>1. Ownership'
      BY <2>20
         DEF uvc_stream_callback_submit_fails, Ownership, NoEvent, Slots,
             Owned, ReleaseTransfer
    <3>2. Stages'
      BY <2>20
         DEF uvc_stream_callback_submit_fails, Stages, CallerRuns, NoEvent,
             TransfersOK, Owned
    <3>3. Accounting'
      <4>1. PICK x \in Slots : /\ ev.xfer = x
                              /\ Owned(x) /\ transfers[x] = "allocated"
        BY <2>20
           DEF uvc_stream_callback_submit_fails, Ownership, TransfersOK, Owned
      <4>2. ~Owned(x)'
        BY <2>20, <4>1
           DEF uvc_stream_callback_submit_fails, Ownership, NoEvent, Slots,
               Owned, ReleaseTransfer
      <4>3. transfer_flags'[x]
        BY <2>20, <4>1
           DEF uvc_stream_callback_submit_fails, TransfersOK, ReleaseTransfer
      <4>4. \A i \in Slots \ {x} :
              /\ transfer_flags'[i] <=> transfer_flags[i]
              /\ Owned(i)' <=> Owned(i)
        BY <2>20, <4>1
           DEF uvc_stream_callback_submit_fails, NoEvent, Slots, Owned,
               ReleaseTransfer
      <4>5. UNCHANGED <<transfers, app, next>> /\ (running' => running)
        BY <2>20 DEF uvc_stream_callback_submit_fails
      <4>6. QED
        BY <4>1, <4>2, <4>3, <4>4, <4>5 DEF Accounting
    <3>4. QED
      BY <3>1, <3>2, <3>3 DEF SafetyInv
  <2>21. ASSUME NEW i \in Slots, usb_report(i)
         PROVE  SafetyInv'
    <3>1. Ownership'
      BY <2>21 DEF usb_report, Ownership, TransfersOK, Owned
    <3>2. Stages'
      BY <2>21 DEF usb_report, Stages, CallerRuns, Owned, Reports
    <3>3. Accounting'
      BY <2>21 DEF usb_report, Accounting, NoEvent, Slots, Owned
    <3>4. QED
      BY <3>1, <3>2, <3>3 DEF SafetyInv
  <2>22. ASSUME NEW t \in Threads, spurious_wakeup(t)
         PROVE  SafetyInv'
    <3>1. Ownership'
      BY <2>22 DEF spurious_wakeup, Ownership, Owned
    <3>2. Stages'
      BY <2>22 DEF spurious_wakeup, Stages, CallerRuns, Owned
    <3>3. Accounting'
      BY <2>22 DEF spurious_wakeup, Accounting, Owned
    <3>4. QED
      BY <3>1, <3>2, <3>3 DEF SafetyInv
  <2>23. CASE unplug
    <3>1. Ownership'
      BY <2>23 DEF unplug
    <3>2. Stages'
      BY <2>23 DEF unplug
    <3>3. Accounting'
      BY <2>23 DEF unplug
    <3>4. QED
      BY <3>1, <3>2, <3>3 DEF SafetyInv
  <2>24. CASE UNCHANGED vars
    <3>1. Ownership'
      BY <2>24 DEF vars, Ownership, Owned
    <3>2. Stages'
      BY <2>24 DEF vars, Stages, CallerRuns, Owned
    <3>3. Accounting'
      BY <2>24 DEF vars, Accounting, Owned
    <3>4. QED
      BY <3>1, <3>2, <3>3 DEF SafetyInv
  <2> HIDE DEF Stopping, handleVars, seqVars, callerVars, pollVars, appVars, xferVars
  <2> QED
    BY <2>1, <2>2, <2>3, <2>4, <2>5, <2>6, <2>7, <2>8, <2>9, <2>10, <2>11,
       <2>12, <2>13, <2>14, <2>15, <2>16, <2>17, <2>18, <2>19, <2>20, <2>21,
       <2>22, <2>23, <2>24 DEF Next, AppNext, CallerNext, PollerNext,
       CallbackNext, EnvNext, uvc_stream_stop, uvc_stream_close_stop
<1>3. QED
  BY <1>1, <1>2, TypeCorrect, PTL DEF Spec

\* While the device is connected, uvc_stream_close frees a handle that no
\* transfer and no callback thread will use again.
THEOREM HandleSafety ==
  ASSUME SlowCancel = FALSE
  PROVE  Spec => []NoDanglingUse
<1>1. (plugged => SafetyInv) => NoDanglingUse
  BY DEF SafetyInv, Stages, NoDanglingUse, HandleUnused, Stopping
<1>2. QED
  BY <1>1, SafetyInvariant, PTL

\* While the device is connected, no transfer is freed, nor marked as released,
\* that libusb still has.
THEOREM TransferSafety ==
  ASSUME SlowCancel = FALSE
  PROVE  Spec => []NoFreeInFlight
<1>1. (plugged => SafetyInv) => NoFreeInFlight
  BY DEF SafetyInv, Ownership, NoFreeInFlight
<1>2. QED
  BY <1>1, SafetyInvariant, PTL

\* While the device is connected, uvc_stream_stop loses track of no transfer of
\* a stream that ran: each one it waits for is still with libusb, or none is.
THEOREM StopAccounting ==
  ASSUME SlowCancel = FALSE
  PROVE  Spec => []StopNeedsNoTimeout
<1>1. (plugged => SafetyInv) => StopNeedsNoTimeout
  BY DEF SafetyInv, Accounting, StopNeedsNoTimeout, Stopping, Unreleased
<1>2. QED
  BY <1>1, SafetyInvariant, PTL

-----------------------------------------------------------------------------
(***************************************************************************)
(* UvcStream implements the safety part of StreamContract, for any number  *)
(* of transfers and starts, also when libusb is late with a transfer.      *)
(*                                                                         *)
(* Steps of the application thread take the handle from phase to phase,    *)
(* those of the caller thread enter and leave the callback, and the rest   *)
(* is hidden, until the device is disconnected.  That the two threads keep *)
(* step is the invariant CallerStages.                                     *)
(***************************************************************************)

\* While the device is connected the caller thread runs within a stream only, or
\* while uvc_stream_stop joins it.
CallerStages ==
  /\ running => handle = "open"
  /\ app # "idle" => handle = "open"
  /\ app \in Stopping \cup {"closing"} => ~running
  /\ CallerRuns => user_cb
  /\ CallerRuns => running \/ app = "join"
  /\ ev.status # "nodevice"

\* No action but those of the application, the caller and the callback disturbs
\* CallerStages, and these keep it up.
LEMMA CallerInvariant == Spec => [](plugged => CallerStages)
<1>1. Init => CallerStages
  BY DEF Init, CallerStages, CallerRuns, Stopping, NoEvent
<1>2. TypeOK /\ (plugged => CallerStages) /\ [Next]_vars
        => (plugged => CallerStages)'
  <2> SUFFICES ASSUME TypeOK, plugged, CallerStages, plugged', [Next]_vars
               PROVE  CallerStages'
    BY PluggedBefore
  <2> USE DEF CallerStages, CallerRuns, Stopping,
              handleVars, seqVars, callerVars, pollVars, appVars, xferVars
  <2>1. ASSUME UNCHANGED <<handle, running, user_cb, ev, caller, app>>
        PROVE  CallerStages'
    BY <2>1
  <2>2. CASE uvc_stream_open_ctrl
    BY <2>2 DEF uvc_stream_open_ctrl
  <2>3. ASSUME NEW cb \in BOOLEAN, uvc_stream_start(cb)
        PROVE  CallerStages'
    BY <2>3 DEF uvc_stream_start, CanStart
  <2>4. CASE uvc_stream_start_fails
    BY <2>4 DEF uvc_stream_start_fails, CanStart
  <2>5. CASE uvc_stream_start_submit \/ uvc_stream_start_submit_fails
    BY <2>5 DEF uvc_stream_start_submit, uvc_stream_start_submit_fails
  <2>6. ASSUME NEW close \in BOOLEAN, StopRequest(close)
        PROVE  CallerStages'
    BY <2>6 DEF StopRequest
  <2>7. CASE uvc_stream_stop_join
    BY <2>7 DEF uvc_stream_stop_join, CallerJoined
  <2>8. CASE \/ uvc_stream_stop_cancel
             \/ uvc_stream_stop_drain \/ uvc_stream_stop_timeout
    <3>1. app \in {"cancel", "drain"} /\ app' \in {"drain", "closing", "idle"}
      BY <2>8
         DEF uvc_stream_stop_cancel, uvc_stream_stop_drain,
             uvc_stream_stop_timeout, FreeTransfers, WaitForTransfers
    <3>2. UNCHANGED <<handle, running, user_cb, ev, caller>>
      BY <2>8
         DEF uvc_stream_stop_cancel, uvc_stream_stop_drain,
             uvc_stream_stop_timeout
    <3>3. QED
      BY <3>1, <3>2
  <2>9. CASE uvc_stream_close
    BY <2>9 DEF uvc_stream_close, StreamStopped
  <2>10. CASE uvc_user_caller
    BY <2>10 DEF uvc_user_caller, TakeFrame
  <2>11. CASE user_cb_returns
    BY <2>11 DEF user_cb_returns
  <2>12. CASE PollerNext
    BY <2>1, <2>12
       DEF PollerNext, uvc_stream_get_frame, uvc_stream_get_frame_check,
           uvc_stream_get_frame_wake, uvc_stream_get_frame_timeout
  <2>13. CASE uvc_stream_callback_release
    <3>1. ev.status # "nodevice" /\ ev' = NoEvent
      BY <2>13 DEF uvc_stream_callback_release
    <3>2. running' <=> running
      BY <2>13, <3>1, Zenon DEF uvc_stream_callback_release
    <3>3. UNCHANGED <<handle, user_cb, caller, app>>
      BY <2>13 DEF uvc_stream_callback_release
    <3>4. QED
      BY <3>1, <3>2, <3>3 DEF NoEvent
  <2>14. CASE uvc_stream_callback_resubmit \/ uvc_stream_callback_submit_fails
    <3>1. UNCHANGED <<handle, running, user_cb, caller, app>> /\ ev' = NoEvent
      BY <2>14
         DEF uvc_stream_callback_resubmit, uvc_stream_callback_submit_fails
    <3>2. QED
      BY <3>1 DEF NoEvent
  <2>15. ASSUME NEW i \in Slots, usb_report(i)
         PROVE  CallerStages'
    BY <2>15 DEF usb_report, Reports
  <2>16. CASE unplug
    BY <2>16 DEF unplug
  <2>17. ASSUME NEW t \in Threads, spurious_wakeup(t)
         PROVE  CallerStages'
    BY <2>1, <2>17 DEF spurious_wakeup
  <2>18. CASE UNCHANGED vars
    BY <2>1, <2>18 DEF vars
  <2> HIDE DEF handleVars, seqVars, callerVars, pollVars, appVars, xferVars
  <2> QED
    BY <2>2, <2>3, <2>4, <2>5, <2>6, <2>7, <2>8, <2>9, <2>10, <2>11, <2>12,
       <2>13, <2>14, <2>15, <2>16, <2>17, <2>18
       DEF Next, AppNext, CallerNext, CallbackNext, EnvNext, uvc_stream_stop,
           uvc_stream_close_stop
<1>3. QED
  BY <1>1, <1>2, TypeCorrect, PTL DEF Spec

-----------------------------------------------------------------------------
\* Only the disconnection of the device disconnects it.
LEMMA OnlyUnplug == Next /\ plugged /\ ~plugged' => unplug
  BY DEF Next, AppNext, CallerNext, PollerNext, CallbackNext, EnvNext,
         handleVars, uvc_stream_open_ctrl, uvc_stream_start,
         uvc_stream_start_fails, uvc_stream_start_submit,
         uvc_stream_start_submit_fails, uvc_stream_stop, uvc_stream_close_stop,
         StopRequest, uvc_stream_stop_join, uvc_stream_stop_cancel,
         uvc_stream_stop_drain, uvc_stream_stop_timeout, uvc_stream_close,
         uvc_user_caller, user_cb_returns, uvc_stream_get_frame,
         uvc_stream_get_frame_check, uvc_stream_get_frame_wake,
         uvc_stream_get_frame_timeout, uvc_stream_callback_release,
         uvc_stream_callback_resubmit, uvc_stream_callback_submit_fails,
         usb_report, spurious_wakeup

\* A step that leaves what the contract sees of the handle alone is hidden.
LEMMA Hidden ==
  ASSUME plugged, plugged', UNCHANGED handle, running' <=> running,
         app' \in Stopping <=> app \in Stopping,
         (caller' = "deliver") <=> (caller = "deliver")
  PROVE  UNCHANGED Contract!cvars
BY DEF Contract!cvars, Stopping

\* Each step of a connected handle is one of the contract, or hidden from it.
LEMMA StepRefined ==
  ASSUME TypeOK, CallerStages, plugged, plugged', Next
  PROVE  Contract!ContractNext \/ UNCHANGED Contract!cvars
<1> USE DEF handleVars, seqVars, callerVars, pollVars, appVars, xferVars
<1>1. ASSUME UNCHANGED <<handle, running, caller, app>>
      PROVE  UNCHANGED Contract!cvars
  BY <1>1, Hidden
<1>2. CASE uvc_stream_open_ctrl
  <2>1. Contract!Open
    BY <1>2
       DEF uvc_stream_open_ctrl, Contract!Open, Contract!Move, CallerStages
  <2>2. QED
    BY <2>1 DEF Contract!ContractNext
<1>3. ASSUME NEW cb \in BOOLEAN, uvc_stream_start(cb)
      PROVE  Contract!Start
  BY <1>3
     DEF uvc_stream_start, CanStart, Contract!Start, Contract!Move,
         CallerStages, CallerRuns
<1>4. CASE uvc_stream_start_fails
  BY <1>1, <1>4 DEF uvc_stream_start_fails
<1>5. CASE uvc_stream_start_submit \/ uvc_stream_start_submit_fails
  <2>1. /\ UNCHANGED <<handle, running, caller>>
        /\ app = "submit" /\ app' \in {"submit", "idle"}
    BY <1>5 DEF uvc_stream_start_submit, uvc_stream_start_submit_fails
  <2>2. QED
    BY <2>1, Hidden DEF Stopping
<1>6. ASSUME NEW close \in BOOLEAN, StopRequest(close)
      PROVE  Contract!StopRequest
  BY <1>6 DEF StopRequest, Contract!StopRequest, Contract!Move
<1>7. CASE uvc_stream_stop_join
  <2>1. /\ UNCHANGED <<handle, running, caller>>
        /\ app = "join" /\ app' = "cancel"
    BY <1>7 DEF uvc_stream_stop_join
  <2>2. QED
    BY <2>1, Hidden DEF Stopping
<1>8. CASE \/ uvc_stream_stop_cancel
           \/ uvc_stream_stop_drain \/ uvc_stream_stop_timeout
  <2>1. /\ UNCHANGED <<handle, running, caller>>
        /\ app \in {"cancel", "drain"}
        /\ app' \in {"drain", "closing", "idle"}
    BY <1>8
       DEF uvc_stream_stop_cancel, uvc_stream_stop_drain,
           uvc_stream_stop_timeout, FreeTransfers, WaitForTransfers
  <2>2. CASE app' = "drain"
    BY <2>1, <2>2, Hidden DEF Stopping
  <2>3. CASE app' # "drain"
    <3>1. Contract!StopReturn
      BY <2>1, <2>3
         DEF Contract!StopReturn, Contract!Move, CallerStages, CallerRuns,
             Stopping
    <3>2. QED
      BY <3>1 DEF Contract!ContractNext
  <2>4. QED
    BY <2>2, <2>3
<1>9. CASE uvc_stream_close
  <2>1. Contract!Close
    BY <1>9
       DEF uvc_stream_close, StreamStopped, Contract!Close, Contract!Move,
           CallerStages, CallerRuns
  <2>2. QED
    BY <2>1 DEF Contract!ContractNext
<1>10. CASE uvc_user_caller
  <2>1. /\ UNCHANGED <<handle, running, app>>
        /\ caller = "check"
        /\ caller' = "deliver" => running
    BY <1>10 DEF uvc_user_caller, TakeFrame
  <2>2. CASE caller' = "deliver"
    <3>1. Contract!Deliver
      BY <2>1, <2>2 DEF Contract!Deliver, CallerStages, Stopping
    <3>2. QED
      BY <3>1 DEF Contract!ContractNext
  <2>3. CASE caller' # "deliver"
    BY <2>1, <2>3, Hidden
  <2>4. QED
    BY <2>2, <2>3
<1>11. CASE user_cb_returns
  <2>1. Contract!Return
    BY <1>11 DEF user_cb_returns, Contract!Return
  <2>2. QED
    BY <2>1 DEF Contract!ContractNext
<1>12. CASE PollerNext
  BY <1>1, <1>12
     DEF PollerNext, uvc_stream_get_frame, uvc_stream_get_frame_check,
         uvc_stream_get_frame_wake, uvc_stream_get_frame_timeout
<1>13. CASE uvc_stream_callback_release
  <2>1. ev.status # "nodevice" /\ UNCHANGED <<handle, caller, app>>
    BY <1>13 DEF uvc_stream_callback_release, CallerStages
  <2>2. running' <=> running
    BY <1>13, <2>1, Zenon DEF uvc_stream_callback_release
  <2>3. QED
    BY <2>1, <2>2, Hidden
<1>14. CASE uvc_stream_callback_resubmit \/ uvc_stream_callback_submit_fails
  BY <1>1, <1>14
     DEF uvc_stream_callback_resubmit, uvc_stream_callback_submit_fails
<1>15. ASSUME NEW i \in Slots, usb_report(i)
       PROVE  UNCHANGED Contract!cvars
  BY <1>1, <1>15 DEF usb_report
<1>16. ASSUME NEW t \in Threads, spurious_wakeup(t)
       PROVE  UNCHANGED Contract!cvars
  BY <1>1, <1>16 DEF spurious_wakeup
<1>17. CASE unplug
  BY <1>17 DEF unplug
<1> HIDE DEF handleVars, seqVars, callerVars, pollVars, appVars, xferVars
<1>18. QED
  BY <1>2, <1>3, <1>4, <1>5, <1>6, <1>7, <1>8, <1>9, <1>10, <1>11, <1>12,
     <1>13, <1>14, <1>15, <1>16, <1>17
     DEF Next, AppNext, CallerNext, CallbackNext, EnvNext, uvc_stream_stop,
         uvc_stream_close_stop, Contract!ContractNext

\* The threads, the transfers and the buffers of libuvc keep the promise of
\* StreamContract: the frame callback runs between a start and the return of
\* the stop that follows it, one call at a time.
THEOREM ContractRefined == Spec => Contract!ContractSafety
<1>1. Init => Contract!ContractInit
  BY DEF Init, Contract!ContractInit
<1>2. TypeOK /\ (plugged => CallerStages) /\ [Next]_vars
        => [Contract!ContractNext]_Contract!cvars
  <2> SUFFICES ASSUME TypeOK, plugged => CallerStages, [Next]_vars
               PROVE  Contract!ContractNext \/ UNCHANGED Contract!cvars
    OBVIOUS
  <2>1. CASE UNCHANGED vars
    BY <2>1
       DEF vars, handleVars, callerVars, appVars, Contract!cvars
  <2>2. CASE Next /\ plugged /\ plugged'
    BY <2>2, StepRefined
  <2>3. CASE Next /\ plugged /\ ~plugged'
    <3>1. UNCHANGED caller
      BY <2>3, OnlyUnplug DEF unplug, callerVars
    <3>2. Contract!Lose
      BY <2>3, <3>1 DEF Contract!Lose
    <3>3. QED
      BY <3>2 DEF Contract!ContractNext
  <2>4. CASE ~plugged
    <3>1. ~plugged'
      BY <2>4, PluggedBefore
    <3>2. Contract!Lose
      BY <2>4, <3>1 DEF Contract!Lose
    <3>3. QED
      BY <3>2 DEF Contract!ContractNext
  <2>5. QED
    BY <2>1, <2>2, <2>3, <2>4
<1>3. QED
  BY <1>1, <1>2, TypeCorrect, CallerInvariant, PTL
     DEF Spec, Contract!ContractSafety

-----------------------------------------------------------------------------
(***************************************************************************)
(* Order of delivery.                                                      *)
(***************************************************************************)

\* A frame of this start that is held is older than the one being filled and no
\* older than the one the caller got.  One of an earlier start the caller gets only
\* if it got nothing yet; there is none on a handle that is started once.
CaptureOrder ==
  /\ running \/ CallerRuns => starts > 0
  /\ starts = 0 => ~fresh
  /\ starts <= 1 /\ ~fresh => hold_seq = 0
  /\ fresh => hold_seq < seq
  /\ CallerRuns =>
       /\ got = "nothing" => last_seq = 0
       /\ got = "stale" /\ ~fresh => last_seq = hold_seq
       /\ got = "fresh" => fresh /\ last_seq <= hold_seq

\* A frame can only be published on a handle that was started.
LEMMA OrderInvariant == Spec => [](plugged => CaptureOrder)
<1>1. Init => CaptureOrder
  BY DEF Init, CaptureOrder, CallerRuns
<1>2. TypeOK /\ (plugged => CallerStages) /\ (plugged => CaptureOrder) /\ [Next]_vars
        => (plugged => CaptureOrder)'
  <2> SUFFICES ASSUME TypeOK, plugged, CallerStages, CaptureOrder, plugged',
                      [Next]_vars
               PROVE  CaptureOrder'
    BY PluggedBefore
  <2>1. /\ starts \in Nat /\ seq \in Nat /\ hold_seq \in Nat /\ last_seq \in Nat
        /\ running \in BOOLEAN /\ fresh \in BOOLEAN
        /\ got \in {"nothing", "stale", "fresh"}
    BY ConstantsAssumption DEF TypeOK, FlagsOK, ThreadsOK, CountersOK
  <2> USE DEF CaptureOrder, CallerRuns,
              handleVars, seqVars, callerVars, pollVars, appVars, xferVars
  <2>2. ASSUME UNCHANGED <<starts, running, callerVars, seqVars>>
        PROVE  CaptureOrder'
    BY <2>2
  <2>3. CASE uvc_stream_open_ctrl
    <3>1. ~CallerRuns
      BY <2>3 DEF uvc_stream_open_ctrl, CallerStages
    <3>2. QED
      BY <2>3, <3>1 DEF uvc_stream_open_ctrl
  <2>4. ASSUME NEW cb \in BOOLEAN, uvc_stream_start(cb)
        PROVE  CaptureOrder'
    <3>1. /\ starts' = starts + 1 /\ seq' = 0 /\ fresh' = FALSE
          /\ hold_seq' = hold_seq /\ ~CallerRuns
          /\ IF cb THEN caller' = "check" /\ last_seq' = 0 /\ got' = "nothing"
                   ELSE caller' = caller
      BY <2>4 DEF uvc_stream_start, CanStart, CallerStages
    <3>2. CallerRuns' => last_seq' = 0 /\ got' = "nothing"
      BY <3>1
    <3>3. QED
      BY <2>1, <3>1, <3>2
  <2>5. CASE uvc_stream_start_fails
    <3>1. ~CallerRuns /\ ~running
      BY <2>5 DEF uvc_stream_start_fails, CanStart, CallerStages
    <3>2. /\ starts' = starts + 1 /\ seq' = 0 /\ fresh' = FALSE
          /\ UNCHANGED <<running, hold_seq, caller>>
      BY <2>5 DEF uvc_stream_start_fails
    <3>3. QED
      BY <2>1, <3>1, <3>2
  <2>6. ASSUME NEW close \in BOOLEAN, StopRequest(close)
        PROVE  CaptureOrder'
    BY <2>6 DEF StopRequest
  <2>7. CASE \/ uvc_stream_start_submit \/ uvc_stream_start_submit_fails
             \/ uvc_stream_stop_join \/ uvc_stream_stop_cancel
             \/ uvc_stream_stop_drain \/ uvc_stream_stop_timeout
             \/ uvc_stream_close
    BY <2>2, <2>7
       DEF uvc_stream_start_submit, uvc_stream_start_submit_fails,
           uvc_stream_stop_join, uvc_stream_stop_cancel,
           uvc_stream_stop_drain, uvc_stream_stop_timeout, uvc_stream_close
  <2>8. CASE uvc_user_caller
    <3>1. /\ caller = "check" /\ UNCHANGED <<starts, running, seqVars>>
          /\ \/ UNCHANGED <<last_seq, got>>
             \/ /\ last_seq' = hold_seq
                /\ got' = IF fresh THEN "fresh" ELSE "stale"
      BY <2>8 DEF uvc_user_caller, TakeFrame
    <3>2. CASE UNCHANGED <<last_seq, got>>
      BY <2>1, <3>1, <3>2
    <3>3. CASE /\ last_seq' = hold_seq
               /\ got' = IF fresh THEN "fresh" ELSE "stale"
      BY <2>1, <3>1, <3>3
    <3>4. QED
      BY <3>1, <3>2, <3>3
  <2>9. CASE user_cb_returns
    BY <2>9 DEF user_cb_returns
  <2>10. CASE PollerNext
    BY <2>2, <2>10
       DEF PollerNext, uvc_stream_get_frame, uvc_stream_get_frame_check,
           uvc_stream_get_frame_wake, uvc_stream_get_frame_timeout
  <2>11. CASE uvc_stream_callback_release
    <3>1. (running' => running) /\ UNCHANGED <<starts, callerVars, seqVars>>
      BY <2>11 DEF uvc_stream_callback_release
    <3>2. QED
      BY <3>1
  <2>12. CASE uvc_stream_callback_resubmit \/ uvc_stream_callback_submit_fails
    <3>1. /\ UNCHANGED <<starts, running, callerVars>>
          /\ \E complete \in BOOLEAN : SwapBuffers(complete)
      <4>1. (ev.status = "completed") \in BOOLEAN
        OBVIOUS
      <4>2. QED
        BY <2>12, <4>1
           DEF uvc_stream_callback_resubmit, uvc_stream_callback_submit_fails
    <3>2. running
      <4>1. ev.status \in Statuses
        BY <2>12 DEF TypeOK, TransfersOK, uvc_stream_callback_resubmit,
                     uvc_stream_callback_submit_fails
      <4>2. QED
        BY <2>12, <4>1
           DEF uvc_stream_callback_resubmit, uvc_stream_callback_submit_fails,
               Released, Statuses
    <3>3. CASE UNCHANGED seqVars
      BY <2>2, <3>1, <3>3
    <3>4. CASE hold_seq' = seq /\ seq' = seq + 1 /\ fresh' = TRUE
      BY <2>1, <3>1, <3>2, <3>4
    <3>5. QED
      BY <3>1, <3>3, <3>4 DEF SwapBuffers
  <2>13. ASSUME NEW i \in Slots, usb_report(i)
         PROVE  CaptureOrder'
    BY <2>2, <2>13 DEF usb_report
  <2>14. ASSUME NEW t \in Threads, spurious_wakeup(t)
         PROVE  CaptureOrder'
    BY <2>2, <2>14 DEF spurious_wakeup
  <2>15. CASE unplug
    BY <2>2, <2>15 DEF unplug
  <2>16. CASE UNCHANGED vars
    BY <2>2, <2>16 DEF vars
  <2> HIDE DEF CaptureOrder, CallerRuns,
               handleVars, seqVars, callerVars, pollVars, appVars, xferVars
  <2> QED
    BY <2>3, <2>4, <2>5, <2>6, <2>7, <2>8, <2>9, <2>10, <2>11, <2>12, <2>13,
       <2>14, <2>15, <2>16
       DEF Next, AppNext, CallerNext, CallbackNext, EnvNext, uvc_stream_stop,
           uvc_stream_close_stop
<1>3. QED
  BY <1>1, <1>2, TypeCorrect, CallerInvariant, PTL DEF Spec

\* Only the caller thread goes from waiting to delivering.
LEMMA DeliverStep ==
  ASSUME [Next]_vars, Delivers
  PROVE  uvc_user_caller
BY DEF Next, AppNext, CallerNext, PollerNext, CallbackNext, EnvNext, vars,
       Delivers, callerVars, uvc_stream_open_ctrl, uvc_stream_start,
       uvc_stream_start_fails, uvc_stream_start_submit,
       uvc_stream_start_submit_fails, uvc_stream_stop, uvc_stream_close_stop,
       StopRequest, uvc_stream_stop_join, uvc_stream_stop_cancel,
       uvc_stream_stop_drain, uvc_stream_stop_timeout, uvc_stream_close,
       user_cb_returns, uvc_stream_get_frame,
       uvc_stream_get_frame_check, uvc_stream_get_frame_wake,
       uvc_stream_get_frame_timeout, uvc_stream_callback_release,
       uvc_stream_callback_resubmit, uvc_stream_callback_submit_fails,
       usb_report, spurious_wakeup, unplug

\* With any number of transfers, frames and starts, and however the threads
\* interleave, the callback gets the frames of a start in the order of capture, each
\* at most once, and before them at most one that an earlier start has left.
THEOREM FramesInOrder == Spec => CapturesInOrder
<1>1. TypeOK /\ (plugged => CaptureOrder) /\ [Next]_vars
        => [plugged /\ Delivers =>
              IF fresh THEN got = "fresh" => last_seq' > last_seq
                       ELSE starts > 1 /\ got = "nothing"]_vars
  <2> SUFFICES ASSUME TypeOK, plugged, CaptureOrder, [Next]_vars, Delivers
               PROVE  IF fresh THEN got = "fresh" => last_seq' > last_seq
                               ELSE starts > 1 /\ got = "nothing"
    OBVIOUS
  <2>1. /\ hold_seq \in Nat /\ last_seq \in Nat /\ starts \in Nat
        /\ fresh \in BOOLEAN /\ got \in {"nothing", "stale", "fresh"}
    BY ConstantsAssumption DEF TypeOK, FlagsOK, ThreadsOK, CountersOK
  <2>2. last_seq # hold_seq /\ last_seq' = hold_seq /\ caller = "check"
    BY DeliverStep DEF uvc_user_caller, TakeFrame, Delivers, callerVars
  <2>3. /\ got = "nothing" => last_seq = 0
        /\ got = "stale" /\ ~fresh => last_seq = hold_seq
        /\ got = "fresh" => fresh /\ last_seq <= hold_seq
        /\ starts <= 1 /\ ~fresh => hold_seq = 0
    BY <2>2 DEF CaptureOrder, CallerRuns
  <2>4. CASE fresh
    BY <2>1, <2>2, <2>3, <2>4
  <2>5. CASE ~fresh
    <3>1. got = "nothing"
      BY <2>1, <2>2, <2>3, <2>5
    <3>2. starts > 1
      BY <2>1, <2>2, <2>3, <2>5, <3>1
    <3>3. QED
      BY <2>5, <3>1, <3>2
  <2>6. QED
    BY <2>4, <2>5
<1>2. QED
  BY <1>1, TypeCorrect, OrderInvariant, PTL
     DEF Spec, CapturesInOrder

=============================================================================
