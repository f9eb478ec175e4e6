----------------------------- MODULE UvcStream ------------------------------
(***************************************************************************)
(* The streaming engine of libuvc (libuvc/src/stream.c): one stream handle *)
(* and the threads that share it.                                          *)
(*                                                                         *)
(*   app     the application thread that opens, starts, stops, closes      *)
(*   poller  an application thread in uvc_stream_get_frame                 *)
(*   caller  the thread _uvc_user_caller that runs the frame callback      *)
(*   ev      the libusb event thread, in _uvc_stream_callback              *)
(*                                                                         *)
(* Every critical section of cb_mutex is one action, cut where the thread  *)
(* blocks on cb_cond: waiters is the set of threads blocked there, and a   *)
(* broadcast empties it.  What the code does outside the mutex (the whole  *)
(* of uvc_stream_start, the early tests of running, the user callback) is  *)
(* an action of its own and interleaves with the rest.  How payloads       *)
(* become frames is the subject of UvcPayload; here a completed transfer   *)
(* either completes a frame or does not.                                   *)
(*                                                                         *)
(* A definition named X_Y is the definition X with a slip Y in it: the     *)
(* properties are tried on those too.  Next does not use them.             *)
(***************************************************************************)
EXTENDS Naturals

CONSTANTS
  NumTransferBufs,  \* LIBUVC_NUM_TRANSFER_BUFS
  MaxSeq,           \* bound: frames published between two starts
  MayUnplug,        \* the device may be disconnected
  SlowCancel,       \* libusb may take more than 5 s to give a transfer back
  MaxStarts,        \* bound: starts of one handle
  PollModes         \* kinds of timeout the poller uses

ASSUME ConstantsAssumption ==
  /\ NumTransferBufs \in Nat \ {0}
  /\ MaxSeq \in Nat
  /\ MaxStarts \in Nat
  /\ MayUnplug \in BOOLEAN /\ SlowCancel \in BOOLEAN
  /\ PollModes \subseteq {"now", "timed", "forever"}

VARIABLES
  handle,           \* the uvc_stream_handle_t: allocated or freed
  running, user_cb, transfers, transfer_flags,
  seq, hold_seq, last_polled_seq,
  fresh,            \* history: holdbuf was filled since the last start
  starts,           \* history: starts of this handle since it was opened
  usb, ev,          \* libusb: what it has in flight, and the callback it is in
  plugged,
  caller, last_seq,
  got,              \* history: what the callback last got, since its start
  app, next,        \* where app is, and the transfer it submits next
  closing,          \* the stop in progress is that of uvc_stream_close
  poller, timeout,  \* where poller is, and the timeout it asked for
  waiters

handleVars == <<handle, starts, plugged>>
seqVars    == <<seq, hold_seq, fresh>>
callerVars == <<caller, last_seq, got>>
pollVars   == <<poller, timeout, last_polled_seq>>
appVars    == <<app, next, closing>>
xferVars   == <<transfers, transfer_flags, usb, ev>>

vars == <<handleVars, running, user_cb, xferVars, seqVars, callerVars,
          appVars, pollVars, waiters>>

Slots    == 1..NumTransferBufs
Threads  == {"app", "poller", "caller"}
Statuses == {"completed", "retry", "failed", "cancelled", "nodevice"}
NoEvent  == [xfer |-> 0, status |-> "none"]

\* The stages of uvc_stream_start, uvc_stream_stop and uvc_stream_close.
AppStages == {"idle", "submit", "join", "cancel", "drain", "closing"}

FlagsOK ==
  /\ running \in BOOLEAN /\ user_cb \in BOOLEAN /\ fresh \in BOOLEAN
  /\ plugged \in BOOLEAN /\ closing \in BOOLEAN

ThreadsOK ==
  /\ handle \in {"closed", "open"}
  /\ caller \in {"none", "check", "deliver", "done"}
  /\ got \in {"nothing", "stale", "fresh"}
  /\ app \in AppStages
  /\ poller \in {"idle", "entered", "waiting"}
  /\ timeout \in {"now", "timed", "forever"}
  /\ waiters \subseteq Threads

CountersOK ==
  /\ starts \in 0..MaxStarts
  /\ seq \in 0..MaxSeq /\ hold_seq \in 0..MaxSeq
  /\ last_seq \in 0..MaxSeq /\ last_polled_seq \in 0..MaxSeq
  /\ next \in 1..NumTransferBufs + 1
  /\ app = "submit" => next \in Slots

TransfersOK ==
  /\ transfers \in [Slots -> {"NULL", "allocated"}]
  /\ transfer_flags \in [Slots -> BOOLEAN]
  /\ usb \in [Slots -> {"idle", "flight", "cancelling"}]
  /\ ev \in [xfer : Slots, status : Statuses] \cup {NoEvent}

TypeOK == FlagsOK /\ ThreadsOK /\ CountersOK /\ TransfersOK

(***************************************************************************)
(* Shared pieces.                                                          *)
(***************************************************************************)

\* A transfer that libusb still owns: in flight, or in the callback.
Owned(i) == usb[i] # "idle" \/ ev.xfer = i

\* The transfers uvc_stream_stop waits for.
Unreleased(flags) ==
  {i \in Slots : transfers[i] = "allocated" /\ ~flags[i]}

\* pthread_cond_broadcast(&cb_cond)
Broadcast == waiters' = {}

\* _uvc_swap_buffers, but for its broadcast (Notify), or no complete frame.
SwapBuffers(complete) ==
  IF complete
  THEN /\ seq < MaxSeq
       /\ hold_seq' = seq
       /\ seq' = seq + 1
       /\ fresh' = TRUE
  ELSE UNCHANGED seqVars

Notify_Never(complete) == UNCHANGED waiters

Notify(complete) == IF complete THEN Broadcast ELSE UNCHANGED waiters

(***************************************************************************)
(* The application thread: open, start.                                    *)
(***************************************************************************)

uvc_stream_open_ctrl ==
  /\ app = "idle" /\ handle = "closed"
  /\ handle' = "open"
  /\ running' = FALSE
  /\ user_cb' = FALSE
  /\ starts' = 0
  /\ transfers' = [i \in Slots |-> "NULL"]
  /\ transfer_flags' = [i \in Slots |-> FALSE]
  /\ seq' = 0 /\ hold_seq' = 0 /\ last_polled_seq' = 0 /\ fresh' = FALSE
  /\ UNCHANGED <<plugged, usb, ev, callerVars, appVars, poller, timeout,
                 waiters>>

\* A handle whose device is gone is not started again here: nothing is promised
\* for it, and the table of transfers holds one generation only.
CanStart ==
  /\ plugged
  /\ app = "idle" /\ handle = "open" /\ ~running
  /\ starts < MaxStarts

\* Up to the submit loop; with a frame callback its thread now exists.
uvc_stream_start(cb) ==
  /\ CanStart
  /\ running' = TRUE
  /\ starts' = starts + 1
  /\ seq' = 0 /\ fresh' = FALSE
  /\ transfers' = [i \in Slots |-> "allocated"]
  /\ transfer_flags' = [i \in Slots |-> FALSE]
  /\ user_cb' = cb
  /\ IF cb THEN caller' = "check" /\ last_seq' = 0 /\ got' = "nothing"
           ELSE UNCHANGED callerVars
  /\ app' = "submit" /\ next' = 1
  /\ UNCHANGED <<handle, plugged, usb, ev, hold_seq, closing, pollVars, waiters>>

\* A start that fails in the descriptors or the alternate setting leaves the
\* transfers alone; one that cannot create the thread has allocated them.
uvc_stream_start_fails ==
  /\ CanStart
  /\ starts' = starts + 1
  /\ seq' = 0 /\ fresh' = FALSE
  /\ \/ UNCHANGED <<transfers, transfer_flags, user_cb>>
     \/ /\ transfers' = [i \in Slots |-> "allocated"]
        /\ transfer_flags' = [i \in Slots |-> FALSE]
        /\ user_cb' = FALSE
  /\ UNCHANGED <<handle, plugged, running, usb, ev, hold_seq, callerVars,
                 appVars, pollVars, waiters>>

LastSubmitted_PastEnd == next > NumTransferBufs

LastSubmitted == next = NumTransferBufs

uvc_stream_start_submit ==
  /\ app = "submit" /\ plugged
  /\ usb' = [usb EXCEPT ![next] = "flight"]
  /\ next' = next + 1
  /\ app' = IF LastSubmitted THEN "idle" ELSE "submit"
  /\ UNCHANGED <<handleVars, running, user_cb, transfers, transfer_flags, ev,
                 seqVars, callerVars, closing, pollVars, waiters>>

\* The slots of the transfers that were not submitted, once those are freed.
FreeUnsubmitted_KeepSlots == transfers

FreeUnsubmitted ==
  IF next > 1 THEN [i \in Slots |-> IF i < next THEN transfers[i] ELSE "NULL"]
              ELSE transfers

\* The first submission that fails ends the loop.  Unless it was the first of
\* all, the rest is freed and the start succeeds.
uvc_stream_start_submit_fails ==
  /\ app = "submit"
  /\ transfers' = FreeUnsubmitted
  /\ app' = "idle"
  /\ UNCHANGED <<handleVars, running, user_cb, transfer_flags, usb, ev, seqVars,
                 callerVars, next, closing, pollVars, waiters>>

(***************************************************************************)
(* The application thread: stop, close.                                    *)
(***************************************************************************)

WakeAll_Forgotten == UNCHANGED waiters

WakeAll == Broadcast

\* Clear running under the mutex, wake everyone, then go and join the caller.
StopRequest(close) ==
  /\ app = "idle" /\ handle = "open" /\ running
  /\ running' = FALSE
  /\ WakeAll
  /\ closing' = close
  /\ app' = IF user_cb THEN "join" ELSE "cancel"
  /\ UNCHANGED <<handleVars, user_cb, xferVars, seqVars, callerVars, next,
                 pollVars>>

uvc_stream_stop == StopRequest(FALSE)

\* pthread_join(cb_thread)
CallerJoined_NotAwaited == TRUE

CallerJoined == caller = "done"

uvc_stream_stop_join ==
  /\ app = "join" /\ CallerJoined
  /\ user_cb' = FALSE
  /\ app' = "cancel"
  /\ UNCHANGED <<handleVars, running, xferVars, seqVars, callerVars, next,
                 closing, pollVars, waiters>>

\* Free every transfer still in the table; the stop is over.
FreeTransfers ==
  /\ transfers' = [i \in Slots |-> "NULL"]
  /\ app' = IF closing THEN "closing" ELSE "idle"
  /\ waiters' = waiters \ {"app"}

WaitForTransfers ==
  /\ app' = "drain"
  /\ waiters' = waiters \cup {"app"}
  /\ UNCHANGED transfers

\* One critical section: cancel what is not released, then wait for it.  On an
\* unplugged device libusb_cancel_transfer may fail for transfers in flight.
uvc_stream_stop_cancel ==
  /\ app = "cancel"
  /\ \E failed \in SUBSET {i \in Unreleased(transfer_flags) :
                             usb[i] # "idle" /\ ~plugged} :
       LET flags == [i \in Slots |-> transfer_flags[i] \/ i \in failed]
       IN /\ transfer_flags' = flags
          /\ usb' = [i \in Slots |->
                       IF i \in Unreleased(flags) /\ usb[i] = "flight"
                       THEN "cancelling" ELSE usb[i]]
          /\ IF Unreleased(flags) = {} THEN FreeTransfers ELSE WaitForTransfers
  /\ UNCHANGED <<handleVars, running, user_cb, ev, seqVars, callerVars, next,
                 closing, pollVars>>

AllReleased_NotChecked == TRUE

AllReleased == Unreleased(transfer_flags) = {}

uvc_stream_stop_drain ==
  /\ app = "drain" /\ "app" \notin waiters
  /\ IF AllReleased THEN FreeTransfers ELSE WaitForTransfers
  /\ UNCHANGED <<handleVars, running, user_cb, transfer_flags, usb, ev, seqVars,
                 callerVars, next, closing, pollVars>>

\* The 5 s are twice the timeout of a transfer: without SlowCancel they run out
\* only on transfers that libusb does not have.
uvc_stream_stop_timeout ==
  /\ app = "drain" /\ "app" \in waiters
  /\ SlowCancel \/ \A i \in Unreleased(transfer_flags) : ~Owned(i)
  /\ FreeTransfers
  /\ UNCHANGED <<handleVars, running, user_cb, transfer_flags, usb, ev, seqVars,
                 callerVars, next, closing, pollVars>>

\* An application joins its polling thread before it closes the handle.
PollerOut == poller = "idle"

\* uvc_stream_close stops the stream if it is running ...
uvc_stream_close_stop == PollerOut /\ StopRequest(TRUE)

StreamStopped_Assumed == app \in {"closing", "idle"}

StreamStopped ==
  \/ app = "closing"
  \/ app = "idle" /\ ~running

\* ... and frees the handle.
uvc_stream_close ==
  /\ handle = "open"
  /\ StreamStopped
  /\ PollerOut
  /\ handle' = "closed"
  /\ app' = "idle"
  /\ closing' = FALSE
  /\ UNCHANGED <<starts, plugged, running, user_cb, xferVars, seqVars,
                 callerVars, next, pollVars, waiters>>

(***************************************************************************)
(* The frame callback thread.                                              *)
(***************************************************************************)

TakeFrame_KeepSeq ==
  /\ caller' = "deliver"
  /\ got' = IF fresh THEN "fresh" ELSE "stale"
  /\ UNCHANGED last_seq

\* got is of the start in which the frame was captured: this one or an earlier.
TakeFrame ==
  /\ caller' = "deliver"
  /\ got' = IF fresh THEN "fresh" ELSE "stale"
  /\ last_seq' = hold_seq

\* One pass of the loop of _uvc_user_caller under the mutex.
uvc_user_caller ==
  /\ caller = "check" /\ "caller" \notin waiters
  /\ \/ /\ running /\ last_seq = hold_seq
        /\ waiters' = waiters \cup {"caller"}
        /\ UNCHANGED callerVars
     \/ /\ ~running
        /\ caller' = "done"
        /\ UNCHANGED <<last_seq, got, waiters>>
     \/ /\ running /\ last_seq # hold_seq
        /\ TakeFrame
        /\ UNCHANGED waiters
  /\ UNCHANGED <<handleVars, running, user_cb, xferVars, seqVars, appVars,
                 pollVars>>

\* The application's callback returns.
user_cb_returns ==
  /\ caller = "deliver"
  /\ caller' = "check"
  /\ UNCHANGED <<handleVars, running, user_cb, xferVars, seqVars, last_seq, got,
                 appVars, pollVars, waiters>>

(***************************************************************************)
(* The polling thread.                                                     *)
(***************************************************************************)

\* The tests of running and user_cb, made before the mutex is taken.
uvc_stream_get_frame(mode) ==
  /\ poller = "idle" /\ handle = "open" /\ running /\ ~user_cb
  /\ poller' = "entered"
  /\ timeout' = mode
  /\ UNCHANGED <<handleVars, running, user_cb, xferVars, seqVars, callerVars,
                 appVars, last_polled_seq, waiters>>

NewFrame == last_polled_seq < hold_seq

\* The call is over: its argument has the value it has at first.
PollReturns == poller' = "idle" /\ timeout' = "now"

\* The answer, with a frame if there is one newer than the last one polled.
PollAnswer ==
  /\ PollReturns
  /\ last_polled_seq' = IF NewFrame THEN hold_seq ELSE last_polled_seq

\* The critical section up to the wait, if there is one: neither the test of
\* running nor that of a new frame is repeated in a loop.
uvc_stream_get_frame_check ==
  /\ poller = "entered"
  /\ IF NewFrame \/ timeout = "now"
     THEN PollAnswer /\ UNCHANGED waiters
     ELSE /\ poller' = "waiting"
          /\ waiters' = waiters \cup {"poller"}
          /\ UNCHANGED <<timeout, last_polled_seq>>
  /\ UNCHANGED <<handleVars, running, user_cb, xferVars, seqVars, callerVars,
                 appVars>>

uvc_stream_get_frame_wake ==
  /\ poller = "waiting" /\ "poller" \notin waiters
  /\ PollAnswer
  /\ UNCHANGED <<handleVars, running, user_cb, xferVars, seqVars, callerVars,
                 appVars, waiters>>

uvc_stream_get_frame_timeout ==
  /\ poller = "waiting" /\ timeout = "timed" /\ "poller" \in waiters
  /\ PollReturns
  /\ waiters' = waiters \ {"poller"}
  /\ UNCHANGED <<handleVars, running, user_cb, xferVars, seqVars, callerVars,
                 appVars, last_polled_seq>>

(***************************************************************************)
(* libusb and its event thread.                                            *)
(***************************************************************************)

\* What libusb can report of transfer i.  "retry" stands for the statuses
\* TIMED_OUT, STALL and OVERFLOW, "failed" for ERROR.
Reports(i) ==
  IF ~plugged THEN {"nodevice", "failed"}
  ELSE {"completed", "retry", "failed"}
         \cup (IF usb[i] = "cancelling" THEN {"cancelled"} ELSE {})

\* libusb takes transfer i out of its list and calls _uvc_stream_callback,
\* which has yet to take the mutex.
usb_report(i) ==
  /\ ev = NoEvent /\ usb[i] # "idle"
  /\ \E status \in Reports(i) : ev' = [xfer |-> i, status |-> status]
  /\ usb' = [usb EXCEPT ![i] = "idle"]
  /\ UNCHANGED <<handleVars, running, user_cb, transfers, transfer_flags,
                 seqVars, callerVars, appVars, pollVars, waiters>>

\* The transfers the callback does not submit again.
Released ==
  \/ ev.status \in {"nodevice", "failed", "cancelled"}
  \/ ev.status \in {"completed", "retry"} /\ ~running

\* release_transfer: mark the slot that still holds this transfer.
ReleaseTransfer ==
  /\ transfer_flags' = [transfer_flags EXCEPT ![ev.xfer] =
                          @ \/ transfers[ev.xfer] = "allocated"]
  /\ UNCHANGED usb

uvc_stream_callback_release ==
  /\ ev # NoEvent /\ Released
  /\ running' = (running /\ ev.status # "nodevice")
  /\ ReleaseTransfer
  /\ Broadcast
  /\ ev' = NoEvent
  /\ UNCHANGED <<handleVars, user_cb, transfers, seqVars, callerVars, appVars,
                 pollVars>>

uvc_stream_callback_resubmit ==
  /\ ev # NoEvent /\ ~Released /\ plugged
  /\ \E complete \in {FALSE, ev.status = "completed"} :
       /\ SwapBuffers(complete)
       /\ Notify(complete)
  /\ usb' = [usb EXCEPT ![ev.xfer] = "flight"]
  /\ ev' = NoEvent
  /\ UNCHANGED <<handleVars, running, user_cb, transfers, transfer_flags,
                 callerVars, appVars, pollVars>>

\* The payload is processed, then libusb_submit_transfer refuses.
uvc_stream_callback_submit_fails ==
  /\ ev # NoEvent /\ ~Released
  /\ \E complete \in {FALSE, ev.status = "completed"} : SwapBuffers(complete)
  /\ Broadcast
  /\ ReleaseTransfer
  /\ ev' = NoEvent
  /\ UNCHANGED <<handleVars, running, user_cb, transfers, callerVars, appVars,
                 pollVars>>

\* POSIX allows pthread_cond_wait to return without a broadcast.
spurious_wakeup(t) ==
  /\ t \in waiters
  /\ waiters' = waiters \ {t}
  /\ UNCHANGED <<handleVars, running, user_cb, xferVars, seqVars, callerVars,
                 appVars, pollVars>>

unplug ==
  /\ MayUnplug /\ plugged
  /\ plugged' = FALSE
  /\ UNCHANGED <<handle, starts, running, user_cb, xferVars, seqVars,
                 callerVars, appVars, pollVars, waiters>>

-----------------------------------------------------------------------------
Init ==
  /\ handle = "closed" /\ starts = 0 /\ plugged = TRUE
  /\ running = FALSE /\ user_cb = FALSE
  /\ transfers = [i \in Slots |-> "NULL"]
  /\ transfer_flags = [i \in Slots |-> FALSE]
  /\ usb = [i \in Slots |-> "idle"] /\ ev = NoEvent
  /\ seq = 0 /\ hold_seq = 0 /\ last_polled_seq = 0 /\ fresh = FALSE
  /\ caller = "none" /\ last_seq = 0 /\ got = "nothing"
  /\ app = "idle" /\ next = 1 /\ closing = FALSE
  /\ poller = "idle" /\ timeout = "now"
  /\ waiters = {}

AppNext ==
  \/ uvc_stream_open_ctrl
  \/ \E cb \in BOOLEAN : uvc_stream_start(cb)
  \/ uvc_stream_start_fails
  \/ uvc_stream_start_submit
  \/ uvc_stream_start_submit_fails
  \/ uvc_stream_stop
  \/ uvc_stream_stop_join
  \/ uvc_stream_stop_cancel
  \/ uvc_stream_stop_drain
  \/ uvc_stream_stop_timeout
  \/ uvc_stream_close_stop
  \/ uvc_stream_close

CallerNext == uvc_user_caller \/ user_cb_returns

PollerNext ==
  \/ \E mode \in PollModes : uvc_stream_get_frame(mode)
  \/ uvc_stream_get_frame_check
  \/ uvc_stream_get_frame_wake
  \/ uvc_stream_get_frame_timeout

CallbackNext ==
  \/ uvc_stream_callback_release
  \/ uvc_stream_callback_resubmit
  \/ uvc_stream_callback_submit_fails

EnvNext ==
  \/ \E i \in Slots : usb_report(i)
  \/ \E t \in Threads : spurious_wakeup(t)
  \/ unplug

Next == AppNext \/ CallerNext \/ PollerNext \/ CallbackNext \/ EnvNext

Spec == Init /\ [][Next]_vars

\* Threads keep running, the application's callback returns, and libusb gives
\* back what it was asked to cancel.  The deadline of a stop is absolute, so
\* waking early does not put it off for ever.  Nothing obliges the application
\* to call, or the device to send.
Fairness ==
  /\ WF_vars(uvc_stream_stop_join)
  /\ WF_vars(uvc_stream_stop_cancel)
  /\ WF_vars(uvc_stream_stop_drain)
  /\ SF_vars(uvc_stream_stop_timeout)
  /\ WF_vars(closing /\ uvc_stream_close)
  /\ WF_vars(uvc_stream_start_submit \/ uvc_stream_start_submit_fails)
  /\ WF_vars(CallerNext)
  /\ WF_vars(CallbackNext)
  /\ WF_vars(\E i \in Slots : usb[i] = "cancelling" /\ usb_report(i))
  /\ WF_vars(uvc_stream_get_frame_check)
  /\ WF_vars(uvc_stream_get_frame_wake)
  /\ WF_vars(uvc_stream_get_frame_timeout)

FairSpec == Spec /\ Fairness

(***************************************************************************)
(* What the engine must guarantee.  A disconnected device ends all of it   *)
(* but TypeOK and termination: see CloseEndsCaller.                        *)
(***************************************************************************)

CallerRuns == caller \in {"check", "deliver"}

\* uvc_stream_close frees the handle, its buffers, mutex and condition: by then
\* no transfer may be left that would call back with it, and its thread is gone.
HandleUnused == (\A i \in Slots : ~Owned(i)) /\ ~CallerRuns

NoDanglingUse == plugged /\ handle = "closed" => HandleUnused

\* uvc_stream_stop, and the failed part of uvc_stream_start, free no transfer
\* that libusb has; and the release mark of a transfer is never early.
NoFreeInFlight ==
  plugged => \A i \in Slots :
               Owned(i) => transfers[i] = "allocated" /\ ~transfer_flags[i]

\* The 5 s of uvc_stream_stop run out on one occasion only, a start whose first
\* submission failed: no transfer of a stream that ran is ever lost track of.
StopNeedsNoTimeout ==
  plugged /\ app = "drain" =>
    \/ \A i \in Unreleased(transfer_flags) : Owned(i)
    \/ Unreleased(transfer_flags) = Slots /\ \A i \in Slots : ~Owned(i)

Delivers == caller = "check" /\ caller' = "deliver"

\* The callback gets the frames of a start in the order of their capture, none of
\* them twice, however many it misses.  Before these it may get one frame, once,
\* that an earlier start of the handle has left in holdbuf: hold_seq outlives a
\* stop, and the caller thread compares its new last_seq with it.
CapturesInOrder ==
  [][plugged /\ Delivers =>
       IF fresh THEN got = "fresh" => last_seq' > last_seq
                ELSE starts > 1 /\ got = "nothing"]_vars

\* A frame whose number is not last_seq wakes the caller thread: it is delivered,
\* or replaced by a later one that is, unless the stream is stopped.  A frame
\* that has the number of last_seq is not seen.  That is number 0 of a start,
\* since last_seq starts as 0, and after a frame of an earlier start the one with
\* the number of that: see FirstFrameReaches.
FrameReachesCaller ==
  (running /\ user_cb /\ last_seq # hold_seq)
    ~> (last_seq = hold_seq \/ ~running)

\* "Swap the working buffer with the presented buffer and notify consumers"
\* (stream.c:472), for all frames: once a frame of this start is presented, the
\* callback gets one, unless the stream is stopped.  Frame 0 is not enough.
FirstFrameReaches ==
  (running /\ user_cb /\ fresh) ~> (got = "fresh" \/ ~running)

\* uvc_stop_streaming "ends threads and cancels pollers" (stream.c:1291): a thread
\* in uvc_stream_get_frame leaves it when the stream is stopped.  One that
\* tested running before the stop and takes the mutex after its broadcast waits.
PollersCancelled ==
  (poller # "idle" /\ ~running) ~> (poller = "idle" \/ running)

\* uvc_stream_stop and uvc_stream_close return: the caller thread is woken and
\* ends, every transfer comes back or is given up.
StopReturns == (app \in {"join", "cancel", "drain", "closing"}) ~> (app = "idle")

\* uvc_stop_streaming "ends threads", also when the device was disconnected.
CloseEndsCaller == handle = "closed" => ~CallerRuns

\* The promise the command layer is built on.
Contract == INSTANCE StreamContract WITH
  phase <- IF ~plugged THEN "lost"
           ELSE IF handle = "closed" THEN "closed"
           ELSE IF app \in {"join", "cancel", "drain"} THEN "stopping"
           ELSE IF running THEN "streaming" ELSE "idle",
  inCallback <- caller = "deliver"

ImplementsContract == Contract!ContractSpec

=============================================================================
