------------------------------ MODULE UvcDevice -----------------------------
(***************************************************************************)
(* Contexts and devices of libuvc (libuvc/src/init.c, device.c): reference *)
(* counts, claimed interfaces, the status transfer, and the thread that    *)
(* handles the events of libusb while devices are open.                    *)
(*                                                                         *)
(* One thread of the application uses the context.  A stream is no more    *)
(* here than something whose transfers the handler thread has to give back *)
(* before it can be closed: the rest is in UvcStream.                      *)
(*                                                                         *)
(* A definition named X_Y is the definition X with a slip Y in it: the     *)
(* properties are tried on those too.  Next does not use them.             *)
(***************************************************************************)
EXTENDS Naturals

CONSTANTS
  Devs,        \* cameras
  NoDevice,    \* not a camera
  OwnContexts, \* whether uvc_init may get no USB context, may get one, or both
  FaultyDevs,  \* bound: the cameras whose interfaces may fail
  MaxHeld      \* bound: references an application holds to a camera

ASSUME DeviceAssumption ==
  NoDevice \notin Devs /\ OwnContexts \subseteq BOOLEAN /\ MaxHeld \in Nat

VARIABLES
  own_usb_ctx,          \* the context runs a handler thread
  kill_handler_thread,
  thread,               \* where the handler thread is
  app, devh,            \* what the application does, and to which camera
  ref, held,            \* the count of a uvc_device_t; what the application holds
  handle, open_devices, \* the uvc_device_handle_t of each camera
  status, stream,       \* their status transfers, if with libusb, and streams
  claimed, kernel,      \* interfaces: claimed by libuvc, with a kernel driver
  faults                \* history: what failed so far with each camera

threadVars == <<own_usb_ctx, kill_handler_thread, thread>>
appVars    == <<app, devh>>
refVars    == <<ref, held>>
ifVars     == <<claimed, kernel, faults>>
xferVars   == <<status, stream>>

vars == <<threadVars, appVars, refVars, handle, open_devices, xferVars, ifVars>>

Interfaces == {"control", "streaming"}

TypeOK ==
  /\ own_usb_ctx \in BOOLEAN /\ kill_handler_thread \in BOOLEAN
  /\ thread \in {"none", "test", "events", "callback", "exited"}
  /\ app \in {"idle", "submitted", "failed", "stop", "close_stop", "release",
              "kill", "close", "join", "free", "exited"}
  /\ devh \in Devs \cup {NoDevice} /\ open_devices \subseteq Devs
  /\ held \in [Devs -> 0..MaxHeld] /\ ref \in [Devs -> 0..MaxHeld + 1]
  /\ handle \in [Devs -> {"none", "opening", "open"}]
  /\ status \in [Devs -> {"none", "flying", "done"}]
  /\ stream \in [Devs -> {"none", "running", "stopping", "ended"}]
  /\ claimed \in [Devs -> SUBSET Interfaces] /\ kernel \in [Devs -> SUBSET Interfaces]
  /\ faults \in [Devs -> SUBSET {"usb", "start"}]

-----------------------------------------------------------------------------
(***************************************************************************)
(* Interfaces and references.                                              *)
(***************************************************************************)

Faulty(d, kind) == d \in FaultyDevs /\ faults' = [faults EXCEPT ![d] = @ \cup {kind}]

Claims_Unmarked(d, i) ==
  /\ kernel' = [kernel EXCEPT ![d] = @ \ {i}]
  /\ UNCHANGED <<claimed, faults>>

\* uvc_claim_if takes the interface from the kernel driver.
Claims(d, i) ==
  \/ i \in claimed[d] /\ UNCHANGED ifVars
  \/ /\ i \notin claimed[d]
     /\ kernel'  = [kernel EXCEPT ![d] = @ \ {i}]
     /\ claimed' = [claimed EXCEPT ![d] = @ \cup {i}]
     /\ UNCHANGED faults

\* It may fail when the driver is detached already, which is not undone.
ClaimFails(d, i) ==
  /\ i \notin claimed[d]
  /\ kernel' \in {kernel, [kernel EXCEPT ![d] = @ \ {i}]}
  /\ Faulty(d, "usb")
  /\ UNCHANGED claimed

\* uvc_release_if: an interface that is not claimed is left alone; libusb may
\* fail to release it, or the kernel driver to come back.
uvc_release_if(d, i) ==
  \/ i \notin claimed[d] /\ UNCHANGED ifVars
  \/ /\ i \in claimed[d]
     /\ \/ claimed' = [claimed EXCEPT ![d] = @ \ {i}]
           /\ kernel' = [kernel EXCEPT ![d] = @ \cup {i}]
           /\ UNCHANGED faults
        \/ /\ claimed' \in {claimed, [claimed EXCEPT ![d] = @ \ {i}]}
           /\ Faulty(d, "usb")
           /\ UNCHANGED kernel

\* libusb_close waits until no callback runs, makes the handler thread return
\* from libusb, and forgets the transfers and interfaces of the camera.
libusb_close(d) ==
  /\ thread # "callback"
  /\ thread' = IF thread = "events" THEN "test" ELSE thread
  /\ status' = [status EXCEPT ![d] = IF @ = "flying" THEN "none" ELSE @]

uvc_free_devh(d) ==
  /\ handle'  = [handle EXCEPT ![d] = "none"]
  /\ claimed' = [claimed EXCEPT ![d] = {}]

-----------------------------------------------------------------------------
(***************************************************************************)
(* The application.                                                        *)
(***************************************************************************)

Returns == app' = "idle" /\ devh' = NoDevice

\* uvc_find_device_bd returns a device that was listed, referenced, and taken off
\* the list again.
uvc_find_device_bd(d) ==
  /\ app = "idle" /\ ref[d] = 0 /\ MaxHeld > 0
  /\ ref'  = [ref EXCEPT ![d] = 1]
  /\ held' = [held EXCEPT ![d] = 1]
  /\ UNCHANGED <<threadVars, appVars, handle, open_devices, xferVars, ifVars>>

uvc_ref_device(d) ==
  /\ app = "idle" /\ ref[d] > 0 /\ held[d] < MaxHeld
  /\ ref'  = [ref EXCEPT ![d] = @ + 1]
  /\ held' = [held EXCEPT ![d] = @ + 1]
  /\ UNCHANGED <<threadVars, appVars, handle, open_devices, xferVars, ifVars>>

uvc_unref_device(d) ==
  /\ app = "idle" /\ held[d] > 0
  /\ ref'  = [ref EXCEPT ![d] = @ - 1]
  /\ held' = [held EXCEPT ![d] = @ - 1]
  /\ UNCHANGED <<threadVars, appVars, handle, open_devices, xferVars, ifVars>>

\* uvc_open up to the submission of the status transfer.
uvc_open(d) ==
  /\ app = "idle" /\ held[d] > 0 /\ handle[d] = "none"
  /\ devh' = d
  /\ ref' = [ref EXCEPT ![d] = @ + 1]
  /\ handle' = [handle EXCEPT ![d] = "opening"]
  /\ \/ \* uvc_get_device_info fails
        app' = "failed" /\ UNCHANGED <<ifVars, status>>
     \/ app' = "failed" /\ ClaimFails(d, "control") /\ UNCHANGED status
     \/ \* the transfer cannot be allocated or submitted
        app' = "failed" /\ Claims(d, "control") /\ UNCHANGED status
     \/ \* there is no status endpoint, or the transfer is submitted
        /\ app' = "submitted" /\ Claims(d, "control")
        /\ \E s \in {"none", "flying"} : status' = [status EXCEPT ![d] = s]
  /\ UNCHANGED <<threadVars, held, open_devices, stream>>

StartHandler_KillLeft ==
  thread' = "test" /\ UNCHANGED kill_handler_thread

StartHandler ==
  thread' = "test" /\ kill_handler_thread' = FALSE

\* The rest of uvc_open, with uvc_start_handler_thread.
uvc_open_append ==
  /\ app = "submitted" /\ Returns
  /\ \/ own_usb_ctx /\ open_devices = {} /\ StartHandler
     \/ ~(own_usb_ctx /\ open_devices = {}) /\ UNCHANGED <<thread, kill_handler_thread>>
  /\ open_devices' = open_devices \cup {devh}
  /\ handle' = [handle EXCEPT ![devh] = "open"]
  /\ UNCHANGED <<own_usb_ctx, refVars, xferVars, ifVars>>

uvc_open_fail_NoUnref ==
  /\ app = "failed" /\ Returns
  /\ libusb_close(devh)
  /\ handle' = [handle EXCEPT ![devh] = "none"]
  /\ UNCHANGED <<own_usb_ctx, kill_handler_thread, refVars, open_devices,
                 stream, ifVars>>

\* The label fail of uvc_open.
uvc_open_fail ==
  /\ app = "failed" /\ Returns
  /\ \/ "control" \notin claimed[devh] /\ UNCHANGED <<kernel, faults>>
     \/ /\ "control" \in claimed[devh]
        /\ \/ kernel' = [kernel EXCEPT ![devh] = @ \cup {"control"}] /\ UNCHANGED faults
           \/ Faulty(devh, "usb") /\ UNCHANGED kernel
  /\ libusb_close(devh)
  /\ ref' = [ref EXCEPT ![devh] = @ - 1]
  /\ uvc_free_devh(devh)
  /\ UNCHANGED <<own_usb_ctx, kill_handler_thread, held, open_devices, stream>>

\* uvc_start_streaming: a failure after the interface is claimed in
\* uvc_stream_open_ctrl leaves it claimed, one in uvc_stream_start does not.
uvc_start_streaming(d) ==
  /\ app = "idle" /\ handle[d] = "open" /\ stream[d] = "none"
  /\ \/ Claims(d, "streaming") /\ stream' = [stream EXCEPT ![d] = "running"]
     \/ ClaimFails(d, "streaming") /\ UNCHANGED stream
     \/ /\ claimed' = [claimed EXCEPT ![d] = @ \cup {"streaming"}]
        /\ kernel'  = [kernel EXCEPT ![d] = @ \ {"streaming"}]
        /\ Faulty(d, "start")
        /\ UNCHANGED stream
  /\ UNCHANGED <<threadVars, appVars, refVars, handle, open_devices, status>>

\* uvc_stop_streaming, on its own or in uvc_close, cancels the transfers and waits
\* for them.
Stops(d, at) ==
  /\ app = "idle" /\ handle[d] = "open"
  /\ app' = at /\ devh' = d
  /\ stream' = [stream EXCEPT ![d] = IF @ = "running" THEN "stopping" ELSE @]
  /\ UNCHANGED <<threadVars, refVars, handle, open_devices, status, ifVars>>

uvc_stop_streaming(d) == Stops(d, "stop")

uvc_close(d) == Stops(d, "close_stop")

\* The rest of uvc_stop_streaming, once the transfers are back.
uvc_stream_close ==
  /\ app \in {"stop", "close_stop"} /\ stream[devh] # "stopping"
  /\ \/ stream[devh] = "ended" /\ uvc_release_if(devh, "streaming")
     \/ stream[devh] = "none" /\ UNCHANGED ifVars
  /\ stream' = [stream EXCEPT ![devh] = "none"]
  /\ \/ app = "stop" /\ Returns
     \/ app = "close_stop" /\ app' = "release" /\ UNCHANGED devh
  /\ UNCHANGED <<threadVars, refVars, handle, open_devices, status>>

uvc_close_release ==
  /\ app = "release" /\ app' = "kill"
  /\ uvc_release_if(devh, "control")
  /\ UNCHANGED <<threadVars, devh, refVars, handle, open_devices, xferVars>>

LastOpen == own_usb_ctx /\ open_devices = {devh}

Killed_Never == kill_handler_thread

Killed == LastOpen \/ kill_handler_thread

uvc_close_kill ==
  /\ app = "kill" /\ app' = "close"
  /\ kill_handler_thread' = Killed
  /\ UNCHANGED <<own_usb_ctx, thread, devh, refVars, handle,
                 open_devices, xferVars, ifVars>>

uvc_close_usb_LastOnly ==
  /\ app = "close" /\ app' = IF LastOpen THEN "join" ELSE "free"
  /\ IF LastOpen THEN libusb_close(devh) ELSE UNCHANGED <<thread, status>>
  /\ UNCHANGED <<own_usb_ctx, kill_handler_thread, devh, refVars,
                 handle, open_devices, stream, ifVars>>

uvc_close_usb ==
  /\ app = "close" /\ app' = IF LastOpen THEN "join" ELSE "free"
  /\ libusb_close(devh)
  /\ UNCHANGED <<own_usb_ctx, kill_handler_thread, devh, refVars,
                 handle, open_devices, stream, ifVars>>

uvc_close_join ==
  /\ app = "join" /\ thread = "exited"
  /\ app' = "free" /\ thread' = "none"
  /\ UNCHANGED <<own_usb_ctx, kill_handler_thread, devh, refVars,
                 handle, open_devices, xferVars, ifVars>>

uvc_close_free ==
  /\ app = "free" /\ Returns
  /\ open_devices' = open_devices \ {devh}
  /\ ref' = [ref EXCEPT ![devh] = @ - 1]
  /\ uvc_free_devh(devh)
  /\ UNCHANGED <<threadVars, held, xferVars, kernel, faults>>

\* uvc_exit as tcluvc calls it: all devices are closed and given up.
uvc_exit ==
  /\ app = "idle" /\ open_devices = {} /\ \A d \in Devs : held[d] = 0
  /\ app' = "exited"
  /\ UNCHANGED <<threadVars, devh, refVars, handle, open_devices,
                 xferVars, ifVars>>

\* Without a USB context of its own, the application handles events.
NewContext(own) ==
  /\ own_usb_ctx' = own /\ kill_handler_thread' = FALSE
  /\ thread' = IF own THEN "none" ELSE "test"

uvc_init ==
  /\ app = "exited" /\ app' = "idle"
  /\ \E own \in OwnContexts : NewContext(own)
  /\ UNCHANGED <<devh, refVars, handle, open_devices, xferVars, ifVars>>

-----------------------------------------------------------------------------
(***************************************************************************)
(* The handler thread: _uvc_handle_events.                                 *)
(***************************************************************************)

handler_test ==
  /\ thread = "test"
  /\ thread' = IF kill_handler_thread THEN "exited" ELSE "events"
  /\ UNCHANGED <<own_usb_ctx, kill_handler_thread, appVars, refVars, handle,
                 open_devices, xferVars, ifVars>>

\* Something else happened, or libusb waited long enough.
handler_timeout ==
  /\ thread = "events" /\ thread' = "test"
  /\ UNCHANGED <<own_usb_ctx, kill_handler_thread, appVars, refVars, handle,
                 open_devices, xferVars, ifVars>>

handler_status(d) ==
  /\ thread = "events" /\ status[d] = "flying"
  /\ thread' = "callback"
  /\ status' = [status EXCEPT ![d] = "done"]
  /\ UNCHANGED <<own_usb_ctx, kill_handler_thread, appVars, refVars, handle,
                 open_devices, stream, ifVars>>

\* _uvc_status_callback submits the transfer again, unless it was cancelled or
\* the camera is gone.
uvc_status_callback(d) ==
  /\ thread = "callback" /\ status[d] = "done"
  /\ thread' = "test"
  /\ \E s \in {"flying", "none"} : status' = [status EXCEPT ![d] = s]
  /\ UNCHANGED <<own_usb_ctx, kill_handler_thread, appVars, refVars, handle,
                 open_devices, stream, ifVars>>

handler_stream(d) ==
  /\ thread = "events" /\ stream[d] = "stopping"
  /\ thread' = "test"
  /\ stream' = [stream EXCEPT ![d] = "ended"]
  /\ UNCHANGED <<own_usb_ctx, kill_handler_thread, appVars, refVars, handle,
                 open_devices, status, ifVars>>

-----------------------------------------------------------------------------
Init ==
  /\ \E own \in OwnContexts :
       own_usb_ctx = own /\ thread = IF own THEN "none" ELSE "test"
  /\ kill_handler_thread = FALSE
  /\ app = "idle" /\ devh = NoDevice
  /\ ref = [d \in Devs |-> 0] /\ held = [d \in Devs |-> 0]
  /\ handle = [d \in Devs |-> "none"] /\ open_devices = {}
  /\ status = [d \in Devs |-> "none"] /\ stream = [d \in Devs |-> "none"]
  /\ claimed = [d \in Devs |-> {}] /\ kernel = [d \in Devs |-> Interfaces]
  /\ faults = [d \in Devs |-> {}]

Opens  == \/ uvc_open_append \/ uvc_open_fail

Closes == \/ uvc_stream_close \/ uvc_close_release \/ uvc_close_kill
          \/ uvc_close_usb \/ uvc_close_join \/ uvc_close_free

Commands(d) ==
  \/ uvc_find_device_bd(d) \/ uvc_ref_device(d) \/ uvc_unref_device(d)
  \/ uvc_open(d) \/ uvc_start_streaming(d) \/ uvc_stop_streaming(d) \/ uvc_close(d)

Handler(d) == handler_status(d) \/ uvc_status_callback(d) \/ handler_stream(d)

Next ==
  \/ Opens \/ Closes \/ uvc_exit \/ uvc_init
  \/ handler_test \/ handler_timeout
  \/ \E d \in Devs : Commands(d) \/ Handler(d)

\* The threads go on; libusb gives back cancelled transfers at some time, though
\* there may always be another event first; and libusb_close, which has other
\* threads leave libusb, gets its turn.
Fairness ==
  /\ WF_vars(Opens) /\ WF_vars(Closes) /\ SF_vars(uvc_close_usb)
  /\ WF_vars(handler_test) /\ WF_vars(handler_timeout)
  /\ \A d \in Devs : WF_vars(uvc_status_callback(d)) /\ SF_vars(handler_stream(d))

Spec == Init /\ [][Next]_vars /\ Fairness

-----------------------------------------------------------------------------
\* The count of a device (uvc_ref_device, uvc_unref_device) is that of its owners,
\* also when uvc_open fails half way: it is freed after the last, and not before.
RefsExact ==
  \A d \in Devs :
    ref[d] = held[d] + (IF handle[d] = "none" THEN 0 ELSE 1)

\* While a device is open, and until uvc_close comes to the last one, there is a
\* handler thread and it was not told to end: events are handled while
\* uvc_close waits for the transfers of a stream, and after a new uvc_open.
HandlerServes ==
  own_usb_ctx /\ open_devices # {}
    /\ ~(app \in {"close", "join", "free"} /\ open_devices = {devh})
    => thread \in {"test", "events", "callback"} /\ ~kill_handler_thread

\* Without open devices there is no handler thread: uvc_close joined it, so that
\* uvc_exit frees a context nobody uses, and uvc_open starts no second one.
NoHandlerLeft ==
  own_usb_ctx /\ open_devices = {} => thread = "none"

\* The handler thread comes and goes with the open devices, whatever the order
\* in which the context is used and used again.
HandlerWhileOpen == HandlerServes /\ NoHandlerLeft

\* libusb has no transfer of a handle that is freed, and _uvc_status_callback
\* is not at work on one.
StatusQuiet ==
  \A d \in Devs : status[d] \in {"flying", "done"} => handle[d] # "none"

\* A camera that is closed is back with the kernel driver, unless libusb or the
\* start of a stream failed.
DriversBack ==
  \A d \in Devs : handle[d] = "none" /\ faults[d] = {} => kernel[d] = Interfaces

\* device.c:1015 of uvc_release_if: "Reattach any kernel drivers that were disabled
\* when we claimed this interface".  A camera that is closed is back with the
\* kernel driver, unless libusb failed to claim or release an interface.
DriversReattached ==
  \A d \in Devs : handle[d] = "none" /\ "usb" \notin faults[d] => kernel[d] = Interfaces

\* uvc_close and uvc_stop_streaming return.
CloseReturns == (app \in {"stop", "close_stop"}) ~> (app = "idle")

=============================================================================
