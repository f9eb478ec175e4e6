--------------------------- MODULE UvcDevice_proofs ---------------------------
(***************************************************************************)
(* Proofs about module UvcDevice, for any set of cameras, any number of    *)
(* references and any interfaces that fail.                                *)
(*                                                                         *)
(* The invariant says where each operation leaves the handle it works on   *)
(* (Where), what the handler thread may be doing meanwhile (Thread), which *)
(* status transfers may be out (Transfers) and, for cameras without        *)
(* failures, who drives an interface (Drivers).  None of them is inductive *)
(* without Where; Thread and Transfers need each other, since a transfer   *)
(* is only safe from uvc_close while the thread is in no callback.         *)
(***************************************************************************)
EXTENDS UvcDevice, TLAPS

OnOpen == {"stop", "close_stop", "release", "kill", "close", "join", "free"}

\* Every step of an operation is about one handle, open but in uvc_open.
Where ==
  /\ app \in {"idle", "exited"} <=> devh = NoDevice
  /\ \A d \in Devs :
       handle[d] = "opening" <=> app \in {"submitted", "failed"} /\ devh = d
  /\ \A d \in Devs : handle[d] = "open" <=> d \in open_devices
  /\ app \in OnOpen => handle[devh] = "open"
  /\ app = "exited" => open_devices = {}

\* The thread is told to end while the last device closes, and joined before the
\* device is gone.
Thread ==
  /\ kill_handler_thread =>
       /\ own_usb_ctx
       /\ \/ open_devices = {}
          \/ app \in {"close", "join", "free"} /\ open_devices = {devh}
  /\ app = "join" => LastOpen
  /\ thread = "exited" => kill_handler_thread
  /\ ~own_usb_ctx => thread \in {"test", "events", "callback"}
  /\ own_usb_ctx /\ open_devices = {} => thread = "none"
  /\ own_usb_ctx /\ open_devices # {} =>
       (thread = "none" <=> app = "free" /\ open_devices = {devh})

\* One status transfer at most is being called back, and libusb_close leaves none.
Transfers ==
  /\ \A d \in Devs : status[d] = "done" => thread = "callback"
  /\ \A d, e \in Devs : status[d] = "done" /\ status[e] = "done" => d = e
  /\ app \in {"join", "free"} => status[devh] = "none"

\* A stream belongs to an open handle, and is gone when uvc_close goes on.
Streams ==
  /\ \A d \in Devs : stream[d] # "none" => handle[d] = "open"
  /\ app \in {"release", "kill", "close", "join", "free"} =>
       stream[devh] = "none"

\* An interface is claimed or with the kernel driver; it is claimed for as long as
\* it is used.
Driven(d) ==
  /\ kernel[d] = Interfaces \ claimed[d]
  /\ stream[d] = "none" => "streaming" \notin claimed[d]
  /\ app \in {"kill", "close", "join", "free"} /\ devh = d =>
       "control" \notin claimed[d]
  /\ handle[d] = "none" => claimed[d] = {}

Drivers == \A d \in Devs : faults[d] = {} => Driven(d)

Inv == TypeOK /\ Where /\ RefsExact /\ Thread /\ StatusQuiet /\ Transfers

DriverInv == Streams /\ Drivers

-----------------------------------------------------------------------------
\* What failed with a camera is remembered.
LEMMA FaultyMarks ==
  ASSUME TypeOK, NEW d \in Devs, NEW kind, Faulty(d, kind)
  PROVE  kind \in faults'[d]
  BY DEF TypeOK, Faulty

\* Every action keeps the variables in their ranges; the counts stay in theirs
\* because an open handle accounts for the one reference above held.
LEMMA TypeStep == Inv /\ [Next]_vars => TypeOK'
<1> SUFFICES ASSUME Inv, [Next]_vars PROVE TypeOK'
  OBVIOUS
<1> USE DEF Inv, threadVars, appVars, refVars, ifVars, xferVars
<1>1. CASE uvc_open_append
  BY <1>1 DEF uvc_open_append, Returns, StartHandler, TypeOK, Where
<1>2. CASE uvc_open_fail
  BY <1>2, DeviceAssumption
     DEF uvc_open_fail, Returns, libusb_close, uvc_free_devh, Faulty,
         TypeOK, RefsExact, Where
<1>3. CASE uvc_stream_close
  BY <1>3
     DEF uvc_stream_close, Returns, uvc_release_if, Faulty, TypeOK, Where
<1>4. CASE uvc_close_release
  BY <1>4 DEF uvc_close_release, uvc_release_if, Faulty, TypeOK
<1>5. CASE uvc_close_kill
  BY <1>5 DEF uvc_close_kill, Killed, TypeOK
<1>6. CASE uvc_close_usb
  BY <1>6 DEF uvc_close_usb, libusb_close, TypeOK
<1>7. CASE uvc_close_join
  BY <1>7 DEF uvc_close_join, TypeOK
<1>8. CASE uvc_close_free
  BY <1>8, DeviceAssumption
     DEF uvc_close_free, Returns, uvc_free_devh, TypeOK, RefsExact, Where,
         OnOpen
<1>9. CASE uvc_exit
  BY <1>9 DEF uvc_exit, TypeOK
<1>10. CASE uvc_init
  BY <1>10, DeviceAssumption DEF uvc_init, NewContext, TypeOK
<1>11. CASE handler_test
  BY <1>11 DEF handler_test, TypeOK
<1>12. CASE handler_timeout
  BY <1>12 DEF handler_timeout, TypeOK
<1>13. ASSUME NEW d \in Devs, uvc_find_device_bd(d)
      PROVE  TypeOK'
  BY <1>13, DeviceAssumption DEF uvc_find_device_bd, TypeOK
<1>14. ASSUME NEW d \in Devs, uvc_ref_device(d)
      PROVE  TypeOK'
  BY <1>14, DeviceAssumption DEF uvc_ref_device, TypeOK, RefsExact
<1>15. ASSUME NEW d \in Devs, uvc_unref_device(d)
      PROVE  TypeOK'
  BY <1>15, DeviceAssumption DEF uvc_unref_device, TypeOK, RefsExact
<1>16. ASSUME NEW d \in Devs, uvc_open(d)
      PROVE  TypeOK'
  BY <1>16, DeviceAssumption
     DEF uvc_open, Claims, ClaimFails, Faulty, TypeOK, Interfaces, RefsExact
<1>17. ASSUME NEW d \in Devs, uvc_start_streaming(d)
      PROVE  TypeOK'
  BY <1>17
     DEF uvc_start_streaming, Claims, ClaimFails, Faulty, TypeOK, Interfaces
<1>18. ASSUME NEW d \in Devs, uvc_stop_streaming(d)
      PROVE  TypeOK'
  BY <1>18 DEF uvc_stop_streaming, Stops, TypeOK
<1>19. ASSUME NEW d \in Devs, uvc_close(d)
      PROVE  TypeOK'
  BY <1>19 DEF uvc_close, Stops, TypeOK
<1>20. ASSUME NEW d \in Devs, handler_status(d)
      PROVE  TypeOK'
  BY <1>20 DEF handler_status, TypeOK
<1>21. ASSUME NEW d \in Devs, uvc_status_callback(d)
      PROVE  TypeOK'
  BY <1>21 DEF uvc_status_callback, TypeOK
<1>22. ASSUME NEW d \in Devs, handler_stream(d)
      PROVE  TypeOK'
  BY <1>22 DEF handler_stream, TypeOK
<1>23. CASE UNCHANGED vars
  BY <1>23 DEF vars, TypeOK
<1>24. QED
  BY <1>1, <1>2, <1>3, <1>4, <1>5, <1>6, <1>7, <1>8, <1>9, <1>10, <1>11,
     <1>12, <1>13, <1>14, <1>15, <1>16, <1>17, <1>18, <1>19, <1>20, <1>21,
     <1>22, <1>23
     DEF Next, Opens, Closes, Commands, Handler

\* Every operation leaves its handle where the next one expects it.
LEMMA WhereStep == Inv /\ [Next]_vars => Where'
<1> SUFFICES ASSUME Inv, [Next]_vars PROVE Where'
  OBVIOUS
<1> USE DEF Inv, threadVars, appVars, refVars, ifVars, xferVars
<1>1. CASE uvc_open_append
  BY <1>1 DEF uvc_open_append, Returns, TypeOK, Where, OnOpen
<1>2. CASE uvc_open_fail
  BY <1>2 DEF uvc_open_fail, Returns, uvc_free_devh, TypeOK, Where, OnOpen
<1>3. CASE uvc_stream_close
  BY <1>3 DEF uvc_stream_close, Returns, Where, OnOpen
<1>4. CASE uvc_close_release
  BY <1>4 DEF uvc_close_release, Where, OnOpen
<1>5. CASE uvc_close_kill
  BY <1>5 DEF uvc_close_kill, Where, OnOpen
<1>6. CASE uvc_close_usb
  BY <1>6 DEF uvc_close_usb, Where, OnOpen
<1>7. CASE uvc_close_join
  BY <1>7 DEF uvc_close_join, Where, OnOpen
<1>8. CASE uvc_close_free
  BY <1>8 DEF uvc_close_free, Returns, uvc_free_devh, TypeOK, Where, OnOpen
<1>9. CASE uvc_exit
  BY <1>9 DEF uvc_exit, Where, OnOpen
<1>10. CASE uvc_init
  BY <1>10 DEF uvc_init, Where, OnOpen
<1>11. CASE handler_test
  BY <1>11 DEF handler_test, Where
<1>12. CASE handler_timeout
  BY <1>12 DEF handler_timeout, Where
<1>13. ASSUME NEW d \in Devs, uvc_find_device_bd(d)
      PROVE  Where'
  BY <1>13 DEF uvc_find_device_bd, Where
<1>14. ASSUME NEW d \in Devs, uvc_ref_device(d)
      PROVE  Where'
  BY <1>14 DEF uvc_ref_device, Where
<1>15. ASSUME NEW d \in Devs, uvc_unref_device(d)
      PROVE  Where'
  BY <1>15 DEF uvc_unref_device, Where
<1>16. ASSUME NEW d \in Devs, uvc_open(d)
      PROVE  Where'
  BY <1>16, DeviceAssumption DEF uvc_open, TypeOK, Where, OnOpen
<1>17. ASSUME NEW d \in Devs, uvc_start_streaming(d)
      PROVE  Where'
  BY <1>17 DEF uvc_start_streaming, Where
<1>18. ASSUME NEW d \in Devs, uvc_stop_streaming(d)
      PROVE  Where'
  BY <1>18, DeviceAssumption DEF uvc_stop_streaming, Stops, Where
<1>19. ASSUME NEW d \in Devs, uvc_close(d)
      PROVE  Where'
  BY <1>19, DeviceAssumption DEF uvc_close, Stops, Where
<1>20. ASSUME NEW d \in Devs, handler_status(d)
      PROVE  Where'
  BY <1>20 DEF handler_status, Where
<1>21. ASSUME NEW d \in Devs, uvc_status_callback(d)
      PROVE  Where'
  BY <1>21 DEF uvc_status_callback, Where
<1>22. ASSUME NEW d \in Devs, handler_stream(d)
      PROVE  Where'
  BY <1>22 DEF handler_stream, Where
<1>23. CASE UNCHANGED vars
  BY <1>23 DEF vars, Where
<1>24. QED
  BY <1>1, <1>2, <1>3, <1>4, <1>5, <1>6, <1>7, <1>8, <1>9, <1>10, <1>11,
     <1>12, <1>13, <1>14, <1>15, <1>16, <1>17, <1>18, <1>19, <1>20, <1>21,
     <1>22, <1>23
     DEF Next, Opens, Closes, Commands, Handler

\* uvc_open takes the reference that uvc_close or its own failure gives back.
LEMMA RefsStep == Inv /\ [Next]_vars => RefsExact'
<1> SUFFICES ASSUME Inv, [Next]_vars PROVE RefsExact'
  OBVIOUS
<1> USE DEF Inv, threadVars, appVars, refVars, ifVars, xferVars
<1>1. CASE uvc_open_append
  BY <1>1 DEF uvc_open_append, Where, RefsExact
<1>2. CASE uvc_open_fail
  BY <1>2 DEF uvc_open_fail, uvc_free_devh, TypeOK, Where, RefsExact
<1>3. CASE uvc_stream_close
  BY <1>3 DEF uvc_stream_close, RefsExact
<1>4. CASE uvc_close_release
  BY <1>4 DEF uvc_close_release, RefsExact
<1>5. CASE uvc_close_kill
  BY <1>5 DEF uvc_close_kill, RefsExact
<1>6. CASE uvc_close_usb
  BY <1>6 DEF uvc_close_usb, RefsExact
<1>7. CASE uvc_close_join
  BY <1>7 DEF uvc_close_join, RefsExact
<1>8. CASE uvc_close_free
  BY <1>8 DEF uvc_close_free, uvc_free_devh, TypeOK, Where, OnOpen, RefsExact
<1>9. CASE uvc_exit
  BY <1>9 DEF uvc_exit, RefsExact
<1>10. CASE uvc_init
  BY <1>10 DEF uvc_init, RefsExact
<1>11. CASE handler_test
  BY <1>11 DEF handler_test, RefsExact
<1>12. CASE handler_timeout
  BY <1>12 DEF handler_timeout, RefsExact
<1>13. ASSUME NEW d \in Devs, uvc_find_device_bd(d)
      PROVE  RefsExact'
  BY <1>13 DEF uvc_find_device_bd, TypeOK, RefsExact
<1>14. ASSUME NEW d \in Devs, uvc_ref_device(d)
      PROVE  RefsExact'
  BY <1>14 DEF uvc_ref_device, TypeOK, RefsExact
<1>15. ASSUME NEW d \in Devs, uvc_unref_device(d)
      PROVE  RefsExact'
  BY <1>15 DEF uvc_unref_device, TypeOK, RefsExact
<1>16. ASSUME NEW d \in Devs, uvc_open(d)
      PROVE  RefsExact'
  BY <1>16 DEF uvc_open, TypeOK, RefsExact
<1>17. ASSUME NEW d \in Devs, uvc_start_streaming(d)
      PROVE  RefsExact'
  BY <1>17 DEF uvc_start_streaming, RefsExact
<1>18. ASSUME NEW d \in Devs, uvc_stop_streaming(d)
      PROVE  RefsExact'
  BY <1>18 DEF uvc_stop_streaming, Stops, RefsExact
<1>19. ASSUME NEW d \in Devs, uvc_close(d)
      PROVE  RefsExact'
  BY <1>19 DEF uvc_close, Stops, RefsExact
<1>20. ASSUME NEW d \in Devs, handler_status(d)
      PROVE  RefsExact'
  BY <1>20 DEF handler_status, RefsExact
<1>21. ASSUME NEW d \in Devs, uvc_status_callback(d)
      PROVE  RefsExact'
  BY <1>21 DEF uvc_status_callback, RefsExact
<1>22. ASSUME NEW d \in Devs, handler_stream(d)
      PROVE  RefsExact'
  BY <1>22 DEF handler_stream, RefsExact
<1>23. CASE UNCHANGED vars
  BY <1>23 DEF vars, RefsExact
<1>24. QED
  BY <1>1, <1>2, <1>3, <1>4, <1>5, <1>6, <1>7, <1>8, <1>9, <1>10, <1>11,
     <1>12, <1>13, <1>14, <1>15, <1>16, <1>17, <1>18, <1>19, <1>20, <1>21,
     <1>22, <1>23
     DEF Next, Opens, Closes, Commands, Handler

\* Only the last uvc_close ends the handler thread, and only uvc_open on no open
\* device, or a new context, starts one.
LEMMA ThreadStep == Inv /\ [Next]_vars => Thread'
<1> SUFFICES ASSUME Inv, [Next]_vars PROVE Thread'
  OBVIOUS
<1> USE DEF Inv, threadVars, appVars, refVars, ifVars, xferVars
<1>1. CASE uvc_open_append
  BY <1>1 DEF uvc_open_append, Returns, StartHandler, Thread
<1>2. CASE uvc_open_fail
  BY <1>2 DEF uvc_open_fail, Returns, libusb_close, Thread
<1>3. CASE uvc_stream_close
  BY <1>3 DEF uvc_stream_close, Returns, Thread
<1>4. CASE uvc_close_release
  BY <1>4 DEF uvc_close_release, Thread
<1>5. CASE uvc_close_kill
  BY <1>5 DEF uvc_close_kill, Killed, LastOpen, Thread
<1>6. CASE uvc_close_usb
  BY <1>6 DEF uvc_close_usb, libusb_close, LastOpen, Thread
<1>7. CASE uvc_close_join
  BY <1>7 DEF uvc_close_join, Thread
<1>8. CASE uvc_close_free
  BY <1>8 DEF uvc_close_free, Returns, Thread
<1>9. CASE uvc_exit
  BY <1>9 DEF uvc_exit, Thread
<1>10. CASE uvc_init
  BY <1>10 DEF uvc_init, NewContext, Where, Thread
<1>11. CASE handler_test
  BY <1>11 DEF handler_test, Thread, LastOpen
<1>12. CASE handler_timeout
  BY <1>12 DEF handler_timeout, Thread, LastOpen
<1>13. ASSUME NEW d \in Devs, uvc_find_device_bd(d)
      PROVE  Thread'
  BY <1>13 DEF uvc_find_device_bd, Thread
<1>14. ASSUME NEW d \in Devs, uvc_ref_device(d)
      PROVE  Thread'
  BY <1>14 DEF uvc_ref_device, Thread
<1>15. ASSUME NEW d \in Devs, uvc_unref_device(d)
      PROVE  Thread'
  BY <1>15 DEF uvc_unref_device, Thread
<1>16. ASSUME NEW d \in Devs, uvc_open(d)
      PROVE  Thread'
  BY <1>16 DEF uvc_open, Thread
<1>17. ASSUME NEW d \in Devs, uvc_start_streaming(d)
      PROVE  Thread'
  BY <1>17 DEF uvc_start_streaming, Thread
<1>18. ASSUME NEW d \in Devs, uvc_stop_streaming(d)
      PROVE  Thread'
  BY <1>18 DEF uvc_stop_streaming, Stops, Thread
<1>19. ASSUME NEW d \in Devs, uvc_close(d)
      PROVE  Thread'
  BY <1>19 DEF uvc_close, Stops, Thread
<1>20. ASSUME NEW d \in Devs, handler_status(d)
      PROVE  Thread'
  BY <1>20 DEF handler_status, Thread, LastOpen
<1>21. ASSUME NEW d \in Devs, uvc_status_callback(d)
      PROVE  Thread'
  BY <1>21 DEF uvc_status_callback, Thread, LastOpen
<1>22. ASSUME NEW d \in Devs, handler_stream(d)
      PROVE  Thread'
  BY <1>22 DEF handler_stream, Thread, LastOpen
<1>23. CASE UNCHANGED vars
  BY <1>23 DEF vars, Thread, LastOpen
<1>24. QED
  BY <1>1, <1>2, <1>3, <1>4, <1>5, <1>6, <1>7, <1>8, <1>9, <1>10, <1>11,
     <1>12, <1>13, <1>14, <1>15, <1>16, <1>17, <1>18, <1>19, <1>20, <1>21,
     <1>22, <1>23
     DEF Next, Opens, Closes, Commands, Handler

\* A handle is freed after libusb_close took its transfer back.
LEMMA StatusStep == Inv /\ [Next]_vars => StatusQuiet'
<1> SUFFICES ASSUME Inv, [Next]_vars PROVE StatusQuiet'
  OBVIOUS
<1> USE DEF Inv, threadVars, appVars, refVars, ifVars, xferVars
<1>1. CASE uvc_open_append
  BY <1>1 DEF uvc_open_append, StatusQuiet
<1>2. CASE uvc_open_fail
  BY <1>2
     DEF uvc_open_fail, libusb_close, uvc_free_devh, TypeOK, StatusQuiet,
         Transfers
<1>3. CASE uvc_stream_close
  BY <1>3 DEF uvc_stream_close, StatusQuiet
<1>4. CASE uvc_close_release
  BY <1>4 DEF uvc_close_release, StatusQuiet
<1>5. CASE uvc_close_kill
  BY <1>5 DEF uvc_close_kill, StatusQuiet
<1>6. CASE uvc_close_usb
  BY <1>6 DEF uvc_close_usb, libusb_close, StatusQuiet
<1>7. CASE uvc_close_join
  BY <1>7 DEF uvc_close_join, StatusQuiet
<1>8. CASE uvc_close_free
  BY <1>8 DEF uvc_close_free, uvc_free_devh, StatusQuiet, Transfers
<1>9. CASE uvc_exit
  BY <1>9 DEF uvc_exit, StatusQuiet
<1>10. CASE uvc_init
  BY <1>10 DEF uvc_init, StatusQuiet
<1>11. CASE handler_test
  BY <1>11 DEF handler_test, StatusQuiet
<1>12. CASE handler_timeout
  BY <1>12 DEF handler_timeout, StatusQuiet
<1>13. ASSUME NEW d \in Devs, uvc_find_device_bd(d)
      PROVE  StatusQuiet'
  BY <1>13 DEF uvc_find_device_bd, StatusQuiet
<1>14. ASSUME NEW d \in Devs, uvc_ref_device(d)
      PROVE  StatusQuiet'
  BY <1>14 DEF uvc_ref_device, StatusQuiet
<1>15. ASSUME NEW d \in Devs, uvc_unref_device(d)
      PROVE  StatusQuiet'
  BY <1>15 DEF uvc_unref_device, StatusQuiet
<1>16. ASSUME NEW d \in Devs, uvc_open(d)
      PROVE  StatusQuiet'
  BY <1>16 DEF uvc_open, TypeOK, StatusQuiet
<1>17. ASSUME NEW d \in Devs, uvc_start_streaming(d)
      PROVE  StatusQuiet'
  BY <1>17 DEF uvc_start_streaming, StatusQuiet
<1>18. ASSUME NEW d \in Devs, uvc_stop_streaming(d)
      PROVE  StatusQuiet'
  BY <1>18 DEF uvc_stop_streaming, Stops, StatusQuiet
<1>19. ASSUME NEW d \in Devs, uvc_close(d)
      PROVE  StatusQuiet'
  BY <1>19 DEF uvc_close, Stops, StatusQuiet
<1>20. ASSUME NEW d \in Devs, handler_status(d)
      PROVE  StatusQuiet'
  BY <1>20 DEF handler_status, StatusQuiet
<1>21. ASSUME NEW d \in Devs, uvc_status_callback(d)
      PROVE  StatusQuiet'
  BY <1>21 DEF uvc_status_callback, StatusQuiet
<1>22. ASSUME NEW d \in Devs, handler_stream(d)
      PROVE  StatusQuiet'
  BY <1>22 DEF handler_stream, StatusQuiet
<1>23. CASE UNCHANGED vars
  BY <1>23 DEF vars, StatusQuiet
<1>24. QED
  BY <1>1, <1>2, <1>3, <1>4, <1>5, <1>6, <1>7, <1>8, <1>9, <1>10, <1>11,
     <1>12, <1>13, <1>14, <1>15, <1>16, <1>17, <1>18, <1>19, <1>20, <1>21,
     <1>22, <1>23
     DEF Next, Opens, Closes, Commands, Handler

\* A transfer that is done is the one the handler thread is calling back, so that
\* libusb_close, which waits for that, leaves none behind.
LEMMA TransfersStep == Inv /\ [Next]_vars => Transfers'
<1> SUFFICES ASSUME Inv, [Next]_vars PROVE Transfers'
  OBVIOUS
<1> USE DEF Inv, threadVars, appVars, refVars, ifVars, xferVars
<1>1. CASE uvc_open_append
  BY <1>1 DEF uvc_open_append, Returns, Thread, Transfers
<1>2. CASE uvc_open_fail
  BY <1>2 DEF uvc_open_fail, Returns, libusb_close, Transfers
<1>3. CASE uvc_stream_close
  BY <1>3 DEF uvc_stream_close, Returns, Transfers
<1>4. CASE uvc_close_release
  BY <1>4 DEF uvc_close_release, Transfers
<1>5. CASE uvc_close_kill
  BY <1>5 DEF uvc_close_kill, Transfers
<1>6. CASE uvc_close_usb
  BY <1>6 DEF uvc_close_usb, libusb_close, TypeOK, Where, Transfers
<1>7. CASE uvc_close_join
  BY <1>7 DEF uvc_close_join, Transfers
<1>8. CASE uvc_close_free
  BY <1>8 DEF uvc_close_free, Returns, Transfers
<1>9. CASE uvc_exit
  BY <1>9 DEF uvc_exit, Transfers
<1>10. CASE uvc_init
  BY <1>10 DEF uvc_init, TypeOK, Where, StatusQuiet, Transfers
<1>11. CASE handler_test
  BY <1>11 DEF handler_test, Transfers
<1>12. CASE handler_timeout
  BY <1>12 DEF handler_timeout, Transfers
<1>13. ASSUME NEW d \in Devs, uvc_find_device_bd(d)
      PROVE  Transfers'
  BY <1>13 DEF uvc_find_device_bd, Transfers
<1>14. ASSUME NEW d \in Devs, uvc_ref_device(d)
      PROVE  Transfers'
  BY <1>14 DEF uvc_ref_device, Transfers
<1>15. ASSUME NEW d \in Devs, uvc_unref_device(d)
      PROVE  Transfers'
  BY <1>15 DEF uvc_unref_device, Transfers
<1>16. ASSUME NEW d \in Devs, uvc_open(d)
      PROVE  Transfers'
  BY <1>16 DEF uvc_open, TypeOK, Transfers
<1>17. ASSUME NEW d \in Devs, uvc_start_streaming(d)
      PROVE  Transfers'
  BY <1>17 DEF uvc_start_streaming, Transfers
<1>18. ASSUME NEW d \in Devs, uvc_stop_streaming(d)
      PROVE  Transfers'
  BY <1>18 DEF uvc_stop_streaming, Stops, Transfers
<1>19. ASSUME NEW d \in Devs, uvc_close(d)
      PROVE  Transfers'
  BY <1>19 DEF uvc_close, Stops, Transfers
<1>20. ASSUME NEW d \in Devs, handler_status(d)
      PROVE  Transfers'
  BY <1>20 DEF handler_status, Transfers
<1>21. ASSUME NEW d \in Devs, uvc_status_callback(d)
      PROVE  Transfers'
  BY <1>21 DEF uvc_status_callback, TypeOK, Transfers
<1>22. ASSUME NEW d \in Devs, handler_stream(d)
      PROVE  Transfers'
  BY <1>22 DEF handler_stream, Transfers
<1>23. CASE UNCHANGED vars
  BY <1>23 DEF vars, Transfers
<1>24. QED
  BY <1>1, <1>2, <1>3, <1>4, <1>5, <1>6, <1>7, <1>8, <1>9, <1>10, <1>11,
     <1>12, <1>13, <1>14, <1>15, <1>16, <1>17, <1>18, <1>19, <1>20, <1>21,
     <1>22, <1>23
     DEF Next, Opens, Closes, Commands, Handler

\* uvc_close goes on when uvc_stop_streaming left no stream.
LEMMA StreamsStep == Inv /\ DriverInv /\ [Next]_vars => Streams'
<1> SUFFICES ASSUME Inv, DriverInv, [Next]_vars PROVE Streams'
  OBVIOUS
<1> USE DEF Inv, DriverInv, threadVars, appVars, refVars, ifVars, xferVars
<1>1. CASE uvc_open_append
  BY <1>1 DEF uvc_open_append, Returns, Streams
<1>2. CASE uvc_open_fail
  BY <1>2 DEF uvc_open_fail, Returns, uvc_free_devh, Where, Streams
<1>3. CASE uvc_stream_close
  BY <1>3 DEF uvc_stream_close, Returns, TypeOK, Where, Streams
<1>4. CASE uvc_close_release
  BY <1>4 DEF uvc_close_release, Streams
<1>5. CASE uvc_close_kill
  BY <1>5 DEF uvc_close_kill, Streams
<1>6. CASE uvc_close_usb
  BY <1>6 DEF uvc_close_usb, Streams
<1>7. CASE uvc_close_join
  BY <1>7 DEF uvc_close_join, Streams
<1>8. CASE uvc_close_free
  BY <1>8 DEF uvc_close_free, Returns, uvc_free_devh, Streams
<1>9. CASE uvc_exit
  BY <1>9 DEF uvc_exit, Streams
<1>10. CASE uvc_init
  BY <1>10 DEF uvc_init, Streams
<1>11. CASE handler_test
  BY <1>11 DEF handler_test, Streams
<1>12. CASE handler_timeout
  BY <1>12 DEF handler_timeout, Streams
<1>13. ASSUME NEW d \in Devs, uvc_find_device_bd(d)
      PROVE  Streams'
  BY <1>13 DEF uvc_find_device_bd, Streams
<1>14. ASSUME NEW d \in Devs, uvc_ref_device(d)
      PROVE  Streams'
  BY <1>14 DEF uvc_ref_device, Streams
<1>15. ASSUME NEW d \in Devs, uvc_unref_device(d)
      PROVE  Streams'
  BY <1>15 DEF uvc_unref_device, Streams
<1>16. ASSUME NEW d \in Devs, uvc_open(d)
      PROVE  Streams'
  BY <1>16 DEF uvc_open, Streams
<1>17. ASSUME NEW d \in Devs, uvc_start_streaming(d)
      PROVE  Streams'
  BY <1>17 DEF uvc_start_streaming, TypeOK, Streams
<1>18. ASSUME NEW d \in Devs, uvc_stop_streaming(d)
      PROVE  Streams'
  BY <1>18 DEF uvc_stop_streaming, Stops, Streams
<1>19. ASSUME NEW d \in Devs, uvc_close(d)
      PROVE  Streams'
  BY <1>19 DEF uvc_close, Stops, Streams
<1>20. ASSUME NEW d \in Devs, handler_status(d)
      PROVE  Streams'
  BY <1>20 DEF handler_status, Streams
<1>21. ASSUME NEW d \in Devs, uvc_status_callback(d)
      PROVE  Streams'
  BY <1>21 DEF uvc_status_callback, Streams
<1>22. ASSUME NEW d \in Devs, handler_stream(d)
      PROVE  Streams'
  BY <1>22 DEF handler_stream, Streams
<1>23. CASE UNCHANGED vars
  BY <1>23 DEF vars, Streams
<1>24. QED
  BY <1>1, <1>2, <1>3, <1>4, <1>5, <1>6, <1>7, <1>8, <1>9, <1>10, <1>11,
     <1>12, <1>13, <1>14, <1>15, <1>16, <1>17, <1>18, <1>19, <1>20, <1>21,
     <1>22, <1>23
     DEF Next, Opens, Closes, Commands, Handler

\* An operation that does not fail moves an interface between libuvc and the
\* kernel driver, and closing moves all of them back.
LEMMA DriversStep == Inv /\ DriverInv /\ [Next]_vars => Drivers'
<1> SUFFICES ASSUME Inv, DriverInv, [Next]_vars PROVE Drivers'
  OBVIOUS
<1> USE DEF Inv, DriverInv, threadVars, appVars, refVars, ifVars, xferVars
<1>1. CASE uvc_open_append
  BY <1>1 DEF uvc_open_append, Returns, Drivers, Driven
<1>2. CASE uvc_open_fail
  <2> SUFFICES ASSUME NEW e \in Devs, faults'[e] = {} PROVE Driven(e)'
    BY DEF Drivers
  <2>1. faults[e] = {} /\ Driven(e)
    <3>1. faults[e] = {}
      BY <1>2 DEF uvc_open_fail, Faulty, TypeOK
    <3>2. QED
      BY <3>1 DEF Drivers
  <2>2. CASE e = devh
    <3>1. kernel'[e] = Interfaces
      <4>1. claimed[e] \subseteq {"control"}
        BY <1>2, <2>1, <2>2
           DEF uvc_open_fail, TypeOK, Where, Streams, Driven, Interfaces
      <4>2. ~Faulty(e, "usb")
        BY <2>2, FaultyMarks
      <4>3. kernel'[e] = kernel[e] \cup claimed[e]
        BY <1>2, <2>2, <4>1, <4>2 DEF uvc_open_fail, TypeOK
      <4>4. QED
        BY <2>1, <4>3 DEF Driven, TypeOK
    <3>2. claimed'[e] = {}
      BY <1>2, <2>2 DEF uvc_open_fail, uvc_free_devh, TypeOK
    <3>3. QED
      BY <3>1, <3>2 DEF Driven, Interfaces
  <2>3. CASE e # devh
    BY <1>2, <2>1, <2>3
       DEF uvc_open_fail, Returns, uvc_free_devh, Faulty, TypeOK, Driven
  <2>4. QED
    BY <2>2, <2>3
<1>3. CASE uvc_stream_close
  <2> SUFFICES ASSUME NEW e \in Devs, faults'[e] = {} PROVE Driven(e)'
    BY DEF Drivers
  <2>1. faults[e] = {} /\ Driven(e)
    <3>1. faults[e] = {}
      BY <1>3 DEF uvc_stream_close, uvc_release_if, Faulty, TypeOK
    <3>2. QED
      BY <3>1 DEF Drivers
  <2>2. CASE e = devh
    BY <1>3, <2>1, <2>2, SMTT(60)
       DEF uvc_stream_close, Returns, uvc_release_if, Faulty, TypeOK, Where,
           OnOpen, Streams, Driven, Interfaces
  <2>3. CASE e # devh
    BY <1>3, <2>1, <2>3
       DEF uvc_stream_close, Returns, uvc_release_if, Faulty, TypeOK, Driven
  <2>4. QED
    BY <2>2, <2>3
<1>4. CASE uvc_close_release
  <2> SUFFICES ASSUME NEW e \in Devs, faults'[e] = {} PROVE Driven(e)'
    BY DEF Drivers
  <2>1. faults[e] = {} /\ Driven(e)
    <3>1. faults[e] = {}
      BY <1>4 DEF uvc_close_release, uvc_release_if, Faulty, TypeOK
    <3>2. QED
      BY <3>1 DEF Drivers
  <2>2. CASE e = devh
    BY <1>4, <2>1, <2>2
       DEF uvc_close_release, uvc_release_if, Faulty, TypeOK, Where, OnOpen,
           Streams, Driven, Interfaces
  <2>3. CASE e # devh
    BY <1>4, <2>1, <2>3
       DEF uvc_close_release, uvc_release_if, Faulty, TypeOK, Driven
  <2>4. QED
    BY <2>2, <2>3
<1>5. CASE uvc_close_kill
  BY <1>5 DEF uvc_close_kill, Drivers, Driven
<1>6. CASE uvc_close_usb
  BY <1>6 DEF uvc_close_usb, Drivers, Driven
<1>7. CASE uvc_close_join
  BY <1>7 DEF uvc_close_join, Drivers, Driven
<1>8. CASE uvc_close_free
  BY <1>8
     DEF uvc_close_free, Returns, uvc_free_devh, TypeOK, Streams, Drivers,
         Driven, Interfaces
<1>9. CASE uvc_exit
  BY <1>9 DEF uvc_exit, Drivers, Driven
<1>10. CASE uvc_init
  BY <1>10 DEF uvc_init, Drivers, Driven
<1>11. CASE handler_test
  BY <1>11 DEF handler_test, Drivers, Driven
<1>12. CASE handler_timeout
  BY <1>12 DEF handler_timeout, Drivers, Driven
<1>13. ASSUME NEW d \in Devs, uvc_find_device_bd(d)
      PROVE  Drivers'
  BY <1>13 DEF uvc_find_device_bd, Drivers, Driven
<1>14. ASSUME NEW d \in Devs, uvc_ref_device(d)
      PROVE  Drivers'
  BY <1>14 DEF uvc_ref_device, Drivers, Driven
<1>15. ASSUME NEW d \in Devs, uvc_unref_device(d)
      PROVE  Drivers'
  BY <1>15 DEF uvc_unref_device, Drivers, Driven
<1>16. ASSUME NEW d \in Devs, uvc_open(d)
      PROVE  Drivers'
  BY <1>16, DeviceAssumption, SMTT(60)
     DEF uvc_open, Claims, ClaimFails, Faulty, TypeOK, Where, OnOpen,
         Streams, Drivers, Driven, Interfaces
<1>17. ASSUME NEW d \in Devs, uvc_start_streaming(d)
      PROVE  Drivers'
  <2> SUFFICES ASSUME NEW e \in Devs, faults'[e] = {} PROVE Driven(e)'
    BY DEF Drivers
  <2>1. faults[e] = {} /\ Driven(e)
    <3>1. faults[e] = {}
      BY <1>17 DEF uvc_start_streaming, Claims, ClaimFails, Faulty, TypeOK
    <3>2. QED
      BY <3>1 DEF Drivers
  <2>2. CASE e = d
    <3>1. ~Faulty(d, "usb") /\ ~Faulty(d, "start")
      BY <2>2, FaultyMarks
    <3>2. app' = "idle" /\ handle'[d] = "open"
      BY <1>17, <3>1 DEF uvc_start_streaming
    <3>3. stream'[d] = "running"
      BY <1>17, <3>1 DEF uvc_start_streaming, ClaimFails, TypeOK
    <3>4. kernel'[d] = Interfaces \ claimed'[d]
      BY <1>17, <2>1, <2>2, <3>1
         DEF uvc_start_streaming, ClaimFails, Claims, Driven, TypeOK, Interfaces
    <3>5. QED
      BY <2>2, <3>2, <3>3, <3>4 DEF Driven
  <2>3. CASE e # d
    BY <1>17, <2>1, <2>3
       DEF uvc_start_streaming, Claims, ClaimFails, Faulty, TypeOK, Driven
  <2>4. QED
    BY <2>2, <2>3
<1>18. ASSUME NEW d \in Devs, uvc_stop_streaming(d)
      PROVE  Drivers'
  BY <1>18 DEF uvc_stop_streaming, Stops, Drivers, Driven
<1>19. ASSUME NEW d \in Devs, uvc_close(d)
      PROVE  Drivers'
  BY <1>19 DEF uvc_close, Stops, Drivers, Driven
<1>20. ASSUME NEW d \in Devs, handler_status(d)
      PROVE  Drivers'
  BY <1>20 DEF handler_status, Drivers, Driven
<1>21. ASSUME NEW d \in Devs, uvc_status_callback(d)
      PROVE  Drivers'
  BY <1>21 DEF uvc_status_callback, Drivers, Driven
<1>22. ASSUME NEW d \in Devs, handler_stream(d)
      PROVE  Drivers'
  BY <1>22 DEF handler_stream, Drivers, Driven
<1>23. CASE UNCHANGED vars
  BY <1>23 DEF vars, Drivers, Driven
<1>24. QED
  BY <1>1, <1>2, <1>3, <1>4, <1>5, <1>6, <1>7, <1>8, <1>9, <1>10, <1>11,
     <1>12, <1>13, <1>14, <1>15, <1>16, <1>17, <1>18, <1>19, <1>20, <1>21,
     <1>22, <1>23
     DEF Next, Opens, Closes, Commands, Handler

-----------------------------------------------------------------------------
\* The invariant holds when the program starts, and every step keeps it.
LEMMA Invariant == Spec => []Inv
<1>1. Init => Inv
  <2> SUFFICES ASSUME Init PROVE Inv
    OBVIOUS
  <2>1. TypeOK
    <3>1. own_usb_ctx \in BOOLEAN /\ thread \in {"none", "test"}
      BY DeviceAssumption DEF Init
    <3>2. 0 \in 0..MaxHeld /\ 0 \in 0..MaxHeld + 1
      BY DeviceAssumption
    <3>3. QED
      BY <3>1, <3>2 DEF Init, TypeOK, Interfaces
  <2>2. Where
    BY DeviceAssumption DEF Init, Where, OnOpen
  <2>3. RefsExact
    <3> SUFFICES ASSUME NEW d \in Devs
                 PROVE  ref[d] = held[d]
                          + (IF handle[d] = "none" THEN 0 ELSE 1)
      BY DEF RefsExact
    <3>1. ref[d] = 0 /\ held[d] = 0 /\ handle[d] = "none"
      BY DEF Init
    <3>2. QED
      BY <3>1
  <2>4. Thread
    BY DEF Init, Thread
  <2>5. StatusQuiet /\ Transfers
    BY DEF Init, StatusQuiet, Transfers
  <2>6. QED
    BY <2>1, <2>2, <2>3, <2>4, <2>5 DEF Inv
<1>2. Inv /\ [Next]_vars => Inv'
  BY TypeStep, WhereStep, RefsStep, ThreadStep, StatusStep, TransfersStep
     DEF Inv
<1>3. QED
  BY <1>1, <1>2, PTL DEF Spec

\* uvc_open, uvc_close and the handler thread keep every variable in its range:
\* no reference count falls below zero or rises above what is held and opened.
THEOREM TypeCorrect == Spec => []TypeOK
<1>1. Inv => TypeOK
  BY DEF Inv
<1>2. QED
  BY <1>1, Invariant, PTL

\* The count of a device is the number of its owners, however uvc_open fails and
\* in whatever order devices are referenced, opened and closed.
THEOREM References == Spec => []RefsExact
<1>1. Inv => RefsExact
  BY DEF Inv
<1>2. QED
  BY <1>1, Invariant, PTL

\* There is a handler thread exactly while devices are open: uvc_close of the last
\* one joins it, and uvc_open of the first starts it unkilled.
THEOREM HandlerLives == Spec => []HandlerWhileOpen
<1>1. Inv => HandlerWhileOpen
  <2> SUFFICES ASSUME Inv PROVE HandlerWhileOpen
    OBVIOUS
  <2>1. HandlerServes
    BY DEF Inv, TypeOK, Thread, HandlerServes
  <2>2. NoHandlerLeft
    BY DEF Inv, Thread, NoHandlerLeft
  <2>3. QED
    BY <2>1, <2>2 DEF HandlerWhileOpen
<1>2. QED
  BY <1>1, Invariant, PTL

\* No status transfer outlives the handle it belongs to, so that
\* _uvc_status_callback never looks at a freed one.
THEOREM StatusTransfers == Spec => []StatusQuiet
<1>1. Inv => StatusQuiet
  BY DEF Inv
<1>2. QED
  BY <1>1, Invariant, PTL

\* uvc_close and a failed uvc_open give the interfaces back to the kernel driver.
THEOREM KernelDrivers == Spec => []DriversBack
<1>1. Init => DriverInv
  BY DEF Init, DriverInv, Streams, Drivers, Driven
<1>2. Inv /\ DriverInv /\ [Next]_vars => DriverInv'
  BY StreamsStep, DriversStep DEF DriverInv
<1>3. DriverInv => DriversBack
  BY DEF DriverInv, Drivers, Driven, DriversBack
<1>4. QED
  BY <1>1, <1>2, <1>3, Invariant, PTL DEF Spec

=============================================================================
