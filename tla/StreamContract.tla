--------------------------- MODULE StreamContract ---------------------------
(***************************************************************************)
(* What a libuvc stream handle promises the application that installed a   *)
(* frame callback, with the threads, transfers and buffers left out: the   *)
(* callback runs only between a start and the return of the stop that      *)
(* follows it, one call at a time, and a stop returns.  The promise ends   *)
(* when the device is disconnected.                                        *)
(*                                                                         *)
(* UvcStream implements this specification; the modules of the Tcl command *)
(* layer rely on it instead of on UvcStream.                               *)
(***************************************************************************)

VARIABLES
  phase,       \* where the handle is in its life cycle
  inCallback   \* the application's frame callback is executing

cvars == <<phase, inCallback>>

Phases == {"closed", "idle", "streaming", "stopping", "lost"}

ContractTypeOK ==
  /\ phase \in Phases
  /\ inCallback \in BOOLEAN

ContractInit ==
  /\ phase = "closed"
  /\ inCallback = FALSE

Move(from, to) ==
  /\ phase = from
  /\ phase' = to

Open == Move("closed", "idle") /\ UNCHANGED inCallback

Start == Move("idle", "streaming") /\ ~inCallback /\ UNCHANGED inCallback

Deliver ==
  /\ phase = "streaming"
  /\ ~inCallback
  /\ inCallback' = TRUE
  /\ UNCHANGED phase

Return ==
  /\ inCallback
  /\ inCallback' = FALSE
  /\ UNCHANGED phase

StopRequest == Move("streaming", "stopping") /\ UNCHANGED inCallback

StopReturn == Move("stopping", "idle") /\ ~inCallback /\ UNCHANGED inCallback

Close == Move("idle", "closed") /\ ~inCallback /\ UNCHANGED inCallback

\* The device is disconnected, and after that nothing is promised.
Lose ==
  /\ phase' = "lost"
  /\ inCallback' \in BOOLEAN
  /\ phase # "lost" => UNCHANGED inCallback

ContractNext ==
  \/ Open \/ Start \/ Deliver \/ Return \/ StopRequest \/ StopReturn \/ Close
  \/ Lose

ContractSafety == ContractInit /\ [][ContractNext]_cvars

\* The callback returns, and so does a stop that waits only for it.
ContractSpec ==
  /\ ContractSafety
  /\ WF_cvars(Return)
  /\ WF_cvars(StopReturn)

=============================================================================
