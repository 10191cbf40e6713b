---------------------------- MODULE SignalContext ----------------------------
(***************************************************************************)
(* The context runLaunch gets from signal.NotifyContext and hands to the   *)
(* monitors and to the Supervisor.  A signal is noticed by the runtime     *)
(* first; the context is cancelled by a goroutine a moment later.          *)
(***************************************************************************)

CONSTANT Signals   \* the kinds of signal that may arrive

VARIABLES signalled,  \* the signal sent so far: "none" or one of Signals
          ctxDone     \* signalCtx.Done() is closed

signalVars == <<signalled, ctxDone>>

\* "process": SIGTERM sent to the launcher alone.  "group": Ctrl+C at the
\* terminal, which interrupts the foreground process group and therefore the
\* launcher's children as well.
ASSUME SignalAssumption == Signals \subseteq {"process", "group"}

SignalTypeOK == signalled \in Signals \cup {"none"} /\ ctxDone \in BOOLEAN

SignalInit == signalled = "none" /\ ctxDone = FALSE

SignalArrives ==
  /\ signalled = "none"
  /\ signalled' \in Signals
  /\ UNCHANGED ctxDone

CancelContext ==
  /\ signalled # "none"
  /\ ~ctxDone
  /\ ctxDone' = TRUE
  /\ UNCHANGED signalled
=============================================================================
