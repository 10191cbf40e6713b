---------------------------- MODULE DedicatedLease ----------------------------
(***************************************************************************)
(* egressguard.dedicatedGatewayAdapter: the exclusive lease on sandboxd.   *)
(* Acquire replaces the running daemon by one of the launcher's own, whose *)
(* upstream is the dedicated gateway; Fence stops that daemon and Recover  *)
(* starts a normal one.  One action per command, in the order of the code; *)
(* the labels a method leaves to are the caller's.                         *)
(***************************************************************************)
EXTENDS Sandboxd

VARIABLES proc,          \* the `sbx daemon start` process of the launcher
          acquired,      \* a.acquired
          fenced,        \* a.fenced
          mainWasRunning \* scope.mainWasRunning of Acquire

leaseVars == <<proc, acquired, fenced, mainWasRunning>>

LeaseTypeOK ==
  /\ proc \in {"none", "starting", "up", "stopping", "exited"}
  /\ acquired \in BOOLEAN /\ fenced \in BOOLEAN /\ mainWasRunning \in BOOLEAN

LeaseInit ==
  proc = "none" /\ acquired = FALSE /\ fenced = FALSE /\ mainWasRunning = FALSE

-----------------------------------------------------------------------------
(* The owned daemon process. *)

\* Seeded bug: the launcher loses sight of its process.
ForgetsProc == UNCHANGED proc

ProcStops == proc' = IF proc = "up" THEN "stopping" ELSE proc

\* `sbx daemon stop` stops whichever daemon answers.
DaemonStop == DaemonEnds /\ ProcStops

\* The process becomes the daemon, or ends because one is there already.
ProcComesUp ==
  /\ proc = "starting" /\ daemon = "none"
  /\ proc' = "up" /\ daemon' = "owned"
  /\ UNCHANGED <<main, owner, others, faults, acquired, fenced, mainWasRunning>>

ProcExits ==
  /\ \/ proc = "stopping"
     \/ proc = "starting" /\ daemon = "normal"
  /\ proc' = "exited"
  /\ UNCHANGED <<boxVars, faults, acquired, fenced, mainWasRunning>>

ProcCrashes ==
  /\ proc \in {"starting", "up"} /\ Fault
  /\ proc' = "exited"
  /\ IF proc = "up" THEN DaemonEnds ELSE UNCHANGED boxVars
  /\ UNCHANGED <<acquired, fenced, mainWasRunning>>

-----------------------------------------------------------------------------
(* stopOwnedDaemon, called at `from` by a caller that waits at `waiting`. *)

OwnedGone == proc \in {"none", "exited"}

\* The result of `daemon stop` does not matter, its effect does.
StopIssued(from, waiting) ==
  /\ pc = from /\ ~OwnedGone
  /\ \/ Works /\ DaemonStop
     \/ Fault /\ (DaemonStop \/ UNCHANGED <<boxVars, proc>>)
  /\ pc' = waiting
  /\ UNCHANGED <<acquired, fenced, mainWasRunning>>

\* Two seconds, or the context, are over: kill the process and give up, even if
\* its exit can be received as well.
StopTimesOut(waiting, bad) ==
  /\ pc = waiting /\ Works
  /\ proc' = (IF proc = "exited" THEN proc ELSE "stopping")
  /\ IF proc = "up" THEN DaemonEnds ELSE UNCHANGED boxVars
  /\ pc' = bad
  /\ UNCHANGED <<acquired, fenced, mainWasRunning>>

\* Seeded bug: the stop is taken for done once it has been issued.
StopIsIssued(from, waiting) == pc = waiting \/ (pc = from /\ OwnedGone)

\* The process' exit has been received, or there is nothing to wait for.
OwnedStopped(from, waiting) ==
  \/ pc = from /\ OwnedGone
  \/ pc = waiting /\ proc = "exited"

-----------------------------------------------------------------------------
(* Acquire, from "acquire" to "acquired" or "abort". *)

\* A step of Acquire that leaves its own fields alone.
Stay == UNCHANGED leaseVars

\* `sbx version`, and whether that version is in the support matrix: no released
\* one is, so production leaves here.
CheckCapability(supported) ==
  /\ pc = "acquire" /\ pc' = (IF supported THEN "controller" ELSE "abort")
  /\ Works /\ UNCHANGED boxVars /\ Stay

\* The gateway's controller answers an authenticated request only.
CheckController(from, good, bad) ==
  /\ pc = from /\ UNCHANGED boxVars /\ Stay
  /\ \/ Works /\ pc' = good
     \/ Fault /\ pc' = bad

\* `sbx ls` and inspectLeaseScope: any other sandbox is a conflict.
InspectScope ==
  /\ pc = "scope"
  /\ \/ /\ Works /\ Contact
        /\ pc' = (IF others THEN "abort" ELSE "stop daemon")
        /\ mainWasRunning' = (main = "running")
     \/ Fails(Contact) /\ pc' = "abort" /\ UNCHANGED mainWasRunning
  /\ UNCHANGED <<proc, acquired, fenced>>

StopExistingDaemon ==
  /\ pc = "stop daemon"
  /\ \/ /\ Works /\ DaemonStop
        /\ acquired' = TRUE /\ fenced' = FALSE /\ pc' = "start daemon"
     \/ /\ Fault /\ (DaemonStop \/ UNCHANGED <<boxVars, proc>>)
        /\ pc' = "abort" /\ UNCHANGED <<acquired, fenced>>
  /\ UNCHANGED mainWasRunning

StartOwnedDaemon ==
  /\ pc = "start daemon" /\ UNCHANGED <<boxVars, acquired, fenced, mainWasRunning>>
  /\ \/ Works /\ proc' = "starting" /\ pc' = "await daemon"
     \/ Fault /\ UNCHANGED proc /\ pc' = "restore"

\* waitForDaemon: `daemon status` succeeds, whichever daemon answers; or the
\* process has exited; or the time is over.
AwaitDaemon ==
  /\ pc = "await daemon" /\ UNCHANGED boxVars /\ Stay
  /\ \/ /\ daemon # "none" /\ Works
        /\ pc' = (IF mainWasRunning THEN "wake main" ELSE "acquired")
     \/ proc = "exited" /\ Works /\ pc' = "restore"
     \/ Fault /\ pc' = "restore"

\* The daemon's replacement stopped main: start it again under the lease.
WakeMain == RunInMain("wake main", "acquired", "restore") /\ Stay

\* Seeded bug: the owned daemon is left to run.
RestoreAtOnce ==
  /\ pc = "restore" /\ fenced' = TRUE /\ pc' = "restore normal" /\ Works
  /\ UNCHANGED <<boxVars, proc, acquired, mainWasRunning>>

\* restoreAfterFailedAcquire.
RestoreStops ==
  /\ OwnedStopped("restore", "restore wait")
  /\ fenced' = TRUE /\ pc' = "restore normal" /\ Works
  /\ UNCHANGED <<boxVars, proc, acquired, mainWasRunning>>

\* The normal daemon runs again: the lease is over.
Release == acquired' = FALSE /\ fenced' = FALSE /\ proc' = "none"

RestoreNormal ==
  /\ pc = "restore normal"
  /\ \/ Works /\ Contact /\ Release /\ pc' = "abort"
     \/ Fails(Contact) /\ pc' = "abort" /\ UNCHANGED <<proc, acquired, fenced>>
  /\ UNCHANGED mainWasRunning

AcquireStep(supported) ==
  \/ CheckCapability(supported) \/ CheckController("controller", "scope", "abort")
  \/ InspectScope \/ StopExistingDaemon \/ StartOwnedDaemon \/ AwaitDaemon
  \/ WakeMain
  \/ StopIssued("restore", "restore wait") \/ StopTimesOut("restore wait", "abort")
  \/ RestoreStops \/ RestoreNormal

-----------------------------------------------------------------------------
(* ValidateMain, from "validate" to "validated" or "abort". *)

ValidateLease ==
  /\ pc = "validate" /\ UNCHANGED boxVars /\ Stay
  /\ \/ Works /\ pc' = IF acquired /\ proc # "exited" /\ daemon # "none"
                       THEN "validate scope" ELSE "abort"
     \/ Fault /\ pc' = "abort"

ValidateScope ==
  /\ Run("validate scope", Contact, IF others THEN "abort" ELSE "validate controller",
         "abort")
  /\ Stay

\* CheckMainEndpointIsolation runs in main.
ValidateIsolation == RunInMain("validate isolation", "validated", "abort") /\ Stay

ValidateStep ==
  \/ ValidateLease \/ ValidateScope
  \/ CheckController("validate controller", "validate isolation", "abort")
  \/ ValidateIsolation

-----------------------------------------------------------------------------
(* Fence, from "fence" to "recover", and Recover, to "finalized"; either may *)
(* leave to "guard failed".                                                  *)

FenceIdle ==
  /\ pc = "fence" /\ (~acquired \/ fenced)
  /\ pc' = "recover"
  /\ Works /\ UNCHANGED boxVars /\ Stay

Fenced ==
  /\ acquired /\ ~fenced /\ OwnedStopped("fence", "fence wait")
  /\ fenced' = TRUE /\ pc' = "recover" /\ Works
  /\ UNCHANGED <<boxVars, proc, acquired, mainWasRunning>>

FenceStep ==
  \/ FenceIdle \/ Fenced
  \/ acquired /\ ~fenced /\ StopIssued("fence", "fence wait")
  \/ StopTimesOut("fence wait", "guard failed")

RecoverIdle ==
  /\ pc = "recover" /\ ~(acquired /\ fenced)
  /\ pc' = (IF acquired THEN "guard failed" ELSE "finalized")
  /\ Works /\ UNCHANGED boxVars /\ Stay

RecoverNormal ==
  /\ pc = "recover" /\ acquired /\ fenced
  /\ \/ Works /\ Contact /\ Release /\ pc' = "finalized"
     \/ Fails(Contact) /\ pc' = "guard failed" /\ UNCHANGED <<proc, acquired, fenced>>
  /\ UNCHANGED mainWasRunning

RecoverStep == RecoverIdle \/ RecoverNormal
=============================================================================
