---------------------------- MODULE DedicatedProofs ----------------------------
(***************************************************************************)
(* Proofs about DedicatedSession for every configuration of the mode, any  *)
(* number of faults and of health checks: its type invariant, that no      *)
(* health check has a command in flight once the cleanup has had the       *)
(* lease's mutex (ChecksQuiet), and that therefore main is stopped and the *)
(* lease given back at the end (DedicatedMainStopped, LeaseReleased); that *)
(* the owned daemon's exit is never lost (ExitReported) and that each step *)
(* keeps to the contract of EgressLease (LeaseKept).                       *)
(***************************************************************************)
EXTENDS DedicatedSession, LaunchProofs, SupervisorProofs

LEMMA StagesTyped ==
  /\ Stages = {1, 2, 3, 4, 5, 6} /\ CommandStages = {3, 4, 5, 6}
  /\ EventSources = {DaemonEvent, HealthEvent} /\ NoEvent \notin EventSources
  /\ "ok" \in Outcomes /\ "failed" \in Outcomes
BY DedicatedAssumption, SupervisorAssumption
   DEF DedicatedAssumption, SupervisorAssumption, CommandStages, EgressStage, StatusStage,
       Outcomes

-----------------------------------------------------------------------------
(* The inductive invariant. *)

\* The checks are cancelled before the cleanup begins, and no check starts a
\* command under a cancelled context: those in flight can only end.
CancelledFirst ==
  /\ sup # "select" => cancelled
  /\ watched => sup # "select"

WatcherTyped ==
  /\ watcher \in {"waiting", "telling exit", "telling health", "ended"}
  /\ buffer \in EventSources \cup {NoEvent}
  /\ drifted \in BOOLEAN

SessionInv ==
  SupTypeOK /\ LeaseInv /\ WatcherTyped /\ CancelledFirst /\ ChecksQuiet

LEMMA SessionInitInv == SessionInit => SessionInv
<1> SUFFICES ASSUME SessionInit PROVE SessionInv
  OBVIOUS
<1>1. SupInit /\ SignalInit
  BY DEF SessionInit
<1>2. /\ running \in [Stages -> Nat] /\ sending \in [Outcomes -> Nat]
      /\ timer \in 0 .. DebounceTicks
  BY <1>1, ConstantsTyped DEF SupInit
<1>3. SupTypeOK
  BY <1>1, <1>2 DEF SupTypeOK, SupInit, SignalTypeOK, SignalInit, Verdicts
<1>4. faults \in 0 .. MaxFaults
  BY FaultsAssumption DEF SessionInit, FaultsAssumption
<1>5. LeaseInv
  BY <1>4 DEF SessionInit, LeaseInv, LaunchTypeOK, BoxTypeOK, LeaseTypeOK, BackendTypeOK,
     FencedIsStopped, BeforeStart
<1>6. WatcherTyped /\ CancelledFirst /\ ChecksQuiet
  BY <1>1 DEF SessionInit, SupInit, WatcherTyped, CancelledFirst, ChecksQuiet
<1> QED
  BY <1>3, <1>5, <1>6 DEF SessionInv

-----------------------------------------------------------------------------
(* Checks. *)

\* What a step of a check may do to the goroutines.
CheckMoves ==
  \/ \E s \in Stages, o \in Outcomes : CheckReturns(s, o)
  \/ \E s, t \in Stages : ~CheckCtxDone /\ CheckAdvances(s, t)

\* A check keeps the counters typed, and under a cancelled context no stage gains.
LEMMA MovesKeep ==
  ASSUME SupTypeOK, CheckMoves, UNCHANGED <<signalVars, leaveVars, debounceVars, inputVars>>
  PROVE  /\ SupTypeOK'
         /\ cancelled => \A s \in Stages : running[s] = 0 => running'[s] = 0
<1>0. running \in [Stages -> Nat] /\ sending \in [Outcomes -> Nat]
  BY DEF SupTypeOK
<1>1. CASE \E s \in Stages, o \in Outcomes : CheckReturns(s, o)
  <2>1. PICK s \in Stages, o \in Outcomes : CheckReturns(s, o)
    BY <1>1
  <2>2. /\ running' \in [Stages -> Nat] /\ sending' \in [Outcomes -> Nat]
        /\ UNCHANGED checks
    BY <1>0, <2>1, RunningTyped, SendingTyped DEF CheckReturns
  <2>3. \A x \in Stages : running[x] = 0 => running'[x] = 0
    BY <1>0, <2>1 DEF CheckReturns, Dec
  <2>4. SupTypeOK'
    BY <2>2 DEF SupTypeOK, SignalTypeOK, signalVars, leaveVars, debounceVars, inputVars
  <2> QED
    BY <2>3, <2>4
<1>2. CASE \E s, t \in Stages : ~CheckCtxDone /\ CheckAdvances(s, t)
  <2>1. PICK s \in Stages, t \in Stages : ~CheckCtxDone /\ CheckAdvances(s, t)
    BY <1>2
  <2>2. running' \in [Stages -> Nat] /\ UNCHANGED <<sending, checks>>
    BY <1>0, <2>1, RunningTyped DEF CheckAdvances
  <2>3. SupTypeOK'
    BY <2>2 DEF SupTypeOK, SignalTypeOK, signalVars, leaveVars, debounceVars, inputVars
  <2> QED
    BY <2>1, <2>3 DEF CheckCtxDone
<1> QED
  BY <1>1, <1>2 DEF CheckMoves

LEMMA ChecksMove == DaemonCheck \/ WaitForMutex \/ HealthCheck => CheckMoves
<1> USE StagesTyped DEF Proceeds, CheckMoves
<1>1. CASE DaemonCheck
  BY <1>1 DEF DaemonCheck, DaemonStage
<1>2. CASE WaitForMutex
  BY <1>2 DEF WaitForMutex, TakeMutex, LockStage
<1>3. CASE HealthCheck
  BY <1>3 DEF HealthCheck, CheckStatus, CheckControllerHealth, CheckScope,
     CheckRuntimeEgress, CommandPasses, CommandFails, StatusStage, ControllerStage, ScopeStage,
     EgressStage
<1> QED
  BY <1>1, <1>2, <1>3

\* The commands of a check neither start nor end the owned daemon.
LEMMA ChecksKeepLease ==
  ASSUME LeaseInv, DaemonCheck \/ WaitForMutex \/ HealthCheck
  PROVE  LeaseInv'
<1>1. AnyCommand /\ (Works \/ Fault)
  BY DEF AnyCommand, DaemonCheck, WaitForMutex, TakeMutex, HealthCheck, CheckStatus,
     CheckControllerHealth, CheckScope, CheckRuntimeEgress, CommandPasses, CommandFails,
     Works, Fails
<1>2. UNCHANGED <<pc, leaseVars, backendVars, finalVars>>
  BY DEF DaemonCheck, WaitForMutex, HealthCheck, Unchecked
<1>3. /\ BackendTypeOK' /\ mustStop' \in BOOLEAN /\ watched' \in BOOLEAN
      /\ cleanupErr' \in BOOLEAN /\ UNCHANGED pc
  BY <1>2 DEF LeaseInv, LaunchTypeOK, BackendTypeOK, backendVars, finalVars
<1> QED
  BY <1>1, <1>2, <1>3, CommandStep

LEMMA CheckKeeps ==
  ASSUME SessionInv, DaemonCheck \/ WaitForMutex \/ HealthCheck
  PROVE  SessionInv'
<1>1. UNCHANGED <<leaveVars, debounceVars, inputVars, signalVars, pc, finalVars, watchVars,
                  drifted>>
  BY DEF DaemonCheck, WaitForMutex, HealthCheck, Unchecked
<1>2. SupTypeOK' /\ (cancelled => \A s \in Stages : running[s] = 0 => running'[s] = 0)
  BY <1>1, MovesKeep, ChecksMove DEF SessionInv
<1>3. WatcherTyped' /\ CancelledFirst'
  BY <1>1 DEF SessionInv, WatcherTyped, CancelledFirst, leaveVars, finalVars, watchVars
<1>4. ChecksQuiet'
  BY <1>1, <1>2, StagesTyped DEF SessionInv, CancelledFirst, ChecksQuiet, finalVars
<1> QED
  BY <1>2, <1>3, <1>4, ChecksKeepLease DEF SessionInv

-----------------------------------------------------------------------------
(* The Supervisor's loop. *)

\* While Run loops, nothing has been cleaned up.
LEMMA LoopKeeps ==
  ASSUME SessionInv,
         \/ WatcherStep \/ DeliverEvent \/ SeeEventsClosed \/ SupervisorAlone
         \/ AttachedExits \/ SignalStep \/ GatewayDrifts
  PROVE  SessionInv'
<1>1. SupTypeOK'
  <2>1. CASE DeliverEvent
    <3>1. buffer \in EventSources /\ UNCHANGED signalVars
      BY <2>1 DEF DeliverEvent, SessionInv, WatcherTyped
    <3> QED
      BY <2>1, <3>1, SupTyped DEF DeliverEvent, SessionInv
  <2>2. CASE SeeEventsClosed \/ SupervisorAlone \/ AttachedExits
    BY <2>2, SupTyped DEF SeeEventsClosed, SupervisorAlone, Quiet, AttachedExits, SessionInv
  <2>3. CASE WatcherStep \/ SignalStep \/ GatewayDrifts
    <3>1. UNCHANGED supVars
      BY <2>3 DEF WatcherStep, SignalStep, GatewayDrifts
    <3>2. SignalTypeOK'
      BY <2>3 DEF WatcherStep, SignalStep, SignalArrives, CancelContext, GatewayDrifts,
         SignalTypeOK, signalVars, SessionInv, SupTypeOK
    <3> QED
      BY <3>1, <3>2 DEF SessionInv, SupTypeOK, supVars, leaveVars, debounceVars, checkVars,
         inputVars
  <2> QED
    BY <2>1, <2>2, <2>3
<1>2. LeaseInv'
  <2>1. UNCHANGED <<pc, leaseVars, backendVars, finalVars, boxVars>> /\ (Works \/ Fault)
    BY DEF WatcherStep, DeliverEvent, SeeEventsClosed, SupervisorAlone, Quiet, AttachedExits,
       SignalStep, GatewayDrifts, launchVars, Works, Fault
  <2>2. /\ BackendTypeOK' /\ mustStop' \in BOOLEAN /\ watched' \in BOOLEAN
        /\ cleanupErr' \in BOOLEAN /\ UNCHANGED pc
    BY <2>1 DEF SessionInv, LeaseInv, LaunchTypeOK, BackendTypeOK, backendVars, finalVars
  <2> QED
    BY <2>1, <2>2, CommandStep DEF AnyCommand, SessionInv
<1>3. WatcherTyped'
  <2>1. CASE WatcherStep
    BY <2>1, StagesTyped DEF WatcherStep, ExitNoticed, HealthTick, EventSent, WatcherCancelled,
       WatcherTyped, SessionInv
  <2>2. CASE ~WatcherStep
    <3>1. UNCHANGED watcher /\ buffer' \in {buffer, NoEvent} /\ drifted' \in {drifted, ~drifted}
      BY <2>2 DEF DeliverEvent, SeeEventsClosed, SupervisorAlone, Quiet, AttachedExits,
         SignalStep, GatewayDrifts, watchVars
    <3> QED
      BY <3>1 DEF SessionInv, WatcherTyped
  <2> QED
    BY <2>1, <2>2
<1>4. /\ UNCHANGED <<watched, pc>>
      /\ sup' = "select" => sup = "select"
      /\ sup' # sup => cancelled'
      /\ cancelled => cancelled'
      /\ sup # "select" => UNCHANGED running
  <2>1. UNCHANGED <<watched, pc>>
    BY DEF WatcherStep, DeliverEvent, SeeEventsClosed, SupervisorAlone, Quiet, AttachedExits,
       SignalStep, GatewayDrifts, launchVars, finalVars
  <2>2. CASE UNCHANGED supVars
    BY <2>1, <2>2 DEF supVars, leaveVars, checkVars
  <2>3. CASE DeliverEvent \/ SeeEventsClosed \/ AttachedExits
    BY <2>1, <2>3 DEF DeliverEvent, OnEvent, SeeEventsClosed, OnEventsClosed, AttachedExits,
       BackendExits, leaveVars, checkVars
  <2>4. CASE SupervisorAlone
    <3>1. \/ UNCHANGED leaveVars
          \/ sup = "select" /\ \E why : Leave(why)
      BY <2>4 DEF SupervisorAlone, OnSignal, OnBackendExit, OnDebounce, OnOutcome,
         OutcomeSent, Tick
    <3>2. sup # "select" => UNCHANGED running
      BY <2>4 DEF SupervisorAlone, OnSignal, OnBackendExit, OnDebounce, OnOutcome, OutcomeSent,
         SendOutcome, DropOutcome
    <3>3. UNCHANGED leaveVars => UNCHANGED <<sup, cancelled>>
      BY DEF leaveVars
    <3>4. ASSUME NEW why, Leave(why) PROVE sup' = "cleanup" /\ cancelled'
      BY <3>4 DEF Leave, CancelChecks
    <3> QED
      BY <2>1, <3>1, <3>2, <3>3, <3>4
  <2>5. WatcherStep \/ SignalStep \/ GatewayDrifts => UNCHANGED supVars
    BY DEF WatcherStep, SignalStep, GatewayDrifts
  <2> QED
    BY <2>2, <2>3, <2>4, <2>5
<1>5. CancelledFirst' /\ ChecksQuiet'
  BY <1>4 DEF SessionInv, CancelledFirst, ChecksQuiet
<1> QED
  BY <1>1, <1>2, <1>3, <1>5 DEF SessionInv

-----------------------------------------------------------------------------
(* The cleanup, and everybody else. *)

\* The finalization leaves "fence" only with the mutex, and never comes back to it.
LEMMA CleanupKeeps ==
  ASSUME SessionInv, CleanupBegins \/ CleanupStep
  PROVE  SessionInv'
<1>1. /\ UNCHANGED <<signalVars, supVars, watchVars, drifted>> /\ sup = "cleanup"
  BY DEF CleanupBegins, CleanupStep
<1>2. UNCHANGED <<sup, cancelled, running>>
  BY <1>1 DEF supVars, leaveVars, checkVars
<1>3. SupTypeOK' /\ WatcherTyped'
  <2>1. SupTypeOK'
    BY <1>1 DEF SessionInv, SupTypeOK, SignalTypeOK, signalVars, supVars, leaveVars,
       debounceVars, checkVars, inputVars
  <2>2. WatcherTyped'
    BY <1>1 DEF SessionInv, WatcherTyped, watchVars
  <2> QED
    BY <2>1, <2>2
<1>4. LeaseInv'
  BY LauncherKeepsLease, FinalizeKeepsLease DEF SessionInv, CleanupBegins, CleanupStep
<1>5. CancelledFirst'
  BY <1>1, <1>2 DEF SessionInv, CancelledFirst
<1>6. ChecksQuiet'
  <2>1. CASE CleanupBegins
    BY <2>1 DEF CleanupBegins, SessionEnds, ChecksQuiet
  <2>2. CASE CleanupStep
    <3>1. UNCHANGED watched
      BY <2>2 DEF CleanupStep, FinalizeStep, GuardStep, GuardFinished, CleanupHerdr,
         CleanupStop, CleanupRemove, Cleanup, FinalProbeCleanup, ProbeRemains, finalVars
    <3>2. CASE pc = "fence"
      BY <1>2, <2>2, <3>2 DEF CleanupStep, MutexFree, ChecksQuiet
    <3>3. CASE pc # "fence"
      BY <1>2, <3>1, <3>3 DEF SessionInv, ChecksQuiet
    <3> QED
      BY <3>2, <3>3
  <2> QED
    BY <2>1, <2>2
<1> QED
  BY <1>3, <1>4, <1>5, <1>6 DEF SessionInv

\* The sandboxes change under the session; Run returns.
LEMMA WorldKeeps ==
  ASSUME SessionInv, SandboxesChange \/ CleanupDone \/ UNCHANGED sessionVars
  PROVE  SessionInv'
<1>1. /\ UNCHANGED <<signalVars, debounceVars, checkVars, inputVars, pc, watched, watchVars,
                     drifted, cancelled>>
      /\ UNCHANGED leaveVars \/ CleanupDone
  BY DEF SandboxesChange, OwnedDaemon, Meddle, OwnedInterrupted, CleanupDone, CleanupReturns,
     Quiet, launchVars, finalVars, supVars, leaveVars, sessionVars
<1>2. SupTypeOK'
  <2>1. CASE CleanupDone
    <3>1. cleanupErr \in BOOLEAN
      BY DEF SessionInv, LeaseInv, LaunchTypeOK
    <3> QED
      BY <1>1, <2>1, <3>1 DEF CleanupDone, CleanupReturns, SessionInv, SupTypeOK, SignalTypeOK,
         signalVars, debounceVars, checkVars, inputVars
  <2>2. CASE UNCHANGED leaveVars
    BY <1>1, <2>2 DEF SessionInv, SupTypeOK, SignalTypeOK, signalVars, leaveVars,
       debounceVars, checkVars, inputVars
  <2> QED
    BY <1>1, <2>1, <2>2
<1>3. LeaseInv'
  <2>1. CASE OwnedDaemon \/ Meddle
    BY <2>1, OthersKeepLease DEF SessionInv
  <2>2. CASE OwnedInterrupted
    <3>1. UNCHANGED <<backendVars, finalVars>> /\ Works
      BY <2>2 DEF OwnedInterrupted, Works
    <3>2. BoxTypeOK' /\ daemon' = "none"
      BY <2>2, <3>1, DaemonEndsTyped DEF OwnedInterrupted, SessionInv, LeaseInv, LaunchTypeOK
    <3>3. /\ BackendTypeOK' /\ mustStop' \in BOOLEAN
          /\ watched' \in BOOLEAN /\ cleanupErr' \in BOOLEAN
      BY <3>1 DEF SessionInv, LeaseInv, LaunchTypeOK, BackendTypeOK, backendVars, finalVars
    <3> QED
      BY <2>2, <3>2, <3>3 DEF OwnedInterrupted, SessionInv, LeaseInv, LaunchTypeOK, LeaseTypeOK,
         FencedIsStopped
  <2>3. CASE UNCHANGED launchVars
    BY <2>3, LeaseInvStep DEF SessionInv
  <2>4. CleanupDone \/ UNCHANGED sessionVars => UNCHANGED launchVars
    BY DEF CleanupDone, Quiet, sessionVars
  <2> QED
    BY <2>1, <2>2, <2>3, <2>4 DEF SandboxesChange
<1>4. WatcherTyped'
  BY <1>1 DEF SessionInv, WatcherTyped, watchVars
<1>5. CancelledFirst' /\ ChecksQuiet'
  BY <1>1 DEF SessionInv, CancelledFirst, ChecksQuiet, CleanupDone, CleanupReturns, leaveVars,
     checkVars
<1> QED
  BY <1>2, <1>3, <1>4, <1>5 DEF SessionInv

LEMMA SessionInvHolds == SessionSpec => []SessionInv
<1>1. SessionInv /\ [SessionNext]_sessionVars => SessionInv'
  BY CheckKeeps, LoopKeeps, CleanupKeeps, WorldKeeps DEF SessionNext
<1> QED
  BY <1>1, SessionInitInv, PTL DEF SessionSpec

\* The session, the launch around it and the Supervisor in it keep their types.
THEOREM SessionTypeCorrect == SessionSpec => []SessionTypeOK
<1>1. SessionInv => SessionTypeOK
  BY DEF SessionInv, LeaseInv, WatcherTyped, SessionTypeOK
<1> QED
  BY <1>1, SessionInvHolds, PTL

\* No health check has a command in flight beside Fence, or between Fence and
\* Recover, when the mutex is free for a check that was queued on it.
THEOREM QuietAfterFence == SessionSpec => []ChecksQuiet
<1>1. SessionInv => ChecksQuiet
  BY DEF SessionInv
<1> QED
  BY <1>1, SessionInvHolds, PTL

-----------------------------------------------------------------------------
(* What the session leaves behind. *)

\* Main is down from the finalization's stop on.  Health checks could start it
\* again: what keeps them from it is ChecksQuiet.
DownAtEnd ==
  /\ pc # "watch" => watched
  /\ pc \in StopsDone /\ Dedicated /\ mustStop /\ ~cleanupErr => main # "running"

EndInv == HeldInv /\ DownAtEnd

LEMMA EndInit == SessionInit => EndInv
BY DEF SessionInit, EndInv, HeldInv, DownAtEnd, Untaken, Holding, PastGuard, StopsDone

\* A step that is not the cleanup's is of no account to the lease, ...
LEMMA HeldApart ==
  ASSUME HeldInv, UNCHANGED <<pc, leaseVars, finalVars>>
  PROVE  HeldInv'
BY DEF HeldInv, leaseVars, finalVars

\* ... nor to main, if it leaves main alone or stops it.
LEMMA DownApart ==
  ASSUME DownAtEnd, UNCHANGED <<pc, cfg, finalVars>>,
         pc \in StopsDone => main' \in {main, Stopped}
  PROVE  DownAtEnd'
BY DEF DownAtEnd, finalVars, Dedicated, Stopped

LEMMA ChecksEnd ==
  ASSUME SessionInv, EndInv, DaemonCheck \/ WaitForMutex \/ HealthCheck
  PROVE  EndInv'
<1>1. UNCHANGED <<pc, cfg, leaseVars, finalVars>>
  BY DEF DaemonCheck, WaitForMutex, HealthCheck, Unchecked, backendVars
<1>2. pc \in StopsDone => UNCHANGED main
  <2>1. CASE DaemonCheck \/ WaitForMutex
    BY <2>1 DEF DaemonCheck, WaitForMutex, TakeMutex, boxVars
  <2>2. CASE HealthCheck
    <3>1. \E s \in CommandStages : running[s] > 0
      BY <2>2, StagesTyped DEF HealthCheck, CheckStatus, CheckControllerHealth, CheckScope,
         CheckRuntimeEgress, CommandPasses, CommandFails, Proceeds, CheckReturns,
         CheckAdvances, StatusStage, ControllerStage, ScopeStage, EgressStage
    <3>2. pc \notin StopsDone
      <4>1. ~(\A s \in CommandStages : running[s] = 0)
        BY <3>1
      <4> QED
        BY <4>1 DEF SessionInv, ChecksQuiet, EndInv, DownAtEnd, StopsDone
    <3> QED
      BY <3>2
  <2> QED
    BY <2>1, <2>2
<1> QED
  BY <1>1, <1>2, HeldApart, DownApart DEF EndInv

LEMMA LoopEnds ==
  ASSUME EndInv,
         \/ WatcherStep \/ DeliverEvent \/ SeeEventsClosed \/ SupervisorAlone
         \/ AttachedExits \/ SignalStep \/ GatewayDrifts
         \/ CleanupDone \/ UNCHANGED sessionVars
  PROVE  EndInv'
<1>1. UNCHANGED <<pc, cfg, leaseVars, finalVars, main>>
  BY DEF WatcherStep, DeliverEvent, SeeEventsClosed, SupervisorAlone, Quiet, AttachedExits,
     SignalStep, GatewayDrifts, CleanupDone, sessionVars, launchVars, boxVars, backendVars
<1> QED
  BY <1>1, HeldApart, DownApart DEF EndInv

LEMMA CleanupEndsDown ==
  ASSUME SessionInv, EndInv, CleanupBegins \/ CleanupStep
  PROVE  EndInv'
<1>1. HeldInv'
  BY LauncherKeepsHeld, FinalizeKeepsHeld DEF EndInv, CleanupBegins, CleanupStep
<1>2. DownAtEnd'
  <2> USE DEF EndInv, DownAtEnd, StopsDone
  <2>1. CASE CleanupBegins
    BY <2>1 DEF CleanupBegins, SessionEnds
  <2>2. CASE GuardStep
    <3>1. UNCHANGED finalVars /\ pc \in {"fence", "fence wait", "recover"}
          /\ pc' \in {"fence wait", "recover", "finalized", "guard failed"}
      BY <2>2 DEF GuardStep, FenceStep, FenceIdle, Fenced, StopIssued, StopTimesOut,
         OwnedStopped, RecoverStep, RecoverIdle, RecoverNormal, Release, Stay
    <3> QED
      BY <3>1 DEF finalVars
  <2>3. CASE GuardFinished
    BY <2>3 DEF GuardFinished, CleansMain, backendVars
  <2>4. CASE CleanupHerdr
    BY <2>4 DEF CleanupHerdr, Cleanup
  <2>5. CASE CleanupStop
    <3>1. CASE Works /\ StopMain
      BY <2>5, <3>1 DEF CleanupStop, Cleanup, StopMain, Stopped
    <3>2. CASE ~(Works /\ StopMain)
      BY <2>5, <3>2 DEF CleanupStop, Cleanup, backendVars, Dedicated
    <3> QED
      BY <3>1, <3>2
  <2>6. CASE CleanupRemove
    <3>1. /\ cleanupErr' \/ (main' \in {main, "absent"} /\ UNCHANGED cleanupErr)
          /\ UNCHANGED <<cfg, mustStop, watched>> /\ pc = "cleanup remove"
      BY <2>6 DEF CleanupRemove, Cleanup, RemoveMain, boxVars, backendVars
    <3> QED
      BY <3>1 DEF Dedicated
  <2>7. CASE FinalProbeCleanup
    <3>1. UNCHANGED <<main, cfg, mustStop, watched, cleanupErr>> /\ pc = "cleanup probe"
      BY <2>7 DEF FinalProbeCleanup, CleanupProbe, finalVars, Contact, Fails, boxVars
    <3> QED
      BY <3>1 DEF Dedicated
  <2>8. CASE ProbeRemains
    BY <2>8 DEF ProbeRemains
  <2> QED
    BY <2>1, <2>2, <2>3, <2>4, <2>5, <2>6, <2>7, <2>8 DEF CleanupStep, FinalizeStep
<1> QED
  BY <1>1, <1>2 DEF EndInv

LEMMA WorldEnds ==
  ASSUME EndInv, SandboxesChange
  PROVE  EndInv'
<1>1. HeldInv'
  <2>1. CASE OwnedDaemon \/ Meddle
    BY <2>1, LauncherKeepsHeld DEF EndInv
  <2>2. CASE OwnedInterrupted
    BY <2>2 DEF OwnedInterrupted, EndInv, HeldInv, finalVars
  <2> QED
    BY <2>1, <2>2 DEF SandboxesChange
<1>2. UNCHANGED <<pc, cfg, finalVars>>
  BY DEF SandboxesChange, OwnedDaemon, Meddle, OwnedInterrupted, backendVars
<1>3. pc \in StopsDone => main' \in {main, Stopped}
  <2>1. CASE OwnedDaemon
    BY <2>1 DEF OwnedDaemon, ProcComesUp, ProcExits, ProcCrashes, DaemonEnds, boxVars
  <2>2. CASE Meddle
    BY <2>2 DEF Meddle, StopMain, Contact
  <2>3. CASE OwnedInterrupted
    BY <2>3 DEF OwnedInterrupted, DaemonEnds
  <2> QED
    BY <2>1, <2>2, <2>3 DEF SandboxesChange
<1> QED
  BY <1>1, <1>2, <1>3, DownApart DEF EndInv

LEMMA EndInvHolds == SessionSpec => []EndInv
<1>1. SessionInv /\ EndInv /\ [SessionNext]_sessionVars => EndInv'
  BY ChecksEnd, LoopEnds, CleanupEndsDown, WorldEnds DEF SessionNext
<1> QED
  BY <1>1, SessionInvHolds, EndInit, PTL DEF SessionSpec

\* A watched session that does not report a failed cleanup ends with main stopped,
\* although its health checks start main themselves (DedicatedMainStopped, of
\* CheckRuntimeEgress against Fence, Recover and CleanupMain).
THEOREM SessionStopsMain == SessionSpec => []DedicatedMainStopped
<1>1. EndInv => DedicatedMainStopped
  BY DEF EndInv, DownAtEnd, DedicatedMainStopped, StopsDone
<1> QED
  BY <1>1, EndInvHolds, PTL

\* It gives the lease back, whatever health checks, Ctrl+C or others did to the
\* daemon meanwhile (LeaseReleased, of Fence and Recover).
THEOREM SessionReleases == SessionSpec => []LeaseReleased
<1>1. SessionInv /\ EndInv => LeaseReleased
  BY DEF SessionInv, EndInv, LeaseInv, LaunchTypeOK, HeldInv, PastGuard, LeaseReleased
<1> QED
  BY <1>1, SessionInvHolds, EndInvHolds, PTL

-----------------------------------------------------------------------------
(* The exit of the owned daemon. *)

\* What is left of the exit once the goroutine of Watch has told it.
ReportComing ==
  \/ DaemonEvent \in {buffer, pendingEvent}
  \/ running[DaemonStage] > 0 \/ sending["failed"] > 0 \/ checks = "failed"

\* The goroutine's last event is the exit's, unless its context ended it, and a
\* check gives up its outcome only after the loop.
ExitCarried ==
  sup = "select" =>
    /\ ~cancelled
    /\ watcher = "ended" /\ ~ctxDone => buffer # HealthEvent /\ ReportComing

LEMMA ReportKept ==
  ASSUME ExitCarried, UNCHANGED <<sup, cancelled, ctxDone, watcher, buffer, pendingEvent>>,
         running[DaemonStage] > 0 \/ sending["failed"] > 0 \/ checks = "failed" =>
           running'[DaemonStage] > 0 \/ sending'["failed"] > 0 \/ checks' = "failed"
  PROVE  ExitCarried'
BY DEF ExitCarried, ReportComing

\* A health check leaves the daemon's event alone; the daemon's own check fails.
LEMMA ChecksReport ==
  ASSUME SessionInv, ExitCarried, DaemonCheck \/ WaitForMutex \/ HealthCheck
  PROVE  ExitCarried'
<1>1. /\ UNCHANGED <<sup, cancelled, ctxDone, watcher, buffer, pendingEvent>>
      /\ running \in [Stages -> Nat] /\ sending \in [Outcomes -> Nat]
  BY DEF DaemonCheck, WaitForMutex, HealthCheck, Unchecked, leaveVars, debounceVars,
     signalVars, watchVars, SessionInv, SupTypeOK
<1>2. CASE DaemonCheck
  <2>1. sending'["failed"] = sending["failed"] + 1
    BY <1>1, <1>2, StagesTyped DEF DaemonCheck, CheckReturns, Inc
  <2> QED
    BY <1>1, <2>1, StagesTyped, ReportKept
<1>3. CASE WaitForMutex \/ HealthCheck
  <2>1. PICK s \in 2 .. 6 : \/ \E o \in Outcomes : CheckReturns(s, o)
                            \/ \E t \in 2 .. 6 : CheckAdvances(s, t)
    BY <1>3, StagesTyped DEF WaitForMutex, TakeMutex, HealthCheck, CheckStatus,
       CheckControllerHealth, CheckScope, CheckRuntimeEgress, CommandPasses, CommandFails,
       Proceeds, LockStage, StatusStage, ControllerStage, ScopeStage, EgressStage
  <2>2. /\ UNCHANGED checks /\ running'[1] = running[1]
        /\ sending["failed"] > 0 => sending'["failed"] > 0
    BY <1>1, <2>1, StagesTyped DEF CheckReturns, CheckAdvances, Inc, Dec
  <2> QED
    BY <1>1, <2>2, StagesTyped, ReportKept DEF DaemonStage
<1> QED
  BY <1>2, <1>3

\* The exit's event takes the place of whatever waits for its check.
LEMMA EventReports ==
  ASSUME SessionInv, ExitCarried, DeliverEvent
  PROVE  ExitCarried'
<1>1. /\ UNCHANGED <<sup, cancelled, ctxDone, watcher>> /\ buffer' = NoEvent
      /\ buffer \in EventSources /\ OnEvent(buffer) /\ running \in [Stages -> Nat]
  BY DEF DeliverEvent, OnEvent, leaveVars, signalVars, SessionInv, WatcherTyped, SupTypeOK
<1>2. HealthEvent # NoEvent /\ FirstStage[DaemonEvent] = 1 /\ DaemonStage = 1
  BY StagesTyped, DedicatedAssumption DEF DedicatedAssumption, DaemonStage
<1>3. ASSUME buffer = DaemonEvent
      PROVE  pendingEvent' = DaemonEvent \/ running'[DaemonStage] > 0
  <2>1. CASE DebounceTicks = 0
    BY <1>1, <1>2, <1>3, <2>1, StagesTyped DEF OnEvent, ScheduleCheck, StartCheck, Inc
  <2>2. CASE DebounceTicks # 0
    BY <1>1, <1>3, <2>2 DEF OnEvent, ScheduleCheck
  <2> QED
    BY <2>1, <2>2
<1>4. buffer # HealthEvent => buffer = DaemonEvent
  BY <1>1, StagesTyped
<1> QED
  BY <1>1, <1>2, <1>3, <1>4 DEF ExitCarried, ReportComing

\* The loop turns the event into its check, and reads the check's failure.
LEMMA LoopReports ==
  ASSUME SessionInv, ExitCarried, SupervisorAlone
  PROVE  ExitCarried'
<1>1. /\ UNCHANGED <<ctxDone, watcher, buffer>>
      /\ running \in [Stages -> Nat] /\ sending \in [Outcomes -> Nat]
      /\ checks \in Outcomes \cup {"empty"}
      /\ pendingEvent \in EventSources \cup {NoEvent}
  BY DEF SupervisorAlone, Quiet, signalVars, watchVars, SessionInv, SupTypeOK
<1>2. CASE OnSignal \/ OnBackendExit
  BY <1>2 DEF OnSignal, OnBackendExit, Leave, ExitCarried
<1>3. CASE OnDebounce
  <2>1. UNCHANGED <<sup, cancelled, sending, checks>>
    BY <1>3 DEF OnDebounce, leaveVars
  <2>2. CASE pendingEvent = DaemonEvent
    <3>1. FirstStage[DaemonEvent] = 1 /\ DaemonStage = 1 /\ DaemonEvent # NoEvent
      BY StagesTyped, DedicatedAssumption DEF DedicatedAssumption, DaemonStage
    <3>2. running'[DaemonStage] = running[DaemonStage] + 1
      BY <1>1, <1>3, <2>2, <3>1, StagesTyped DEF OnDebounce, StartPendingCheck, StartCheck, Inc
    <3> QED
      BY <1>1, <2>1, <3>1, <3>2, StagesTyped DEF ExitCarried, ReportComing
  <2>3. CASE pendingEvent # DaemonEvent
    <3>1. running'[DaemonStage] >= running[DaemonStage]
      BY <1>1, <1>3, <2>3, StagesTyped, ConstantsTyped
         DEF OnDebounce, StartPendingCheck, StartCheck, Inc, DaemonStage
    <3>2. running[DaemonStage] > 0 => running'[DaemonStage] > 0
      BY <1>1, <3>1, StagesTyped, RunningTyped, ConstantsTyped, <1>3
         DEF DaemonStage, OnDebounce, StartPendingCheck, StartCheck
    <3> QED
      BY <1>1, <2>1, <2>3, <3>2 DEF ExitCarried, ReportComing
  <2> QED
    BY <2>2, <2>3
<1>4. CASE OnOutcome
  <2>1. CASE checks = "failed" /\ Leave("check failed")
    BY <2>1 DEF Leave, ExitCarried
  <2>2. CASE checks = "ok" /\ UNCHANGED <<leaveVars, debounceVars, inputVars>>
    BY <1>1, <1>4, <2>2, ReportKept DEF OnOutcome, leaveVars, debounceVars
  <2> QED
    BY <1>4, <2>1, <2>2 DEF OnOutcome
<1>5. CASE OutcomeSent
  <2>1. UNCHANGED <<sup, cancelled, pendingEvent, running>>
    BY <1>5 DEF OutcomeSent, leaveVars, debounceVars, SendOutcome, DropOutcome
  <2>2. PICK o \in Outcomes : SendOutcome(o) \/ DropOutcome(o)
    BY <1>5 DEF OutcomeSent
  <2>3. CASE SendOutcome(o)
    <3>1. /\ checks' = o /\ checks = "empty"
          /\ o # "failed" => sending'["failed"] = sending["failed"]
      BY <1>1, <2>3, StagesTyped DEF SendOutcome, Dec
    <3> QED
      BY <1>1, <2>1, <3>1, ReportKept
  <2>4. CASE DropOutcome(o)
    BY <1>1, <2>1, <2>4 DEF DropOutcome, CheckCtxDone, ExitCarried
  <2> QED
    BY <2>2, <2>3, <2>4
<1>6. CASE Tick
  BY <1>1, <1>6, ReportKept DEF Tick, leaveVars, checkVars
<1> QED
  BY <1>2, <1>3, <1>4, <1>5, <1>6 DEF SupervisorAlone

LEMMA WatcherReports ==
  ASSUME ExitCarried,
         WatcherStep \/ SeeEventsClosed \/ AttachedExits \/ SignalStep \/ GatewayDrifts
  PROVE  ExitCarried'
<1>1. /\ UNCHANGED <<sup, cancelled, pendingEvent, running, sending, checks>>
      /\ ctxDone => ctxDone'
  BY DEF WatcherStep, SeeEventsClosed, OnEventsClosed, AttachedExits, BackendExits, SignalStep,
     GatewayDrifts, CancelContext, SignalArrives, supVars, leaveVars, debounceVars, checkVars,
     signalVars
<1>2. CASE WatcherStep
  <2>1. DaemonEvent # HealthEvent /\ UNCHANGED ctxDone
    BY <1>2 DEF DaemonEvent, HealthEvent, WatcherStep, signalVars
  <2>2. CASE ExitNoticed \/ HealthTick \/ WatcherCancelled
    BY <1>1, <2>1, <2>2 DEF ExitNoticed, HealthTick, WatcherCancelled, ExitCarried
  <2>3. CASE EventSent
    <3>1. (buffer' = DaemonEvent /\ watcher' = "ended") \/ watcher' = "waiting"
      BY <2>3 DEF EventSent
    <3>2. sup' = "select" => ~cancelled'
      BY <1>1 DEF ExitCarried
    <3>3. buffer' = DaemonEvent => buffer' # HealthEvent /\ ReportComing'
      BY <2>1 DEF ReportComing, DaemonEvent, HealthEvent
    <3> QED
      BY <3>1, <3>2, <3>3 DEF ExitCarried
  <2> QED
    BY <1>2, <2>2, <2>3 DEF WatcherStep
<1>3. CASE SeeEventsClosed \/ AttachedExits \/ SignalStep \/ GatewayDrifts
  <2>1. UNCHANGED <<watcher, buffer>>
    BY <1>3 DEF SeeEventsClosed, AttachedExits, SignalStep, GatewayDrifts, watchVars
  <2> QED
    BY <1>1, <2>1 DEF ExitCarried, ReportComing
<1> QED
  BY <1>2, <1>3

LEMMA CleanupReports ==
  ASSUME ExitCarried,
         \/ CleanupBegins \/ CleanupStep \/ CleanupDone \/ SandboxesChange
         \/ UNCHANGED sessionVars
  PROVE  ExitCarried'
<1>1. CASE CleanupBegins \/ CleanupStep \/ CleanupDone
  <2>1. sup' # "select"
    BY <1>1 DEF CleanupBegins, CleanupStep, CleanupDone, CleanupReturns, supVars, leaveVars
  <2> QED
    BY <2>1 DEF ExitCarried
<1>2. CASE SandboxesChange \/ UNCHANGED sessionVars
  <2>1. UNCHANGED <<sup, cancelled, ctxDone, watcher, buffer, pendingEvent, running, sending,
                    checks>>
    BY <1>2 DEF SandboxesChange, sessionVars, supVars, leaveVars, debounceVars, checkVars,
       signalVars, watchVars
  <2> QED
    BY <2>1, ReportKept
<1> QED
  BY <1>1, <1>2

\* The exit of the owned daemon is never lost between the goroutine of Watch, the
\* channel, the debounce and the check, however many health events, outcomes and
\* checks go the same way (ExitReported, of Watch and Run).
THEOREM ExitNeverLost == SessionSpec => []ExitReported
<1>1. SessionInit => ExitCarried
  BY DEF SessionInit, SupInit, ExitCarried
<1>2. SessionInv /\ ExitCarried /\ [SessionNext]_sessionVars => ExitCarried'
  BY ChecksReport, EventReports, LoopReports, WatcherReports, CleanupReports DEF SessionNext
<1>3. ExitCarried => ExitReported
  BY DEF ExitCarried, ReportComing, ExitReported
<1> QED
  BY <1>1, <1>2, <1>3, SessionInvHolds, PTL DEF SessionSpec

-----------------------------------------------------------------------------
(* The session under the contract of the lease. *)

LEMMA CheckRefines ==
  ASSUME DaemonCheck \/ WaitForMutex \/ HealthCheck
  PROVE  Refines
<1>1. AnyCommand /\ UNCHANGED <<acquired, fenced>>
  BY DEF AnyCommand, DaemonCheck, WaitForMutex, TakeMutex, HealthCheck, CheckStatus,
     CheckControllerHealth, CheckScope, CheckRuntimeEgress, CommandPasses, CommandFails,
     Fails, Unchecked, leaseVars
<1> QED
  BY <1>1, CommandRefines

LEMMA SessionRefines ==
  ASSUME SessionInv, EndInv, [SessionNext]_sessionVars
  PROVE  Refines
<1>1. LeaseInv /\ HeldInv
  BY DEF SessionInv, EndInv
<1>2. CASE DaemonCheck \/ WaitForMutex \/ HealthCheck
  BY <1>2, CheckRefines
<1>3. CASE \/ WatcherStep \/ DeliverEvent \/ SeeEventsClosed \/ SupervisorAlone
           \/ AttachedExits \/ SignalStep \/ GatewayDrifts \/ CleanupDone
           \/ UNCHANGED sessionVars
  <2>1. UNCHANGED <<boxVars, acquired, fenced>>
    BY <1>3 DEF WatcherStep, DeliverEvent, SeeEventsClosed, SupervisorAlone, Quiet,
       AttachedExits, SignalStep, GatewayDrifts, CleanupDone, sessionVars, launchVars, leaseVars
  <2> QED
    BY <2>1, CommandRefines DEF AnyCommand
<1>4. CASE CleanupBegins
  BY <1>1, <1>4, OthersRefine DEF CleanupBegins
<1>5. CASE CleanupStep
  BY <1>1, <1>5, GuardRefines, OthersRefine DEF CleanupStep, FinalizeStep, GuardStep
<1>6. CASE SandboxesChange
  <2>1. CASE OwnedInterrupted
    BY <2>1, CommandRefines DEF OwnedInterrupted
  <2> QED
    BY <1>1, <1>6, <2>1, OwnedDaemonRefines, OthersRefine DEF SandboxesChange
<1> QED
  BY <1>2, <1>3, <1>4, <1>5, <1>6 DEF SessionNext

\* Each step of a watched session, its health checks, Ctrl+C and its finalization, is
\* a step of EgressLease or leaves lease and daemon alone: the session keeps to the
\* contract that LaunchImplementsLease shows for the launch around it, and gives the
\* lease back at its end.
THEOREM SessionKeepsLease == SessionSpec => LeaseKept
<1>1. SessionInv /\ EndInv /\ [SessionNext]_sessionVars
        => [Guard!LeaseSpecNext]_Guard!egressVars
  BY SessionRefines DEF Refines
<1>2. SessionSpec => [][Guard!LeaseSpecNext]_Guard!egressVars
  BY <1>1, SessionInvHolds, EndInvHolds, PTL DEF SessionSpec
<1> QED
  BY <1>2, SessionReleases, PTL DEF LeaseKept
=============================================================================
