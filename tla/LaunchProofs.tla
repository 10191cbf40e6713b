----------------------------- MODULE LaunchProofs -----------------------------
(***************************************************************************)
(* Type correctness of a launch, which includes that the owned daemon      *)
(* answers exactly while its process is up, and that a fenced lease has no *)
(* daemon of its own; that it implements EgressLease, and gives the lease  *)
(* back unless it reports that its cleanup failed.  For every              *)
(* configuration, any number of faults and whatever others do.             *)
(***************************************************************************)
EXTENDS Launch, TLAPS

\* Where Acquire has not yet started its process.
BeforeStart == {"acquire", "controller", "scope", "stop daemon", "start daemon"}

\* A process is started only where there is none and the lease is not fenced;
\* it is fenced only when the process is gone, and the normal daemon is started,
\* which ends the lease, only when it is fenced.
LeaseInv ==
  /\ LaunchTypeOK
  /\ FencedIsStopped
  /\ pc \in BeforeStart => proc = "none" /\ ~fenced
  /\ pc = "restore normal" => fenced

\* The labels that say something of the lease.
LeaseLabels == BeforeStart \cup {"restore normal"}

\* What the steps are about that leave the lease and its process alone.
Coupled == daemon = "owned" <=> proc = "up"

-----------------------------------------------------------------------------
(* The commands. *)

\* One of the commands, or none, at the launcher's or at anybody's hands.
AnyCommand ==
  \/ UNCHANGED boxVars \/ Contact \/ CreateMain \/ CreateMainBy("other") \/ ExecMain
  \/ StopMain \/ RemoveMain
  \/ AutoStart /\ others' \in BOOLEAN /\ UNCHANGED <<main, owner>>

\* A command neither starts nor ends the owned daemon.
LEMMA CommandsKeepDaemon ==
  ASSUME BoxTypeOK, AnyCommand, Works \/ Fault
  PROVE  BoxTypeOK' /\ (daemon' = "owned" <=> daemon = "owned")
BY FaultsAssumption DEF BoxTypeOK, AnyCommand, boxVars, Contact, CreateMain, CreateMainBy,
       ExecMain, StopMain, RemoveMain, AutoStart, Stopped, Works, Fault, FaultsAssumption

\* ... so that a step that runs one, and leaves the lease alone, is safe.
LEMMA CommandStep ==
  ASSUME LeaseInv, AnyCommand, Works \/ Fault, UNCHANGED leaseVars,
         BackendTypeOK', mustStop' \in BOOLEAN, watched' \in BOOLEAN,
         cleanupErr' \in BOOLEAN, pc' = pc \/ pc' \notin LeaseLabels
  PROVE  LeaseInv'
<1>1. BoxTypeOK' /\ (daemon' = "owned" <=> daemon = "owned")
  BY CommandsKeepDaemon DEF LeaseInv, LaunchTypeOK
<1> QED
  BY <1>1 DEF LeaseInv, LaunchTypeOK, FencedIsStopped, LeaseTypeOK, leaseVars, LeaseLabels

LEMMA LeaseInvInit == LaunchInit => LeaseInv
<1> SUFFICES ASSUME LaunchInit PROVE LeaseInv
  OBVIOUS
<1>1. BoxTypeOK /\ daemon # "owned"
  <2>1. main \in {"absent", "stopped", "running"} /\ daemon \in {"none", "normal"}
    BY DEF LaunchInit, BoxInit
  <2>2. owner \in {"none", "user"} /\ others \in BOOLEAN
    BY DEF LaunchInit, BoxInit
  <2>3. faults = 0 /\ MaxFaults \in Nat
    BY FaultsAssumption DEF FaultsAssumption, LaunchInit, BoxInit
  <2>4. faults \in 0 .. MaxFaults
    BY <2>3
  <2> QED
    BY <2>1, <2>2, <2>4 DEF BoxTypeOK
<1>2. LeaseTypeOK /\ BackendTypeOK
  BY DEF LaunchInit, LeaseInit, BackendInit, LeaseTypeOK, BackendTypeOK
<1> QED
  BY <1>1, <1>2 DEF LaunchInit, LeaseInit, LeaseInv, LaunchTypeOK, FencedIsStopped

-----------------------------------------------------------------------------
(* The backend. *)

LEMMA BackendStep ==
  ASSUME LeaseInv, CheckAvailability \/ ProbeStep \/ PreflightStep \/ StartStep,
         UNCHANGED <<leaseVars, finalVars>>
  PROVE  LeaseInv'
<1> USE DEF BeforeStart, LeaseLabels, Run, RunInMain, RunCreate, Inspect, Fails, AnyCommand,
            BackendTypeOK, backendVars, Works, Fault
<1>0. /\ BackendTypeOK /\ main \in {"absent", "stopped", "running"}
      /\ mustStop' \in BOOLEAN /\ watched' \in BOOLEAN /\ cleanupErr' \in BOOLEAN
  BY DEF LeaseInv, LaunchTypeOK, BoxTypeOK, finalVars
<1>1. CASE CheckAvailability
  <2>1. AnyCommand /\ (Works \/ Fault) /\ BackendTypeOK' /\ pc' \notin LeaseLabels
    BY <1>0, <1>1 DEF CheckAvailability
  <2> QED
    BY <1>0, <2>1, CommandStep
<1>2. CASE ProbeStep
  <2>1. AnyCommand /\ (Works \/ Fault) /\ BackendTypeOK' /\ pc' \notin LeaseLabels
    BY <1>0, <1>2 DEF ProbeStep, CreateProbe, ClearProbe, CleanupProbe, InspectProbe,
       ProbeFailed, FinishProbe
  <2> QED
    BY <1>0, <2>1, CommandStep
<1>3. CASE PreflightStep
  <2>1. AnyCommand /\ (Works \/ Fault) /\ BackendTypeOK' /\ pc' \notin LeaseLabels
    BY <1>0, <1>3 DEF PreflightStep, PreflightInspects
  <2> QED
    BY <1>0, <2>1, CommandStep
<1>4. CASE StartStep
  <2>1. AnyCommand /\ (Works \/ Fault) /\ BackendTypeOK' /\ pc' \notin LeaseLabels
    BY <1>0, <1>4 DEF StartStep, ChooseStart, AfterStart, InspectForHerdr, InspectFresh,
       ReplaceStale, CreateFresh, SetUpHerdr, StartHerdr, CheckAttached, UndoStart,
       Attach, StartFails
  <2> QED
    BY <1>0, <2>1, CommandStep
<1> QED
  BY <1>1, <1>2, <1>3, <1>4

-----------------------------------------------------------------------------
(* The lease. *)

\* What is to be shown of a step that leaves the launch's own variables alone.
LeaseOK ==
  /\ BoxTypeOK /\ LeaseTypeOK /\ Coupled
  /\ FencedIsStopped
  /\ pc \in BeforeStart => proc = "none" /\ ~fenced
  /\ pc = "restore normal" => fenced

LEMMA LeaseOKSuffices ==
  LeaseInv <=> /\ LeaseOK /\ BackendTypeOK
               /\ mustStop \in BOOLEAN /\ watched \in BOOLEAN /\ cleanupErr \in BOOLEAN
BY DEF LeaseInv, LeaseOK, LaunchTypeOK, Coupled

\* The daemon ends: nothing owned answers any more.
LEMMA DaemonEndsTyped ==
  ASSUME BoxTypeOK, DaemonEnds, Works \/ Fault
  PROVE  BoxTypeOK' /\ daemon' = "none"
BY FaultsAssumption DEF BoxTypeOK, DaemonEnds, Stopped, Works, Fault, FaultsAssumption

\* A command under an unchanged lease.
LEMMA LeaseCommand ==
  ASSUME LeaseOK, AnyCommand, Works \/ Fault,
         UNCHANGED <<proc, acquired, fenced>>, mainWasRunning' \in BOOLEAN,
         pc' \in LeaseLabels => pc' \in BeforeStart /\ pc \in BeforeStart
  PROVE  LeaseOK'
<1>1. BoxTypeOK' /\ (daemon' = "owned" <=> daemon = "owned")
  BY CommandsKeepDaemon DEF LeaseOK
<1> QED
  BY <1>1 DEF LeaseOK, LeaseTypeOK, Coupled, FencedIsStopped, LeaseLabels, BeforeStart

\* A command that ends the lease: none of the daemons is owned then.
LEMMA LeaseReleases ==
  ASSUME LeaseOK, Contact, Works, Release, fenced, UNCHANGED mainWasRunning,
         pc' \notin LeaseLabels
  PROVE  LeaseOK'
<1>1. BoxTypeOK' /\ (daemon' = "owned" <=> daemon = "owned")
  BY CommandsKeepDaemon DEF LeaseOK, AnyCommand
<1>2. daemon # "owned"
  BY DEF LeaseOK, Coupled, FencedIsStopped
<1> QED
  BY <1>1, <1>2 DEF Release, LeaseOK, LeaseTypeOK, Coupled, FencedIsStopped, LeaseLabels

\* stopOwnedDaemon asks the daemon to stop, and kills it when it takes too long.
LEMMA StopsKeepLease ==
  ASSUME LeaseOK, NEW from, NEW waiting, NEW bad,
         waiting \notin LeaseLabels, bad \notin LeaseLabels,
         StopIssued(from, waiting) \/ StopTimesOut(waiting, bad)
  PROVE  LeaseOK'
<1> USE DEF LeaseLabels
<1>1. CASE StopIssued(from, waiting) /\ DaemonStop
  <2>1. BoxTypeOK' /\ daemon' = "none"
    BY <1>1, DaemonEndsTyped DEF StopIssued, DaemonStop, LeaseOK
  <2> QED
    BY <1>1, <2>1 DEF StopIssued, DaemonStop, ProcStops, LeaseOK, LeaseTypeOK, Coupled,
       FencedIsStopped
<1>2. CASE StopIssued(from, waiting) /\ UNCHANGED <<boxVars, proc>>
  BY <1>2, LeaseCommand DEF StopIssued, AnyCommand, LeaseOK, LeaseTypeOK
<1>3. CASE StopTimesOut(waiting, bad) /\ proc = "up"
  <2>1. BoxTypeOK' /\ daemon' = "none"
    BY <1>3, DaemonEndsTyped DEF StopTimesOut, LeaseOK
  <2> QED
    BY <1>3, <2>1 DEF StopTimesOut, LeaseOK, LeaseTypeOK, Coupled, FencedIsStopped
<1>4. CASE StopTimesOut(waiting, bad) /\ proc # "up"
  <2>1. BoxTypeOK' /\ (daemon' = "owned" <=> daemon = "owned")
    BY <1>4, CommandsKeepDaemon DEF StopTimesOut, LeaseOK, AnyCommand
  <2> QED
    BY <1>4, <2>1 DEF StopTimesOut, LeaseOK, LeaseTypeOK, Coupled, FencedIsStopped
<1> QED
  BY <1>1, <1>2, <1>3, <1>4 DEF StopIssued, StopTimesOut

\* Fenced means stopped: the process is gone when stopOwnedDaemon says so.
LEMMA StoppedIsFenced ==
  ASSUME LeaseOK, NEW from, NEW waiting, OwnedStopped(from, waiting), fenced' = TRUE,
         UNCHANGED <<boxVars, proc, acquired, mainWasRunning>>, Works,
         pc' \notin BeforeStart
  PROVE  LeaseOK'
<1>1. BoxTypeOK' /\ (daemon' = "owned" <=> daemon = "owned")
  BY CommandsKeepDaemon DEF LeaseOK, AnyCommand
<1>2. proc \in {"none", "exited"}
  BY DEF OwnedStopped, OwnedGone
<1> QED
  BY <1>1, <1>2 DEF LeaseOK, LeaseTypeOK, Coupled, FencedIsStopped

\* Acquire, with its own clean-up.  Only StartOwnedDaemon starts a process, at a
\* label that is reached with the fence lifted.
LEMMA AcquireKeepsLease ==
  ASSUME LeaseOK, NEW supported, AcquireStep(supported)
  PROVE  LeaseOK'
<1> USE DEF BeforeStart, LeaseLabels, Works, Fault, Fails, Run, RunInMain,
            AnyCommand, Stay, leaseVars
<1>0. LeaseTypeOK /\ main \in {"absent", "stopped", "running"}
  BY DEF LeaseOK, BoxTypeOK
<1>1. CASE CheckCapability(supported)
  BY <1>0, <1>1, LeaseCommand DEF CheckCapability, LeaseTypeOK
<1>2. CASE CheckController("controller", "scope", "abort")
  BY <1>0, <1>2, LeaseCommand DEF CheckController, LeaseTypeOK
<1>3. CASE InspectScope
  <2>1. pc' # "stop daemon" => pc' = "abort"
    BY <1>3 DEF InspectScope
  <2>2. mainWasRunning' \in BOOLEAN
    BY <1>0, <1>3 DEF InspectScope, LeaseTypeOK
  <2> QED
    BY <1>3, <2>1, <2>2, LeaseCommand DEF InspectScope
<1>4. CASE StopExistingDaemon
  <2>0. /\ acquired' \in BOOLEAN /\ fenced' \in BOOLEAN /\ mainWasRunning' \in BOOLEAN
        /\ pc' # "restore normal"
    BY <1>0, <1>4 DEF StopExistingDaemon, LeaseTypeOK
  <2>4. proc = "none" /\ ~fenced /\ daemon # "owned"
    BY <1>4 DEF StopExistingDaemon, LeaseOK, Coupled
  <2>1. proc' = "none" /\ ~fenced'
    <3>1. proc' = "none"
      <4>1. ProcStops \/ UNCHANGED proc
        BY <1>4 DEF StopExistingDaemon, DaemonStop
      <4> QED
        BY <2>4, <4>1 DEF ProcStops
    <3>2. ~fenced'
      BY <1>4, <2>4 DEF StopExistingDaemon
    <3> QED
      BY <3>1, <3>2
  <2>2. CASE DaemonEnds
    <3>1. BoxTypeOK' /\ daemon' = "none"
      BY <1>4, <2>2, DaemonEndsTyped DEF StopExistingDaemon, LeaseOK
    <3> QED
      BY <2>0, <2>1, <3>1 DEF LeaseOK, LeaseTypeOK, Coupled, FencedIsStopped
  <2>3. CASE UNCHANGED boxVars
    <3>1. BoxTypeOK' /\ (daemon' = "owned" <=> daemon = "owned")
      BY <1>4, <2>3, CommandsKeepDaemon DEF StopExistingDaemon, LeaseOK
    <3> QED
      BY <2>0, <2>4, <2>1, <3>1 DEF LeaseOK, LeaseTypeOK, Coupled, FencedIsStopped
  <2> QED
    BY <1>4, <2>2, <2>3 DEF StopExistingDaemon, DaemonStop
<1>6. CASE StartOwnedDaemon
  <2>1. BoxTypeOK' /\ (daemon' = "owned" <=> daemon = "owned")
    BY <1>6, CommandsKeepDaemon DEF StartOwnedDaemon, LeaseOK
  <2>2. /\ daemon # "owned" /\ proc' \in {"none", "starting"}
        /\ ~fenced' /\ pc' \notin LeaseLabels
    BY <1>6 DEF StartOwnedDaemon, LeaseOK, Coupled
  <2> QED
    BY <1>0, <1>6, <2>1, <2>2 DEF StartOwnedDaemon, LeaseOK, LeaseTypeOK, Coupled,
       FencedIsStopped
<1>7. CASE AwaitDaemon
  BY <1>0, <1>7, LeaseCommand DEF AwaitDaemon, LeaseTypeOK
<1>8. CASE WakeMain
  BY <1>0, <1>8, LeaseCommand DEF WakeMain, LeaseTypeOK
<1>9. CASE \/ StopIssued("restore", "restore wait")
           \/ StopTimesOut("restore wait", "abort")
  BY <1>9, StopsKeepLease
<1>10. CASE RestoreStops
  BY <1>10, StoppedIsFenced DEF RestoreStops
<1>11. CASE RestoreNormal /\ Works /\ Contact /\ Release
  BY <1>11, LeaseReleases DEF RestoreNormal, LeaseOK
<1>12. CASE RestoreNormal /\ Fails(Contact) /\ UNCHANGED <<proc, acquired, fenced>>
  BY <1>0, <1>12, LeaseCommand DEF RestoreNormal, LeaseTypeOK
<1> QED
  BY <1>1, <1>2, <1>3, <1>4, <1>6, <1>7, <1>8, <1>9, <1>10, <1>11, <1>12
     DEF AcquireStep, StopExistingDaemon, RestoreNormal

LEMMA ValidateKeepsLease ==
  ASSUME LeaseOK, ValidateStep
  PROVE  LeaseOK'
<1> USE DEF BeforeStart, LeaseLabels, Works, Fault, Fails, Run, RunInMain,
            AnyCommand, Stay, leaseVars
<1>1. LeaseTypeOK
  BY DEF LeaseOK
<1> QED
  BY <1>1, LeaseCommand DEF ValidateStep, ValidateLease, ValidateScope, CheckController,
     ValidateIsolation, LeaseTypeOK

\* Fence and Recover.  RecoverNormal, like RestoreNormal, starts the normal daemon
\* of a fenced lease.
LEMMA GuardKeepsLease ==
  ASSUME LeaseOK, FenceStep \/ RecoverStep
  PROVE  LeaseOK'
<1> USE DEF BeforeStart, LeaseLabels, Works, Fault, Fails, AnyCommand, Stay, leaseVars
<1>0. LeaseTypeOK
  BY DEF LeaseOK
<1>1. CASE FenceIdle
  BY <1>0, <1>1, LeaseCommand DEF FenceIdle, LeaseTypeOK
<1>2. CASE Fenced
  BY <1>2, StoppedIsFenced DEF Fenced
<1>3. CASE StopIssued("fence", "fence wait") \/ StopTimesOut("fence wait", "guard failed")
  BY <1>3, StopsKeepLease
<1>4. CASE RecoverIdle
  BY <1>0, <1>4, LeaseCommand DEF RecoverIdle, LeaseTypeOK
<1>5. CASE RecoverNormal /\ Works /\ Contact /\ Release
  BY <1>5, LeaseReleases DEF RecoverNormal
<1>6. CASE RecoverNormal /\ Fails(Contact) /\ UNCHANGED <<proc, acquired, fenced>>
  BY <1>0, <1>6, LeaseCommand DEF RecoverNormal, LeaseTypeOK
<1> QED
  BY <1>1, <1>2, <1>3, <1>4, <1>5, <1>6 DEF FenceStep, RecoverStep, RecoverNormal

-----------------------------------------------------------------------------
(* The launcher, the finalization, and everybody else. *)

\* What the launcher does of its own, and the steps of the finalization: no
\* process is started or ended, and only Acquired touches the lease.
LEMMA LauncherKeepsLease ==
  ASSUME LeaseInv, CheckHost \/ Acquired \/ Validated \/ Abort \/ SessionEnds
  PROVE  LeaseInv'
<1> USE DEF BeforeStart, LeaseLabels, AnyCommand, BackendTypeOK, backendVars, finalVars,
            leaseVars, Works, Fault
<1>0. /\ BackendTypeOK /\ mustStop \in BOOLEAN /\ watched \in BOOLEAN
      /\ cleanupErr \in BOOLEAN
  BY DEF LeaseInv, LaunchTypeOK
<1>1. CASE CheckHost
  BY <1>0, <1>1, CommandStep DEF CheckHost
<1>2. CASE Acquired
  BY <1>2 DEF Acquired, LeaseInv, LaunchTypeOK, BoxTypeOK, boxVars, LeaseTypeOK,
     FencedIsStopped
<1>3. CASE Validated
  BY <1>0, <1>3, CommandStep DEF Validated
<1>4. CASE Abort
  BY <1>0, <1>4, CommandStep DEF Abort
<1>5. CASE SessionEnds
  BY <1>0, <1>5, CommandStep DEF SessionEnds
<1> QED
  BY <1>1, <1>2, <1>3, <1>4, <1>5

LEMMA FinalizeKeepsLease ==
  ASSUME LeaseInv, FinalizeStep
  PROVE  LeaseInv'
<1> USE DEF BeforeStart, LeaseLabels
<1>0. /\ BackendTypeOK /\ mustStop \in BOOLEAN /\ watched \in BOOLEAN
      /\ cleanupErr \in BOOLEAN
  BY DEF LeaseInv, LaunchTypeOK
<1>1. CASE GuardStep
  <2>1. LeaseOK'
    BY <1>1, GuardKeepsLease, LeaseOKSuffices DEF GuardStep
  <2>2. /\ BackendTypeOK' /\ mustStop' \in BOOLEAN /\ watched' \in BOOLEAN
        /\ cleanupErr' \in BOOLEAN
    BY <1>0, <1>1 DEF GuardStep, BackendTypeOK, backendVars, finalVars
  <2> QED
    BY <2>1, <2>2 DEF LeaseInv, LeaseOK, LaunchTypeOK, Coupled
<1>2. CASE GuardFinished
  BY <1>0, <1>2, CommandStep
     DEF GuardFinished, AnyCommand, Works, BackendTypeOK, backendVars
<1>3. CASE CleanupHerdr \/ CleanupStop \/ CleanupRemove
  <2>1. /\ BackendTypeOK' /\ mustStop' \in BOOLEAN /\ watched' \in BOOLEAN
        /\ cleanupErr' \in BOOLEAN /\ UNCHANGED leaseVars /\ pc' \notin LeaseLabels
    BY <1>0, <1>3 DEF CleanupHerdr, CleanupStop, CleanupRemove, Cleanup, BackendTypeOK,
       backendVars
  <2>2. AnyCommand /\ (Works \/ Fault)
    BY <1>3 DEF CleanupHerdr, CleanupStop, CleanupRemove, Cleanup, Fails, AnyCommand
  <2> QED
    BY <2>1, <2>2, CommandStep
<1>4. CASE FinalProbeCleanup
  BY <1>0, <1>4, CommandStep
     DEF FinalProbeCleanup, CleanupProbe, AnyCommand, Fails, BackendTypeOK, finalVars
<1>5. CASE ProbeRemains
  BY <1>0, <1>5, CommandStep
     DEF ProbeRemains, AnyCommand, Works, BackendTypeOK, backendVars
<1> QED
  BY <1>1, <1>2, <1>3, <1>4, <1>5 DEF FinalizeStep

\* The process comes up only where no daemon runs, and takes the daemon with it
\* when it crashes.  Others run commands only, and an interrupt runs none.
LEMMA OthersKeepLease ==
  ASSUME LeaseInv, OwnedDaemon \/ Meddle \/ Interrupted
  PROVE  LeaseInv'
<1>0. /\ BackendTypeOK /\ mustStop \in BOOLEAN /\ watched \in BOOLEAN
      /\ cleanupErr \in BOOLEAN /\ LeaseTypeOK /\ BoxTypeOK /\ Coupled
  BY DEF LeaseInv, LaunchTypeOK, Coupled
<1>1. CASE OwnedDaemon
  <2>1. /\ BackendTypeOK' /\ mustStop' \in BOOLEAN /\ watched' \in BOOLEAN
        /\ cleanupErr' \in BOOLEAN /\ pc' = pc /\ fenced' = fenced
    BY <1>0, <1>1 DEF OwnedDaemon, BackendTypeOK, backendVars, finalVars, ProcComesUp,
       ProcExits, ProcCrashes
  <2>2. BoxTypeOK' /\ Coupled'
    <3>1. CASE ProcComesUp
      BY <1>0, <3>1 DEF ProcComesUp, BoxTypeOK, Coupled
    <3>2. CASE ProcExits
      BY <1>0, <3>2 DEF ProcExits, BoxTypeOK, boxVars, Coupled
    <3>3. CASE ProcCrashes /\ proc = "up"
      BY <1>0, <3>3, DaemonEndsTyped DEF ProcCrashes, Coupled
    <3>4. CASE ProcCrashes /\ proc # "up"
      <4>1. BoxTypeOK' /\ (daemon' = "owned" <=> daemon = "owned")
        BY <1>0, <3>4, CommandsKeepDaemon DEF ProcCrashes, AnyCommand
      <4> QED
        BY <1>0, <3>4, <4>1 DEF ProcCrashes, Coupled
    <3> QED
      BY <1>1, <3>1, <3>2, <3>3, <3>4 DEF OwnedDaemon
  <2>3. /\ LeaseTypeOK' /\ proc # "none"
        /\ proc \in {"starting", "up"} \/ proc' = "exited"
    BY <1>0, <1>1 DEF OwnedDaemon, LeaseTypeOK, ProcComesUp, ProcExits, ProcCrashes
  <2>4. FencedIsStopped'
    BY <2>1, <2>3 DEF LeaseInv, FencedIsStopped
  <2> QED
    BY <2>1, <2>2, <2>3, <2>4 DEF LeaseInv, LaunchTypeOK, Coupled
<1>2. CASE Meddle
  BY <1>0, <1>2, CommandStep
     DEF Meddle, AnyCommand, Works, BackendTypeOK, backendVars, finalVars
<1>3. CASE Interrupted
  BY <1>0, <1>3, CommandStep
     DEF Interrupted, AnyCommand, BackendTypeOK, finalVars, BeforeStart, LeaseLabels
<1> QED
  BY <1>1, <1>2, <1>3

LEMMA LeaseInvStep ==
  LeaseInv /\ [LaunchNext]_launchVars => LeaseInv'
<1> SUFFICES ASSUME LeaseInv, [LaunchNext]_launchVars PROVE LeaseInv'
  OBVIOUS
<1>0. /\ LeaseOK /\ BackendTypeOK /\ mustStop \in BOOLEAN /\ watched \in BOOLEAN
      /\ cleanupErr \in BOOLEAN
  BY LeaseOKSuffices
<1>1. CASE /\ AcquireStep(cfg.supported) \/ ValidateStep
           /\ UNCHANGED <<backendVars, finalVars>>
  <2>1. LeaseOK'
    BY <1>0, <1>1, AcquireKeepsLease, ValidateKeepsLease
  <2> QED
    BY <1>0, <1>1, <2>1 DEF LeaseInv, LeaseOK, LaunchTypeOK, Coupled, BackendTypeOK,
       backendVars, finalVars
<1>2. CASE LauncherStep
  BY <1>1, <1>2, LauncherKeepsLease, BackendStep, FinalizeKeepsLease DEF LauncherStep
<1>3. CASE OwnedDaemon \/ Meddle \/ Interrupted
  BY <1>3, OthersKeepLease
<1>4. CASE UNCHANGED launchVars
  <2>1. /\ BackendTypeOK' /\ mustStop' \in BOOLEAN /\ watched' \in BOOLEAN
        /\ cleanupErr' \in BOOLEAN /\ UNCHANGED leaseVars /\ pc' = pc
    BY <1>0, <1>4 DEF launchVars, backendVars, finalVars, BackendTypeOK
  <2>2. AnyCommand /\ Works
    BY <1>4 DEF launchVars, AnyCommand, Works
  <2> QED
    BY <2>1, <2>2, CommandStep
<1> QED
  BY <1>2, <1>3, <1>4 DEF LaunchNext

LEMMA LeaseInvHolds == LaunchSpec => []LeaseInv
BY LeaseInvInit, LeaseInvStep, PTL DEF LaunchSpec

\* A launch keeps its types, and the daemon that answers is the owned one exactly
\* while the process that StartOwnedDaemon started is up.
THEOREM LaunchTypeCorrect == LaunchSpec => []LaunchTypeOK
<1>1. LeaseInv => LaunchTypeOK
  BY DEF LeaseInv
<1> QED
  BY <1>1, LeaseInvHolds, PTL

\* A fenced lease has no daemon of its own: neither Acquire's restore nor Fence
\* marks it so before the process is gone, and Acquire lifts the fence before it
\* starts one.
THEOREM FencedStopped == LaunchSpec => []FencedIsStopped
<1>1. LeaseInv => FencedIsStopped
  BY DEF LeaseInv
<1> QED
  BY <1>1, LeaseInvHolds, PTL

-----------------------------------------------------------------------------
(* A preexisting main. *)

\* The user's main exists, and a dedicated launch knows it for the user's.
UsersMain ==
  owner = "user" => main # "absent" /\ (Dedicated => ~created)

\* main is spared, or created where there was none, or removed where the launcher
\* removes it.
MainSpared == owner' = owner /\ (main' = "absent" => main = "absent")
MainMade == main = "absent" /\ owner' \in {"launcher", "other"}
MainRemoved ==
  owner' = "none" /\ (pc = "remove stale" \/ (pc = "cleanup remove" /\ RemovesMain))

\* What every step does to main, and to the launcher's idea of it.
MainStep ==
  /\ MainSpared \/ MainMade \/ MainRemoved
  /\ cfg' = cfg
  /\ created' => created \/ main = "absent" \/ ~Dedicated

\* The commands that spare main, or create it where there is none.
LEMMA CommandsSpareMain ==
  ASSUME \/ Contact \/ CreateMain \/ CreateMainBy("other") \/ ExecMain \/ StopMain \/ DaemonEnds
         \/ UNCHANGED boxVars \/ UNCHANGED <<main, owner>>
  PROVE  MainSpared \/ MainMade
BY DEF Contact, CreateMain, CreateMainBy, ExecMain, StopMain, DaemonEnds, Stopped, boxVars,
       MainSpared, MainMade

LEMMA LeaseSparesMain ==
  ASSUME NEW supported, AcquireStep(supported) \/ ValidateStep \/ FenceStep \/ RecoverStep
  PROVE  MainSpared \/ MainMade
<1> USE DEF Run, RunInMain, Fails
<1>1. CASE AcquireStep(supported)
  BY <1>1, CommandsSpareMain
     DEF AcquireStep, CheckCapability, CheckController, InspectScope, StopExistingDaemon,
         StartOwnedDaemon, AwaitDaemon, WakeMain, StopIssued, StopTimesOut, RestoreStops,
         RestoreNormal, DaemonStop, boxVars
<1>2. CASE ValidateStep
  BY <1>2, CommandsSpareMain
     DEF ValidateStep, ValidateLease, ValidateScope, CheckController, ValidateIsolation
<1>3. CASE FenceStep
  BY <1>3, CommandsSpareMain
     DEF FenceStep, FenceIdle, Fenced, StopIssued, StopTimesOut, DaemonStop, boxVars
<1>4. CASE RecoverStep
  BY <1>4, CommandsSpareMain DEF RecoverStep, RecoverIdle, RecoverNormal
<1> QED
  BY <1>1, <1>2, <1>3, <1>4

\* The backend removes main in ReplaceStale only.
LEMMA BackendSparesMain ==
  ASSUME BoxTypeOK, CheckAvailability \/ ProbeStep \/ PreflightStep \/ StartStep
  PROVE  MainStep
<1>1. MainSpared \/ MainMade \/ MainRemoved
  <2> USE DEF Run, RunInMain, RunCreate, Inspect, Fails
  <2>1. CASE CheckAvailability
    BY <2>1, CommandsSpareMain DEF CheckAvailability
  <2>2. CASE ProbeStep
    <3>1. Contact \/ UNCHANGED boxVars
      BY <2>2 DEF ProbeStep, CreateProbe, ClearProbe, CleanupProbe, InspectProbe,
         ProbeFailed, FinishProbe
    <3> QED
      BY <3>1, CommandsSpareMain
  <2>3. CASE PreflightStep
    <3>1. Contact \/ CreateMain \/ ExecMain \/ UNCHANGED boxVars
      BY <2>3 DEF PreflightStep, PreflightInspects
    <3> QED
      BY <3>1, CommandsSpareMain
  <2>4. CASE ReplaceStale
    <3>1. \/ StopMain \/ UNCHANGED boxVars
          \/ pc = "remove stale" /\ RemoveMain
      BY <2>4 DEF ReplaceStale
    <3> QED
      BY <3>1, CommandsSpareMain DEF RemoveMain, MainRemoved
  <2>5. CASE StartStep /\ ~ReplaceStale
    <3>1. \/ Contact \/ CreateMain \/ ExecMain \/ StopMain \/ UNCHANGED boxVars
      BY <2>5
         DEF StartStep, ChooseStart, AfterStart, InspectForHerdr, InspectFresh, CreateFresh,
             SetUpHerdr, StartHerdr, CheckAttached, UndoStart, Attach
    <3> QED
      BY <3>1, CommandsSpareMain
  <2> QED
    BY <2>1, <2>2, <2>3, <2>4, <2>5
<1>2. cfg' = cfg
  BY DEF CheckAvailability, ProbeStep, CreateProbe, ClearProbe, CleanupProbe, InspectProbe,
     ProbeFailed, FinishProbe, PreflightStep, PreflightInspects, StartStep, backendVars
<1>3. created' => created \/ main = "absent"
  BY DEF BoxTypeOK, Inspect, CheckAvailability, ProbeStep, CreateProbe, ClearProbe,
     CleanupProbe, InspectProbe,
     ProbeFailed, FinishProbe, PreflightStep, PreflightInspects, StartStep, backendVars
<1> QED
  BY <1>1, <1>2, <1>3 DEF MainStep

\* CleanupMain removes it as RemovesMain says.
LEMMA FinalizeSparesMain ==
  ASSUME FinalizeStep
  PROVE  MainStep
<1>1. cfg' = cfg /\ created' = created
  BY DEF FinalizeStep, GuardStep, GuardFinished, CleanupHerdr, CleanupStop, CleanupRemove,
     Cleanup, FinalProbeCleanup, CleanupProbe, ProbeRemains, backendVars
<1>2. CASE GuardStep
  BY <1>1, <1>2, LeaseSparesMain DEF GuardStep, MainStep
<1>3. CASE CleanupRemove
  BY <1>1, <1>3, CommandsSpareMain
     DEF CleanupRemove, Cleanup, Fails, RemoveMain, MainRemoved, MainStep, boxVars, MainSpared
<1>4. CASE GuardFinished \/ CleanupHerdr \/ CleanupStop \/ FinalProbeCleanup \/ ProbeRemains
  BY <1>1, <1>4, CommandsSpareMain
     DEF GuardFinished, CleanupHerdr, CleanupStop, Cleanup, Fails, FinalProbeCleanup,
         CleanupProbe, ProbeRemains, MainStep, boxVars
<1> QED
  BY <1>2, <1>3, <1>4 DEF FinalizeStep

LEMMA EveryStepOfMain ==
  ASSUME BoxTypeOK, [LaunchNext]_launchVars
  PROVE  MainStep
<1> USE DEF MainStep
<1>1. CASE CheckHost \/ Acquired \/ Validated \/ Abort \/ SessionEnds
  <2>1. UNCHANGED boxVars /\ cfg' = cfg
    BY <1>1 DEF CheckHost, Acquired, Validated, Abort, SessionEnds, backendVars
  <2>2. created' => created \/ ~Dedicated
    BY <1>1 DEF CheckHost, Acquired, Validated, Abort, SessionEnds, backendVars,
       PreflightRequired
  <2> QED
    BY <2>1, <2>2, CommandsSpareMain
<1>2. CASE /\ AcquireStep(cfg.supported) \/ ValidateStep
           /\ UNCHANGED <<backendVars, finalVars>>
  BY <1>2, LeaseSparesMain DEF backendVars
<1>3. CASE OwnedDaemon \/ Meddle \/ Interrupted
  BY <1>3, CommandsSpareMain
     DEF OwnedDaemon, ProcComesUp, ProcExits, ProcCrashes, Meddle, Interrupted, backendVars,
         boxVars
<1>4. CASE UNCHANGED launchVars
  BY <1>4, CommandsSpareMain DEF launchVars, backendVars
<1> QED
  BY <1>1, <1>2, <1>3, <1>4, BackendSparesMain, FinalizeSparesMain DEF LaunchNext, LauncherStep

LEMMA UsersMainHolds == LaunchSpec => []UsersMain
<1>1. LaunchInit => UsersMain
  BY DEF LaunchInit, BoxInit, BackendInit, UsersMain
<1>2. LeaseInv /\ UsersMain /\ [LaunchNext]_launchVars => UsersMain'
  BY EveryStepOfMain
     DEF UsersMain, MainStep, MainSpared, MainMade, MainRemoved, Dedicated, LeaseInv,
         LaunchTypeOK
<1> QED
  BY <1>1, <1>2, LeaseInvHolds, PTL DEF LaunchSpec

\* ADR 0003: a dedicated launch never removes a preexisting main, whatever fails
\* and whoever meddles, but where PrepareHerdrTUI replaces a stopped one: the
\* final cleanup removes what the preflight created, and it created nothing where
\* it found a main.
THEOREM PreexistingKept == LaunchSpec => PreexistingMainKept
<1>1. LeaseInv /\ UsersMain /\ [LaunchNext]_launchVars
        => [Dedicated /\ owner = "user" /\ pc # "remove stale" => owner' = "user"]_launchVars
  BY EveryStepOfMain
     DEF UsersMain, MainStep, MainSpared, MainMade, MainRemoved, RemovesMain, LeaseInv,
         LaunchTypeOK
<1> QED
  BY <1>1, LeaseInvHolds, UsersMainHolds, PTL DEF LaunchSpec, PreexistingMainKept

-----------------------------------------------------------------------------
(* The lease is given back. *)

\* Where Acquire has yet to take the lease, where it has, and where the finalization is past it.
Untaken == {"acquire", "controller", "scope", "stop daemon"}
Holding == {"start daemon", "await daemon", "wake main", "acquired",
            "restore", "restore wait", "restore normal", "fence wait"}
PastGuard == {"cleanup herdr", "cleanup stop", "cleanup remove", "cleanup probe",
              "probe remains", "returned"}

\* A process of the launcher's own belongs to a lease; a finalization that gets past
\* the guard has given the lease back or says that it has not.
HeldInv ==
  /\ proc # "none" => acquired
  /\ pc \in Untaken => ~acquired
  /\ pc \in Holding => acquired
  /\ pc = "finalized" => ~acquired
  /\ pc \in PastGuard => cleanupErr \/ ~acquired

HeldLabels == Untaken \cup Holding \cup PastGuard \cup {"finalized"}

\* What a step may be that has nothing to do with the lease.
Apart ==
  /\ UNCHANGED <<proc, acquired, cleanupErr>>
  /\ pc' = pc \/ pc' \notin HeldLabels

LEMMA ApartKeepsHeld ==
  ASSUME HeldInv, Apart
  PROVE  HeldInv'
BY DEF HeldInv, Apart, HeldLabels

LEMMA HeldInit == LaunchInit => HeldInv
BY DEF LaunchInit, LeaseInit, HeldInv, Untaken, Holding, PastGuard

LEMMA BackendKeepsHeld ==
  ASSUME HeldInv, BoxTypeOK, CheckAvailability \/ ProbeStep \/ PreflightStep \/ StartStep,
         UNCHANGED <<leaseVars, finalVars>>
  PROVE  HeldInv'
<1> USE DEF Untaken, Holding, PastGuard, HeldLabels, Run, RunInMain, RunCreate, Inspect,
        leaseVars, finalVars
<1>0. main \in {"absent", "stopped", "running"}
  BY DEF BoxTypeOK
<1>1. CASE CheckAvailability \/ PreflightStep
  BY <1>0, <1>1, ApartKeepsHeld DEF Apart, CheckAvailability, PreflightStep, PreflightInspects
<1>2. CASE ProbeStep
  BY <1>2, ApartKeepsHeld
     DEF Apart, ProbeStep, CreateProbe, ClearProbe, CleanupProbe, InspectProbe, ProbeFailed,
         FinishProbe
<1>3. CASE StartStep
  BY <1>0, <1>3, ApartKeepsHeld
     DEF Apart, StartStep, ChooseStart, AfterStart, InspectForHerdr, InspectFresh,
         ReplaceStale, CreateFresh, SetUpHerdr, StartHerdr, CheckAttached, UndoStart, Attach,
         StartFails
<1> QED
  BY <1>1, <1>2, <1>3

\* Acquire takes the lease with StopExistingDaemon, and gives it back with its
\* process gone.
LEMMA AcquireKeepsHeld ==
  ASSUME HeldInv, NEW supported, AcquireStep(supported), UNCHANGED finalVars
  PROVE  HeldInv'
<1> USE DEF HeldInv, Untaken, Holding, PastGuard, finalVars, leaseVars, Stay
<1>1. CASE CheckCapability(supported)
  BY <1>1 DEF CheckCapability
<1>2. CASE CheckController("controller", "scope", "abort")
  BY <1>2 DEF CheckController
<1>3. CASE InspectScope
  BY <1>3 DEF InspectScope
<1>4. CASE StopExistingDaemon
  BY <1>4 DEF StopExistingDaemon, DaemonStop, ProcStops
<1>5. CASE StartOwnedDaemon
  BY <1>5 DEF StartOwnedDaemon
<1>6. CASE AwaitDaemon
  BY <1>6 DEF AwaitDaemon
<1>7. CASE WakeMain
  BY <1>7 DEF WakeMain, Run, RunInMain
<1>8. CASE StopIssued("restore", "restore wait") \/ StopTimesOut("restore wait", "abort")
  BY <1>8 DEF StopIssued, StopTimesOut, DaemonStop, ProcStops, OwnedGone
<1>9. CASE RestoreStops \/ RestoreNormal
  BY <1>9 DEF RestoreStops, RestoreNormal, OwnedStopped, Release
<1> QED
  BY <1>1, <1>2, <1>3, <1>4, <1>5, <1>6, <1>7, <1>8, <1>9 DEF AcquireStep

LEMMA GuardKeepsHeld ==
  ASSUME HeldInv, FenceStep \/ RecoverStep \/ ValidateStep, UNCHANGED finalVars
  PROVE  HeldInv'
<1> USE DEF HeldInv, Untaken, Holding, PastGuard, finalVars, leaseVars, Stay
<1>1. CASE FenceStep
  <2>1. CASE FenceIdle
    BY <2>1 DEF FenceIdle
  <2>2. CASE Fenced
    BY <2>2 DEF Fenced
  <2>3. CASE acquired /\ StopIssued("fence", "fence wait")
    BY <2>3 DEF StopIssued
  <2>4. CASE StopTimesOut("fence wait", "guard failed")
    BY <2>4 DEF StopTimesOut
  <2> QED
    BY <1>1, <2>1, <2>2, <2>3, <2>4 DEF FenceStep
<1>2. CASE RecoverStep
  <2>1. CASE RecoverIdle
    BY <2>1 DEF RecoverIdle
  <2>2. CASE RecoverNormal /\ Release
    BY <2>2 DEF RecoverNormal, Release
  <2>3. CASE RecoverNormal /\ pc' = "guard failed" /\ UNCHANGED <<proc, acquired>>
    BY <2>3
  <2> QED
    BY <1>2, <2>1, <2>2, <2>3 DEF RecoverStep, RecoverNormal
<1>3. CASE ValidateStep
  BY <1>3 DEF ValidateStep, ValidateLease, ValidateScope, ValidateIsolation, CheckController,
     Run, RunInMain
<1> QED
  BY <1>1, <1>2, <1>3

LEMMA LauncherKeepsHeld ==
  ASSUME HeldInv,
         \/ CheckHost \/ Acquired \/ Validated \/ Abort \/ SessionEnds
         \/ OwnedDaemon \/ Meddle \/ Interrupted
  PROVE  HeldInv'
<1> USE DEF Untaken, Holding, PastGuard, HeldLabels, leaseVars, finalVars
<1>1. CASE CheckHost \/ Validated \/ Abort \/ SessionEnds \/ Meddle \/ Interrupted
  BY <1>1, ApartKeepsHeld
     DEF Apart, CheckHost, Validated, Abort, SessionEnds, Meddle, Interrupted
<1>2. CASE Acquired
  BY <1>2 DEF HeldInv, Acquired
<1>3. CASE OwnedDaemon
  BY <1>3 DEF HeldInv, OwnedDaemon, ProcComesUp, ProcExits, ProcCrashes
<1> QED
  BY <1>1, <1>2, <1>3

\* The finalization records the guard's failure before it goes on.
LEMMA FinalizeKeepsHeld ==
  ASSUME HeldInv, FinalizeStep
  PROVE  HeldInv'
<1> USE DEF HeldInv, Untaken, Holding, PastGuard, leaseVars
<1>1. CASE GuardStep
  <2>1. (FenceStep \/ RecoverStep) /\ UNCHANGED finalVars
    BY <1>1 DEF GuardStep
  <2> QED
    BY <2>1, GuardKeepsHeld
<1>2. CASE GuardFinished
  BY <1>2 DEF GuardFinished
<1>3. CASE CleanupHerdr \/ CleanupStop \/ CleanupRemove
  <2>1. UNCHANGED leaseVars /\ (cleanupErr' = TRUE \/ cleanupErr' = cleanupErr)
    BY <1>3 DEF CleanupHerdr, CleanupStop, CleanupRemove, Cleanup
  <2>2. pc \in PastGuard /\ pc' \in PastGuard
    BY <1>3 DEF CleanupHerdr, CleanupStop, CleanupRemove, Cleanup
  <2> QED
    BY <2>1, <2>2
<1>4. CASE FinalProbeCleanup
  BY <1>4 DEF FinalProbeCleanup, CleanupProbe, finalVars
<1>5. CASE ProbeRemains
  BY <1>5 DEF ProbeRemains
<1> QED
  BY <1>1, <1>2, <1>3, <1>4, <1>5 DEF FinalizeStep

LEMMA HeldStep ==
  BoxTypeOK /\ HeldInv /\ [LaunchNext]_launchVars => HeldInv'
<1> SUFFICES ASSUME BoxTypeOK, HeldInv, [LaunchNext]_launchVars PROVE HeldInv'
  OBVIOUS
<1>1. CASE UNCHANGED launchVars
  BY <1>1 DEF HeldInv, launchVars, leaseVars, finalVars
<1>2. CASE LauncherStep
  <2>1. CASE AcquireStep(cfg.supported) /\ UNCHANGED finalVars
    BY <2>1, AcquireKeepsHeld
  <2>2. CASE ValidateStep /\ UNCHANGED finalVars
    BY <2>2, GuardKeepsHeld
  <2> QED
    BY <1>2, <2>1, <2>2, BackendKeepsHeld, LauncherKeepsHeld, FinalizeKeepsHeld
       DEF LauncherStep
<1> QED
  BY <1>1, <1>2, LauncherKeepsHeld DEF LaunchNext

LEMMA HeldHolds == LaunchSpec => []HeldInv
<1>1. LeaseInv => BoxTypeOK
  BY DEF LeaseInv, LaunchTypeOK
<1> QED
  BY <1>1, HeldInit, HeldStep, LeaseInvHolds, PTL DEF LaunchSpec

\* A launch that does not report a failed cleanup ends without a lease and without
\* a daemon of its own, running or starting: Acquire gives back what it took, or
\* Fence and Recover do.
THEOREM ReleasedAtEnd == LaunchSpec => []LeaseReleased
<1>1. LeaseInv /\ HeldInv => LeaseReleased
  BY DEF LeaseInv, LaunchTypeOK, HeldInv, PastGuard, LeaseReleased
<1> QED
  BY <1>1, LeaseInvHolds, HeldHolds, PTL

-----------------------------------------------------------------------------
(* The refinement. *)

\* A step of EgressLease, or none of it.
Refines == [Guard!LeaseSpecNext]_Guard!egressVars

\* Commands under an unchanged lease, and a daemon that ends.
LEMMA CommandRefines ==
  ASSUME AnyCommand \/ DaemonEnds, UNCHANGED <<acquired, fenced>>
  PROVE  Refines
<1>1. UNCHANGED LeaseState
  BY DEF LeaseState
<1>2. daemon' = daemon \/ daemon' = "none" \/ (daemon = "none" /\ daemon' = "normal")
  BY DEF AnyCommand, boxVars, Contact, CreateMain, ExecMain, StopMain, RemoveMain, AutoStart,
     CreateMainBy, DaemonEnds
<1> QED
  BY <1>1, <1>2 DEF Refines, Guard!LeaseSpecNext, Guard!egressVars, Guard!DaemonLost,
     Guard!DaemonStarts

\* The lease is marked as fenced: its process is gone.
LEMMA FenceRefines ==
  ASSUME LeaseInv, acquired, NEW from, NEW waiting, OwnedStopped(from, waiting),
         fenced' = TRUE, UNCHANGED <<boxVars, proc, acquired>>
  PROVE  Refines
<1>1. daemon # "owned" /\ daemon' = daemon
  BY DEF LeaseInv, LaunchTypeOK, OwnedStopped, OwnedGone, boxVars
<1>2. LeaseState' = "fenced" /\ LeaseState \in {"held", "fenced"}
  BY DEF LeaseState
<1> QED
  BY <1>1, <1>2 DEF Refines, Guard!LeaseSpecNext, Guard!egressVars, Guard!Fence

\* A fenced lease is given back with the normal daemon started.
LEMMA RecoverRefines ==
  ASSUME LeaseInv, acquired, fenced, Contact, Release
  PROVE  Refines
<1>1. daemon \in {"none", "normal"}
  BY DEF LeaseInv, LaunchTypeOK, BoxTypeOK, FencedIsStopped
<1>2. daemon' = "normal"
  BY <1>1 DEF Contact, AutoStart
<1>3. LeaseState = "fenced" /\ LeaseState' = "idle"
  BY DEF LeaseState, Release
<1> QED
  BY <1>2, <1>3 DEF Refines, Guard!LeaseSpecNext, Guard!Recover

LEMMA AcquireRefines ==
  ASSUME LeaseInv, HeldInv, NEW supported, AcquireStep(supported)
  PROVE  Refines
<1> USE DEF AnyCommand, Stay, leaseVars, Fails, Run, RunInMain
<1>1. CASE \/ CheckCapability(supported) \/ CheckController("controller", "scope", "abort")
           \/ InspectScope \/ StartOwnedDaemon \/ AwaitDaemon \/ WakeMain
  BY <1>1, CommandRefines
     DEF CheckCapability, CheckController, InspectScope, StartOwnedDaemon, AwaitDaemon, WakeMain
<1>2. CASE StopExistingDaemon /\ acquired' = TRUE
  <2>1. ~acquired /\ daemon' = "none" /\ ~fenced'
    BY <1>2 DEF StopExistingDaemon, DaemonStop, DaemonEnds, HeldInv, Untaken, LeaseInv, BeforeStart
  <2>2. LeaseState = "idle" /\ LeaseState' = "held"
    BY <1>2, <2>1 DEF LeaseState
  <2> QED
    BY <2>1, <2>2 DEF Refines, Guard!LeaseSpecNext, Guard!Take
<1>3. CASE StopExistingDaemon /\ UNCHANGED <<acquired, fenced>>
  BY <1>3, CommandRefines DEF StopExistingDaemon, DaemonStop
<1>4. CASE StopIssued("restore", "restore wait") \/ StopTimesOut("restore wait", "abort")
  BY <1>4, CommandRefines DEF StopIssued, StopTimesOut, DaemonStop
<1>5. CASE RestoreStops
  BY <1>5, FenceRefines DEF RestoreStops, OwnedStopped, HeldInv, Holding
<1>6. CASE RestoreNormal /\ Contact /\ Release
  BY <1>6, RecoverRefines DEF RestoreNormal, HeldInv, Holding, LeaseInv
<1>7. CASE RestoreNormal /\ Fails(Contact) /\ UNCHANGED <<acquired, fenced>>
  BY <1>7, CommandRefines
<1> QED
  BY <1>1, <1>2, <1>3, <1>4, <1>5, <1>6, <1>7
     DEF AcquireStep, StopExistingDaemon, RestoreNormal

LEMMA GuardRefines ==
  ASSUME LeaseInv, FenceStep \/ RecoverStep \/ ValidateStep
  PROVE  Refines
<1> USE DEF AnyCommand, Stay, leaseVars, Fails, Run, RunInMain
<1>1. CASE FenceIdle \/ RecoverIdle
  BY <1>1, CommandRefines DEF FenceIdle, RecoverIdle
<1>2. CASE Fenced
  BY <1>2, FenceRefines DEF Fenced
<1>3. CASE StopIssued("fence", "fence wait") \/ StopTimesOut("fence wait", "guard failed")
  BY <1>3, CommandRefines DEF StopIssued, StopTimesOut, DaemonStop
<1>4. CASE RecoverNormal /\ Contact /\ Release
  BY <1>4, RecoverRefines DEF RecoverNormal
<1>5. CASE RecoverNormal /\ Fails(Contact) /\ UNCHANGED <<acquired, fenced>>
  BY <1>5, CommandRefines
<1>6. CASE ValidateStep
  BY <1>6, CommandRefines
     DEF ValidateStep, ValidateLease, ValidateScope, CheckController, ValidateIsolation
<1> QED
  BY <1>1, <1>2, <1>3, <1>4, <1>5, <1>6 DEF FenceStep, RecoverStep, RecoverNormal

\* The process comes up under the lease it was started for, and where no daemon runs.
LEMMA OwnedDaemonRefines ==
  ASSUME LeaseInv, HeldInv, OwnedDaemon
  PROVE  Refines
<1>1. CASE ProcComesUp
  <2>1. acquired /\ ~fenced /\ UNCHANGED <<acquired, fenced>>
    BY <1>1 DEF ProcComesUp, HeldInv, LeaseInv, FencedIsStopped
  <2>2. LeaseState = "held" /\ LeaseState' = "held"
    BY <2>1 DEF LeaseState
  <2> QED
    BY <1>1, <2>2 DEF ProcComesUp, Refines, Guard!LeaseSpecNext, Guard!Serve
<1>2. CASE ProcExits \/ ProcCrashes
  BY <1>2, CommandRefines DEF ProcExits, ProcCrashes, AnyCommand
<1> QED
  BY <1>1, <1>2 DEF OwnedDaemon

\* The rest of the launch leaves the lease alone and runs commands, if any.
LEMMA OthersRefine ==
  ASSUME HeldInv,
         \/ CheckHost \/ Acquired \/ Validated \/ Abort \/ SessionEnds
         \/ Meddle \/ Interrupted \/ UNCHANGED launchVars
         \/ GuardFinished \/ CleanupHerdr \/ CleanupStop \/ CleanupRemove
         \/ FinalProbeCleanup \/ ProbeRemains
         \/ CheckAvailability /\ UNCHANGED leaseVars
         \/ ProbeStep /\ UNCHANGED leaseVars
         \/ PreflightStep /\ UNCHANGED leaseVars
         \/ StartStep /\ UNCHANGED leaseVars
  PROVE  Refines
<1> USE DEF AnyCommand, leaseVars, Fails, Run, RunInMain, RunCreate, Inspect
<1>1. CASE \/ CheckHost \/ Validated \/ Abort \/ SessionEnds \/ Meddle \/ Interrupted
           \/ UNCHANGED launchVars
  BY <1>1, CommandRefines
     DEF CheckHost, Validated, Abort, SessionEnds, Meddle, Interrupted, launchVars
<1>2. CASE Acquired
  <2>1. acquired /\ acquired' /\ fenced' = fenced /\ daemon' = daemon
    BY <1>2 DEF Acquired, HeldInv, Holding, boxVars
  <2> QED
    BY <2>1 DEF Refines, LeaseState, Guard!egressVars
<1>3. CASE \/ GuardFinished \/ CleanupHerdr \/ CleanupStop \/ CleanupRemove
           \/ FinalProbeCleanup \/ ProbeRemains
  BY <1>3, CommandRefines
     DEF GuardFinished, CleanupHerdr, CleanupStop, CleanupRemove, Cleanup, FinalProbeCleanup,
         CleanupProbe, ProbeRemains
<1>4. CASE CheckAvailability /\ UNCHANGED leaseVars
  BY <1>4, CommandRefines DEF CheckAvailability
<1>5. CASE ProbeStep /\ UNCHANGED leaseVars
  BY <1>5, CommandRefines
     DEF ProbeStep, CreateProbe, ClearProbe, CleanupProbe, InspectProbe, ProbeFailed,
         FinishProbe
<1>6. CASE PreflightStep /\ UNCHANGED leaseVars
  BY <1>6, CommandRefines DEF PreflightStep, PreflightInspects
<1>7. CASE StartStep /\ UNCHANGED leaseVars
  BY <1>7, CommandRefines
     DEF StartStep, ChooseStart, AfterStart, InspectForHerdr, InspectFresh, ReplaceStale,
         CreateFresh, SetUpHerdr, StartHerdr, CheckAttached, UndoStart, Attach
<1> QED
  BY <1>1, <1>2, <1>3, <1>4, <1>5, <1>6, <1>7

LEMMA EveryStepRefines ==
  ASSUME LeaseInv, HeldInv, [LaunchNext]_launchVars
  PROVE  Refines
<1>1. CASE FinalizeStep
  BY <1>1, GuardRefines, OthersRefine DEF FinalizeStep, GuardStep
<1>2. CASE LauncherStep /\ ~FinalizeStep
  BY <1>2, AcquireRefines, GuardRefines, OthersRefine DEF LauncherStep
<1>3. CASE OwnedDaemon \/ Meddle \/ Interrupted \/ UNCHANGED launchVars
  BY <1>3, OwnedDaemonRefines, OthersRefine
<1> QED
  BY <1>1, <1>2, <1>3 DEF LaunchNext

\* Every launch, with all its commands, failures and time-outs and whatever others
\* do, is a behaviour of EgressLease.
THEOREM LaunchImplementsLease == LaunchSpec => LeaseImplemented
<1>1. LaunchInit => Guard!LeaseSpecInit
  BY DEF LaunchInit, LeaseInit, BoxInit, LeaseState, Guard!LeaseSpecInit
<1>2. LeaseInv /\ HeldInv /\ [LaunchNext]_launchVars
        => [Guard!LeaseSpecNext]_Guard!egressVars
  BY EveryStepRefines DEF Refines
<1> QED
  BY <1>1, <1>2, LeaseInvHolds, HeldHolds, PTL
     DEF LaunchSpec, LeaseImplemented, Guard!LeaseSpec
=============================================================================
