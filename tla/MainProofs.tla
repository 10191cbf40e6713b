------------------------------ MODULE MainProofs ------------------------------
(***************************************************************************)
(* What a launch leaves behind, and whose main it touches: a running main  *)
(* of somebody else's is spared (RunningMainSpared), a dedicated main and  *)
(* one the launch created are stopped at the end (DedicatedMainStopped,    *)
(* CreatedMainStopped), and so is the probe removed (ProbeRemoved).  For   *)
(* every configuration, any number of faults and whatever others do.       *)
(***************************************************************************)
EXTENDS LaunchProofs

-----------------------------------------------------------------------------
(* Where a launch is. *)

Acquiring == {"acquire", "controller", "scope", "stop daemon", "start daemon", "await daemon",
              "wake main", "restore", "restore wait", "restore normal", "acquired"}
LeaseOnly == Acquiring \cup {"validate scope", "validate controller", "validate isolation",
                             "validated", "fence wait"}
Prelude == {"host egress", "availability", "inspect main"}
Probing == {"create probe", "recreate probe", "clear probe", "inspect probe", "probe failed",
            "finish probe"}

\* A fresh main has been asked for, and the start goes on with it or fails.
Freshened == {"check fresh", "set up herdr", "start herdr", "await herdr", "attach",
              "check attached", "undo herdr", "undo main", "abort start", "watch"}
Starting == {"start", "inspect for herdr", "inspect fresh", "stop stale", "remove stale",
             "create fresh"} \cup Freshened
Cleaning == {"cleanup herdr", "cleanup stop", "cleanup remove"}
Ended == {"cleanup probe", "probe remains", "returned"}

-----------------------------------------------------------------------------
(* The inductive invariant, part by part. *)

\* Who created main is known as long as it exists.
Owned == main = "absent" <=> owner = "none"

\* Without a dedicated gateway there is no lease, and main need not be stopped; with
\* one it has to be before anything is created.
LeaseSplits ==
  /\ ~Dedicated => ~mustStop /\ ~acquired /\ pc \notin LeaseOnly
  /\ Dedicated => pc # "host egress" /\ (created \/ pc \in Prelude => mustStop)

\* main has not been found running, and is nobody's of before.
NotTheirs == owner = "launcher" \/ (owner # "user" /\ found \in {"absent", "stopped"})

\* What the preflight creates is the launch's own; without one, nothing counts as
\* created until the start has failed.
Preflighted ==
  /\ pc \in {"inspect main", "create main", "preflight main", "validate",
             "inspect for herdr"} => PreflightRequired
  /\ pc \in Prelude \cup Acquiring => ~created
  /\ pc = "create main" => NotTheirs
  /\ ~Dedicated /\ pc \in {"preflight main", "validate", "start", "inspect for herdr",
                           "inspect fresh"} /\ created => owner = "launcher"
  /\ pc \in Probing => ~PreflightRequired
  /\ ~PreflightRequired /\ pc \in Prelude \cup Probing \cup Starting => ~created

\* A stopped main only is replaced, and the start goes on with a fresh one.
Replaced ==
  /\ pc \in {"stop stale", "remove stale"} => found = "stopped"
  /\ pc = "create fresh" => NotTheirs
  /\ pc \in Freshened /\ ~PreflightRequired => NotTheirs
  /\ pc \in {"undo herdr", "undo main"} => ~PreflightRequired

\* A main that counts as the launch's own is so, or was not seen running; without a
\* watched session the finalization touches no other.
CreatedIsOurs ==
  ~Dedicated /\ ~watched =>
    /\ created /\ pc \notin Ended \cup {"killed"} => NotTheirs
    /\ pc \in Cleaning => created

\* A main the launcher created counts as such once its start is over.
OursIsCreated ==
  ~PreflightRequired /\ owner = "launcher" =>
    created \/ watched \/ pc \in Freshened \cup {"killed"}

\* What is to be stopped is stopped.
StopsMain == IF Dedicated THEN mustStop ELSE cfg.stopMain

MainDown ==
  pc \in {"cleanup remove"} \cup Ended /\ StopsMain /\ CleansMain /\ ~cleanupErr =>
    main # "running"

\* The start begins without a probe.
ProbeGone ==
  ~PreflightRequired /\ cfg.removeProbe =>
    /\ pc \in Starting => ~probe
    /\ pc \in {"fence", "recover", "finalized", "guard failed"} \cup Cleaning \cup Ended =>
         ~probe \/ failed

\* Together with LaunchProofs' LeaseInv.
MainParts ==
  /\ Owned /\ LeaseSplits /\ Preflighted /\ Replaced
  /\ CreatedIsOurs /\ OursIsCreated /\ MainDown /\ ProbeGone

-----------------------------------------------------------------------------

LEMMA MainInit == LaunchInit => MainParts
<1> SUFFICES ASSUME LaunchInit PROVE MainParts
  OBVIOUS
<1>1. /\ pc = (IF Dedicated THEN "acquire" ELSE "host egress")
      /\ main = "absent" <=> owner = "none"
      /\ owner # "launcher" /\ ~created /\ ~mustStop /\ ~acquired
  BY DEF LaunchInit, BoxInit, LeaseInit, BackendInit
<1> QED
  BY <1>1
     DEF MainParts, Owned, LeaseSplits, Preflighted, Replaced, CreatedIsOurs, OursIsCreated,
         MainDown, ProbeGone, Dedicated, PreflightRequired, Acquiring, LeaseOnly, Prelude,
         Probing, Freshened, Starting, Cleaning, Ended

\* A step that neither takes the lease nor creates anything.
LEMMA SplitKept ==
  ASSUME LeaseSplits, UNCHANGED <<cfg, created, mustStop>>, acquired' => acquired,
         pc' = pc \/ pc' \notin Prelude, pc' = pc \/ (pc' \in LeaseOnly => Dedicated)
  PROVE  LeaseSplits'
BY DEF LeaseSplits, Dedicated, Prelude

-----------------------------------------------------------------------------
(* Every step, where it leaves main and what it says of it. *)

USE DEF LaunchTypeOK, BoxTypeOK, LeaseTypeOK, BackendTypeOK, MainParts, Owned, NotTheirs,
        Preflighted, Replaced, CreatedIsOurs, OursIsCreated, StopsMain, MainDown, CleansMain,
        ProbeGone, Acquiring, LeaseOnly, Prelude, Probing, Freshened, Starting, Cleaning, Ended,
        Dedicated, PreflightRequired, Supervised, Run, RunInMain, RunCreate, Inspect, Fails,
        Works, Fault, Contact, AutoStart, CreateMain, CreateMainBy, ExecMain, StopMain,
        RemoveMain, Stopped, boxVars, leaseVars, finalVars, backendVars

\* A step of the guard's, or of its daemon, only stops main.
LEMMA GuardKeeps ==
  ASSUME LaunchTypeOK, MainParts, UNCHANGED <<owner, backendVars, finalVars>>,
         main' \in {main, Stopped}, acquired' => acquired,
         \/ pc' = pc
         \/ /\ pc \in {"fence", "recover"} \/ Dedicated
            /\ \/ pc' \in {"recover", "finalized", "guard failed"}
               \/ pc' = "fence wait" /\ Dedicated
  PROVE  MainParts'
<1>1. LeaseSplits'
  BY SplitKept
<1>2. Owned' /\ Preflighted' /\ Replaced'
  OBVIOUS
<1>3. CreatedIsOurs' /\ OursIsCreated'
  OBVIOUS
<1>4. MainDown' /\ ProbeGone'
  OBVIOUS
<1> QED
  BY <1>1, <1>2, <1>3, <1>4

\* The probe does not concern main.
LEMMA ProbeKeeps ==
  ASSUME LaunchTypeOK, MainParts, CheckAvailability \/ ProbeStep,
         UNCHANGED <<leaseVars, finalVars>>
  PROVE  MainParts'
<1>1. CASE CheckAvailability
  BY <1>1 DEF LeaseSplits, CheckAvailability
<1>2. CASE CreateProbe
  BY <1>2 DEF LeaseSplits, CreateProbe
<1>3. CASE ClearProbe
  BY <1>3 DEF LeaseSplits, ClearProbe, CleanupProbe
<1>4. CASE InspectProbe
  BY <1>4 DEF LeaseSplits, InspectProbe
<1>5. CASE ProbeFailed
  BY <1>5 DEF LeaseSplits, ProbeFailed
<1>6. CASE FinishProbe
  BY <1>6 DEF LeaseSplits, FinishProbe, CleanupProbe
<1> QED
  BY <1>1, <1>2, <1>3, <1>4, <1>5, <1>6 DEF ProbeStep

\* The preflight creates main where it found none.
LEMMA PreflightKeeps ==
  ASSUME LaunchTypeOK, MainParts, PreflightStep,
         UNCHANGED <<leaseVars, finalVars>>
  PROVE  MainParts'
<1>1. CASE PreflightInspects
  BY <1>1 DEF LeaseSplits, PreflightInspects
<1>2. CASE PreflightStep /\ ~PreflightInspects
  <2>1. Owned'
    BY <1>2 DEF PreflightStep, LeaseSplits
  <2>2. LeaseSplits'
    <3>1. UNCHANGED <<cfg, created, mustStop>>
      BY <1>2 DEF PreflightStep
    <3>2. acquired' => acquired
      BY <1>2 DEF PreflightStep
    <3>3. /\ pc' = pc \/ pc' \notin Prelude
          /\ pc' = pc \/ (pc' \in LeaseOnly => acquired \/ Dedicated)
      BY <1>2 DEF PreflightStep
    <3> QED
      BY <3>1, <3>2, <3>3, SplitKept DEF LeaseSplits
  <2>3. Preflighted'
    <3>1. UNCHANGED <<cfg, found, created>>
      BY <1>2 DEF PreflightStep
    <3>2. /\ PreflightRequired /\ pc' \in {"preflight main", "validate", "abort"}
          /\ pc' \in {"preflight main", "validate"} /\ ~Dedicated /\ created =>
               owner' = "launcher"
      BY <1>2 DEF PreflightStep
    <3> QED
      BY <3>1, <3>2
  <2>4. Replaced'
    BY <1>2 DEF PreflightStep, LeaseSplits
  <2>5. CreatedIsOurs'
    BY <1>2 DEF PreflightStep, LeaseSplits
  <2>6. OursIsCreated'
    BY <1>2 DEF PreflightStep, LeaseSplits
  <2>7. MainDown'
    BY <1>2 DEF PreflightStep, LeaseSplits
  <2>8. ProbeGone'
    BY <1>2 DEF PreflightStep, LeaseSplits
  <2> QED
    BY <2>1, <2>2, <2>3, <2>4, <2>5, <2>6, <2>7, <2>8
<1> QED
  BY <1>1, <1>2

\* The start replaces a main it found stopped, and goes on with its own.
LEMMA StartKeeps ==
  ASSUME LaunchTypeOK, MainParts, StartStep,
         UNCHANGED <<leaseVars, finalVars>>
  PROVE  MainParts'
<1>1. CASE ChooseStart /\ UNCHANGED backendVars
  BY <1>1 DEF LeaseSplits, ChooseStart, AfterStart, StartFails
<1>2. CASE ReplaceStale /\ UNCHANGED backendVars
  BY <1>2 DEF LeaseSplits, ReplaceStale, AfterStart, StartFails
<1>3. CASE CreateFresh /\ UNCHANGED backendVars
  <2>1. Owned'
    BY <1>3 DEF CreateFresh, StartFails, LeaseSplits
  <2>2. LeaseSplits'
    <3>1. UNCHANGED <<cfg, created, mustStop>>
      BY <1>3 DEF CreateFresh, StartFails
    <3>2. acquired' => acquired
      BY <1>3 DEF CreateFresh, StartFails
    <3>3. /\ pc' = pc \/ pc' \notin Prelude
          /\ pc' = pc \/ (pc' \in LeaseOnly => acquired \/ Dedicated)
      BY <1>3 DEF CreateFresh, StartFails
    <3> QED
      BY <3>1, <3>2, <3>3, SplitKept DEF LeaseSplits
  <2>3. Preflighted'
    BY <1>3 DEF CreateFresh, StartFails, LeaseSplits
  <2>4. Replaced'
    BY <1>3 DEF CreateFresh, StartFails, LeaseSplits
  <2>5. CreatedIsOurs'
    BY <1>3 DEF CreateFresh, StartFails, LeaseSplits
  <2>6. OursIsCreated'
    BY <1>3 DEF CreateFresh, StartFails, LeaseSplits
  <2>7. MainDown'
    BY <1>3 DEF CreateFresh, StartFails, LeaseSplits
  <2>8. ProbeGone'
    BY <1>3 DEF CreateFresh, StartFails, LeaseSplits
  <2> QED
    BY <2>1, <2>2, <2>3, <2>4, <2>5, <2>6, <2>7, <2>8
<1>4. CASE SetUpHerdr /\ UNCHANGED backendVars
  BY <1>4 DEF LeaseSplits, SetUpHerdr, AfterStart, StartFails
<1>5. CASE StartHerdr /\ UNCHANGED backendVars
  BY <1>5 DEF LeaseSplits, StartHerdr, AfterStart, StartFails
<1>6. CASE CheckAttached /\ UNCHANGED backendVars
  BY <1>6 DEF LeaseSplits, CheckAttached, AfterStart, StartFails
<1>7. CASE UndoStart /\ UNCHANGED backendVars
  BY <1>7 DEF LeaseSplits, UndoStart, AfterStart, StartFails
<1>8. CASE InspectForHerdr /\ UNCHANGED <<cfg, probe, created, attached, failed>>
  BY <1>8 DEF LeaseSplits, InspectForHerdr
<1>9. CASE InspectFresh /\ UNCHANGED <<cfg, probe, created, attached, failed>>
  BY <1>9 DEF LeaseSplits, InspectFresh
<1>10. CASE Attach /\ UNCHANGED <<cfg, probe, found, created, failed>>
  BY <1>10 DEF LeaseSplits, Attach, StartFails
<1> QED
  BY <1>1, <1>2, <1>3, <1>4, <1>5, <1>6, <1>7, <1>8, <1>9, <1>10 DEF StartStep

\* The runner touches no sandbox between the parts.
LEMMA RunnerKeeps ==
  ASSUME LaunchTypeOK, MainParts, CheckHost \/ Acquired \/ Validated \/ Abort \/ SessionEnds
  PROVE  MainParts'
<1>1. CASE CheckHost
  BY <1>1 DEF LeaseSplits, CheckHost
<1>2. CASE Acquired
  BY <1>2 DEF LeaseSplits, Acquired
<1>3. CASE Validated
  BY <1>3 DEF LeaseSplits, Validated
<1>4. CASE Abort
  BY <1>4 DEF LeaseSplits, Abort
<1>5. CASE SessionEnds
  BY <1>5 DEF LeaseSplits, SessionEnds
<1> QED
  BY <1>1, <1>2, <1>3, <1>4, <1>5

\* The finalization stops, and then removes, what is to be.
LEMMA FinalizeKeeps ==
  ASSUME LaunchTypeOK, MainParts, FinalizeStep
  PROVE  MainParts'
<1>1. CASE FenceStep /\ UNCHANGED <<backendVars, finalVars>>
  <2>1. UNCHANGED owner /\ main' \in {main, Stopped} /\ UNCHANGED acquired
    BY <1>1 DEF FenceStep, FenceIdle, Fenced, StopIssued, StopTimesOut, DaemonStop,
       DaemonEnds, Stay
  <2>2. \/ pc = "fence" /\ pc' = "recover"
        \/ pc = "fence wait" /\ pc' \in {"recover", "guard failed"}
        \/ pc = "fence" /\ pc' = "fence wait" /\ acquired
    BY <1>1 DEF FenceStep, FenceIdle, Fenced, OwnedStopped, StopIssued, StopTimesOut
  <2> QED
    BY <1>1, <2>1, <2>2, GuardKeeps DEF LeaseSplits
<1>2. CASE RecoverStep /\ UNCHANGED <<backendVars, finalVars>>
  <2>1. UNCHANGED owner /\ main' \in {main, Stopped}
    BY <1>2 DEF RecoverStep, RecoverIdle, RecoverNormal
  <2>2. acquired' => acquired
    BY <1>2 DEF RecoverStep, RecoverIdle, RecoverNormal, Release, Stay
  <2>3. pc = "recover" /\ pc' \in {"finalized", "guard failed"}
    BY <1>2 DEF RecoverStep, RecoverIdle, RecoverNormal
  <2> QED
    BY <1>2, <2>1, <2>2, <2>3, GuardKeeps
<1>3. CASE GuardFinished
  BY <1>3 DEF LeaseSplits, GuardFinished
<1>4. CASE CleanupHerdr
  BY <1>4 DEF LeaseSplits, CleanupHerdr, Cleanup
<1>5. CASE CleanupStop
  BY <1>5 DEF LeaseSplits, CleanupStop, Cleanup
<1>6. CASE CleanupRemove
  <2>1. Owned'
    BY <1>6 DEF CleanupRemove, Cleanup, RemovesMain, LeaseSplits
  <2>2. LeaseSplits'
    BY <1>6 DEF CleanupRemove, Cleanup, RemovesMain, LeaseSplits
  <2>3. Preflighted'
    BY <1>6 DEF CleanupRemove, Cleanup, RemovesMain, LeaseSplits
  <2>4. Replaced'
    BY <1>6 DEF CleanupRemove, Cleanup, RemovesMain, LeaseSplits
  <2>5. CreatedIsOurs'
    BY <1>6 DEF CleanupRemove, Cleanup, RemovesMain, LeaseSplits
  <2>6. OursIsCreated'
    BY <1>6 DEF CleanupRemove, Cleanup, RemovesMain, LeaseSplits
  <2>7. MainDown'
    BY <1>6 DEF CleanupRemove, Cleanup, RemovesMain, LeaseSplits
  <2>8. ProbeGone'
    BY <1>6 DEF CleanupRemove, Cleanup, RemovesMain, LeaseSplits
  <2> QED
    BY <2>1, <2>2, <2>3, <2>4, <2>5, <2>6, <2>7, <2>8
<1>7. CASE FinalProbeCleanup
  <2>1. Owned'
    BY <1>7 DEF FinalProbeCleanup, CleanupProbe, LeaseSplits
  <2>2. LeaseSplits'
    BY <1>7 DEF FinalProbeCleanup, CleanupProbe, LeaseSplits
  <2>3. Preflighted'
    BY <1>7 DEF FinalProbeCleanup, CleanupProbe, LeaseSplits
  <2>4. Replaced'
    BY <1>7 DEF FinalProbeCleanup, CleanupProbe, LeaseSplits
  <2>5. CreatedIsOurs'
    BY <1>7 DEF FinalProbeCleanup, CleanupProbe, LeaseSplits
  <2>6. OursIsCreated'
    BY <1>7 DEF FinalProbeCleanup, CleanupProbe, LeaseSplits
  <2>7. MainDown'
    BY <1>7 DEF FinalProbeCleanup, CleanupProbe, LeaseSplits
  <2>8. ProbeGone'
    BY <1>7 DEF FinalProbeCleanup, CleanupProbe, LeaseSplits
  <2> QED
    BY <2>1, <2>2, <2>3, <2>4, <2>5, <2>6, <2>7, <2>8
<1>8. CASE ProbeRemains
  BY <1>8 DEF LeaseSplits, ProbeRemains
<1> QED
  BY <1>1, <1>2, <1>3, <1>4, <1>5, <1>6, <1>7, <1>8 DEF FinalizeStep, GuardStep

\* The lease's daemon ends, and main is stopped with it.
LEMMA LeaseKeeps ==
  ASSUME LaunchTypeOK, MainParts, Dedicated, AcquireStep(cfg.supported) \/ ValidateStep,
         UNCHANGED <<backendVars, finalVars>>
  PROVE  MainParts'
<1>1. CASE CheckCapability(cfg.supported)
  BY <1>1 DEF LeaseSplits, CheckCapability, Stay
<1>2. CASE CheckController("controller", "scope", "abort")
  BY <1>2 DEF LeaseSplits, CheckController, Stay
<1>3. CASE InspectScope
  BY <1>3 DEF LeaseSplits, InspectScope
<1>4. CASE StopExistingDaemon
  BY <1>4 DEF LeaseSplits, StopExistingDaemon, DaemonStop, DaemonEnds
<1>5. CASE StartOwnedDaemon
  BY <1>5 DEF LeaseSplits, StartOwnedDaemon
<1>6. CASE AwaitDaemon
  BY <1>6 DEF LeaseSplits, AwaitDaemon, Stay
<1>7. CASE WakeMain
  BY <1>7 DEF LeaseSplits, WakeMain, Stay
<1>8. CASE StopIssued("restore", "restore wait")
  BY <1>8 DEF LeaseSplits, StopIssued, DaemonStop, DaemonEnds
<1>9. CASE StopTimesOut("restore wait", "abort")
  BY <1>9 DEF LeaseSplits, StopTimesOut, DaemonEnds
<1>10. CASE RestoreStops
  BY <1>10 DEF LeaseSplits, RestoreStops, OwnedStopped
<1>11. CASE RestoreNormal
  BY <1>11 DEF LeaseSplits, RestoreNormal, Release
<1>12. CASE ValidateStep
  BY <1>12 DEF LeaseSplits, ValidateStep, ValidateLease, ValidateScope, CheckController,
         ValidateIsolation, Stay
<1> QED
  BY <1>1, <1>2, <1>3, <1>4, <1>5, <1>6, <1>7, <1>8, <1>9, <1>10, <1>11, <1>12
     DEF AcquireStep

\* Nobody else removes main, or makes it the launch's.
LEMMA OthersKeep ==
  ASSUME LaunchTypeOK, MainParts, OwnedDaemon \/ Meddle \/ Interrupted
  PROVE  MainParts'
<1>1. CASE OwnedDaemon
  <2>1. UNCHANGED <<pc, owner, acquired>> /\ main' \in {main, Stopped}
    BY <1>1 DEF OwnedDaemon, ProcComesUp, ProcExits, ProcCrashes, DaemonEnds
  <2>2. UNCHANGED <<backendVars, finalVars>>
    BY <1>1 DEF OwnedDaemon
  <2> QED
    BY <2>1, <2>2, GuardKeeps
<1>2. CASE Meddle
  <2>1. Owned'
    BY <1>2 DEF Meddle, StopsDone, LeaseSplits
  <2>2. LeaseSplits'
    BY <1>2 DEF Meddle, StopsDone, LeaseSplits
  <2>3. Preflighted'
    BY <1>2 DEF Meddle, StopsDone, LeaseSplits
  <2>4. Replaced'
    BY <1>2 DEF Meddle, StopsDone, LeaseSplits
  <2>5. CreatedIsOurs'
    BY <1>2 DEF Meddle, StopsDone, LeaseSplits
  <2>6. OursIsCreated'
    BY <1>2 DEF Meddle, StopsDone, LeaseSplits
  <2>7. MainDown'
    BY <1>2 DEF Meddle, StopsDone, LeaseSplits
  <2>8. ProbeGone'
    BY <1>2 DEF Meddle, StopsDone, LeaseSplits
  <2> QED
    BY <2>1, <2>2, <2>3, <2>4, <2>5, <2>6, <2>7, <2>8
<1>3. CASE Interrupted
  BY <1>3 DEF LeaseSplits, Interrupted
<1> QED
  BY <1>1, <1>2, <1>3

LEMMA MainPartsHold == LaunchSpec => [](LeaseInv /\ MainParts)
<1> HIDE DEF MainParts, LaunchTypeOK, leaseVars, finalVars, backendVars, boxVars, Dedicated
<1>1. LeaseInv /\ MainParts /\ [LaunchNext]_launchVars => MainParts'
  <2> SUFFICES ASSUME LeaseInv, MainParts, [LaunchNext]_launchVars PROVE MainParts'
    OBVIOUS
  <2>1. LaunchTypeOK
    BY DEF LeaseInv
  <2>2. CASE UNCHANGED launchVars
    <3>1. UNCHANGED <<pc, main, owner, acquired, cfg, probe, found, created, failed, mustStop,
                      watched, cleanupErr>>
      BY <2>2 DEF launchVars, boxVars, leaseVars, backendVars, finalVars
    <3>2. Owned'
      BY <3>1 DEF MainParts, LeaseSplits, Dedicated
    <3>3. LeaseSplits'
      BY <3>1 DEF MainParts, LeaseSplits, Dedicated
    <3>4. Preflighted'
      BY <3>1 DEF MainParts, LeaseSplits, Dedicated
    <3>5. Replaced'
      BY <3>1 DEF MainParts, LeaseSplits, Dedicated
    <3>6. CreatedIsOurs'
      BY <3>1 DEF MainParts, LeaseSplits, Dedicated
    <3>7. OursIsCreated'
      BY <3>1 DEF MainParts, LeaseSplits, Dedicated
    <3>8. MainDown'
      BY <3>1 DEF MainParts, LeaseSplits, Dedicated
    <3>9. ProbeGone'
      BY <3>1 DEF MainParts, LeaseSplits, Dedicated
    <3> QED
      BY <3>2, <3>3, <3>4, <3>5, <3>6, <3>7, <3>8, <3>9 DEF MainParts
  <2>3. AcquireStep(cfg.supported) => Dedicated
    <3>1. AcquireStep(cfg.supported) => pc \in LeaseOnly
      BY DEF AcquireStep, CheckCapability, CheckController, InspectScope,
             StopExistingDaemon,
         StartOwnedDaemon, AwaitDaemon, WakeMain, StopIssued, StopTimesOut, RestoreStops,
         OwnedStopped, RestoreNormal
    <3> QED
      BY <3>1 DEF MainParts, LeaseSplits
  <2> QED
    BY <2>1, <2>2, <2>3, ProbeKeeps, PreflightKeeps, StartKeeps, RunnerKeeps, FinalizeKeeps,
       LeaseKeeps, OthersKeep DEF LaunchNext, LauncherStep
<1> QED
  BY <1>1, MainInit, LeaseInvHolds, PTL DEF LaunchSpec

-----------------------------------------------------------------------------
(* What a launch promises of the sandboxes. *)

HIDE DEF MainParts

\* Once a dedicated launch has replaced the daemon, main is not left running.
THEOREM StoppedDedicated == LaunchSpec => []DedicatedMainStopped
<1>1. MainParts => DedicatedMainStopped
  BY DEF MainParts, LeaseSplits, DedicatedMainStopped
<1> QED
  BY <1>1, MainPartsHold, PTL

\* A main the launch created, and accounts for, is not left running when it is to
\* be stopped and no cleanup error is reported.
THEOREM CreatedStopped == LaunchSpec => []CreatedMainStopped
<1>1. MainParts => CreatedMainStopped
  BY DEF MainParts, LeaseSplits, CreatedMainStopped, NoOrphanMain
<1> QED
  BY <1>1, MainPartsHold, PTL

\* A launch that reports success leaves no probe behind that it is to remove.
THEOREM ProbeCleared == LaunchSpec => []ProbeRemoved
<1>1. MainParts => ProbeRemoved
  BY DEF MainParts, ProbeRemoved
<1> QED
  BY <1>1, MainPartsHold, PTL

\* The commands that leave a running main running.
LEMMA RunningKept ==
  ASSUME main = "running", Contact \/ CreateMain \/ ExecMain \/ UNCHANGED boxVars
  PROVE  main' = "running"
OBVIOUS

\* A host-inherited launch without a watched session stops or removes a running main
\* only if it is its own, if it found it stopped, or if somebody created it after the
\* inspection.
THEOREM RunningSpared == LaunchSpec => RunningMainSpared
<1> DEFINE Theirs == ~Dedicated /\ ~watched /\ owner # "launcher" /\ main = "running"
           Excepted == \/ owner = "user" /\ found = "stopped"
                          /\ pc \in {"stop stale", "remove stale"}
                       \/ owner = "other" /\ found \in {"absent", "stopped"}
<1>1. ASSUME LeaseInv, MainParts, [LaunchNext]_launchVars, Theirs, pc' # pc
      PROVE  main' = "running" \/ Excepted
  <2> USE DEF MainParts
  <2>1. owner \in {"user", "other"} /\ ~acquired /\ pc \notin LeaseOnly
    BY <1>1 DEF LeaseInv, LeaseSplits
  <2>2. CASE CheckHost \/ Acquired \/ Validated \/ Abort \/ SessionEnds
    BY <1>1, <2>2 DEF CheckHost, Acquired, Validated, Abort, SessionEnds
  <2>3. ~AcquireStep(cfg.supported)
    BY <2>1 DEF AcquireStep, CheckCapability, CheckController, InspectScope,
       StopExistingDaemon, StartOwnedDaemon, AwaitDaemon, WakeMain, StopIssued,
       StopTimesOut, RestoreStops, OwnedStopped, RestoreNormal
  <2>4. CASE CheckAvailability \/ ProbeStep
    BY <1>1, <2>4, RunningKept
       DEF CheckAvailability, ProbeStep, CreateProbe, ClearProbe,
       CleanupProbe, InspectProbe, ProbeFailed, FinishProbe
  <2>5. CASE PreflightStep
    BY <1>1, <2>5, RunningKept DEF PreflightStep, PreflightInspects
  <2>6. CASE StartStep
    <3>1. CASE ReplaceStale
      BY <1>1, <2>1, <3>1 DEF ReplaceStale
    <3>2. CASE UndoStart
      BY <1>1, <2>1, <3>2 DEF UndoStart
    <3>3. CASE \/ ChooseStart \/ CreateFresh \/ SetUpHerdr \/ StartHerdr \/ CheckAttached
               \/ InspectForHerdr \/ InspectFresh \/ Attach
      BY <1>1, <3>3, RunningKept DEF ChooseStart, AfterStart, CreateFresh, SetUpHerdr,
         StartHerdr, CheckAttached, InspectForHerdr, InspectFresh, Attach
    <3> QED
      BY <2>6, <3>1, <3>2, <3>3 DEF StartStep
  <2>7. CASE FinalizeStep
    <3>1. CASE FenceStep \/ RecoverStep
      BY <1>1, <2>1, <3>1 DEF FenceStep, FenceIdle, Fenced, StopTimesOut, RecoverStep,
         RecoverIdle, RecoverNormal
    <3>2. CASE CleanupHerdr \/ CleanupStop \/ CleanupRemove
      <4>1. pc \in Cleaning
        BY <3>2 DEF CleanupHerdr, CleanupStop, CleanupRemove, Cleanup
      <4> QED
        BY <1>1, <2>1, <4>1
    <3>3. CASE GuardFinished \/ FinalProbeCleanup \/ ProbeRemains
      BY <1>1, <3>3 DEF GuardFinished, FinalProbeCleanup, CleanupProbe, ProbeRemains
    <3> QED
      BY <2>7, <3>1, <3>2, <3>3 DEF FinalizeStep, GuardStep
  <2>8. CASE OwnedDaemon \/ Meddle \/ Interrupted
    BY <1>1, <2>8 DEF OwnedDaemon, Meddle, Interrupted
  <2>9. ~UNCHANGED launchVars
    BY <1>1 DEF launchVars
  <2> QED
    BY <1>1, <2>1, <2>2, <2>3, <2>4, <2>5, <2>6, <2>7, <2>8, <2>9
       DEF LaunchNext, LauncherStep
<1>2. LeaseInv /\ MainParts /\ [LaunchNext]_launchVars
        => [Theirs /\ pc' # pc => main' = "running" \/ Excepted]_launchVars
  BY <1>1
<1> QED
  BY <1>2, MainPartsHold, PTL DEF LaunchSpec, RunningMainSpared
=============================================================================
