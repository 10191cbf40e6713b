-------------------------------- MODULE Launch --------------------------------
(***************************************************************************)
(* launcher.Runner's runLaunch and runDoctor: the egress guard's Acquire,  *)
(* the backend's inspections, the start of the attached target, and the    *)
(* one finalization every way out goes through (Fence, Recover, CleanupMain *)
(* and CleanupProbe).  The watched session is one label here: HostSession  *)
(* and DedicatedSession are about what happens in it.                      *)
(***************************************************************************)
EXTENDS DedicatedLease, MainSandbox

CONSTANT Meddling   \* what others may do to the sandboxes meanwhile

ASSUME MeddlingAssumption == Meddling \subseteq 
  {"crash", "start", "stop", "create", "list", "other", "interrupt"}

VARIABLES mustStop,   \* mainFinalization.mustStop
          watched,    \* the session got as far as being watched
          cleanupErr  \* a step of the finalization failed

finalVars == <<mustStop, watched, cleanupErr>>
launchVars == <<pc, boxVars, faults, leaseVars, backendVars, finalVars>>

LaunchInit ==
  /\ BoxInit /\ LeaseInit /\ BackendInit
  /\ pc = (IF Dedicated THEN "acquire" ELSE "host egress")
  /\ mustStop = FALSE /\ watched = FALSE /\ cleanupErr = FALSE

-----------------------------------------------------------------------------
(* runLaunch and runDoctor, between the parts of the guard and the backend. *)

\* CheckClashVergeTUN and hostInheritedAdapter.Acquire.
CheckHost ==
  /\ pc = "host egress"
  /\ \/ Works /\ pc' = "availability"
     \/ Fault /\ pc' = "abort"
  /\ UNCHANGED <<boxVars, leaseVars, backendVars, finalVars>>

\* From here on a dedicated main has to be stopped at the end.
Acquired ==
  /\ pc = "acquired" /\ pc' = "availability"
  /\ acquired' = TRUE /\ mustStop' = TRUE
  /\ UNCHANGED <<boxVars, faults, proc, fenced, mainWasRunning, backendVars,
                 watched, cleanupErr>>

\* hostInheritedAdapter.ValidateMain accepts.  A doctor that succeeds keeps the
\* main it found or created, unless the mode is dedicated.
Validated ==
  /\ pc = IF Dedicated THEN "validated" ELSE "validate"
  /\ IF cfg.target = "doctor"
     THEN pc' = "fence" /\ created' = (created /\ Dedicated)
     ELSE pc' = "start" /\ UNCHANGED created
  /\ UNCHANGED <<boxVars, faults, leaseVars, cfg, probe, found, attached, failed, finalVars>>

\* Seeded bug: a failed start does not count as having created main.
AbortUnowned ==
  /\ pc \in {"abort", "abort start"}
  /\ failed' = TRUE /\ attached' = FALSE /\ pc' = "fence"
  /\ UNCHANGED <<boxVars, faults, leaseVars, cfg, probe, found, created, finalVars>>

\* An error before the session is watched.  A start that created main has to
\* clean it up; with a preflight that is known already.
Abort ==
  /\ pc \in {"abort", "abort start"}
  /\ created' = (created \/ (pc = "abort start" /\ ~PreflightRequired))
  /\ failed' = TRUE /\ attached' = FALSE /\ pc' = "fence"
  /\ UNCHANGED <<boxVars, faults, leaseVars, cfg, probe, found, finalVars>>

\* Supervisor.Run has a reason to leave; its cleanup cancels the attached command.
SessionEnds ==
  /\ pc = "watch"
  /\ watched' = TRUE /\ attached' = FALSE /\ failed' \in BOOLEAN /\ pc' = "fence"
  /\ UNCHANGED <<boxVars, faults, leaseVars, cfg, probe, found, created, mustStop, cleanupErr>>

-----------------------------------------------------------------------------
(* finalizeDoctorGuard and the Supervisor's cleanup. *)

\* hostInheritedAdapter's Fence and Recover do nothing, as does an idle lease.
GuardStep ==
  /\ FenceStep \/ RecoverStep
  /\ UNCHANGED <<backendVars, finalVars>>

\* CleanupMain is called after every watched session, and otherwise for a main
\* the launch created or a dedicated one.
CleansMain == watched \/ mustStop \/ created

GuardFinished ==
  /\ pc \in {"finalized", "guard failed"}
  /\ cleanupErr' = (pc = "guard failed")
  /\ pc' = (IF CleansMain THEN "cleanup herdr" ELSE "returned")
  /\ UNCHANGED <<boxVars, faults, leaseVars, backendVars, mustStop, watched>>

\* A command of CleanupMain: an error is reported at the end, and a sandbox
\* that is not there is none.  mainCleanupConfig decides which ones apply.
Cleanup(from, applies, Command, next) ==
  /\ pc = from /\ pc' = next
  /\ \/ ~applies /\ Works /\ UNCHANGED <<boxVars, cleanupErr>>
     \/ applies /\ Works /\ Command /\ UNCHANGED cleanupErr
     \/ applies /\ Fails(Command) /\ cleanupErr' = TRUE
  /\ UNCHANGED <<leaseVars, backendVars, mustStop, watched>>

\* `herdr server stop` runs in main.
CleanupHerdr ==
  Cleanup("cleanup herdr", cfg.herdr /\ ~Dedicated,
          IF main = "absent" THEN Contact ELSE ExecMain, "cleanup stop")

\* Seeded bug: the configuration decides for a dedicated main, too.
StopAsConfigured == Cleanup("cleanup stop", cfg.stopMain, StopMain, "cleanup remove")

CleanupStop ==
  Cleanup("cleanup stop", IF Dedicated THEN mustStop ELSE cfg.stopMain, StopMain,
          "cleanup remove")

\* Seeded bug: a dedicated main is removed whoever created it.
RemovesAsConfigured == cfg.removeMain

RemovesMain == cfg.removeMain /\ (Dedicated => created)

CleanupRemove ==
  Cleanup("cleanup remove", RemovesMain, RemoveMain,
          IF watched /\ ~PreflightRequired THEN "cleanup probe" ELSE "returned")

FinalProbeCleanup ==
  /\ CleanupProbe("cleanup probe", "returned", "probe remains")
  /\ UNCHANGED <<failed, leaseVars, finalVars>>

ProbeRemains ==
  /\ pc = "probe remains" /\ pc' = "returned" /\ cleanupErr' = TRUE
  /\ UNCHANGED <<boxVars, faults, leaseVars, backendVars, mustStop, watched>>

FinalizeStep ==
  \/ GuardStep \/ GuardFinished
  \/ CleanupHerdr \/ CleanupStop \/ CleanupRemove
  \/ FinalProbeCleanup \/ ProbeRemains

-----------------------------------------------------------------------------
(* Everybody else. *)

OwnedDaemon ==
  /\ \/ ProcComesUp \/ ProcExits
     \/ "crash" \in Meddling /\ ProcCrashes
  /\ UNCHANGED <<pc, backendVars, finalVars>>

\* Where the launch has stopped main, if it does: who starts main from here on
\* does so on his own account.
StopsDone == {"cleanup remove", "cleanup probe", "probe remains", "returned", "killed"}

\* The user, or another tool, starts, stops or creates main, lists the sandboxes, or
\* creates another one.
Meddle ==
  /\ Fault
  /\ \/ "stop" \in Meddling /\ main = "running" /\ StopMain
     \/ "start" \in Meddling /\ main = "stopped" /\ pc \notin StopsDone /\ ExecMain
     \/ "create" \in Meddling /\ pc \notin StopsDone /\ CreateMainBy("other")
     \/ "list" \in Meddling /\ daemon = "none" /\ Contact
     \/ /\ "other" \in Meddling /\ ~others /\ others' = TRUE
        /\ AutoStart /\ UNCHANGED <<main, owner>>
  /\ UNCHANGED <<pc, leaseVars, backendVars, finalVars>>

\* signal.NotifyContext is called once the target is attached: a signal before
\* that, or during the finalization of a failed start, ends the process.
Interrupted ==
  /\ "interrupt" \in Meddling /\ Fault
  /\ ~watched /\ pc \notin {"watch", "returned", "killed"}
  /\ pc' = "killed" /\ attached' = FALSE
  /\ UNCHANGED <<boxVars, leaseVars, cfg, probe, found, created, failed, finalVars>>

-----------------------------------------------------------------------------

LauncherStep ==
  \/ CheckHost \/ Acquired \/ Validated \/ Abort \/ SessionEnds
  \/ AcquireStep(cfg.supported) /\ UNCHANGED <<backendVars, finalVars>>
  \/ Dedicated /\ ValidateStep /\ UNCHANGED <<backendVars, finalVars>>
  \/ /\ CheckAvailability \/ ProbeStep \/ PreflightStep \/ StartStep
     /\ UNCHANGED <<leaseVars, finalVars>>
  \/ FinalizeStep

LaunchNext == LauncherStep \/ OwnedDaemon \/ Meddle \/ Interrupted

LaunchSpec == LaunchInit /\ [][LaunchNext]_launchVars

LaunchTypeOK ==
  /\ BoxTypeOK /\ LeaseTypeOK /\ BackendTypeOK
  /\ mustStop \in BOOLEAN /\ watched \in BOOLEAN /\ cleanupErr \in BOOLEAN
  /\ daemon = "owned" <=> proc = "up"

-----------------------------------------------------------------------------
(* The launch implements EgressLease. *)

LeaseState == IF ~acquired THEN "idle" ELSE IF fenced THEN "fenced" ELSE "held"

Guard == INSTANCE EgressLease WITH lease <- LeaseState

\* EgressGuard's contract, over every command, time-out and restore it takes:
\* no daemon with the dedicated upstream but under a held lease, no step from
\* held to idle but through fenced, and a normal daemon when it is given back.
LeaseImplemented == Guard!LeaseSpec

-----------------------------------------------------------------------------
(* What a launch promises. *)

\* At its end, unless it reports that the cleanup failed, a launch holds no
\* lease: no daemon with the dedicated upstream runs or is about to (Acquire's
\* restore, Fence and Recover between them).
LeaseReleased ==
  pc = "returned" /\ ~cleanupErr =>
    ~acquired /\ daemon # "owned" /\ proc \notin {"starting", "up"}

\* A lease counts as fenced only when the daemon that carries the dedicated
\* upstream is gone, so that the normal daemon is never started beside it.
FencedIsStopped == fenced => proc \notin {"starting", "up"}

\* Once a dedicated launch has replaced the daemon, main is not left running:
\* it would run on without the gateway.
DedicatedMainStopped ==
  pc = "returned" /\ Dedicated /\ mustStop /\ ~cleanupErr => main # "running"

\* A host-inherited launch that has not reached a watched session does not stop or
\* remove a running main of somebody else's (preserveExistingMainError).  What it
\* does not see is a main started after ensureFreshMainSandbox found it stopped, and
\* one created by others after the inspection found none, or a stale one: the failed
\* `sbx create` counts that as the launch's own.
RunningMainSpared ==
  [][~Dedicated /\ ~watched /\ owner # "launcher" /\ main = "running" /\ pc' # pc
       => \/ main' = "running"
          \/ owner = "user" /\ found = "stopped" /\ pc \in {"stop stale", "remove stale"}
          \/ owner = "other" /\ found \in {"absent", "stopped"}]_launchVars

\* docs: on a failed start main goes through the cleanup.  A main the launch
\* created is not left running, provided it is to be stopped and no cleanup error
\* is reported; only a doctor that succeeded keeps it.
NoOrphanMain ==
  pc = "returned" /\ owner = "launcher" /\ main = "running" =>
    \/ cleanupErr \/ ~cfg.stopMain
    \/ cfg.target = "doctor" /\ ~failed

\* The same where it holds: main is accounted for, because the start is what
\* creates it (no preflight), or because the preflight did.
CreatedMainStopped == ~PreflightRequired \/ created => NoOrphanMain

\* A probe is not left behind by a launch that reports success.
ProbeRemoved ==
  pc = "returned" /\ probe /\ cfg.removeProbe /\ ~PreflightRequired => failed \/ cleanupErr

\* The cleanup never removes a main the launcher did not create.
UsersMainKept ==
  [][owner = "user" /\ pc = "cleanup remove" => owner' = "user"]_launchVars

\* docs/adr/0003: a dedicated launch never removes a preexisting main, whatever
\* fails or meddles.  Only PrepareHerdrTUI may, where it finds main stopped
\* although the preflight has started it.
PreexistingMainKept ==
  [][Dedicated /\ owner = "user" /\ pc # "remove stale" => owner' = "user"]_launchVars
=============================================================================
