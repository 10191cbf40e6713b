--------------------------- MODULE DedicatedSession ---------------------------
(***************************************************************************)
(* The watched part of a dedicated-gateway session: the goroutine Watch    *)
(* starts, the Supervisor, the health checks, which run `sbx` commands     *)
(* under the mutex of the lease that Fence and Recover take as well, and   *)
(* the cleanup, which is Launch's finalization.                            *)
(***************************************************************************)
EXTENDS Supervisor, Launch

DaemonEvent == "dedicated-daemon"   \* DedicatedDaemonEventSource
HealthEvent == "dedicated-health"   \* DedicatedHealthEventSource

\* checkRuntimeEvent: a daemon event fails at once; a health check waits for
\* the mutex and then runs its commands, each stage being one in flight.
DaemonStage     == 1
LockStage       == 2
StatusStage     == 3
ControllerStage == 4
ScopeStage      == 5
EgressStage     == 6
CommandStages   == StatusStage .. EgressStage

ASSUME DedicatedAssumption ==
  /\ EventSources = {DaemonEvent, HealthEvent}
  /\ Stages = 1 .. EgressStage
  /\ FirstStage = [s \in EventSources |-> IF s = DaemonEvent THEN DaemonStage ELSE LockStage]
  /\ \A c \in Configs : c.mode = "dedicated-gateway" /\ c.supported

VARIABLES watcher, \* where the goroutine of Watch is
          buffer,  \* the channel it sends on, which holds one event
          drifted  \* the gateway leaves by another address than the approved one

watchVars == <<watcher, buffer>>
sessionVars == <<signalVars, supVars, launchVars, watchVars, drifted>>

SessionTypeOK ==
  /\ SupTypeOK /\ LaunchTypeOK
  /\ watcher \in {"waiting", "telling exit", "telling health", "ended"}
  /\ buffer \in EventSources \cup {NoEvent}
  /\ drifted \in BOOLEAN

\* The target is attached, under the lease.  RuntimeWatch has no EventErrors:
\* that channel never delivers.
SessionInit ==
  /\ SignalInit /\ SupInit
  /\ pc = "watch" /\ cfg \in Configs /\ faults = 0
  /\ daemon = "owned" /\ proc = "up" /\ acquired = TRUE /\ fenced = FALSE
  /\ main = "running" /\ owner \in {"user", "launcher"} /\ others = FALSE
  /\ mainWasRunning = FALSE
  /\ created = (owner = "launcher") /\ attached = TRUE
  /\ found = (IF created THEN "absent" ELSE "running")
  /\ probe = FALSE /\ failed = FALSE
  /\ mustStop = TRUE /\ watched = FALSE /\ cleanupErr = FALSE
  /\ watcher = "waiting" /\ buffer = NoEvent /\ drifted = FALSE

-----------------------------------------------------------------------------
(* The goroutine of Watch. *)

\* Seeded bug: an exit without an error is not told.
ExitUntold ==
  /\ watcher = "waiting" /\ proc \in {"exited", "none"}
  /\ watcher' = "ended" /\ UNCHANGED buffer

\* The channel of the exit is closed after its value: whoever asks learns of it.
ExitNoticed ==
  /\ watcher = "waiting" /\ proc \in {"exited", "none"}
  /\ watcher' = "telling exit" /\ UNCHANGED buffer

\* The interval (5 s) is much longer than the debounce period (200 ms).
HealthTick ==
  /\ watcher = "waiting" /\ ~debounceArmed /\ RoomForCheck
  /\ watcher' = "telling health" /\ UNCHANGED buffer

EventSent ==
  /\ buffer = NoEvent
  /\ \/ watcher = "telling exit" /\ buffer' = DaemonEvent /\ watcher' = "ended"
     \/ watcher = "telling health" /\ buffer' = HealthEvent /\ watcher' = "waiting"

WatcherCancelled ==
  /\ ctxDone /\ watcher # "ended"
  /\ watcher' = "ended" /\ UNCHANGED buffer

\* As long as somebody reads its events.
WatcherStep ==
  /\ sup = "select"
  /\ ExitNoticed \/ HealthTick \/ EventSent \/ WatcherCancelled
  /\ UNCHANGED <<signalVars, supVars, launchVars, drifted>>

-----------------------------------------------------------------------------
(* checkRuntimeEvent and checkRuntimeHealth. *)

\* Fence holds the mutex across its wait, a health check across its commands.
MutexFree == pc # "fence wait" /\ \A s \in CommandStages : running[s] = 0

\* The next command is started, unless its context is done.
Proceeds(stage) ==
  IF CheckCtxDone THEN CheckReturns(stage, "failed") ELSE CheckAdvances(stage, stage + 1)

TakeMutex ==
  /\ MutexFree
  /\ IF acquired THEN Proceeds(LockStage) ELSE CheckReturns(LockStage, "failed")
  /\ UNCHANGED <<boxVars, faults>>

\* A command that fails, or that is killed with its context or by Ctrl+C,
\* which reaches the launcher's process group.
CommandFails(stage, Command) ==
  /\ CheckReturns(stage, "failed")
  /\ \/ Fails(Command)
     \/ /\ CheckCtxDone \/ signalled = "group"
        /\ Command \/ UNCHANGED boxVars
        /\ Works

CommandPasses(stage, accepts, Command) ==
  /\ Works /\ Command
  /\ IF accepts THEN Proceeds(stage) ELSE CheckReturns(stage, "failed")

CheckStatus ==
  \/ CommandPasses(StatusStage, daemon # "none", UNCHANGED boxVars)
  \/ CommandFails(StatusStage, UNCHANGED boxVars)

CheckControllerHealth ==
  \/ CommandPasses(ControllerStage, TRUE, UNCHANGED boxVars)
  \/ CommandFails(ControllerStage, UNCHANGED boxVars)

CheckScope ==
  CommandPasses(ScopeStage, ~others, Contact) \/ CommandFails(ScopeStage, Contact)

\* CheckRuntimeEgress: under any other daemon than the owned one main leaves by
\* the host, whose address may be the approved one as well.
CheckRuntimeEgress ==
  \/ /\ daemon = "owned" => ~drifted
     /\ CheckReturns(EgressStage, "ok") /\ ExecMain /\ Works
  \/ /\ daemon = "owned" => drifted
     /\ CheckReturns(EgressStage, "failed") /\ ExecMain /\ Works
  \/ CommandFails(EgressStage, ExecMain)

Unchecked == <<leaveVars, debounceVars, inputVars, signalVars, pc, leaseVars,
               backendVars, finalVars, watchVars, drifted>>

DaemonCheck ==
  /\ CheckReturns(DaemonStage, "failed")
  /\ UNCHANGED <<boxVars, faults, Unchecked>>

WaitForMutex == TakeMutex /\ UNCHANGED Unchecked

HealthCheck ==
  /\ CheckStatus \/ CheckControllerHealth \/ CheckScope \/ CheckRuntimeEgress
  /\ UNCHANGED Unchecked

-----------------------------------------------------------------------------
(* The Supervisor's loop and its cleanup. *)

DeliverEvent ==
  /\ buffer # NoEvent /\ OnEvent(buffer) /\ buffer' = NoEvent
  /\ UNCHANGED <<signalVars, launchVars, watcher, drifted>>

SeeEventsClosed ==
  /\ watcher = "ended" /\ buffer = NoEvent /\ OnEventsClosed
  /\ UNCHANGED <<signalVars, launchVars, watchVars, drifted>>

Quiet == UNCHANGED <<signalVars, launchVars, watchVars, drifted>>

SupervisorAlone ==
  /\ \/ OnSignal \/ OnBackendExit \/ OnDebounce \/ OnOutcome \/ OutcomeSent
     \/ sup = "select" /\ Tick
  /\ Quiet

CleanupBegins ==
  /\ sup = "cleanup" /\ SessionEnds
  /\ failed' = (verdict \notin {"signal", "backend ok"})
  /\ UNCHANGED <<signalVars, supVars, watchVars, drifted>>

CleanupStep ==
  /\ sup = "cleanup" /\ FinalizeStep
  /\ pc \in {"fence", "recover"} => MutexFree
  /\ UNCHANGED <<signalVars, supVars, watchVars, drifted>>

CleanupDone ==
  /\ pc = "returned" /\ CleanupReturns(cleanupErr)
  /\ Quiet

-----------------------------------------------------------------------------
(* Everybody else, while the launcher runs. *)

\* Ctrl+C reaches the owned daemon, too.
OwnedInterrupted ==
  /\ signalled = "group" /\ proc = "up"
  /\ proc' = "exited" /\ DaemonEnds
  /\ UNCHANGED <<pc, faults, acquired, fenced, mainWasRunning, backendVars, finalVars>>

SandboxesChange ==
  /\ OwnedDaemon \/ Meddle \/ OwnedInterrupted
  /\ UNCHANGED <<signalVars, supVars, watchVars, drifted>>

GatewayDrifts ==
  /\ sup = "select" /\ Fault /\ drifted' = ~drifted
  /\ UNCHANGED <<signalVars, supVars, pc, boxVars, leaseVars, backendVars,
                 finalVars, watchVars>>

\* The attached command ends by itself, with main, or with Ctrl+C.
AttachedExits ==
  /\ sup = "select" /\ BackendExits /\ backendExit' # "closed"
  /\ IF main = "running" /\ signalled # "group" THEN Fault ELSE Works
  /\ UNCHANGED <<signalVars, pc, boxVars, leaseVars, backendVars, finalVars,
                 watchVars, drifted>>

SignalStep ==
  /\ CancelContext \/ (sup = "select" /\ SignalArrives)
  /\ UNCHANGED <<supVars, launchVars, watchVars, drifted>>

\* When Run returns, the process ends and its goroutines with it.
SessionNext ==
  /\ sup # "returned"
  /\ \/ WatcherStep \/ DaemonCheck \/ WaitForMutex \/ HealthCheck
     \/ DeliverEvent \/ SeeEventsClosed \/ SupervisorAlone
     \/ CleanupBegins \/ CleanupStep \/ CleanupDone
     \/ SandboxesChange \/ GatewayDrifts \/ AttachedExits \/ SignalStep

\* The goroutines run and time passes.  A health check's commands are obliged to
\* end once their context is cancelled, and not before; the finalization's are
\* bounded by time-outs.  Go's select takes a case that is ready again and again.
SessionFairness ==
  /\ SF_sessionVars(ExitNoticed /\ WatcherStep)
  /\ WF_sessionVars((HealthTick \/ EventSent) /\ WatcherStep)
  /\ WF_sessionVars(DeliverEvent)
  /\ SF_sessionVars(OnDebounce /\ Quiet) /\ WF_sessionVars(OnOutcome /\ Quiet)
  /\ WF_sessionVars(OutcomeSent /\ Quiet) /\ WF_sessionVars(sup = "select" /\ Tick /\ Quiet)
  /\ WF_sessionVars(OnSignal /\ Quiet)
  /\ WF_sessionVars(DaemonCheck) /\ WF_sessionVars(WaitForMutex)
  /\ WF_sessionVars(HealthCheck /\ CheckCtxDone)
  /\ WF_sessionVars(CleanupBegins) /\ SF_sessionVars(CleanupStep)
  /\ WF_sessionVars(CleanupDone)

SessionSpec == SessionInit /\ [][SessionNext]_sessionVars /\ SessionFairness

-----------------------------------------------------------------------------
(* What the dedicated watch promises. *)

\* Once the cleanup has had the lease's mutex, no health check has a command in
\* flight or starts one: not beside Fence, and not in the moment between Fence
\* and Recover, when the mutex is free for a check that was queued on it.
ChecksQuiet ==
  watched /\ pc # "fence" => \A s \in CommandStages : running[s] = 0

\* The exit of the owned daemon is not lost on its way to the Supervisor: the
\* goroutine of Watch has yet to tell it, or its event is in the channel, waits for
\* its check or is being checked, or has failed.  The event of a health check, which
\* would take its place in the debounce, never comes after it.
ExitReported ==
  proc = "exited" /\ sup = "select" /\ ~ctxDone =>
    \/ watcher # "ended" \/ DaemonEvent \in {buffer, pendingEvent}
    \/ running[DaemonStage] > 0 \/ sending["failed"] > 0 \/ checks = "failed"

\* What the session does to sandboxd, between its health checks, Ctrl+C and the
\* finalization, is what EgressLease allows of a lease that is held already, and it
\* ends with the lease given back, or an error of the cleanup reported.
LeaseKept == [][Guard!LeaseSpecNext]_Guard!egressVars /\ []LeaseReleased

\* The exit of the owned daemon ends the session, even when another daemon
\* answers in its place, the health checks pass under it, or one of them hangs.
OwnedExitStops == proc = "exited" ~> sup = "returned"

\* A cleanup that has begun comes to its end, also when a health check hangs
\* in a command with the lease's mutex in its hands.
CleanupFinishes == sup = "cleanup" ~> sup = "returned"

\* A gateway that leaves by another address ends the session, provided the
\* health checks' commands end, by their time-out at the latest.
DriftEndsSession ==
  WF_sessionVars(HealthCheck) => (drifted ~> ~drifted \/ sup = "returned")
=============================================================================
