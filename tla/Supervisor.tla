------------------------------ MODULE Supervisor ------------------------------
(***************************************************************************)
(* watchdog.Supervisor.Run: the select loop that debounces events, starts  *)
(* checks in goroutines of their own, receives their outcomes, and leaves  *)
(* through one cleanup on the first reason to stop.                        *)
(*                                                                         *)
(* A check is a goroutine that passes through the stages of its checker.   *)
(* What a stage does is the checker's business (a module that extends this *)
(* one says it with CheckAdvances and CheckReturns); standing alone, a     *)
(* check may take any stage after the one it is in and return anything.    *)
(***************************************************************************)
EXTENDS Integers, SignalContext

CONSTANTS EventSources,  \* who sends events
          Stages,        \* stages of a check, numbered
          FirstStage,    \* the stage a check of a source's event starts in
          DebounceTicks, \* EventDebounce in ticks; 0 starts checks at once
          MaxChecks      \* bound on the checks in flight, standing alone

NoEvent == "none"

ASSUME SupervisorAssumption ==
  /\ Stages \in SUBSET Nat /\ FirstStage \in [EventSources -> Stages]
  /\ DebounceTicks \in Nat /\ MaxChecks \in Nat
  /\ NoEvent \notin EventSources

Outcomes == {"ok", "failed"}
Verdicts == {"none", "signal", "backend ok", "backend failed", "check failed",
             "source failed", "source cancelled"}

\* The error of a source wraps context.Canceled, or it does not.
SourceVerdicts == {"source failed", "source cancelled"}

VARIABLES sup,           \* where Run is
          verdict,       \* why it leaves the loop
          cleanupFailed, \* the error onceCleanup keeps
          cancelled,     \* cancelChecks() was called
          debounceArmed, \* debounceC is not nil
          timer,         \* ticks until the debounce timer fires
          pendingEvent,  \* pendingEvent, or NoEvent: hasPendingEvent is false
          running,       \* check goroutines in each stage
          sending,       \* check goroutines whose outcome is not yet sent
          checks,        \* the channel `checks`, which holds one outcome
          backendExit,   \* what the BackendExit channel will yield
          eventsOpen,    \* s.Events is not nil
          errorsOpen     \* s.EventErrors is not nil

debounceVars == <<debounceArmed, timer, pendingEvent>>
checkVars    == <<running, sending, checks>>
leaveVars    == <<sup, verdict, cleanupFailed, cancelled>>
inputVars    == <<backendExit, eventsOpen, errorsOpen>>
supVars      == <<leaveVars, debounceVars, checkVars, inputVars>>

SupTypeOK ==
  /\ SignalTypeOK
  /\ sup \in {"select", "cleanup", "returned"}
  /\ verdict \in Verdicts
  /\ cleanupFailed \in BOOLEAN /\ cancelled \in BOOLEAN
  /\ debounceArmed \in BOOLEAN /\ timer \in 0 .. DebounceTicks
  /\ pendingEvent \in EventSources \cup {NoEvent}
  /\ running \in [Stages -> Nat]
  /\ sending \in [Outcomes -> Nat]
  /\ checks \in Outcomes \cup {"empty"}
  /\ backendExit \in {"open", "clean", "failed", "closed"}
  /\ eventsOpen \in BOOLEAN /\ errorsOpen \in BOOLEAN

SupInit ==
  /\ sup = "select" /\ verdict = "none"
  /\ cleanupFailed = FALSE /\ cancelled = FALSE
  /\ debounceArmed = FALSE /\ timer = 0 /\ pendingEvent = NoEvent
  /\ running = [s \in Stages |-> 0] /\ sending = [o \in Outcomes |-> 0]
  /\ checks = "empty" /\ backendExit = "open"
  /\ eventsOpen = TRUE /\ errorsOpen = TRUE

-----------------------------------------------------------------------------
(* Checks. *)

\* checkCtx.Done() is closed: the context is a child of signalCtx.
CheckCtxDone == cancelled \/ ctxDone

Inc(f, x) == [f EXCEPT ![x] = f[x] + 1]
Dec(f, x) == [f EXCEPT ![x] = f[x] - 1]

StartCheck(source) == running' = Inc(running, FirstStage[source])

CheckAdvances(s, t) ==
  /\ running[s] > 0
  /\ running' = Inc(Dec(running, s), t)
  /\ UNCHANGED <<sending, checks>>

CheckReturns(s, outcome) ==
  /\ running[s] > 0
  /\ running' = Dec(running, s)
  /\ sending' = Inc(sending, outcome)
  /\ UNCHANGED checks

\* The goroutine's select: its outcome goes into the channel, or it gives up
\* because the checks are cancelled.
SendOutcome(outcome) ==
  /\ sending[outcome] > 0 /\ checks = "empty"
  /\ sending' = Dec(sending, outcome) /\ checks' = outcome
  /\ UNCHANGED running

DropOutcome(outcome) ==
  /\ sending[outcome] > 0 /\ CheckCtxDone
  /\ sending' = Dec(sending, outcome)
  /\ UNCHANGED <<running, checks>>

-----------------------------------------------------------------------------
(* Debouncing. *)

\* Seeded bugs: the timer is reset but debounceC stays nil; the period is added
\* to what was left of it.
ResetTimer    == UNCHANGED debounceArmed /\ timer' = DebounceTicks
ExtendDebounce == debounceArmed' = TRUE /\ timer' = timer + DebounceTicks

\* (Re)arm the timer for the full period, whatever it was doing.
ArmDebounce == debounceArmed' = TRUE /\ timer' = DebounceTicks

\* Seeded bug: an event that waits for its check is not replaced.
ScheduleFirst(source) ==
  IF DebounceTicks = 0
  THEN StartCheck(source) /\ UNCHANGED <<debounceVars, sending, checks>>
  ELSE /\ pendingEvent' = IF pendingEvent = NoEvent THEN source ELSE pendingEvent
       /\ ArmDebounce
       /\ UNCHANGED checkVars

ScheduleCheck(source) ==
  IF DebounceTicks = 0
  THEN StartCheck(source) /\ UNCHANGED <<debounceVars, sending, checks>>
  ELSE /\ pendingEvent' = source
       /\ ArmDebounce
       /\ UNCHANGED checkVars

Tick ==
  /\ debounceArmed /\ timer > 0
  /\ timer' = timer - 1
  /\ UNCHANGED <<leaveVars, debounceArmed, pendingEvent, checkVars, inputVars>>

\* Seeded bug: the event is left to a check that is already running.
StartUnlessRunning ==
  IF pendingEvent = NoEvent \/ \E s \in Stages : running[s] > 0
  THEN pendingEvent' = NoEvent /\ UNCHANGED running
  ELSE pendingEvent' = NoEvent /\ StartCheck(pendingEvent)

StartPendingCheck ==
  IF pendingEvent = NoEvent
  THEN UNCHANGED <<pendingEvent, running>>
  ELSE pendingEvent' = NoEvent /\ StartCheck(pendingEvent)

-----------------------------------------------------------------------------
(* The cases of the select. *)

\* Every way out cancels the checks before it cleans up.
\* Seeded bug: the checks are left alone.
KeepChecks == UNCHANGED cancelled

CancelChecks == cancelled' = TRUE

Leave(why) ==
  /\ sup' = "cleanup" /\ verdict' = why
  /\ CancelChecks
  /\ UNCHANGED <<cleanupFailed, debounceVars, inputVars>>

OnSignal ==
  /\ sup = "select" /\ ctxDone
  /\ Leave("signal") /\ UNCHANGED checkVars

OnBackendExit ==
  /\ sup = "select" /\ backendExit # "open"
  /\ Leave(IF backendExit = "failed" THEN "backend failed" ELSE "backend ok")
  /\ UNCHANGED checkVars

OnEvent(source) ==
  /\ sup = "select" /\ eventsOpen
  /\ ScheduleCheck(source)
  /\ UNCHANGED <<leaveVars, inputVars>>

OnEventsClosed ==
  /\ sup = "select" /\ eventsOpen
  /\ eventsOpen' = FALSE
  /\ UNCHANGED <<leaveVars, debounceVars, checkVars, backendExit, errorsOpen>>

OnDebounce ==
  /\ sup = "select" /\ debounceArmed /\ timer = 0
  /\ debounceArmed' = FALSE
  /\ StartPendingCheck
  /\ UNCHANGED <<leaveVars, timer, sending, checks, inputVars>>

\* Seeded bugs: a failure is passed over when a newer check is due; any outcome
\* ends the loop.
OutcomeUnlessSuperseded ==
  /\ sup = "select" /\ checks # "empty"
  /\ checks' = "empty" /\ UNCHANGED <<running, sending>>
  /\ \/ checks = "failed" /\ pendingEvent = NoEvent /\ Leave("check failed")
     \/ /\ checks = "ok" \/ pendingEvent # NoEvent
        /\ UNCHANGED <<leaveVars, debounceVars, inputVars>>

OutcomeEndsLoop ==
  /\ sup = "select" /\ checks # "empty"
  /\ checks' = "empty" /\ UNCHANGED <<running, sending>>
  /\ Leave("check failed")

OnOutcome ==
  /\ sup = "select" /\ checks # "empty"
  /\ checks' = "empty" /\ UNCHANGED <<running, sending>>
  /\ \/ checks = "failed" /\ Leave("check failed")
     \/ checks = "ok" /\ UNCHANGED <<leaveVars, debounceVars, inputVars>>

OnSourceError(why) ==
  /\ sup = "select" /\ errorsOpen
  /\ Leave(why) /\ UNCHANGED checkVars

OnErrorsClosed ==
  /\ sup = "select" /\ errorsOpen
  /\ errorsOpen' = FALSE
  /\ UNCHANGED <<leaveVars, debounceVars, checkVars, backendExit, eventsOpen>>

\* onceCleanup.Do returned and so does Run.
CleanupReturns(failed) ==
  /\ sup = "cleanup"
  /\ sup' = "returned" /\ cleanupFailed' = failed
  /\ UNCHANGED <<verdict, cancelled, debounceVars, checkVars, inputVars>>

\* errors.Is(err, context.Canceled) of Run's result: a failed cleanup takes the
\* place of ctx.Err(), but stands beside the error of a source, which is wrapped.
IsCanceled ==
  \/ verdict = "signal" /\ ~cleanupFailed
  \/ verdict = "source cancelled"

\* What runLaunch makes of Run's result.
ExitCode ==
  IF IsCanceled THEN 130
  ELSE IF verdict = "backend ok" /\ ~cleanupFailed THEN 0 ELSE 1

\* The attached command ended; its channel yields the result and is closed.
BackendExits ==
  /\ backendExit = "open"
  /\ backendExit' \in {"clean", "failed", "closed"}
  /\ UNCHANGED <<leaveVars, debounceVars, checkVars, eventsOpen, errorsOpen>>

-----------------------------------------------------------------------------
(* Run with any checker and any events. *)

RoomForCheck ==
  \A s \in Stages : running[s] + sending["ok"] + sending["failed"] < MaxChecks

EventArrives == RoomForCheck /\ \E source \in EventSources : OnEvent(source)

AnyCheckAdvances ==
  /\ \E s, t \in Stages : s < t /\ CheckAdvances(s, t)
  /\ UNCHANGED <<leaveVars, debounceVars, inputVars>>

AnyCheckReturns ==
  /\ \E s \in Stages, o \in Outcomes : CheckReturns(s, o)
  /\ UNCHANGED <<leaveVars, debounceVars, inputVars>>

OutcomeSent ==
  /\ \E o \in Outcomes : SendOutcome(o) \/ DropOutcome(o)
  /\ UNCHANGED <<leaveVars, debounceVars, inputVars>>

AnySourceError == \E why \in SourceVerdicts : OnSourceError(why)

CleanupEnds == \E failed \in BOOLEAN : CleanupReturns(failed)

SupStep ==
  \/ OnSignal \/ OnBackendExit \/ EventArrives \/ OnEventsClosed
  \/ OnDebounce \/ OnOutcome \/ AnySourceError \/ OnErrorsClosed
  \/ Tick \/ AnyCheckAdvances \/ AnyCheckReturns \/ OutcomeSent

-----------------------------------------------------------------------------

\* The debounced event is never forgotten: while Run loops, an event that
\* waits for its check has a timer that will fire (the timer is re-armed on
\* every event, also after debounceC was set to nil by the previous firing).
PendingEventArmed == sup = "select" /\ pendingEvent # NoEvent => debounceArmed

\* A failed outcome that reached the channel always ends the session, however
\* many events, timers and other outcomes compete for the select.
FailureStops == checks = "failed" ~> sup = "returned"

\* No check goroutine outlives Run blocked on its send: with several checks in
\* flight the channel holds only the first outcome and nobody reads it.
CheckersEnd ==
  sup = "returned" ~>
    \A s \in Stages, o \in Outcomes : running[s] = 0 /\ sending[o] = 0
=============================================================================
