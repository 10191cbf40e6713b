----------------------------- MODULE HostSession -----------------------------
(***************************************************************************)
(* The watched part of a host-inherited session: from guard.Watch to the   *)
(* return of Supervisor.Run.  It composes the host's network policy, the   *)
(* event pipeline (EventStreams), the Supervisor, and the RuntimeChecker   *)
(* whose stages read the route, the interface and the host egress, in that *)
(* order and at different times.                                           *)
(*                                                                         *)
(* The host may break and repair each of the three policies at any moment. *)
(* What macOS and Clash Verge promise is only that a routing change is a   *)
(* line of `route -n monitor` and that an egress change is followed by a   *)
(* metadata write (docs/threat-model.md lists the rest as out of scope).   *)
(***************************************************************************)
EXTENDS Supervisor, EventStreams

CONSTANTS MaxAttempts,  \* runtimeHostEgressMaxAttempts
          MaxIncidents, \* bound on what goes wrong in a behaviour
          BoundNoise,   \* keep unrelated events few (for TLC)
          BoundSignals  \* no signal beside an incident (for TLC)

Policies == {"route", "iface", "egress"}

RouteStage == 1
IfaceStage == 2
EgressStage(attempt) == 2 + attempt
EgressStages == 3 .. 2 + MaxAttempts

ASSUME HostAssumption ==
  /\ MaxAttempts \in Nat \ {0} /\ MaxIncidents \in Nat
  /\ EventSources = Sources /\ Stages = 1 .. 2 + MaxAttempts
  /\ FirstStage = [s \in Sources |-> RouteStage]
  /\ BoundNoise \in BOOLEAN /\ BoundSignals \in BOOLEAN

VARIABLES bad,        \* the policies the host violates now
          \* What happened to them; no step depends on it:
          unwatched,  \* those of them that broke before their monitor watched
          passedOver, \* those of them that a check has passed all the same
          incidents   \* how often something other than a signal went wrong

driftVars == <<bad, unwatched, passedOver>>
hostVars == <<driftVars, incidents>>
vars == <<signalVars, supVars, streamVars, hostVars>>

HostTypeOK ==
  /\ SupTypeOK /\ StreamTypeOK
  /\ bad \in SUBSET Policies
  /\ unwatched \in SUBSET bad /\ passedOver \in SUBSET bad
  /\ incidents \in Nat

\* The checks of Acquire have just passed.
Init ==
  /\ SignalInit /\ SupInit /\ StreamInit
  /\ bad = {} /\ unwatched = {} /\ passedOver = {}
  /\ incidents = 0

-----------------------------------------------------------------------------
(* The host, while the session is watched. *)

Incident ==
  /\ sup = "select" /\ incidents < MaxIncidents
  /\ BoundSignals => signalled = "none"
  /\ incidents' = incidents + 1

SourceOf(policy) == IF policy = "egress" THEN "clash" ELSE "route"

Starting(s) == IF s = "route" THEN routeMon = "starting" ELSE clashMon = "starting"

Breaks(policy) ==
  /\ policy \notin bad /\ bad' = bad \cup {policy}
  /\ unwatched' = unwatched \cup (IF Starting(SourceOf(policy)) THEN {policy} ELSE {})
  /\ UNCHANGED passedOver

Heals(policy) ==
  /\ policy \in bad /\ bad' = bad \ {policy}
  /\ unwatched' = unwatched \ {policy} /\ passedOver' = passedOver \ {policy}

PolicyChanges ==
  \E policy \in Policies :
    /\ Incident
    /\ Breaks(policy) \/ Heals(policy)
    /\ IF SourceOf(policy) = "route"
       THEN RouteLine /\ UNCHANGED clashVars
       ELSE MetadataWritten /\ UNCHANGED routeVars
    /\ UNCHANGED <<monErrs, mergeVars, supVars, signalVars>>

\* An event of the source is on its way to the Supervisor.
EventComing(s) ==
  \/ fwd[s] = "holding"
  \/ s = "route" /\ \/ routeMon = "sending"
                    \/ routeMon = "scanning" /\ routeLines > 0
  \/ s = "clash" /\ \/ clashMon = "sending"
                    \/ clashMon = "polling" /\ metadataDirty

\* Routing changes and metadata writes that leave the policies alone, any
\* number of them; BoundNoise lets one in only when no event and no check is
\* under way, which bounds the checks in flight.
Noise ==
  /\ sup = "select"
  /\ BoundNoise => RoomForCheck /\ \A s \in Sources : ~EventComing(s)
  /\ RouteLineArrives \/ MetadataChanges
  /\ UNCHANGED <<supVars, hostVars>>

SourceBreaks ==
  /\ Incident /\ (RouteChildExits \/ RouteFails \/ AppHomeBreaks)
  /\ UNCHANGED <<driftVars, supVars>>

\* Ctrl+C reaches `route -n monitor` by itself, being in the same group.
ChildInterrupted ==
  /\ sup = "select" /\ signalled = "group"
  /\ RouteChildExits
  /\ UNCHANGED <<hostVars, supVars>>

\* So it does the attached command, which may end on its own as well.
AttachedExits ==
  /\ \/ Incident
     \/ sup = "select" /\ signalled = "group" /\ UNCHANGED incidents
  /\ BackendExits /\ backendExit' # "closed"
  /\ UNCHANGED <<driftVars, streamVars, signalVars>>

-----------------------------------------------------------------------------
(* RuntimeChecker.Check, one stage at a time. *)

CheckFails(stage) == CheckReturns(stage, "failed")

\* `route get` and `ifconfig`: the command may also fail on its own account, or
\* be interrupted with the launcher's process group.
CheckCommand(stage, policy) ==
  \/ policy \notin bad /\ CheckAdvances(stage, stage + 1) /\ UNCHANGED incidents
  \/ policy \in bad /\ CheckFails(stage) /\ UNCHANGED incidents
  \/ CheckFails(stage) /\ Incident
  \/ signalled = "group" /\ CheckFails(stage) /\ UNCHANGED incidents

EgressMatches(stage) ==
  /\ "egress" \notin bad
  /\ CheckReturns(stage, "ok")
  /\ UNCHANGED <<passedOver, incidents>>

\* The default transport may still have a connection that an earlier check, or the
\* preflight, opened before the egress changed: the answer shows the old address.
EgressMatchesStill(stage) ==
  /\ "egress" \in bad
  /\ CheckReturns(stage, "ok")
  /\ passedOver' = passedOver \cup {"egress"}
  /\ UNCHANGED incidents

EgressDiffers(stage) ==
  /\ "egress" \in bad
  /\ CheckFails(stage)
  /\ UNCHANGED <<passedOver, incidents>>

\* Only an endpoint failure is retried, only while attempts are left, and not
\* under a cancelled context.
ShouldRetryHostEgress(stage) ==
  stage < EgressStage(MaxAttempts) /\ ~CheckCtxDone

EgressEndpointFails(stage) ==
  /\ IF ShouldRetryHostEgress(stage) THEN CheckAdvances(stage, stage + 1)
                                     ELSE CheckFails(stage)
  /\ Incident /\ UNCHANGED passedOver

\* The request, or the wait before the next attempt, ends with the context.
EgressCancelled(stage) ==
  /\ CheckCtxDone /\ CheckFails(stage)
  /\ UNCHANGED <<passedOver, incidents>>

\* The response is not an address: no retry.
EgressUnparsable(stage) ==
  /\ CheckFails(stage)
  /\ Incident /\ UNCHANGED passedOver

CheckEgress(stage) ==
  \/ EgressMatches(stage) \/ EgressMatchesStill(stage) \/ EgressDiffers(stage)
  \/ EgressEndpointFails(stage) \/ EgressCancelled(stage) \/ EgressUnparsable(stage)

CheckStep ==
  /\ \/ CheckCommand(RouteStage, "route") /\ UNCHANGED passedOver
     \/ CheckCommand(IfaceStage, "iface") /\ UNCHANGED passedOver
     \/ \E stage \in EgressStages : CheckEgress(stage)
  /\ UNCHANGED <<bad, unwatched, leaveVars, debounceVars, inputVars, streamVars,
                 signalVars>>

-----------------------------------------------------------------------------
(* The Supervisor, on the merged streams. *)

DeliverEvent ==
  /\ \E s \in Sources : ForwardEvent(s) /\ OnEvent(s)
  /\ UNCHANGED <<hostVars, signalVars>>

\* Of the errors of the sources only that of a refused start wraps the context's.
SourceVerdict(s) ==
  IF s = "route" /\ routeChild = "refused" THEN "source cancelled" ELSE "source failed"

DeliverError ==
  /\ \E s \in Sources : TakeError(s) /\ OnSourceError(SourceVerdict(s))
  /\ UNCHANGED <<hostVars, signalVars>>

SeeEventsClosed ==
  /\ mergedClosed /\ OnEventsClosed
  /\ UNCHANGED <<hostVars, streamVars, signalVars>>

SeeErrorsClosed ==
  /\ mergedClosed /\ mergedErrs = {} /\ OnErrorsClosed
  /\ UNCHANGED <<hostVars, streamVars, signalVars>>

SupervisorAlone ==
  /\ \/ OnSignal \/ OnBackendExit \/ OnDebounce \/ OnOutcome
     \/ OutcomeSent \/ CleanupEnds
  /\ UNCHANGED <<hostVars, streamVars, signalVars>>

TimePasses == Tick /\ UNCHANGED <<hostVars, streamVars, signalVars>>

\* The goroutines of the pipeline, as long as somebody reads the merged
\* streams; how they end afterwards is EventStreams' own specification.
StreamsStep ==
  /\ sup = "select"
  /\ MonitorStep \/ MergeStep \/ RouteChildKilled
  /\ UNCHANGED <<hostVars, supVars>>

SignalStep ==
  /\ sup = "select"
  /\ \/ (BoundSignals => incidents = 0) /\ SignalArrives
     \/ CancelContext
  /\ UNCHANGED <<hostVars, supVars, streamVars>>

Next ==
  \/ PolicyChanges \/ Noise \/ SourceBreaks \/ ChildInterrupted \/ AttachedExits
  \/ CheckStep \/ DeliverEvent \/ DeliverError \/ SeeEventsClosed
  \/ SeeErrorsClosed \/ SupervisorAlone \/ TimePasses \/ StreamsStep \/ SignalStep

\* The goroutines run, Go's select takes a case that stays ready, time passes,
\* commands and requests end, a signal cancels its context and the cleanup
\* returns.  The select picks among ready cases at random, so a timer that has
\* fired again and again is not passed over for ever (SF).  Nothing obliges the
\* host, the attached command or the user.
Fairness ==
  /\ WF_vars(DeliverEvent) /\ WF_vars(DeliverError)
  /\ SF_vars(OnDebounce /\ UNCHANGED <<hostVars, streamVars, signalVars>>)
  /\ WF_vars(OnOutcome /\ UNCHANGED <<hostVars, streamVars, signalVars>>)
  /\ WF_vars(OnSignal /\ UNCHANGED <<hostVars, streamVars, signalVars>>)
  /\ WF_vars(OutcomeSent /\ UNCHANGED <<hostVars, streamVars, signalVars>>)
  /\ WF_vars(CleanupEnds /\ UNCHANGED <<hostVars, streamVars, signalVars>>)
  /\ WF_vars(TimePasses) /\ WF_vars(CheckStep) /\ WF_vars(SignalStep /\ ctxDone')
  /\ WF_vars((RouteStarts \/ RouteRefused \/ ClashStarts) /\ UNCHANGED <<hostVars, supVars>>)
  /\ WF_vars((RouteScans \/ RouteHandsOff \/ RouteEnds)
               /\ UNCHANGED <<hostVars, supVars>>)
  /\ WF_vars((ClashPolls \/ ClashHandsOff) /\ UNCHANGED <<hostVars, supVars>>)
  /\ WF_vars(MergeStep /\ UNCHANGED <<hostVars, supVars>>)

Spec == Init /\ [][Next]_vars /\ Fairness

-----------------------------------------------------------------------------
(* What the watch promises. *)

\* The source is going to report, or has reported, its own end.
ErrorComing(s) ==
  \/ s \in monErrs \cup mergedErrs \/ fwdErr[s] = "holding"
  \/ s = "route" /\ routeChild = "exited" /\ routeMon \in {"scanning", "sending"}

\* The last stage that looks at the policy.
LastStage(policy) ==
  CASE policy = "route" -> RouteStage
    [] policy = "iface" -> IfaceStage
    [] OTHER -> EgressStage(MaxAttempts)

\* A check is due, or in flight and still to look at the policy.
CheckComing(policy) ==
  \/ pendingEvent # NoEvent
  \/ \E stage \in 1 .. LastStage(policy) : running[stage] > 0

FailureComing == sending["failed"] > 0 \/ checks = "failed"

Noticed(policy) ==
  \/ EventComing(SourceOf(policy)) \/ ErrorComing(SourceOf(policy))
  \/ CheckComing(policy) \/ FailureComing

Watching == sup = "select" /\ ~ctxDone

\* The violated policies with neither of the two excuses the code needs: that they
\* broke before their monitor watched, or that an old connection hid them.
Drifted == bad \ (unwatched \cup passedOver)

\* While the session runs, a policy that breaks under its monitor never goes
\* unnoticed: the event of its change, a check that still has to look at it, a failed
\* outcome or the death of its source is on its way to the Supervisor, until a check
\* has looked at it, and then only over an old connection in vain.  A check that
\* passed a policy before it broke counts for nothing.
DriftNoticed == Watching => \A policy \in Drifted : Noticed(policy)

\* docs: the sandbox does not run on after the TUN route disappears or changes,
\* whether or not its monitor watches yet.
WatchedFromTheStart == Watching => \A policy \in bad \ passedOver : Noticed(policy)

\* DriftNoticed made inductive: what the steps that could lose a drift rely on.
WatchInv ==
  /\ HostTypeOK
  /\ sup = "select" => ~cancelled /\ takenErrs = {}
  /\ routeMon \in {"scanning", "sending"} => routeChild \in {"running", "exited"}
  /\ SourceDeathReported
  /\ \A policy \in bad \ unwatched : ~Starting(SourceOf(policy))
  /\ DriftNoticed

\* A session does not end unless something ended it: without an incident on
\* the host or a signal nothing makes the Supervisor leave its loop.
NoFalseAlarm == sup # "select" /\ incidents = 0 => signalled # "none"

\* docs: the process exits with status 130 on Ctrl+C.
InterruptExits130 ==
  sup = "returned" /\ incidents = 0 /\ ~cleanupFailed => ExitCode = 130

\* A policy that broke under its monitor and stays violated ends the session, unless
\* an old connection hides it from a check.
DriftStops == \A policy \in Policies :
  policy \in Drifted ~> policy \notin Drifted \/ sup = "returned"

\* ... provided the unrelated routing and metadata events do not go on forever,
\* which re-arms the debounce timer forever.
DriftStopsWhenCalm == <>[][~Noise]_vars => DriftStops

\* A source that dies ends the session, with its error or before it.
DeadSourceStops == \A s \in Sources :
  MonitorStopped(s) ~> sup = "returned"
=============================================================================
