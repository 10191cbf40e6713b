-------------------------- MODULE HostSessionProofs --------------------------
(***************************************************************************)
(* Proofs about HostSession for every number of attempts, debounce period  *)
(* and number of incidents: its type invariant, that no drift goes         *)
(* unnoticed while a session is watched (DriftNoticed), and that nothing   *)
(* but an incident or a signal ends it (NoFalseAlarm).                     *)
(***************************************************************************)
EXTENDS HostSession, EventStreamsProofs, SupervisorProofs

-----------------------------------------------------------------------------
(* The constants. *)

LEMMA HostConstantsTyped == Sources \subseteq EventSources
BY HostAssumption DEF HostAssumption

-----------------------------------------------------------------------------
(* Type correctness. *)

LEMMA InitTyped == Init => HostTypeOK
<1> SUFFICES ASSUME Init PROVE HostTypeOK
  OBVIOUS
<1>1. SupTypeOK
  <2>1. /\ running \in [Stages -> Nat] /\ sending \in [Outcomes -> Nat]
        /\ timer \in 0 .. DebounceTicks
    BY ConstantsTyped DEF Init, SupInit
  <2> QED
    BY <2>1 DEF Init, SupTypeOK, SupInit, SignalTypeOK, SignalInit, Verdicts
<1>2. StreamTypeOK
  BY DEF Init, StreamTypeOK, StreamInit, SignalTypeOK, SignalInit
<1> QED
  BY <1>1, <1>2 DEF Init, HostTypeOK

\* A step of a check keeps the counters of goroutines typed.
LEMMA CheckTyped ==
  ASSUME HostTypeOK, CheckStep
  PROVE  running' \in [Stages -> Nat] /\ sending' \in [Outcomes -> Nat]
<1>1. running \in [Stages -> Nat] /\ sending \in [Outcomes -> Nat]
  BY DEF HostTypeOK, SupTypeOK
<1>2. /\ RouteStage \in Stages /\ IfaceStage \in Stages /\ IfaceStage + 1 \in Stages
      /\ EgressStages \subseteq Stages
      /\ RouteStage + 1 = IfaceStage /\ IfaceStage + 1 = 3
      /\ \A stage \in EgressStages : ShouldRetryHostEgress(stage) => stage + 1 \in Stages
  BY HostAssumption DEF HostAssumption, RouteStage, IfaceStage, EgressStages,
     ShouldRetryHostEgress, EgressStage
<1>3. "ok" \in Outcomes /\ "failed" \in Outcomes
  BY DEF Outcomes
<1>4. \A s \in Stages, o \in Outcomes :
        CheckReturns(s, o) => /\ running' \in [Stages -> Nat]
                              /\ sending' \in [Outcomes -> Nat]
  BY <1>1, RunningTyped, SendingTyped DEF CheckReturns
<1>5. \A s, t \in Stages :
        CheckAdvances(s, t) => /\ running' \in [Stages -> Nat]
                               /\ sending' \in [Outcomes -> Nat]
  BY <1>1, RunningTyped DEF CheckAdvances
<1>6. CASE CheckCommand(RouteStage, "route") \/ CheckCommand(IfaceStage, "iface")
  BY <1>2, <1>3, <1>4, <1>5, <1>6 DEF CheckCommand, CheckFails
<1>7. CASE \E stage \in EgressStages : CheckEgress(stage)
  BY <1>2, <1>3, <1>4, <1>5, <1>7 DEF CheckEgress, EgressMatches, EgressMatchesStill,
     EgressDiffers, EgressEndpointFails, EgressCancelled, EgressUnparsable, CheckFails
<1> QED
  BY <1>6, <1>7 DEF CheckStep

\* Variables a step leaves alone stay typed.
LEMMA UnchangedTyped ==
  ASSUME HostTypeOK, SignalTypeOK'
  PROVE  /\ UNCHANGED supVars => SupTypeOK'
         /\ UNCHANGED streamVars => StreamTypeOK'
<1>1. ASSUME UNCHANGED supVars PROVE SupTypeOK'
  BY <1>1 DEF HostTypeOK, SupTypeOK, supVars, leaveVars, debounceVars, checkVars,
     inputVars
<1>2. ASSUME UNCHANGED streamVars PROVE StreamTypeOK'
  BY <1>2 DEF HostTypeOK, StreamTypeOK, streamVars, routeVars, clashVars, mergeVars
<1> QED
  BY <1>1, <1>2

\* Every step keeps the types.
LEMMA StepTyped == HostTypeOK /\ [Next]_vars => HostTypeOK'
<1> SUFFICES ASSUME HostTypeOK, [Next]_vars PROVE HostTypeOK'
  OBVIOUS
<1>0. /\ SignalTypeOK /\ SupTypeOK /\ StreamTypeOK /\ incidents \in Nat
      /\ bad \in SUBSET Policies /\ unwatched \in SUBSET bad /\ passedOver \in SUBSET bad
  BY DEF HostTypeOK, SupTypeOK
<1>a. UNCHANGED signalVars => SignalTypeOK'
  BY <1>0 DEF SignalTypeOK, signalVars
<1>b. Incident => incidents' \in Nat
  BY <1>0 DEF Incident
<1>1. CASE PolicyChanges
  <2>1. UNCHANGED <<supVars, signalVars>> /\ incidents' \in Nat
    BY <1>1, <1>b DEF PolicyChanges
  <2>2. /\ bad' \in SUBSET Policies
        /\ unwatched' \in SUBSET bad' /\ passedOver' \in SUBSET bad'
    BY <1>0, <1>1 DEF PolicyChanges, Breaks, Heals
  <2>3. SupTypeOK'
    BY <1>a, <2>1, UnchangedTyped
  <2>4. StreamTypeOK'
    <3>1. UNCHANGED <<monErrs, mergeVars, signalVars>>
      BY <1>1 DEF PolicyChanges
    <3>2. CASE RouteLine /\ UNCHANGED clashVars
      <4>1. routeLines' \in Nat
        BY <1>0, <3>2 DEF RouteLine, StreamTypeOK
      <4> QED
        BY <1>0, <1>a, <3>1, <3>2, <4>1 DEF RouteLine, StreamTypeOK, clashVars, mergeVars
    <3>3. CASE MetadataWritten /\ UNCHANGED routeVars
      BY <1>0, <1>a, <3>1, <3>3 DEF MetadataWritten, StreamTypeOK, routeVars, mergeVars
    <3> QED
      BY <1>1, <3>2, <3>3 DEF PolicyChanges
  <2> QED
    BY <1>0, <2>1, <2>2, <2>3, <2>4 DEF HostTypeOK
<1>2. CASE Noise
  <2>1. UNCHANGED <<supVars, hostVars, signalVars>> /\ StreamTypeOK'
    BY <1>0, <1>2, StreamsTyped DEF Noise, RouteLineArrives, MetadataChanges
  <2> QED
    BY <1>0, <1>a, <2>1, UnchangedTyped DEF HostTypeOK, hostVars, driftVars
<1>3. CASE SourceBreaks
  <2>1. UNCHANGED <<supVars, bad, unwatched, passedOver, signalVars>> /\ StreamTypeOK'
    BY <1>0, <1>3, StreamsTyped DEF SourceBreaks, RouteFails, RouteStartFails,
       RouteReadFails, RouteChildExits, AppHomeBreaks, driftVars
  <2> QED
    BY <1>0, <1>3, <1>a, <1>b, <2>1, UnchangedTyped DEF HostTypeOK, SourceBreaks
<1>4. CASE ChildInterrupted
  <2>1. UNCHANGED <<supVars, hostVars, signalVars>> /\ StreamTypeOK'
    BY <1>0, <1>4, StreamsTyped DEF ChildInterrupted, RouteChildExits
  <2> QED
    BY <1>0, <1>a, <2>1, UnchangedTyped DEF HostTypeOK, hostVars, driftVars
<1>5. CASE AttachedExits
  <2>1. UNCHANGED <<streamVars, bad, unwatched, passedOver, signalVars>> /\ SupTypeOK'
    BY <1>0, <1>5, SupTyped DEF AttachedExits, driftVars
  <2> QED
    BY <1>0, <1>5, <1>a, <1>b, <2>1, UnchangedTyped DEF HostTypeOK, AttachedExits
<1>6. CASE CheckStep
  <2>1. /\ running' \in [Stages -> Nat] /\ sending' \in [Outcomes -> Nat]
        /\ UNCHANGED checks
    BY <1>6, CheckTyped DEF CheckStep, CheckCommand, CheckFails, CheckAdvances,
       CheckReturns, CheckEgress, EgressMatches, EgressMatchesStill, EgressDiffers,
       EgressEndpointFails, EgressCancelled, EgressUnparsable
  <2>2. /\ UNCHANGED <<bad, unwatched, leaveVars, debounceVars, inputVars, streamVars, signalVars>>
    BY <1>6 DEF CheckStep
  <2>3. incidents' \in Nat /\ passedOver' \in SUBSET bad'
    BY <1>0, <1>6, <1>b DEF CheckStep, CheckCommand, CheckEgress, EgressMatches,
       EgressMatchesStill, EgressDiffers, EgressEndpointFails, EgressCancelled,
       EgressUnparsable
  <2>4. SupTypeOK'
    BY <1>0, <1>a, <2>1, <2>2 DEF SupTypeOK, leaveVars, debounceVars, inputVars
  <2> QED
    BY <1>0, <1>a, <2>2, <2>3, <2>4, UnchangedTyped DEF HostTypeOK
<1>7. CASE DeliverEvent
  <2>1. PICK s \in Sources : ForwardEvent(s) /\ OnEvent(s)
    BY <1>7 DEF DeliverEvent
  <2>2. SupTypeOK'
    BY <1>0, <1>7, <2>1, SupTyped, HostConstantsTyped DEF DeliverEvent
  <2>3. StreamTypeOK'
    BY <1>0, <1>7, <1>a, <2>1 DEF DeliverEvent, ForwardEvent, StreamTypeOK, routeVars,
       clashVars
  <2> QED
    BY <1>0, <1>7, <2>2, <2>3 DEF DeliverEvent, HostTypeOK, hostVars, driftVars
<1>8. CASE DeliverError
  <2>1. PICK s \in Sources : TakeError(s) /\ OnSourceError(SourceVerdict(s))
    BY <1>8 DEF DeliverError
  <2>2. SupTypeOK'
    BY <1>0, <1>8, <2>1, SupTyped DEF DeliverError, SourceVerdict, SourceVerdicts
  <2>3. StreamTypeOK'
    BY <1>0, <1>8, <1>a, <2>1 DEF DeliverError, TakeError, StreamTypeOK, routeVars,
       clashVars
  <2> QED
    BY <1>0, <1>8, <2>2, <2>3 DEF DeliverError, HostTypeOK, hostVars, driftVars
<1>9. CASE SeeEventsClosed \/ SeeErrorsClosed \/ SupervisorAlone \/ TimePasses
  <2>1. UNCHANGED <<hostVars, streamVars, signalVars>> /\ SupTypeOK'
    BY <1>0, <1>9, SupTyped DEF SeeEventsClosed, SeeErrorsClosed, SupervisorAlone,
       TimePasses
  <2> QED
    BY <1>0, <1>a, <2>1, UnchangedTyped DEF HostTypeOK, hostVars, driftVars
<1>10. CASE StreamsStep
  <2>1. UNCHANGED <<hostVars, supVars, signalVars>>
    BY <1>10 DEF StreamsStep, MonitorStep, RouteStarts, RouteRefused, RouteScans, RouteHandsOff,
       RouteCancelled, RouteEnds, RouteReaped, ClashStarts, ClashPolls, ClashHandsOff,
       ClashCancelled, MergeStep, ForwarderEnds, ErrorReceived, ErrorBuffered,
       ErrorForwarderEnds, CloseMerged, RouteChildKilled, RouteChildExits
  <2>2. StreamTypeOK'
    BY <1>0, <1>10, StreamsTyped DEF StreamsStep
  <2> QED
    BY <1>0, <1>a, <2>1, <2>2, UnchangedTyped DEF HostTypeOK, hostVars, driftVars
<1>11. CASE SignalStep
  <2>1. SignalTypeOK'
    BY <1>0, <1>11 DEF SignalStep, SignalArrives, CancelContext, SignalTypeOK
  <2> QED
    BY <1>0, <1>11, <2>1, UnchangedTyped DEF SignalStep, HostTypeOK, hostVars, driftVars
<1>12. CASE UNCHANGED vars
  BY <1>0, <1>12, <1>a, UnchangedTyped DEF vars, hostVars, driftVars, HostTypeOK
<1> QED
  BY <1>1, <1>2, <1>3, <1>4, <1>5, <1>6, <1>7, <1>8, <1>9, <1>10, <1>11, <1>12 DEF Next

\* The variables of a watched session keep their types, for every number of
\* incidents and every debounce period.
THEOREM TypeCorrect == Spec => []HostTypeOK
<1>1. Init => HostTypeOK
  BY InitTyped
<1>2. HostTypeOK /\ [Next]_vars => HostTypeOK'
  BY StepTyped
<1> QED
  BY <1>1, <1>2, PTL DEF Spec

-----------------------------------------------------------------------------
(* No drift goes unnoticed. *)

LEMMA WatchInvInit == Init => WatchInv
<1> SUFFICES ASSUME Init PROVE WatchInv
  OBVIOUS
<1>1. HostTypeOK
  BY InitTyped
<1>2. SourceDeathReported
  BY DEF Init, StreamInit, SourceDeathReported, MonitorStopped
<1>3. DriftNoticed
  BY DEF Init, DriftNoticed, Drifted
<1> QED
  BY <1>1, <1>2, <1>3 DEF Init, SupInit, StreamInit, WatchInv

\* While the session is watched, the pipeline carries an event or the report of
\* a dead source on to the Supervisor: no goroutine of it drops either.
LEMMA PipelineCarries ==
  ASSUME StreamTypeOK, StreamTypeOK', ~ctxDone, NEW s \in Sources,
         EventComing(s) \/ ErrorComing(s),
         \/ MonitorStep \/ RouteFails \/ MergeStep \/ RouteChildExits
         \/ RouteChildKilled \/ AppHomeBreaks \/ RouteLineArrives \/ MetadataChanges
  PROVE  EventComing(s)' \/ ErrorComing(s)'
<1> USE DEF EventComing, ErrorComing
<1>0. s = "route" \/ s = "clash"
  BY DEF Sources
<1>1. CASE RouteStarts \/ RouteRefused \/ RouteScans \/ RouteCancelled \/ RouteEnds
             \/ RouteReaped
  BY <1>0, <1>1 DEF RouteStarts, RouteRefused, RouteScans, RouteCancelled, RouteEnds,
     RouteReaped, ReportUnlessCancelled, clashVars, mergeVars, StreamTypeOK
<1>2. CASE RouteFails
  BY <1>0, <1>2 DEF RouteFails, RouteStartFails, RouteReadFails,
     ReportUnlessCancelled, clashVars, mergeVars
<1>3. CASE ClashStarts \/ ClashPolls \/ ClashCancelled
  BY <1>0, <1>3 DEF ClashStarts, ClashFails, ClashPolls, ClashCancelled, routeVars,
     mergeVars
<1>4. CASE RouteHandsOff \/ ClashHandsOff
  BY <1>0, <1>4 DEF RouteHandsOff, ClashHandsOff, routeVars, clashVars, StreamTypeOK,
     Sources
<1>5. CASE MergeStep
  <2>1. ASSUME NEW t \in Sources, ForwarderEnds(t) PROVE EventComing(s)' \/ ErrorComing(s)'
    BY <2>1 DEF ForwarderEnds, MayLeave, routeVars, clashVars, StreamTypeOK
  <2>2. ASSUME NEW t \in Sources, ErrorReceived(t) PROVE EventComing(s)' \/ ErrorComing(s)'
    BY <2>2 DEF ErrorReceived, routeVars, clashVars, StreamTypeOK
  <2>3. ASSUME NEW t \in Sources, ErrorBuffered(t) PROVE EventComing(s)' \/ ErrorComing(s)'
    BY <2>3 DEF ErrorBuffered, routeVars, clashVars, StreamTypeOK
  <2>4. ASSUME NEW t \in Sources, ErrorForwarderEnds(t)
        PROVE  EventComing(s)' \/ ErrorComing(s)'
    BY <2>4 DEF ErrorForwarderEnds, MayLeave, routeVars, clashVars, StreamTypeOK
  <2>5. ASSUME CloseMerged PROVE EventComing(s)' \/ ErrorComing(s)'
    BY <2>5 DEF CloseMerged, routeVars, clashVars
  <2> QED
    BY <1>5, <2>1, <2>2, <2>3, <2>4, <2>5 DEF MergeStep
<1>6. CASE RouteChildExits \/ RouteChildKilled \/ AppHomeBreaks
  BY <1>6 DEF RouteChildExits, RouteChildKilled, AppHomeBreaks, routeVars, clashVars,
     mergeVars
<1>7. CASE RouteLineArrives
  BY <1>7 DEF RouteLineArrives, RouteLine, clashVars, mergeVars, StreamTypeOK
<1>8. CASE MetadataChanges
  BY <1>8 DEF MetadataChanges, MetadataWritten, routeVars, mergeVars
<1> QED
  BY <1>1, <1>2, <1>3, <1>4, <1>5, <1>6, <1>7, <1>8 DEF MonitorStep

\* A check on its way keeps a violated policy noticed: the stage that looks at
\* it fails the check, and the stages before it hand over to it.
LEMMA CheckCarries ==
  ASSUME HostTypeOK, CheckStep, NEW policy \in bad \ passedOver',
         CheckComing(policy) \/ FailureComing
  PROVE  CheckComing(policy)' \/ FailureComing'
<1>0. /\ running \in [Stages -> Nat] /\ sending \in [Outcomes -> Nat]
      /\ policy \in Policies
      /\ UNCHANGED <<checks, pendingEvent, bad>>
  BY DEF HostTypeOK, SupTypeOK, CheckStep, CheckCommand, CheckFails, CheckAdvances,
     CheckReturns, CheckEgress, EgressMatches, EgressMatchesStill, EgressDiffers,
     EgressEndpointFails, EgressCancelled, EgressUnparsable, debounceVars
<1>1. /\ Stages = 1 .. 2 + MaxAttempts /\ MaxAttempts \in Nat \ {0}
      /\ RouteStage = 1 /\ IfaceStage = 2 /\ EgressStages = 3 .. 2 + MaxAttempts
      /\ EgressStage(MaxAttempts) = 2 + MaxAttempts
  BY HostAssumption DEF HostAssumption, RouteStage, IfaceStage, EgressStages,
     EgressStage
<1>2. /\ LastStage("route") = 1 /\ LastStage("iface") = 2
      /\ LastStage("egress") = 2 + MaxAttempts
  BY <1>1 DEF LastStage
<1>3. ASSUME NEW s \in Stages, CheckFails(s) PROVE FailureComing'
  <2>1. sending'["failed"] > 0
    BY <1>0, <1>3 DEF CheckFails, CheckReturns, Inc, Outcomes
  <2> QED
    BY <2>1 DEF FailureComing
<1>4. ASSUME NEW s \in Stages, CheckAdvances(s, s + 1), s + 1 \in Stages,
             s + 1 <= LastStage(policy) \/ s > LastStage(policy)
      PROVE  CheckComing(policy)' \/ FailureComing'
  <2>1. UNCHANGED sending
    BY <1>4 DEF CheckAdvances
  <2>2. CASE FailureComing \/ pendingEvent # NoEvent
    BY <1>0, <2>1, <2>2 DEF FailureComing, CheckComing
  <2>3. CASE \E stage \in 1 .. LastStage(policy) : running[stage] > 0
    <3>1. PICK stage \in 1 .. LastStage(policy) : running[stage] > 0
      BY <2>3
    <3>2. LastStage(policy) \in Stages /\ stage \in Stages
      BY <1>0, <1>1, <1>2 DEF Policies
    <3>3. CASE stage = s
      <4>1. s + 1 \in 1 .. LastStage(policy)
        BY <1>1, <1>4, <3>2, <3>3
      <4>2. running'[s + 1] > 0
        BY <1>0, <1>1, <1>4 DEF CheckAdvances, Inc, Dec
      <4> QED
        BY <4>1, <4>2 DEF CheckComing
    <3>4. CASE stage # s
      <4>1. running'[stage] > 0
        BY <1>0, <1>1, <1>4, <3>1, <3>2, <3>4 DEF CheckAdvances, Inc, Dec
      <4> QED
        BY <4>1 DEF CheckComing
    <3> QED
      BY <3>3, <3>4
  <2> QED
    BY <2>2, <2>3 DEF CheckComing
<1>5. ASSUME CheckCommand(RouteStage, "route") PROVE CheckComing(policy)' \/ FailureComing'
  <2>1. CASE CheckFails(RouteStage)
    BY <1>1, <1>3, <2>1
  <2>2. CASE "route" \notin bad /\ CheckAdvances(RouteStage, RouteStage + 1)
    <3>1. RouteStage \in Stages /\ RouteStage + 1 \in Stages
          /\ RouteStage + 1 <= LastStage(policy)
      BY <1>0, <1>1, <1>2, <2>2 DEF Policies
    <3> QED
      BY <1>4, <2>2, <3>1
  <2> QED
    BY <1>5, <2>1, <2>2 DEF CheckCommand
<1>6. ASSUME CheckCommand(IfaceStage, "iface") PROVE CheckComing(policy)' \/ FailureComing'
  <2>1. CASE CheckFails(IfaceStage)
    BY <1>1, <1>3, <2>1
  <2>2. CASE "iface" \notin bad /\ CheckAdvances(IfaceStage, IfaceStage + 1)
    <3>1. IfaceStage \in Stages /\ IfaceStage + 1 \in Stages
          /\ (IfaceStage + 1 <= LastStage(policy) \/ IfaceStage > LastStage(policy))
      BY <1>0, <1>1, <1>2, <2>2 DEF Policies
    <3> QED
      BY <1>4, <2>2, <3>1
  <2> QED
    BY <1>6, <2>1, <2>2 DEF CheckCommand
<1>7. ASSUME NEW s \in EgressStages,
             \/ EgressDiffers(s) \/ EgressCancelled(s) \/ EgressUnparsable(s)
      PROVE  FailureComing'
  BY <1>1, <1>3, <1>7 DEF EgressDiffers, EgressCancelled, EgressUnparsable
<1>8. ASSUME NEW s \in EgressStages, EgressEndpointFails(s)
      PROVE  CheckComing(policy)' \/ FailureComing'
  <2>1. CASE CheckFails(s)
    BY <1>1, <1>3, <2>1
  <2>2. CASE ShouldRetryHostEgress(s) /\ CheckAdvances(s, s + 1)
    <3>1. s \in Stages /\ s + 1 \in Stages
          /\ (s + 1 <= LastStage(policy) \/ s > LastStage(policy))
      BY <1>0, <1>1, <1>2, <2>2 DEF Policies, ShouldRetryHostEgress
    <3> QED
      BY <1>4, <2>2, <3>1
  <2> QED
    BY <1>8, <2>1, <2>2 DEF EgressEndpointFails
<1>9. ASSUME NEW s \in EgressStages, EgressMatches(s) \/ EgressMatchesStill(s)
      PROVE  CheckComing(policy)' \/ FailureComing'
  <2>1. policy = "route" \/ policy = "iface"
    BY <1>0, <1>9 DEF EgressMatches, EgressMatchesStill, Policies
  <2>2. /\ s \in Stages /\ s > LastStage(policy)
        /\ running' = Dec(running, s) /\ sending' = Inc(sending, "ok")
    BY <1>1, <1>2, <1>9, <2>1 DEF EgressMatches, EgressMatchesStill, CheckReturns
  <2>3. sending'["failed"] = sending["failed"]
    BY <1>0, <2>2 DEF Inc, Outcomes
  <2>4. \A stage \in 1 .. LastStage(policy) : running'[stage] = running[stage]
    BY <1>0, <1>1, <1>2, <2>1, <2>2 DEF Dec
  <2> QED
    BY <1>0, <2>3, <2>4 DEF CheckComing, FailureComing, LastStage
<1> QED
  BY <1>5, <1>6, <1>7, <1>8, <1>9 DEF CheckStep, CheckEgress

\* What the steps that do not concern a policy leave alone.
LEMMA SupervisorKeeps ==
  ASSUME UNCHANGED supVars
  PROVE  /\ \A policy : CheckComing(policy) \/ FailureComing
                          => CheckComing(policy)' \/ FailureComing'
         /\ UNCHANGED <<sup, cancelled>>
BY DEF supVars, leaveVars, debounceVars, checkVars, CheckComing, FailureComing

LEMMA PipelineKeeps ==
  ASSUME UNCHANGED streamVars
  PROVE  /\ \A s : EventComing(s) \/ ErrorComing(s)
                     => EventComing(s)' \/ ErrorComing(s)'
         /\ \A s : Starting(s)' => Starting(s)
         /\ UNCHANGED <<takenErrs, routeMon, routeChild>>
BY DEF streamVars, routeVars, clashVars, mergeVars, EventComing, ErrorComing, Starting

\* The pipeline's own steps, with or without a cause on the host.
LEMMA PipelineStep ==
  ASSUME WatchInv, HostTypeOK', UNCHANGED <<supVars, driftVars, signalVars>>,
         \/ MonitorStep \/ RouteFails \/ MergeStep \/ RouteChildExits
         \/ RouteChildKilled \/ AppHomeBreaks \/ RouteLineArrives \/ MetadataChanges
  PROVE  WatchInv'
<1>0. HostTypeOK /\ StreamTypeOK /\ StreamTypeOK' /\ SourceDeathReported
  BY DEF WatchInv, HostTypeOK
<1>1. SourceDeathReported'
  BY <1>0, MonitorsReport, MergeKeepsReports
<1>2. /\ UNCHANGED takenErrs
      /\ \A s \in Sources : Starting(s)' => Starting(s)
      /\ routeMon' \in {"scanning", "sending"} =>
           \/ routeMon \in {"scanning", "sending"} /\ UNCHANGED routeChild
           \/ routeChild' \in {"running", "exited"}
  BY DEF MonitorStep, RouteFails, RouteStarts, RouteRefused, RouteScans, RouteHandsOff,
     RouteCancelled, RouteEnds, RouteReaped, RouteStartFails, RouteReadFails,
     ClashStarts, ClashFails, ClashPolls, ClashHandsOff, ClashCancelled, MergeStep,
     ForwarderEnds, ErrorReceived, ErrorBuffered, ErrorForwarderEnds, CloseMerged,
     RouteChildExits, RouteChildKilled, AppHomeBreaks, RouteLineArrives, RouteLine,
     MetadataChanges, MetadataWritten, routeVars, clashVars, mergeVars, Starting
<1>3. /\ UNCHANGED <<sup, cancelled>>
      /\ \A policy : CheckComing(policy) \/ FailureComing
                          => CheckComing(policy)' \/ FailureComing'
  BY SupervisorKeeps
<1>4. DriftNoticed'
  <2> SUFFICES ASSUME Watching, NEW policy \in Drifted
               PROVE  Noticed(policy)'
    BY <1>3 DEF DriftNoticed, Watching, Drifted, signalVars, driftVars
  <2>0. ~ctxDone
    BY DEF Watching
  <2>1. Noticed(policy) /\ SourceOf(policy) \in Sources
    BY DEF WatchInv, DriftNoticed, SourceOf, Sources
  <2>2. CASE EventComing(SourceOf(policy)) \/ ErrorComing(SourceOf(policy))
    BY <1>0, <2>0, <2>1, <2>2, PipelineCarries DEF Noticed
  <2>3. CASE CheckComing(policy) \/ FailureComing
    BY <1>3, <2>3 DEF Noticed
  <2> QED
    BY <2>1, <2>2, <2>3 DEF Noticed
<1>5. \A policy \in bad' \ unwatched' : ~Starting(SourceOf(policy))'
  BY <1>2 DEF WatchInv, SourceOf, Sources, driftVars
<1> QED
  BY <1>1, <1>2, <1>3, <1>4, <1>5 DEF WatchInv

\* A change of policy emits its event, or its source is dead and says so, or it is
\* recorded as unwatched.
LEMMA ChangeNoticed ==
  ASSUME WatchInv, HostTypeOK', PolicyChanges
  PROVE  WatchInv'
<1>0. /\ StreamTypeOK /\ SourceDeathReported /\ DriftNoticed
      /\ UNCHANGED <<supVars, monErrs, mergeVars, ctxDone>>
      /\ bad \subseteq Policies
  BY DEF WatchInv, HostTypeOK, PolicyChanges, signalVars
<1>1. PICK policy \in Policies :
        /\ Breaks(policy) \/ Heals(policy)
        /\ IF SourceOf(policy) = "route"
           THEN RouteLine /\ UNCHANGED clashVars
           ELSE MetadataWritten /\ UNCHANGED routeVars
  BY DEF PolicyChanges
<1>2. /\ UNCHANGED <<routeMon, routeChild, clashMon, takenErrs, fwd, fwdErr, mergedErrs>>
      /\ routeLines' >= routeLines /\ routeLines' \in Nat
      /\ metadataDirty => metadataDirty'
  BY <1>0, <1>1 DEF RouteLine, MetadataWritten, routeVars, clashVars, mergeVars,
     StreamTypeOK
<1>3. SourceDeathReported'
  BY <1>0, <1>2 DEF SourceDeathReported, MonitorStopped
<1>4. \A s \in Sources : EventComing(s) \/ ErrorComing(s)
                           => EventComing(s)' \/ ErrorComing(s)'
  BY <1>0, <1>2 DEF EventComing, ErrorComing, StreamTypeOK
<1>5. \A p : CheckComing(p) \/ FailureComing => CheckComing(p)' \/ FailureComing'
  BY <1>0, SupervisorKeeps
<1>b. /\ \A p \in Drifted' : p # policy => p \in Drifted
      /\ \A p \in bad' \ unwatched' : p # policy => p \in bad \ unwatched
      /\ policy \in bad' \ unwatched' => ~Starting(SourceOf(policy))
  BY <1>1 DEF Breaks, Heals, Drifted
<1>6. ASSUME sup = "select", ~ctxDone, ~Starting(SourceOf(policy))
      PROVE  EventComing(SourceOf(policy))' \/ ErrorComing(SourceOf(policy))'
  <2>1. CASE MonitorStopped(SourceOf(policy))
    <3>1. takenErrs = {} /\ SourceOf(policy) \in Sources
      BY <1>6 DEF WatchInv, SourceOf, Sources
    <3>2. ErrorComing(SourceOf(policy))
      BY <1>0, <1>6, <2>1, <3>1 DEF SourceDeathReported, ErrorComing
    <3> QED
      BY <1>4, <3>1, <3>2
  <2>2. CASE ~MonitorStopped("route") /\ SourceOf(policy) = "route"
    <3>1. routeMon \in {"scanning", "sending"} /\ routeChild \in {"running", "exited"}
      BY <1>0, <1>6, <2>2 DEF MonitorStopped, Starting, StreamTypeOK, WatchInv
    <3>2. routeChild = "running" => routeLines' > 0
      BY <1>0, <1>1, <2>2 DEF RouteLine, StreamTypeOK
    <3> QED
      BY <1>2, <2>2, <3>1, <3>2 DEF EventComing, ErrorComing
  <2>3. CASE ~MonitorStopped("clash") /\ SourceOf(policy) = "clash"
    BY <1>0, <1>1, <1>2, <1>6, <2>3 DEF MonitorStopped, Starting, StreamTypeOK,
       MetadataWritten, EventComing
  <2> QED
    BY <2>1, <2>2, <2>3 DEF SourceOf
<1>7. DriftNoticed'
  <2> SUFFICES ASSUME Watching, NEW p \in Drifted'
               PROVE  Noticed(p)'
    BY <1>0 DEF DriftNoticed, Watching, supVars, leaveVars
  <2>1. CASE p = policy
    <3>1. ~Starting(SourceOf(policy))
      BY <1>b, <2>1 DEF Drifted
    <3> QED
      BY <1>6, <2>1, <3>1 DEF Noticed, Watching
  <2>2. CASE p # policy
    <3>1. p \in Drifted /\ SourceOf(p) \in Sources
      BY <1>b, <2>2 DEF SourceOf, Sources
    <3> QED
      BY <1>0, <1>4, <1>5, <3>1 DEF DriftNoticed, Noticed
  <2> QED
    BY <2>1, <2>2
<1>8. \A p \in bad' \ unwatched' : ~Starting(SourceOf(p))'
  BY <1>2, <1>b DEF Starting, WatchInv
<1> QED
  BY <1>0, <1>2, <1>3, <1>7, <1>8 DEF WatchInv, supVars, leaveVars

\* The Supervisor's own steps hand a notice on: an event becomes a debounced
\* one, a debounced one a check, a failure a reason to leave.
LEMMA SupervisorNotices ==
  ASSUME HostTypeOK, HostTypeOK', sup = "select", ~ctxDone, ~cancelled,
         OnDebounce \/ OnOutcome \/ OutcomeSent \/ Tick \/ BackendExits
           \/ OnEventsClosed \/ OnErrorsClosed,
         NEW policy \in Policies, CheckComing(policy) \/ FailureComing, sup' = "select"
  PROVE  CheckComing(policy)' \/ FailureComing'
<1>0. /\ running \in [Stages -> Nat] /\ sending \in [Outcomes -> Nat]
      /\ checks \in Outcomes \cup {"empty"}
      /\ pendingEvent \in EventSources \cup {NoEvent}
  BY DEF HostTypeOK, SupTypeOK
<1>1. /\ \A s \in Sources : FirstStage[s] \in Stages /\ FirstStage[s] \in 1 .. LastStage(policy)
      /\ EventSources = Sources
      /\ 1 .. LastStage(policy) \subseteq Stages
  BY HostAssumption DEF HostAssumption, LastStage, RouteStage, IfaceStage, EgressStage,
     Policies
<1>2. CASE OnDebounce
  <2>1. UNCHANGED <<sending, checks>>
    BY <1>2 DEF OnDebounce
  <2>2. CASE pendingEvent = NoEvent
    BY <1>2, <2>1, <2>2 DEF OnDebounce, StartPendingCheck, CheckComing, FailureComing
  <2>3. CASE pendingEvent # NoEvent
    <3>1. pendingEvent \in Sources /\ FirstStage[pendingEvent] \in Stages
      BY <1>0, <1>1, <2>3
    <3>2. running'[FirstStage[pendingEvent]] > 0
      BY <1>0, <1>2, <2>3, <3>1 DEF OnDebounce, StartPendingCheck, StartCheck, Inc
    <3> QED
      BY <1>1, <3>1, <3>2 DEF CheckComing
  <2> QED
    BY <2>2, <2>3
<1>3. CASE OnOutcome
  <2>1. checks = "ok" /\ UNCHANGED <<running, sending, pendingEvent>>
    BY <1>3 DEF OnOutcome, Leave, debounceVars
  <2> QED
    BY <2>1 DEF CheckComing, FailureComing
<1>4. CASE OutcomeSent
  <2>1. PICK o \in Outcomes : SendOutcome(o)
    BY <1>4 DEF OutcomeSent, DropOutcome, CheckCtxDone
  <2>2. UNCHANGED <<running, pendingEvent>>
    BY <1>4, <2>1 DEF OutcomeSent, SendOutcome, debounceVars
  <2>3. FailureComing => FailureComing'
    BY <1>0, <2>1 DEF SendOutcome, Dec, FailureComing, Outcomes
  <2> QED
    BY <2>2, <2>3 DEF CheckComing
<1>5. CASE Tick \/ BackendExits \/ OnEventsClosed \/ OnErrorsClosed
  <2>1. UNCHANGED <<running, sending, checks, pendingEvent>>
    BY <1>5 DEF Tick, BackendExits, OnEventsClosed, OnErrorsClosed, checkVars,
       debounceVars
  <2> QED
    BY <2>1 DEF CheckComing, FailureComing
<1> QED
  BY <1>2, <1>3, <1>4, <1>5

\* An event handed to the Supervisor is a check that is due or started.
LEMMA EventNoticed ==
  ASSUME HostTypeOK, HostTypeOK', NEW s \in Sources, OnEvent(s), NEW policy \in Policies
  PROVE  CheckComing(policy)'
<1>1. CASE DebounceTicks = 0
  <2>1. FirstStage[s] \in Stages /\ FirstStage[s] \in 1 .. LastStage(policy)
    BY HostAssumption DEF HostAssumption, LastStage, RouteStage, IfaceStage,
       EgressStage, Policies
  <2>2. running'[FirstStage[s]] > 0
    BY <1>1, <2>1 DEF OnEvent, ScheduleCheck, StartCheck, Inc, HostTypeOK, SupTypeOK
  <2> QED
    BY <2>1, <2>2 DEF CheckComing
<1>2. CASE DebounceTicks # 0
  <2>1. pendingEvent' = s
    BY <1>2 DEF OnEvent, ScheduleCheck
  <2>2. s # NoEvent
    BY SupervisorAssumption, HostConstantsTyped DEF SupervisorAssumption
  <2> QED
    BY <2>1, <2>2 DEF CheckComing
<1> QED
  BY <1>1, <1>2

\* A step that leaves the pipeline and the host alone keeps the invariant if it
\* hands every notice on, or leaves the loop.
LEMMA SupervisorAdvances ==
  ASSUME WatchInv, HostTypeOK', UNCHANGED <<streamVars, signalVars, bad, unwatched>>,
         passedOver \subseteq passedOver',
         sup' = "select" =>
           /\ sup = "select" /\ ~cancelled'
           /\ ~ctxDone => \A policy \in bad \ passedOver' :
                CheckComing(policy) \/ FailureComing
                                      => CheckComing(policy)' \/ FailureComing'
  PROVE  WatchInv'
<1>0. UNCHANGED <<ctxDone, monErrs, mergedErrs, takenErrs, fwdErr, routeMon, clashMon,
                  routeChild>>
  BY DEF streamVars, routeVars, clashVars, mergeVars, signalVars
<1>1. SourceDeathReported'
  BY <1>0 DEF WatchInv, SourceDeathReported, MonitorStopped
<1>2. DriftNoticed'
  <2> SUFFICES ASSUME sup' = "select", ~ctxDone, NEW policy \in Drifted'
               PROVE  Noticed(policy)'
    BY <1>0 DEF DriftNoticed, Watching
  <2>1. policy \in Drifted /\ policy \in bad \ passedOver'
    BY DEF Drifted
  <2>2. Noticed(policy)
    BY <2>1 DEF WatchInv, DriftNoticed, Watching
  <2> QED
    BY <2>1, <2>2, PipelineKeeps DEF Noticed
<1>3. \A policy \in bad' \ unwatched' : ~Starting(SourceOf(policy))'
  BY PipelineKeeps DEF WatchInv
<1> QED
  BY <1>0, <1>1, <1>2, <1>3 DEF WatchInv

\* Handing over an event makes every policy noticed; nothing else is lost.
LEMMA EventDelivered ==
  ASSUME WatchInv, HostTypeOK', DeliverEvent
  PROVE  WatchInv'
<1>1. PICK s \in Sources : ForwardEvent(s) /\ OnEvent(s)
  BY DEF DeliverEvent
<1>2. /\ UNCHANGED <<ctxDone, monErrs, mergedErrs, takenErrs, fwdErr, routeMon, clashMon,
                     routeChild, sup, cancelled, bad, unwatched>>
  BY <1>1 DEF DeliverEvent, ForwardEvent, OnEvent, routeVars, clashVars, leaveVars,
     signalVars, hostVars, driftVars
<1>3. SourceDeathReported'
  BY <1>2 DEF WatchInv, SourceDeathReported, MonitorStopped
<1>4. DriftNoticed'
  <2>1. \A policy \in Policies : CheckComing(policy)'
    BY <1>1, EventNoticed DEF WatchInv
  <2>2. bad' \subseteq Policies
    BY DEF HostTypeOK
  <2> QED
    BY <2>1, <2>2 DEF DriftNoticed, Drifted, Noticed
<1> QED
  BY <1>2, <1>3, <1>4 DEF WatchInv, Starting

\* Delivering an error, or any other reason to leave, ends the watch.
LEMMA LeavingKeeps ==
  ASSUME WatchInv, HostTypeOK', DeliverError
  PROVE  WatchInv'
<1>1. sup' = "cleanup" /\ UNCHANGED <<bad, unwatched, ctxDone>>
  BY DEF DeliverError, OnSourceError, Leave, hostVars, driftVars, signalVars
<1>2. PICK s \in Sources : TakeError(s)
  BY DEF DeliverError
<1>3. UNCHANGED <<monErrs, fwdErr, routeMon, clashMon, routeChild>>
      /\ mergedErrs' \cup takenErrs' = mergedErrs \cup takenErrs
  BY <1>2 DEF TakeError, routeVars, clashVars
<1>4. SourceDeathReported'
  BY <1>1, <1>3 DEF WatchInv, SourceDeathReported, MonitorStopped
<1> QED
  BY <1>1, <1>3, <1>4 DEF WatchInv, DriftNoticed, Watching, Starting

LEMMA WatchInvStep ==
  ASSUME WatchInv, [Next]_vars
  PROVE  WatchInv'
<1>0. HostTypeOK /\ HostTypeOK' /\ bad \subseteq Policies
  BY StepTyped DEF WatchInv, HostTypeOK
<1>1. CASE PolicyChanges
  BY <1>0, <1>1, ChangeNoticed
<1>2. CASE Noise
  BY <1>0, <1>2, PipelineStep DEF Noise, hostVars, RouteLineArrives, MetadataChanges
<1>3. CASE SourceBreaks
  BY <1>0, <1>3, PipelineStep DEF SourceBreaks, RouteFails, RouteChildExits,
     AppHomeBreaks, RouteStartFails, RouteReadFails
<1>4. CASE ChildInterrupted
  BY <1>0, <1>4, PipelineStep DEF ChildInterrupted, hostVars, RouteChildExits
<1>5. CASE StreamsStep
  <2>1. UNCHANGED signalVars
    BY <1>5 DEF StreamsStep, MonitorStep, RouteStarts, RouteRefused, RouteScans, RouteHandsOff,
       RouteCancelled, RouteEnds, RouteReaped, ClashStarts, ClashPolls,
       ClashHandsOff, ClashCancelled, MergeStep, ForwarderEnds, ErrorReceived,
       ErrorBuffered, ErrorForwarderEnds, CloseMerged, RouteChildExits,
       RouteChildKilled
  <2> QED
    BY <1>0, <1>5, <2>1, PipelineStep DEF StreamsStep, hostVars
<1>6. CASE CheckStep
  <2>1. UNCHANGED <<streamVars, signalVars, bad, unwatched, sup, cancelled>>
    BY <1>6 DEF CheckStep, leaveVars
  <2>2. passedOver \subseteq passedOver'
    BY <1>6 DEF CheckStep, CheckEgress, EgressMatches, EgressMatchesStill, EgressDiffers,
       EgressEndpointFails, EgressCancelled, EgressUnparsable
  <2>3. \A policy \in bad \ passedOver' : CheckComing(policy) \/ FailureComing
                              => CheckComing(policy)' \/ FailureComing'
    BY <1>0, <1>6, CheckCarries
  <2> QED
    BY <1>0, <2>1, <2>2, <2>3, SupervisorAdvances DEF WatchInv
<1>7. CASE AttachedExits \/ SupervisorAlone \/ TimePasses \/ SeeEventsClosed
             \/ SeeErrorsClosed
  <2>1. /\ UNCHANGED <<streamVars, signalVars, bad, unwatched, passedOver>>
        /\ \/ OnDebounce \/ OnOutcome \/ OutcomeSent \/ Tick \/ BackendExits
           \/ OnEventsClosed \/ OnErrorsClosed
           \/ OnSignal \/ OnBackendExit \/ CleanupEnds
    BY <1>7 DEF AttachedExits, SupervisorAlone, TimePasses, SeeEventsClosed,
       SeeErrorsClosed, hostVars, driftVars
  <2>2. CASE OnSignal \/ OnBackendExit \/ CleanupEnds
    <3>1. sup' # "select"
      BY <2>2 DEF OnSignal, OnBackendExit, CleanupEnds, CleanupReturns, Leave
    <3> QED
      BY <1>0, <2>1, <3>1, SupervisorAdvances
  <2>3. CASE ~(OnSignal \/ OnBackendExit \/ CleanupEnds)
    <3>1. sup' = "select" => UNCHANGED <<sup, cancelled>>
      BY <2>1, <2>3 DEF OnDebounce, OnOutcome, OutcomeSent, Tick, BackendExits,
         OnEventsClosed, OnErrorsClosed, leaveVars, Leave
    <3>2. ASSUME sup' = "select", ~ctxDone
          PROVE  \A policy \in bad : CheckComing(policy) \/ FailureComing
                              => CheckComing(policy)' \/ FailureComing'
      <4>1. sup = "select" /\ ~cancelled
        BY <3>1, <3>2 DEF WatchInv
      <4> QED
        BY <1>0, <2>1, <2>3, <3>2, <4>1, SupervisorNotices
    <3> QED
      BY <1>0, <2>1, <3>1, <3>2, SupervisorAdvances DEF WatchInv
  <2> QED
    BY <2>2, <2>3
<1>8. CASE DeliverEvent
  BY <1>0, <1>8, EventDelivered
<1>9. CASE DeliverError
  BY <1>0, <1>9, LeavingKeeps
<1>10. CASE SignalStep
  <2>1. /\ UNCHANGED <<hostVars, supVars, streamVars>>
        /\ ctxDone' = FALSE => ctxDone = FALSE
    BY <1>10 DEF SignalStep, SignalArrives, CancelContext
  <2>2. UNCHANGED <<sup, cancelled, bad, unwatched, passedOver>>
    BY <2>1 DEF supVars, leaveVars, hostVars, driftVars
  <2>3. SourceDeathReported' /\ (DriftNoticed => DriftNoticed')
    <3>1. SourceDeathReported'
      BY <1>10, <2>1, SignalKeepsReports DEF SignalStep, WatchInv
    <3>2. ASSUME DriftNoticed PROVE DriftNoticed'
      BY <1>0, <2>1, <2>2, <3>2, SupervisorKeeps, PipelineKeeps
      DEF DriftNoticed, Watching, Drifted, Noticed, HostTypeOK, SupTypeOK, SignalTypeOK
    <3> QED
      BY <3>1, <3>2
  <2>4. \A policy \in bad' \ unwatched' : ~Starting(SourceOf(policy))'
    BY <2>1, <2>2, PipelineKeeps DEF WatchInv
  <2> QED
    BY <1>0, <2>1, <2>2, <2>3, <2>4, PipelineKeeps DEF WatchInv
<1>11. CASE UNCHANGED vars
  <2>1. UNCHANGED <<hostVars, supVars, streamVars, signalVars>>
    BY <1>11 DEF vars
  <2> QED
    BY <1>0, <2>1, SupervisorKeeps, SupervisorAdvances DEF hostVars, driftVars, supVars,
       leaveVars, WatchInv
<1> QED
  BY <1>1, <1>2, <1>3, <1>4, <1>5, <1>6, <1>7, <1>8, <1>9, <1>10, <1>11 DEF Next

\* While a session runs, a violated policy never goes unnoticed: its change is
\* on its way to the Supervisor or a check that looks at it is due or failing
\* (DriftNoticed, of the events the monitors send, Run's debounce and
\* RuntimeChecker.Check).  Nothing else hides it than a break before its monitor
\* watched, or a check's passing it over an old connection.
THEOREM DriftIsNoticed == Spec => []DriftNoticed
<1>1. Init => WatchInv
  BY WatchInvInit
<1>2. WatchInv /\ [Next]_vars => WatchInv'
  BY WatchInvStep
<1>3. WatchInv => DriftNoticed
  BY DEF WatchInv
<1> QED
  BY <1>1, <1>2, <1>3, PTL DEF Spec

-----------------------------------------------------------------------------
(* No false alarm. *)

\* Nothing has gone wrong anywhere: no failure is in any channel, counter or
\* source of one.
Undisturbed ==
  /\ sup = "select" /\ ~cancelled /\ ~ctxDone
  /\ bad = {} /\ backendExit = "open"
  /\ sending["failed"] = 0 /\ checks # "failed"
  /\ routeChild # "exited" /\ appHome = "readable"
  /\ monErrs = {} /\ mergedErrs = {}
  /\ \A s \in Sources : fwdErr[s] # "holding"

AlarmInv == HostTypeOK /\ (incidents = 0 /\ signalled = "none" => Undisturbed)

\* The Supervisor by itself neither makes a failure nor leaves its loop.
LEMMA SupervisorCalm ==
  ASSUME HostTypeOK, Undisturbed, UNCHANGED <<hostVars, streamVars, signalVars>>,
         \/ OnSignal \/ OnBackendExit \/ OnDebounce \/ OnOutcome \/ OutcomeSent
         \/ CleanupEnds \/ Tick \/ OnEventsClosed \/ OnErrorsClosed
  PROVE  Undisturbed'
<1>0. /\ UNCHANGED <<ctxDone, bad, routeChild, appHome, monErrs, mergedErrs, fwdErr>>
      /\ sending \in [Outcomes -> Nat] /\ checks \in Outcomes \cup {"empty"}
  BY DEF hostVars, driftVars, streamVars, signalVars, routeVars, clashVars, mergeVars, HostTypeOK,
     SupTypeOK
<1>1. CASE OnSignal \/ OnBackendExit \/ CleanupEnds
  BY <1>1 DEF Undisturbed, OnSignal, OnBackendExit, CleanupEnds, CleanupReturns
<1>2. CASE OnDebounce \/ Tick \/ OnEventsClosed \/ OnErrorsClosed
  <2>1. UNCHANGED <<sup, cancelled, backendExit, sending, checks>>
    BY <1>2 DEF OnDebounce, Tick, OnEventsClosed, OnErrorsClosed, leaveVars, inputVars,
       checkVars
  <2> QED
    BY <1>0, <2>1 DEF Undisturbed
<1>3. CASE OnOutcome
  <2>1. checks = "ok" /\ checks' = "empty"
        /\ UNCHANGED <<sup, cancelled, backendExit, sending>>
    BY <1>3 DEF OnOutcome, Undisturbed, leaveVars, inputVars
  <2> QED
    BY <1>0, <2>1 DEF Undisturbed
<1>4. CASE OutcomeSent
  <2>1. PICK o \in Outcomes : SendOutcome(o) \/ DropOutcome(o)
    BY <1>4 DEF OutcomeSent
  <2>2. o = "ok" /\ SendOutcome(o)
    BY <1>0, <2>1 DEF Undisturbed, SendOutcome, DropOutcome, CheckCtxDone, Outcomes
  <2>3. sending'["failed"] = 0 /\ checks' # "failed"
    BY <1>0, <2>2 DEF Undisturbed, SendOutcome, Dec, Outcomes
  <2>4. UNCHANGED <<sup, cancelled, backendExit>>
    BY <1>4 DEF OutcomeSent, leaveVars, inputVars
  <2> QED
    BY <1>0, <2>3, <2>4 DEF Undisturbed
<1> QED
  BY <1>1, <1>2, <1>3, <1>4

\* A check of an unviolated policy that nothing disturbs does not fail.
LEMMA CheckCalm ==
  ASSUME HostTypeOK, Undisturbed, signalled = "none", CheckStep, UNCHANGED incidents
  PROVE  Undisturbed'
<1>0. /\ UNCHANGED <<sup, cancelled, ctxDone, bad, backendExit, routeChild, appHome,
                     monErrs, mergedErrs, fwdErr>>
      /\ sending \in [Outcomes -> Nat] /\ incidents \in Nat
  BY DEF CheckStep, leaveVars, inputVars, streamVars, signalVars, routeVars, clashVars,
     mergeVars, HostTypeOK, SupTypeOK
<1>1. ~Incident
  BY <1>0 DEF Incident
<1>2. \A s, t : CheckAdvances(s, t) => UNCHANGED <<sending, checks>>
  BY DEF CheckAdvances
<1>3. \A s : CheckReturns(s, "ok") => sending'["failed"] = 0 /\ UNCHANGED checks
  BY <1>0 DEF CheckReturns, Inc, Outcomes, Undisturbed
<1>4. \A s, p : CheckCommand(s, p) => sending'["failed"] = 0 /\ UNCHANGED checks
  BY <1>1, <1>2 DEF CheckCommand, Undisturbed
<1>5. \A s : ~EgressMatchesStill(s) /\ ~EgressDiffers(s) /\ ~EgressEndpointFails(s)
               /\ ~EgressCancelled(s) /\ ~EgressUnparsable(s)
  BY <1>1 DEF EgressMatchesStill, EgressDiffers, EgressEndpointFails, EgressCancelled, EgressUnparsable,
     CheckCtxDone, Undisturbed
<1>6. \A s : EgressMatches(s) => sending'["failed"] = 0 /\ UNCHANGED checks
  BY <1>3 DEF EgressMatches
<1>7. sending'["failed"] = 0 /\ UNCHANGED checks
  BY <1>4, <1>5, <1>6 DEF CheckStep, CheckEgress
<1> QED
  BY <1>0, <1>7 DEF Undisturbed

\* The pipeline makes no error of its own while nobody breaks a source.
LEMMA StreamsCalm ==
  ASSUME HostTypeOK, Undisturbed, UNCHANGED <<supVars, bad, ctxDone>>,
         MonitorStep \/ MergeStep \/ RouteChildKilled \/ RouteLineArrives
           \/ MetadataChanges
  PROVE  Undisturbed'
<1>0. /\ UNCHANGED <<sup, cancelled, backendExit, sending, checks>>
      /\ fwdErr \in [Sources -> {"receiving", "holding", "done"}]
  BY DEF supVars, leaveVars, inputVars, checkVars, HostTypeOK, StreamTypeOK
<1>1. ASSUME UNCHANGED <<monErrs, mergedErrs, fwdErr, appHome>>, routeChild' # "exited"
      PROVE  Undisturbed'
  BY <1>0, <1>1 DEF Undisturbed
<1>2. CASE RouteStarts \/ RouteScans \/ RouteHandsOff
  BY <1>1, <1>2 DEF RouteStarts, RouteScans, RouteHandsOff, clashVars, mergeVars,
     Undisturbed
<1>3. CASE RouteRefused \/ RouteCancelled \/ RouteEnds \/ RouteReaped \/ ClashCancelled
             \/ RouteChildKilled
  BY <1>3 DEF RouteRefused, RouteCancelled, RouteEnds, RouteReaped, ClashCancelled, RouteChildKilled,
     Undisturbed
<1>4. CASE ClashStarts \/ ClashPolls \/ ClashHandsOff
  BY <1>1, <1>4 DEF ClashStarts, ClashPolls, ClashHandsOff, routeVars, mergeVars,
     Undisturbed
<1>5. CASE RouteLineArrives \/ MetadataChanges
  BY <1>1, <1>5 DEF RouteLineArrives, MetadataChanges, RouteLine, MetadataWritten,
     clashVars, routeVars, mergeVars, Undisturbed
<1>6. CASE MergeStep
  <2>1. CASE CloseMerged
    BY <1>1, <2>1 DEF CloseMerged, clashVars, routeVars, Undisturbed
  <2>2. CASE \E s \in Sources : ForwarderEnds(s)
    BY <1>1, <2>2 DEF ForwarderEnds, clashVars, routeVars, Undisturbed
  <2>3. CASE \E s \in Sources : ErrorReceived(s) \/ ErrorBuffered(s)
    BY <2>3 DEF ErrorReceived, ErrorBuffered, Undisturbed
  <2>4. CASE \E s \in Sources : ErrorForwarderEnds(s)
    <3>1. /\ UNCHANGED <<routeChild, appHome, monErrs, mergedErrs>>
          /\ \A s \in Sources : fwdErr'[s] # "holding"
      BY <1>0, <2>4 DEF ErrorForwarderEnds, clashVars, routeVars, Undisturbed
    <3> QED
      BY <1>0, <3>1 DEF Undisturbed
  <2> QED
    BY <1>6, <2>1, <2>2, <2>3, <2>4 DEF MergeStep
<1> QED
  BY <1>2, <1>3, <1>4, <1>5, <1>6 DEF MonitorStep

LEMMA AlarmStep ==
  ASSUME AlarmInv, [Next]_vars
  PROVE  AlarmInv'
<1>0. HostTypeOK /\ HostTypeOK' /\ incidents \in Nat
  BY StepTyped DEF AlarmInv, HostTypeOK
<1> SUFFICES ASSUME incidents' = 0, signalled' = "none"
             PROVE  Undisturbed'
  BY <1>0 DEF AlarmInv
<1>1. ~Incident
  BY <1>0 DEF Incident
<1>2. CASE PolicyChanges \/ SourceBreaks \/ AttachedExits
  BY <1>1, <1>2 DEF PolicyChanges, SourceBreaks, AttachedExits, signalVars
<1>3. CASE Noise
  <2>1. /\ UNCHANGED <<supVars, hostVars, signalVars>>
        /\ RouteLineArrives \/ MetadataChanges
    BY <1>3 DEF Noise, RouteLineArrives, MetadataChanges
  <2> QED
    BY <1>0, <2>1, StreamsCalm DEF AlarmInv, hostVars, driftVars, signalVars
<1>4. CASE ChildInterrupted
  <2>1. signalled = "group" /\ UNCHANGED signalVars
    BY <1>4 DEF ChildInterrupted, RouteChildExits
  <2> QED
    BY <2>1 DEF signalVars
<1>5. CASE CheckStep
  <2>1. UNCHANGED <<incidents, signalled>>
    BY <1>1, <1>5 DEF CheckStep, CheckCommand, CheckEgress, EgressMatches,
       EgressMatchesStill, EgressDiffers, EgressEndpointFails, EgressCancelled,
       EgressUnparsable, signalVars
  <2> QED
    BY <1>0, <1>5, <2>1, CheckCalm DEF AlarmInv
<1>6. CASE DeliverEvent
  <2>1. PICK s \in Sources : ForwardEvent(s) /\ OnEvent(s)
    BY <1>6 DEF DeliverEvent
  <2>2. UNCHANGED <<incidents, signalled, ctxDone, bad, routeChild, appHome, monErrs,
                    mergedErrs, fwdErr, sup, cancelled, backendExit>>
    BY <1>6, <2>1 DEF DeliverEvent, ForwardEvent, OnEvent, hostVars, driftVars, signalVars,
       routeVars, clashVars, leaveVars, inputVars
  <2>3. UNCHANGED <<sending, checks>>
    BY <2>1 DEF OnEvent, ScheduleCheck, checkVars
  <2> QED
    BY <2>2, <2>3 DEF AlarmInv, Undisturbed
<1>7. CASE DeliverError
  BY <1>7 DEF DeliverError, TakeError, AlarmInv, Undisturbed, hostVars, signalVars
<1>8. CASE SeeEventsClosed \/ SeeErrorsClosed \/ SupervisorAlone \/ TimePasses
  <2>1. /\ UNCHANGED <<hostVars, streamVars, signalVars>>
        /\ \/ OnSignal \/ OnBackendExit \/ OnDebounce \/ OnOutcome \/ OutcomeSent
           \/ CleanupEnds \/ Tick \/ OnEventsClosed \/ OnErrorsClosed
    BY <1>8 DEF SeeEventsClosed, SeeErrorsClosed, SupervisorAlone, TimePasses
  <2>2. Undisturbed
    BY <2>1 DEF AlarmInv, hostVars, signalVars
  <2> QED
    BY <1>0, <2>1, <2>2, SupervisorCalm
<1>9. CASE StreamsStep
  <2>1. /\ UNCHANGED <<hostVars, supVars, signalVars>>
        /\ MonitorStep \/ MergeStep \/ RouteChildKilled
    BY <1>9 DEF StreamsStep, MonitorStep, RouteStarts, RouteRefused, RouteScans, RouteHandsOff,
       RouteCancelled, RouteEnds, RouteReaped, ClashStarts, ClashPolls, ClashHandsOff,
       ClashCancelled, MergeStep, ForwarderEnds, ErrorReceived, ErrorBuffered,
       ErrorForwarderEnds, CloseMerged, RouteChildKilled, RouteChildExits
  <2> QED
    BY <1>0, <2>1, StreamsCalm DEF AlarmInv, hostVars, driftVars, signalVars
<1>10. CASE SignalStep
  <2>1. SignalArrives => signalled' # "none"
    BY SignalAssumption DEF SignalArrives, SignalAssumption
  <2>2. CancelContext => signalled' # "none"
    BY DEF CancelContext
  <2> QED
    BY <1>10, <2>1, <2>2 DEF SignalStep
<1>11. CASE UNCHANGED vars
  <2>1. UNCHANGED <<signalVars, supVars, streamVars, hostVars>>
    BY <1>11 DEF vars
  <2> QED
    BY <2>1 DEF AlarmInv, Undisturbed, signalVars, supVars, leaveVars, checkVars,
       inputVars, streamVars, routeVars, clashVars, mergeVars, hostVars, driftVars
<1> QED
  BY <1>2, <1>3, <1>4, <1>5, <1>6, <1>7, <1>8, <1>9, <1>10, <1>11 DEF Next, AlarmInv

\* Nothing but an incident or a signal makes the Supervisor leave its loop
\* (NoFalseAlarm, of Run's select and of everything that feeds it), for any
\* number of events, checks and attempts.
THEOREM NoAlarmUnprovoked == Spec => []NoFalseAlarm
<1>1. Init => AlarmInv
  <2>1. ASSUME Init PROVE Undisturbed
    BY <2>1 DEF Init, SupInit, StreamInit, SignalInit, Undisturbed, Outcomes
  <2> QED
    BY <2>1, InitTyped DEF AlarmInv
<1>2. AlarmInv /\ [Next]_vars => AlarmInv'
  BY AlarmStep
<1>3. AlarmInv => NoFalseAlarm
  BY DEF AlarmInv, Undisturbed, NoFalseAlarm
<1> QED
  BY <1>1, <1>2, <1>3, PTL DEF Spec
=============================================================================
