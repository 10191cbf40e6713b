-------------------------- MODULE EventStreamsProofs --------------------------
(***************************************************************************)
(* Proofs about the event pipeline for any bound on its unread lines: its  *)
(* type invariant, that a source that stops watching has reported it, and  *)
(* that nothing is sent on a closed channel.                               *)
(***************************************************************************)
EXTENDS EventStreams, TLAPS

\* A step of the event pipeline keeps its variables typed.
LEMMA StreamsTyped ==
  ASSUME StreamTypeOK
  PROVE  /\ MonitorStep \/ RouteFails => StreamTypeOK'
         /\ MergeStep => StreamTypeOK'
         /\ RouteChildKilled \/ RouteChildExits \/ AppHomeBreaks => StreamTypeOK'
         /\ RouteLineArrives \/ MetadataChanges => StreamTypeOK'
<1> USE DEF StreamTypeOK, SignalTypeOK, signalVars, routeVars, clashVars, mergeVars
<1>1. {"route", "clash"} \subseteq Sources
  BY DEF Sources
<1>2. ASSUME RouteStarts \/ RouteRefused \/ RouteScans \/ RouteCancelled \/ RouteEnds
             \/ RouteReaped \/ RouteFails
      PROVE StreamTypeOK'
  BY <1>1, <1>2 DEF RouteStarts, RouteRefused, RouteScans, RouteCancelled, RouteEnds,
     RouteReaped, RouteFails, RouteStartFails, RouteReadFails, ReportUnlessCancelled
<1>3. ASSUME ClashStarts \/ ClashPolls \/ ClashCancelled PROVE StreamTypeOK'
  BY <1>1, <1>3 DEF ClashStarts, ClashFails, ClashPolls, ClashCancelled
<1>4. ASSUME RouteHandsOff \/ ClashHandsOff PROVE StreamTypeOK'
  BY <1>1, <1>4 DEF RouteHandsOff, ClashHandsOff
<1>5. ASSUME MergeStep PROVE StreamTypeOK'
  <2>1. ASSUME NEW s \in Sources, ForwarderEnds(s) PROVE StreamTypeOK'
    BY <2>1 DEF ForwarderEnds
  <2>2. ASSUME NEW s \in Sources, ErrorReceived(s) PROVE StreamTypeOK'
    BY <2>2 DEF ErrorReceived
  <2>3. ASSUME NEW s \in Sources, ErrorBuffered(s) PROVE StreamTypeOK'
    BY <2>3 DEF ErrorBuffered
  <2>4. ASSUME NEW s \in Sources, ErrorForwarderEnds(s) PROVE StreamTypeOK'
    BY <2>4 DEF ErrorForwarderEnds
  <2>5. ASSUME CloseMerged PROVE StreamTypeOK'
    BY <2>5 DEF CloseMerged
  <2> QED
    BY <1>5, <2>1, <2>2, <2>3, <2>4, <2>5 DEF MergeStep
<1>6. ASSUME RouteChildKilled \/ RouteChildExits \/ AppHomeBreaks PROVE StreamTypeOK'
  BY <1>6 DEF RouteChildKilled, RouteChildExits, AppHomeBreaks
<1>7. ASSUME RouteLineArrives PROVE StreamTypeOK'
  <2>1. routeLines' \in Nat
    BY <1>7 DEF RouteLineArrives, RouteLine
  <2> QED
    BY <1>7, <2>1 DEF RouteLineArrives, RouteLine
<1>8. ASSUME MetadataChanges PROVE StreamTypeOK'
  BY <1>8 DEF MetadataChanges, MetadataWritten
<1> QED
  BY <1>2, <1>3, <1>4, <1>5, <1>6, <1>7, <1>8 DEF MonitorStep

\* So does the reader.
LEMMA ReaderTyped ==
  ASSUME StreamTypeOK, UNCHANGED signalVars,
         \E s \in Sources : ForwardEvent(s) \/ TakeError(s)
  PROVE  StreamTypeOK'
<1> USE DEF StreamTypeOK, SignalTypeOK, signalVars, routeVars, clashVars
<1>1. ASSUME NEW s \in Sources, ForwardEvent(s) PROVE StreamTypeOK'
  BY <1>1 DEF ForwardEvent
<1>2. ASSUME NEW s \in Sources, TakeError(s) PROVE StreamTypeOK'
  BY <1>2 DEF TakeError
<1> QED
  BY <1>1, <1>2

-----------------------------------------------------------------------------
(* A source that stops is not silent. *)

\* The error of a stopped source, wherever it is.
ReportOf(s) ==
  s \in monErrs \cup mergedErrs \cup takenErrs \/ fwdErr[s] = "holding"

\* The monitors: each one that stops puts its error into its own channel.
LEMMA MonitorsReport ==
  ASSUME StreamTypeOK, SourceDeathReported,
         \/ MonitorStep \/ RouteFails \/ RouteChildExits \/ RouteChildKilled
         \/ AppHomeBreaks \/ RouteLineArrives \/ MetadataChanges
  PROVE  SourceDeathReported'
<1> SUFFICES ASSUME NEW s \in Sources, MonitorStopped(s)', ~ctxDone'
             PROVE  ReportOf(s)'
  BY DEF SourceDeathReported, ReportOf
<1>0. s = "route" \/ s = "clash"
  BY DEF Sources
<1>1. /\ UNCHANGED <<fwdErr, mergedErrs, takenErrs, ctxDone>>
      /\ monErrs \subseteq monErrs'
  BY DEF MonitorStep, RouteFails, RouteStarts, RouteRefused, RouteScans, RouteHandsOff,
     RouteCancelled, RouteEnds, RouteReaped, RouteStartFails, RouteReadFails,
     ReportUnlessCancelled, ClashStarts, ClashFails, ClashPolls, ClashHandsOff,
     ClashCancelled, RouteChildExits, RouteChildKilled, AppHomeBreaks,
     RouteLineArrives, RouteLine, MetadataChanges, MetadataWritten, mergeVars, signalVars
<1>2. CASE MonitorStopped(s)
  <2>1. ReportOf(s)
    BY <1>1, <1>2 DEF SourceDeathReported, ReportOf
  <2> QED
    BY <1>1, <2>1 DEF ReportOf
<1>3. CASE ~MonitorStopped(s) /\ s = "route"
  <2>1. "route" \in monErrs'
    BY <1>1, <1>3 DEF MonitorStopped, MonitorStep, RouteFails, RouteStarts, RouteRefused, RouteScans,
       RouteHandsOff, RouteCancelled, RouteEnds, RouteReaped, RouteStartFails,
       RouteReadFails, ReportUnlessCancelled, ClashStarts, ClashPolls,
       ClashHandsOff, ClashCancelled, RouteChildExits, RouteChildKilled,
       AppHomeBreaks, RouteLineArrives, RouteLine, MetadataChanges, routeVars
  <2> QED
    BY <1>3, <2>1 DEF ReportOf
<1>4. CASE ~MonitorStopped(s) /\ s = "clash"
  <2>1. "clash" \in monErrs'
    BY <1>1, <1>4 DEF MonitorStopped, MonitorStep, RouteFails, RouteStarts, RouteRefused, RouteScans,
       RouteHandsOff, RouteCancelled, RouteEnds, RouteReaped, RouteStartFails,
       RouteReadFails, ClashStarts, ClashFails, ClashPolls,
       ClashHandsOff, ClashCancelled, RouteChildExits, RouteChildKilled,
       AppHomeBreaks, RouteLineArrives, MetadataChanges, MetadataWritten, clashVars
  <2> QED
    BY <1>4, <2>1 DEF ReportOf
<1> QED
  BY <1>0, <1>2, <1>3, <1>4

\* The forwarders and the reader: an error moves on, it is never dropped.
LEMMA MergeKeepsReports ==
  ASSUME StreamTypeOK, SourceDeathReported,
         \/ MergeStep
         \/ \E s \in Sources : (ForwardEvent(s) \/ TakeError(s)) /\ UNCHANGED signalVars
  PROVE  SourceDeathReported'
<1>0. UNCHANGED <<routeVars, clashVars, ctxDone>>
  BY DEF MergeStep, ForwarderEnds, ErrorReceived, ErrorBuffered, ErrorForwarderEnds,
     CloseMerged, ForwardEvent, TakeError, signalVars
<1> SUFFICES ASSUME NEW s \in Sources, ReportOf(s), ~ctxDone
             PROVE  ReportOf(s)'
  BY <1>0 DEF SourceDeathReported, ReportOf, MonitorStopped, routeVars, clashVars
<1> USE DEF ReportOf
<1>1. ASSUME NEW t \in Sources, ForwarderEnds(t) \/ ForwardEvent(t) PROVE ReportOf(s)'
  BY <1>1 DEF ForwarderEnds, ForwardEvent
<1>2. ASSUME NEW t \in Sources, ErrorReceived(t) PROVE ReportOf(s)'
  BY <1>2 DEF ErrorReceived, StreamTypeOK
<1>3. ASSUME NEW t \in Sources, ErrorBuffered(t) PROVE ReportOf(s)'
  BY <1>3 DEF ErrorBuffered, StreamTypeOK
<1>4. ASSUME NEW t \in Sources, ErrorForwarderEnds(t) PROVE ReportOf(s)'
  BY <1>4 DEF ErrorForwarderEnds, MayLeave, StreamTypeOK
<1>5. ASSUME NEW t \in Sources, TakeError(t) PROVE ReportOf(s)'
  BY <1>5 DEF TakeError
<1>6. ASSUME CloseMerged PROVE ReportOf(s)'
  BY <1>6 DEF CloseMerged
<1> QED
  BY <1>1, <1>2, <1>3, <1>4, <1>5, <1>6 DEF MergeStep

\* A signal only lifts the obligation.
LEMMA SignalKeepsReports ==
  ASSUME SourceDeathReported, UNCHANGED streamVars, ctxDone => ctxDone'
  PROVE  SourceDeathReported'
BY DEF SourceDeathReported, MonitorStopped, streamVars, routeVars, clashVars, mergeVars

-----------------------------------------------------------------------------
(* The theorems. *)

\* The merged channels are closed after the last sender has returned, and a
\* forwarder that has returned does not come back.
StreamInv ==
  /\ StreamTypeOK /\ SourceDeathReported
  /\ mergedClosed => ForwardersDone

LEMMA StreamInvInit == StreamsStart => StreamInv
<1> SUFFICES ASSUME StreamInit, SignalInit PROVE StreamInv
  BY DEF StreamsStart
<1>1. StreamTypeOK
  BY DEF StreamInit, SignalInit, StreamTypeOK, SignalTypeOK
<1>2. SourceDeathReported
  BY DEF StreamInit, SourceDeathReported, MonitorStopped
<1> QED
  BY <1>1, <1>2 DEF StreamInit, StreamInv

LEMMA StreamInvStep == StreamInv /\ [StreamNext]_streamsVars => StreamInv'
<1> SUFFICES ASSUME StreamInv, [StreamNext]_streamsVars PROVE StreamInv'
  OBVIOUS
<1>0. StreamTypeOK /\ SourceDeathReported /\ (mergedClosed => ForwardersDone)
  BY DEF StreamInv
<1>1. CASE MonitorStep \/ RouteFails \/ HostStep
  <2>1. StreamTypeOK'
    BY <1>0, <1>1, StreamsTyped DEF HostStep
  <2>2. SourceDeathReported'
    BY <1>0, <1>1, MonitorsReport DEF HostStep
  <2>3. UNCHANGED mergedClosed
    BY <1>1 DEF HostStep, MonitorStep, RouteFails, RouteStarts, RouteRefused, RouteScans,
       RouteHandsOff, RouteCancelled, RouteEnds, RouteReaped, RouteStartFails,
       RouteReadFails, ClashStarts, ClashPolls, ClashHandsOff, ClashCancelled,
       RouteChildExits, AppHomeBreaks, RouteLineArrives, MetadataChanges, mergeVars
  <2>4. ForwardersDone => ForwardersDone'
    BY <1>1 DEF HostStep, MonitorStep, RouteFails, RouteStarts, RouteRefused, RouteScans,
       RouteHandsOff, RouteCancelled, RouteEnds, RouteReaped, RouteStartFails,
       RouteReadFails, ClashStarts, ClashPolls, ClashHandsOff, ClashCancelled,
       RouteChildExits, AppHomeBreaks, RouteLineArrives, MetadataChanges, mergeVars,
       ForwardersDone, Sources
  <2> QED
    BY <1>0, <2>1, <2>2, <2>3, <2>4 DEF StreamInv
<1>2. CASE MergeStep
  <2>1. StreamTypeOK'
    BY <1>0, <1>2, StreamsTyped
  <2>2. SourceDeathReported'
    BY <1>0, <1>2, MergeKeepsReports
  <2>3. mergedClosed' => ForwardersDone'
    BY <1>0, <1>2 DEF MergeStep, ForwarderEnds, ErrorReceived, ErrorBuffered,
       ErrorForwarderEnds, CloseMerged, ForwardersDone, StreamTypeOK
  <2> QED
    BY <2>1, <2>2, <2>3 DEF StreamInv
<1>3. CASE ReaderStep
  <2>1. StreamTypeOK' /\ SourceDeathReported'
    BY <1>0, <1>3, ReaderTyped, MergeKeepsReports DEF ReaderStep
  <2>2. mergedClosed' => ForwardersDone'
    BY <1>0, <1>3 DEF ReaderStep, ForwardEvent, TakeError, ForwardersDone, StreamTypeOK
  <2> QED
    BY <2>1, <2>2 DEF StreamInv
<1>4. CASE (SignalArrives \/ CancelContext \/ UNCHANGED signalVars) /\ UNCHANGED streamVars
  <2>1. SignalTypeOK' /\ (ctxDone => ctxDone')
    BY <1>0, <1>4 DEF SignalArrives, CancelContext, signalVars, StreamTypeOK, SignalTypeOK
  <2>2. StreamTypeOK' /\ SourceDeathReported'
    BY <1>0, <1>4, <2>1, SignalKeepsReports DEF StreamTypeOK, streamVars, routeVars,
       clashVars, mergeVars
  <2>3. mergedClosed' => ForwardersDone'
    BY <1>0, <1>4 DEF streamVars, mergeVars, ForwardersDone
  <2> QED
    BY <2>2, <2>3 DEF StreamInv
<1> QED
  BY <1>1, <1>2, <1>3, <1>4 DEF StreamNext, streamsVars

\* The state of the pipeline stays within its types.
THEOREM StreamTypeCorrect == StreamSpec => []StreamTypeOK
<1>1. StreamInv => StreamTypeOK
  BY DEF StreamInv
<1> QED
  BY <1>1, StreamInvInit, StreamInvStep, PTL DEF StreamSpec

\* No source of host-inherited mode dies silently, whatever the interleaving of
\* monitors, forwarders and reader.
THEOREM DeathReported == StreamSpec => []SourceDeathReported
<1>1. StreamInv => SourceDeathReported
  BY DEF StreamInv
<1> QED
  BY <1>1, StreamInvInit, StreamInvStep, PTL DEF StreamSpec

\* MergeEventStreams never sends on a channel it has closed.
THEOREM ClosedChannelsSafe == StreamSpec => []NoSendAfterClose
<1>1. StreamInv => NoSendAfterClose
  BY DEF StreamInv, NoSendAfterClose, ForwardersDone
<1> QED
  BY <1>1, StreamInvInit, StreamInvStep, PTL DEF StreamSpec
=============================================================================
