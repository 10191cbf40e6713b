---------------------------- MODULE EventStreams ----------------------------
(***************************************************************************)
(* The event pipeline of host-inherited mode: `route -n monitor` and the   *)
(* RouteMonitor goroutine that scans it, the ClashAppHomeMonitor goroutine *)
(* that polls file metadata, and the goroutines of MergeEventStreams that  *)
(* forward both to the Supervisor.                                         *)
(*                                                                         *)
(* The monitors' event channels and the merged one are unbuffered, so a    *)
(* send and its receive are one step.  A monitor's error channel holds one *)
(* error and the merged one holds an error of each source; every source    *)
(* sends at most one, so each is the set of the sources whose error it     *)
(* holds.                                                                  *)
(***************************************************************************)
EXTENDS Integers, SignalContext

CONSTANT MaxLines   \* bound on the unread lines in the route monitor's pipe

ASSUME MaxLinesAssumption == MaxLines \in Nat

Sources == {"route", "clash"}

VARIABLES routeChild,    \* the `route -n monitor` process
          routeLines,    \* lines it has written that are not yet scanned
          routeMon,      \* RouteMonitor's goroutine
          appHome,       \* whether the Clash app-home can be read
          metadataDirty, \* metadata differs from ClashAppHomeMonitor's snapshot
          clashMon,      \* ClashAppHomeMonitor's goroutine
          fwd,           \* event forwarder of each source
          monErrs,       \* monitors' error channels
          fwdErr,        \* error forwarder of each source
          mergedErrs,    \* merged error channel
          takenErrs,     \* errors its reader has received
          mergedClosed   \* both merged channels are closed

routeVars  == <<routeChild, routeLines, routeMon>>
clashVars  == <<appHome, metadataDirty, clashMon>>
mergeVars  == <<fwd, fwdErr, mergedErrs, takenErrs, mergedClosed>>
streamVars == <<routeVars, clashVars, monErrs, mergeVars>>
streamsVars == <<signalVars, streamVars>>

StreamTypeOK ==
  /\ SignalTypeOK
  /\ routeChild \in {"none", "refused", "running", "exited"}
  /\ routeLines \in Nat
  /\ routeMon \in {"starting", "scanning", "sending", "waiting", "done"}
  /\ appHome \in {"readable", "broken"}
  /\ metadataDirty \in BOOLEAN
  /\ clashMon \in {"starting", "polling", "sending", "done"}
  /\ fwd \in [Sources -> {"receiving", "holding", "done"}]
  /\ monErrs \in SUBSET Sources
  /\ fwdErr \in [Sources -> {"receiving", "holding", "done"}]
  /\ mergedErrs \in SUBSET Sources
  /\ takenErrs \in SUBSET Sources
  /\ mergedClosed \in BOOLEAN

StreamInit ==
  /\ routeChild = "none" /\ routeLines = 0 /\ routeMon = "starting"
  /\ appHome = "readable" /\ metadataDirty = FALSE /\ clashMon = "starting"
  /\ fwd = [s \in Sources |-> "receiving"]
  /\ fwdErr = [s \in Sources |-> "receiving"]
  /\ monErrs = {} /\ mergedErrs = {} /\ takenErrs = {}
  /\ mergedClosed = FALSE

StreamsStart == StreamInit /\ SignalInit

-----------------------------------------------------------------------------
(* RouteMonitor.Start's goroutine. *)

RouteStarts ==
  /\ routeMon = "starting" /\ ~ctxDone
  /\ routeChild' = "running" /\ routeMon' = "scanning"
  /\ UNCHANGED <<routeLines, clashVars, monErrs, mergeVars, signalVars>>

\* Under a context that is done Cmd.Start returns the context's error.
RouteRefused ==
  /\ routeMon = "starting" /\ ctxDone
  /\ routeChild' = "refused"
  /\ routeMon' = "done" /\ monErrs' = monErrs \cup {"route"}
  /\ UNCHANGED <<routeLines, clashVars, mergeVars, signalVars>>

\* No pipe, no such command, or no process: an error of another kind.
RouteStartFails ==
  /\ routeMon = "starting"
  /\ routeMon' = "done" /\ monErrs' = monErrs \cup {"route"}
  /\ UNCHANGED <<routeChild, routeLines, clashVars, mergeVars, signalVars>>

\* Seeded bug: a line is taken from an empty pipe.
RouteScansAnything ==
  /\ routeMon = "scanning"
  /\ routeLines' = routeLines - 1 /\ routeMon' = "sending"
  /\ UNCHANGED <<routeChild, clashVars, monErrs, mergeVars, signalVars>>

RouteScans ==
  /\ routeMon = "scanning" /\ routeLines > 0
  /\ routeLines' = routeLines - 1 /\ routeMon' = "sending"
  /\ UNCHANGED <<routeChild, clashVars, monErrs, mergeVars, signalVars>>

RouteHandsOff ==
  /\ routeMon = "sending" /\ fwd["route"] = "receiving"
  /\ routeMon' = "scanning" /\ fwd' = [fwd EXCEPT !["route"] = "holding"]
  /\ UNCHANGED <<routeChild, routeLines, clashVars, monErrs, fwdErr,
                 mergedErrs, takenErrs, mergedClosed, signalVars>>

\* The send gives way to ctx.Done(): reap the killed process and return.
RouteCancelled ==
  /\ routeMon = "sending" /\ ctxDone /\ routeChild = "exited"
  /\ routeMon' = "done"
  /\ UNCHANGED <<routeChild, routeLines, clashVars, monErrs, mergeVars, signalVars>>

\* Seeded bug: the end of a monitor passes for a normal one.
ReportNothing(s) == UNCHANGED monErrs

\* A monitor that stops on its own reports it; one that was cancelled does not.
ReportUnlessCancelled(s) ==
  monErrs' = IF ctxDone THEN monErrs ELSE monErrs \cup {s}

\* End of output: the process is gone and its output is drained.
RouteEnds ==
  /\ routeMon = "scanning" /\ routeChild = "exited" /\ routeLines = 0
  /\ routeMon' = "done" /\ ReportUnlessCancelled("route")
  /\ UNCHANGED <<routeChild, routeLines, clashVars, mergeVars, signalVars>>

\* A read error (an over-long line) ends the scan: it is reported before the
\* goroutine waits for the process.
RouteReadFails ==
  /\ routeMon = "scanning"
  /\ routeMon' = "waiting" /\ ReportUnlessCancelled("route")
  /\ UNCHANGED <<routeChild, routeLines, clashVars, mergeVars, signalVars>>

RouteReaped ==
  /\ routeMon = "waiting" /\ routeChild = "exited"
  /\ routeMon' = "done"
  /\ UNCHANGED <<routeChild, routeLines, clashVars, monErrs, mergeVars, signalVars>>

-----------------------------------------------------------------------------
(* ClashAppHomeMonitor.Start's goroutine. *)

ClashFails ==
  /\ clashMon' = "done" /\ monErrs' = monErrs \cup {"clash"}
  /\ UNCHANGED <<appHome, metadataDirty>>

\* The first snapshot, taken when the goroutine gets to run.
ClashStarts ==
  /\ clashMon = "starting"
  /\ \/ appHome = "broken" /\ ClashFails
     \/ /\ appHome = "readable"
        /\ clashMon' = "polling" /\ metadataDirty' = FALSE
        /\ UNCHANGED <<appHome, monErrs>>
  /\ UNCHANGED <<routeVars, mergeVars, signalVars>>

\* A tick: snapshot again, compare, and remember the new snapshot.
ClashPolls ==
  /\ clashMon = "polling"
  /\ \/ appHome = "broken" /\ ClashFails
     \/ /\ appHome = "readable" /\ metadataDirty
        /\ metadataDirty' = FALSE /\ clashMon' = "sending"
        /\ UNCHANGED <<appHome, monErrs>>
  /\ UNCHANGED <<routeVars, mergeVars, signalVars>>

ClashHandsOff ==
  /\ clashMon = "sending" /\ fwd["clash"] = "receiving"
  /\ clashMon' = "polling" /\ fwd' = [fwd EXCEPT !["clash"] = "holding"]
  /\ UNCHANGED <<routeVars, appHome, metadataDirty, monErrs, fwdErr,
                 mergedErrs, takenErrs, mergedClosed, signalVars>>

ClashCancelled ==
  /\ clashMon \in {"polling", "sending"} /\ ctxDone
  /\ clashMon' = "done"
  /\ UNCHANGED <<routeVars, appHome, metadataDirty, monErrs, mergeVars, signalVars>>

-----------------------------------------------------------------------------
(* MergeEventStreams' goroutines. *)

\* The monitor has returned, which closed both of its channels.
StreamClosed(s) == IF s = "route" THEN routeMon = "done" ELSE clashMon = "done"

\* The send of a held event on the merged channel, received by the reader.
ForwardEvent(s) ==
  /\ fwd[s] = "holding"
  /\ fwd' = [fwd EXCEPT ![s] = "receiving"]
  /\ UNCHANGED <<routeVars, clashVars, monErrs, fwdErr, mergedErrs, takenErrs,
                 mergedClosed>>

\* Seeded bug: the select has no case for ctx.Done().
LeaveWhenClosed(state, closed) == state = "receiving" /\ closed

MayLeave(state, closed) ==
  \/ state # "done" /\ ctxDone
  \/ state = "receiving" /\ closed

ForwarderEnds(s) ==
  /\ MayLeave(fwd[s], StreamClosed(s))
  /\ fwd' = [fwd EXCEPT ![s] = "done"]
  /\ UNCHANGED <<routeVars, clashVars, monErrs, fwdErr, mergedErrs, takenErrs,
                 mergedClosed, signalVars>>

ErrorReceived(s) ==
  /\ fwdErr[s] = "receiving" /\ s \in monErrs
  /\ monErrs' = monErrs \ {s} /\ fwdErr' = [fwdErr EXCEPT ![s] = "holding"]
  /\ UNCHANGED <<routeVars, clashVars, fwd, mergedErrs, takenErrs, mergedClosed,
                 signalVars>>

ErrorBuffered(s) ==
  /\ fwdErr[s] = "holding"
  /\ mergedErrs' = mergedErrs \cup {s}
  /\ fwdErr' = [fwdErr EXCEPT ![s] = "receiving"]
  /\ UNCHANGED <<routeVars, clashVars, monErrs, fwd, takenErrs, mergedClosed,
                 signalVars>>

\* A closed channel still yields the error it holds before it reads as closed.
ErrorForwarderEnds(s) ==
  /\ MayLeave(fwdErr[s], StreamClosed(s) /\ s \notin monErrs)
  /\ fwdErr' = [fwdErr EXCEPT ![s] = "done"]
  /\ UNCHANGED <<routeVars, clashVars, monErrs, fwd, mergedErrs, takenErrs,
                 mergedClosed, signalVars>>

\* Seeded bug: the wait group counts the event forwarders only.
EventForwardersDone == \A s \in Sources : fwd[s] = "done"

ForwardersDone == \A s \in Sources : fwd[s] = "done" /\ fwdErr[s] = "done"

CloseMerged ==
  /\ ForwardersDone /\ ~mergedClosed
  /\ mergedClosed' = TRUE
  /\ UNCHANGED <<routeVars, clashVars, monErrs, fwd, fwdErr, mergedErrs,
                 takenErrs, signalVars>>

\* The reader of the merged streams receives an error.
TakeError(s) ==
  /\ s \in mergedErrs
  /\ mergedErrs' = mergedErrs \ {s} /\ takenErrs' = takenErrs \cup {s}
  /\ UNCHANGED <<routeVars, clashVars, monErrs, fwd, fwdErr, mergedClosed>>

-----------------------------------------------------------------------------
(* What the host does to the pipeline. *)

\* The kernel reports a routing change: one line, if the process is there to
\* write it.
RouteLine ==
  /\ routeLines' = IF routeChild = "running" THEN routeLines + 1 ELSE routeLines
  /\ UNCHANGED <<routeChild, routeMon>>

\* A watched file of the app-home is written.
MetadataWritten ==
  /\ metadataDirty' = TRUE
  /\ UNCHANGED <<appHome, clashMon>>

RouteLineArrives ==
  /\ routeLines < MaxLines /\ RouteLine
  /\ UNCHANGED <<clashVars, monErrs, mergeVars, signalVars>>

MetadataChanges ==
  /\ MetadataWritten
  /\ UNCHANGED <<routeVars, monErrs, mergeVars, signalVars>>

\* The process exits by itself, is interrupted with the launcher's process
\* group, or is killed because its context is done (exec.CommandContext).
RouteChildExits ==
  /\ routeChild = "running"
  /\ routeChild' = "exited"
  /\ UNCHANGED <<routeLines, routeMon, clashVars, monErrs, mergeVars, signalVars>>

RouteChildKilled == ctxDone /\ RouteChildExits

AppHomeBreaks ==
  /\ appHome = "readable" /\ appHome' = "broken"
  /\ UNCHANGED <<metadataDirty, clashMon, routeVars, monErrs, mergeVars, signalVars>>

-----------------------------------------------------------------------------

MonitorStep ==
  \/ RouteStarts \/ RouteRefused \/ RouteScans \/ RouteHandsOff
  \/ RouteCancelled \/ RouteEnds \/ RouteReaped
  \/ ClashStarts \/ ClashPolls \/ ClashHandsOff \/ ClashCancelled

RouteFails == RouteStartFails \/ RouteReadFails

MergeStep ==
  \/ \E s \in Sources : \/ ForwarderEnds(s) \/ ErrorReceived(s)
                        \/ ErrorBuffered(s) \/ ErrorForwarderEnds(s)
  \/ CloseMerged

\* A reader that may receive at any time, and may stop receiving for good.
ReaderStep ==
  /\ \E s \in Sources : ForwardEvent(s) \/ TakeError(s)
  /\ UNCHANGED signalVars

HostStep ==
  RouteLineArrives \/ MetadataChanges \/ RouteChildExits \/ AppHomeBreaks

StreamNext ==
  \/ MonitorStep \/ RouteFails \/ MergeStep \/ ReaderStep \/ HostStep
  \/ (SignalArrives \/ CancelContext) /\ UNCHANGED streamVars

\* Goroutines run, the runtime kills the child of a cancelled command, and a
\* signal cancels its context.  Neither the reader nor the host is obliged to
\* do anything.
StreamFairness ==
  /\ WF_streamsVars(RouteStarts \/ RouteRefused)
  /\ WF_streamsVars(RouteScans) /\ WF_streamsVars(RouteHandsOff)
  /\ WF_streamsVars(RouteCancelled \/ RouteEnds \/ RouteReaped)
  /\ WF_streamsVars(RouteChildKilled)
  /\ WF_streamsVars(ClashStarts) /\ WF_streamsVars(ClashCancelled)
  /\ \A s \in Sources : /\ WF_streamsVars(ForwarderEnds(s))
                        /\ WF_streamsVars(ErrorReceived(s))
                        /\ WF_streamsVars(ErrorBuffered(s))
                        /\ WF_streamsVars(ErrorForwarderEnds(s))
  /\ WF_streamsVars(CloseMerged)
  /\ WF_streamsVars(CancelContext /\ UNCHANGED streamVars)

StreamSpec == StreamsStart /\ [][StreamNext]_streamsVars /\ StreamFairness

-----------------------------------------------------------------------------

\* A monitor goroutine that will send no further event.
MonitorStopped(s) ==
  IF s = "route" THEN routeMon \in {"waiting", "done"} ELSE clashMon = "done"

\* A source that stops watching while the session goes on is never silent: its
\* error is in its channel, held by its forwarder, in the merged channel or
\* already received (the deferred closes of the monitors, lines 89-132, and the
\* error forwarders).
SourceDeathReported ==
  \A s \in Sources :
    MonitorStopped(s) /\ ~ctxDone =>
      s \in monErrs \cup mergedErrs \cup takenErrs \/ fwdErr[s] = "holding"

\* The merged channels are closed only when no goroutine can still send on
\* them: a send on a closed channel would panic the launcher.
NoSendAfterClose ==
  mergedClosed => \A s \in Sources : fwd[s] # "holding" /\ fwdErr[s] # "holding"

\* A cancelled context ends every goroutine of the pipeline, whatever it was
\* blocked on and whether or not anybody still reads the merged streams.
CancelEndsStreams ==
  ctxDone ~> mergedClosed /\ routeMon = "done" /\ clashMon = "done"
=============================================================================
