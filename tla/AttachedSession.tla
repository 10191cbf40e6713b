---------------------------- MODULE AttachedSession ----------------------------
(***************************************************************************)
(* The attached command and the Supervisor that waits for it: the start of *)
(* Claude, after the sandbox-local Herdr server or without one, the        *)
(* goroutines that wait for the two processes, the channels their results  *)
(* pass through, and stopMainCommand, which kills them.  The events and    *)
(* the checks beside it are any.                                           *)
(*                                                                         *)
(* A process that ends within 100 ms of its start is told apart from one   *)
(* that ends later; which of the two a process is, is a race.              *)
(***************************************************************************)
EXTENDS Supervisor

Commands == {"herdr", "claude"}
Results == {"clean", "failed"}
Starts == {"start herdr", "herdr window", "await herdr", "undo herdr", "start claude",
           "claude window", "inspect", "attached", "failed"}

VARIABLES supervised, \* the Herdr server is started first
          start,      \* where startAttachedTarget is
          proc,       \* the process of each command
          waiter,     \* the goroutine of startAttachedCommand waits for it
          wait,       \* its channel, which holds one result, or "open"
          combiner,   \* the goroutine of combineHerdrAndClaudeWait
          killed      \* mainCtx is cancelled

commandVars == <<proc, waiter, wait, combiner, backendExit>>
attachVars == <<supervised, start, proc, waiter, wait, combiner, killed>>
sessionVars == <<signalVars, supVars, attachVars>>

\* What the Supervisor keeps besides the channel it waits on.
restVars == <<leaveVars, debounceVars, checkVars, eventsOpen, errorsOpen>>

AttachTypeOK ==
  /\ SupTypeOK
  /\ supervised \in BOOLEAN /\ start \in Starts /\ killed \in BOOLEAN
  /\ proc \in [Commands -> {"none", "running"} \cup Results]
  /\ waiter \in [Commands -> BOOLEAN]
  /\ wait \in [Commands -> {"open"} \cup Results]
  /\ combiner \in {"none", "selecting", "ended"} \cup Results

Init ==
  /\ SignalInit /\ SupInit
  /\ supervised \in BOOLEAN
  /\ start = (IF supervised THEN "start herdr" ELSE "start claude")
  /\ proc = [c \in Commands |-> "none"]
  /\ waiter = [c \in Commands |-> FALSE] /\ wait = [c \in Commands |-> "open"]
  /\ combiner = "none" /\ killed = FALSE

-----------------------------------------------------------------------------
(* The processes, and who waits for them. *)

\* The channel of a command; where nothing is combined it is BackendExit.
Result(c) == IF supervised THEN wait[c] ELSE backendExit

Holds(c, result) ==
  IF supervised
  THEN wait' = [wait EXCEPT ![c] = result] /\ UNCHANGED backendExit
  ELSE backendExit' = result /\ UNCHANGED wait

\* By itself, with Ctrl+C, or killed with its context.
ProcessEnds(c) ==
  /\ proc[c] = "running"
  /\ \E result \in Results : proc' = [proc EXCEPT ![c] = result]
  /\ UNCHANGED <<waiter, wait, combiner, backendExit>>

\* Seeded bug: the channel has no buffer, so that somebody has to receive.
SendsUnbuffered(c) ==
  /\ waiter[c] /\ proc[c] \in Results
  /\ combiner = "selecting" \/ (start = "attached" /\ sup = "select")
  /\ waiter' = [waiter EXCEPT ![c] = FALSE]
  /\ Holds(c, proc[c])
  /\ UNCHANGED <<proc, combiner>>

SendsResult(c) ==
  /\ waiter[c] /\ proc[c] \in Results
  /\ waiter' = [waiter EXCEPT ![c] = FALSE]
  /\ Holds(c, proc[c])
  /\ UNCHANGED <<proc, combiner>>

\* Seeded bug: the server's result is passed on as it is.
PassedOn(c) == wait[c]

\* combineHerdrAndClaudeWait: without its server Claude has failed.
Combined(c) == IF c = "herdr" THEN "failed" ELSE wait[c]

\* The select takes either result, and the other is left in its channel.
Combine ==
  \/ /\ combiner = "selecting"
     /\ \E c \in Commands :
          /\ wait[c] # "open"
          /\ combiner' = Combined(c)
          /\ wait' = [wait EXCEPT ![c] = "open"]
     /\ UNCHANGED <<proc, waiter, backendExit>>
  \/ /\ combiner \in Results
     /\ backendExit' = combiner /\ combiner' = "ended"
     /\ UNCHANGED <<proc, waiter, wait>>

Unstarted == <<signalVars, restVars, supervised, start, killed>>

ProcessStep == \E c \in Commands : ProcessEnds(c) /\ UNCHANGED Unstarted
WaiterStep == (Combine \/ \E c \in Commands : SendsResult(c)) /\ UNCHANGED Unstarted

-----------------------------------------------------------------------------
(* startAttachedTarget. *)

Undo == IF supervised THEN "undo herdr" ELSE "failed"

\* AttachMain and AttachHerdrTUI return the channel at once; after
\* StartMainAttached checkMainWorkspaceVisibility follows.
AfterClaude == IF supervised THEN {"inspect"} ELSE {"inspect", "attached"}

\* The command is started under mainCtx.
StartCommand(c, from, window, bad) ==
  /\ start = from
  /\ \/ /\ start' = window
        /\ proc' = [proc EXCEPT ![c] = "running"]
        /\ waiter' = [waiter EXCEPT ![c] = TRUE]
     \/ start' = bad /\ UNCHANGED <<proc, waiter>>
  /\ UNCHANGED <<wait, combiner, backendExit>>

\* Seeded bug: the result that was received is not put back.
EarlyExitLost(c, next, bad) ==
  /\ Result(c) # "open" /\ Holds(c, "open")
  /\ start' \in IF Result(c) = "clean" THEN next ELSE {bad}

\* A result within the window: a failure is the start's error, a success is put
\* into a new channel.
EarlyExit(c, next, bad) ==
  \/ Result(c) = "clean" /\ start' \in next /\ UNCHANGED <<wait, backendExit>>
  \/ Result(c) = "failed" /\ start' = bad /\ Holds(c, "open")

\* The select between the result and the 100 ms.
Window(c, from, next, bad) ==
  /\ start = from
  /\ EarlyExit(c, next, bad) \/ (start' \in next /\ UNCHANGED <<wait, backendExit>>)
  /\ UNCHANGED <<proc, waiter>>

StartHerdr ==
  \/ StartCommand("herdr", "start herdr", "herdr window", "failed")
  \/ Window("herdr", "herdr window", {"await herdr"}, "failed") /\ UNCHANGED combiner

\* waitSandboxLocalHerdrReady asks for the server's status until it runs, a
\* command fails or the time-out has passed.
AwaitHerdr ==
  /\ start = "await herdr" /\ start' \in {"start claude", "undo herdr"}
  /\ UNCHANGED commandVars

\* stopSandboxLocalHerdr: what becomes of `herdr server stop` is ignored.
UndoHerdr == start = "undo herdr" /\ start' = "failed" /\ UNCHANGED commandVars

StartClaude ==
  \/ StartCommand("claude", "start claude", "claude window", Undo)
  \/ /\ Window("claude", "claude window", AfterClaude, Undo)
     /\ combiner' = IF supervised /\ start' = "inspect" THEN "selecting" ELSE "none"

Inspected == start = "inspect" /\ start' \in {"attached", "failed"} /\ UNCHANGED commandVars

StartStep ==
  /\ StartHerdr \/ AwaitHerdr \/ UndoHerdr \/ StartClaude \/ Inspected
  /\ UNCHANGED <<signalVars, restVars, supervised, killed>>

\* stopMainCommand, first thing after a failed start and first in the cleanup.
StopMainCommand ==
  /\ start = "failed" \/ sup = "cleanup"
  /\ ~killed /\ killed' = TRUE
  /\ UNCHANGED <<signalVars, supVars, supervised, start, proc, waiter, wait, combiner>>

-----------------------------------------------------------------------------
(* The Supervisor, once the target is attached. *)

Quiet == start = "attached" /\ UNCHANGED <<signalVars, attachVars>>

Supervise == (SupStep \/ (killed /\ CleanupEnds)) /\ Quiet

SignalStep ==
  /\ start = "attached"
  /\ SignalArrives \/ CancelContext
  /\ UNCHANGED <<supVars, attachVars>>

Next ==
  ProcessStep \/ WaiterStep \/ StartStep \/ StopMainCommand \/ Supervise \/ SignalStep

\* The goroutines run, a started command's window and the set-up's commands
\* pass, a killed process ends, and Go's select takes a case that stays ready.
\* Nothing makes a process end by itself, an event or a signal happen.
Fairness ==
  /\ WF_sessionVars(WaiterStep) /\ WF_sessionVars(StartStep) /\ WF_sessionVars(StopMainCommand)
  /\ WF_sessionVars(killed /\ ProcessStep)
  /\ WF_sessionVars(AnyCheckReturns /\ Quiet) /\ WF_sessionVars(OutcomeSent /\ Quiet)
  /\ WF_sessionVars(OnOutcome /\ Quiet) /\ WF_sessionVars(OnBackendExit /\ Quiet)
  /\ WF_sessionVars(killed /\ CleanupEnds /\ Quiet)

Spec == Init /\ [][Next]_sessionVars /\ Fairness

-----------------------------------------------------------------------------
(* What is promised of the attached command. *)

Ended(c) == proc[c] \in Results

\* The launcher reports success only when Claude ended cleanly: neither the end
\* of the Herdr server, whatever its status, nor a process killed by the cleanup
\* passes for it.
SuccessIsClaudes == verdict = "backend ok" => proc["claude"] = "clean"

\* A process that ended, however early, is never lost on the Supervisor: its
\* result is with a waiting goroutine or in a channel that will be read.
ExitOnItsWay ==
  start \in {"inspect", "attached"} /\ sup = "select" =>
    \A c \in Commands : Ended(c) =>
      \/ waiter[c] \/ Result(c) # "open"
      \/ combiner \in Results \/ backendExit # "open"

\* The end of Claude or of its server ends the session, with its own cleanup.
ExitEndsSession ==
  start = "attached" /\ (\E c \in Commands : Ended(c)) ~> sup = "returned"

\* After a failed start or the cleanup's kill, no process is left running and
\* no goroutine blocked on a result that nobody takes.
CommandsEnd ==
  killed ~> \A c \in Commands : proc[c] # "running" /\ ~waiter[c]
=============================================================================
