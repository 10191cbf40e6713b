---------------------------- MODULE AttachedProofs ----------------------------
(***************************************************************************)
(* Proofs about AttachedSession for every debounce period, number of       *)
(* checks and checker: its type invariant, that a pending event is armed,  *)
(* that success is Claude's own clean exit (SuccessIsClaudes), and that no *)
(* exit is lost on its way to the Supervisor (ExitOnItsWay).               *)
(***************************************************************************)
EXTENDS AttachedSession, SupervisorProofs

-----------------------------------------------------------------------------
(* The inductive invariant. *)

\* A clean result is Claude's wherever it is found: the channels and the
\* combiner hold it only after Claude ended cleanly, and without a supervised
\* start nothing is combined and nothing but Claude is waited for.
CleanIsClaudes ==
  /\ backendExit # "closed"
  /\ backendExit = "clean" => proc["claude"] = "clean"
  /\ supervised /\ wait["claude"] = "clean" => proc["claude"] = "clean"
  /\ combiner = "clean" => proc["claude"] = "clean"
  /\ ~supervised =>
       /\ combiner = "none" /\ ~waiter["herdr"] /\ proc["herdr"] = "none"
       /\ start \notin {"start herdr", "herdr window", "await herdr", "undo herdr"}
  /\ start \in {"start herdr", "herdr window", "await herdr", "start claude"} =>
       proc["claude"] = "none"

\* Where the result of an ended command may be.
Carried(c) ==
  waiter[c] \/ Result(c) # "open" \/ combiner \in Results \/ backendExit # "open"

\* A running command is waited for, and until the start fails the result of an
\* ended one is somewhere; the results are combined after the last window only.
ExitsCarried ==
  /\ \A c \in Commands : proc[c] = "running" => waiter[c]
  /\ start \notin {"undo herdr", "failed"} => \A c \in Commands : Ended(c) => Carried(c)
  /\ start \notin {"inspect", "attached", "undo herdr", "failed"} => combiner = "none"
  /\ combiner = "ended" => backendExit # "open"

AttachInv ==
  AttachTypeOK /\ EventsArmed /\ CleanIsClaudes /\ ExitsCarried /\ SuccessIsClaudes

-----------------------------------------------------------------------------

LEMMA InitInv == Init => AttachInv
<1> SUFFICES ASSUME Init PROVE AttachInv
  OBVIOUS
<1>1. /\ running \in [Stages -> Nat] /\ sending \in [Outcomes -> Nat]
      /\ timer \in 0 .. DebounceTicks
  <2>1. SupInit
    BY DEF Init
  <2> QED
    BY <2>1, ConstantsTyped DEF SupInit
<1>2. SupTypeOK
  BY <1>1 DEF Init, SupTypeOK, SupInit, SignalTypeOK, SignalInit, Verdicts
<1>3. AttachTypeOK
  BY <1>2 DEF Init, AttachTypeOK, Commands, Starts
<1>4. EventsArmed /\ SuccessIsClaudes /\ CleanIsClaudes
  BY DEF Init, SupInit, EventsArmed, SuccessIsClaudes, CleanIsClaudes, Commands
<1>5. ExitsCarried
  BY DEF Init, SupInit, ExitsCarried, Ended, Results, Commands
<1> QED
  BY <1>3, <1>4, <1>5 DEF AttachInv

\* A process ends: it is waited for, and it is not a Claude that ended cleanly.
LEMMA ProcessKeeps == AttachInv /\ ProcessStep => AttachInv'
<1> SUFFICES ASSUME AttachInv, ProcessStep PROVE AttachInv'
  OBVIOUS
<1>1. PICK c \in Commands, result \in Results :
        /\ proc[c] = "running" /\ proc' = [proc EXCEPT ![c] = result]
        /\ UNCHANGED <<waiter, wait, combiner, backendExit>> /\ UNCHANGED Unstarted
  BY DEF ProcessStep, ProcessEnds
<1>2. SupTypeOK' /\ EventsArmed'
  BY <1>1 DEF AttachInv, AttachTypeOK, SupTypeOK, SignalTypeOK, EventsArmed, Unstarted,
     signalVars, restVars, leaveVars, debounceVars, checkVars
<1>3. AttachTypeOK'
  BY <1>1, <1>2 DEF AttachInv, AttachTypeOK, Unstarted
<1>4. CleanIsClaudes' /\ SuccessIsClaudes'
  BY <1>1 DEF AttachInv, AttachTypeOK, CleanIsClaudes, SuccessIsClaudes, Unstarted,
     restVars, leaveVars, Commands, Results
<1>5. ExitsCarried'
  BY <1>1 DEF AttachInv, AttachTypeOK, ExitsCarried, Carried, Result, Ended, Unstarted,
     Commands, Results
<1> QED
  BY <1>2, <1>3, <1>4, <1>5 DEF AttachInv

\* A waiting goroutine sends: the result moves into its channel.
LEMMA SendKeeps ==
  ASSUME AttachInv, NEW c \in Commands, SendsResult(c), UNCHANGED Unstarted
  PROVE  AttachInv'
<1>1. /\ waiter[c] /\ proc[c] \in Results /\ waiter' = [waiter EXCEPT ![c] = FALSE]
      /\ UNCHANGED <<proc, combiner>>
  BY DEF SendsResult
<1>2. \/ supervised /\ wait' = [wait EXCEPT ![c] = proc[c]] /\ UNCHANGED backendExit
      \/ ~supervised /\ backendExit' = proc[c] /\ UNCHANGED wait
  BY DEF SendsResult, Holds
<1>3. SupTypeOK' /\ EventsArmed'
  BY <1>1, <1>2 DEF AttachInv, AttachTypeOK, SupTypeOK, SignalTypeOK, EventsArmed,
     Unstarted, signalVars, restVars, leaveVars, debounceVars, checkVars, Results
<1>4. AttachTypeOK'
  BY <1>1, <1>2, <1>3 DEF AttachInv, AttachTypeOK, Unstarted
<1>5. CleanIsClaudes' /\ SuccessIsClaudes'
  BY <1>1, <1>2 DEF AttachInv, AttachTypeOK, CleanIsClaudes, SuccessIsClaudes, Unstarted,
     restVars, leaveVars, Commands, Results
<1>6. ExitsCarried'
  BY <1>1, <1>2 DEF AttachInv, AttachTypeOK, ExitsCarried, Carried, Result, Ended,
     Unstarted, Commands, Results
<1> QED
  BY <1>3, <1>4, <1>5, <1>6 DEF AttachInv

\* The combiner takes a result, or passes the one it took to the Supervisor.
LEMMA CombineKeeps == AttachInv /\ Combine /\ UNCHANGED Unstarted => AttachInv'
<1> SUFFICES ASSUME AttachInv, Combine, UNCHANGED Unstarted PROVE AttachInv'
  OBVIOUS
<1>1. supervised
  BY DEF Combine, AttachInv, CleanIsClaudes, Results
<1>2. UNCHANGED <<proc, waiter, supervised, start>>
  BY DEF Combine, Unstarted
<1>3. \/ /\ combiner = "selecting" /\ combiner' \in Results /\ UNCHANGED backendExit
         /\ combiner' = "clean" => wait["claude"] = "clean"
         /\ wait' \in [Commands -> {"open"} \cup Results]
         /\ wait'["claude"] = "clean" => wait["claude"] = "clean"
      \/ /\ combiner \in Results /\ backendExit' = combiner /\ combiner' = "ended"
         /\ UNCHANGED wait
  <2>1. CASE combiner = "selecting"
    <3>1. PICK c \in Commands :
            /\ wait[c] # "open" /\ combiner' = Combined(c)
            /\ wait' = [wait EXCEPT ![c] = "open"]
      BY <2>1 DEF Combine, Results
    <3> QED
      BY <2>1, <3>1 DEF Combine, Combined, AttachInv, AttachTypeOK, Commands, Results
  <2>2. CASE combiner # "selecting"
    BY <2>2 DEF Combine
  <2> QED
    BY <2>1, <2>2
<1>4. SupTypeOK' /\ EventsArmed'
  BY <1>3 DEF AttachInv, AttachTypeOK, SupTypeOK, SignalTypeOK, EventsArmed, Unstarted,
     signalVars, restVars, leaveVars, debounceVars, checkVars, Results
<1>5. AttachTypeOK'
  BY <1>2, <1>3, <1>4 DEF AttachInv, AttachTypeOK, Unstarted
<1>6. SuccessIsClaudes'
  BY <1>2 DEF AttachInv, SuccessIsClaudes, Unstarted, restVars, leaveVars
<1>7. CleanIsClaudes'
  <2>1. wait'["claude"] = "clean" => wait["claude"] = "clean"
    BY <1>3
  <2>2. combiner' = "clean" => proc["claude"] = "clean"
    BY <1>1, <1>3 DEF AttachInv, CleanIsClaudes, Results
  <2>3. backendExit' # "closed" /\ (backendExit' = "clean" => proc["claude"] = "clean")
    BY <1>3 DEF AttachInv, CleanIsClaudes, Results
  <2> QED
    BY <1>1, <1>2, <2>1, <2>2, <2>3 DEF AttachInv, CleanIsClaudes
<1>8. ExitsCarried'
  BY <1>1, <1>2, <1>3 DEF AttachInv, AttachTypeOK, ExitsCarried, Carried, Result, Ended,
     Commands, Results
<1> QED
  BY <1>4, <1>5, <1>6, <1>7, <1>8 DEF AttachInv

-----------------------------------------------------------------------------
(* startAttachedTarget. *)

\* Whatever a step of the start does, the Supervisor has nothing to see of it.
LEMMA StartTyped ==
  ASSUME AttachTypeOK, EventsArmed, StartStep,
         backendExit' \in {"open", "clean", "failed", "closed"}
  PROVE  SupTypeOK' /\ EventsArmed'
BY DEF AttachTypeOK, SupTypeOK, SignalTypeOK, EventsArmed, StartStep, signalVars,
   restVars, leaveVars, debounceVars, checkVars

\* A command is started, or not.
LEMMA CommandStarts ==
  ASSUME AttachInv, StartStep, NEW c \in Commands, NEW from, NEW window, NEW bad,
         StartCommand(c, from, window, bad),
         \/ c = "herdr" /\ from = "start herdr" /\ window = "herdr window"
            /\ bad = "failed"
         \/ c = "claude" /\ from = "start claude" /\ window = "claude window"
            /\ bad = Undo
  PROVE  AttachInv'
<1>1. UNCHANGED <<wait, combiner, backendExit, supervised, killed, verdict>>
  BY DEF StartCommand, StartStep, restVars, leaveVars
<1>2. \/ /\ start' = window /\ proc' = [proc EXCEPT ![c] = "running"]
         /\ waiter' = [waiter EXCEPT ![c] = TRUE]
      \/ start' = bad /\ UNCHANGED <<proc, waiter>>
  BY DEF StartCommand
<1>3. start = from
  BY DEF StartCommand
<1>4. SupTypeOK' /\ EventsArmed'
  BY <1>1, StartTyped DEF AttachInv, AttachTypeOK, SupTypeOK
<1>5. AttachTypeOK'
  BY <1>1, <1>2, <1>4 DEF AttachInv, AttachTypeOK, Starts, Undo
<1>6. CleanIsClaudes' /\ SuccessIsClaudes'
  BY <1>1, <1>2, <1>3 DEF AttachInv, AttachTypeOK, CleanIsClaudes, SuccessIsClaudes,
     Commands, Undo
<1>7. ExitsCarried'
  BY <1>1, <1>2, <1>3 DEF AttachInv, AttachTypeOK, ExitsCarried, Carried, Result, Ended,
     Commands, Results, Undo
<1> QED
  BY <1>4, <1>5, <1>6, <1>7 DEF AttachInv

\* The window of a command ends with or without its result.
LEMMA WindowEnds ==
  ASSUME AttachInv, StartStep, NEW c \in Commands,
         NEW from, NEW next, NEW bad, Window(c, from, next, bad),
         \/ /\ c = "herdr" /\ from = "herdr window" /\ next = {"await herdr"}
            /\ bad = "failed" /\ UNCHANGED combiner
         \/ /\ c = "claude" /\ from = "claude window" /\ next = AfterClaude /\ bad = Undo
            /\ combiner' = IF supervised /\ start' = "inspect" THEN "selecting" ELSE "none"
  PROVE  AttachInv'
<1>1. /\ start = from
      /\ UNCHANGED <<proc, waiter, supervised, killed, verdict>>
  BY DEF Window, StartStep, restVars, leaveVars
<1>2. \/ start' \in next /\ UNCHANGED <<wait, backendExit>>
      \/ /\ start' = bad /\ Result(c) = "failed"
         /\ \/ supervised /\ wait' = [wait EXCEPT ![c] = "open"] /\ UNCHANGED backendExit
            \/ ~supervised /\ backendExit' = "open" /\ UNCHANGED wait
  BY DEF Window, EarlyExit, Holds
<1>3. combiner = "none"
  BY <1>1 DEF AttachInv, ExitsCarried
<1>4. combiner' \in {"none", "selecting"} /\ (~supervised => combiner' = "none")
  BY <1>3
<1>5. start' \in Starts
  BY <1>2 DEF Starts, AfterClaude, Undo
<1>6. SupTypeOK' /\ EventsArmed'
  BY <1>2, StartTyped DEF AttachInv, AttachTypeOK, SupTypeOK
<1>7. AttachTypeOK'
  BY <1>1, <1>2, <1>4, <1>5, <1>6 DEF AttachInv, AttachTypeOK
<1>8. CleanIsClaudes' /\ SuccessIsClaudes'
  <2>1. ~supervised => /\ c = "claude"
                       /\ start' \in {"inspect", "attached", "failed"}
    BY <1>1, <1>2 DEF AttachInv, CleanIsClaudes, AfterClaude, Undo
  <2>2. start' \in {"start herdr", "herdr window", "await herdr", "start claude"} =>
          start = "herdr window"
    BY <1>1, <1>2 DEF AfterClaude, Undo
  <2> QED
    BY <1>1, <1>2, <1>3, <1>4, <2>1, <2>2 DEF AttachInv, AttachTypeOK, CleanIsClaudes,
       SuccessIsClaudes, Commands
<1>9. ExitsCarried'
  BY <1>1, <1>2, <1>3, <1>4 DEF AttachInv, AttachTypeOK, ExitsCarried, Carried, Result,
     Ended, Commands, Results, Undo, AfterClaude
<1> QED
  BY <1>6, <1>7, <1>8, <1>9 DEF AttachInv

LEMMA StartKeeps == AttachInv /\ StartStep => AttachInv'
<1> SUFFICES ASSUME AttachInv, StartStep PROVE AttachInv'
  OBVIOUS
<1>1. CASE StartHerdr
  BY <1>1, CommandStarts, WindowEnds DEF StartHerdr, Commands
<1>2. CASE StartClaude
  BY <1>2, CommandStarts, WindowEnds DEF StartClaude, Commands
<1>3. CASE AwaitHerdr \/ UndoHerdr \/ Inspected
  <2>1. UNCHANGED <<proc, waiter, wait, combiner, backendExit, supervised, killed, verdict>>
    BY <1>3 DEF AwaitHerdr, UndoHerdr, Inspected, commandVars, StartStep, restVars,
       leaveVars
  <2>2. /\ start' \in Starts
        /\ \/ start = "await herdr" /\ start' \in {"start claude", "undo herdr"}
           \/ start = "undo herdr" /\ start' = "failed"
           \/ start = "inspect" /\ start' \in {"attached", "failed"}
    BY <1>3 DEF AwaitHerdr, UndoHerdr, Inspected, Starts
  <2>3. SupTypeOK' /\ EventsArmed'
    BY <2>1, StartTyped DEF AttachInv, AttachTypeOK, SupTypeOK
  <2>4. AttachTypeOK'
    BY <2>1, <2>2, <2>3 DEF AttachInv, AttachTypeOK
  <2>5. CleanIsClaudes' /\ SuccessIsClaudes'
    BY <2>1, <2>2 DEF AttachInv, CleanIsClaudes, SuccessIsClaudes
  <2>6. ExitsCarried'
    BY <2>1, <2>2 DEF AttachInv, ExitsCarried, Carried, Result, Ended
  <2> QED
    BY <2>3, <2>4, <2>5, <2>6 DEF AttachInv
<1> QED
  BY <1>1, <1>2, <1>3 DEF StartStep

-----------------------------------------------------------------------------
(* The Supervisor beside them. *)

\* Run only reads the result: it takes it for a success when nothing failed, and
\* a channel closed without a result would pass for one as well.
LEMMA SuperviseKeeps == AttachInv /\ Supervise => AttachInv'
<1> SUFFICES ASSUME AttachInv, Supervise PROVE AttachInv'
  OBVIOUS
<1>1. UNCHANGED signalVars /\ UNCHANGED attachVars /\ (SupStep \/ CleanupEnds)
  BY DEF Supervise, Quiet
<1>2. SupTypeOK' /\ EventsArmed'
  BY <1>1, SupStepTyped, ArmedStep DEF AttachInv, AttachTypeOK
<1>3. UNCHANGED backendExit
  <2>1. UNCHANGED inputVars => UNCHANGED backendExit
    BY DEF inputVars
  <2>2. OnSignal \/ OnBackendExit \/ OnOutcome \/ AnySourceError => UNCHANGED inputVars
    BY DEF OnSignal, OnBackendExit, OnOutcome, AnySourceError, OnSourceError, Leave
  <2>3. EventArrives \/ OnDebounce \/ Tick \/ AnyCheckAdvances \/ AnyCheckReturns
          \/ OutcomeSent \/ CleanupEnds => UNCHANGED inputVars
    BY DEF EventArrives, OnEvent, OnDebounce, Tick, AnyCheckAdvances, AnyCheckReturns,
       OutcomeSent, CleanupEnds, CleanupReturns
  <2>4. OnEventsClosed \/ OnErrorsClosed => UNCHANGED backendExit
    BY DEF OnEventsClosed, OnErrorsClosed
  <2> QED
    BY <1>1, <2>1, <2>2, <2>3, <2>4 DEF SupStep
<1>4. verdict' = "backend ok" => verdict = "backend ok" \/ backendExit = "clean"
  <2>1. CASE OnBackendExit
    BY <2>1 DEF OnBackendExit, Leave, AttachInv, AttachTypeOK, SupTypeOK, CleanIsClaudes
  <2>2. OnSignal \/ OnOutcome \/ AnySourceError => verdict' # "backend ok" \/ verdict' = verdict
    BY DEF OnSignal, OnOutcome, AnySourceError, OnSourceError, SourceVerdicts, Leave,
       leaveVars
  <2>3. EventArrives \/ OnDebounce \/ Tick \/ AnyCheckAdvances \/ AnyCheckReturns
          \/ OutcomeSent \/ CleanupEnds \/ OnEventsClosed \/ OnErrorsClosed =>
            UNCHANGED verdict
    BY DEF EventArrives, OnEvent, OnDebounce, Tick, AnyCheckAdvances, AnyCheckReturns,
       OutcomeSent, CleanupEnds, CleanupReturns, OnEventsClosed, OnErrorsClosed,
       leaveVars
  <2> QED
    BY <1>1, <2>1, <2>2, <2>3 DEF SupStep
<1>5. AttachTypeOK' /\ CleanIsClaudes' /\ SuccessIsClaudes'
  BY <1>1, <1>2, <1>3, <1>4 DEF AttachInv, AttachTypeOK, CleanIsClaudes,
     SuccessIsClaudes, attachVars
<1>6. ExitsCarried'
  BY <1>1, <1>3 DEF AttachInv, ExitsCarried, Carried, Result, Ended, attachVars
<1> QED
  BY <1>2, <1>5, <1>6 DEF AttachInv

\* Signals, the kill and stuttering leave the results where they are.
LEMMA RestKeeps ==
  AttachInv /\ (StopMainCommand \/ SignalStep \/ UNCHANGED sessionVars) => AttachInv'
<1> SUFFICES ASSUME AttachInv, StopMainCommand \/ SignalStep \/ UNCHANGED sessionVars
             PROVE AttachInv'
  OBVIOUS
<1>1. /\ UNCHANGED <<supVars, supervised, start, proc, waiter, wait, combiner>>
      /\ killed' \in BOOLEAN
  BY DEF StopMainCommand, SignalStep, sessionVars, attachVars, AttachInv, AttachTypeOK
<1>2. SignalTypeOK'
  BY DEF StopMainCommand, SignalStep, SignalArrives, CancelContext, SignalTypeOK,
     signalVars, sessionVars, AttachInv, AttachTypeOK, SupTypeOK
<1>3. UNCHANGED <<verdict, backendExit, debounceArmed, pendingEvent>>
  BY <1>1 DEF supVars, leaveVars, inputVars, debounceVars
<1>4. SupTypeOK' /\ EventsArmed'
  BY <1>1, <1>2 DEF AttachInv, AttachTypeOK, SupTypeOK, EventsArmed, supVars, leaveVars,
     debounceVars, checkVars, inputVars
<1>5. AttachTypeOK' /\ CleanIsClaudes' /\ SuccessIsClaudes'
  BY <1>1, <1>3, <1>4 DEF AttachInv, AttachTypeOK, CleanIsClaudes, SuccessIsClaudes
<1>6. ExitsCarried'
  BY <1>1, <1>3 DEF AttachInv, ExitsCarried, Carried, Result, Ended
<1> QED
  BY <1>4, <1>5, <1>6 DEF AttachInv

LEMMA StepInv == AttachInv /\ [Next]_sessionVars => AttachInv'
<1> SUFFICES ASSUME AttachInv, [Next]_sessionVars PROVE AttachInv'
  OBVIOUS
<1>1. CASE WaiterStep
  BY <1>1, SendKeeps, CombineKeeps DEF WaiterStep
<1> QED
  BY <1>1, ProcessKeeps, StartKeeps, SuperviseKeeps, RestKeeps DEF Next

LEMMA AlwaysInv == Spec => []AttachInv
<1> QED
  BY InitInv, StepInv, PTL DEF Spec

\* The variables of the attached command and of the Supervisor that waits for it
\* keep their types, for every debounce period, checker and number of checks.
THEOREM AttachTypeCorrect == Spec => []AttachTypeOK
<1>1. AttachInv => AttachTypeOK
  BY DEF AttachInv
<1> QED
  BY <1>1, AlwaysInv, PTL

\* While Run loops, an event that waits for its check has a timer to start it
\* (PendingEventArmed, of the timer that is stopped, drained and reset).
THEOREM PendingArmed == Spec => []PendingEventArmed
<1>1. AttachInv => PendingEventArmed
  BY DEF AttachInv, EventsArmed, PendingEventArmed
<1> QED
  BY <1>1, AlwaysInv, PTL

\* The launcher reports success only when Claude itself ended cleanly
\* (SuccessIsClaudes, of combineHerdrAndClaudeWait and stopMainCommand).
THEOREM OnlyClaudeSucceeds == Spec => []SuccessIsClaudes
<1>1. AttachInv => SuccessIsClaudes
  BY DEF AttachInv
<1> QED
  BY <1>1, AlwaysInv, PTL

\* The result of a command that ended is with a goroutine or in a channel that
\* will be read, however early it came (ExitOnItsWay, of the goroutine of
\* startAttachedCommand and its 100 ms window).
THEOREM NoExitLost == Spec => []ExitOnItsWay
<1>1. AttachInv => ExitOnItsWay
  BY DEF AttachInv, ExitsCarried, Carried, ExitOnItsWay
<1> QED
  BY <1>1, AlwaysInv, PTL
==============================================================================
