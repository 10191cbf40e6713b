--------------------------- MODULE SupervisorProofs ---------------------------
(***************************************************************************)
(* What every composition with the Supervisor rests on: each step of Run   *)
(* keeps the Supervisor's variables typed and a pending event armed,       *)
(* whatever the checks do and wherever the events come from.               *)
(***************************************************************************)
EXTENDS Supervisor, TLAPS

-----------------------------------------------------------------------------
(* The constants, and counters of goroutines. *)

LEMMA ConstantsTyped ==
  /\ \A s \in EventSources : FirstStage[s] \in Stages
  /\ DebounceTicks \in Nat
BY SupervisorAssumption DEF SupervisorAssumption

\* Starting, moving and ending goroutines keeps every count a natural number.
LEMMA RunningTyped ==
  ASSUME running \in [Stages -> Nat], NEW x \in Stages, NEW y \in Stages
  PROVE  /\ Inc(running, x) \in [Stages -> Nat]
         /\ running[x] > 0 => Dec(running, x) \in [Stages -> Nat]
         /\ running[x] > 0 => Inc(Dec(running, x), y) \in [Stages -> Nat]
<1>1. running[x] > 0 => Dec(running, x) \in [Stages -> Nat]
  BY DEF Dec
<1>2. \A g \in [Stages -> Nat], z \in Stages : Inc(g, z) \in [Stages -> Nat]
  BY DEF Inc
<1> QED
  BY <1>1, <1>2

LEMMA SendingTyped ==
  ASSUME sending \in [Outcomes -> Nat], NEW o \in Outcomes
  PROVE  /\ Inc(sending, o) \in [Outcomes -> Nat]
         /\ sending[o] > 0 => Dec(sending, o) \in [Outcomes -> Nat]
BY DEF Inc, Dec

-----------------------------------------------------------------------------
(* Type correctness. *)

\* A step of the Supervisor keeps its variables typed.
LEMMA LeaveTyped ==
  ASSUME SupTypeOK, NEW why \in Verdicts, Leave(why), UNCHANGED signalVars,
         running' \in [Stages -> Nat], sending' \in [Outcomes -> Nat],
         checks' \in Outcomes \cup {"empty"}
  PROVE  SupTypeOK'
BY DEF Leave, CancelChecks, SupTypeOK, SignalTypeOK, signalVars, debounceVars,
       inputVars

LEMMA SupTyped ==
  ASSUME SupTypeOK, UNCHANGED signalVars
  PROVE  /\ OnSignal \/ OnBackendExit \/ OnOutcome => SupTypeOK'
         /\ AnySourceError => SupTypeOK'
         /\ \A why \in SourceVerdicts : OnSourceError(why) => AnySourceError
         /\ OnDebounce => SupTypeOK'
         /\ OutcomeSent => SupTypeOK'
         /\ Tick \/ CleanupEnds => SupTypeOK'
         /\ OnEventsClosed \/ OnErrorsClosed \/ BackendExits => SupTypeOK'
         /\ \A s \in EventSources : OnEvent(s) => SupTypeOK'
<1>1. ASSUME OnSignal \/ OnBackendExit \/ AnySourceError PROVE SupTypeOK'
  <2>1. UNCHANGED checkVars
    BY <1>1 DEF OnSignal, OnBackendExit, AnySourceError, OnSourceError
  <2>2. \E why \in Verdicts : Leave(why)
    BY <1>1 DEF OnSignal, OnBackendExit, AnySourceError, OnSourceError, SourceVerdicts,
       Verdicts
  <2>3. /\ running' \in [Stages -> Nat] /\ sending' \in [Outcomes -> Nat]
        /\ checks' \in Outcomes \cup {"empty"}
    BY <2>1 DEF SupTypeOK, checkVars
  <2> QED
    BY <2>2, <2>3, LeaveTyped
<1>2. ASSUME OnOutcome PROVE SupTypeOK'
  <2>1. /\ running' \in [Stages -> Nat] /\ sending' \in [Outcomes -> Nat]
        /\ checks' \in Outcomes \cup {"empty"}
    BY <1>2 DEF SupTypeOK, OnOutcome
  <2>2. CASE Leave("check failed")
    BY <2>1, <2>2, LeaveTyped DEF Verdicts
  <2>3. CASE UNCHANGED <<leaveVars, debounceVars, inputVars>>
    BY <2>1, <2>3 DEF SupTypeOK, SignalTypeOK, signalVars, leaveVars, debounceVars,
       inputVars
  <2> QED
    BY <1>2, <2>2, <2>3 DEF OnOutcome
<1>3. ASSUME OnDebounce PROVE SupTypeOK'
  <2>1. /\ running' \in [Stages -> Nat]
        /\ pendingEvent' \in EventSources \cup {NoEvent}
    BY <1>3, RunningTyped, ConstantsTyped DEF OnDebounce, StartPendingCheck,
       StartCheck, SupTypeOK
  <2> QED
    BY <1>3, <2>1 DEF OnDebounce, SupTypeOK, SignalTypeOK, signalVars, leaveVars,
       inputVars
<1>4. ASSUME OutcomeSent PROVE SupTypeOK'
  <2>1. PICK o \in Outcomes : SendOutcome(o) \/ DropOutcome(o)
    BY <1>4 DEF OutcomeSent
  <2>2. /\ running' \in [Stages -> Nat] /\ sending' \in [Outcomes -> Nat]
        /\ checks' \in Outcomes \cup {"empty"}
    BY <2>1, SendingTyped DEF SendOutcome, DropOutcome, SupTypeOK
  <2> QED
    BY <1>4, <2>2 DEF OutcomeSent, SupTypeOK, SignalTypeOK, signalVars, leaveVars,
       debounceVars, inputVars
<1>5. ASSUME Tick PROVE SupTypeOK'
  BY <1>5, ConstantsTyped DEF Tick, SupTypeOK, SignalTypeOK, signalVars, leaveVars,
     checkVars, inputVars
<1>6. ASSUME CleanupEnds PROVE SupTypeOK'
  BY <1>6 DEF CleanupEnds, CleanupReturns, SupTypeOK, SignalTypeOK, signalVars,
     debounceVars, checkVars, inputVars
<1>7. ASSUME OnEventsClosed \/ OnErrorsClosed \/ BackendExits PROVE SupTypeOK'
  BY <1>7 DEF OnEventsClosed, OnErrorsClosed, BackendExits, SupTypeOK, SignalTypeOK,
     signalVars, leaveVars, debounceVars, checkVars
<1>8. ASSUME NEW s \in EventSources, OnEvent(s) PROVE SupTypeOK'
  <2>1. CASE DebounceTicks = 0
    <3>1. running' \in [Stages -> Nat]
      BY <1>8, <2>1, RunningTyped, ConstantsTyped DEF OnEvent, ScheduleCheck,
         StartCheck, SupTypeOK
    <3> QED
      BY <1>8, <2>1, <3>1 DEF OnEvent, ScheduleCheck, SupTypeOK, SignalTypeOK,
         signalVars, leaveVars, debounceVars, inputVars
  <2>2. CASE DebounceTicks # 0
    BY <1>8, <2>2, ConstantsTyped DEF OnEvent, ScheduleCheck, ArmDebounce, SupTypeOK,
       SignalTypeOK, signalVars, leaveVars, checkVars, inputVars
  <2> QED
    BY <2>1, <2>2
<1> QED
  BY <1>1, <1>2, <1>3, <1>4, <1>5, <1>6, <1>7, <1>8 DEF AnySourceError

\* A checker that is not said keeps the counters, and the whole select loop with
\* it keeps every variable, typed.
LEMMA SupStepTyped ==
  ASSUME SupTypeOK, UNCHANGED signalVars, SupStep \/ CleanupEnds
  PROVE  SupTypeOK'
<1>0. running \in [Stages -> Nat] /\ sending \in [Outcomes -> Nat]
  BY DEF SupTypeOK
<1>1. CASE AnyCheckAdvances
  <2>1. PICK s \in Stages, t \in Stages : CheckAdvances(s, t)
    BY <1>1 DEF AnyCheckAdvances
  <2>2. running' \in [Stages -> Nat] /\ UNCHANGED <<sending, checks>>
    BY <1>0, <2>1, RunningTyped DEF CheckAdvances
  <2> QED
    BY <1>1, <2>2 DEF AnyCheckAdvances, SupTypeOK, SignalTypeOK, signalVars, leaveVars,
       debounceVars, inputVars
<1>2. CASE AnyCheckReturns
  <2>1. PICK s \in Stages, o \in Outcomes : CheckReturns(s, o)
    BY <1>2 DEF AnyCheckReturns
  <2>2. /\ running' \in [Stages -> Nat] /\ sending' \in [Outcomes -> Nat]
        /\ UNCHANGED checks
    BY <1>0, <2>1, RunningTyped, SendingTyped DEF CheckReturns
  <2> QED
    BY <1>2, <2>2 DEF AnyCheckReturns, SupTypeOK, SignalTypeOK, signalVars, leaveVars,
       debounceVars, inputVars
<1>3. CASE EventArrives
  BY <1>3, SupTyped DEF EventArrives
<1> QED
  BY <1>1, <1>2, <1>3, SupTyped DEF SupStep

-----------------------------------------------------------------------------
(* Debouncing. *)

\* PendingEventArmed, wherever Run is.
EventsArmed == pendingEvent # NoEvent => debounceArmed

\* No step of Run leaves an event waiting without its timer.
LEMMA ArmedStep ==
  ASSUME EventsArmed, SupStep \/ CleanupEnds
  PROVE  EventsArmed'
<1>1. CASE UNCHANGED debounceVars
  BY <1>1 DEF EventsArmed, debounceVars
<1>2. CASE EventArrives
  BY <1>1, <1>2 DEF EventArrives, OnEvent, ScheduleCheck, ArmDebounce, EventsArmed
<1>3. CASE OnDebounce
  BY <1>3 DEF OnDebounce, StartPendingCheck, EventsArmed
<1>4. CASE Tick
  BY <1>4 DEF Tick, EventsArmed
<1>5. OnSignal \/ OnBackendExit \/ OnOutcome \/ AnySourceError => UNCHANGED debounceVars
  BY DEF OnSignal, OnBackendExit, OnOutcome, AnySourceError, OnSourceError, Leave
<1>6. OnEventsClosed \/ OnErrorsClosed \/ AnyCheckAdvances \/ AnyCheckReturns
        \/ OutcomeSent \/ CleanupEnds => UNCHANGED debounceVars
  BY DEF OnEventsClosed, OnErrorsClosed, AnyCheckAdvances, AnyCheckReturns,
     OutcomeSent, CleanupEnds, CleanupReturns
<1> QED
  BY <1>1, <1>2, <1>3, <1>4, <1>5, <1>6 DEF SupStep
=============================================================================
