------------------------------- MODULE Sandboxd -------------------------------
(***************************************************************************)
(* Docker Sandbox as the launcher's `sbx` commands find it.  None of it is *)
(* under src/: its behaviour is what src/docs/docker-sandbox-backend.md    *)
(* records of the validated releases, as far as the launcher relies on it. *)
(*                                                                         *)
(* Every command but `version`, `daemon status`, `daemon stop` and         *)
(* `daemon start` starts a normal daemon when none is running; `exec` and  *)
(* `run` start a stopped sandbox; `daemon stop` stops every sandbox and    *)
(* keeps its metadata.                                                     *)
(***************************************************************************)
EXTENDS Naturals

CONSTANT MaxFaults   \* bound on what goes wrong in a behaviour

ASSUME FaultsAssumption == MaxFaults \in Nat

VARIABLES daemon, \* the sandboxd that answers: "none", "normal" or "owned"
          main,   \* the sandbox named sandbox.main_name
          owner,  \* who created it: the user before the launch, the launcher, or
                  \* somebody else during it
          others, \* another sandbox is listed
          faults, \* how often something went wrong
          pc      \* the command the launcher is at

boxVars == <<daemon, main, owner, others>>

BoxTypeOK ==
  /\ daemon \in {"none", "normal", "owned"}
  /\ main \in {"absent", "stopped", "running"}
  /\ owner \in {"none", "user", "launcher", "other"}
  /\ others \in BOOLEAN
  /\ faults \in 0 .. MaxFaults

BoxInit ==
  /\ daemon \in {"none", "normal"}
  /\ main \in {"absent", "stopped"} \cup IF daemon = "normal" THEN {"running"} ELSE {}
  /\ owner = (IF main = "absent" THEN "none" ELSE "user")
  /\ others \in BOOLEAN
  /\ faults = 0

-----------------------------------------------------------------------------
(* The commands' effects. *)

AutoStart == daemon' = IF daemon = "none" THEN "normal" ELSE daemon

\* `sbx ls`, and any command that only has to reach the daemon.
Contact == AutoStart /\ UNCHANGED <<main, owner, others>>

CreateMainBy(who) ==
  /\ main = "absent" /\ AutoStart
  /\ main' = "running" /\ owner' = who
  /\ UNCHANGED others

CreateMain == CreateMainBy("launcher")

ExecMain ==
  /\ main # "absent" /\ AutoStart
  /\ main' = "running"
  /\ UNCHANGED <<owner, others>>

Stopped == IF main = "running" THEN "stopped" ELSE main

\* Stopping or removing a sandbox that does not exist counts as done.
StopMain == AutoStart /\ main' = Stopped /\ UNCHANGED <<owner, others>>

RemoveMain ==
  /\ AutoStart
  /\ main' = "absent" /\ owner' = "none"
  /\ UNCHANGED others

\* The daemon ends and its sandboxes with it.
DaemonEnds == daemon' = "none" /\ main' = Stopped /\ UNCHANGED <<owner, others>>

-----------------------------------------------------------------------------
(* A command of the launcher succeeds, or fails: refused, timed out or killed *)
(* with its context, before or after it had its effect.                       *)

Works == UNCHANGED faults

Fault == faults < MaxFaults /\ faults' = faults + 1

Fails(Command) == Fault /\ (Command \/ UNCHANGED boxVars)

Run(from, Command, good, bad) ==
  /\ pc = from
  /\ \/ Works /\ Command /\ pc' = good
     \/ Fails(Command) /\ pc' = bad

\* `sbx create` of a name that is taken fails without a fault of its own ...
RunCreate(from, good, bad) ==
  \/ Run(from, CreateMain, good, bad)
  \/ pc = from /\ main # "absent" /\ pc' = bad /\ Contact /\ Works

\* ... as does a command in a sandbox that is gone.
RunInMain(from, good, bad) ==
  \/ Run(from, ExecMain, good, bad)
  \/ pc = from /\ main = "absent" /\ pc' = bad /\ Contact /\ Works
=============================================================================
