----------------------------- MODULE MainSandbox -----------------------------
(***************************************************************************)
(* backend.DockerSandbox: what a launch does to the probe and to the main  *)
(* sandbox, one action per `sbx` command or group of commands that only    *)
(* inspect.  A method's error paths differ in what is cleaned up, so they  *)
(* leave to different labels: "abort", and "abort start" for an error of   *)
(* the start that is not a preserveExistingMainError.                      *)
(***************************************************************************)
EXTENDS Sandboxd

CONSTANT Configs   \* the configurations and targets considered

Modes == {"host-inherited", "dedicated-gateway"}
Targets == {"direct", "herdr", "doctor"}

ASSUME ConfigsAssumption ==
  Configs \subseteq [mode : Modes, target : Targets,
                     supported : BOOLEAN,   \* the dedicated capability check passes
                     herdr : BOOLEAN,       \* supervision.mode is sandbox-local-herdr
                     stopMain : BOOLEAN, removeMain : BOOLEAN, removeProbe : BOOLEAN]

VARIABLES cfg,      \* the configuration and the target of this launch
          probe,    \* the probe sandbox exists
          found,    \* main as inspectMainSandbox saw it last
          created,  \* the launcher created main, as far as it knows
          attached, \* the attached command runs
          failed    \* the launch is to report an error

backendVars == <<cfg, probe, found, created, attached, failed>>

Dedicated == cfg.mode = "dedicated-gateway"
PreflightRequired == cfg.target # "direct" \/ Dedicated
Supervised == cfg.herdr /\ ~PreflightRequired   \* startSandboxLocalHerdrAttached

BackendTypeOK ==
  /\ cfg \in Configs
  /\ found \in {"none", "absent", "stopped", "running"}
  /\ probe \in BOOLEAN /\ created \in BOOLEAN
  /\ attached \in BOOLEAN /\ failed \in BOOLEAN

BackendInit ==
  /\ cfg \in Configs
  /\ found = "none"
  /\ probe \in BOOLEAN /\ created = FALSE /\ attached = FALSE /\ failed = FALSE

CheckAvailability ==
  /\ Run("availability", Contact,
         IF PreflightRequired THEN "inspect main" ELSE "create probe", "abort")
  /\ UNCHANGED backendVars

-----------------------------------------------------------------------------
(* Probe, from "create probe" to "start" or "abort". *)

\* createProbe: a probe that exists is cleared once, if it may be.
CreateProbe ==
  /\ \/ /\ pc \in {"create probe", "recreate probe"} /\ ~probe
        /\ \/ Works /\ Contact /\ probe' = TRUE /\ pc' = "inspect probe"
           \/ Fails(Contact) /\ probe' \in BOOLEAN /\ pc' = "probe failed"
     \/ /\ pc \in {"create probe", "recreate probe"} /\ probe
        /\ Works /\ Contact /\ UNCHANGED probe
        /\ pc' = IF pc = "create probe" /\ cfg.removeProbe THEN "clear probe"
                                                           ELSE "probe failed"
  /\ UNCHANGED <<cfg, found, created, attached, failed>>

\* Seeded bug: a failed removal is not reported.
CleanupProbeQuietly(from, good, bad) ==
  /\ pc = from /\ pc' = good
  /\ \/ ~cfg.removeProbe /\ Works /\ UNCHANGED <<boxVars, probe>>
     \/ cfg.removeProbe /\ Works /\ Contact /\ probe' = FALSE
     \/ cfg.removeProbe /\ Fails(Contact) /\ probe' \in {probe, FALSE}
  /\ UNCHANGED <<cfg, found, created, attached>>

\* cleanupProbe: stop and rm --force.
CleanupProbe(from, good, bad) ==
  /\ pc = from
  /\ \/ ~cfg.removeProbe /\ Works /\ UNCHANGED <<boxVars, probe>> /\ pc' = good
     \/ cfg.removeProbe /\ Works /\ Contact /\ probe' = FALSE /\ pc' = good
     \/ cfg.removeProbe /\ Fails(Contact) /\ probe' \in {probe, FALSE} /\ pc' = bad
  /\ UNCHANGED <<cfg, found, created, attached>>

ClearProbe ==
  CleanupProbe("clear probe", "recreate probe", "probe failed") /\ UNCHANGED failed

\* The inspection commands, the egress comparison and ValidateInspection.
InspectProbe ==
  Run("inspect probe", Contact, "finish probe", "probe failed") /\ UNCHANGED backendVars

ProbeFailed ==
  /\ pc = "probe failed" /\ pc' = "finish probe" /\ failed' = TRUE
  /\ Works /\ UNCHANGED <<boxVars, cfg, probe, found, created, attached>>

FinishProbe ==
  /\ CleanupProbe("finish probe", IF failed THEN "abort" ELSE "start", "abort")
  /\ UNCHANGED failed

ProbeStep == CreateProbe \/ ClearProbe \/ InspectProbe \/ ProbeFailed \/ FinishProbe

-----------------------------------------------------------------------------
\* inspectMainSandbox, and where its caller goes from each status.
Inspect(from, running, stopped, absent, bad) ==
  /\ pc = from
  /\ \/ /\ Works /\ Contact /\ found' = main
        /\ pc' = CASE main = "running" -> running
                   [] main = "stopped" -> stopped
                   [] main = "absent"  -> absent
     \/ Fails(Contact) /\ pc' = bad /\ UNCHANGED found

(* PreflightMainSandbox, from "inspect main" to "validate" or "abort". *)

\* A main that exists has to be running; one that does not is created, and
\* counts as created by the launcher whatever becomes of the attempt.
PreflightInspects ==
  /\ Inspect("inspect main", "preflight main", "abort", "create main", "abort")
  /\ created' = (created \/ pc' = "create main")
  /\ UNCHANGED <<cfg, probe, attached, failed>>

PreflightStep ==
  \/ PreflightInspects
  \/ /\ \/ RunCreate("create main", "preflight main", "abort")
        \/ RunInMain("preflight main", "validate", "abort")
     /\ UNCHANGED backendVars

-----------------------------------------------------------------------------
(* startAttachedTarget, from "start" to "watch". *)

AfterStart(label) == pc' = label /\ Works /\ UNCHANGED boxVars

ChooseStart ==
  /\ pc = "start"
  /\ AfterStart(CASE cfg.target = "herdr" -> "inspect for herdr"
                  [] cfg.target = "direct" /\ Dedicated -> "attach"
                  [] OTHER -> "inspect fresh")

\* Where an error of the start leaves to that does not spare main.
StartFails == IF Supervised THEN "undo herdr" ELSE "abort start"

\* PrepareHerdrTUI attaches to a running main and replaces any other.
InspectForHerdr ==
  Inspect("inspect for herdr", "set up herdr", "inspect fresh", "inspect fresh", "abort")

\* Seeded bug: whatever is there is replaced.
ReplaceAnyMain ==
  Inspect("inspect fresh", "stop stale", "stop stale", "create fresh", "abort")

\* ensureFreshMainSandbox: a stopped main is replaced, any other is spared.
InspectFresh ==
  Inspect("inspect fresh", "abort", "stop stale", "create fresh", "abort")

ReplaceStale ==
  \/ Run("stop stale", StopMain, "remove stale", "abort")
  \/ Run("remove stale", RemoveMain, "create fresh", "abort")

CreateFresh ==
  \/ RunCreate("create fresh", "check fresh", StartFails)
  \/ RunInMain("check fresh",
               IF cfg.target = "herdr" \/ cfg.herdr THEN "set up herdr" ELSE "attach",
               StartFails)

SetUpHerdr ==
  RunInMain("set up herdr", IF Supervised THEN "start herdr" ELSE "attach", StartFails)

\* startSandboxLocalHerdrAttached starts the server and waits until it is ready.
StartHerdr ==
  \/ RunInMain("start herdr", "await herdr", StartFails)
  \/ RunInMain("await herdr", "attach", StartFails)

\* startAttachedCommand: `sbx run` or `sbx exec -it`, still there after 100 ms.
Attach ==
  /\ RunInMain("attach", IF PreflightRequired THEN "watch" ELSE "check attached", StartFails)
  /\ attached' = (pc' # StartFails)

\* checkMainWorkspaceVisibility, on a context of its own.
CheckAttached == RunInMain("check attached", "watch", "abort start")

\* cleanupStartedMain: the commands' results are ignored.
UndoStart ==
  \/ RunInMain("undo herdr", "undo main", "undo main")
  \/ Run("undo main", StopMain, "abort start", "abort start")

StartStep ==
  \/ /\ \/ ChooseStart \/ ReplaceStale \/ CreateFresh \/ SetUpHerdr \/ StartHerdr
        \/ CheckAttached \/ UndoStart
     /\ UNCHANGED backendVars
  \/ (InspectForHerdr \/ InspectFresh) /\ UNCHANGED <<cfg, probe, created, attached, failed>>
  \/ Attach /\ UNCHANGED <<cfg, probe, found, created, failed>>
=============================================================================
