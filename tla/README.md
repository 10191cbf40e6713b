# safe-claude-sbx in TLA+

safe-claude-sbx starts Claude (or a Herdr TUI) in a Docker Sandbox, but only
while the network leaves the host the way the user approved, and takes the
sandbox down when that stops being true. These modules specify the parts of it
that decide this: what a launch is let through on, the launch with its error
exits, the lease on the sandbox daemon, the attached command, the watchdog with
its event sources and checks, and the cleanup. TLC checks small instances; TLAPS
proves every safety property of theirs for all values of the constants.

## 1. The system

| component | state it keeps | operations | talks to |
|---|---|---|---|
| launcher (`internal/launcher`) | what the launch has to undo: `mainFinalization` | `Run`, `runLaunch`, `runDoctor`, `finalizeDoctorGuard` | guard, backend and supervisor, by calls |
| host-inherited guard (`egressguard.go`) | none | `Acquire`, `ValidateMain`, `Watch`, `Fence`, `Recover` | network checks, monitors |
| dedicated-gateway guard (`dedicated_gateway.go`) | `acquired`, `fenced`, the owned `sbx daemon start` process and the channel of its exit, all under `a.mu` | the same five, and the health check | `sbx` commands, the gateway's controller over HTTP |
| supervisor (`watchdog.go`) | debounce timer, pending event, channel of check outcomes, cleanup-once | `Run` | event, error and exit channels; check goroutines; the cleanup callback |
| event sources (`route_monitor.go`, `clash_app_home_monitor.go`, `events.go`) | a child process, a snapshot of files, forwarders | `Start`, `MergeEventStreams` | channels |
| runtime checker (`runtime.go`) | none | `Check` | `route get`, `ifconfig`, an HTTP address service |
| backend (`docker_sandbox.go`) | none of its own; the sandboxes of sandboxd | `CheckAvailability`, `Probe`, `PreflightMainSandbox`, `StartMainAttached`, `AttachMain`, `PrepareHerdrTUI`, `AttachHerdrTUI`, `CleanupMain`, `CleanupProbe`, `CheckRuntimeEgress` | `sbx` commands |
| attached command (`startAttachedCommand`, `combineHerdrAndClaudeWait` of `docker_sandbox.go`) | two processes, a waiting goroutine and a buffered channel each, the combining goroutine | start with a 100 ms window, wait, kill | `sbx run`, `sbx exec`; the supervisor's `BackendExit` |
| network (`tun.go`, `egress.go`) | the default HTTP client's open connections | `CheckClashVergeTUN`; route, interface and egress checks | files, macOS commands, HTTP |
| configuration (`internal/config`) | none | `Load`: decoding, defaults, `Validate` | a file |
| policy (`internal/policy`) | none | `ValidateWorkspaceMount`, `ValidateInspection` | what `sbx exec` printed |
| `cmd/*`, `sandbox/` | none | entry points, a Dockerfile | |

What is hard about it: events and check outcomes arrive in any order at a Go
`select` that takes any ready case; a check reads the host at several moments;
every goroutine may be blocked on a send when its reader leaves; Ctrl+C reaches
the children as well as the launcher; any `sbx` command may fail, with or
without its effect; **any `sbx` command but `version` and the `daemon` ones
starts a normal daemon when none runs**, and a daemon that ends takes its
sandboxes with it; and every error exit of the launch has to undo exactly what
was done before it. `PROJECT.json` lists each of these hazards at its line.

What makes each component correct:

* event sources: a source never stops silently; nothing is sent on a closed
  channel; cancellation ends every goroutine;
* supervisor: no debounced event is lost, a failed check ends the session, no
  checker is left behind, the cleanup runs once and its error is reported;
* attached command: no exit is lost however early it comes, success is Claude's
  own, no process and no waiting goroutine outlives the launch;
* host-inherited session: a violated policy is always about to be noticed, and
  ends the session; nothing else does;
* lease: fenced means stopped; given back at the end of every launch that does
  not report an error of its cleanup; no health check acts beside it;
* launch and backend: main and the probe are cleaned up, what the user owns is
  left alone;
* configuration, policy, preflight: whatever is let through has what the later
  stages take for granted, and agrees with what they look at again.

## 2. Modules

| module | models | composed of |
|---|---|---|
| `SignalContext` | the context of `signal.NotifyContext` | |
| `EventStreams` | the two monitors and `MergeEventStreams` | SignalContext |
| `Supervisor` | `Supervisor.Run` and its check goroutines | SignalContext |
| `AttachedSession` | the start of the attached command, its processes and channels, and the Supervisor that waits for it | Supervisor |
| `HostSession` | a watched host-inherited session: the host, `RuntimeChecker`, the Supervisor and its sources | EventStreams, Supervisor |
| `Sandboxd` | the sandbox daemon and main, as `sbx` commands change them (external) | |
| `DedicatedLease` | `dedicatedGatewayAdapter`: Acquire, ValidateMain, Fence, Recover | Sandboxd |
| `MainSandbox` | `DockerSandbox`: probe, preflight, start, attach | Sandboxd |
| `EgressLease` | the contract of `EgressGuard` in dedicated mode (abstract) | |
| `Launch` | `runLaunch`, `runDoctor` and the finalization; implements EgressLease | DedicatedLease, MainSandbox |
| `DedicatedSession` | a watched dedicated session: Watch's goroutine, health checks, supervisor, cleanup | Supervisor, Launch |
| `Policy` | `ValidateWorkspaceMount`, `ValidateInspection` | |
| `Configuration` | `config.Load` | Policy |
| `Admission` | `Runner.Run`, the two preflights and the inspection, in their order | Configuration |
| `EventStreamsProofs`, `SupervisorProofs`, `AttachedProofs`, `HostSessionProofs`, `LaunchProofs`, `MainProofs`, `DedicatedProofs`, `AdmissionProofs` | theorems (section 4) | |
| `MC*` | instances for TLC | |

### How state and actions correspond to the code

*EventStreams.* `routeMon` and `clashMon` are where the goroutine of each
`Start` is; `routeChild` is the `route -n monitor` process, `routeLines` what it
has written and nobody has read (bounded by `MaxLines`); `metadataDirty` says
that the files differ from the last snapshot. Per source, `fwd` and `fwdErr` are
the two forwarders of `MergeEventStreams`, `monErrs` and `mergedErrs` the
buffered error channels. An action is one step between two channel operations.
A closed stream lets its forwarder leave, and the last one closes the merged
channels.

*Supervisor.* One action per case of the `select`. `pendingEvent`,
`debounceArmed` and `timer` are the debounce state; `running` counts, per stage of
the check, the goroutines that are in it; `sending` counts those that offer an
outcome, `checks` is the channel of capacity one. `sup` is `"select"`,
`"cleanup"` or `"returned"`, and `verdict` the case that made it leave, from
which `ExitCode` computes what `runLaunch` returns: 130 for any error that wraps
`context.Canceled` (`IsCanceled`), so after a signal with a clean cleanup, and
after the error of a route monitor that was refused its start by the cancelled
context (`"source cancelled"`), which `Run` wraps with `%w`. Time is `DebounceTicks`
ticks of the debounce period.

*AttachedSession.* `start` is where `startAttachedTarget` is, `supervised` whether
the Herdr server is started before Claude. Per command, `proc` is the process,
`waiter` the goroutine that waits for it and `wait` the channel of capacity one
it sends the result on; where nothing is combined that channel is the
Supervisor's `backendExit` itself. `combiner` is the goroutine of
`combineHerdrAndClaudeWait`. The 100 ms of `startAttachedCommand` are a label of
their own (`"herdr window"`, `"claude window"`), where the `select` takes an early
result or goes on: which of the two is a race. `killed` is the cancelled
`mainCtx`; a failed start and the cleanup cancel it.

*HostSession.* `bad` is the set of policies (route, interface, egress) the host
violates now; the host changes it at any moment. A check is at a stage: route,
interface, or the n-th attempt at the egress. A check may pass a drifted egress
over a connection that the default HTTP client kept (`EgressMatchesStill`). Two
variables record what became of a policy, and no step depends on them:
`unwatched` are the violated policies that broke while their monitor was still
starting, `passedOver` those that a check passed over such a connection. Ctrl+C
(a signal to the process group) may end the attached command, the route monitor
and a check's command before or after it cancels the context. A change of routing puts a line on the route
monitor, a change of the egress comes with a metadata write: the code relies on
both, and the threat model excludes the rest.

*DedicatedLease, MainSandbox, Launch.* One label `pc` is where the launching
goroutine is; one action is one `sbx` command, or a group of commands that only
inspect. Each command may fail (`Fails`): without its effect or after it.
`daemon` is `"none"`, `"normal"` or `"owned"`, `proc` the owned process, `main`
and `owner` the state of the main sandbox and who created it. `cfg` is the
configuration and the command (`direct`, `herdr`, `doctor`). `found` is the last
answer of `inspectMainSandbox`, which may be out of date. `created`,
`mustStop` and `watched` are `mainFinalization` and the place it is used from.
`cfg.supported` says whether the capability check passes. **In production it
never does**: `validateDockerSandboxProtocolSupport` rejects every version, so a
dedicated launch leaves at its first step. The instances have both; what they
show of the supported case is about the code behind that gate, which the
repository's own tests open in the same way.

*EgressLease* keeps only the daemon and whether the lease is idle, held or fenced.
`Launch` maps to it by `LeaseState` (from `acquired` and `fenced`) and its own
`daemon`; each command of `Acquire`, of its restore, of `Fence` and `Recover`, each
crash and each act of others is one step of the contract or none.

*DedicatedSession.* The start is a target attached under the lease. `watcher`
and `buffer` are the goroutine of `Watch` and its channel. A health check waits
for the mutex at `LockStage` and then has one command in flight per stage;
`MutexFree` is `a.mu`. The cleanup is the finalization of `Launch`.

*Policy, Configuration, Admission.* One `pc` goes through `Run`: load, the choice
of the command, the TUN preflight or the listing of the lease, the inspection,
then one variable of the sandbox's environment after the other, in any order, as
Go ranges over a map. A text is the class the rules put it in (`"blank"`, `"pane"`,
`"gateway:3128"`, ...) with the path it mentions; a path is the sequence of names
below what it starts from, so that `Clean`, `Rel` and "same or child" are computed
as `filepath` does, by name. There are no
symbolic links: the code follows none (section 3). What `sbx ls` prints is a sequence of rows, read by
`InspectLeaseScope` and by `InspectedStatus` (`inspectMainSandbox`), what `route get`
prints a sequence of lines. The preflight's variables are forgotten when the
inspection begins: nothing of them is used there. `ConfigFile`, `HostView`,
`ListingLine` and `ShownText` are the sets the inputs are drawn from: any file that
parses, any host, any listing, any text. Four things are assumed of them
(`PolicyAssumption` to `AdmissionAssumption`), which TLC evaluates for the instance:
`Home` is the home directory as `filepath.Clean` writes it; an interface whose name
begins with the prefix is a name, so not `""` and not a line of another kind; a line
`inspectLeaseScope` skips is not a row of main for `inspectMainSandbox` (which does
not skip it), so main is called neither `SANDBOX` nor `No`; and a text of one of the
`BareClasses` (`1`, `proxy-managed`, an empty one, a list of local hosts) mentions no
path.

### What is assumed of the outside

`sbx` and sandboxd are modelled from how the code uses them: `sbx ls`, `create`,
`exec`, `stop` and `rm` start a normal daemon when there is none
(docs/docker-sandbox-backend.md warns of it), `exec` starts a stopped main, a
daemon that ends stops its sandboxes, the owned process ends if a daemon is
there already. Others may start, stop or create main, list the sandboxes, create
another sandbox, crash the owned daemon or interrupt the launcher; `Meddling`
says which of these. They do not start or create main any more once the
finalization has stopped it (`StopsDone`): who does that then does it on his own
account, and no property of the launch could speak of it.

### Seeded bugs

An operator whose comment starts with "Seeded bug" is not part of the system: it
is a plausible wrong form of the definition that follows it. Each property is
checked once more with one of these in place, and has to be found violated.

## 3. What is checked

| run | instance | shows |
|---|---|---|
| EventStreams | both kinds of signal, 2 unread lines | `SourceDeathReported`, `NoSendAfterClose`, `CancelEndsStreams` |
| Supervisor | AttachedSession with and without the Herdr server; any events and outcomes, 1 check, 2 stages, 2 ticks | `PendingEventArmed`, `SuccessIsClaudes`, `ExitOnItsWay`, `FailureStops`, `CheckersEnd`, `ExitEndsSession`, `CommandsEnd` |
| HostSession | 2 incidents, or a signal of either kind | `DriftNoticed`, `NoFalseAlarm` |
| HostLiveness | 1 incident | `DriftStopsWhenCalm`, `DeadSourceStops` |
| Launch | all configurations, 2 faults, every kind of meddling | `LeaseImplemented`, `LeaseReleased`, `FencedIsStopped`, `DedicatedMainStopped`, `ProbeRemoved`, `CreatedMainStopped`, `RunningMainSpared`, `PreexistingMainKept` |
| DedicatedSession | Ctrl+C, 1 fault (also a crash or another client) | `ChecksQuiet`, `DedicatedMainStopped`, `ExitReported`, `LeaseKept` |
| DedicatedLiveness | 1 fault, crash and list | `OwnedExitStops`, `CleanupFinishes`, `DriftEndsSession` |
| Admission | files, hosts, listings and inspections that differ from good ones in a few places | `ConfigUsable`, `WorkspaceOutside`, `PreflightAgrees`, `ListingsAgree`, `EnvironmentClean` |

The type invariant of each is checked with them. `DriftNoticed` is the heart of
the host-inherited watch: while the session runs, each violated policy that
broke under its monitor has something on its way to the supervisor, an event, a
check that has yet to look at *that* policy, a failed outcome or the end of its
source, until a check has passed it over a kept connection. `LeaseImplemented`
is the heart of the dedicated mode: the launch as a whole is a behaviour of
`EgressLease`. `LeaseKept` says the same of each step of a watched session, whose
health checks run `sbx` commands beside the lease, and that it ends with the lease
given back (`LeaseReleased`, which `Launch` checks of the launch around it). `ExitReported` is what
`OwnedExitStops` rests on: the goroutine of `Watch` tells the owned daemon's exit
once, over a channel that health events use too and into a debounce that keeps the
latest event only. It holds because the exit is the last event of that goroutine;
were it not, a health event would take its place.

Four runs find what a document of the repository says violated:

* *HostStartupWindow* (`WatchedFromTheStart`): a policy breaks before its
  monitor watches. No check runs when the watch begins, so the change goes
  unnoticed.
* *HostInterrupt* (`InterruptExits130`): Ctrl+C also ends the attached command.
  It may end, and the `select` take its exit, before the signal has cancelled the
  context; the exit status is then 1, or 0, and not 130.
* *LaunchRemove* (`UsersMainKept`): in host-inherited mode `remove_main_sandbox` removes a main
  the launcher only attached to.
* *LaunchOrphan* (`NoOrphanMain`): main is stopped after safe-herdr's preflight; `PrepareHerdrTUI`
  replaces it, its set-up fails, and the new main is left running, because the
  preflight's ownership is what counts.

Six more limits are stated by the form of a property rather than by a run of
their own. `DriftStopsWhenCalm` needs unrelated events to cease, because every
event re-arms the debounce timer. It and `DriftNoticed` speak of `Drifted`, the
violated policies without two excuses: `unwatched`, which HostStartupWindow is
about, and `passedOver`. The default HTTP client, which every check and the
preflight share, keeps its connections open (egress.go:49); one from before the
drift may go on over the old node, so that the check sees the expected address,
passes, and nothing is left to notice the drift. docs/troubleshooting.md:519
promises that the sandbox stops when "app-home metadata changes and host egress
drifts". `WorkspaceOutside` compares names only: docs/troubleshooting.md:361 says
"Check symlinks and relative paths; the policy resolves them before backend
commands run", but `normalizePath` (policy.go:438-468) makes a path absolute and
cleans it, and no code of the repository asks where a symbolic link leads. A
workspace that is a link to `~/.ssh` passes. `PreexistingMainKept` excepts the label
`"remove stale"`: if the owned daemon dies between `ValidateMain` and
`PrepareHerdrTUI`, main is found stopped and the user's main is replaced.
`RunningMainSpared` excepts two races of the backend: a main that is started
after `ensureFreshMainSandbox` found it stopped is stopped and removed all the
same (docker_sandbox.go:902), and one that others create after the inspection
found none counts as the launch's own, because the failed `sbx create` does not
tell who was first (docker_sandbox.go:291); docs/troubleshooting.md:408 promises
the cleanup of main state created by the launch only. And the preflight compares
the workspace as it is written (docker_sandbox.go:313) where the lease compares
normalized paths: it may refuse a running main that is the configured one.

### Bounds, and why they are enough

`MaxChecks` bounds the checks in flight (an event comes in only while fewer are
in any stage or about to send): with one, its successor may start while its
outcome is in the channel, so that two outcomes compete for the one place; a
daemon event of `DedicatedSession` is not bounded by it, so that it overtakes a
health check. `MaxLines` bounds the unread lines of `route`: one line makes the
monitor move, a second shows what reads one leave behind. `MaxAttempts` is 5 in
the code and 2 here: the first attempt is retried, the last is not.
`MaxIncidents` and `MaxFaults` bound what goes wrong in one behaviour: two let a
failure hit while an earlier one is being handled. `DebounceTicks` is 2 in the
Supervisor's run, where an event may re-arm a timer that has half run, and 1 in
the compositions; the proofs have any number of ticks. `BoundNoise` lets an
unrelated event in only when no event and no check is on its way; without it the
number of checks in flight has no bound. `BoundSignals` lets a behaviour have
incidents or a signal, not both. The proofs do without either. The inputs of
`Admission` differ from good ones in one or two fields (every gateway with every
mode, every Herdr object with every supervision, every two rows of a listing,
every variable with every value, alone and beside one that is accepted): a rule
looks at one field, or at two.

### Fairness

Goroutines run, time passes, commands of the finalization end by their time-outs,
`exec.CommandContext` kills its command when its context is cancelled, and a
signal cancels its context, a killed process ends, the 100 ms of a start and the
commands of a set-up pass: weak fairness of those steps. A ready case of a
`select` that stays ready is taken eventually (weak); the debounce timer, the
owned daemon's exit and the steps of the cleanup may be ready on and off, and
Go picks among ready cases at random: strong fairness of those three. Health
checks' commands are obliged to end only when cancelled, except where
`DriftEndsSession` says otherwise in its antecedent. Nothing obliges the host,
the user, the attached command, a signal or a fault.

Deadlock checking is off everywhere, because the program ends.

## 4. What is proved

All with TLAPS, for every value of the constants under the modules' named
assumptions:

* `EventStreamsProofs`: `StreamTypeCorrect` (`StreamSpec => []StreamTypeOK`),
  `DeathReported` (`StreamSpec => []SourceDeathReported`) and
  `ClosedChannelsSafe` (`StreamSpec => []NoSendAfterClose`), from the invariant
  `StreamInv`: the first two with the fact that the merged channels are closed
  only when all forwarders have ended. `NoSendAfterClose` alone is not
  inductive: a forwarder that is merely not sending could take up an event after
  the close; one that has ended does not come back. `SourceDeathReported` goes by
  following the report: each way a monitor stops puts it into its own channel
  (`MonitorsReport`), and the forwarder hands it on without losing it.
* `HostSessionProofs`: `TypeCorrect` (`Spec => []HostTypeOK`) and `DriftIsNoticed`
  (`Spec => []DriftNoticed`). The invariant is `WatchInv`. `DriftNoticed` alone is not inductive: a step that
  consumes a line or an error must know that the consumer passes it on
  (`SourceDeathReported`, the child exists while its output is read), and that the
  monitor of a violated policy that is not `unwatched` has started. The proof has
  one lemma per group of actions and, under each, one step per disjunct of
  `Noticed`. The theorem holds of every behaviour; what the code does lose is what
  `unwatched` and `passedOver` record, a break before the monitor and a check over
  an old connection, and by the theorem nothing else.

  `NoAlarmUnprovoked` (`Spec => []NoFalseAlarm`) has an invariant of its own,
  `Undisturbed`: before the first incident or signal there is no failure in any
  channel, counter, goroutine or process it could come from.
* `LaunchProofs`: `LaunchTypeCorrect` (`LaunchSpec => []LaunchTypeOK`, with the
  owned daemon answering exactly while its process is up) and `FencedStopped`
  (`LaunchSpec => []FencedIsStopped`), for any set of configurations, any number
  of faults and whatever `Meddling` allows. The invariant is `LeaseInv`:
  neither part is inductive without knowing that no process exists, and the
  lease is not fenced, until `Acquire` starts one (`BeforeStart`), and that
  `restoreAfterFailedAcquire` starts the normal daemon of a fenced lease only.
  `PreexistingKept` (`LaunchSpec => PreexistingMainKept`) rests on `UsersMain`: a
  dedicated launch that found a main never counts it as created. One lemma,
  `EveryStepOfMain`, says what any step may do to main and to `created`; the
  theorem follows from it.
  `LaunchImplementsLease` (`LaunchSpec => LeaseImplemented`) is the refinement: under
  `LeaseInv` and `HeldInv` each step of the launch maps to a step of `EgressLease`
  or leaves its variables alone. `HeldInv` relates where the launch is to
  `acquired`: a process of its own belongs to a lease, and a finalization that gets
  past the guard has given it back or reports that it has not. From it, too,
  `ReleasedAtEnd` (`LaunchSpec => []LeaseReleased`).
* `MainProofs`: `StoppedDedicated`, `CreatedStopped`, `ProbeCleared` and
  `RunningSpared` (`LaunchSpec =>` `[]DedicatedMainStopped`, `[]CreatedMainStopped`,
  `[]ProbeRemoved`, `RunningMainSpared`). The invariant `MainParts` follows
  ownership through the launch: what the launcher created counts as created
  unless its start is still under way (`OursIsCreated`), what counts as created is
  its own or was not seen running (`CreatedIsOurs`), a replacement only follows a
  main found stopped (`Replaced`), what is to be stopped is down from
  `CleanupStop` on (`MainDown`), and the start begins without a probe
  (`ProbeGone`).
* `SupervisorProofs` has no theorem of its own: its lemmas say that each step of
  `Run` keeps the Supervisor typed (`SupTyped`, `SupStepTyped`) and a pending event
  armed (`ArmedStep`), and the three sessions that contain it rest on them.
* `AttachedProofs`: `AttachTypeCorrect`, `PendingArmed`, `OnlyClaudeSucceeds` and
  `NoExitLost` (`Spec => []` `AttachTypeOK`, `PendingEventArmed`, `SuccessIsClaudes`,
  `ExitOnItsWay`). `SuccessIsClaudes` speaks of the end; that it holds there needs
  every channel on the way to hold a clean result only after Claude's
  (`CleanIsClaudes`). `ExitOnItsWay` needs that a running command is waited for and
  that the combining goroutine ends only with a result delivered
  (`ExitsCarried`).
* `DedicatedProofs`: `SessionTypeCorrect`, `QuietAfterFence`, `SessionStopsMain`,
  `SessionReleases` and `ExitNeverLost` (`SessionSpec => []` `SessionTypeOK`,
  `ChecksQuiet`, `DedicatedMainStopped`, `LeaseReleased`, `ExitReported`).
  `CancelledFirst` is why: the checks are cancelled before the cleanup takes the
  mutex, and a check that gets the mutex under a cancelled context starts no
  command. With it main stays down from the finalization's stop on (`DownAtEnd`),
  although a health check, alone, would start it; the lease goes by `HeldInv` as in
  `LaunchProofs`. For `ExitReported` the invariant is `ExitCarried`: once the goroutine
  of `Watch` has ended under a live context, its channel holds no health event any
  more, so that nothing comes after the exit's, and no check is cancelled before the
  loop ends. `SessionKeepsLease` (`SessionSpec => LeaseKept`) is the refinement step by
  step, with `SessionReleases`; the steps that are those of the launch cite its lemmas.
* `AdmissionProofs`: `AdmissionTypeCorrect`, `AcceptedUsable`, `MountedOutside`,
  `PreflightHolds`, `ReadersOfListingAgree` and `AdmittedClean` (`AdmissionSpec => []`
  `AdmissionTypeOK`, `ConfigUsable`, `WorkspaceOutside`, `PreflightAgrees`,
  `ListingsAgree`, `EnvironmentClean`), for any files, hosts, listings and inspections.
  The invariant `AdmissionInv` says what each stage leaves behind: from the load on
  the configuration is a valid one (`Accepted`), from the choice of the command on the
  target fits it (`Chosen`), the scope is that of the listing (`Scoped`), and the
  variables that are no longer in `left` were found valid (`Looked`), which is what
  makes the order of the map irrelevant. `EnvironmentClean` has a part for each rule
  of `validateEnvironment`: the names that have a rule of their own, the names
  forbidden by the configuration, by default or for a fragment, and the texts in
  which forbidden paths are looked for. `MountedOutside` is about names: it says
  nothing of symbolic links.

  Under them are theorems about paths of any length: `CleanIdempotent` (cleaning
  twice is cleaning once) and `RelIsPrefixOrder` (`sameOrChild`, which asks
  `filepath.Rel` and looks whether the answer goes up, is the prefix order on cleaned
  paths). The induction over the names is by a least counterexample: `LeastNat`, from
  the library's well-foundedness of `<`, gives the shortest beginning of a path that
  would refute the claim, and its predecessor refutes that. That the recursive
  function under `Clean` satisfies its equation is proved too (`StepsDefined`).
  `ListingsAgree` needs that the first row of main is the only one, which the lease's
  reader makes sure of behind it. `AdmittedOutside` restates the last part of
  `EnvironmentClean`, a search for one text in another, in terms of directories: no
  path that a variable of an admitted sandbox mentions is a forbidden directory or
  below one. No run checks it; it follows from `EnvironmentClean` by a lemma on the
  search (`BelowIsShown`).

`HostAssumption`, `SignalAssumption`, `DedicatedAssumption` and the like are
assumptions about constants; the runs evaluate them.

Only model-checked are the liveness properties, which depend on fairness (beyond
TLAPS 1.4.5): `CancelEndsStreams`, `FailureStops`, `CheckersEnd`, `ExitEndsSession`,
`CommandsEnd`, `DriftStopsWhenCalm`, `DeadSourceStops`, `OwnedExitStops`,
`CleanupFinishes` and `DriftEndsSession`; and the four violations of section 3, which
are behaviours and need no proof.

## 5. What is not modelled

The spelling of texts: YAML, the columns of `sbx ls`, the output of `route`,
`ifconfig` and of the inspection commands, URLs and addresses are the classes
their parsers put them in; symbolic links, which the code
does not follow; the HTTP exchange with the controller is its verdict;
the scripts run inside sandboxes; messages and wording; `StartMain` and
`StartHerdrTUIAttached`, which the launcher does not call; the two `main`
functions, which only call the launcher; `watchdog.enabled`, which
docs/configuration.md names and no code reads; the Dockerfile.

## 6. Plan

Done, in this order: the watch (EventStreams, Supervisor, HostSession), being
what the program is for; the lease and the launch; the dedicated session that
composes them; the contract of the lease and its refinement; others who start or
create main during the launch; the attached command; configuration, policy and
the preflights; the theorems of section 4, down to what the paths of a
configuration rest on.

What is left:

1. a larger instance of `HostSession` in which an incident meets a signal, and one
   of `Supervisor` with two checks in flight: both are too large for a short run;
2. the safety part of the liveness properties that still lack one, as invariants to
   be proved: what is on its way when a check hangs (`CleanupFinishes`), or when a
   command has ended (`CommandsEnd`), in the form of `ExitReported`;
3. `StartMain` and `StartHerdrTUIAttached`, should the launcher come to call them.
