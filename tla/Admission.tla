------------------------------- MODULE Admission -------------------------------
(***************************************************************************)
(* What stands between a command line and an attached sandbox: Runner.Run  *)
(* with the configuration file, the preflight of the host's TUN or of the  *)
(* listed sandboxes, and the inspection of the sandbox that was created.   *)
(* Each is decided on what the world shows at that moment.                 *)
(***************************************************************************)
EXTENDS Configuration

CONSTANTS TUNInterfaces, \* the interfaces whose names begin with tun_interface_prefix
          Hosts,         \* what the Clash Verge files, `route get` and ifconfig may show
          Listings,      \* what `sbx ls` may print
          Inspections    \* what the commands run in the sandbox may print

\* A host, a line of a listing and an inspection.  A header line is not taken for a
\* sandbox: main is called neither "SANDBOX" nor "No".
HostView ==
  [verge : STRING, runtime : STRING, device : STRING, route : Seq(STRING),
   interfaces : SUBSET STRING]
ListingLine ==
  {line \in [kind : {"skipped", "short", "sandbox"}, name : STRING, agent : STRING,
             status : STRING, workspace : WrittenPath] :
     line.kind = "skipped" => line.name # "main"}
ShowsTexts(sight) == \A name \in DOMAIN sight.env : sight.env[name] \in ShownText

ASSUME AdmissionAssumption ==
  /\ TUNInterfaces \subseteq STRING \ {"", "none", "other"}
  /\ Hosts \subseteq HostView
  /\ Listings \subseteq Seq(ListingLine)
  /\ \A sight \in Inspections : ShowsTexts(sight)

CommandTargets == {"doctor", "direct", "herdr"}

VARIABLES pc,      \* where the launch is
          config,  \* the configuration, defaults applied
          target,  \* the command that was asked for
          \* Until the inspection, to which they are nothing:
          host,    \* the host at the TUN preflight
          tun,     \* StartupTUNInterface, or "none"
          listing, \* what Acquire was shown by `sbx ls`
          scope,   \* what inspectLeaseScope made of it
          seen,    \* what the inspection has seen
          left     \* the variables validateEnvironment has not come to

preflightVars == <<host, tun, listing, scope>>
inspectVars == <<seen, left>>
admissionVars == <<pc, config, target, preflightVars, inspectVars>>

Nothing == [nothing |-> TRUE]

AdmissionInit ==
  /\ pc = "load" /\ config = Nothing /\ target = "none"
  /\ host = Nothing /\ tun = "none" /\ listing = <<>> /\ scope = Nothing
  /\ seen = Nothing /\ left = {}

-----------------------------------------------------------------------------
(* Runner.Run. *)

LoadConfig ==
  /\ pc = "load"
  /\ \E file \in ConfigFiles :
       \/ Load(file) /\ config' = ApplyDefaults(file) /\ pc' = "run"
       \/ ~Load(file) /\ pc' = "rejected" /\ UNCHANGED config
  /\ UNCHANGED <<target, preflightVars, inspectVars>>

TargetFits(asked) == asked = "herdr" => config.supervision = "sandbox-local-herdr"

Run ==
  /\ pc = "run"
  /\ target' \in CommandTargets
  /\ pc' = IF TargetFits(target') /\ config.backend = "docker-sandbox"
           THEN config.mode ELSE "rejected"
  /\ UNCHANGED <<config, preflightVars, inspectVars>>

-----------------------------------------------------------------------------
(* CheckClashVergeTUN. *)

\* RouteInterface: the first line that starts with "interface:" decides.
RouteInterface(route) ==
  LET first == SelectInSeq(route, LAMBDA line : line # "other")
  IN IF first = 0 THEN "" ELSE route[first]

HasTUNPrefix(interface) == interface \in TUNInterfaces

\* Seeded bug: the interface is taken from Clash Verge's own configuration.
DeviceAsConfigured(shown) == shown.device

StartupTUNInterface(shown) == RouteInterface(shown.route)

TUNReady(shown) ==
  /\ shown.verge = "enabled" /\ shown.runtime = "enabled"
  /\ HasTUNPrefix(RouteInterface(shown.route))
  /\ shown.device \in {"", RouteInterface(shown.route)}
  /\ RouteInterface(shown.route) \in shown.interfaces

CheckTUN ==
  /\ pc = "host-inherited"
  /\ host' \in Hosts
  /\ \/ TUNReady(host') /\ pc' = "inspect" /\ tun' = StartupTUNInterface(host')
     \/ ~TUNReady(host') /\ pc' = "rejected" /\ UNCHANGED tun
  /\ UNCHANGED <<config, target, listing, scope, inspectVars>>

\* RuntimeChecker.validateRuntimeRoute, which every later check repeats.
RuntimeRouteValid(shown, startup) ==
  RouteInterface(shown.route) = startup /\ startup # "" /\ startup \in shown.interfaces

-----------------------------------------------------------------------------
(* The two readers of `sbx ls`.  A line of the listing is a header or an empty *)
(* line, a row of too few columns, or a sandbox.                               *)

IsMain(line) == line.name = "main"
Rows(lines) == {i \in DOMAIN lines : lines[i].kind # "skipped"}

\* inspectMainSandbox: the first row of that name, whatever follows it.
InspectedStatus(lines) ==
  LET first == SelectInSeq(lines, IsMain)
  IN IF first = 0 THEN "absent"
     ELSE IF lines[first].kind = "short" THEN "error" ELSE lines[first].status

SameWorkspace(row, expected) ==
  row.workspace # BlankPath /\ NormalizePath(row.workspace) = NormalizePath(expected)

\* A running main has to be the configured one; a stopped one may be any.
RowValid(row, expected) ==
  /\ row.kind = "sandbox" /\ row.status \in {"running", "stopped"}
  /\ IsMain(row) /\ row.status = "running" =>
       row.agent = "claude" /\ SameWorkspace(row, expected)

\* Of a listing, what its rows say.
ScopeOf(lines, rows, expected) ==
  [valid |-> /\ \A i \in rows : RowValid(lines[i], expected)
             /\ \A i, j \in rows : IsMain(lines[i]) /\ IsMain(lines[j]) => i = j,
   mainWasRunning |-> \E i \in rows : IsMain(lines[i]) /\ lines[i].status = "running",
   conflicts |-> {lines[i].name : i \in rows} \ {"main"}]

\* Seeded bug: nothing is read behind the row of main.
ScopeUpToMain(lines, expected) ==
  ScopeOf(lines, Rows(lines) \cap (1 .. SelectInSeq(lines, IsMain)), expected)

InspectLeaseScope(lines, expected) == ScopeOf(lines, Rows(lines), expected)

CheckScope ==
  /\ pc = "dedicated-gateway"
  /\ listing' \in Listings /\ scope' = InspectLeaseScope(listing', config.mount)
  /\ pc' = IF scope'.valid /\ scope'.conflicts = {} THEN "inspect" ELSE "rejected"
  /\ UNCHANGED <<config, target, host, tun, inspectVars>>

-----------------------------------------------------------------------------
(* ValidateInspection of the probe or of main. *)

policy == InspectionPolicy(config)

\* The commands print something that parses, and the egress is the approved one.
Inspect ==
  /\ pc = "inspect"
  /\ seen' \in Inspections /\ left' = DOMAIN seen'.env
  /\ pc' = IF seen'.egress /\ SurroundingsValid(seen', policy) THEN "environment" ELSE "rejected"
  /\ host' = Nothing /\ tun' = "none" /\ listing' = <<>> /\ scope' = Nothing
  /\ UNCHANGED <<config, target>>

\* Seeded bug: a variable that is accepted ends the loop.
AcceptAtOnce(name) == left' = {}

Continue(name) == left' = left \ {name}

\* Go ranges over the map of variables in any order.
CheckVariable ==
  /\ pc = "environment"
  /\ \E name \in left :
       \/ VariableValid(name, seen.env[name], policy) /\ Continue(name) /\ UNCHANGED pc
       \/ ~VariableValid(name, seen.env[name], policy) /\ pc' = "rejected" /\ UNCHANGED left
  /\ UNCHANGED <<config, target, preflightVars, seen>>

CheckRuntime ==
  /\ pc = "environment" /\ left = {}
  /\ pc' = IF RuntimeValid(seen, policy) THEN "admitted" ELSE "rejected"
  /\ UNCHANGED <<config, target, preflightVars, inspectVars>>

AdmissionNext ==
  LoadConfig \/ Run \/ CheckTUN \/ CheckScope \/ Inspect \/ CheckVariable \/ CheckRuntime

AdmissionSpec == AdmissionInit /\ [][AdmissionNext]_admissionVars

-----------------------------------------------------------------------------
(* What has been made sure of when a launch goes on. *)

Loaded == pc \notin {"load", "rejected"}

AdmissionTypeOK ==
  /\ pc \in {"load", "run", "host-inherited", "dedicated-gateway", "inspect", "environment",
             "admitted", "rejected"}
  /\ target \in CommandTargets \cup {"none"}
  /\ IF Loaded THEN config \in ConfigFile ELSE config = Nothing \/ config \in ConfigFile
  /\ (host = Nothing \/ host \in Hosts) /\ (listing = <<>> \/ listing \in Listings)
  /\ tun \in TUNInterfaces \cup {"none"}
  /\ seen = Nothing \/ (seen \in Inspections /\ left \subseteq DOMAIN seen.env)

\* What the later stages take for granted of a configuration and never ask again:
\* the gateway object that the adapter follows, the Herdr object, socket, pane and
\* template of a supervised start, and a supervised mode for safe-herdr.
ConfigUsable ==
  Loaded =>
    /\ config.mode = "dedicated-gateway" => config.gateway # NoObject
    /\ config.supervision = "sandbox-local-herdr" =>
         config.template /\ config.herdr # NoObject /\ config.herdr.socketPath # <<>>
    /\ pc # "run" /\ target = "herdr" => policy.herdr
    /\ pc # "run" => config.mode \in {"host-inherited", "dedicated-gateway"}

\* By name the workspace is not the home directory, and it is neither a forbidden
\* directory nor below one, whatever "~", "." and ".." either of them is written with.
\* This is about names only: the code follows no symbolic link, and a link to a forbidden
\* directory is outside by name (docs/troubleshooting.md:361 says they are resolved).
WorkspaceOutside ==
  Loaded =>
    /\ NormalizePath(config.mount) # Home
    /\ \A path \in AllForbiddenPaths(config) \ {HomePath} :
         ~IsPrefix(NormalizePath(path), NormalizePath(config.mount))

\* The interface the preflight settles on passes the runtime check on the same
\* host: a session does not begin with a watch that is bound to fail.
PreflightAgrees == tun # "none" => RuntimeRouteValid(host, tun)

\* A lease that goes on past the listing has only main to itself, and its scope
\* says of main what the backend's own reader of the same listing says.
ListingsAgree ==
  listing # <<>> /\ pc # "rejected" =>
    /\ \A i \in Rows(listing) : IsMain(listing[i])
    /\ InspectedStatus(listing) \in {"running", "stopped", "absent"}
    /\ scope.mainWasRunning <=> InspectedStatus(listing) = "running"

\* The names that have a rule of their own, whatever the configuration forbids.
RuledNames == HerdrNames \cup ProxyNames \cup SSHAgentNames

\* An admitted sandbox shows none of the host, in whatever order its variables were
\* looked at: of Herdr no variable but the three of a supervised start, with the values
\* configured for it; no foreign proxy; no agent socket that was not asked for, and no
\* gateway to one but Docker's; no other name that is forbidden by the configuration, by
\* default or for a fragment of it, unless it is a credential's and Docker's proxy stands
\* in for its value; and no forbidden path, the socket of Herdr and the URLs aside,
\* which are compared otherwise.
EnvironmentClean ==
  pc = "admitted" =>
    \A name \in DOMAIN seen.env :
      LET value == seen.env[name] IN
      /\ name \in HerdrNames =>
           /\ config.supervision = "sandbox-local-herdr"
           /\ \/ name = "HERDR_ENV" /\ value.class = "1"
              \/ name = "HERDR_SOCKET_PATH" /\ value = Text("path", config.herdr.socketPath)
              \/ name = "HERDR_PANE_ID" /\ value = config.herdr.paneID
      /\ name \in ProxyNames => value.class \in {"blank", "local hosts", "gateway:3128"}
      /\ name \in SSHAgentNames => config.sshAgent
      /\ name = "SSH_AUTH_SOCK_GATEWAY" => value.class \in {"gateway:3128", "gateway"}
      /\ name \in (config.forbiddenEnv \cup DefaultForbiddenEnvNames \cup CredentialNames)
                   \ RuledNames =>
           name \in CredentialNames /\ value.class = "proxy-managed"
      /\ name \notin ProxyNames \cup {"HERDR_SOCKET_PATH", "SSH_AUTH_SOCK_GATEWAY"} =>
           ~MentionsSensitivePath(value.path, policy)
=============================================================================
