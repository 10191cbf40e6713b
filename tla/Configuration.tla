----------------------------- MODULE Configuration -----------------------------
(***************************************************************************)
(* Package config: what Load accepts.  A field that is only required is    *)
(* one of `given`; a field that is looked into is the class of its text.   *)
(***************************************************************************)
EXTENDS Policy

CONSTANT ConfigFiles   \* the files considered, as they parse

\* Fields whose text is compared with "", and those that are trimmed first.
RequiredFields ==
  {"egress_ip.expected_ip", "egress_ip.sandbox_check_url", "main_name", "probe_name",
   "agent", "mount", "timezone", "locale", "log_level"}
HostInheritedFields == {"route_check_target", "tun_interface_prefix", "host_check_url"}

NoObject == [absent |-> TRUE]

URL == [scheme : STRING, host : STRING, port : BOOLEAN, credentials : BOOLEAN, path : BOOLEAN]
Gateway == [upstream : URL, controller : URL, secretEnv : STRING]
HerdrObject == [install : {"unset", "true", "false"}, socketPath : Seq(STRING), paneID : ShownText]

\* Config, and what decoding it may report.  "other" is any other text.
Modes == {"", "host-inherited", "dedicated-gateway", "other"}
Supervisions == {"", "direct-claude", "sandbox-local-herdr", "other"}
ConfigFile ==
  [legacy : BOOLEAN, unknown : BOOLEAN, incomplete : BOOLEAN,
   given : SUBSET (RequiredFields \cup HostInheritedFields),
   mode : Modes, gateway : Gateway \cup {NoObject}, supervision : Supervisions,
   herdr : HerdrObject \cup {NoObject}, template : BOOLEAN, timeoutSeconds : Int,
   expectedIP : BOOLEAN, backend : STRING, mount : WrittenPath,
   forbiddenPaths : SUBSET WrittenPath, forbiddenEnv : SUBSET STRING, sshAgent : BOOLEAN,
   timezone : ShownText, locale : ShownText]

ASSUME ConfigurationAssumption == ConfigFiles \subseteq ConfigFile

\* inspectTopLevelConfig and the decoder: no moved or unknown key, every object there.
TopLevelValid(file) == ~file.legacy /\ ~file.unknown /\ ~file.incomplete

ApplyDefaults(file) ==
  [file EXCEPT !.mode = IF @ = "" THEN "host-inherited" ELSE @,
               !.supervision = IF @ = "" THEN "direct-claude" ELSE @]

LoopbackHTTPURL(url) ==
  /\ url.scheme = "http" /\ url.host \in {"localhost", "127.0.0.1"} /\ url.port
  /\ ~url.credentials /\ ~url.path

GatewayValid(gateway) ==
  /\ gateway # NoObject
  /\ LoopbackHTTPURL(gateway.upstream) /\ LoopbackHTTPURL(gateway.controller)
  /\ gateway.secretEnv = "name"

ValidateEgress(config) ==
  \/ config.mode = "host-inherited" /\ HostInheritedFields \subseteq config.given
  \/ config.mode = "dedicated-gateway" /\ GatewayValid(config.gateway)

\* install_if_missing has to be there, and false.
HerdrValid(herdr) ==
  /\ herdr.install = "false"
  /\ herdr.socketPath # <<>> /\ IsStrictPrefix(<<"home", "agent">>, Clean(herdr.socketPath))
  /\ herdr.paneID # Blank

\* Seeded bug: the object is checked where it is given, in either mode.
HerdrValidIfGiven(config) ==
  /\ config.supervision \in {"direct-claude", "sandbox-local-herdr"}
  /\ config.herdr # NoObject => HerdrValid(config.herdr)

SupervisionValid(config) ==
  \/ /\ config.supervision = "direct-claude"
     /\ config.herdr # NoObject => HerdrValid(config.herdr)
  \/ /\ config.supervision = "sandbox-local-herdr"
     /\ config.herdr # NoObject /\ HerdrValid(config.herdr)

Validate(config) ==
  /\ RequiredFields \subseteq config.given
  /\ ValidateEgress(config)
  /\ config.timeoutSeconds > 0 /\ config.expectedIP
  /\ config.backend # "" /\ config.forbiddenPaths # {} /\ ValidateWorkspaceMount(config)
  /\ config.forbiddenEnv # {}
  /\ SupervisionValid(config)
  /\ config.supervision = "sandbox-local-herdr" => config.template

Load(file) == TopLevelValid(file) /\ Validate(ApplyDefaults(file))

-----------------------------------------------------------------------------

\* mainInspectionPolicy and herdrRuntimePolicy.
InspectionPolicy(config) ==
  LET herdr == config.supervision = "sandbox-local-herdr" /\ config.herdr # NoObject
  IN [mount |-> config.mount, forbiddenPaths |-> config.forbiddenPaths,
      timezone |-> config.timezone, locale |-> config.locale,
      sshAgent |-> config.sshAgent, forbiddenEnv |-> config.forbiddenEnv, herdr |-> herdr,
      socketPath |-> IF herdr THEN config.herdr.socketPath ELSE <<>>,
      paneID |-> IF herdr THEN config.herdr.paneID ELSE Blank]
=============================================================================
