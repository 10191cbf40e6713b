------------------------------ MODULE MCAdmission ------------------------------
(* Instances of Admission: inputs that differ from good ones in a few places. *)
EXTENDS Admission

UserHome == <<"Users", "u">>
ProjectDir == <<"Users", "u", "work">>
BackupNames == {<<".ssh.bak", ".ssh">>}

\* Ways to write a path: at, above, below and beside what is forbidden.
Paths ==
  {BlankPath, HomePath, Written("home", <<"work">>), Written("home", <<".">>),
   Written("home", <<".ssh">>), Written("home", <<".ssh", "keys">>),
   Written("home", <<".ssh.bak">>), Written("home", <<"work", "..", ".claude">>),
   Written("home", <<"..", "u">>), Written("root", <<"Users", "u", "work">>),
   Written("root", <<>>),
   Written("root", <<"Library", "Keychains", "x">>), Written("root", <<"..", "data">>),
   Written("working directory", <<"..", ".config", "clash">>),
   Written("working directory", <<".", "app">>)}

GoodURL == [scheme |-> "http", host |-> "127.0.0.1", port |-> TRUE,
            credentials |-> FALSE, path |-> FALSE]
URLs == {GoodURL} \cup {[GoodURL EXCEPT !.scheme = "https"], [GoodURL EXCEPT !.host = "10.0.0.1"],
  [GoodURL EXCEPT !.host = "localhost"], [GoodURL EXCEPT !.port = FALSE],
  [GoodURL EXCEPT !.credentials = TRUE], [GoodURL EXCEPT !.path = TRUE]}

GoodGateway == [upstream |-> GoodURL, controller |-> GoodURL, secretEnv |-> "name"]
Gateways == {NoObject} \cup {[GoodGateway EXCEPT !.upstream = u] : u \in URLs}
  \cup {[GoodGateway EXCEPT !.controller = u] : u \in URLs}
  \cup {[GoodGateway EXCEPT !.secretEnv = n] : n \in {"", "not a name"}}

Pane == Text("pane", <<>>)
Socket == <<"home", "agent", "herdr.sock">>
GoodHerdr == [install |-> "false", socketPath |-> Socket, paneID |-> Pane]
Herdrs == {NoObject} \cup {[GoodHerdr EXCEPT !.install = i] : i \in {"unset", "true", "false"}}
  \cup {[GoodHerdr EXCEPT !.socketPath = s] :
          s \in {<<>>, <<"home", "agent">>, <<"home", "agent", "..", "u", "sock">>,
           <<"tmp", "sock">>}}
  \cup {[GoodHerdr EXCEPT !.paneID = p] : p \in {Blank, Text("pane", <<"Users", "u", ".ssh">>)}}

Zone == Text("zone", <<>>)
Tongue == Text("locale", <<>>)

AllFields == RequiredFields \cup HostInheritedFields

GoodFile(mode, supervision) ==
  [legacy |-> FALSE, unknown |-> FALSE, incomplete |-> FALSE, given |-> AllFields,
   mode |-> mode, gateway |-> GoodGateway, supervision |-> supervision, herdr |-> GoodHerdr,
   template |-> TRUE, timeoutSeconds |-> 1, expectedIP |-> TRUE, backend |-> "docker-sandbox",
   mount |-> Written("home", <<"work">>), forbiddenPaths |-> {Written("root", <<"data">>)},
   forbiddenEnv |-> {"LISTED"}, sshAgent |-> FALSE, timezone |-> Zone, locale |-> Tongue]

\* Every way to fill in what depends on the modes.
ModeFiles ==
  {[GoodFile(m, s) EXCEPT !.gateway = g] :
     m \in {"", "host-inherited", "dedicated-gateway", "other"},
     s \in {"direct-claude"}, g \in Gateways}
  \cup {[GoodFile("host-inherited", s) EXCEPT !.herdr = h, !.template = t] :
     s \in {"", "direct-claude", "sandbox-local-herdr", "other"}, h \in Herdrs, t \in BOOLEAN}

\* One deviation in the other fields.
DeviantFiles == UNION {
  {[f EXCEPT !.legacy = TRUE], [f EXCEPT !.unknown = TRUE], [f EXCEPT !.incomplete = TRUE],
   [f EXCEPT !.timeoutSeconds = 0], [f EXCEPT !.expectedIP = FALSE], [f EXCEPT !.backend = "other"],
   [f EXCEPT !.forbiddenPaths = {}], [f EXCEPT !.forbiddenEnv = {}], [f EXCEPT !.sshAgent = TRUE],
   [f EXCEPT !.timezone = Blank], [f EXCEPT !.locale = Blank]}
  \cup {[f EXCEPT !.given = AllFields \ {g}] : g \in AllFields} :
    f \in {GoodFile("host-inherited", "sandbox-local-herdr"),
           GoodFile("dedicated-gateway", "direct-claude")}}

\* The mount, and the forbidden path, written in every way.
PathFiles == LET f == GoodFile("dedicated-gateway", "direct-claude") IN
  {[f EXCEPT !.mount = p] : p \in Paths} \cup {[f EXCEPT !.forbiddenPaths = {p}] : p \in Paths}

Files == ModeFiles \cup DeviantFiles \cup PathFiles

-----------------------------------------------------------------------------
Interfaces == {"utun4", "utun9", "en0"}
Routes == {<<>>, <<"other">>} \cup {<<"other", "">>} \cup {<<"other", i>> : i \in Interfaces}
  \cup {<<i, j>> : i \in Interfaces \cup {""}, j \in Interfaces}

HostStates ==
  [verge : {"enabled"}, runtime : {"enabled", "disabled"}, device : {"", "utun4"},
   route : Routes, interfaces : {{}, {"utun4"}, {"utun9", "en0"}, Interfaces}]
  \cup [verge : {"disabled", "unreadable"}, runtime : {"enabled"}, device : {"utun4"},
        route : {<<"utun4">>}, interfaces : {Interfaces}]

Row(name, agent, status, workspace) ==
  [kind |-> "sandbox", name |-> name, agent |-> agent, status |-> status, workspace |-> workspace]

Plain(kind, name) ==
  [kind |-> kind, name |-> name, agent |-> "", status |-> "none", workspace |-> BlankPath]

Lines == {Plain("skipped", ""), Plain("short", "main"), Plain("short", "another"),
          Row("another", "shell", "running", Written("home", <<"x">>)),
          Row("main", "shell", "running", Written("home", <<"work">>))}
  \cup {Row("main", "claude", s, w) : s \in {"running", "stopped", "paused"},
          w \in {BlankPath, Written("root", <<"Users", "u", "work">>), Written("home", <<"x">>)}}

SandboxListings == {<<a>> : a \in Lines} \cup {<<a, b>> : a \in Lines, b \in Lines}

-----------------------------------------------------------------------------
Secret == <<"Users", "u", ".ssh", "id">>

Values == {Blank, Text("1", <<>>), Text("path", Socket), Text("path", Secret),
  Text("path", <<"run", "agent.sock">>), Text("path", <<"Users", "u", ".ssh.bak">>), Pane,
  Text("pane", <<"Users", "u", ".ssh">>), Text("gateway:3128", <<>>), Text("gateway:3128", Secret),
  Text("gateway", <<>>), Text("local hosts", <<>>), Text("proxy-managed", <<>>), Zone, Tongue,
  Text("other", <<>>)}

Names == HerdrNames \cup ProxyNames \cup SSHAgentNames \cup {"GITHUB_TOKEN", "CLAUDE_CONFIG_DIR",
  "LISTED", "TZ", "LANG", "PATH"}

\* One variable in every way, and two of which one may be refused.
Pairs == {<<"GITHUB_TOKEN", Text("proxy-managed", <<>>)>>, <<"HERDR_ENV", Text("1", <<>>)>>}

Environments ==
  {[n \in {name} |-> value] : name \in Names, value \in Values}
  \cup {[n \in {name, p[1]} |-> IF n = p[1] THEN p[2] ELSE value] :
          name \in Names, value \in {Text("path", Secret), Text("other", <<>>)}, p \in Pairs}

GoodSight == [env |-> [n \in {} |-> Blank], pwd |-> TRUE, mounts |-> {<<"Users", "u", "work">>},
  sibling |-> FALSE, date |-> TRUE, locale |-> Tongue, egress |-> TRUE]

Sights == {[GoodSight EXCEPT !.env = e] : e \in Environments}
  \cup {[GoodSight EXCEPT !.pwd = FALSE], [GoodSight EXCEPT !.sibling = TRUE],
        [GoodSight EXCEPT !.date = FALSE], [GoodSight EXCEPT !.egress = FALSE],
        [GoodSight EXCEPT !.locale = Text("C.UTF-8", <<>>)],
        [GoodSight EXCEPT !.locale = Text("other", <<>>)],
        [GoodSight EXCEPT !.mounts = {}], [GoodSight EXCEPT !.mounts = {Secret}],
        [GoodSight EXCEPT !.mounts = {<<"mnt", "Users", "u", ".claude", "x">>}]}
=============================================================================
