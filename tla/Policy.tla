-------------------------------- MODULE Policy --------------------------------
(***************************************************************************)
(* Package policy: which directory may be mounted as the workspace, and    *)
(* what the inspection of a sandbox may show.  A path is a sequence of     *)
(* names below what it starts from; a text that was observed is the class  *)
(* the rules put it in and the path it mentions, if any.  Names of         *)
(* variables are meant in upper case, as the rules compare them.           *)
(***************************************************************************)
EXTENDS SequencesExt

CONSTANTS Home,       \* the user's home directory, as filepath.Clean writes it
          WorkingDir, \* the launcher's working directory
          LongerNames \* <<a, b>>: file name a begins with file name b and goes on

ASSUME PolicyAssumption ==
  /\ LongerNames \subseteq STRING \X STRING
  /\ Home \in Seq(STRING) /\ WorkingDir \in Seq(STRING)
  /\ \A i \in DOMAIN Home : Home[i] \notin {".", ".."}

\* A path as it is written, "~" and "~/..." being the ones from home.
WrittenPath == [from : {"nothing", "home", "working directory", "root"}, names : Seq(STRING)]
Written(from, names) == [from |-> from, names |-> names]
BlankPath == Written("nothing", <<>>)
HomePath == Written("home", <<>>)

\* filepath.Clean of an absolute path.
Descend(path, name) ==
  CASE name = "." -> path
    [] name = ".." -> IF path = <<>> THEN path ELSE Front(path)
    [] OTHER -> Append(path, name)

Clean(names) ==
  LET upTo[i \in 0 .. Len(names)] == IF i = 0 THEN <<>> ELSE Descend(upTo[i - 1], names[i])
  IN upTo[Len(names)]

NormalizePath(path) ==
  Clean(CASE path.from = "home" -> Home \o path.names
          [] path.from = "working directory" -> WorkingDir \o path.names
          [] OTHER -> path.names)

-----------------------------------------------------------------------------
(* ValidateWorkspaceMount. *)

\* filepath.Rel of clean paths, and how it is asked.
Rel(base, target) ==
  LET shared == Cardinality({n \in DOMAIN base : IsPrefix(SubSeq(base, 1, n), target)})
  IN [i \in 1 .. Len(base) - shared |-> ".."] \o SubSeq(target, shared + 1, Len(target))

\* Seeded bug: the arguments of filepath.Rel are swapped.
ChildOrSame(path, parent) == path = parent \/ Head(Rel(path, parent)) # ".."

SameOrChild(path, parent) == path = parent \/ Head(Rel(parent, path)) # ".."

ForbiddenPathIsHome(path) == path = HomePath

DefaultForbiddenPaths ==
  {HomePath, Written("home", <<".ssh">>), Written("home", <<".claude">>),
   Written("home", <<".config", "clash">>),
   Written("home", <<"Library", "Application Support", "clash-verge-rev">>),
   Written("home", <<"Library", "Keychains">>), Written("root", <<"Library", "Keychains">>)}

AllForbiddenPaths(policy) ==
  (policy.forbiddenPaths \cup DefaultForbiddenPaths) \ {BlankPath}

ValidateWorkspaceMount(policy) ==
  /\ policy.mount # BlankPath
  /\ \A path \in AllForbiddenPaths(policy) :
       LET mount == NormalizePath(policy.mount)  forbidden == NormalizePath(path)
       IN IF ForbiddenPathIsHome(path) THEN mount # forbidden
                                       ELSE ~SameOrChild(mount, forbidden)

-----------------------------------------------------------------------------
(* What a text shows. *)

Text(class, path) == [class |-> class, path |-> path]
Blank == Text("blank", <<>>)

\* A text of these classes is nothing else: it mentions no path.
BareClasses == {"blank", "1", "proxy-managed", "local hosts"}
ShownText == {text \in [class : STRING, path : Seq(STRING)] :
                text.class \in BareClasses => text.path = <<>>}

\* strings.Contains of a path in a text that mentions another: the names of the
\* one in a row among those of the other, the last of them perhaps cut short.
Shows(observed, path) ==
  \E start \in 0 .. Len(observed) - Len(path) :
    \A i \in 1 .. Len(path) :
      \/ observed[start + i] = path[i]
      \/ i = Len(path) /\ <<observed[start + i], path[i]>> \in LongerNames

\* The home directory itself is not looked for: the workspace is below it.
MentionsSensitivePath(observed, policy) ==
  /\ observed # <<>>
  /\ \E path \in AllForbiddenPaths(policy) :
       ~ForbiddenPathIsHome(path) /\ Shows(observed, NormalizePath(path))

-----------------------------------------------------------------------------
(* validateEnvironment, for one variable. *)

HerdrNames == {"HERDR_ENV", "HERDR_SOCKET_PATH", "HERDR_PANE_ID", "HERDR_TAB_ID"}
ProxyNames == {"HTTPS_PROXY", "NO_PROXY"}
SSHAgentNames == {"SSH_AUTH_SOCK", "SSH_AUTH_SOCK_GATEWAY"}

\* By a fragment of the name; and what else is forbidden by default.
CredentialNames == {"ANTHROPIC_API_KEY", "GITHUB_TOKEN"}
DefaultForbiddenEnvNames == {"CLAUDE_CONFIG_DIR", "SSH_AGENT_PID", "KEYCHAIN"}

IsSandboxHomePath(path) == IsPrefix(<<"home", "agent">>, Clean(path))

HerdrEnvValid(name, value, policy) ==
  /\ policy.herdr
  /\ \/ name = "HERDR_ENV" /\ value.class = "1"
     \/ /\ name = "HERDR_SOCKET_PATH" /\ value = Text("path", policy.socketPath)
        /\ IsSandboxHomePath(policy.socketPath)
     \/ /\ name = "HERDR_PANE_ID" /\ value = policy.paneID
        /\ ~MentionsSensitivePath(value.path, policy)

ProxyEnvValid(name, value) ==
  \/ value = Blank
  \/ value.class = IF name = "NO_PROXY" THEN "local hosts" ELSE "gateway:3128"

SSHAgentEnvValid(name, value, policy) ==
  /\ policy.sshAgent
  /\ IF name = "SSH_AUTH_SOCK"
     THEN value.class = "path" /\ ~MentionsSensitivePath(value.path, policy)
     ELSE value.class \in {"gateway:3128", "gateway"}

IsForbiddenEnvName(name, policy) ==
  name \in policy.forbiddenEnv \cup CredentialNames \cup DefaultForbiddenEnvNames

VariableValid(name, value, policy) ==
  \/ name \in HerdrNames /\ HerdrEnvValid(name, value, policy)
  \/ name \in ProxyNames /\ ProxyEnvValid(name, value)
  \/ name \in SSHAgentNames /\ SSHAgentEnvValid(name, value, policy)
  \/ /\ name \notin HerdrNames \cup ProxyNames \cup SSHAgentNames
     /\ IF IsForbiddenEnvName(name, policy)
        THEN name \in CredentialNames /\ value.class = "proxy-managed"
        ELSE ~MentionsSensitivePath(value.path, policy)

-----------------------------------------------------------------------------
(* The rest of ValidateInspection, before and after the environment. *)

SurroundingsValid(seen, policy) ==
  /\ ValidateWorkspaceMount(policy)
  /\ seen.pwd /\ seen.mounts # {}
  /\ \A path \in seen.mounts : ~MentionsSensitivePath(path, policy)
  /\ ~seen.sibling

\* A variable that is unset or blank is not compared.
Agrees(name, env, expected) ==
  name \notin DOMAIN env \/ env[name] \in {Blank, expected}

RuntimeValid(seen, policy) ==
  /\ policy.timezone # Blank => Agrees("TZ", seen.env, policy.timezone) /\ seen.date
  /\ policy.locale # Blank =>
       /\ Agrees("LANG", seen.env, policy.locale)
       /\ seen.locale \in {policy.locale, Text("C.UTF-8", <<>>)}
=============================================================================
