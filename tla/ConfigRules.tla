---------------------------- MODULE ConfigRules ----------------------------
(***************************************************************************)
(* What nyet makes of a config file: the order of its checks, the values it    *)
(* takes from the environment and those it refuses to, what each engine        *)
(* cannot honour, the ceilings, and the directories a connection serves         *)
(* (src/config.rs, src/resolver.rs).                                           *)
(*                                                                             *)
(* A text is a function from keys to what is written there: the form of the    *)
(* value, the value, and whether it names an environment variable. It has one   *)
(* connection. A variable may be unset, not Unicode, or put any value that the  *)
(* form admits in the place of the key.                                        *)
(***************************************************************************)
EXTENDS GuardrailRules

CONSTANTS
    Absent,     \* no value
    Real        \* the directories there are: path -> the path without symlinks

ASSUME RealAssumption ==
    /\ DOMAIN Real \subseteq Seq(STRING) /\ Absent \notin DOMAIN Real
    /\ \A p \in DOMAIN Real : Real[p] \in DOMAIN Real /\ Real[Real[p]] = Real[p]

DirKeys      == {"allowed_dirs"}
ListKeys     == {"allow_functions", "deny_functions", "pii.columns"} \cup DirKeys
SecretKeys   == {"url", "password"}
NumberKeys   == {"timeout", "max_timeout", "defaults.timeout", "defaults.max_timeout",
                 "guardrail.max_rows"}
TextKeys     == {"engine", "path", "ssh.host", "ssh.remote", "guardrail.mode", "pii.mode",
                 "audit.path"}
SwitchKeys   == {"audit.enabled"}
Keys == ListKeys \cup SecretKeys \cup NumberKeys \cup TextKeys \cup SwitchKeys

\* The keys that are the config owner's word on what the agent may do.
PolicyKeys == ListKeys \cup SwitchKeys \cup {"guardrail.mode", "guardrail.max_rows", "pii.mode", "audit.path",
                 "max_timeout", "defaults.max_timeout"}

Missing == [form |-> "absent", lit |-> Absent, var |-> FALSE]

Forms(key) ==
    {"absent"} \cup
    CASE key \in ListKeys   -> {"list"}
      [] key \in SecretKeys -> {"text", "table"}
      [] key \in NumberKeys -> {"number"}
      [] key \in SwitchKeys -> {"switch"}
      [] OTHER -> {"text"}

(***************************************************************************)
(* The values that must be written out: looked for in the raw tree, where      *)
(* the form is the one that will be read.                                      *)
(***************************************************************************)
LiteralForm(key) ==
    CASE key \in ListKeys -> "list"
      [] key \in SecretKeys -> "table"
      [] key \in {"guardrail.mode", "pii.mode", "audit.path"} -> "text"
      [] OTHER -> "none"

\* A bug: only lists and references are looked at.
RejectsVariable_NoText(text) ==
    \E k \in Keys : text[k].var /\ text[k].form = LiteralForm(k) /\ text[k].form # "text"

RejectsVariable(text) ==
    \E k \in Keys : text[k].var /\ text[k].form = LiteralForm(k)

\* The environment: what it says of the one variable, and what it would put
\* in the place of each key.
MissingVariable(text, env) ==
    env.state # "set" /\ \E k \in Keys : text[k].var

Substituted(text, env) ==
    [k \in Keys |-> IF text[k].var THEN env.puts[k] ELSE text[k].lit]

WrongForm(text) == \E k \in Keys : text[k].form \notin Forms(k)

(***************************************************************************)
(* The checks of the typed config.                                             *)
(***************************************************************************)
ValidAllowedDir(dir) == dir.kind \in {"absolute", "home"}

Zeros(conf) == \E k \in NumberKeys \ {"guardrail.max_rows"} : conf[k] = 0

\* A reference names exactly one source; a value written out names none.
OneSource(conf, key) == conf[key] = Absent \/ conf[key].source # "two"

SshKeys == {"ssh.host", "ssh.remote"}

Tunnelled(conf) == \E k \in SshKeys : conf[k] # Absent

\* A host or a remote is good, "blank", or one that ssh would read as something
\* else: an option, a port that is none.
SshObjections(conf) ==
    IF ~Tunnelled(conf) THEN {}
    ELSE FirstRefusal(<<
             When(\E k \in SshKeys : conf[k] \in {Absent, "blank"}, "SSH_MISSING_FIELD"),
             When(conf.engine = "sqlite", "SSH_WITH_SQLITE"),
             When(\E k \in SshKeys : conf[k] = "unsafe", "SSH_INVALID") >>)

\* The url of a tunnelled MongoDB connection would go round the tunnel.
MongoTunnelObjections(conf, url) ==
    When(Tunnelled(conf) /\ url = "around", "MONGO_TUNNEL_INVALID")

Columns(conf) == IF conf["pii.columns"] = Absent THEN {} ELSE conf["pii.columns"]

\* Only a url written in the config can be judged here.
MongoObjections(conf) ==
    IF conf.engine # "mongodb" THEN {}
    ELSE FirstRefusal(<<
             When("deep" \in Columns(conf), "PII_RULE_INVALID"),
             IF conf.url # Absent /\ conf.url.source = "config"
             THEN MongoTunnelObjections(conf, conf.url.value) ELSE {} >>)

RedisObjections(conf) ==
    When(/\ conf.engine \in {"redis", "valkey"}
         /\ Columns(conf) # {} \/ conf["pii.mode"] # Absent, "PII_RULE_INVALID")

PiiObjections(conf) ==
    FirstRefusal(<<
        When(conf["pii.mode"] # Absent /\ Columns(conf) = {}, "PII_RULE_INVALID"),
        When(conf["pii.mode"] \notin {Absent, "deny", "mask"}, "PII_RULE_INVALID"),
        When("bad" \in Columns(conf), "PII_RULE_INVALID") >>)

Section(conf) ==
    [mode |-> IF conf["guardrail.mode"] = Absent THEN None ELSE conf["guardrail.mode"],
     max_cost |-> Unread,
     max_rows |-> IF conf["guardrail.max_rows"] = Absent THEN Unread ELSE conf["guardrail.max_rows"]]

ConfigObjections(conf) ==
    FirstRefusal(<<
        When(conf.allowed_dirs # Absent /\ \E d \in conf.allowed_dirs : ~ValidAllowedDir(d), "INVALID_ALLOWED_DIR"),
        When(Zeros(conf), "ZERO_VALUE"),
        When(\E k \in SecretKeys : ~OneSource(conf, k), "SECRET_NOT_ONE_SOURCE"),
        SshObjections(conf),
        MongoObjections(conf),
        RedisObjections(conf),
        SectionObjections(conf.engine, Section(conf)),
        PiiObjections(conf) >>)

\* parse: the config, or the reason there is none.
Load(text, env) ==
    LET conf == Substituted(text, env)
        why  == FirstRefusal(<<
                    When(RejectsVariable(text), "ENV_VAR_IN_POLICY"),
                    When(MissingVariable(text, env), "MISSING_ENV_VAR"),
                    When(WrongForm(text) \/ text["engine"].form = "absent", "INVALID") >>)
    IN  [why |-> IF why # {} THEN why ELSE ConfigObjections(conf), conf |-> conf]

(***************************************************************************)
(* What the rest of the program asks of a config.                              *)
(***************************************************************************)
FirstOf(values, builtin) ==
    LET present == SelectSeq(values, LAMBDA v : v # Absent)
    IN  IF present = << >> THEN builtin ELSE present[1]

Capped(value, ceiling) == IF ceiling = Absent THEN value ELSE Min({value, ceiling})

\* timeout_secs and row_limit: the flag, the connection, the defaults; under the
\* ceiling of the connection or else that of the defaults, the flag too.
Effective(conf, flag, builtin) ==
    Capped(FirstOf(<<flag, conf["timeout"], conf["defaults.timeout"]>>, builtin),
           FirstOf(<<conf["max_timeout"], conf["defaults.max_timeout"]>>, Absent))

AuditEnabled(conf) == conf["audit.enabled"] # FALSE

\* expand_home: an entry no path can be made of grants nothing.
Expanded(dir, home) ==
    CASE dir.kind = "absolute" -> dir.path
      [] dir.kind = "home" /\ home # Absent -> home \o dir.path
      [] OTHER -> Absent

IsAllowed(cwd, dirs, home) ==
    dirs # Absent /\ \E d \in dirs :
        LET path == Expanded(d, home)
        IN  path \in DOMAIN Real /\ IsPrefix(Real[path], cwd)

=============================================================================
