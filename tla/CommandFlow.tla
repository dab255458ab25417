---------------------------- MODULE CommandFlow ----------------------------
(***************************************************************************)
(* One invocation of nyet, from the config file to the answer (src/main.rs).   *)
(* It follows list, agent-setup's skill text ("skill"), doctor without an      *)
(* alias, schema, explain, doctor of a connection ("diagnose") and query; what *)
(* a query does after its guardrail has spoken is RowsCommand.                 *)
(*                                                                             *)
(* The config file, the environment, the working directory and the statement   *)
(* are inputs. Secrets, tunnels, servers and the log answer or fail as they    *)
(* please.                                                                     *)
(***************************************************************************)
EXTENDS ConfigRules

CONSTANTS
    Inputs,             \* invocations: [call, file], as below
    Plans(_)            \* what the servers of an engine may answer to EXPLAIN

VARIABLES
    call,       \* command, stmt, known (the alias), dir (Absent: gone), home
    file,       \* readable, text, env
    pc,
    conf,       \* the config once loaded
    did,        \* what was asked of the world: "secret", "tunnel", "session"
    planned,    \* what the server answered to EXPLAIN
    outcome,    \* what the command came to, before it is recorded
    record,     \* what the audit log says of it
    answer      \* what leaves the process

vars == <<call, file, pc, conf, did, planned, outcome, record, answer>>

Listings  == {"list", "skill", "doctor"}
Scoped    == {"schema", "explain", "query"}
Commands  == Listings \cup Scoped \cup {"diagnose"}
Events    == {"secret", "tunnel", "session"}

ServerEngines == {"postgres", "mysql", "mariadb", "clickhouse", "redis", "valkey", "mongodb"}
RedisEngines  == {"redis", "valkey"}
SqlEngines    == {"sqlite", "postgres", "mysql", "mariadb", "clickhouse"}

Statements == {"query", "metadata", "refused"}

\* Nothing is written where a key is absent, a variable stands in text, and a
\* path is a sequence of names.
ASSUME InputsAssumption ==
    \A input \in Inputs :
        LET text == input.file.text
        IN  /\ input.call.command \in Commands /\ input.call.stmt \in Statements
            /\ {input.call.dir, input.call.home} \subseteq Seq(STRING) \cup {Absent}
            /\ \A k \in Keys :
                   /\ text[k].form = "absent" => text[k] = Missing
                   /\ text[k].var => text[k].form \in {"text", "list", "table"}
                   /\ text[k].form = "number" => text[k].lit \in Nat
            /\ text["allowed_dirs"].form = "list" /\ ~text["allowed_dirs"].var =>
                   \A d \in text["allowed_dirs"].lit : d.path \in Seq(STRING)

\* Servers count in whole numbers.
ASSUME PlansAssumption == \A engine \in SqlEngines : Plans(engine) \subseteq PlanShape(engine)

\* raw: the text of somebody else that the answer quotes, by where it came from:
\* connecting, asking about the server, or a statement over data. shown: the
\* answer names connections, or where one may be used, which nobody asked it for.
Success == [code |-> "OK", raw |-> None, warns |-> {}, verdict |-> None, shown |-> FALSE]

Failure(code) == [Success EXCEPT !.code = code]

\* A refusal whose message or hint names connections, or their directories.
Telling(code, names) == [Failure(code) EXCEPT !.shown = names]

Codes    == {"OK", "CONFIG_INVALID", "INTERNAL", "DIR_NOT_ALLOWED", "NOT_IMPLEMENTED", "NYET",
             "CONNECTION_FAILED", "DB_ERROR", "TIMEOUT", "AUDIT_FAILED"}
Quotes   == {None, "connect", "catalog", "statement"}
Warnings == {"NO_PLAN", "SKIPPED", "NO_ENGINE_PLAN", "TOO_SLOW"}
Judgements == {None, "no_estimate", "expensive", "ok"}
Results  == [code : Codes, raw : Quotes, warns : SUBSET Warnings, verdict : Judgements, shown : BOOLEAN]

ASSUME ResultsAssumption == Absent \notin Results

NotPlanned == [fate |-> None, plan |-> << >>]

Init ==
    /\ \E input \in Inputs : call = input.call /\ file = input.file
    /\ pc = "read" /\ conf = Absent /\ did = {} /\ planned = NotPlanned
    /\ outcome = Absent /\ record = None /\ answer = Absent

(***************************************************************************)
(* The ways a step ends.                                                       *)
(***************************************************************************)
Goto(next) == pc' = next /\ UNCHANGED <<call, file, outcome, record, answer>>

\* Before there is an engine to name, or where there is no database: unrecorded.
Leaves(result) ==
    answer' = result /\ pc' = "done" /\ UNCHANGED <<call, file, outcome, record>>

\* Everything else goes through the log.
Ends(result) ==
    outcome' = result /\ pc' = "finish" /\ UNCHANGED <<call, file, record, answer>>

Asks(event) == did' = did \cup {event}

\* agent-setup falls back to the text without connections.
GivesUp(failure) == Leaves(IF call.command = "skill" THEN Success ELSE failure)

(***************************************************************************)
(* Config and directory.                                                       *)
(***************************************************************************)
ReadConfig ==
    /\ pc = "read"
    /\ IF file.readable THEN Goto("load") ELSE GivesUp(Failure("CONFIG_INVALID"))
    /\ UNCHANGED <<conf, did, planned>>

\* Most reasons not to load name the connection that is wrong.
LoadConfig ==
    /\ pc = "load"
    /\ LET loaded == Load(file.text, file.env)
       IN  IF loaded.why = {} THEN Goto("cwd") /\ conf' = loaded.conf
           ELSE (\E names \in BOOLEAN : GivesUp(Telling("CONFIG_INVALID", names))) /\ UNCHANGED conf
    /\ UNCHANGED <<did, planned>>

ResolveCwd ==
    /\ pc = "cwd"
    /\ IF call.dir = Absent THEN GivesUp(Failure("INTERNAL")) ELSE Goto("route")
    /\ UNCHANGED <<conf, did, planned>>

Allowed == IsAllowed(call.dir, conf.allowed_dirs, call.home)

ListConnections ==
    /\ pc = "route" /\ call.command \in Listings
    /\ Leaves([Success EXCEPT !.shown = Allowed])
    /\ UNCHANGED <<conf, did, planned>>

(***************************************************************************)
(* open_session; doctor goes without the directory.                            *)
(***************************************************************************)
\* A bug: a known alias is enough.
LookupAlias_Unscoped ==
    /\ pc = "route" /\ call.command \notin Listings
    /\ IF call.known THEN Goto("engine") ELSE Leaves(Telling("CONFIG_INVALID", TRUE))
    /\ UNCHANGED <<conf, did, planned>>

\* The hint for an alias the config does not have is every alias it has,
\* before any directory is looked at.
LookupAlias ==
    /\ pc = "route" /\ call.command \notin Listings
    /\ IF call.known THEN Goto("scope") ELSE Leaves(Telling("CONFIG_INVALID", TRUE))
    /\ UNCHANGED <<conf, did, planned>>

\* The hint is where the connection is allowed from, if anywhere.
CheckScope ==
    /\ pc = "scope"
    /\ IF Allowed \/ call.command = "diagnose" THEN Goto("engine")
       ELSE Leaves(Telling("DIR_NOT_ALLOWED", conf.allowed_dirs \notin {Absent, {}}))
    /\ UNCHANGED <<conf, did, planned>>

BuildEngine ==
    /\ pc = "engine"
    /\ CASE conf.engine = "sqlite" ->
                IF conf.path = Absent THEN Leaves(Failure("CONFIG_INVALID")) ELSE Goto("session")
         [] conf.engine \in ServerEngines ->
                IF conf.url = Absent THEN Leaves(Failure("CONFIG_INVALID")) ELSE Goto("url")
         [] OTHER -> Leaves(Failure("NOT_IMPLEMENTED"))
    /\ UNCHANGED <<conf, did, planned>>

\* A secret is in the config, or asked for elsewhere.
Resolves(secret, value) ==
    IF secret.source = "config" THEN value = secret.value /\ UNCHANGED did ELSE Asks("secret")

SecretFails(secret) ==
    secret.source # "config" /\ Asks("secret") /\ Leaves(Failure("CONFIG_INVALID"))

\* The rule for tunnelled MongoDB judges the url that will be dialled.
ResolveUrl ==
    /\ pc = "url"
    /\ \/ \E value \in {"plain", "around"} :
              /\ Resolves(conf.url, value)
              /\ IF conf.engine = "mongodb" /\ MongoTunnelObjections(conf, value) # {}
                 THEN Leaves(Failure("CONFIG_INVALID")) ELSE Goto("password")
       \/ SecretFails(conf.url)
    /\ UNCHANGED <<conf, planned>>

ResolvePassword ==
    /\ pc = "password"
    /\ IF conf.password = Absent THEN Goto("session") /\ UNCHANGED did
       ELSE \/ Resolves(conf.password, conf.password.value) /\ Goto("session")
            \/ SecretFails(conf.password)
    /\ UNCHANGED <<conf, planned>>

EnterCommand ==
    /\ pc = "session"
    /\ Goto(IF call.command \in {"explain", "query"} THEN "layer1" ELSE "tunnel")
    /\ UNCHANGED <<conf, did, planned>>

(***************************************************************************)
(* Layer 1, as far as it needs no server. Only SQL has metadata statements.    *)
(***************************************************************************)
Metadata == call.stmt = "metadata" /\ conf.engine \in SqlEngines

Layer1 ==
    /\ pc = "layer1"
    /\ CASE call.stmt = "refused" -> Ends(Failure("NYET"))
         [] Metadata /\ call.command = "explain" ->
                Ends([Success EXCEPT !.verdict = "no_estimate", !.warns = {"NO_PLAN"}])
         [] OTHER -> Goto("tunnel")
    /\ UNCHANGED <<conf, did, planned>>

(***************************************************************************)
(* The tunnel and the connection. doctor reports what broke and is a success.  *)
(***************************************************************************)
\* A bug: a connection that fails ends the command on the spot.
CannotReach_AtOnce ==
    Leaves([Failure("CONNECTION_FAILED") EXCEPT !.raw = "connect"])

CannotReach ==
    IF call.command = "diagnose" THEN Ends([Success EXCEPT !.raw = "connect"])
    ELSE Ends([Failure("CONNECTION_FAILED") EXCEPT !.raw = "connect"])

OpenTunnel ==
    /\ pc = "tunnel"
    /\ IF Tunnelled(conf) THEN Asks("tunnel") /\ (Goto("runtime") \/ CannotReach)
       ELSE Goto("runtime") /\ UNCHANGED did
    /\ UNCHANGED <<conf, planned>>

StartRuntime ==
    /\ pc = "runtime"
    /\ \/ Goto("connect")
       \/ IF call.command = "diagnose" THEN Leaves(Failure("INTERNAL"))
          ELSE Ends(Failure("INTERNAL"))
    /\ UNCHANGED <<conf, did, planned>>

Connect ==
    /\ pc = "connect" /\ Asks("session")
    /\ Goto("ask") \/ CannotReach
    /\ UNCHANGED <<conf, planned>>

(***************************************************************************)
(* What the database is asked. A connection with a PII policy never passes on  *)
(* what the server says of a statement.                                        *)
(***************************************************************************)
HasPolicy == Columns(conf) # {}

Rejected == [Failure("DB_ERROR") EXCEPT !.raw = IF HasPolicy THEN None ELSE "statement"]

OwnGuardrail == Guardrail(conf.engine, Section(conf))
Off == [mode |-> "off", max_cost |-> DefaultMaxCost, max_rows |-> DefaultMaxRows]

\* Only a plain SQL query is measured.
QueryGuardrail == IF call.stmt = "query" /\ conf.engine \in SqlEngines THEN OwnGuardrail ELSE Off

\* What execute makes of a plan: ClickHouse fails open on a slow one as well.
QueryRefuses(answered) ==
    /\ PlansFirst(QueryGuardrail)
    /\ \/ answered.fate = "got" /\ Refuses(QueryGuardrail, Estimate(conf.engine, answered.plan))
       \/ answered.fate = "slow" /\ conf.engine # "clickhouse"

\* A bug: explain judges by the engine's default guardrail.
Judged_Default(plan) ==
    LET default == Guardrail(conf.engine, [mode |-> None, max_cost |-> Unread, max_rows |-> Unread])
    IN  [Success EXCEPT !.verdict = Verdict(default, Estimate(conf.engine, plan))]

\* The plan explain shows for one that was got.
Judged(plan) ==
    LET estimate == Estimate(conf.engine, plan)
        verdict  == Verdict(OwnGuardrail, estimate)
    IN  [Success EXCEPT
            !.verdict = verdict,
            !.warns = When(PlansFirst(OwnGuardrail) /\ verdict = "no_estimate", "SKIPPED")]

\* PostgreSQL and MySQL plan on the guardrail's budget, the rest on the query's.
OnBudget == conf.engine \in {"postgres"} \cup MySqlLike

Explained(answered) ==
    CASE answered.fate = "got" -> Judged(answered.plan)
      [] answered.fate = "none" -> [Success EXCEPT !.verdict = "no_estimate", !.warns = {"NO_ENGINE_PLAN"}]
      [] answered.fate = "slow" ->
             IF OnBudget THEN [Success EXCEPT !.verdict = "no_estimate", !.warns = {"TOO_SLOW"}]
             ELSE Failure("TIMEOUT")
      [] answered.fate = "late" -> Failure("TIMEOUT")
      [] answered.fate = "refused" -> Failure("NYET")
      [] OTHER -> Rejected

\* Redis classifies the command and has no plans at all.
Answers ==
    IF conf.engine \in RedisEngines
    THEN [fate : {"none", "refused", "failed", "late"}, plan : {<< >>}]
    ELSE [fate : {"failed", "slow", "late"}, plan : {<< >>}] \cup [fate : {"got"}, plan : Plans(conf.engine)]

AskPlan ==
    /\ pc = "ask" /\ call.command = "explain"
    /\ \E answered \in Answers : planned' = answered /\ Ends(Explained(answered))
    /\ UNCHANGED <<conf, did>>

\* The query: its plan where the guardrail wants one, then the statement.
RunQuery ==
    /\ pc = "ask" /\ call.command = "query"
    /\ \E answered \in IF PlansFirst(QueryGuardrail) THEN Answers ELSE {NotPlanned} :
           /\ planned' = answered
           /\ IF QueryRefuses(answered) THEN Ends(Failure("NYET"))
              ELSE \/ Ends(Success) \/ Ends(Rejected) \/ Ends(Failure("TIMEOUT"))
                   \/ conf.engine \in RedisEngines /\ Ends(Failure("NYET"))
    /\ UNCHANGED <<conf, did>>

\* A table that is not there is nyet's own message.
Catalogue ==
    /\ pc = "ask" /\ call.command = "schema"
    /\ Ends(Success) \/ Ends(Rejected) \/ Ends(Failure("DB_ERROR")) \/ Ends(Failure("TIMEOUT"))
    /\ UNCHANGED <<conf, did, planned>>

\* A bug: doctor does not go through engine_failure and forgets the policy.
Diagnose_Verbatim ==
    /\ pc = "ask" /\ call.command = "diagnose"
    /\ \E said \in {None, "catalog", "statement"} : Ends([Success EXCEPT !.raw = said])
    /\ UNCHANGED <<conf, did, planned>>

\* doctor quotes what the server says about itself, and the probe's refusal
\* where there is no policy.
Diagnose ==
    /\ pc = "ask" /\ call.command = "diagnose"
    /\ \E said \in {None, "catalog", "statement"} :
           Ends([Success EXCEPT !.raw = IF HasPolicy /\ said = "statement" THEN None ELSE said])
    /\ UNCHANGED <<conf, did, planned>>

(***************************************************************************)
(* audit_finish: recorded, then released.                                      *)
(***************************************************************************)
\* The log has a place (the config's, XDG_DATA_HOME's or HOME's) and takes the
\* line, or there is no answer.
Record ==
    /\ pc = "finish"
    /\ \/ ~AuditEnabled(conf) /\ pc' = "emit" /\ UNCHANGED <<record, answer>>
       \/ AuditEnabled(conf) /\ record' = outcome.code /\ pc' = "emit" /\ UNCHANGED answer
       \/ AuditEnabled(conf) /\ answer' = Failure("AUDIT_FAILED") /\ pc' = "done" /\ UNCHANGED record
    /\ UNCHANGED <<call, file, conf, did, planned, outcome>>

\* Standard output may fail under a success; a failure goes out as it can.
Emit ==
    /\ pc = "emit" /\ pc' = "done"
    /\ answer' = outcome \/ (outcome.code = "OK" /\ answer' = Failure("INTERNAL"))
    /\ UNCHANGED <<call, file, conf, did, planned, outcome, record>>

Over == pc = "done" /\ UNCHANGED vars

Next ==
    \/ ReadConfig \/ LoadConfig \/ ResolveCwd \/ ListConnections
    \/ LookupAlias \/ CheckScope \/ BuildEngine \/ ResolveUrl \/ ResolvePassword \/ EnterCommand
    \/ Layer1 \/ OpenTunnel \/ StartRuntime \/ Connect
    \/ AskPlan \/ RunQuery \/ Catalogue \/ Diagnose
    \/ Record \/ Emit \/ Over

Spec == Init /\ [][Next]_vars

(***************************************************************************)
(* Properties.                                                                 *)
(***************************************************************************)

\* What the text of the config says: the directory is at or under the real
\* place of an entry that is written out and stays where it points.
Granted ==
    LET dirs == file.text["allowed_dirs"]
        Place(d) == (IF d.kind = "home" THEN call.home ELSE << >>) \o d.path
    IN  dirs.form = "list" /\ ~dirs.var /\
        \E d \in dirs.lit, n \in 0 .. Len(call.dir) :
            /\ d.kind \in {"absolute", "home"} /\ (d.kind = "home" => call.home # Absent)
            /\ Place(d) \in DOMAIN Real
            /\ Real[Place(d)] = SubSeq(call.dir, 1, n)

\* From a directory that the text of the config does not grant, whatever the
\* environment and the links say, no secret is fetched, no tunnel opened, no
\* server reached, and no command that succeeds names a connection (check_scope
\* before build_engine; list, agent-setup and doctor show what is allowed;
\* allowed_dirs literal only). doctor of a named connection is the owner's. A
\* refusal does name connections from anywhere: the hints of lookup_alias and
\* check_scope and a config that does not load.
ScopeHolds ==
    /\ did # {} /\ call.command # "diagnose" => Granted
    /\ answer # Absent /\ answer.code = "OK" /\ answer.shown => Granted

\* A config that loads is governed by what is written in it: no environment
\* decides a value of policy (reject_env_vars_in_policy before substitute).
PolicyIgnoresEnvironment ==
    conf # Absent => \A k \in PolicyKeys : conf[k] = file.text[k].lit

\* With the log on, an answer that quotes anything from outside, or follows a
\* session, is in the log with its true outcome, or is not given (audit_finish
\* on every path, doctor's and the failures' too).
TouchedIsRecorded ==
    pc = "done" /\ ("session" \in did \/ answer.raw # None) /\ AuditEnabled(conf) =>
        \/ answer = Failure("AUDIT_FAILED")
        \/ outcome # Absent /\ record = outcome.code /\ answer \in {outcome, Failure("INTERNAL")}

\* Where columns are protected, what a server says of a statement over data
\* reaches neither the log nor the answer (engine_failure, redact_diagnosis).
RawIsWithheld ==
    conf # Absent /\ file.text["pii.columns"].lit \notin {Absent, {}} =>
        \A said \in {outcome, answer} \ {Absent} : said.raw # "statement"

\* explain's verdict is what query would decide on the same answer of the
\* server: expensive is refused, all else runs; a plan that was too slow is
\* refused wherever the guardrail is on.
ExplainForetellsQuery ==
    outcome # Absent /\ call.command = "explain" /\ outcome.code = "OK" =>
        IF "TOO_SLOW" \in outcome.warns
        THEN PlansFirst(QueryGuardrail) => QueryRefuses(planned)
        ELSE (outcome.verdict = "expensive") <=> QueryRefuses(planned)

\* A plan grown by a node, a step or a table is never let through where the
\* smaller one was refused (the folds of guardrail.rs); the steps of one MySQL
\* select are dependent together.
Grown(engine, plan) ==
    {Append(plan, more[1]) : more \in
        {p \in Plans(engine) :
            /\ Len(p) = 1
            /\ engine \in MySqlLike =>
                \A i \in DOMAIN plan : plan[i].id = p[1].id => plan[i].dependent = p[1].dependent}}

GrownStaysRefused ==
    planned.fate = "got" /\ Refuses(OwnGuardrail, Estimate(conf.engine, planned.plan)) =>
        \A grown \in Grown(conf.engine, planned.plan) : Refuses(OwnGuardrail, Estimate(conf.engine, grown))

\* What explain says of a plan that was too slow: that query would refuse it
\* (planning_too_slow_warning).
SlowMeansRefused ==
    outcome # Absent /\ call.command = "explain" =>
        ("TOO_SLOW" \in outcome.warns => QueryRefuses(planned))

=============================================================================
