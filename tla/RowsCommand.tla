----------------------------- MODULE RowsCommand -----------------------------
(***************************************************************************)
(* One nyet query or nyet sample: rows_command, run_attempt and             *)
(* audit_finish of src/main.rs.  A statement passes layer 1, the guardrail,  *)
(* the engine and net B; sample may make one cheaper second attempt over     *)
(* the same tunnel; the record is written, then the answer is shown.        *)
(*                                                                          *)
(* Time is counted in ticks.  The engines are known here by what they may    *)
(* answer and how long they may take.                                       *)
(***************************************************************************)
EXTENDS Naturals, FiniteSets

CONSTANTS
    Engines,    \* the engines a connection may name
    Timeout,    \* session.timeout_secs, in ticks
    Second,     \* ticks in a second: the least budget of a second attempt
    Slack,      \* ticks a connect, a tunnel or a goodbye may take (bound)
    Limit,      \* the effective row limit
    NoReply, NoRecord, NoAnswer

Kinds == {"query", "sample"}

EngineNames == {"sqlite", "postgres", "mysql", "clickhouse", "mongodb", "redis"}

\* guardrail::engine_modes: the others accept "off" and nothing else.
Planners == {"postgres", "mysql", "clickhouse"}

\* The engines that put everything after the connect under one deadline.
OneDeadline == {"sqlite", "postgres", "mysql", "mongodb"}

ASSUME RowsAssumption ==
    /\ Engines \subseteq EngineNames
    /\ Timeout \in Nat /\ Second \in 1..Timeout
    /\ Slack \in Nat
    /\ Limit \in Nat \ {0}

JobType == [kind : Kinds, engine : Engines,
            ssh : BOOLEAN,      \* the connection has [ssh]
            guard : BOOLEAN,    \* its guardrail is not off
            pii : BOOLEAN,      \* its [pii] policy is not empty
            audit : BOOLEAN]    \* [audit] is enabled

\* What config parsing lets through.
Jobs == {j \in JobType :
           /\ j.guard => j.engine \in Planners
           /\ j.ssh => j.engine # "sqlite"
           /\ j.pii => j.engine # "redis"}

WarningCodes == {"TRUNCATED", "GUARDRAIL_SKIPPED", "SAMPLE_FALLBACK", "PII_MASKED"}

SessionErrors == {"CONFIG_INVALID", "DIR_NOT_ALLOWED", "NOT_IMPLEMENTED"}

\* The contract codes; NYET is told apart by its reason: a layer-1 one (REFUSED),
\* EXPENSIVE_QUERY, or one of net B (PII).
Codes == SessionErrors \cup
           {"ok", "REFUSED", "EXPENSIVE_QUERY", "PII", "CONNECTION_FAILED",
            "DB_ERROR", "TIMEOUT", "AUDIT_FAILED", "INTERNAL"}

\* cells: do the rows hold values of columns that net B recognises as protected?
Cells == {"clear", "raw", "masked"}

\* matched: the rows the statement stands for; got: those the engine returned;
\* cut: ResultSet.truncated.
Reply == [matched : 0 .. Limit + 2, got : 0 .. Limit + 1, cut : BOOLEAN, cells : Cells]

\* What an audit record or an envelope says.
Told == [code : Codes, rows : 0..Limit, truncated : BOOLEAN,
         warnings : SUBSET WarningCodes, cells : Cells]

\* Which statement the record names: the first or the cheap one.
Record == [said : Told, sql : 1..2]

ASSUME NothingAssumption ==
    NoReply \notin Reply /\ NoRecord \notin Record /\ NoAnswer \notin Told

VARIABLES
    job,        \* the command line and the connection
    pc,         \* where the command is
    attempt,    \* 1, or 2 after the fallback
    guard,      \* this attempt plans before it runs
    judged,     \* what the plan of this attempt said
    budget,     \* query_timeout_ms of this attempt
    phase,      \* ticks of it spent
    clock,      \* started.elapsed(), read once: when the first attempt ends
    tunnel,     \* the ssh forward
    reply,      \* the ResultSet
    outcome,    \* the Result the command has come to
    warnings,   \* warning codes collected so far
    executed,   \* which statement the record will name
    record,     \* the audit record
    shown,      \* what the agent got
    opened,     \* history: forwards opened
    ran,        \* history: attempts whose statement the database may have executed
    over,       \* history: attempts whose plan was over the threshold
    slow,       \* history: attempts whose planning outran its budget
    work        \* history: ticks the database spent on plans and statements

vars == <<job, pc, attempt, guard, judged, budget, phase, clock, tunnel, reply, outcome,
          warnings, executed, record, shown, opened, ran, over, slow, work>>

ends == <<record, shown>>

Init ==
    /\ job \in Jobs
    /\ pc = "session"
    /\ attempt = 1
    /\ guard = FALSE
    /\ judged = "no"
    /\ budget = Timeout
    /\ phase = 0
    /\ clock = 0
    /\ tunnel = "none"
    /\ reply = NoReply
    /\ outcome = "none"
    /\ warnings = {}
    /\ executed = 1
    /\ record = NoRecord
    /\ shown = NoAnswer
    /\ opened = 0
    /\ ran = {}
    /\ over = {}
    /\ slow = {}
    /\ work = 0

\* The attempt is over; outcome is its Result.
EndAttempt(code) == outcome' = code /\ pc' = "settle"

Proceed(label) == pc' = label /\ UNCHANGED outcome

\* Only first_ms is ever read.
Elapse(d) == clock' = IF attempt = 1 THEN clock + d ELSE clock

\* d ticks of the query phase.
Spend(d) == phase' = phase + d /\ work' = work + d

-----------------------------------------------------------------------------
(* open_session, and the refusal of sample on Redis: neither is audited.    *)

SessionRefused ==
    /\ pc = "session"
    /\ outcome' \in SessionErrors
    /\ pc' = "report"
    /\ UNCHANGED <<job, attempt, guard, judged, budget, phase, clock, tunnel, reply,
                   warnings, executed, ends, opened, ran, over, slow, work>>

OpenSession ==
    /\ pc = "session"
    /\ ~(job.kind = "sample" /\ job.engine = "redis")
    /\ Proceed("validate")
    /\ UNCHANGED <<job, attempt, guard, judged, budget, phase, clock, tunnel, reply,
                   warnings, executed, ends, opened, ran, over, slow, work>>

-----------------------------------------------------------------------------
(* run_attempt.                                                             *)

\* Layer 1.  A statement that is not a plain query is never planned; what
\* sample writes is one.
Validate ==
    /\ pc = "validate"
    /\ \/ EndAttempt("REFUSED") /\ UNCHANGED guard
       \/ /\ \E is_query \in IF job.kind = "sample" THEN {TRUE} ELSE BOOLEAN :
                guard' = (is_query /\ job.guard)
          /\ Proceed("tunnel")
    /\ UNCHANGED <<job, attempt, judged, budget, phase, clock, tunnel, reply,
                   warnings, executed, ends, opened, ran, over, slow, work>>

\* tunnel.is_none(): the forward of the first attempt is used again.
OpenTunnel ==
    /\ pc = "tunnel"
    /\ IF job.ssh /\ tunnel = "none"
         THEN /\ \E d \in 0..Slack : Elapse(d)
              /\ \/ tunnel' = "up" /\ opened' = opened + 1 /\ Proceed("connect")
                 \/ EndAttempt("CONNECTION_FAILED") /\ UNCHANGED <<tunnel, opened>>
         ELSE Proceed("connect") /\ UNCHANGED <<tunnel, opened, clock>>
    /\ UNCHANGED <<job, attempt, guard, judged, budget, phase, reply, warnings,
                   executed, ends, ran, over, slow, work>>

\* The async runtime is built, and the engine connects, with a deadline of its
\* own.  ClickHouse has no session: its requests connect.
Connect ==
    /\ pc = "connect"
    /\ \/ EndAttempt("INTERNAL") /\ UNCHANGED clock
       \/ /\ job.engine = "clickhouse"
          /\ Proceed(IF guard THEN "plan" ELSE "run")
          /\ UNCHANGED clock
       \/ /\ job.engine = "redis"
          /\ \E d \in 0..Slack : Elapse(d)
          /\ Proceed("classify") \/ EndAttempt("CONNECTION_FAILED")
       \/ /\ job.engine \in OneDeadline
          /\ \E d \in 0..Slack : Elapse(d)
          /\ Proceed(IF guard THEN "plan" ELSE "run") \/ EndAttempt("CONNECTION_FAILED")
    /\ UNCHANGED <<job, attempt, guard, judged, budget, phase, tunnel, reply, warnings,
                   executed, ends, opened, ran, over, slow, work>>

\* Redis asks the server what the command does (COMMAND INFO), within a deadline
\* of its own; the command then has the whole budget again.  A late answer is a
\* database error here.
Classify ==
    /\ pc = "classify"
    /\ job.engine = "redis"
    /\ \E d \in 0..budget : work' = work + d /\ Elapse(d)
    /\ \/ Proceed("run")
       \/ \E code \in {"REFUSED", "DB_ERROR"} : EndAttempt(code)
    /\ UNCHANGED <<job, attempt, guard, judged, budget, phase, tunnel, reply, warnings,
                   executed, ends, opened, ran, over, slow>>

Judge(verdict) == judged' = verdict /\ Proceed("run")

\* PostgreSQL and MySQL plan inside the query phase: Got (under the threshold,
\* over it, or without a usable number), Failed, TooSlow, or a broken session.
\* A refusal waits for the goodbye of its connection.
PlanInSession ==
    /\ pc = "plan"
    /\ job.engine # "clickhouse"
    /\ \E d \in 0..budget :
          /\ Spend(d)
          /\ \/ /\ \E verdict \in {"accepted", "unknown"} : Judge(verdict)
                /\ Elapse(d)
                /\ UNCHANGED <<over, slow>>
             \/ /\ EndAttempt("EXPENSIVE_QUERY")
                /\ \E goodbye \in 0..Slack : Elapse(d + goodbye)
                /\ \/ over' = over \cup {attempt} /\ UNCHANGED slow
                   \/ slow' = slow \cup {attempt} /\ UNCHANGED over
                /\ UNCHANGED judged
             \/ /\ \E code \in {"DB_ERROR", "TIMEOUT"} : EndAttempt(code)
                /\ Elapse(d)
                /\ UNCHANGED <<judged, over, slow>>
    /\ UNCHANGED <<job, attempt, guard, budget, tunnel, reply, warnings, executed, ends,
                   opened, ran>>

\* How long one ClickHouse exchange may last: its deadline is the larger of its
\* budget and the connect deadline (Slack bounds the excess).
Exchange == budget + Slack

\* ClickHouse plans in an exchange of its own, and any error of it, a timeout
\* included, means no estimate.
PlanByExchange ==
    /\ pc = "plan"
    /\ job.engine = "clickhouse"
    /\ \E d \in 0..Exchange :
          /\ Spend(d)
          /\ Elapse(d)
          /\ \/ Judge("accepted") /\ UNCHANGED <<over, slow>>
             \/ /\ Judge("unknown")
                /\ slow' \in {slow, slow \cup {attempt}}
                /\ UNCHANGED over
             \/ /\ EndAttempt("EXPENSIVE_QUERY")
                /\ over' = over \cup {attempt}
                /\ UNCHANGED <<judged, slow>>
    /\ UNCHANGED <<job, attempt, guard, budget, tunnel, reply, warnings, executed, ends,
                   opened, ran>>

\* What is left of the query phase for the statement.
RunTime == IF job.engine = "clickhouse" THEN Exchange ELSE budget - phase

\* The failures of a statement.
RunErrors ==
    {"DB_ERROR", "TIMEOUT"}
      \cup (IF job.engine = "clickhouse" THEN {"CONNECTION_FAILED"} ELSE {})

\* limit + 1 rows at most are fetched.  MongoDB leaves its cursor open when it cuts
\* a batch short, and may do so when nothing is left; ClickHouse says cut at the
\* fetch limit.
Replies ==
    {r \in Reply :
       LET asked == IF r.matched > Limit THEN Limit + 1 ELSE r.matched IN
       /\ r.got <= asked
       /\ CASE job.engine = "mongodb" -> r.got < asked => r.cut
            [] job.engine = "clickhouse" -> r.got = asked /\ (r.cut <=> asked > Limit)
            [] OTHER -> r.got = asked /\ ~r.cut
       /\ r.cells \in IF job.pii THEN {"clear", "raw"} ELSE {"clear"}}

Run ==
    /\ pc = "run"
    /\ \E d \in 0..RunTime :
          /\ Spend(d)
          /\ Elapse(d)
    /\ \/ /\ reply' \in Replies
          /\ ran' = ran \cup {attempt}
          /\ Proceed("check")
       \/ /\ \E code \in RunErrors :
                /\ EndAttempt(code)
                /\ ran' = IF code \in {"DB_ERROR", "TIMEOUT"}
                            THEN ran \cup {attempt} ELSE ran
          /\ UNCHANGED reply
    /\ UNCHANGED <<job, attempt, guard, judged, budget, tunnel, warnings, executed, ends,
                   opened, over, slow>>

Skipped == IF guard /\ judged # "accepted" THEN {"GUARDRAIL_SKIPPED"} ELSE {}

\* A bug: the mask is applied to the answer of a query only.
NetB_QueryOnly ==
    /\ pc = "check"
    /\ \/ job.pii /\ EndAttempt("PII") /\ UNCHANGED <<reply, warnings>>
       \/ /\ EndAttempt("ok")
          /\ IF reply.cells = "raw" /\ job.kind = "query"
               THEN /\ reply' = [reply EXCEPT !.cells = "masked"]
                    /\ warnings' = warnings \cup Skipped \cup {"PII_MASKED"}
               ELSE UNCHANGED reply /\ warnings' = warnings \cup Skipped
    /\ UNCHANGED <<job, attempt, guard, judged, budget, phase, clock, tunnel, executed,
                   ends, opened, ran, over, slow, work>>

\* A bug: no warning for a query that ran without an accepted estimate.
NetB_NoSkipped ==
    /\ pc = "check"
    /\ EndAttempt("ok")
    /\ reply' = [reply EXCEPT !.cells = IF @ = "raw" THEN "masked" ELSE @]
    /\ UNCHANGED <<job, attempt, guard, judged, budget, phase, clock, tunnel, executed,
                   warnings, ends, opened, ran, over, slow, work>>

\* Db::execute refuses a result or masks it in place, and run_attempt ends.
NetB ==
    /\ pc = "check"
    /\ \/ job.pii /\ EndAttempt("PII") /\ UNCHANGED <<reply, warnings>>
       \/ /\ EndAttempt("ok")
          /\ IF reply.cells = "raw"
               THEN /\ reply' = [reply EXCEPT !.cells = "masked"]
                    /\ warnings' = warnings \cup Skipped \cup {"PII_MASKED"}
               ELSE UNCHANGED reply /\ warnings' = warnings \cup Skipped
    /\ UNCHANGED <<job, attempt, guard, judged, budget, phase, clock, tunnel, executed,
                   ends, opened, ran, over, slow, work>>

-----------------------------------------------------------------------------
(* rows_command after an attempt.                                           *)

\* fallback_budget_ms before its floor.
Left == IF clock < Timeout THEN Timeout - clock ELSE 0

\* statements: only sample has a cheaper spelling, where a guardrail can fire.
HasCheap == job.kind = "sample" /\ job.engine \in Planners

\* A bug: any refusal earns the second attempt.
WillRetry_AnyRefusal ==
    /\ outcome \in {"EXPENSIVE_QUERY", "PII", "REFUSED"}
    /\ attempt = 1
    /\ HasCheap
    /\ Left >= Second

WillRetry ==
    /\ outcome = "EXPENSIVE_QUERY"
    /\ attempt = 1
    /\ HasCheap
    /\ Left >= Second

\* A bug: the second attempt has the whole timeout again.
Retry_FreshBudget ==
    /\ pc = "settle"
    /\ WillRetry
    /\ attempt' = 2
    /\ executed' = 2
    /\ phase' = 0
    /\ judged' = "no"
    /\ outcome' = "none"
    /\ pc' = "validate"
    /\ UNCHANGED <<job, guard, budget, clock, tunnel, reply, warnings, ends,
                   opened, ran, over, slow, work>>

\* A bug: the record goes on naming the first statement.
Retry_OldStatement ==
    /\ pc = "settle"
    /\ WillRetry
    /\ attempt' = 2
    /\ budget' = Left
    /\ phase' = 0
    /\ judged' = "no"
    /\ outcome' = "none"
    /\ pc' = "validate"
    /\ UNCHANGED <<job, guard, clock, tunnel, reply, warnings, executed, ends,
                   opened, ran, over, slow, work>>

\* The cheap statement gets a full second pass on what is left of the budget.
Retry ==
    /\ pc = "settle"
    /\ WillRetry
    /\ attempt' = 2
    /\ executed' = 2
    /\ budget' = Left
    /\ phase' = 0
    /\ judged' = "no"
    /\ outcome' = "none"
    /\ pc' = "validate"
    /\ UNCHANGED <<job, guard, clock, tunnel, reply, warnings, ends,
                   opened, ran, over, slow, work>>

OverLimit == reply.got > Limit

\* A bug: only the row count tells that rows are missing.
Truncated_CountOnly == OverLimit

Truncated == OverLimit \/ reply.cut

\* The truncation and fallback warnings, and what the envelope then says.
Answer ==
    [code |-> "ok",
     rows |-> IF OverLimit THEN Limit ELSE reply.got,
     truncated |-> Truncated,
     warnings |-> warnings \cup (IF Truncated THEN {"TRUNCATED"} ELSE {})
                           \cup (IF attempt = 2 THEN {"SAMPLE_FALLBACK"} ELSE {}),
     cells |-> reply.cells]

Failure(code) ==
    [code |-> code, rows |-> 0, truncated |-> FALSE, warnings |-> {}, cells |-> "clear"]

Result == IF outcome = "ok" THEN Answer ELSE Failure(outcome)

Settle ==
    /\ pc = "settle"
    /\ ~WillRetry
    /\ Proceed("audit")
    /\ UNCHANGED <<job, attempt, guard, judged, budget, phase, clock, tunnel, reply,
                   warnings, executed, ends, opened, ran, over, slow, work>>

-----------------------------------------------------------------------------
(* audit_finish, the return of rows_command, and main.                      *)

\* A bug: an answer is let go although its record was not written.
AuditFinish_Open ==
    /\ pc = "audit"
    /\ Proceed("emit")
    /\ \/ record' = [said |-> Result, sql |-> executed]
       \/ UNCHANGED record
    /\ UNCHANGED <<job, attempt, guard, judged, budget, phase, clock, tunnel, reply,
                   warnings, executed, shown, opened, ran, over, slow, work>>

\* The record is appended, or the Result becomes AUDIT_FAILED.
AuditFinish ==
    /\ pc = "audit"
    /\ \/ /\ record' = IF job.audit THEN [said |-> Result, sql |-> executed] ELSE record
          /\ UNCHANGED outcome
       \/ /\ job.audit
          /\ outcome' = "AUDIT_FAILED"
          /\ UNCHANGED record
    /\ pc' = "emit"
    /\ UNCHANGED <<job, attempt, guard, judged, budget, phase, clock, tunnel, reply,
                   warnings, executed, shown, opened, ran, over, slow, work>>

\* emit: the rows go out, or stdout fails for another reason than a closed pipe.
Emit ==
    /\ pc = "emit"
    /\ pc' = "return"
    /\ \/ outcome = "ok" /\ shown' = Result /\ UNCHANGED outcome
       \/ outcome = "ok" /\ outcome' = "INTERNAL" /\ UNCHANGED shown
       \/ outcome # "ok" /\ UNCHANGED <<outcome, shown>>
    /\ UNCHANGED <<job, attempt, guard, judged, budget, phase, clock, tunnel, reply,
                   warnings, executed, record, opened, ran, over, slow, work>>

\* The tunnel lives until rows_command returns.
Return ==
    /\ pc = "return"
    /\ tunnel' = IF tunnel = "up" THEN "dropped" ELSE tunnel
    /\ Proceed("report")
    /\ UNCHANGED <<job, attempt, guard, judged, budget, phase, clock, reply, warnings,
                   executed, ends, opened, ran, over, slow, work>>

\* main prints the envelope of a failure.
Report ==
    /\ pc = "report"
    /\ Proceed("done")
    /\ shown' = IF outcome = "ok" THEN shown ELSE Failure(outcome)
    /\ UNCHANGED <<job, attempt, guard, judged, budget, phase, clock, tunnel, reply,
                   warnings, executed, record, opened, ran, over, slow, work>>

Finished == pc = "done" /\ UNCHANGED vars

Next ==
    \/ SessionRefused \/ OpenSession
    \/ Validate \/ OpenTunnel \/ Connect
    \/ Classify \/ PlanInSession \/ PlanByExchange \/ Run \/ NetB
    \/ Retry \/ Settle
    \/ AuditFinish \/ Emit \/ Return \/ Report
    \/ Finished

Spec == Init /\ [][Next]_vars

-----------------------------------------------------------------------------
(* Properties.                                                              *)

TypeOK ==
    /\ job \in Jobs
    /\ pc \in {"session", "validate", "tunnel", "connect", "classify", "plan", "run", "check",
               "settle", "audit", "emit", "return", "report", "done"}
    /\ attempt \in 1..2 /\ executed \in 1..2
    /\ guard \in BOOLEAN
    /\ judged \in {"no", "accepted", "unknown"}
    /\ budget \in 0..Timeout
    /\ phase \in Nat /\ clock \in Nat /\ work \in Nat /\ opened \in Nat
    /\ tunnel \in {"none", "up", "dropped"}
    /\ reply \in Reply \cup {NoReply}
    /\ outcome \in Codes \cup {"none"}
    /\ warnings \subseteq WarningCodes
    /\ record \in Record \cup {NoRecord}
    /\ shown \in Told \cup {NoAnswer}
    /\ ran \subseteq 1..2 /\ over \subseteq 1..2 /\ slow \subseteq 1..2

\* The second attempt of sample repeats nothing: at most one of the two
\* statements is ever executed, and if there is a record it names that one.
RunsOnceAndIsNamed ==
    /\ Cardinality(ran) <= 1
    /\ record # NoRecord /\ ran # {} => ran = {record.sql}

\* A statement the guardrail refused is never executed: over its threshold, or,
\* on an engine with a session, not planned in time.
RefusedNeverRuns ==
    /\ over \cap ran = {}
    /\ job.engine # "clickhouse" => slow \cap ran = {}

\* The two passes of sample share the one budget that the owner granted: the
\* database never works longer than the timeout for one command.  ClickHouse and
\* Redis are left out: they give each exchange a deadline of its own.
BudgetShared == job.engine \in OneDeadline => work <= Timeout

\* A partial answer never reads as complete, whether nyet cut it or the server
\* did; a complete one reads as partial only where an open cursor says so.
PartialIsFlagged ==
    shown # NoAnswer /\ shown.code = "ok" =>
        /\ shown.rows < reply.matched => shown.truncated
        /\ shown.truncated => shown.rows < reply.matched \/ job.engine = "mongodb"
        /\ shown.truncated <=> "TRUNCATED" \in shown.warnings

\* A query that a guarded connection ran without an accepted estimate says so.
UnjudgedIsFlagged ==
    shown # NoAnswer /\ shown.code = "ok" /\ guard /\ judged # "accepted" =>
        "GUARDRAIL_SKIPPED" \in shown.warnings

\* No raw protected value gets past net B: not to the agent, not to the log.
RawStaysInside ==
    /\ shown # NoAnswer => shown.cells # "raw"
    /\ record # NoRecord => record.said.cells # "raw"

\* The agent and the reader of the log are told the same, with three
\* exceptions: a session that was never open leaves no record, a lost record
\* withholds the answer, and an answer lost on stdout was recorded as given.
LogAgreesWithAnswer ==
    job.audit /\ shown # NoAnswer =>
        IF record = NoRecord
          THEN shown.code \in SessionErrors \cup {"AUDIT_FAILED"}
          ELSE \/ record.said = shown
               \/ record.said.code = "ok" /\ shown = Failure("INTERNAL")

\* One forward serves both attempts: the engine never works without it, it is
\* opened once, and it is gone when the command is.
OneTunnel ==
    /\ opened <= 1
    /\ job.ssh /\ pc \in {"connect", "classify", "plan", "run", "check"} => tunnel = "up"
    /\ pc = "done" => tunnel # "up"

\* What the attempts of one command share, and neither gets anew: the budget and
\* the tunnel (open_session, rows_command's second pass).
AttemptsShare == BudgetShared /\ OneTunnel

\* The manual (docs/COMMANDS.md:180): if planning itself outruns its budget, the
\* query is refused.
SlowPlanIsRefused == slow \cap ran = {}

=============================================================================
