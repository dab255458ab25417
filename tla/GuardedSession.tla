---------------------------- MODULE GuardedSession ----------------------------
(***************************************************************************)
(* One session of nyet with PostgreSQL or with MySQL/MariaDB (execute,       *)
(* estimate and schema of the two engines, src/engine.rs): a read-only       *)
(* transaction is opened, the statement may be planned under a server cap of *)
(* its own, the session is repaired, the statement runs, and the session is  *)
(* left politely or dropped.                                                *)
(*                                                                          *)
(* A message is a sequence of statements; the server executes them in order  *)
(* and stops at the first error.  Time is counted in ticks from the start of *)
(* the query phase, after the connect.                                      *)
(***************************************************************************)
EXTENDS Naturals, Sequences

CONSTANTS
    Timeout,        \* query_timeout_ms, which is also the server's own cap
    ExplainCap,     \* EXPLAIN_BUDGET_MS
    ExplainGrace,   \* EXPLAIN_GRACE_MS
    ExplainReserve, \* EXPLAIN_RESERVE_MS
    CloseGrace      \* CLOSE_GRACE

ASSUME SessionAssumption ==
    /\ ExplainCap \in Nat \ {0}
    /\ ExplainGrace \in Nat /\ ExplainReserve \in Nat /\ CloseGrace \in Nat
    /\ Timeout \in Nat /\ Timeout > ExplainGrace + ExplainReserve

\* The timeout variables of the two MySQL flavours.
Names == {"max_execution_time", "max_statement_time"}

PgJobs == [engine : {"postgres"}, mode : {"query", "explain", "schema"}, guard : BOOLEAN,
           origins : BOOLEAN, label : {"postgres"}, knows : {{}}]

\* label: the engine named in the config; knows: what the server accepts.
MyJobs == [engine : {"mysql"}, mode : {"query", "explain", "schema"}, guard : BOOLEAN,
           origins : {FALSE}, label : {"mysql", "mariadb"}, knows : SUBSET Names]

\* The guardrail and the resolution of column origins concern execute only.
Jobs == {j \in PgJobs \cup MyJobs : j.mode # "query" => ~j.guard /\ ~j.origins}

Caps == {"none", "own", "short"}

Statement == [do : {"begin", "savepoint", "set", "explain", "rollback_to", "prepare",
                    "query", "rollback"},
              cap : Caps, name : Names \cup {"statement_timeout", "none"}]

Do(what) == [do |-> what, cap |-> "none", name |-> "none"]

SetCap(cap, name) == [do |-> "set", cap |-> cap, name |-> name]

VARIABLES
    job,        \* the connection and the operation
    pc,         \* the stage of the session
    since,      \* when this stage began
    clock,      \* ticks of the query phase
    var,        \* TimeoutVar: which spelling this server accepts
    candidates, \* the names set_statement_timeout still has to try
    lead,       \* the statement to send ahead of the SET is still to be sent
    plan,       \* the verdict of the plan
    answer,     \* what the caller gets
    conn,       \* the client's end of the connection
    wire,       \* statements sent and not yet executed
    awaiting,   \* a message has no reply yet that the client has read
    reply,      \* the reply of the server
    txn,        \* the server's transaction
    cap,        \* the server's statement cap
    saved,      \* the cap at the savepoint
    begun,      \* history: transactions the server was told to start
    unknowns,   \* history: names the server did not know
    seen        \* history: agent statements executed, and in what state

client == <<job, since, clock, var, candidates, lead, plan, answer, conn>>
server == <<txn, cap, saved, begun, unknowns, seen>>
vars == <<job, pc, since, clock, var, candidates, lead, plan, answer, conn, wire, awaiting,
          reply, txn, cap, saved, begun, unknowns, seen>>

IsPostgres == job.engine = "postgres"

Plans == job.mode = "explain" \/ job.guard

-----------------------------------------------------------------------------
(* The deadlines of a plan.                                                 *)

\* saturating_sub
Less(a, b) == IF a > b THEN a - b ELSE 0

AtLeast1(a) == IF a = 0 THEN 1 ELSE a

\* A bug: nothing is left of the query's deadline to answer in.
ExplainBudget_NoReserve ==
    LET room == IF ExplainCap + ExplainGrace < Timeout THEN ExplainCap + ExplainGrace ELSE Timeout
    IN  AtLeast1(Less(AtLeast1(room), ExplainGrace))

ExplainBudget ==
    LET left == Less(Timeout, ExplainReserve)
        room == IF ExplainCap + ExplainGrace < left THEN ExplainCap + ExplainGrace ELSE left
    IN  AtLeast1(Less(AtLeast1(room), ExplainGrace))

ExplainDeadline == ExplainBudget + ExplainGrace

-----------------------------------------------------------------------------
(* What each stage sends.                                                   *)

Candidates(v) ==
    CASE v = "unknown" /\ job.label = "mariadb" ->
           <<"max_statement_time", "max_execution_time">>
      [] v = "unknown" /\ job.label # "mariadb" ->
           <<"max_execution_time", "max_statement_time">>
      [] v = "neither" -> << >>
      [] OTHER -> <<v>>

\* A bug: the cap is set ahead of the transaction.
SetTimeout_LeadLast(c) ==
    (IF candidates = << >> THEN << >> ELSE <<SetCap(c, Head(candidates))>>)
      \o (IF lead THEN <<Do("begin")>> ELSE << >>)

\* set_statement_timeout: the lead, then the first name still to be tried.
SetTimeout(c) ==
    (IF lead THEN <<Do("begin")>> ELSE << >>)
      \o (IF candidates = << >> THEN << >> ELSE <<SetCap(c, Head(candidates))>>)

\* begin_read_only: the savepoint and the cap of the plan ride in the BEGIN.
Begin ==
    IF ~IsPostgres THEN SetTimeout("own")
    ELSE IF Plans
      THEN <<Do("begin"), Do("savepoint"), SetCap("short", "statement_timeout")>>
      ELSE <<Do("begin")>>

\* A bug: the cap given back is the plan's.
Restore_KeepsBudget ==
    IF IsPostgres
      THEN <<Do("rollback_to"), SetCap("short", "statement_timeout")>>
      ELSE SetTimeout("short")

Restore ==
    IF IsPostgres
      THEN <<Do("rollback_to"), SetCap("own", "statement_timeout")>>
      ELSE SetTimeout("own")

\* The stages of a session that send something, and what.
Stages == {"begin", "arm", "explain", "restore", "prepare", "run", "describe", "goodbye"}

Message ==
    [begin |-> Begin, arm |-> SetTimeout("short"), explain |-> <<Do("explain")>>,
     restore |-> Restore, prepare |-> <<Do("prepare")>>, run |-> <<Do("query")>>,
     describe |-> <<Do("prepare")>>, goodbye |-> <<Do("rollback")>>]

Init ==
    /\ job \in Jobs
    /\ pc = "begin"
    /\ since = 0
    /\ clock = 0
    /\ var = "unknown"
    /\ candidates = Candidates("unknown")
    /\ lead = TRUE
    /\ plan = IF Plans THEN "none" ELSE "off"
    /\ answer = "none"
    /\ conn = "open"
    /\ wire = << >>
    /\ awaiting = FALSE
    /\ reply = "none"
    /\ txn = "none"
    /\ cap = IF IsPostgres THEN "own" ELSE "none"
    /\ saved = "none"
    /\ begun = 0
    /\ unknowns = 0
    /\ seen = {}

Goto(stage) == pc' = stage /\ since' = clock

\* The stages that set a cap on MySQL begin with the names worth trying.
GotoSet(stage, v) ==
    /\ Goto(stage)
    /\ candidates' = IF IsPostgres THEN candidates ELSE Candidates(v)
    /\ lead' = FALSE

\* The phase ends with an answer and gives its connection back ...
Close(what) == answer' = what /\ Goto("goodbye") /\ UNCHANGED conn

\* ... or drops it.
Drop(what) == answer' = what /\ Goto("done") /\ conn' = "dropped"

\* The client reads the reply to its message.
Hears(what) == awaiting /\ reply = what

Errors == {"db", "timeout"}

HearsError == awaiting /\ reply \in Errors

Read == awaiting' = FALSE /\ reply' = "none" /\ UNCHANGED wire

Ask ==
    /\ pc \in Stages
    /\ ~awaiting
    /\ Message[pc] # << >>
    /\ wire' = wire \o Message[pc]
    /\ awaiting' = TRUE
    /\ UNCHANGED <<client, pc, reply, server>>

-----------------------------------------------------------------------------
(* Opening the transaction.                                                 *)

\* The stage after the transaction is open.
FirstStage ==
    IF Plans THEN IF IsPostgres THEN "explain" ELSE "arm"
    ELSE IF job.origins THEN "prepare" ELSE "run"

\* What comes after a SET that succeeded or was given up.
AfterSet(v) ==
    CASE pc = "begin" -> GotoSet(FirstStage, v)
      [] pc = "arm" -> GotoSet("explain", v)
      [] pc = "restore" -> GotoSet("judge", v)

SetDone ==
    /\ pc \in {"begin", "arm", "restore"}
    /\ Hears("ok")
    /\ var' = CASE IsPostgres -> var
                [] ~IsPostgres /\ candidates = << >> -> "neither"
                [] OTHER -> Head(candidates)
    /\ AfterSet(var')
    /\ Read
    /\ UNCHANGED <<job, clock, plan, answer, conn, server>>

\* 1193: the other name is tried, and the lead has run.
OtherName ==
    /\ pc \in {"begin", "arm", "restore"}
    /\ Hears("unknown_var") /\ candidates # << >>
    /\ candidates' = Tail(candidates)
    /\ lead' = FALSE
    /\ Read
    /\ UNCHANGED <<job, pc, since, clock, var, plan, answer, conn, server>>

\* No name is left: no server cap is possible here.
NoName ==
    /\ pc \in {"begin", "arm", "restore"}
    /\ ~awaiting
    /\ Message[pc] = << >>
    /\ var' = "neither"
    /\ AfterSet("neither")
    /\ UNCHANGED <<job, clock, plan, answer, conn, wire, awaiting, reply, server>>

\* execute and estimate of PostgreSQL drop what they could not arm; the others
\* close it.
BeginFails ==
    /\ pc = "begin"
    /\ HearsError
    /\ IF IsPostgres /\ job.mode # "schema" THEN Drop(reply) ELSE Close(reply)
    /\ Read
    /\ UNCHANGED <<job, clock, var, candidates, lead, plan, server>>

-----------------------------------------------------------------------------
(* The guarded plan.                                                        *)

\* A bug: the session is not repaired after the plan.
Planned_NoRestore ==
    /\ pc = "explain"
    /\ \/ Hears("ok") /\ plan' \in {"accepted", "over", "unknown"}
       \/ Hears("db") /\ plan' = "failed"
    /\ GotoSet("judge", var)
    /\ Read
    /\ UNCHANGED <<job, clock, var, answer, conn, server>>

\* Plan::Got with its verdict, or Plan::Failed.
Planned ==
    /\ pc = "explain"
    /\ \/ Hears("ok") /\ plan' \in {"accepted", "over", "unknown"}
       \/ Hears("db") /\ plan' = "failed"
    /\ GotoSet("restore", var)
    /\ Read
    /\ UNCHANGED <<job, clock, var, answer, conn, server>>

\* Plan::TooSlow: the server's cap.
CutShort ==
    /\ pc = "explain"
    /\ Hears("timeout")
    /\ plan' = "slow"
    /\ Drop("too_slow")
    /\ Read
    /\ UNCHANGED <<job, clock, var, candidates, lead, server>>

PlanDue == pc = "explain" /\ clock >= since + ExplainDeadline

\* A bug: a plan given up counts as a plan that failed.
PlanDeadline_FailsOpen ==
    /\ PlanDue
    /\ plan' = "failed"
    /\ GotoSet("restore", var)
    /\ awaiting' = FALSE
    /\ UNCHANGED <<job, clock, var, answer, conn, wire, reply, server>>

\* Plan::TooSlow: the client's own deadline.  The server may go on planning.
PlanDeadline ==
    /\ PlanDue
    /\ plan' = "slow"
    /\ Drop("too_slow")
    /\ UNCHANGED <<job, clock, var, candidates, lead, wire, awaiting, reply, server>>

\* Plan::Broken: the plumbing around the plan failed.
Breaks ==
    /\ pc \in {"arm", "restore"}
    /\ HearsError
    /\ Drop(reply)
    /\ Read
    /\ UNCHANGED <<job, clock, var, candidates, lead, plan, server>>

\* guardrail.refuses, or into_answer of estimate.
Judge ==
    /\ pc = "judge"
    /\ CASE job.mode = "explain" ->
              Close(IF plan = "failed" THEN "db" ELSE "plan")
         [] job.mode # "explain" /\ plan = "over" -> Close("refused")
         [] OTHER -> /\ Goto(IF job.origins THEN "prepare" ELSE "run")
                     /\ UNCHANGED <<answer, conn>>
    /\ UNCHANGED <<job, clock, var, candidates, lead, plan, wire, awaiting, reply, server>>

-----------------------------------------------------------------------------
(* The statement, and the end.                                              *)

\* The column origins of PostgreSQL: whatever comes of it, the statement runs.
Prepared ==
    /\ pc = "prepare"
    /\ awaiting /\ reply # "none"
    /\ Goto("run")
    /\ Read
    /\ UNCHANGED <<job, clock, var, candidates, lead, plan, answer, conn, server>>

\* The statement is over; a result without rows is described before it is
\* returned, and a row that cannot be decoded is an error.
Ran ==
    /\ pc = "run"
    /\ \/ Hears("ok") /\ Close("ran")
       \/ Hears("ok") /\ job.mode = "query" /\ Goto("describe") /\ UNCHANGED <<answer, conn>>
       \/ Hears("last_row") /\ \E what \in {"ran", "db"} : Close(what)
    /\ Read
    /\ UNCHANGED <<job, clock, var, candidates, lead, plan, server>>

\* fetch_limit rows have been read, or one that cannot be decoded: the rest of
\* the stream is left to the goodbye.
Enough ==
    /\ pc = "run"
    /\ Hears("rows")
    /\ \E what \in {"ran", "db"} : Close(what)
    /\ Read
    /\ UNCHANGED <<job, clock, var, candidates, lead, plan, server>>

RunFails ==
    /\ pc = "run"
    /\ HearsError
    /\ Close(reply)
    /\ Read
    /\ UNCHANGED <<job, clock, var, candidates, lead, plan, server>>

Described ==
    /\ pc = "describe"
    /\ awaiting /\ reply # "none"
    /\ Close("ran")
    /\ Read
    /\ UNCHANGED <<job, clock, var, candidates, lead, plan, server>>

QueryDue == pc \notin {"goodbye", "done"} /\ clock >= Timeout

\* A bug: the goodbye is inside the query deadline.
QueryDeadline_Goodbye ==
    /\ pc # "done" /\ clock >= Timeout
    /\ Drop("timeout")
    /\ UNCHANGED <<job, clock, var, candidates, lead, plan, wire, awaiting, reply, server>>

\* The deadline of the query phase: its future is dropped, connection and all.
QueryDeadline ==
    /\ QueryDue
    /\ Drop("timeout")
    /\ UNCHANGED <<job, clock, var, candidates, lead, plan, wire, awaiting, reply, server>>

\* ROLLBACK has been answered, one way or the other.
Goodbye ==
    /\ pc = "goodbye"
    /\ awaiting /\ reply \notin {"none", "rows"}
    /\ Goto("done")
    /\ conn' = "closed"
    /\ Read
    /\ UNCHANGED <<job, clock, var, candidates, lead, plan, answer, server>>

CloseDue == pc = "goodbye" /\ clock >= since + CloseGrace

\* A bug: the goodbye waits for the server.
CloseDeadline_None == FALSE /\ CloseDue /\ UNCHANGED vars

\* The server does not answer: the socket is dropped.
CloseDeadline ==
    /\ CloseDue
    /\ Goto("done")
    /\ conn' = "dropped"
    /\ UNCHANGED <<job, clock, var, candidates, lead, plan, answer, wire, awaiting, reply,
                   server>>

-----------------------------------------------------------------------------
(* The server.                                                              *)

AgentText == {"explain", "prepare", "query"}

\* After an error PostgreSQL accepts nothing but a rollback.
Accepts(s) == txn = "aborted" => s.do \in {"rollback", "rollback_to"}

Understands(s) == s.name \in Names => s.name \in job.knows

Note(s) ==
    seen' = IF s.do \in AgentText THEN seen \cup {[do |-> s.do, txn |-> txn, cap |-> cap]}
            ELSE seen

\* The state after s has been executed.
Effect(s) ==
    /\ txn' = CASE s.do \in {"begin", "rollback_to"} -> "ro"
                [] s.do = "rollback" -> "none"
                [] OTHER -> txn
    /\ cap' = CASE s.do = "set" -> s.cap
                [] s.do = "rollback_to" -> saved
                [] OTHER -> cap
    /\ saved' = IF s.do = "savepoint" THEN cap ELSE saved
    /\ begun' = IF s.do = "begin" THEN begun + 1 ELSE begun
    /\ Note(s)

Done ==
    /\ wire # << >>
    /\ LET s == Head(wire)
       IN  Accepts(s) /\ Understands(s) /\ Effect(s)
    /\ wire' = Tail(wire)
    /\ reply' = IF Len(wire) > 1 \/ ~awaiting THEN reply
                ELSE IF reply = "rows" THEN "last_row" ELSE "ok"
    /\ UNCHANGED <<client, pc, awaiting, unknowns>>

\* The first rows of the query arrive while it still runs.
Streams ==
    /\ wire # << >>
    /\ Head(wire).do = "query" /\ job.mode = "query" /\ reply = "none" /\ Len(wire) = 1
    /\ Accepts(Head(wire))
    /\ Note(Head(wire))
    /\ reply' = "rows"
    /\ UNCHANGED <<client, pc, awaiting, wire, txn, cap, saved, begun, unknowns>>

\* s fails, and the rest of the message is skipped.
Fails ==
    /\ wire # << >>
    /\ LET s == Head(wire)
       IN  \/ /\ ~Understands(s)
              /\ reply' = "unknown_var"
              /\ unknowns' = unknowns + 1
              /\ UNCHANGED seen
           \/ /\ Understands(s)
              /\ reply' \in IF Accepts(s) /\ cap # "none" THEN Errors ELSE {"db"}
              /\ IF Accepts(s) THEN Note(s) ELSE UNCHANGED seen
              /\ UNCHANGED unknowns
    /\ txn' = IF IsPostgres /\ txn = "ro" THEN "aborted" ELSE txn
    /\ wire' = << >>
    /\ UNCHANGED <<client, pc, awaiting, cap, saved, begun>>

\* The connection is lost after s has been executed.
Breaking ==
    /\ wire # << >>
    /\ LET s == Head(wire)
       IN  Accepts(s) /\ Understands(s) /\ Effect(s)
    /\ wire' = << >>
    /\ reply' = "db"
    /\ UNCHANGED <<client, pc, awaiting, unknowns>>

Server == conn = "open" /\ (Done \/ Streams \/ Fails \/ Breaking)

\* A server may finish what it has of a session that was dropped.
Orphan == conn = "dropped" /\ Done

\* A timer that is due fires before time goes on.
Tick ==
    /\ pc # "done"
    /\ ~PlanDue /\ ~QueryDue /\ ~CloseDue
    /\ clock' = clock + 1
    /\ UNCHANGED <<job, pc, since, var, candidates, lead, plan, answer, conn, wire, awaiting,
                   reply, server>>

Finished == pc = "done" /\ UNCHANGED vars

Client ==
    \/ Ask \/ SetDone \/ OtherName \/ NoName \/ BeginFails
    \/ Planned \/ CutShort \/ PlanDeadline \/ Breaks \/ Judge
    \/ Prepared \/ Ran \/ Enough \/ RunFails \/ Described
    \/ QueryDeadline \/ Goodbye \/ CloseDeadline

Next == Client \/ Server \/ Orphan \/ Tick \/ Finished

Spec == Init /\ [][Next]_vars

\* Time goes on and the client's steps are taken; nothing is asked of the server.
FairSpec == Spec /\ WF_vars(Client) /\ WF_vars(Tick)

-----------------------------------------------------------------------------
(* Properties.                                                              *)

ClientTypes ==
    /\ job \in Jobs
    /\ pc \in Stages \cup {"judge", "done"}
    /\ var \in Names \cup {"unknown", "neither"}
    /\ candidates \in Seq(Names) /\ lead \in BOOLEAN
    /\ plan \in {"none", "off", "accepted", "over", "unknown", "failed", "slow"}
    /\ answer \in {"none", "ran", "refused", "too_slow", "plan"} \cup Errors
    /\ conn \in {"open", "closed", "dropped"}

LinkTypes ==
    /\ wire \in Seq(Statement) /\ awaiting \in BOOLEAN
    /\ reply \in {"none", "ok", "rows", "last_row", "unknown_var"} \cup Errors

ServerTypes ==
    /\ txn \in {"none", "ro", "aborted"} /\ cap \in Caps /\ saved \in Caps
    /\ begun \in Nat /\ unknowns \in Nat
    /\ seen \subseteq [do : AgentText, txn : {"none", "ro", "aborted"}, cap : Caps]

TypeOK ==
    /\ ClientTypes
    /\ LinkTypes
    /\ ServerTypes
    /\ since \in Nat /\ clock \in 0 .. Timeout + CloseGrace

\* A connection that may still be busy is dropped, not spoken to (the comment on
\* Plan): whenever the client is about to send, the last message was answered
\* and nothing of it is left, so no answer is taken for another's.  Only the
\* goodbye may queue, behind rows of the statement nobody wants.
NothingQueued ==
    conn = "open" /\ ~awaiting =>
        \/ wire = << >> /\ reply = "none"
        \/ pc = "goodbye" /\ wire \in {<< >>, <<Do("query")>>} /\ answer \in {"ran", "db"}

\* Layer 2: no text of the agent is executed outside a read-only transaction,
\* whichever timeout names the server knows and whatever failed before.
OnlyReadOnly == \A e \in seen : e.txn = "ro"

\* The plan borrows a short cap of the server, and the statement never runs under
\* it; both have a cap wherever the server knows one.
CapsFit ==
    \A e \in seen :
        /\ e.do # "explain" => e.cap # "short"
        /\ e.do = "explain" => e.cap # "own"
        /\ e.cap = "none" => ~IsPostgres /\ job.knows = {}

\* The flavour is learned once per connection, and the transaction, which may ride
\* ahead of the SET that failed, is started once.
FlavourLearnedOnce ==
    /\ begun <= 1
    /\ unknowns <= IF job.knows = {} THEN 2 ELSE 1

\* Both together: how a session is armed, by whatever way it got there
\* (pg_guarded_plan, Mysql::begin_read_only, set_statement_timeout).
ArmedRight == CapsFit /\ FlavourLearnedOnce

\* The plan's own deadline fires before the query's, so that a slow plan is a
\* refusal and not a bare timeout, as long as the transaction was opened within
\* the reserve.
PlanEndsInTime ==
    [][pc = "explain" /\ answer' = "timeout" => since >= ExplainReserve]_vars

\* A plan that failed leaves the statement a session it can run in: the client
\* goes on to it in a transaction that is open and not aborted, unless resolving
\* the origins spoilt it.
FailOpenWorks ==
    ~awaiting =>
        /\ pc \in {"judge", "prepare"} => txn = "ro"
        /\ pc = "run" /\ ~job.origins => txn = "ro"

Promise == INSTANCE StatementPromise
             WITH kind <- IF job.mode = "explain" THEN "plan" ELSE "run",
                  verdict <- plan,
                  ran <- \E e \in seen : e.do = "query",
                  answer <- answer

\* Verdict, statement and answer come in the order the caller was promised, and
\* the answer is never taken back, by the goodbye or by a late server.
KeepsPromise == Promise!Spec

\* Every session ends, whatever the server does.
SessionEnds == <>(pc = "done")

=============================================================================
