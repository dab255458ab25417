------------------------------ MODULE WriteProbe ------------------------------
(***************************************************************************)
(* The write probe of doctor on PostgreSQL and on MySQL/MariaDB (diagnose of  *)
(* the two engines, src/engine.rs).  It is the one place where nyet writes: it *)
(* creates a table, which MySQL commits at once and which must not stay, and   *)
(* what it reports decides whether a role counts as read-only.                *)
(*                                                                          *)
(* A statement that was given up leaves its reply on the connection; the     *)
(* driver reads it before it sends the next statement, and an error read so   *)
(* is the next statement's error.  Time is counted in ticks.                 *)
(***************************************************************************)
EXTENDS Naturals

CONSTANTS
    Deadline,   \* query_timeout_ms
    Cap,        \* the server's bound on a statement, in whole seconds
    Grace       \* PROBE_BACKSTOP_GRACE_MS

ASSUME ProbeAssumption ==
    Deadline \in Nat \ {0} /\ Cap \in Nat \ {0} /\ Grace \in Nat \ {0}

\* writable: the server lets this role create a table.  taken: somebody else has
\* a table of the probe's name.
Jobs == [engine : {"postgres", "mysql"}, writable : BOOLEAN, taken : BOOLEAN]

Arming == {"set_exec", "set_statement", "set_lock"}

Statements ==
    {"pii", "views", "metadata", "begin", "create", "rollback", "drop"} \cup Arming

\* refused: a known read-only error; other: any other answer of the server; io: no
\* answer of the server at all.
Errors == {"refused", "other", "io"}

Answers == {"ok"} \cup Errors

\* A ProbeFact.  named: it names the table that may have been left behind.
\* expired: it blames a connection that cannot be reached.
Facts == [fact : {"none", "wrote", "blocked", "unknown"}, named : BOOLEAN, expired : BOOLEAN]

Fact(what) == [fact |-> what, named |-> FALSE, expired |-> FALSE]

NamedFact(what) == [Fact(what) EXCEPT !.named = TRUE]

VARIABLES
    job,
    pc,         \* the statement the client is at
    waited,     \* how long the client's current deadline has run
    asked,      \* "no", "sent", or "behind" a reply that is still owed
    stale,      \* a statement was given up and its reply not yet read
    reply,      \* the reply on the connection
    bounds,     \* the bounds the server took
    made,       \* PostgreSQL: what became of CREATE
    report,     \* the ProbeFact
    link,       \* the connection: "up", "broken" (errors at once), "hole" (silent)
    running,    \* the statement the server is executing
    ran,        \* how long it has
    open,       \* the server's session is in a transaction
    ours,       \* the probe's table exists, committed
    theirs,     \* the other table of that name exists
    created     \* history: CREATE succeeded

database == <<open, ours, theirs, created>>
vars == <<job, pc, waited, asked, stale, reply, bounds, made, report, link, running, ran,
          database>>

IsMysql == job.engine = "mysql"

\* Without [pii] rules their queries are not made.
Init ==
    /\ job \in Jobs
    /\ pc \in {"pii", "metadata"}
    /\ waited = 0 /\ ran = 0
    /\ asked = "no" /\ reply = "none" /\ running = "none"
    /\ stale = FALSE /\ open = FALSE /\ ours = FALSE /\ created = FALSE
    /\ bounds = {}
    /\ made = "none"
    /\ report = Fact("none")
    /\ link = "up"
    /\ theirs = job.taken

-----------------------------------------------------------------------------
(* The deadlines and the bounds.                                            *)

\* A bug: one cap for the two statements of the probe.
Backstop_OneCap == Cap + Grace

\* probe_backstop_ms: CREATE and DROP may each wait as long as the server lets them.
Backstop == 2 * Cap + Grace

InProbe == IsMysql /\ pc \in {"create", "drop"}

Allowed == IF InProbe THEN Backstop ELSE Deadline

\* A timer of tokio looks at its future first: a reply that is there wins.
Due == asked # "no" /\ reply = "none" /\ waited >= Allowed

\* A bug: the cap on SELECT counts as a bound.
Bounded_AnySet == bounds # {}

\* mysql_probe_bounded.
Bounded == bounds \cap {"set_lock", "set_statement"} # {}

\* The server itself ends CREATE and DROP when their bound is over.
CutNow == IsMysql /\ Bounded /\ running \in {"create", "drop"} /\ ran >= Cap

-----------------------------------------------------------------------------
(* The client.                                                              *)

\* The statement reaches the server if the connection is there.
Send ==
    /\ asked' = "sent"
    /\ reply' = IF link = "broken" THEN "io" ELSE "none"
    /\ running' = IF link = "up" THEN pc ELSE running
    /\ ran' = 0

Ask ==
    /\ pc # "done" /\ asked = "no"
    /\ \/ ~stale /\ Send
       \/ /\ stale
          /\ asked' = "behind"
          /\ reply' = IF link = "broken" /\ reply = "none" THEN "io" ELSE reply
          /\ UNCHANGED <<running, ran>>
    /\ UNCHANGED <<job, pc, waited, stale, bounds, made, report, link, database>>

\* The reply that was owed is read and the statement sent after it.
Drained ==
    /\ asked = "behind" /\ reply = "ok"
    /\ stale' = FALSE
    /\ Send
    /\ UNCHANGED <<job, pc, waited, bounds, made, report, link, database>>

\* The statement at hand has its outcome, which may be another's late error.
Hears(what) ==
    /\ asked = "sent" \/ (asked = "behind" /\ what # "ok")
    /\ reply = what
    /\ reply' = "none"
    /\ asked' = "no"
    /\ stale' = FALSE
    /\ UNCHANGED <<job, link, running, ran, database>>

Goto(stage) == pc' = stage /\ UNCHANGED <<waited, report>>

\* The next statement, under a deadline of its own.
GotoTimed(stage) == pc' = stage /\ waited' = 0 /\ UNCHANGED report

\* The probe is over and the connection is dropped.
Finish(fact) == pc' = "done" /\ report' = fact /\ UNCHANGED waited

AfterPii == IF IsMysql THEN "metadata" ELSE "views"

\* The privilege queries: no answer is an answer (None, Unknown).
Pii ==
    /\ pc = "pii"
    /\ \E what \in Answers : Hears(what)
    /\ GotoTimed(AfterPii)
    /\ UNCHANGED <<bounds, made>>

PiiViews ==
    /\ pc = "views"
    /\ \E what \in Answers : Hears(what)
    /\ GotoTimed("metadata")
    /\ UNCHANGED <<bounds, made>>

\* On PostgreSQL the probe goes on under the same deadline.
Metadata ==
    /\ pc = "metadata"
    /\ \E what \in Answers : Hears(what)
    /\ IF IsMysql THEN GotoTimed("set_exec") ELSE Goto("begin")
    /\ UNCHANGED <<bounds, made>>

\* arm_probe_bounds: three SETs, and without a bound on DDL no probe.
Arm ==
    /\ pc \in Arming
    /\ \E what \in Answers :
          /\ Hears(what)
          /\ bounds' = IF what = "ok" THEN bounds \cup {pc} ELSE bounds
    /\ \/ pc = "set_exec" /\ Goto("set_statement")
       \/ pc = "set_statement" /\ Goto("set_lock")
       \/ pc = "set_lock" /\ Bounded' /\ GotoTimed("create")
       \/ pc = "set_lock" /\ ~Bounded' /\ Finish(Fact("unknown"))
    /\ UNCHANGED made

\* pg_probe: without BEGIN no CREATE.
Begin ==
    /\ pc = "begin"
    /\ \/ Hears("ok") /\ Goto("create")
       \/ \E what \in Errors : Hears(what) /\ Finish(Fact("unknown"))
    /\ UNCHANGED <<bounds, made>>

\* PostgreSQL keeps the outcome until ROLLBACK has been tried.
PgCreate ==
    /\ ~IsMysql /\ pc = "create"
    /\ \E what \in Answers : Hears(what) /\ made' = what
    /\ Goto("rollback")
    /\ UNCHANGED bounds

PgRollback ==
    /\ pc = "rollback"
    /\ \E what \in Answers : Hears(what)
    /\ Finish(Fact(CASE made = "ok" -> "wrote"
                    [] made = "refused" -> "blocked"
                    [] OTHER -> "unknown"))
    /\ UNCHANGED <<bounds, made>>

\* A bug: whatever became of CREATE, the table is dropped.
MyCreate_DropsAnyway ==
    /\ IsMysql /\ pc = "create"
    /\ \E what \in Answers : Hears(what)
    /\ Goto("drop")
    /\ UNCHANGED <<bounds, made>>

\* MySQL's CREATE is committed: only a confirmed one is dropped, and one without
\* an answer is named (classify_mysql_create_failure).
MyCreate ==
    /\ IsMysql /\ pc = "create"
    /\ \/ Hears("ok") /\ Goto("drop")
       \/ Hears("refused") /\ Finish(Fact("blocked"))
       \/ Hears("other") /\ Finish(Fact("unknown"))
       \/ Hears("io") /\ Finish(NamedFact("unknown"))
    /\ UNCHANGED <<bounds, made>>

\* A bug: a failed DROP is swallowed.
MyDrop_Swallows ==
    /\ pc = "drop"
    /\ \E what \in Answers : Hears(what)
    /\ Finish(Fact("wrote"))
    /\ UNCHANGED <<bounds, made>>

MyDrop ==
    /\ pc = "drop"
    /\ \/ Hears("ok") /\ Finish(Fact("wrote"))
       \/ \E what \in Errors : Hears(what) /\ Finish(NamedFact("wrote"))
    /\ UNCHANGED <<bounds, made>>

\* A statement is given up; the server is not told.
GiveUp ==
    /\ Due
    /\ asked' = "no"
    /\ stale' = TRUE
    /\ UNCHANGED <<job, reply, bounds, made, link, running, ran, database>>

\* The queries before the probe are worth only their own answer.
QueryExpires ==
    /\ pc \in {"pii", "views"}
    /\ GiveUp
    /\ GotoTimed(IF pc = "pii" THEN AfterPii ELSE "metadata")

\* A bug: the deadline of the SETs is taken for an answer.
GroupExpires_ArmGoesOn ==
    /\ pc \notin {"pii", "views", "done"}
    /\ ~InProbe
    /\ GiveUp
    /\ IF pc \in Arming /\ Bounded THEN GotoTimed("create") ELSE Finish(Fact("unknown"))

\* Metadata, arming, and all that PostgreSQL does: the probe is skipped, or its
\* transaction dies with the connection.
GroupExpires ==
    /\ pc \notin {"pii", "views", "done"}
    /\ ~InProbe
    /\ GiveUp
    /\ Finish(Fact("unknown"))

\* A bug: MySQL's probe is awaited without a deadline.
BackstopExpires_Never == FALSE

\* probe_backstop_expired.
BackstopExpires ==
    /\ InProbe
    /\ GiveUp
    /\ Finish([NamedFact("unknown") EXCEPT !.expired = TRUE])

Client ==
    \/ Ask \/ Drained
    \/ Pii \/ PiiViews \/ Metadata \/ Arm
    \/ Begin \/ PgCreate \/ PgRollback
    \/ MyCreate \/ MyDrop
    \/ QueryExpires \/ GroupExpires \/ BackstopExpires

-----------------------------------------------------------------------------
(* The server, the connection and time.                                     *)

MaySay(what) ==
    CASE what = "ok" /\ running = "create" -> job.writable /\ ~theirs
      [] what = "ok" /\ running = "drop" -> ours \/ theirs
      [] what = "refused" /\ running = "create" -> ~job.writable
      [] OTHER -> TRUE

\* CREATE outside a transaction is committed, and so is DROP.
Effect ==
    /\ open' = (running = "begin" \/ (open /\ running # "rollback"))
    /\ ours' = ((running = "create" /\ ~open) \/ (ours /\ running # "drop"))
    /\ theirs' = (theirs /\ running # "drop")
    /\ created' = (created \/ running = "create")

Serve ==
    /\ running # "none"
    /\ \E what \in {"ok", "refused", "other"} :
          /\ MaySay(what)
          /\ IF what = "ok" THEN Effect ELSE UNCHANGED database
          /\ reply' = IF link = "up" /\ pc # "done" THEN what ELSE reply
    /\ running' = "none" /\ ran' = 0
    /\ UNCHANGED <<job, pc, waited, asked, stale, bounds, made, report, link>>

\* The server notices that the client is gone and rolls back.
SessionEnds ==
    /\ open /\ running = "none"
    /\ pc = "done" \/ link # "up"
    /\ open' = FALSE
    /\ UNCHANGED <<job, pc, waited, asked, stale, reply, bounds, made, report, link, running,
                   ran, ours, theirs, created>>

LinkFails ==
    /\ pc # "done" /\ link # "broken"
    /\ link' \in {"broken", "hole"} \ {link}
    /\ reply' = IF link' = "broken" /\ asked # "no" /\ reply = "none" THEN "io" ELSE reply
    /\ UNCHANGED <<job, pc, waited, asked, stale, bounds, made, report, running, ran, database>>

\* Time passes while the client can only wait.
Tick ==
    /\ pc # "done" /\ asked # "no" /\ reply = "none"
    /\ ~Due /\ ~CutNow
    /\ waited' = waited + 1
    /\ ran' = IF running # "none" /\ ran < Cap THEN ran + 1 ELSE ran
    /\ UNCHANGED <<job, pc, asked, stale, reply, bounds, made, report, link, running, database>>

Next == Client \/ Serve \/ SessionEnds \/ LinkFails \/ Tick

Spec == Init /\ [][Next]_vars

FairSpec ==
    /\ Spec
    /\ WF_vars(Client)
    /\ WF_vars(Tick)
    /\ WF_vars(Serve /\ CutNow)

-----------------------------------------------------------------------------
(* What the probe promises.                                                 *)

Values ==
    /\ job \in Jobs
    /\ pc \in Statements \cup {"done"}
    /\ asked \in {"no", "sent", "behind"}
    /\ reply \in Answers \cup {"none"}
    /\ bounds \subseteq Arming
    /\ made \in Answers \cup {"none"}
    /\ report \in Facts
    /\ (report.fact # "none") <=> (pc = "done")
    /\ link \in {"up", "broken", "hole"}
    /\ running \in Statements \cup {"none"}

Flags ==
    /\ stale \in BOOLEAN /\ open \in BOOLEAN /\ ours \in BOOLEAN
    /\ theirs \in BOOLEAN /\ created \in BOOLEAN

\* The values, a fact exactly at the end (ServerFacts), and no wait past its deadline.
TypeOK ==
    /\ Values /\ Flags
    /\ waited \in Nat /\ ran \in 0 .. Cap
    /\ pc # "done" => waited <= Allowed

\* "Never a silent leak": a table the probe left behind, or that the server makes
\* after the client has gone, is named in the report (mysql_probe,
\* probe_backstop_expired); PostgreSQL's report names none, so there
\* nothing may be left at all (pg_probe).
NoSilentOrphan == pc = "done" /\ ours => report.named

\* A table of that name that was there before survives (mysql_probe drops only
\* after a confirmed CREATE).
TheirsSurvives == theirs = job.taken

\* A role is called writing only if a table was made, and read-only only if the
\* server refuses it to make one, whatever late errors are read on the way (pg_probe,
\* classify_mysql_create_failure, probe_after_arming).
VerdictIsTrue ==
    /\ report.fact = "wrote" => created
    /\ report.fact = "blocked" => ~job.writable

\* "The backstop fires ONLY on a dead socket": a slow CREATE and a slow DROP on a
\* healthy connection do not raise the alarm (probe_backstop_ms, mysql_probe_bounded).
NoFalseAlarm == report.expired => link # "up"

\* doctor always comes to an end, on a silent connection too ("NO un-cancelled
\* await" in Mysql::diagnose).
DoctorEnds == <>(pc = "done")
=============================================================================
