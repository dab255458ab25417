------------------------------ MODULE RowsProofs ------------------------------
(***************************************************************************)
(* Proofs about RowsCommand, for every timeout, row limit, slack and set of *)
(* engines.  Six inductive invariants: Budgeted (time), Executed (which         *)
(* statement ran), Tunnelled (the forward), Typed (types), on top of it     *)
(* Logged (the record and the answer), and on top of that Candid (what an   *)
(* answer admits).                                                          *)
(***************************************************************************)
EXTENDS RowsCommand, FiniteSetTheorems, TLAPS

\* The attempt has not reached the database's answer yet.
Asking == {"session", "validate", "tunnel", "connect", "classify", "plan", "run"}

\* The Result of the command stands.
Settled == {"settle", "audit", "emit", "return", "report", "done"}

-----------------------------------------------------------------------------
(* Time.                                                                    *)

\* In the first attempt all the work is in one phase, and the wall clock has
\* seen it.  In the second, what the first worked and what this one may work
\* fit in the timeout.
Budgeted ==
    /\ attempt \in 1..2
    /\ budget \in Nat /\ phase \in Nat /\ clock \in Nat /\ work \in Nat
    /\ pc \in Asking \ {"run"} => phase = 0
    /\ job.engine \in OneDeadline =>
         /\ phase <= budget
         /\ attempt = 1 => budget = Timeout /\ work = phase /\ phase <= clock
         /\ attempt = 2 => work + budget <= Timeout + phase

LEMMA InitBudgeted == Init => Budgeted
BY RowsAssumption DEF Init, Budgeted, Asking

LEMMA NextBudgeted == Budgeted /\ [Next]_vars => Budgeted'
<1> SUFFICES ASSUME Budgeted, [Next]_vars
             PROVE  Budgeted'
    OBVIOUS
<1> USE RowsAssumption DEF Budgeted, Asking, Proceed, EndAttempt, OneDeadline
<1>1. CASE SessionRefused
    BY <1>1 DEF SessionRefused
<1>2. CASE OpenSession
    BY <1>2 DEF OpenSession
<1>3. CASE Validate
    BY <1>3 DEF Validate
<1>4. CASE OpenTunnel
    BY <1>4 DEF OpenTunnel, Elapse
<1>5. CASE Connect
    BY <1>5 DEF Connect, Elapse
<1>6. CASE Classify
    BY <1>6 DEF Classify, Elapse
<1>7. CASE PlanInSession
    <2>1. PICK d \in 0..budget : Spend(d) /\ (Elapse(d) \/ \E goodbye \in 0..Slack : Elapse(d + goodbye))
        BY <1>7 DEF PlanInSession
    <2>2. phase = 0 /\ phase' = d /\ work' = work + d
        BY <1>7, <2>1 DEF PlanInSession, Spend
    <2>3. clock' \in Nat /\ (attempt = 1 => clock' >= clock + d)
        BY <2>1 DEF Elapse
    <2>4. pc' \in {"run", "settle"}
        BY <1>7 DEF PlanInSession, Judge
    <2> QED
        BY <1>7, <2>2, <2>3, <2>4 DEF PlanInSession
<1>8. CASE PlanByExchange
    <2>1. PICK d \in 0..Exchange : Spend(d) /\ Elapse(d)
        BY <1>8 DEF PlanByExchange
    <2>2. phase' \in Nat /\ work' \in Nat /\ clock' \in Nat
        BY <2>1 DEF Spend, Elapse, Exchange
    <2>3. pc' \in {"run", "settle"}
        BY <1>8 DEF PlanByExchange, Judge
    <2> QED
        BY <1>8, <2>2, <2>3 DEF PlanByExchange
<1>9. CASE Run
    <2>1. PICK d \in 0..RunTime : Spend(d) /\ Elapse(d)
        BY <1>9 DEF Run
    <2>2. d \in Nat
        BY <2>1
    <2>3. job.engine \in OneDeadline => phase + d <= budget
        BY <2>1, <2>2 DEF RunTime
    <2>4. phase' = phase + d /\ work' = work + d
        BY <2>1 DEF Spend
    <2>5. clock' \in Nat /\ (attempt = 1 => clock' = clock + d)
        BY <2>1, <2>2 DEF Elapse
    <2>6. pc' \in {"check", "settle"}
        BY <1>9 DEF Run
    <2> QED
        BY <1>9, <2>2, <2>3, <2>4, <2>5, <2>6 DEF Run
<1>10. CASE NetB
    BY <1>10 DEF NetB
<1>11. CASE Retry
    <2>1. clock < Timeout /\ budget' = Timeout - clock /\ attempt = 1
        BY <1>11 DEF Retry, WillRetry, Left
    <2> QED
        BY <1>11, <2>1 DEF Retry
<1>12. CASE Settle
    BY <1>12 DEF Settle
<1>13. CASE AuditFinish
    BY <1>13 DEF AuditFinish
<1>14. CASE Emit
    BY <1>14 DEF Emit
<1>15. CASE Return
    BY <1>15 DEF Return
<1>16. CASE Report
    BY <1>16 DEF Report
<1>17. CASE UNCHANGED vars
    BY <1>17 DEF vars
<1> QED
    BY <1>1, <1>2, <1>3, <1>4, <1>5, <1>7, <1>8, <1>9, <1>10, <1>11, <1>12, <1>13,
       <1>14, <1>15, <1>16, <1>17, <1>6 DEF Next, Finished

\* The owner's timeout bounds what the database works for one command, both
\* passes of sample together, whatever the connects, the tunnel and the goodbye
\* cost (fallback_budget_ms and set_query_timeout_ms).
THEOREM SharedBudget == Spec => []BudgetShared
<1>1. Budgeted => BudgetShared
    BY RowsAssumption DEF Budgeted, BudgetShared, OneDeadline
<1> QED
    BY InitBudgeted, NextBudgeted, <1>1, PTL DEF Spec

-----------------------------------------------------------------------------
(* Execution.                                                               *)

\* Only the statement of the current attempt can have run, an attempt that ends
\* in EXPENSIVE_QUERY has not run it, and the record names the attempt.
Executed ==
    /\ attempt \in 1..2
    /\ executed = attempt
    /\ ran \subseteq {attempt}
    /\ over \subseteq 1..attempt /\ slow \subseteq 1..attempt
    /\ pc \in Asking => attempt \notin ran
    /\ pc = "settle" /\ outcome = "EXPENSIVE_QUERY" => attempt \notin ran
    /\ pc \in Asking \cup {"check"} =>
         /\ attempt \notin over
         /\ job.engine # "clickhouse" => attempt \notin slow
    /\ RefusedNeverRuns
    /\ record # NoRecord =>
         /\ pc \in {"emit", "return", "report", "done"}
         /\ record.sql = executed

LEMMA InitExecuted == Init => Executed
BY DEF Init, Executed, Asking, RefusedNeverRuns

LEMMA NextExecuted == Executed /\ [Next]_vars => Executed'
<1> SUFFICES ASSUME Executed, [Next]_vars
             PROVE  Executed'
    OBVIOUS
<1> USE DEF Executed, Asking, RefusedNeverRuns, Proceed, EndAttempt, ends
<1>1. CASE SessionRefused
    BY <1>1 DEF SessionRefused
<1>2. CASE OpenSession
    BY <1>2 DEF OpenSession
<1>3. CASE Validate
    BY <1>3 DEF Validate
<1>4. CASE OpenTunnel
    BY <1>4 DEF OpenTunnel
<1>5. CASE Connect
    BY <1>5 DEF Connect
<1>6. CASE Classify
    BY <1>6 DEF Classify
<1>7. CASE PlanInSession
    <2>1. \/ pc' = "run" /\ UNCHANGED <<over, slow>>
          \/ /\ pc' = "settle"
             /\ over' \in {over, over \cup {attempt}}
             /\ slow' \in {slow, slow \cup {attempt}}
        BY <1>7 DEF PlanInSession, Judge
    <2>2. UNCHANGED <<job, attempt, executed, record, ran>> /\ pc = "plan"
        BY <1>7 DEF PlanInSession
    <2>3. ran = {} /\ attempt \in 1..attempt
        BY <2>2
    <2>4. CASE pc' = "run" /\ UNCHANGED <<over, slow>>
        BY <2>2, <2>3, <2>4
    <2>5. CASE pc' = "settle" /\ over' \subseteq 1..attempt /\ slow' \subseteq 1..attempt
        BY <2>2, <2>3, <2>5
    <2> QED
        BY <2>1, <2>3, <2>4, <2>5
<1>8. CASE PlanByExchange
    <2>1. \/ pc' = "run" /\ UNCHANGED over
          \/ pc' = "settle" /\ over' = over \cup {attempt}
        BY <1>8 DEF PlanByExchange, Judge
    <2>2. slow' \in {slow, slow \cup {attempt}}
        BY <1>8 DEF PlanByExchange
    <2>3. UNCHANGED <<job, attempt, executed, record, ran>> /\ pc = "plan"
          /\ job.engine = "clickhouse"
        BY <1>8 DEF PlanByExchange
    <2>4. ran = {} /\ attempt \in 1..attempt /\ slow' \subseteq 1..attempt
        BY <2>2, <2>3
    <2>5. CASE pc' = "run" /\ UNCHANGED over
        BY <2>3, <2>4, <2>5
    <2>6. CASE pc' = "settle" /\ over' = over \cup {attempt}
        BY <2>3, <2>4, <2>6
    <2> QED
        BY <2>1, <2>5, <2>6
<1>9. CASE Run
    <2>1. \/ pc' = "check"
          \/ pc' = "settle" /\ outcome' \in RunErrors
        BY <1>9 DEF Run
    <2>2. "EXPENSIVE_QUERY" \notin RunErrors
        BY DEF RunErrors
    <2>3. ran' \in {ran, ran \cup {attempt}}
        BY <1>9 DEF Run
    <2>4. UNCHANGED <<job, attempt, executed, record, over, slow>> /\ pc = "run"
        BY <1>9 DEF Run
    <2> QED
        BY <2>1, <2>2, <2>3, <2>4
<1>10. CASE NetB
    BY <1>10 DEF NetB
<1>11. CASE Retry
    <2>1. attempt = 1 /\ attempt' = 2 /\ executed' = 2 /\ ran = {}
        BY <1>11 DEF Retry, WillRetry
    <2> QED
        BY <1>11, <2>1 DEF Retry
<1>12. CASE Settle
    BY <1>12 DEF Settle
<1>13. CASE AuditFinish
    BY <1>13 DEF AuditFinish
<1>14. CASE Emit
    BY <1>14 DEF Emit
<1>15. CASE Return
    BY <1>15 DEF Return
<1>16. CASE Report
    BY <1>16 DEF Report
<1>17. CASE UNCHANGED vars
    BY <1>17 DEF vars
<1> QED
    BY <1>1, <1>2, <1>3, <1>4, <1>5, <1>7, <1>8, <1>9, <1>10, <1>11, <1>12, <1>13,
       <1>14, <1>15, <1>16, <1>17, <1>6 DEF Next, Finished

\* At most one of the two statements of sample is ever executed, and the audit
\* record names it.
THEOREM RunsOnce == Spec => []RunsOnceAndIsNamed
<1>1. Executed => RunsOnceAndIsNamed
    <2> SUFFICES ASSUME Executed
                 PROVE  RunsOnceAndIsNamed
        OBVIOUS
    <2>1. IsFiniteSet({attempt}) /\ Cardinality({attempt}) = 1
        BY FS_Singleton
    <2>2. Cardinality(ran) <= Cardinality({attempt})
        BY <2>1, FS_Subset DEF Executed
    <2>3. Cardinality(ran) <= 1
        BY <2>1, <2>2
    <2>4. record # NoRecord /\ ran # {} => ran = {record.sql}
        BY DEF Executed
    <2> QED
        BY <2>3, <2>4 DEF RunsOnceAndIsNamed
<1> QED
    BY InitExecuted, NextExecuted, <1>1, PTL DEF Spec

\* What the guardrail refused is never executed.
THEOREM RefusalIsFinal == Spec => []RefusedNeverRuns
<1>1. Executed => RefusedNeverRuns
    BY DEF Executed
<1> QED
    BY InitExecuted, NextExecuted, <1>1, PTL DEF Spec

-----------------------------------------------------------------------------
(* The forward.                                                             *)

Tunnelled ==
    /\ tunnel \in {"none", "up", "dropped"}
    /\ opened = IF tunnel = "none" THEN 0 ELSE 1
    /\ job.ssh \in BOOLEAN
    /\ job.ssh /\ pc \in {"connect", "classify", "plan", "run", "check"} => tunnel = "up"
    /\ pc = "session" => tunnel = "none"
    /\ pc \in {"report", "done"} <=> pc \notin Asking \cup {"check", "settle", "audit",
                                                            "emit", "return"}
    /\ tunnel = "dropped" => pc \in {"report", "done"}
    /\ pc \in {"report", "done"} => tunnel # "up"

LEMMA InitTunnelled == Init => Tunnelled
BY DEF Init, Tunnelled, Asking, Jobs, JobType

LEMMA NextTunnelled == Tunnelled /\ [Next]_vars => Tunnelled'
<1> SUFFICES ASSUME Tunnelled, [Next]_vars
             PROVE  Tunnelled'
    OBVIOUS
<1> USE DEF Tunnelled, Asking, Proceed, EndAttempt
<1>1. CASE SessionRefused
    BY <1>1 DEF SessionRefused
<1>2. CASE OpenSession
    BY <1>2 DEF OpenSession
<1>3. CASE Validate
    BY <1>3 DEF Validate
<1>4. CASE OpenTunnel
    BY <1>4 DEF OpenTunnel
<1>5. CASE Connect
    BY <1>5 DEF Connect
<1>6. CASE Classify
    BY <1>6 DEF Classify
<1>7. CASE PlanInSession
    BY <1>7 DEF PlanInSession, Judge
<1>8. CASE PlanByExchange
    BY <1>8 DEF PlanByExchange, Judge
<1>9. CASE Run
    BY <1>9 DEF Run
<1>10. CASE NetB
    BY <1>10 DEF NetB
<1>11. CASE Retry
    BY <1>11 DEF Retry
<1>12. CASE Settle
    BY <1>12 DEF Settle
<1>13. CASE AuditFinish
    BY <1>13 DEF AuditFinish
<1>14. CASE Emit
    BY <1>14 DEF Emit
<1>15. CASE Return
    BY <1>15 DEF Return
<1>16. CASE Report
    BY <1>16 DEF Report
<1>17. CASE UNCHANGED vars
    BY <1>17 DEF vars
<1> QED
    BY <1>1, <1>2, <1>3, <1>4, <1>5, <1>7, <1>8, <1>9, <1>10, <1>11, <1>12, <1>13,
       <1>14, <1>15, <1>16, <1>17, <1>6 DEF Next, Finished

\* One forward serves both attempts of a command and does not outlive it.
THEOREM OneTunnelServes == Spec => []OneTunnel
<1>1. Tunnelled => OneTunnel
    BY DEF Tunnelled, OneTunnel
<1> QED
    BY InitTunnelled, NextTunnelled, <1>1, PTL DEF Spec

\* The attempts of one command share its budget and its tunnel, for every
\* timeout and every set of engines.
THEOREM SharedByAttempts == Spec => []AttemptsShare
<1>1. BudgetShared /\ OneTunnel => AttemptsShare
    BY DEF AttemptsShare
<1> QED
    BY SharedBudget, OneTunnelServes, <1>1, PTL

-----------------------------------------------------------------------------
(* Types.                                                                   *)

\* TypeOK but for guard, the one Boolean among the variables, and job.
Kept ==
    /\ pc \in {"session", "validate", "tunnel", "connect", "classify", "plan", "run", "check",
               "settle", "audit", "emit", "return", "report", "done"}
    /\ attempt \in 1..2 /\ executed \in 1..2
    /\ judged \in {"no", "accepted", "unknown"}
    /\ budget \in 0..Timeout
    /\ phase \in Nat /\ clock \in Nat /\ work \in Nat /\ opened \in Nat
    /\ tunnel \in {"none", "up", "dropped"}
    /\ reply \in Reply \cup {NoReply}
    /\ outcome \in Codes \cup {"none"}
    /\ warnings \subseteq WarningCodes
    /\ record \in Record \cup {NoRecord}
    /\ shown \in Told \cup {NoAnswer}
    /\ ran \subseteq 1..2 /\ over \subseteq 1..2 /\ slow \subseteq 1..2

\* An answer is built from the reply it stands for.
Typed ==
    /\ job \in Jobs
    /\ guard \in BOOLEAN
    /\ Kept
    /\ pc = "check" \/ outcome = "ok" => reply \in Reply
    /\ pc \in Settled => outcome \in Codes

LEMMA InitTyped == Init => Typed
<1> SUFFICES ASSUME Init
             PROVE  Typed
    OBVIOUS
<1>1. job \in Jobs /\ guard \in BOOLEAN
    BY DEF Init
<1>2. Kept
    BY RowsAssumption DEF Init, Kept
<1>3. (pc = "check" \/ outcome = "ok" => reply \in Reply) /\ pc \notin Settled
    BY DEF Init, Settled
<1> QED
    BY <1>1, <1>2, <1>3 DEF Typed

\* What the envelope and the record may say.
LEMMA ResultType == Typed /\ outcome \in Codes => Result \in Told
<1> SUFFICES ASSUME Typed, outcome \in Codes
             PROVE  Result \in Told
    OBVIOUS
<1>1. CASE outcome = "ok"
    <2>1. reply \in Reply
        BY <1>1 DEF Typed
    <2>2. (IF OverLimit THEN Limit ELSE reply.got) \in 0..Limit
        BY <2>1, RowsAssumption DEF Reply, OverLimit
    <2>3. Truncated \in BOOLEAN /\ reply.cells \in Cells
        BY <2>1, RowsAssumption DEF Reply, Truncated, OverLimit
    <2>4. warnings \cup (IF Truncated THEN {"TRUNCATED"} ELSE {})
                   \cup (IF attempt = 2 THEN {"SAMPLE_FALLBACK"} ELSE {}) \subseteq WarningCodes
        BY DEF Typed, Kept, WarningCodes
    <2> QED
        BY <1>1, <2>2, <2>3, <2>4 DEF Result, Answer, Told, Codes
<1>2. CASE outcome # "ok"
    BY <1>2, RowsAssumption DEF Result, Failure, Told, Cells
<1> QED
    BY <1>1, <1>2

\* guard is set by Validate alone, and job by nobody.
LEMMA NextGuard == Typed /\ [Next]_vars => job' \in Jobs /\ guard' \in BOOLEAN
<1> SUFFICES ASSUME Typed, [Next]_vars
             PROVE  job' \in Jobs /\ guard' \in BOOLEAN
    OBVIOUS
<1>1. CASE Validate
    <2>1. guard' = guard \/ \E is_query \in BOOLEAN : guard' = (is_query /\ job.guard)
        BY <1>1 DEF Validate
    <2> QED
        BY <1>1, <2>1 DEF Validate, Typed
<1>2. job' = job
    BY DEF Next, vars, Finished, SessionRefused, OpenSession, Validate, OpenTunnel, Connect,
           Classify, PlanInSession, PlanByExchange, Run, NetB, Retry, Settle, AuditFinish,
           Emit, Return, Report
<1>3. CASE ~Validate
    <2>1. guard' = guard
        BY <1>3 DEF Next, vars, Finished, SessionRefused, OpenSession, OpenTunnel, Connect,
               Classify, PlanInSession, PlanByExchange, Run, NetB, Retry, Settle, AuditFinish,
               Emit, Return, Report
    <2> QED
        BY <1>2, <2>1 DEF Typed
<1> QED
    BY <1>1, <1>2, <1>3 DEF Typed

LEMMA NextTyped == Typed /\ [Next]_vars => Typed'
<1> SUFFICES ASSUME Typed, [Next]_vars
             PROVE  Typed'
    OBVIOUS
<1> DEFINE Rest == /\ pc = "check" \/ outcome = "ok" => reply \in Reply
                   /\ pc \in Settled => outcome \in Codes
<1> SUFFICES Kept' /\ Rest'
    BY NextGuard DEF Typed
<1> USE RowsAssumption DEF Typed, Kept, Settled, Codes, SessionErrors, Proceed, EndAttempt, ends
<1>1. CASE SessionRefused
    BY <1>1 DEF SessionRefused
<1>2. CASE OpenSession
    BY <1>2 DEF OpenSession
<1>3. CASE Validate
    <2>1. pc' \in {"settle", "tunnel"} /\ outcome' \in {outcome, "REFUSED"}
        BY <1>3 DEF Validate
    <2> QED
        BY <1>3, <2>1 DEF Validate
<1>4. CASE OpenTunnel
    BY <1>4 DEF OpenTunnel, Elapse
<1>5. CASE Connect
    BY <1>5 DEF Connect, Elapse
<1>6. CASE Classify
    BY <1>6 DEF Classify, Elapse
<1>7. CASE PlanInSession
    <2>1. PICK d \in 0..budget : Spend(d) /\ (Elapse(d) \/ \E goodbye \in 0..Slack : Elapse(d + goodbye))
        BY <1>7 DEF PlanInSession
    <2>2. phase' \in Nat /\ work' \in Nat /\ clock' \in Nat
        BY <2>1 DEF Spend, Elapse
    <2>3. /\ pc' \in {"run", "settle"}
          /\ pc' = "run" => UNCHANGED outcome
          /\ pc' = "settle" => outcome' \in {"EXPENSIVE_QUERY", "DB_ERROR", "TIMEOUT"}
          /\ judged' \in {judged, "accepted", "unknown"}
        BY <1>7 DEF PlanInSession, Judge
    <2>4. over' \in {over, over \cup {attempt}} /\ slow' \in {slow, slow \cup {attempt}}
        BY <1>7 DEF PlanInSession
    <2> QED
        BY <1>7, <2>2, <2>3, <2>4 DEF PlanInSession
<1>8. CASE PlanByExchange
    <2>1. PICK d \in 0..Exchange : Spend(d) /\ Elapse(d)
        BY <1>8 DEF PlanByExchange
    <2>2. phase' \in Nat /\ work' \in Nat /\ clock' \in Nat
        BY <2>1 DEF Spend, Elapse, Exchange
    <2>3. /\ pc' \in {"run", "settle"}
          /\ pc' = "run" => UNCHANGED outcome
          /\ pc' = "settle" => outcome' = "EXPENSIVE_QUERY"
          /\ judged' \in {judged, "accepted", "unknown"}
        BY <1>8 DEF PlanByExchange, Judge
    <2>4. over' \in {over, over \cup {attempt}} /\ slow' \in {slow, slow \cup {attempt}}
        BY <1>8 DEF PlanByExchange
    <2> QED
        BY <1>8, <2>2, <2>3, <2>4 DEF PlanByExchange
<1>9. CASE Run
    <2>1. PICK d \in 0..RunTime : Spend(d) /\ Elapse(d)
        BY <1>9 DEF Run
    <2>2. d \in Nat
        BY <2>1
    <2>3. phase' \in Nat /\ work' \in Nat /\ clock' \in Nat
        BY <2>1, <2>2 DEF Spend, Elapse
    <2>4. \/ pc' = "check" /\ reply' \in Reply /\ UNCHANGED outcome
          \/ pc' = "settle" /\ UNCHANGED reply /\ outcome' \in RunErrors
        BY <1>9 DEF Run, Replies
    <2>5. RunErrors \subseteq Codes \ {"ok"}
        BY DEF RunErrors
    <2>6. ran' \in {ran, ran \cup {attempt}}
        BY <1>9 DEF Run
    <2> QED
        BY <1>9, <2>3, <2>4, <2>5, <2>6 DEF Run
<1>10. CASE NetB
    <2>1. reply \in Reply
        BY <1>10 DEF NetB
    <2>2. reply' \in Reply
        BY <1>10, <2>1 DEF NetB, Reply, Cells
    <2>3. outcome' \in {"PII", "ok"} /\ pc' = "settle"
        BY <1>10 DEF NetB
    <2>4. warnings' \subseteq WarningCodes
        BY <1>10 DEF NetB, Skipped, WarningCodes
    <2> QED
        BY <1>10, <2>2, <2>3, <2>4 DEF NetB
<1>11. CASE Retry
    <2>1. budget' \in 0..Timeout
        BY <1>11 DEF Retry, WillRetry, Left
    <2> QED
        BY <1>11, <2>1 DEF Retry
<1>12. CASE Settle
    BY <1>12 DEF Settle
<1>13. CASE AuditFinish
    <2>1. Result \in Told
        BY <1>13, ResultType DEF AuditFinish
    <2>2. record' \in {record, [said |-> Result, sql |-> executed]}
        BY <1>13 DEF AuditFinish
    <2>3. record' \in Record \cup {NoRecord}
        BY <2>1, <2>2 DEF Record
    <2>4. outcome' \in {outcome, "AUDIT_FAILED"} /\ pc' = "emit"
        BY <1>13 DEF AuditFinish
    <2> QED
        BY <1>13, <2>3, <2>4 DEF AuditFinish
<1>14. CASE Emit
    <2>1. Result \in Told
        BY <1>14, ResultType DEF Emit
    <2>2. shown' \in {shown, Result} /\ outcome' \in {outcome, "INTERNAL"} /\ pc' = "return"
        BY <1>14 DEF Emit
    <2> QED
        BY <1>14, <2>1, <2>2 DEF Emit
<1>15. CASE Return
    BY <1>15 DEF Return
<1>16. CASE Report
    <2>1. outcome # "ok" => Failure(outcome) \in Told
        BY <1>16, ResultType DEF Report, Result
    <2>2. shown' \in Told \cup {NoAnswer}
        BY <1>16, <2>1 DEF Report
    <2> QED
        BY <1>16, <2>2 DEF Report
<1>17. CASE UNCHANGED vars
    BY <1>17 DEF vars
<1> QED
    BY <1>1, <1>2, <1>3, <1>4, <1>5, <1>6, <1>7, <1>8, <1>9, <1>10, <1>11, <1>12,
       <1>13, <1>14, <1>15, <1>16, <1>17 DEF Next, Finished

\* Every variable keeps its type, and so every answer and every record is one of
\* the kinds Told lists.
THEOREM TypeCorrect == Spec => []TypeOK
<1>1. Typed => TypeOK
    BY DEF Typed, Kept, TypeOK
<1> QED
    BY InitTyped, NextTyped, <1>1, PTL DEF Spec

-----------------------------------------------------------------------------
(* The record and the answer.                                               *)

\* Before audit_finish nothing is recorded and nothing shown; after it the record
\* states the Result, unless the Result could not be written to stdout.
Logged ==
    /\ Typed
    /\ pc \in Asking \cup {"check", "settle", "audit"} => record = NoRecord
    /\ pc \in Asking \cup {"check", "settle", "audit", "emit"} => shown = NoAnswer
    /\ pc \in {"emit", "return", "report", "done"} /\ record = NoRecord /\ job.audit =>
         outcome \in SessionErrors \cup {"AUDIT_FAILED"}
    /\ record # NoRecord =>
         \/ record.said = Result
         \/ record.said.code = "ok" /\ outcome = "INTERNAL"
    /\ shown # NoAnswer => shown = Result

LEMMA InitLogged == Init => Logged
<1> SUFFICES ASSUME Init
             PROVE  Logged
    OBVIOUS
<1>1. Typed
    BY InitTyped
<1> QED
    BY <1>1 DEF Init, Logged

\* The actions up to audit_finish touch neither the record nor the answer.
LEMMA BeforeAudit ==
    ASSUME Logged, Typed',
           pc \in Asking \cup {"check", "settle"},
           pc' \in Asking \cup {"check", "settle", "audit"},
           UNCHANGED ends
    PROVE  Logged'
BY DEF Logged, ends, Asking

LEMMA NextLogged == Logged /\ [Next]_vars => Logged'
<1> SUFFICES ASSUME Logged, [Next]_vars
             PROVE  Logged'
    OBVIOUS
<1>0. Typed /\ Typed'
    BY NextTyped DEF Logged
<1>1. CASE SessionRefused
    BY <1>0, <1>1 DEF SessionRefused, Logged, Asking, ends
<1>2. CASE OpenSession
    BY <1>0, <1>2, BeforeAudit DEF OpenSession, Proceed, EndAttempt, Asking
<1>3. CASE Validate
    BY <1>0, <1>3, BeforeAudit DEF Validate, Proceed, EndAttempt, Asking
<1>4. CASE OpenTunnel
    BY <1>0, <1>4, BeforeAudit DEF OpenTunnel, Proceed, EndAttempt, Asking
<1>5. CASE Connect
    BY <1>0, <1>5, BeforeAudit DEF Connect, Proceed, EndAttempt, Asking
<1>6. CASE Classify
    BY <1>0, <1>6, BeforeAudit DEF Classify, Proceed, EndAttempt, Asking
<1>7. CASE PlanInSession
    BY <1>0, <1>7, BeforeAudit DEF PlanInSession, Judge, Proceed, EndAttempt, Asking
<1>8. CASE PlanByExchange
    BY <1>0, <1>8, BeforeAudit DEF PlanByExchange, Judge, Proceed, EndAttempt, Asking
<1>9. CASE Run
    BY <1>0, <1>9, BeforeAudit DEF Run, Proceed, EndAttempt, Asking
<1>10. CASE NetB
    BY <1>0, <1>10, BeforeAudit DEF NetB, Proceed, EndAttempt, Asking
<1>11. CASE Retry
    BY <1>0, <1>11, BeforeAudit DEF Retry, Proceed, EndAttempt, Asking
<1>12. CASE Settle
    BY <1>0, <1>12, BeforeAudit DEF Settle, Proceed, EndAttempt, Asking
<1>13. CASE AuditFinish
    <2>1. record = NoRecord /\ shown' = NoAnswer /\ pc' = "emit"
        BY <1>13 DEF AuditFinish, Logged, Asking
    <2>2. UNCHANGED <<job, reply, warnings, attempt>>
        BY <1>13 DEF AuditFinish
    <2>3. CASE job.audit /\ outcome' = "AUDIT_FAILED" /\ UNCHANGED record
        BY <1>0, <2>1, <2>2, <2>3 DEF Logged, Asking
    <2>4. CASE ~job.audit /\ UNCHANGED <<record, outcome>>
        BY <1>0, <2>1, <2>2, <2>4 DEF Logged, Asking
    <2>5. CASE record' = [said |-> Result, sql |-> executed] /\ UNCHANGED outcome
        <3>1. Result' = Result
            BY <2>2, <2>5 DEF Result, Answer, Failure, Truncated, OverLimit
        <3>2. outcome \in Codes
            BY <1>0, <1>13 DEF AuditFinish, Typed, Settled
        <3>3. record' # NoRecord
            BY <1>0, <2>5, <3>2, ResultType, NothingAssumption DEF Record, Typed, Kept
        <3>4. record'.said = Result'
            BY <2>5, <3>1
        <3> QED
            BY <1>0, <2>1, <3>3, <3>4 DEF Logged, Asking
    <2> QED
        BY <1>13, <2>3, <2>4, <2>5 DEF AuditFinish
<1>14. CASE Emit
    <2>1. UNCHANGED <<job, reply, warnings, attempt, record>> /\ pc' = "return" /\ pc = "emit"
        BY <1>14 DEF Emit
    <2>2. shown = NoAnswer
        BY <2>1 DEF Logged
    <2>3. CASE shown' \in {Result, NoAnswer} /\ UNCHANGED outcome
        <3>1. Result' = Result
            BY <2>1, <2>3 DEF Result, Answer, Failure, Truncated, OverLimit
        <3> QED
            BY <1>0, <2>1, <2>3, <3>1 DEF Logged, Asking
    <2>4. CASE outcome = "ok" /\ outcome' = "INTERNAL" /\ shown' = NoAnswer
        <3>1. record # NoRecord => record.said.code = "ok"
            BY <2>4 DEF Logged, Result, Answer
        <3>2. record = NoRecord => ~job.audit
            BY <2>1, <2>4 DEF Logged, SessionErrors
        <3> QED
            BY <1>0, <2>1, <2>4, <3>1, <3>2 DEF Logged, Asking
    <2> QED
        BY <1>14, <2>2, <2>3, <2>4 DEF Emit
<1>15. CASE Return
    <2>1. UNCHANGED <<job, reply, warnings, attempt, record, shown, outcome>>
          /\ pc' = "report" /\ pc = "return"
        BY <1>15 DEF Return, Proceed, ends
    <2>2. Result' = Result
        BY <2>1 DEF Result, Answer, Failure, Truncated, OverLimit
    <2> QED
        BY <1>0, <2>1, <2>2 DEF Logged, Asking
<1>16. CASE Report
    <2>1. UNCHANGED <<job, reply, warnings, attempt, record, outcome>>
          /\ pc' = "done" /\ pc = "report"
        BY <1>16 DEF Report, Proceed
    <2>2. Result' = Result
        BY <2>1 DEF Result, Answer, Failure, Truncated, OverLimit
    <2>3. shown' \in {shown, Result}
        BY <1>16 DEF Report, Result
    <2> QED
        BY <1>0, <2>1, <2>2, <2>3 DEF Logged, Asking
<1>17. CASE UNCHANGED vars
    <2>1. Result' = Result
        BY <1>17 DEF vars, Result, Answer, Failure, Truncated, OverLimit
    <2> QED
        BY <1>0, <1>17, <2>1 DEF vars, Logged
<1> QED
    BY <1>1, <1>2, <1>3, <1>4, <1>5, <1>6, <1>7, <1>8, <1>9, <1>10, <1>11, <1>12,
       <1>13, <1>14, <1>15, <1>16, <1>17 DEF Next, Finished

\* What the agent is told and what the log says of the command agree, with the
\* three exceptions LogAgreesWithAnswer names (audit_finish).
THEOREM LogAgrees == Spec => []LogAgreesWithAnswer
<1>1. Logged => LogAgreesWithAnswer
    <2> SUFFICES ASSUME Logged, job.audit, shown # NoAnswer
                 PROVE  IF record = NoRecord
                          THEN shown.code \in SessionErrors \cup {"AUDIT_FAILED"}
                          ELSE \/ record.said = shown
                               \/ record.said.code = "ok" /\ shown = Failure("INTERNAL")
        BY DEF LogAgreesWithAnswer
    <2>1. shown = Result
        BY DEF Logged
    <2>2. pc \in {"return", "report", "done"}
        BY DEF Logged, Typed, Kept, Asking
    <2>3. CASE record = NoRecord
        <3>1. outcome \in SessionErrors \cup {"AUDIT_FAILED"}
            BY <2>2, <2>3 DEF Logged
        <3> QED
            BY <2>1, <2>3, <3>1 DEF Result, Failure, SessionErrors
    <2>4. CASE record # NoRecord
        BY <2>1, <2>4 DEF Logged, Result
    <2> QED
        BY <2>3, <2>4
<1> QED
    BY InitLogged, NextLogged, <1>1, PTL DEF Spec

-----------------------------------------------------------------------------
(* What an answer admits: the rows it lacks, the verdict it lacks, the cells it *)
(* masks.                                                                   *)

\* The engines tell, by one row too many or by cut, when rows are missing.
HonestReply(r, engine) ==
    /\ r \in Reply
    /\ (IF r.got > Limit THEN Limit ELSE r.got) < r.matched => r.got > Limit \/ r.cut
    /\ r.got > Limit \/ r.cut =>
         \/ (IF r.got > Limit THEN Limit ELSE r.got) < r.matched
         \/ engine = "mongodb"

LEMMA RepliesAreHonest == ASSUME NEW r \in Replies PROVE HonestReply(r, job.engine)
<1> DEFINE asked == IF r.matched > Limit THEN Limit + 1 ELSE r.matched
<1>1. r \in Reply /\ r.matched \in Nat /\ r.got \in Nat /\ r.cut \in BOOLEAN /\ Limit \in Nat
    BY RowsAssumption DEF Replies, Reply
<1>2. r.got <= asked
    BY DEF Replies
<1>3. CASE job.engine = "mongodb"
    <2>1. r.got < asked => r.cut
        BY <1>3 DEF Replies
    <2> QED
        BY <1>1, <1>2, <1>3, <2>1 DEF HonestReply
<1>4. CASE job.engine = "clickhouse"
    <2>1. r.got = asked /\ (r.cut <=> asked > Limit)
        BY <1>4 DEF Replies
    <2> QED
        BY <1>1, <2>1 DEF HonestReply
<1>5. CASE job.engine \notin {"mongodb", "clickhouse"}
    <2>1. r.got = asked /\ ~r.cut
        BY <1>5 DEF Replies
    <2> QED
        BY <1>1, <2>1 DEF HonestReply
<1> QED
    BY <1>3, <1>4, <1>5

Candid ==
    /\ Logged
    /\ pc \in Asking \cup {"check"} => outcome # "ok"
    /\ pc = "check" \/ outcome = "ok" => HonestReply(reply, job.engine)
    /\ "TRUNCATED" \notin warnings
    /\ outcome = "ok" => reply.cells # "raw"
    /\ outcome = "ok" /\ guard /\ judged # "accepted" => "GUARDRAIL_SKIPPED" \in warnings
    /\ record # NoRecord => record.said.cells # "raw"

LEMMA InitCandid == Init => Candid
<1> SUFFICES ASSUME Init
             PROVE  Candid
    OBVIOUS
<1>1. Logged
    BY InitLogged
<1> QED
    BY <1>1 DEF Init, Candid

\* An action that comes to no answer and reads none keeps all of it.
LEMMA NoAnswerYet ==
    ASSUME Candid, Logged', pc' # "check", outcome' # "ok",
           UNCHANGED <<warnings, record>>
    PROVE  Candid'
BY DEF Candid

\* So does one that leaves the answer alone.
LEMMA AnswerAlone ==
    ASSUME Candid, Logged', pc' \notin Asking \cup {"check"}, outcome' \in {outcome, "INTERNAL"},
           UNCHANGED <<job, warnings, record, reply, guard, judged>>
    PROVE  Candid'
BY DEF Candid

LEMMA NextCandid == Candid /\ [Next]_vars => Candid'
<1> SUFFICES ASSUME Candid, [Next]_vars
             PROVE  Candid'
    OBVIOUS
<1>0. Logged /\ Logged' /\ Typed
    BY NextLogged DEF Candid, Logged
<1>1. CASE SessionRefused
    BY <1>0, <1>1, NoAnswerYet DEF SessionRefused, SessionErrors, ends
<1>2. CASE OpenSession
    <2>1. pc' # "check" /\ outcome' # "ok"
        BY <1>2 DEF OpenSession, Proceed, EndAttempt, Candid, Asking
    <2> QED
        BY <1>0, <1>2, <2>1, NoAnswerYet DEF OpenSession, ends
<1>3. CASE Validate
    <2>1. pc' # "check" /\ outcome' # "ok"
        BY <1>3 DEF Validate, Proceed, EndAttempt, Candid, Asking
    <2> QED
        BY <1>0, <1>3, <2>1, NoAnswerYet DEF Validate, ends
<1>4. CASE OpenTunnel
    <2>1. pc' # "check" /\ outcome' # "ok"
        BY <1>4 DEF OpenTunnel, Proceed, EndAttempt, Candid, Asking
    <2> QED
        BY <1>0, <1>4, <2>1, NoAnswerYet DEF OpenTunnel, ends
<1>5. CASE Connect
    <2>1. pc' # "check" /\ outcome' # "ok"
        BY <1>5 DEF Connect, Proceed, EndAttempt, Candid, Asking
    <2> QED
        BY <1>0, <1>5, <2>1, NoAnswerYet DEF Connect, ends
<1>6. CASE Classify
    <2>1. pc' # "check" /\ outcome' # "ok"
        BY <1>6 DEF Classify, Proceed, EndAttempt, Candid, Asking
    <2> QED
        BY <1>0, <1>6, <2>1, NoAnswerYet DEF Classify, ends
<1>7. CASE PlanInSession
    <2>1. pc' # "check" /\ outcome' # "ok"
        BY <1>7 DEF PlanInSession, Judge, Proceed, EndAttempt, Candid, Asking
    <2> QED
        BY <1>0, <1>7, <2>1, NoAnswerYet DEF PlanInSession, ends
<1>8. CASE PlanByExchange
    <2>1. pc' # "check" /\ outcome' # "ok"
        BY <1>8 DEF PlanByExchange, Judge, Proceed, EndAttempt, Candid, Asking
    <2> QED
        BY <1>0, <1>8, <2>1, NoAnswerYet DEF PlanByExchange, ends
<1>9. CASE Run
    <2>1. CASE pc' = "check" /\ reply' \in Replies /\ UNCHANGED <<job, outcome, warnings, record>>
        <3>1. HonestReply(reply', job.engine)
            BY <2>1, RepliesAreHonest
        <3>2. outcome' # "ok"
            BY <1>9, <2>1 DEF Run, Candid, Asking
        <3> QED
            BY <1>0, <2>1, <3>1, <3>2 DEF Candid
    <2>2. CASE pc' = "settle" /\ outcome' \in RunErrors /\ UNCHANGED <<warnings, record>>
        BY <1>0, <2>2, NoAnswerYet DEF RunErrors
    <2> QED
        BY <1>9, <2>1, <2>2 DEF Run, Proceed, EndAttempt, ends
<1>10. CASE NetB
    <2>1. HonestReply(reply, job.engine) /\ reply \in Reply /\ pc' = "settle"
          /\ UNCHANGED <<job, record, guard, judged>>
        BY <1>10 DEF NetB, Candid, HonestReply, EndAttempt, ends
    <2>2. CASE outcome' = "PII" /\ UNCHANGED <<reply, warnings>>
        BY <1>0, <2>1, <2>2, NoAnswerYet
    <2>3. CASE /\ outcome' = "ok" /\ reply.cells = "raw"
               /\ reply' = [reply EXCEPT !.cells = "masked"]
               /\ warnings' = warnings \cup Skipped \cup {"PII_MASKED"}
        <3>1. HonestReply(reply', job.engine) /\ reply'.cells = "masked"
            BY <2>1, <2>3 DEF HonestReply, Reply, Cells
        <3>2. guard /\ judged # "accepted" => "GUARDRAIL_SKIPPED" \in warnings'
            BY <2>3 DEF Skipped
        <3>3. "TRUNCATED" \notin warnings'
            BY <2>3 DEF Skipped, Candid
        <3> QED
            BY <1>0, <2>1, <2>3, <3>1, <3>2, <3>3 DEF Candid, Asking
    <2>4. CASE /\ outcome' = "ok" /\ reply.cells # "raw" /\ UNCHANGED reply
               /\ warnings' = warnings \cup Skipped
        <3>1. guard /\ judged # "accepted" => "GUARDRAIL_SKIPPED" \in warnings'
            BY <2>4 DEF Skipped
        <3>2. "TRUNCATED" \notin warnings'
            BY <2>4 DEF Skipped, Candid
        <3> QED
            BY <1>0, <2>1, <2>4, <3>1, <3>2 DEF Candid, Asking
    <2> QED
        BY <1>10, <2>2, <2>3, <2>4 DEF NetB, EndAttempt
<1>11. CASE Retry
    <2>1. pc' # "check" /\ outcome' # "ok"
        BY <1>11 DEF Retry, Proceed, EndAttempt, Candid, Asking
    <2> QED
        BY <1>0, <1>11, <2>1, NoAnswerYet DEF Retry, ends
<1>12. CASE Settle
    BY <1>0, <1>12, AnswerAlone DEF Settle, Proceed, Asking, ends
<1>13. CASE AuditFinish
    <2>1. UNCHANGED <<job, warnings, reply, guard, judged>> /\ pc' = "emit" /\ outcome' \in {outcome, "AUDIT_FAILED"}
        BY <1>13 DEF AuditFinish
    <2>2. Result.cells # "raw"
        BY DEF Result, Answer, Failure, Candid
    <2>3. record' # NoRecord => record'.said.cells # "raw"
        BY <1>13, <2>2 DEF AuditFinish, Candid
    <2> QED
        BY <1>0, <2>1, <2>3 DEF Candid, Asking
<1>14. CASE Emit
    BY <1>0, <1>14, AnswerAlone DEF Emit, Proceed, Asking, ends
<1>15. CASE Return
    BY <1>0, <1>15, AnswerAlone DEF Return, Proceed, Asking, ends
<1>16. CASE Report
    BY <1>0, <1>16, AnswerAlone DEF Report, Proceed, Asking, ends
<1>17. CASE UNCHANGED vars
    BY <1>0, <1>17 DEF vars, Candid
<1> QED
    BY <1>1, <1>2, <1>3, <1>4, <1>5, <1>6, <1>7, <1>8, <1>9, <1>10, <1>11, <1>12,
       <1>13, <1>14, <1>15, <1>16, <1>17 DEF Next, Finished

\* An answer says that it is partial when rows are missing (rows_command, the
\* fetch of one row over the limit, and ResultSet.truncated).
THEOREM PartialAnswersSaySo == Spec => []PartialIsFlagged
<1>1. Candid => PartialIsFlagged
    <2> SUFFICES ASSUME Candid, shown # NoAnswer, shown.code = "ok"
                 PROVE  /\ shown.rows < reply.matched => shown.truncated
                        /\ shown.truncated => shown.rows < reply.matched \/ job.engine = "mongodb"
                        /\ shown.truncated <=> "TRUNCATED" \in shown.warnings
        BY DEF PartialIsFlagged
    <2>1. shown = Result /\ outcome = "ok"
        BY DEF Candid, Logged, Result, Failure
    <2>2. shown = Answer /\ HonestReply(reply, job.engine)
        BY <2>1 DEF Candid, Result
    <2> QED
        BY <2>2 DEF Candid, Answer, Truncated, OverLimit, HonestReply
<1> QED
    BY InitCandid, NextCandid, <1>1, PTL DEF Spec

\* A query on a guarded connection never runs unjudged in silence
\* (GUARDRAIL_SKIPPED in run_attempt).
THEOREM UnjudgedAnswersSaySo == Spec => []UnjudgedIsFlagged
<1>1. Candid => UnjudgedIsFlagged
    <2> SUFFICES ASSUME Candid, shown # NoAnswer, shown.code = "ok", guard, judged # "accepted"
                 PROVE  "GUARDRAIL_SKIPPED" \in shown.warnings
        BY DEF UnjudgedIsFlagged
    <2>1. shown = Result /\ outcome = "ok"
        BY DEF Candid, Logged, Result, Failure
    <2> QED
        BY <2>1 DEF Candid, Result, Answer
<1> QED
    BY InitCandid, NextCandid, <1>1, PTL DEF Spec

\* Whatever net B recognises as protected leaves Db::execute masked or not at
\* all: neither the agent nor the audit log gets it raw.
THEOREM RawIsKeptInside == Spec => []RawStaysInside
<1>1. Candid => RawStaysInside
    <2> SUFFICES ASSUME Candid
                 PROVE  RawStaysInside
        OBVIOUS
    <2>1. shown # NoAnswer => shown = Result
        BY DEF Candid, Logged
    <2>2. Result.cells # "raw"
        BY DEF Candid, Result, Answer, Failure
    <2> QED
        BY <2>1, <2>2 DEF Candid, RawStaysInside
<1> QED
    BY InitCandid, NextCandid, <1>1, PTL DEF Spec

=============================================================================
