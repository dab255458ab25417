-------------------------- MODULE StatementPromise --------------------------
(***************************************************************************)
(* What a guarded database session promises its caller (the comments on     *)
(* Plan and QueryOutcome, src/engine.rs): one verdict at most, made before   *)
(* the statement; a statement that was judged too expensive, or not judged   *)
(* in time, is never executed; the answer is given once and says what        *)
(* happened.                                                                *)
(***************************************************************************)

VARIABLES
    kind,       \* what the caller wants: the statement run, or only its plan
    verdict,    \* "none" until the plan is judged; "off" without a guardrail
    ran,        \* the server has executed the statement
    answer      \* "none" until the caller has one

promiseVars == <<kind, verdict, ran, answer>>

Init ==
    /\ kind \in {"run", "plan"}
    /\ verdict \in {"none", "off"}
    /\ ran = FALSE
    /\ answer = "none"

Judge ==
    /\ verdict = "none" /\ answer = "none"
    /\ verdict' \in {"accepted", "over", "unknown", "failed"}
    /\ UNCHANGED <<kind, ran, answer>>

\* Planning outran its budget: that is the answer.
GiveUp ==
    /\ verdict = "none" /\ answer = "none"
    /\ verdict' = "slow"
    /\ answer' = "too_slow"
    /\ UNCHANGED <<kind, ran>>

\* The server may get to the statement after the caller stopped waiting.
Run ==
    /\ kind = "run"
    /\ verdict \in {"off", "accepted", "unknown", "failed"}
    /\ answer \in {"none", "timeout"}
    /\ ran' \in {ran, TRUE}
    /\ UNCHANGED <<kind, verdict, answer>>

Answer ==
    /\ answer = "none"
    /\ \/ answer' = "ran" /\ ran
       \/ answer' = "refused" /\ verdict = "over" /\ kind = "run"
       \/ answer' = "plan" /\ verdict \in {"accepted", "over", "unknown"} /\ kind = "plan"
       \/ answer' \in {"db", "timeout"}
    /\ UNCHANGED <<kind, verdict, ran>>

Next == Judge \/ GiveUp \/ Run \/ Answer

Spec == Init /\ [][Next]_promiseVars

=============================================================================
