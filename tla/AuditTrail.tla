----------------------------- MODULE AuditTrail -----------------------------
(***************************************************************************)
(* What the audit log promises (the comment on audit_finish, src/main.rs):  *)
(* the record of a command is appended whole, once, and before its result   *)
(* is shown; a command whose record was not appended shows no result; what  *)
(* is on the trail stays there.                                             *)
(***************************************************************************)
EXTENDS Sequences

CONSTANT Writers    \* nyet processes, each auditing one command

VARIABLES
    trail,          \* the records, in the order they were committed
    phase           \* per writer: busy, logged, shown, withheld or gone

trailVars == <<trail, phase>>

Init ==
    /\ trail = << >>
    /\ phase = [w \in Writers |-> "busy"]

Commit(w) ==
    /\ phase[w] = "busy"
    /\ trail' = Append(trail, w)
    /\ phase' = [phase EXCEPT ![w] = "logged"]

Show(w) ==
    /\ phase[w] = "logged"
    /\ phase' = [phase EXCEPT ![w] = "shown"]
    /\ UNCHANGED trail

Withhold(w) ==
    /\ phase[w] = "busy"
    /\ phase' = [phase EXCEPT ![w] = "withheld"]
    /\ UNCHANGED trail

\* The process is killed: its record may be on the trail, its result is not seen.
Vanish(w) ==
    /\ phase[w] \in {"busy", "logged"}
    /\ phase' = [phase EXCEPT ![w] = "gone"]
    /\ UNCHANGED trail

Next == \E w \in Writers : Commit(w) \/ Show(w) \/ Withhold(w) \/ Vanish(w)

Spec == Init /\ [][Next]_trailVars

=============================================================================
