------------------------------ MODULE Refusals ------------------------------
(***************************************************************************)
(* What the rules of every language share: an ordered list of checks, each     *)
(* with the reasons it may refuse for, of which the first that refuses         *)
(* decides.                                                                    *)
(***************************************************************************)
EXTENDS Naturals, Sequences, FiniteSets, SequencesExt

None == ""

When(condition, reason) == IF condition THEN {reason} ELSE {}

FirstRefusal(checks) ==
    LET raised == {i \in DOMAIN checks : checks[i] # {}}
    IN  IF raised = {} THEN {}
        ELSE checks[CHOOSE i \in raised : \A j \in raised : i <= j]

\* A check that panics refuses: it is a bug, and never a way through.
Caught(panics, reasons) == IF panics THEN {"INTERNAL_ERROR"} ELSE reasons

=============================================================================
