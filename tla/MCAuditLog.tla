----------------------------- MODULE MCAuditLog -----------------------------
(* Instances of AuditLog for TLC.                                           *)
EXTENDS AuditLog, TLC

CONSTANTS w1, w2, w3

Sym == Permutations(Writers)
=============================================================================
