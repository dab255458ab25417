------------------------------ MODULE MCTunnel ------------------------------
(* Instances of Tunnel for TLC.                                             *)
EXTENDS Tunnel, FiniteSets, TLC

CONSTANTS r1, r2, r3, d1, d2, x1, x2, p1, p2, p3, m1, m2, m3

\* Every pair has a registry file of its own.
OwnSlot == [x \in Pairs |-> x]
\* registry_name writes '@' and ':' as '_'.  A remote is host:port and a host
\* has no ':', so the remotes of one destination have names of their own; the
\* destinations deploy@b and deploy_b have the same names.  For one remote
\* behind d1 and d2 of that kind there is one file (and for one pair, of course).
SharedSlot == [x \in Pairs |-> "fwd"]
OneSlot == {"fwd"}

ReuseJobs == {j \in JobType : j.mode = "reuse"}
StandaloneJobs == {j \in JobType : j.mode = "standalone"}

Sym2 == Permutations({r1, r2}) \cup Permutations(Ports) \cup Permutations(Masters)
Sym3 == Permutations({r1, r2, r3}) \cup Permutations(Ports) \cup Permutations(Masters)
=============================================================================
