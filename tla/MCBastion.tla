----------------------------- MODULE MCBastion -----------------------------
(* Small instances of Bastion for TLC. Jobs are model values; storage lists    *)
(* them in the order of their names, which Order gives, so they are not        *)
(* symmetric.                                                                  *)
EXTENDS Bastion, TLC

CONSTANTS j1, j2, j3, noJob, v1, v2, noVersion, t1, noTier, p1, noTopo

\* j1 is listed first, j3 last.
Order == [j \in Jobs |-> CASE j = j1 -> 1 [] j = j2 -> 2 [] j = j3 -> 3]
=============================================================================
