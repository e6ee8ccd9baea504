----------------------------- MODULE MCFTAgents -----------------------------
(* Workers for TLC: a and b are replica 0 (a is the global manager) or the heads
   of replicas 0 and 1; c is the head of the last replica. *)
EXTENDS FTAgents, TLC
CONSTANTS a, b, c

TwoReplicas   == [w \in {a, b} |-> w]
OneReplica    == [w \in {a, b} |-> a]
ThreeReplicas == [w \in {a, b, c} |-> w]
============================================================================
