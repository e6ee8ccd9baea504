------------------------------ MODULE MCFTHang ------------------------------
(* Workers for TLC: a (the global manager) is replica 0, b and c are replica 1. *)
EXTENDS FTHang
CONSTANTS a, b, c
Heads == [w \in {a, b, c} |-> IF w = c THEN b ELSE w]
============================================================================
