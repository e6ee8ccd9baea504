--------------------------- MODULE MCCheckpointer ---------------------------
(* Instances of Checkpointer: the processes as model values. *)
EXTENDS Checkpointer, TLC

CONSTANTS p0, p1
Symmetric == Permutations({p0, p1})
=============================================================================
