---------------------------- MODULE MCModelLane ----------------------------
(* Instances of ModelLane for TLC. *)
EXTENDS ModelLane, TLC

\* The slots of one kind are interchangeable; used by the runs without liveness.
Symmetry == Permutations(Interactive) \cup Permutations(Batch)
=============================================================================
