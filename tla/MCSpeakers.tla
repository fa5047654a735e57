------------------------------ MODULE MCSpeakers ------------------------------
(***************************************************************************)
(* Speakers with two clips of one person and a live turn of another.       *)
(***************************************************************************)
EXTENDS Speakers, TLC

CONSTANTS v1, v2, t1

MCSound == (v1 :> "a") @@ (v2 :> "a") @@ (t1 :> "b")
MCFair == {v1}
MCSymmetry == Permutations(Clusters) \cup Permutations(Windows)
=============================================================================
