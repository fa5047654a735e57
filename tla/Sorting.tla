------------------------------- MODULE Sorting -------------------------------
(* Python's sorted: by key, and what has the same key as it stood.  (The   *)
(* library's sorting rests on SortSeq, which the prover cannot expand.)    *)
EXTENDS Integers, FiniteSets

\* The indices I in order of their keys, the smaller of two with one key first.
Sorted(I, key) ==
    CHOOSE p \in [1 .. Cardinality(I) -> I] :
        \A m, n \in 1 .. Cardinality(I) :
            m < n => key[p[m]] < key[p[n]] \/ (key[p[m]] = key[p[n]] /\ p[m] < p[n])
=============================================================================
