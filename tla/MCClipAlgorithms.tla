--------------------------- MODULE MCClipAlgorithms ---------------------------
EXTENDS ClipAlgorithms, TLC

\* Two voices' names do not matter to any of the stages.
Names == Permutations(Voices)

MCEdges == {{}, {2, 4, 5}}
MCWords == {[start |-> v[1], end |-> v[2], ends_sentence |-> v[1] % 2 = 0] : v \in {u \in Intervals : u[2] <= u[1] + 2}}
===============================================================================
