---------------------------- MODULE MCModelSwitch ----------------------------
(* Two of the three models the catalog offers: of different widths, as     *)
(* ecapa_tdnn and a wider one, or of the same width.                       *)
EXTENDS ModelSwitch, TLC

CONSTANTS ecapa, resnet

DimByModel == [m \in Models |-> IF m = ecapa THEN 192 ELSE 256]
OneDim == [m \in Models |-> 256]
Interchangeable == Permutations(Clips) \cup Permutations(Pulls)
=============================================================================
