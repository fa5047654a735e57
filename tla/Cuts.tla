-------------------------------- MODULE Cuts ---------------------------------
(***************************************************************************)
(* How audio is cut for the models: windows for the batched decoder, and   *)
(* the ones decoded again (stages/transcribe.py); pieces of turns for      *)
(* re-clustering (stages/recluster.py); batches of rows for the voice      *)
(* encoder (stages/embed.py).  Times and sizes are whole ticks.            *)
(***************************************************************************)
EXTENDS Integers, SequencesExt, Sorting

CONSTANTS
    Window,     \* WINDOW_S
    Piece,      \* PIECE_S
    MinPiece,   \* MIN_PIECE_S
    Budget      \* EMBED_BATCH_BUDGET_S

ASSUME CutsConstants ==
    /\ Window \in Nat \ {0} /\ Piece \in Nat /\ MinPiece \in Nat \ {0} /\ MinPiece <= Piece
    /\ Budget \in Nat

(* A plausible mistake: a region joins the last window if it is itself     *)
(* short enough.                                                           *)
FitsByItself(windows, from, to) == windows # <<>> /\ to - from <= Window

Fits(windows, from, to) == windows # <<>> /\ to - Last(windows)[1] <= Window

(* Speech regions packed into windows; only a region longer than a window  *)
(* is split.                                                               *)
PackRegion(out, region) ==
    LET whole == (region[2] - region[1] - 1) \div Window
        from == region[1] + whole * Window
        cut == out \o [k \in 1 .. whole |-> <<region[1] + (k - 1) * Window, region[1] + k * Window>>]
    IN IF Fits(cut, from, region[2])
       THEN [cut EXCEPT ![Len(cut)][2] = region[2]]
       ELSE Append(cut, <<from, region[2]>>)

PackWindows(vad) == FoldLeft(PackRegion, <<>>, vad)

Inside(t, windows) == \E n \in DOMAIN windows : windows[n][1] <= t /\ t <= windows[n][2]

(* A plausible mistake: the words of a window decoded again stay.          *)
RedecodeKeeping(words, spans, again) == words \cup again

(* The windows in doubt decoded again: the words that start in them make   *)
(* way for the second decoding's.  A word is where it starts and the       *)
(* window and decoding it is from.                                         *)
Redecode(words, spans, again) == {w \in words : ~Inside(w.start, spans)} \cup again

(* A plausible mistake: the remainder is a piece of its own, however short.*)
PiecesWithRemainder(from, to) ==
    LET cut[s \in from .. to] ==
          IF to = s THEN <<>> ELSE LET e == Min({to, s + Piece}) IN <<<<s, e>>>> \o cut[e]
    IN IF to - from < MinPiece THEN <<>> ELSE cut[from]

Pieces(from, to) ==
    LET cut[s \in from .. to] ==
          IF to - s < MinPiece THEN <<>>
          ELSE LET e == Min({to, s + Piece})
                   end == IF to - e < MinPiece THEN to ELSE e
               IN <<<<s, end>>>> \o cut[end]
    IN cut[from]

(* Rows grouped shortest first under a budget of padded audio.             *)
PutInGroup(sizes, groups, i) ==
    IF groups # <<>> /\ (Len(Last(groups)) + 1) * sizes[i] <= Budget
    THEN [groups EXCEPT ![Len(groups)] = Append(@, i)] ELSE Append(groups, <<i>>)

Groups(sizes) == FoldLeft(LAMBDA groups, i : PutInGroup(sizes, groups, i), <<>>, Sorted(DOMAIN sizes, sizes))
=============================================================================
