-------------------------------- MODULE Turns --------------------------------
(***************************************************************************)
(* From the diarizer's turns to the transcript's lines: the operators of   *)
(* stages/diarize.py, reconcile.py and postprocess.py.                     *)
(*                                                                         *)
(* Times are whole ticks.  The loops that scan a moving window of a list   *)
(* sorted by start are translated as they run, window and early exit       *)
(* included; what they should compute is stated where they are checked.    *)
(***************************************************************************)
EXTENDS Integers, SequencesExt, Sorting

CONSTANTS
    StartTol,        \* start_tol of drop_onset_phantoms
    MinTurn,         \* min_turn_s
    MergeGap,        \* merge_gap_s
    SnapTol,         \* vad_snap_tol_s
    SmoothMinConf,   \* smooth_min_conf, in percent
    SentenceGap      \* the pause after a sentence that starts a new line

ASSUME TurnsConstants ==
    /\ StartTol \in Nat /\ MinTurn \in Nat /\ MergeGap \in Nat
    /\ SnapTol \in Nat /\ SmoothMinConf \in Nat /\ SentenceGap \in Nat

Length(x) == x.end - x.start
Shared(a, b) == Min({a.end, b.end}) - Max({a.start, b.start})
CrossTalk(a, b) == a.label # b.label /\ Shared(a, b) > 0
Abs(n) == IF n < 0 THEN -n ELSE n

Arranged(s, order) == [k \in DOMAIN order |-> s[order[k]]]
Pick(s, I) == Arranged(s, Sorted(I, [i \in I |-> i]))
ByStart(s) == Arranged(s, Sorted(DOMAIN s, [i \in DOMAIN s |-> s[i].start]))

-----------------------------------------------------------------------------
(* A turn: start, end, label, is_overlap, too_short.                       *)
Merge(out, t) ==
    IF out # <<>> /\ Last(out).label = t.label /\ t.start - Last(out).end <= MergeGap
    THEN [out EXCEPT ![Len(out)].end = Max({@, t.end})]
    ELSE Append(out, t)

MergeAdjacent(turns) == FoldLeft(Merge, <<>>, turns)

(* The turns drop_onset_phantoms looks at for turn i: its lower end lo     *)
(* only moves forward, and it stops at the first turn that starts too late.*)
LowEnd(turns) ==
    LET lo[i \in 0 .. Len(turns)] ==
          IF i = 0 THEN 1
          ELSE CHOOSE j \in lo[i - 1] .. Len(turns) :
                  /\ turns[j].start >= turns[i].start - StartTol
                  /\ \A k \in lo[i - 1] .. j - 1 : turns[k].start < turns[i].start - StartTol
    IN lo

(* A plausible mistake: only the turns from i on are looked at.            *)
ScannedAhead(turns, i) ==
    {j \in i .. Len(turns) : \A k \in i .. j : turns[k].start <= turns[i].start + StartTol}

Scanned(turns, i) ==
    LET lo == LowEnd(turns)[i]
    IN {j \in lo .. Len(turns) : \A k \in lo .. j : turns[k].start <= turns[i].start + StartTol}

MuchLonger(b, a) == b.label # a.label /\ 5 * Length(a) < 3 * Length(b)

DropOnsetPhantoms(turns) ==
    Pick(turns, {i \in DOMAIN turns : ~\E j \in Scanned(turns, i) : MuchLonger(turns[j], turns[i])})

(* The later turns annotate_overlaps compares turn i with.                 *)
Reached(turns, i) ==
    {j \in i + 1 .. Len(turns) : \A k \in i + 1 .. j : turns[k].start < turns[i].end}

AnnotateOverlaps(turns) ==
    [n \in DOMAIN turns |-> [turns[n] EXCEPT !.is_overlap =
        \E i \in DOMAIN turns : /\ n \in Reached(turns, i) \/ i \in Reached(turns, n)
                                /\ CrossTalk(turns[i], turns[n])]]

Nearest(x, edges) ==
    LET c == CHOOSE e \in edges : \A d \in edges : Abs(e - x) < Abs(d - x) \/ (Abs(e - x) = Abs(d - x) /\ e <= d)
    IN IF edges # {} /\ Abs(c - x) <= SnapTol THEN c ELSE x

(* A turn snapped to nothing keeps a sliver (0.05 s, here one tick).       *)
SnapToVad(turns, edges) ==
    [n \in DOMAIN turns |->
        LET start == Nearest(turns[n].start, edges)
            end == Nearest(turns[n].end, edges)
        IN [turns[n] EXCEPT !.start = start, !.end = IF end <= start THEN start + 1 ELSE end]]

LongTurns(turns) == Pick(turns, {n \in DOMAIN turns : Length(turns[n]) >= MinTurn})
ShortTurns(turns) == Pick(turns, {n \in DOMAIN turns : Length(turns[n]) < MinTurn})

Interjections(short, long) ==
    [n \in DOMAIN short |-> [short[n] EXCEPT !.too_short = TRUE,
                                             !.is_overlap = \E m \in DOMAIN long : CrossTalk(long[m], short[n])]]

(* A plausible mistake: overlap is annotated after the short turns are     *)
(* back in the list.                                                       *)
CleanTurnsAnnotatedLast(raw, edges) ==
    LET turns == ByStart(raw)
        long == LongTurns(SnapToVad(MergeAdjacent(DropOnsetPhantoms(LongTurns(turns))), edges))
    IN AnnotateOverlaps(ByStart(long \o Interjections(ShortTurns(turns), long)))

CleanTurns(raw, edges) ==
    LET turns == ByStart(raw)
        long == LongTurns(SnapToVad(AnnotateOverlaps(MergeAdjacent(DropOnsetPhantoms(LongTurns(turns)))), edges))
    IN ByStart(long \o Interjections(ShortTurns(turns), long))

(* The tail of it again, when the voices were told apart anew.             *)
TidyRelabelled(turns) ==
    LET short == {n \in DOMAIN turns : turns[n].too_short}
        long == AnnotateOverlaps(MergeAdjacent(Pick(turns, DOMAIN turns \ short)))
    IN ByStart(long \o Interjections(Pick(turns, short), long))

-----------------------------------------------------------------------------
(* A word: start, end, ends_sentence; and what assign_words adds: its      *)
(* label, the time it shares with that turn, in_overlap, smoothed.         *)
NearestTurnLabel(w, turns) ==
    LET far(i) == Abs(turns[i].start + turns[i].end - w.start - w.end)
        i == CHOOSE i \in DOMAIN turns : \A j \in DOMAIN turns : far(i) < far(j) \/ (far(i) = far(j) /\ i <= j)
    IN IF turns = <<>> THEN "SPEAKER_00" ELSE turns[i].label

(* A plausible mistake: turns that end before the word does are passed.    *)
FirstUnendedByEnd(words, turns) ==
    LET lo[i \in 0 .. Len(words)] ==
          IF i = 0 THEN 1
          ELSE CHOOSE j \in lo[i - 1] .. Len(turns) + 1 :
                  /\ j > Len(turns) \/ turns[j].end > words[i].end
                  /\ \A k \in lo[i - 1] .. j - 1 : turns[k].end <= words[i].end
    IN lo

FirstUnended(words, turns) ==
    LET lo[i \in 0 .. Len(words)] ==
          IF i = 0 THEN 1
          ELSE CHOOSE j \in lo[i - 1] .. Len(turns) + 1 :
                  /\ j > Len(turns) \/ turns[j].end > words[i].start
                  /\ \A k \in lo[i - 1] .. j - 1 : turns[k].end <= words[i].start
    IN lo

AssignWords(words, turns) ==
    [i \in DOMAIN words |->
        LET w == words[i]
            lo == FirstUnended(words, turns)[i]
            window == {j \in lo .. Len(turns) : \A k \in lo .. j : turns[k].start < w.end}
            touching == {j \in window : Shared(w, turns[j]) > 0}
            best == CHOOSE j \in touching : \A k \in touching :
                       Shared(w, turns[j]) > Shared(w, turns[k]) \/ (Shared(w, turns[j]) = Shared(w, turns[k]) /\ j <= k)
        IN [start |-> w.start, end |-> w.end, ends_sentence |-> w.ends_sentence, smoothed |-> FALSE,
            label |-> IF touching = {} THEN NearestTurnLabel(w, turns) ELSE turns[best].label,
            shared |-> IF touching = {} THEN 0 ELSE Shared(w, turns[best]),
            in_overlap |-> touching # {} /\ turns[best].is_overlap]]

Doubtful(w) == 100 * w.shared < SmoothMinConf * Max({Length(w), 1})

SmoothAt(ws, i) ==
    IF ws[i].label # ws[i - 1].label /\ ws[i - 1].label = ws[i + 1].label /\ Doubtful(ws[i])
    THEN [ws EXCEPT ![i].label = ws[i - 1].label, ![i].smoothed = TRUE] ELSE ws

Smooth(words) == FoldLeft(SmoothAt, words, [k \in 1 .. Len(words) - 2 |-> k + 1])

SameLine(prev, w) == prev.label = w.label /\ ~(prev.ends_sentence /\ w.start - prev.end > SentenceGap)
PutInLine(lines, w) ==
    IF lines # <<>> /\ SameLine(Last(Last(lines)), w)
    THEN [lines EXCEPT ![Len(lines)] = Append(@, w)] ELSE Append(lines, <<w>>)

Regroup(words) == FoldLeft(PutInLine, <<>>, words)

-----------------------------------------------------------------------------
Labels(turns) == {turns[i].label : i \in DOMAIN turns}

(* One pass over the starts, carrying the furthest end of each label; the  *)
(* turns of one start are judged before any of them is carried.            *)
OfAt(turns, l, x) == {i \in DOMAIN turns : turns[i].label = l /\ turns[i].start = x}

CountAt(turns, seen, x) ==
    [count |-> [l \in Labels(turns) |-> seen.count[l]
                  + (IF \E k \in Labels(turns) \ {l} : seen.ends[k] > x THEN Cardinality(OfAt(turns, l, x)) ELSE 0)],
     ends |-> [l \in Labels(turns) |-> Max({seen.ends[l]} \cup {turns[i].end : i \in OfAt(turns, l, x)})]]

CountInterruptions(turns) ==
    LET none == [l \in Labels(turns) |-> 0]
        starts == {turns[i].start : i \in DOMAIN turns}
    IN FoldLeft(LAMBDA seen, x : CountAt(turns, seen, x),
                [count |-> none, ends |-> none], Sorted(starts, [x \in starts |-> x])).count
=============================================================================
