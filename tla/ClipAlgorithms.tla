---------------------------- MODULE ClipAlgorithms ----------------------------
(***************************************************************************)
(* The computations of one clip, one stage at a time: each takes any input *)
(* of the shape the stage before it can hand over (a superset of what a    *)
(* clip hands over), and leaves what the code makes of it.                 *)
(***************************************************************************)
EXTENDS Turns, Cuts

CONSTANTS
    Horizon,    \* bound: the last tick of a clip
    MaxTurns,   \* bound: the diarizer's turns
    MaxWords,   \* bound: the words of a transcript
    MaxRows,    \* bound: the rows handed to the encoder
    Voices,     \* bound: the labels of the diarizer
    Edges,      \* bound: the sets of edges of speech that turns are snapped to
    Words,      \* bound: the words of the decoder
    FirstTicks  \* bound: the ticks at which words of the first decoding start

ASSUME AlgorithmsConstants ==
    /\ Horizon \in Nat /\ MaxTurns \in Nat /\ MaxWords \in Nat /\ MaxRows \in Nat
    /\ Edges \subseteq SUBSET (0 .. Horizon)
    /\ Words \subseteq {w \in [start : 0 .. Horizon, end : 0 .. Horizon, ends_sentence : BOOLEAN] : w.start < w.end}

VARIABLES
    stage,   \* the stage that ran last, or "idle"
    given,   \* its input
    made     \* its output

vars == <<stage, given, made>>

Intervals == {v \in (0 .. Horizon) \X (0 .. Horizon) : v[1] < v[2]}
Raw == {[start |-> v[1], end |-> v[2], label |-> l, is_overlap |-> FALSE, too_short |-> FALSE] :
           v \in Intervals, l \in Voices}

(* The diarizer yields its turns in order of start (external).             *)
InOrder(s) == \A i \in 1 .. Len(s) - 1 : s[i].start <= s[i + 1].start
RawTurns == {s \in BoundedSeq(Raw, MaxTurns) : InOrder(s)}

(* What the voice detector found: regions of speech with pauses between.   *)
Vads == {s \in BoundedSeq(Intervals, (Horizon + 1) \div 2) : \A n \in 1 .. Len(s) - 1 : s[n][2] < s[n + 1][1]}

WordSeqs == {s \in BoundedSeq(Words, MaxWords) : \A i \in 1 .. Len(s) - 1 : s[i].end <= s[i + 1].start}

Init == stage = "idle" /\ given = <<>> /\ made = <<>>

Ran(name, in, out) == stage' = name /\ given' = in /\ made' = out

Pack == stage = "idle" /\ \E vad \in Vads : Ran("pack", vad, PackWindows(vad))

(* The first decoding has at most one word at each tick of each window.    *)
Starts(windows, times) == {[start |-> t, window |-> n, from |-> times] : t \in 0 .. Horizon, n \in DOMAIN windows}
WordsOf(windows, times) ==
    {w \in Starts(windows, times) : windows[w.window][1] <= w.start /\ w.start < windows[w.window][2]}

DecodeAgain ==
    /\ stage = "idle"
    /\ \E vad \in Vads : LET windows == PackWindows(vad) IN
          \E again \in SUBSET DOMAIN windows, first \in SUBSET {w \in WordsOf(windows, "first") : w.start \in FirstTicks} :
             LET spans == Pick(windows, again)
                 second == {w \in WordsOf(windows, "again") : w.window \in again}
             IN Ran("decode", [windows |-> windows, again |-> again, first |-> first],
                    Redecode(first, spans, second))

CutPieces == stage = "idle" /\ \E v \in Intervals : Ran("pieces", v, Pieces(v[1], v[2]))

Batch == stage = "idle" /\ \E sizes \in BoundedSeq(1 .. Budget + 1, MaxRows) : Ran("batch", sizes, Groups(sizes))

Clean ==
    /\ stage = "idle"
    /\ \E raw \in RawTurns, edges \in Edges :
          Ran("clean", [raw |-> raw, edges |-> edges], CleanTurns(raw, edges))

(* Some turns of what was cleaned are found to be one voice.               *)
Tidy ==
    /\ stage = "clean"
    /\ \E same \in SUBSET DOMAIN made, l \in Voices :
          LET turns == [n \in DOMAIN made |-> IF n \in same THEN [made[n] EXCEPT !.label = l] ELSE made[n]]
          IN Ran("tidy", [raw |-> turns, edges |-> {}], TidyRelabelled(turns))

Count == stage = "clean" /\ Ran("count", made, CountInterruptions(made))

Reconcile ==
    /\ stage = "clean" /\ Len(made) > 0
    /\ \E words \in WordSeqs :
          LET assigned == AssignWords(words, made)
          IN Ran("reconcile", [turns |-> made, words |-> assigned], Regroup(Smooth(assigned)))

Rest == stage # "idle" /\ stage' = "idle" /\ given' = <<>> /\ made' = <<>>

Next == Pack \/ DecodeAgain \/ CutPieces \/ Batch \/ Clean \/ Tidy \/ Count \/ Reconcile \/ Rest

Spec == Init /\ [][Next]_vars

-----------------------------------------------------------------------------
(* The windowed scans and the early exits lose no pair: they drop and mark *)
(* what comparing every two turns would.  drop_onset_phantoms,             *)
(* annotate_overlaps, count_interruptions_all.                             *)
ScansAreExhaustive ==
    /\ stage = "clean" =>
        LET t == given.raw IN
        /\ DropOnsetPhantoms(t) =
              Pick(t, {i \in DOMAIN t : ~\E j \in DOMAIN t : Abs(t[i].start - t[j].start) <= StartTol /\ MuchLonger(t[j], t[i])})
        /\ \A i \in DOMAIN t : AnnotateOverlaps(t)[i].is_overlap = (\E j \in DOMAIN t : CrossTalk(t[i], t[j]))
    /\ stage = "count" =>
        \A l \in Labels(given) :
           made[l] = Cardinality({i \in DOMAIN given : given[i].label = l /\
                       \E j \in DOMAIN given : CrossTalk(given[i], given[j]) /\ given[j].start < given[i].start})

(* A turn too short to fingerprint is kept as it is for its words, and     *)
(* disqualifies nobody else's: a long turn is marked as overlapped only if *)
(* another speaker's long turn shares time with it or with what was merged *)
(* into it.  clean_turns.                                                  *)
ShortTurnsStayApart ==
    stage = "clean" =>
        /\ \A i \in DOMAIN given.raw : Length(given.raw[i]) < MinTurn =>
              \E o \in ToSet(made) : /\ o.too_short /\ o.label = given.raw[i].label
                                     /\ o.start = given.raw[i].start /\ o.end = given.raw[i].end
        /\ \A o \in ToSet(made) : o.is_overlap /\ ~o.too_short =>
              \E a, b \in ToSet(LongTurns(given.raw)) : a.label = o.label /\ b.label # o.label /\ b.start < o.end + SnapTol
                                                         /\ b.end > o.start - SnapTol
        /\ InOrder(made)

(* Every word goes to the turn it shares most time with, the earlier of    *)
(* two, wherever the moving window stands; a word smoothed over sits       *)
(* between two of its new speaker's; and the lines are the words, in       *)
(* order, of one speaker each.  assign_words, smooth, regroup.             *)
WordsGoToTheirSpeaker ==
    stage = "reconcile" =>
        LET words == FlattenSeq(made)
            turns == given.turns
        IN /\ \A i \in DOMAIN given.words :
                 LET w == given.words[i]
                     most == Max({0} \cup {Shared(w, turns[j]) : j \in DOMAIN turns})
                     first == SelectInSeq(turns, LAMBDA t : Shared(w, t) = most)
                 IN w.shared = most /\ (most > 0 => w.label = turns[first].label)
           /\ Len(words) = Len(given.words)
           /\ \A i \in DOMAIN words :
                 /\ words[i].start = given.words[i].start
                 /\ words[i].smoothed => words[i - 1].label = words[i].label /\ words[i + 1].label = words[i].label
                 /\ ~words[i].smoothed => words[i].label = given.words[i].label
           /\ \A n \in DOMAIN made : Cardinality(Labels(made[n])) = 1

(* Cutting loses nothing and keeps to its limits: windows hold every       *)
(* region within the decoder's length, pieces fill their turn, and a batch *)
(* is within its budget unless it is one row.  Decoding a window again     *)
(* replaces its words and no others, but for a word on the tick where one  *)
(* window ends and the next begins.                                        *)
CutsKeepEverything ==
    /\ stage = "pack" =>
        /\ \A n \in DOMAIN made : made[n][2] - made[n][1] \in 1 .. Window
        /\ \A n \in 1 .. Len(made) - 1 : made[n][2] <= made[n + 1][1]
        /\ \A n \in DOMAIN given : \A t \in given[n][1] .. given[n][2] - 1 :
              \E m \in DOMAIN made : made[m][1] <= t /\ t < made[m][2]
    /\ stage = "pieces" =>
        /\ given[2] - given[1] >= MinPiece <=> made # <<>>
        /\ made # <<>> => made[1][1] = given[1] /\ Last(made)[2] = given[2]
        /\ \A n \in DOMAIN made : made[n][2] - made[n][1] \in MinPiece .. Piece + MinPiece - 1
        /\ \A n \in 1 .. Len(made) - 1 : made[n][2] = made[n + 1][1]
    /\ stage = "batch" =>
        /\ Cardinality(ToSet(FlattenSeq(made))) = Len(given) /\ Len(FlattenSeq(made)) = Len(given)
        /\ \A n \in DOMAIN made : \/ Len(made[n]) = 1
                                  \/ Len(made[n]) * Max({given[i] : i \in ToSet(made[n])}) <= Budget
    /\ stage = "decode" =>
        /\ \A w \in given.first : w.window \in given.again => w \notin made
        /\ \A w \in given.first : w.window \notin given.again =>
              w \in made \/ \E n \in given.again : w.start = given.windows[n][2]

(* What clean_turns says of itself: a turn is marked too short rather than *)
(* silently deleted when it is; only onset phantoms go.                    *)
NothingSilentlyDeleted ==
    stage = "clean" =>
        \A t \in ToSet(given.raw) :
           \/ \E b \in ToSet(given.raw) : Abs(t.start - b.start) <= StartTol /\ MuchLonger(b, t)
           \/ \E o \in ToSet(made) : o.label = t.label /\ o.start <= t.end /\ t.start <= o.end
=============================================================================
