--------------------------- MODULE SpeakersProofs ---------------------------
(***************************************************************************)
(* For any voices, profiles and clusters, whatever they sound like.  What  *)
(* holds of the speakers depends on which handlers may come between two    *)
(* steps of a re-identification pass, and what may come between two of the *)
(* pipeline, so every theorem names what its property cannot stand there,  *)
(* and allows all the rest.                                                *)
(***************************************************************************)
EXTENDS Speakers, TLAPS

\* A pass is only ever asked for in the present window, which it is not the pass of.
WindowInv == now \notin kept /\ now # pass

\* Outside a pass no voice is at hand; between two voices nothing is judged or half written.
Idle ==
    /\ pass = None => row = None /\ todo = {}
    /\ row = None => verdict = Unknown /\ ~written

\* The pipeline holds nothing of a voice it has let go; it inserts a row before its transcript.
Staged ==
    \A v \in Voices :
        /\ stage[v] = "none" => speaker[v] = Blank
        /\ stage[v] = "identified" => v \notin heard
        /\ stage[v] = "inserted" => v \in heard
        /\ speaker[v].manual = FALSE

Fields ==
    /\ profiles \subseteq Profiles
    /\ enrolled \in [Profiles -> SUBSET Prints] /\ centroid = enrolled
    /\ cluster \in [Clusters -> {"free", "live"} \cup Profiles]
    /\ heard \subseteq Voices /\ voice \in [Voices -> Row]
    /\ utt \in [Voices -> Profiles \cup {None}] /\ decided \in [Voices -> Profiles \cup {None}]
    /\ stage \in [Voices -> Stages] /\ speaker \in [Voices -> Row]
    /\ queued \subseteq Windows /\ kept \subseteq Windows /\ now \in Windows
    /\ pass \in Windows \cup {None} /\ todo \subseteq Voices /\ row \in Voices \cup {None}
    /\ snap \in [Voices -> Row] /\ verdict \in Verdicts /\ written \in BOOLEAN

\* Enrolments and promotions are of profiles that exist, and rows of clusters that do.
Rooted ==
    /\ \A p \in Profiles \ profiles : enrolled[p] = {}
    /\ \A c \in Clusters : cluster[c] \in {"free", "live"} \cup profiles
    /\ \A v \in heard : voice[v].cid # None => cluster[voice[v].cid] # "free"

\* What holds whatever overlaps.
Base == Fields /\ Idle /\ Staged /\ WindowInv /\ Rooted

\* identify answers with a verdict, and only ever names a profile that has enrolments.
LEMMA IdentifyFacts ==
    ASSUME NEW v, NEW C \in [Profiles -> SUBSET Prints]
    PROVE  /\ IdentifyBy(v, C) \in Verdicts
           /\ IdentifyBy(v, C).pid # None =>
                 IdentifyBy(v, C).pid \in Profiles /\ C[IdentifyBy(v, C).pid] # {}
<1> DEFINE clear == {p \in Profiles : Clear(p, v, C)}
           weak == {p \in Profiles : Weak(p, v, C)}
<1>1. CASE weak = {}
  <2>1. IdentifyBy(v, C) = Unknown
    BY <1>1 DEF IdentifyBy
  <2>2. QED
    BY <2>1 DEF Verdicts, Unknown, Results
<1>2. CASE weak # {} /\ clear = {}
  <2> DEFINE p == CHOOSE q \in weak : TRUE
  <2>1. p \in weak
    BY <1>2
  <2>2. IdentifyBy(v, C) = [pid |-> p, result |-> "suggested"]
    BY <1>2 DEF IdentifyBy
  <2> HIDE DEF p
  <2>3. p \in Profiles /\ C[p] # {}
    BY <2>1 DEF Weak
  <2>4. QED
    BY <2>2, <2>3 DEF Verdicts, Results
<1>3. CASE weak # {} /\ clear # {}
  <2> DEFINE p == CHOOSE q \in clear : TRUE
             r == IF Cardinality(clear) = 1 /\ v \in Fair THEN "confident" ELSE "suggested"
  <2>1. p \in clear
    BY <1>3
  <2>2. IdentifyBy(v, C) = [pid |-> p, result |-> r]
    BY <1>3 DEF IdentifyBy
  <2>3. r \in Results
    BY DEF Results
  <2> HIDE DEF p, r
  <2>4. p \in Profiles /\ C[p] # {}
    BY <2>1 DEF Clear
  <2>5. QED
    BY <2>2, <2>3, <2>4 DEF Verdicts
<1>4. QED
  BY <1>1, <1>2, <1>3

\* So what identify names now is a profile that exists.
LEMMA IdentifyNames ==
    ASSUME Base, NEW v
    PROVE  /\ Identify(v) = IdentifyBy(v, enrolled)
           /\ Identify(v) \in Verdicts
           /\ Identify(v).pid \in profiles \cup {None}
<1>1. Identify(v) = IdentifyBy(v, enrolled) /\ enrolled \in [Profiles -> SUBSET Prints]
  BY DEF Base, Fields, Identify
<1>2. QED
  BY <1>1, IdentifyFacts DEF Base, Rooted

\* Asking for a pass always leaves one queued.
LEMMA AskingQueues ==
    ASSUME Base, AskForPass
    PROVE  queued' # {} /\ queued' \subseteq Windows /\ UNCHANGED <<kept, now>>
BY DEF Base, WindowInv, Fields, AskForPass

\* Enrolling keeps each centroid computed from the profile's own enrolments.
LEMMA EnrollFacts ==
    ASSUME Base, NEW p \in Profiles, NEW prints \in SUBSET Prints, Enroll(p, prints)
    PROVE  /\ enrolled' \in [Profiles -> SUBSET Prints] /\ centroid' = enrolled'
           /\ \A q \in Profiles \ {p} : enrolled'[q] = enrolled[q]
<1>1. enrolled' = [enrolled EXCEPT ![p] = @ \cup prints]
  BY DEF Enroll
<1>2. centroid' = [enrolled EXCEPT ![p] = enrolled'[p]]
  BY DEF Enroll, Base, Fields
<1>3. QED
  BY <1>1, <1>2 DEF Base, Fields

\* An empty database without a pass: everything is of its type and refers to nothing.
LEMMA BaseInit == Init => Base
<1> SUFFICES ASSUME Init PROVE Base
  OBVIOUS
<1> USE SpeakersConstants DEF Init
<1>1. Blank \in Row /\ Unknown \in Verdicts
  BY DEF Blank, Row, Unknown, Verdicts, Results
<1>2. Fields
  BY <1>1 DEF Fields, Stages
<1>3. Idle /\ Staged /\ WindowInv
  BY DEF Idle, Staged, WindowInv, Blank
<1>4. Rooted
  BY DEF Rooted
<1>5. QED
  BY <1>2, <1>3, <1>4 DEF Base

\* Rewriting the profile of a row leaves a row, and its other columns.
LEMMA RowNamed ==
    ASSUME NEW r \in Row, NEW q \in Profiles \cup {None}, NEW s, s = [r EXCEPT !.pid = q]
    PROVE  s \in Row /\ s.pid = q /\ s.cid = r.cid /\ s.result = r.result /\ s.manual = r.manual
BY DEF Row

\* So does rewriting its cluster.
LEMMA RowMoved ==
    ASSUME NEW r \in Row, NEW d \in Clusters \cup {None}, NEW s, s = [r EXCEPT !.cid = d]
    PROVE  s \in Row /\ s.pid = r.pid /\ s.cid = d /\ s.result = r.result /\ s.manual = r.manual
BY DEF Row

-----------------------------------------------------------------------------
(* Whatever overlaps: one lemma per group of handlers.                     *)

\* A new voice is given to whom it sounds like, or is pooled in a cluster that is shown; all
\* of that is in memory, and no other voice in hand changes.
NewVerdict(v) ==
    /\ v \notin heard /\ stage[v] = "none" /\ stage' = [stage EXCEPT ![v] = "identified"]
    /\ speaker' \in [Voices -> Row] /\ \A u \in Voices \ {v} : speaker'[u] = speaker[u]
    /\ [pid |-> speaker'[v].pid, result |-> speaker'[v].result] = Identify(v)
    /\ speaker'[v].pid = Identify(v).pid /\ speaker'[v].manual = FALSE
    /\ Identify(v).pid \in profiles \cup {None}
    /\ cluster' \in [Clusters -> {"free", "live"} \cup Profiles]
    /\ \A k \in Clusters : cluster'[k] = cluster[k] \/ cluster'[k] = "live"
    /\ speaker'[v].cid # None => cluster'[speaker'[v].cid] = "live"
    /\ UNCHANGED <<profiles, enrolled, centroid, rows, jobs, reid>>

\* That is what identifying a voice does.
LEMMA HeardVerdict ==
    ASSUME Base, NEW v \in Voices, HearIdentify(v)
    PROVE  NewVerdict(v)
<1> USE SpeakersConstants DEF Base
<1> DEFINE m == Identify(v)
<1>1. m \in Verdicts /\ m.pid \in profiles \cup {None}
  BY IdentifyNames
<1>2. /\ v \notin heard /\ stage[v] = "none" /\ stage' = [stage EXCEPT ![v] = "identified"]
      /\ UNCHANGED <<profiles, enrolled, centroid, rows, jobs, reid>>
  BY DEF HearIdentify
<1>3. PICK c \in Clusters \cup {None} :
         /\ speaker' = [speaker EXCEPT ![v] =
                           [pid |-> m.pid, cid |-> c, result |-> m.result, manual |-> FALSE]]
         /\ IF c = None THEN UNCHANGED <<cluster, gist>> ELSE PooledIn(v, c)
  BY DEF HearIdentify
<1> HIDE DEF m
<1>4. /\ cluster' \in [Clusters -> {"free", "live"} \cup Profiles]
      /\ \A k \in Clusters : cluster'[k] = cluster[k] \/ cluster'[k] = "live"
      /\ c # None => cluster'[c] = "live"
  BY <1>3 DEF PooledIn, Fields
<1>5. /\ speaker' \in [Voices -> Row] /\ \A u \in Voices \ {v} : speaker'[u] = speaker[u]
      /\ speaker'[v] = [pid |-> m.pid, cid |-> c, result |-> m.result, manual |-> FALSE]
  BY <1>1, <1>3 DEF Fields, Row, Verdicts
<1>6. [pid |-> m.pid, result |-> m.result] = m
  BY <1>1 DEF Verdicts
<1>7. QED
  BY <1>1, <1>2, <1>4, <1>5, <1>6 DEF m, NewVerdict

\* The row of a voice is inserted as the pipeline holds it, if what it refers to exists.
NewRow(v) ==
    /\ v \in Voices \ heard /\ heard' = heard \cup {v}
    /\ stage[v] = "identified" /\ stage' = [stage EXCEPT ![v] = "inserted"]
    /\ voice' = [voice EXCEPT ![v] = speaker[v]] /\ speaker[v] \in Row /\ speaker[v].manual = FALSE
    /\ speaker[v].pid \in profiles \cup {None}
    /\ speaker[v].cid # None => cluster[speaker[v].cid] # "free"
    /\ UNCHANGED <<people, utt, decided, speaker, jobs, reid>>

\* That is what the INSERT does.
LEMMA HeardRow ==
    ASSUME Base, NEW v \in Voices, HearRow(v)
    PROVE  NewRow(v)
BY DEF Base, Fields, Staged, HearRow, Referable, NewRow

\* The pipeline lets go of a voice, its transcript written or its row refused; who it belongs
\* to, and the rows of the clip's speakers, stay.
LEMMA LetGoFacts ==
    ASSUME Base, NEW v \in Voices, HearTranscript(v) \/ HearFails(v)
    PROVE  /\ stage' = [stage EXCEPT ![v] = "none"] /\ speaker' = [speaker EXCEPT ![v] = Blank]
           /\ UNCHANGED <<people, heard, voice, decided, jobs, reid>>
           /\ utt' = utt \/ (stage[v] = "inserted" /\ utt' = [utt EXCEPT ![v] = speaker[v].pid])
           /\ stage[v] = "inserted" => utt' = [utt EXCEPT ![v] = speaker[v].pid]
BY DEF HearTranscript, HearFails, LetGo, rows

\* Nothing is held of a voice that is let go.
LEMMA BlankFacts == Blank \in Row /\ Blank.pid = None /\ Blank.cid = None /\ Blank.manual = FALSE
BY DEF Blank, Row, Results

\* The pipeline identifies a voice, writes it, or fails to; or its clip is forgotten.
LEMMA BaseClip ==
    ASSUME Base, NEW v \in Voices,
           HearIdentify(v) \/ HearRow(v) \/ HearTranscript(v) \/ HearFails(v) \/ Forget(v)
    PROVE  Base'
<1> USE SpeakersConstants, BlankFacts DEF Base
<1>1. CASE HearIdentify(v)
  <2>1. NewVerdict(v)
    BY <1>1, HeardVerdict
  <2>2. Fields'
    BY <2>1 DEF NewVerdict, Fields, Stages, rows, jobs, reid
  <2>3. Idle' /\ Staged' /\ WindowInv'
    BY <2>1 DEF NewVerdict, Fields, Idle, Staged, WindowInv, rows, jobs, reid
  <2>4. Rooted'
    BY <2>1 DEF NewVerdict, Fields, Rooted, Row, rows
  <2>5. QED
    BY <2>2, <2>3, <2>4
<1>2. CASE HearRow(v)
  <2>1. NewRow(v)
    BY <1>2, HeardRow
  <2>2. Fields'
    BY <2>1 DEF NewRow, Fields, Stages, people, jobs, reid
  <2>3. Idle' /\ Staged' /\ WindowInv'
    BY <2>1 DEF NewRow, Fields, Idle, Staged, WindowInv, people, jobs, reid
  <2>4. Rooted'
    BY <2>1 DEF NewRow, Fields, Rooted, people
  <2>5. QED
    BY <2>2, <2>3, <2>4
<1>3. CASE HearTranscript(v) \/ HearFails(v)
  <2>1. speaker[v].pid \in Profiles \cup {None}
    BY DEF Fields, Row
  <2>2. /\ stage' \in [Voices -> Stages] /\ speaker' \in [Voices -> Row]
        /\ utt' \in [Voices -> Profiles \cup {None}]
        /\ UNCHANGED <<people, heard, voice, decided, jobs, reid>>
    BY <1>3, <2>1, LetGoFacts DEF Fields, Stages
  <2>3. Fields'
    BY <2>2 DEF Fields, people, jobs, reid
  <2>4. Staged'
    <3>1. /\ stage' = [stage EXCEPT ![v] = "none"] /\ speaker' = [speaker EXCEPT ![v] = Blank]
          /\ heard' = heard
      BY <1>3, LetGoFacts
    <3>2. stage \in [Voices -> Stages] /\ speaker \in [Voices -> Row]
      BY DEF Fields
    <3>3. QED
      BY <3>1, <3>2 DEF Staged
  <2>5. Idle' /\ WindowInv' /\ Rooted'
    BY <2>2 DEF Idle, WindowInv, Rooted, people, jobs, reid
  <2>6. QED
    BY <2>3, <2>4, <2>5
<1>4. CASE Forget(v)
  <2>1. UNCHANGED <<people, jobs, reid>> /\ LetGo(v)
    BY <1>4 DEF Forget
  <2>2. Fields'
    BY <1>4, <2>1 DEF Forget, LetGo, Fields, Stages, people, jobs, reid
  <2>3. Idle' /\ Staged' /\ WindowInv'
    BY <1>4, <2>1 DEF Forget, LetGo, Fields, Idle, Staged, WindowInv, jobs, reid
  <2>4. Rooted'
    BY <1>4, <2>1 DEF Forget, Fields, Rooted, people
  <2>5. QED
    BY <2>2, <2>3, <2>4
<1>5. QED
  BY <1>1, <1>2, <1>3, <1>4

\* A person names a voice, or says it is nobody.
LEMMA BaseAssign ==
    ASSUME Base, NEW v \in Voices, NEW p \in Profiles \cup {None}, NEW e \in BOOLEAN,
           Assign(v, p, e)
    PROVE  Base'
<1> USE SpeakersConstants DEF Base, Assign
<1>1. queued' \subseteq Windows /\ UNCHANGED <<kept, now>>
  BY AskingQueues
<1>2. Idle' /\ Staged' /\ WindowInv'
  BY <1>1 DEF Idle, Staged, WindowInv, work, hearing, reid
<1>3. /\ enrolled' \in [Profiles -> SUBSET Prints] /\ centroid' = enrolled'
      /\ \A q \in Profiles : q # p => enrolled'[q] = enrolled[q]
  <2>1. CASE e /\ p # None /\ v \in Fair
    BY <2>1, EnrollFacts DEF Prints
  <2>2. CASE ~(e /\ p # None /\ v \in Fair)
    BY <2>2 DEF Fields
  <2>3. QED
    BY <2>1, <2>2
<1>4. profiles' \subseteq Profiles /\ profiles \subseteq profiles' /\ (p # None => p \in profiles')
  BY DEF Named, Fields
<1>5. Fields'
  BY <1>1, <1>3, <1>4 DEF Fields, work, hearing, reid, Row, Results
<1>6. Rooted'
  BY <1>3, <1>4 DEF Fields, Rooted, Row
<1>7. QED
  BY <1>2, <1>5, <1>6

\* A live turn is enrolled, or an enrolment removed.
LEMMA BaseEnrolments ==
    ASSUME Base, NEW p \in Profiles, NEW s \in Prints,
           (s \in LiveTurns /\ LiveTag(s, p)) \/ Unenroll(p, s)
    PROVE  Base'
<1> USE SpeakersConstants DEF Base
<1>1. UNCHANGED <<cluster, rows, work>> /\ AskForPass
  BY DEF LiveTag, Unenroll
<1>2. queued' \subseteq Windows /\ UNCHANGED <<kept, now>>
  BY <1>1, AskingQueues
<1>3. Idle' /\ Staged' /\ WindowInv'
  BY <1>1, <1>2 DEF Idle, Staged, WindowInv, rows, work, hearing, reid
<1>4. /\ enrolled' \in [Profiles -> SUBSET Prints] /\ centroid' = enrolled'
      /\ profiles' \subseteq Profiles /\ profiles \subseteq profiles'
      /\ \A q \in Profiles \ profiles' : enrolled'[q] = {}
  <2>1. CASE s \in LiveTurns /\ LiveTag(s, p)
    BY <2>1, EnrollFacts DEF LiveTag, Named, Fields, Rooted
  <2>2. CASE Unenroll(p, s)
    BY <2>2 DEF Unenroll, Fields, Rooted
  <2>3. QED
    BY <2>1, <2>2
<1>5. Fields'
  BY <1>1, <1>2, <1>4 DEF Fields, rows, work, hearing, reid
<1>6. Rooted'
  BY <1>1, <1>4 DEF Rooted, rows
<1>7. QED
  BY <1>3, <1>5, <1>6

\* What a merge or a deletion repoints keeps its type, and points away from the profile.
LEMMA RepointedFacts ==
    ASSUME Base, NEW p \in Profiles, NEW q \in Profiles \cup {None}, p # q, Repointed(p, q)
    PROVE  /\ voice' \in [Voices -> Row]
           /\ utt' \in [Voices -> Profiles \cup {None}] /\ decided' \in [Voices -> Profiles \cup {None}]
           /\ cluster' \in [Clusters -> {"free", "live"} \cup Profiles]
           /\ \A c \in Clusters :
                 /\ cluster[c] # p => cluster'[c] = cluster[c]
                 /\ cluster[c] = p => cluster'[c] = IF q = None THEN "live" ELSE q
           /\ \A v \in Voices :
                 /\ voice'[v].pid = (IF v \in heard /\ voice[v].pid = p THEN q ELSE voice[v].pid)
                 /\ voice'[v].cid = voice[v].cid
                 /\ voice'[v].result = voice[v].result /\ voice'[v].manual = voice[v].manual
                 /\ utt'[v] = (IF utt[v] = p THEN q ELSE utt[v])
                 /\ decided'[v] = (IF decided[v] = p THEN q ELSE decided[v])
<1> USE SpeakersConstants DEF Base, Fields, Repointed
<1>1. /\ cluster' \in [Clusters -> {"free", "live"} \cup Profiles]
      /\ \A c \in Clusters :
            /\ cluster[c] # p => cluster'[c] = cluster[c]
            /\ cluster[c] = p => cluster'[c] = IF q = None THEN "live" ELSE q
  OBVIOUS
<1>2. /\ utt' \in [Voices -> Profiles \cup {None}] /\ decided' \in [Voices -> Profiles \cup {None}]
      /\ \A v \in Voices :
            /\ utt'[v] = (IF utt[v] = p THEN q ELSE utt[v])
            /\ decided'[v] = (IF decided[v] = p THEN q ELSE decided[v])
  OBVIOUS
<1>3. /\ voice' \in [Voices -> Row]
      /\ \A v \in Voices :
            /\ voice'[v].pid = (IF v \in heard /\ voice[v].pid = p THEN q ELSE voice[v].pid)
            /\ voice'[v].cid = voice[v].cid
            /\ voice'[v].result = voice[v].result /\ voice'[v].manual = voice[v].manual
  <2> SUFFICES ASSUME NEW v \in Voices
               PROVE  /\ voice'[v] \in Row
                      /\ voice'[v].pid = (IF v \in heard /\ voice[v].pid = p THEN q ELSE voice[v].pid)
                      /\ voice'[v].cid = voice[v].cid
                      /\ voice'[v].result = voice[v].result /\ voice'[v].manual = voice[v].manual
    <3>1. voice' = [v \in Voices |-> voice'[v]]
      OBVIOUS
    <3>2. QED
      BY <3>1
  <2>1. voice[v] \in Row
    OBVIOUS
  <2>2. CASE v \in WhoseProfile(p)
    <3>1. voice'[v] = [voice[v] EXCEPT !.pid = q]
      BY <2>2
    <3>2. v \in heard /\ voice[v].pid = p
      BY <2>2 DEF WhoseProfile
    <3>3. QED
      BY <2>1, <3>1, <3>2, RowNamed
  <2>3. CASE v \notin WhoseProfile(p)
    <3>1. voice'[v] = voice[v]
      BY <2>3
    <3>2. ~(v \in heard /\ voice[v].pid = p)
      BY <2>3 DEF WhoseProfile
    <3>3. QED
      BY <2>1, <3>1, <3>2
  <2>4. QED
    BY <2>2, <2>3
<1>4. QED
  BY <1>1, <1>2, <1>3

\* A profile goes: its enrolments with it, and what was promoted to it.
LEMMA BaseProfileGoes ==
    ASSUME Base, NEW p \in Profiles, NEW q \in Profiles, Merge(p, q) \/ Delete(p)
    PROVE  Base'
<1> USE SpeakersConstants DEF Base
<1> DEFINE r == IF Merge(p, q) THEN q ELSE None
<1>1. /\ Repointed(p, r) /\ AskForPass /\ UNCHANGED <<heard, work>>
      /\ profiles' = profiles \ {p} /\ p # r /\ r \in profiles \cup {None}
  BY DEF Merge, Delete, Fields
<1>2. queued' \subseteq Windows /\ UNCHANGED <<kept, now>>
  BY <1>1, AskingQueues
<1>3. Idle' /\ Staged' /\ WindowInv'
  BY <1>1, <1>2 DEF Idle, Staged, WindowInv, work, hearing, reid
<1>4. /\ enrolled' \in [Profiles -> SUBSET Prints] /\ centroid' = enrolled' /\ enrolled'[p] = {}
      /\ \A k \in Profiles \ {p, r} : enrolled'[k] = enrolled[k]
  <2>1. CASE Merge(p, q)
    <3>1. p # q /\ enrolled' = [enrolled EXCEPT ![p] = {}, ![q] = @ \cup enrolled[p]]
      BY <2>1 DEF Merge
    <3>2. centroid' = [enrolled EXCEPT ![p] = {}, ![q] = enrolled'[q]]
      BY <2>1 DEF Merge, Fields
    <3>3. QED
      BY <2>1, <3>1, <3>2 DEF Fields
  <2>2. CASE ~Merge(p, q)
    BY <2>2 DEF Delete, Fields
  <2>3. QED
    BY <2>1, <2>2
<1> HIDE DEF r
<1>5. r \in Profiles \cup {None}
  BY <1>1 DEF Fields
<1>6. Fields'
  BY <1>1, <1>2, <1>4, <1>5, RepointedFacts DEF Fields, work, hearing, reid
<1>7. Rooted'
  <2>1. \A k \in Profiles \ profiles' : enrolled'[k] = {}
    BY <1>1, <1>4 DEF Rooted
  <2>2. \A c \in Clusters : cluster'[c] \in {"free", "live"} \cup profiles'
    BY <1>1, <1>5, RepointedFacts DEF Rooted, Fields
  <2>3. \A v \in heard' : voice'[v].cid # None => cluster'[voice'[v].cid] # "free"
    BY <1>1, <1>5, RepointedFacts DEF Rooted, Fields, Row
  <2>4. QED
    BY <2>1, <2>2, <2>3 DEF Rooted
<1>8. QED
  BY <1>3, <1>6, <1>7

\* A promotion names the members and takes them from the pool; nobody else's row changes.
LEMMA PromotedRows ==
    ASSUME Base, NEW c \in Clusters, NEW p \in Profiles, Promote(c, p)
    PROVE  /\ voice' \in [Voices -> Row]
           /\ \A v \in heard : voice'[v].cid \in {voice[v].cid, None} \ {c}
           /\ \A v \in Voices :
                 /\ v \in Members(c) => voice'[v].pid = p /\ voice'[v].cid = None
                 /\ v \notin Members(c) => voice'[v] = voice[v]
                 /\ voice'[v].result = voice[v].result /\ voice'[v].manual = voice[v].manual
<1>1. /\ voice' = [v \in Voices |->
            IF v \in Members(c) THEN [voice[v] EXCEPT !.pid = p, !.cid = None] ELSE voice[v]]
      /\ voice \in [Voices -> Row] /\ heard \subseteq Voices
  BY DEF Promote, Base, Fields
<1>2. ASSUME NEW v \in Voices
      PROVE  /\ voice'[v] \in Row
             /\ v \in heard => voice'[v].cid \in {voice[v].cid, None} \ {c}
             /\ v \in Members(c) => voice'[v].pid = p /\ voice'[v].cid = None
             /\ v \notin Members(c) => voice'[v] = voice[v]
             /\ voice'[v].result = voice[v].result /\ voice'[v].manual = voice[v].manual
  <2>1. voice[v] \in Row /\ c # None
    BY <1>1, SpeakersConstants
  <2>2. CASE v \in Members(c)
    <3>1. voice'[v] = [voice[v] EXCEPT !.pid = p, !.cid = None]
      BY <1>1, <2>2
    <3>2. /\ voice'[v] \in Row /\ voice'[v].pid = p /\ voice'[v].cid = None
          /\ voice'[v].result = voice[v].result /\ voice'[v].manual = voice[v].manual
      BY <2>1, <3>1 DEF Row
    <3>3. QED
      BY <2>1, <2>2, <3>2
  <2>3. CASE v \notin Members(c)
    <3>1. voice'[v] = voice[v] /\ (v \in heard => voice[v].cid # c)
      BY <1>1, <2>3 DEF Members
    <3>2. QED
      BY <2>1, <2>3, <3>1
  <2>4. QED
    BY <2>2, <2>3
<1>3. QED
  BY <1>1, <1>2

\* Ungrouping moves the members elsewhere; who they are said to be stays.
LEMMA UngroupedRows ==
    ASSUME Base, NEW c \in Clusters, NEW k \in (Clusters \cup {None}) \ {c}, Ungrouped(c, k)
    PROVE  /\ voice' \in [Voices -> Row]
           /\ \A v \in heard : voice'[v].cid \in {voice[v].cid, k} \ {c}
           /\ \A v \in Voices :
                 /\ voice'[v].pid = voice[v].pid /\ voice'[v].result = voice[v].result
                 /\ voice'[v].manual = voice[v].manual
<1>1. /\ voice' = [v \in Voices |->
            IF v \in Members(c) THEN [voice[v] EXCEPT !.cid = k] ELSE voice[v]]
      /\ voice \in [Voices -> Row] /\ heard \subseteq Voices
  BY DEF Ungrouped, Base, Fields
<1>2. ASSUME NEW v \in Voices
      PROVE  /\ voice'[v] \in Row
             /\ v \in heard => voice'[v].cid \in {voice[v].cid, k} \ {c}
             /\ voice'[v].pid = voice[v].pid /\ voice'[v].result = voice[v].result
             /\ voice'[v].manual = voice[v].manual
  <2>1. voice[v] \in Row
    BY <1>1
  <2>2. CASE v \in Members(c)
    <3>1. voice'[v] = [voice[v] EXCEPT !.cid = k]
      BY <1>1, <2>2
    <3>2. QED
      BY <2>1, <2>2, <3>1, RowMoved
  <2>3. CASE v \notin Members(c)
    <3>1. voice'[v] = voice[v] /\ (v \in heard => voice[v].cid # c)
      BY <1>1, <2>3 DEF Members
    <3>2. QED
      BY <2>1, <3>1
  <2>4. QED
    BY <2>2, <2>3
<1>3. QED
  BY <1>1, <1>2

\* A cluster that stops being one takes no row with it that has left it.
LEMMA StillGrouped ==
    ASSUME Fields, Rooted, heard' = heard, NEW c \in Clusters, NEW k \in Clusters \cup {None},
           k # None => cluster[k] # "free",
           \A v \in heard : voice'[v].cid \in {voice[v].cid, k} \ {c},
           \A d \in Clusters \ {c} : cluster'[d] = cluster[d]
    PROVE  \A v \in heard' : voice'[v].cid # None => cluster'[voice'[v].cid] # "free"
<1> SUFFICES ASSUME NEW v \in heard, voice'[v].cid # None
             PROVE  cluster'[voice'[v].cid] # "free"
  OBVIOUS
<1> DEFINE d == voice'[v].cid
<1>1. voice[v].cid \in Clusters \cup {None} /\ (voice[v].cid # None => cluster[voice[v].cid] # "free")
  BY DEF Fields, Rooted, Row
<1>2. d \in {voice[v].cid, k} \ {c} /\ d # None
  OBVIOUS
<1> HIDE DEF d
<1>3. d \in Clusters \ {c} /\ cluster[d] # "free"
  BY <1>1, <1>2
<1>4. cluster'[d] # "free"
  BY <1>3
<1>5. QED
  BY <1>4 DEF d

\* A cluster is named, set aside or joined with another.
LEMMA BaseClusters ==
    ASSUME Base, NEW c \in Clusters,
           \/ \E p \in Profiles : Promote(c, p)
           \/ Dismiss(c) \/ \E d \in Clusters : Consolidate(c, d)
    PROVE  Base'
<1> USE SpeakersConstants DEF Base
<1>1. ASSUME NEW p \in Profiles, Promote(c, p)
      PROVE  Base'
  <2> USE <1>1 DEF Promote
  <2>1. queued' \subseteq Windows /\ UNCHANGED <<kept, now>>
    BY AskingQueues
  <2>2. Idle' /\ Staged' /\ WindowInv'
    BY <2>1 DEF Idle, Staged, WindowInv, work, hearing, reid
  <2>3. Members(c) \cap Fair \in SUBSET Prints
    BY DEF Prints
  <2>4. /\ enrolled' \in [Profiles -> SUBSET Prints] /\ centroid' = enrolled'
        /\ \A q \in Profiles : q # p => enrolled'[q] = enrolled[q]
    BY <2>3, EnrollFacts
  <2>5. profiles' \subseteq Profiles /\ profiles \subseteq profiles' /\ p \in profiles'
    BY DEF Named, Fields
  <2>6. voice' \in [Voices -> Row] /\ \A v \in heard : voice'[v].cid \in {voice[v].cid, None} \ {c}
    BY PromotedRows DEF Fields
  <2>7. Fields'
    BY <2>1, <2>4, <2>5, <2>6 DEF Fields, work, hearing, reid
  <2>8. heard' = heard /\ \A d \in Clusters \ {c} : cluster'[d] = cluster[d]
    BY DEF Fields
  <2>9. \A v \in heard' : voice'[v].cid # None => cluster'[voice'[v].cid] # "free"
    BY <2>6, <2>8, StillGrouped, None \in Clusters \cup {None}
  <2>10. Rooted'
    BY <2>4, <2>5, <2>9 DEF Fields, Rooted
  <2>11. QED
    BY <2>2, <2>7, <2>10
<1>2. ASSUME NEW k \in Clusters \cup {None}, Ungrouped(c, k), k # None => k # c /\ cluster[k] = "live"
      PROVE  Base'
  <2> USE <1>2 DEF Ungrouped
  <2>0. k \in (Clusters \cup {None}) \ {c}
    BY <1>2
  <2>1. Idle' /\ Staged' /\ WindowInv'
    BY DEF Idle, Staged, WindowInv, work, hearing, reid, jobs
  <2>2. voice' \in [Voices -> Row] /\ \A v \in heard : voice'[v].cid \in {voice[v].cid, k} \ {c}
    BY <2>0, UngroupedRows
  <2>3. Fields'
    BY <2>2 DEF Fields, work, hearing, reid, jobs
  <2>4. heard' = heard /\ \A d \in Clusters \ {c} : cluster'[d] = cluster[d]
    BY DEF Fields
  <2>5. k # None => cluster[k] # "free"
    BY <1>2
  <2>6. \A v \in heard' : voice'[v].cid # None => cluster'[voice'[v].cid] # "free"
    BY <2>2, <2>4, <2>5, <1>2, StillGrouped
  <2>7. Rooted'
    BY <2>6 DEF Fields, Rooted
  <2>8. QED
    BY <2>1, <2>3, <2>7
<1>3. QED
  BY <1>1, <1>2 DEF Dismiss, Consolidate

\* The row is written only while what it refers to exists.
LEMMA WrittenRow ==
    ASSUME Base, WriteRow
    PROVE  /\ row \in Voices /\ voice' \in [Voices -> Row]
           /\ \A v \in Voices :
                 /\ voice'[v].manual = voice[v].manual
                 /\ v # row \/ row \notin heard => voice'[v] = voice[v]
           /\ row \in heard => /\ voice'[row].pid = verdict.pid /\ voice'[row].result = verdict.result
                               /\ voice'[row].cid = NewCluster /\ Referable(verdict.pid, NewCluster)
<1>0. voice \in [Voices -> Row]
  BY DEF Base, Fields
<1>1. row \in Voices /\ voice[row] \in Row /\ snap[row] \in Row
  BY DEF Base, Fields, WriteRow
<1>2. NewCluster \in Clusters \cup {None} /\ verdict.pid \in Profiles \cup {None} /\ verdict.result \in Results
  BY <1>1 DEF Base, Fields, NewCluster, Row, Verdicts
<1>3. CASE row \in heard
  <2> DEFINE r == [voice[row] EXCEPT !.pid = verdict.pid, !.result = verdict.result, !.cid = NewCluster]
  <2>1. voice' = [voice EXCEPT ![row] = r]
    BY <1>0, <1>1, <1>3 DEF WriteRow
  <2>2. /\ r \in Row /\ r.manual = voice[row].manual /\ r.pid = verdict.pid
        /\ r.result = verdict.result /\ r.cid = NewCluster
    BY <1>1, <1>2 DEF Row
  <2>3. Referable(verdict.pid, NewCluster)
    BY <1>3 DEF WriteRow
  <2> HIDE DEF r
  <2>4. voice' \in [Voices -> Row] /\ voice'[row] = r /\ \A v \in Voices : v # row => voice'[v] = voice[v]
    BY <1>0, <1>1, <2>1, <2>2
  <2>5. QED
    BY <1>1, <1>3, <2>2, <2>3, <2>4
<1>4. CASE row \notin heard
  BY <1>0, <1>1, <1>4 DEF WriteRow
<1>5. QED
  BY <1>3, <1>4

\* A pass starts, judges, writes, ends or fails; or the next window begins.
LEMMA BasePass ==
    ASSUME Base,
           \/ \E b \in Windows : StartPass(b)
           \/ \E v \in Voices : Judge(v)
           \/ WriteRow \/ WriteTranscript \/ EndPass \/ PassFails \/ NextWindow
    PROVE  Base'
<1> USE SpeakersConstants DEF Base
<1>0. Blank \in Row /\ Unknown \in Verdicts
  BY DEF Blank, Row, Unknown, Verdicts, Results
<1>1. ASSUME NEW b \in Windows, StartPass(b) PROVE Base'
  BY <1>0, <1>1 DEF StartPass, PassReads, people, rows, Fields, Idle, Staged, WindowInv, Rooted, hearing
<1>2. ASSUME NEW v \in Voices, Judge(v) PROVE Base'
  <2>1. Identify(v) \in Verdicts
    BY IdentifyNames
  <2>2. QED
    BY <1>2, <2>1 DEF Judge, people, rows, jobs, Fields, Idle, Staged, WindowInv, Rooted, hearing
<1>3. CASE WriteRow
  <2>1. /\ UNCHANGED <<people, heard, utt, decided, hearing, jobs, pass, todo, snap, row, verdict>>
        /\ written'
    BY <1>3 DEF WriteRow
  <2>2. Fields'
    BY <1>3, <2>1, WrittenRow DEF people, hearing, jobs, Fields
  <2>3. Idle' /\ Staged' /\ WindowInv'
    BY <1>3, <2>1 DEF WriteRow, jobs, Idle, Staged, WindowInv, hearing
  <2>4. Rooted'
    BY <1>3, <2>1, WrittenRow DEF Referable, people, Fields, Rooted
  <2>5. QED
    BY <2>2, <2>3, <2>4
<1>4. CASE WriteTranscript
  <2>1. UNCHANGED <<people, heard, voice, decided, hearing, jobs, pass, todo>>
    BY <1>4 DEF WriteTranscript
  <2>2. verdict.pid \in Profiles \cup {None}
    BY DEF Fields, Verdicts
  <2>3. utt' \in [Voices -> Profiles \cup {None}] /\ snap' \in [Voices -> Row]
    BY <1>0, <1>4, <2>2 DEF WriteTranscript, Fields, hearing
  <2>4. Fields'
    BY <1>0, <1>4, <2>1, <2>3 DEF WriteTranscript, people, jobs, Fields, hearing
  <2>5. Idle' /\ Staged' /\ WindowInv' /\ Rooted'
    BY <1>4, <2>1 DEF WriteTranscript, people, jobs, Idle, Staged, WindowInv, Rooted, hearing
  <2>6. QED
    BY <2>4, <2>5
<1>5. CASE EndPass \/ PassFails
  <2>1. PassOver /\ pass # None /\ ~written
    BY <1>5 DEF EndPass, PassFails, Idle, Fields
  <2>2. Fields' /\ Idle' /\ Staged' /\ WindowInv' /\ Rooted'
    BY <1>0, <2>1 DEF PassOver, people, rows, Fields, Idle, Staged, WindowInv, Rooted, hearing
  <2>3. QED
    BY <2>2
<1>6. CASE NextWindow
  BY <1>6 DEF NextWindow, people, rows, work, hearing, reid, Fields, Idle, Staged, WindowInv, Rooted
<1>7. QED
  BY <1>1, <1>2, <1>3, <1>4, <1>5, <1>6

\* Each step keeps it, those of a pass that fails included.
LEMMA BaseStep == Base /\ [Next \/ PassFails]_vars => Base'
<1> SUFFICES ASSUME Base, [Next \/ PassFails]_vars PROVE Base'
  OBVIOUS
<1>1. CASE Clip
  BY <1>1, BaseClip DEF Clip
<1>2. CASE Person
  <2>1. ASSUME NEW t \in LiveTurns, NEW p \in Profiles, LiveTag(t, p) PROVE Base'
    BY <2>1, BaseEnrolments DEF Prints
  <2>2. ASSUME NEW p \in Profiles, NEW s \in Prints, Unenroll(p, s) PROVE Base'
    BY <2>2, BaseEnrolments
  <2>3. ASSUME NEW p \in Profiles, NEW q \in Profiles, Merge(p, q) \/ Delete(p) PROVE Base'
    BY <2>3, BaseProfileGoes
  <2>4. ASSUME NEW c \in Clusters,
               \/ \E p \in Profiles : Promote(c, p)
               \/ Dismiss(c) \/ \E d \in Clusters : Consolidate(c, d)
        PROVE  Base'
    BY <2>4, BaseClusters
  <2>5. ASSUME NEW v \in Voices, NEW p \in Profiles \cup {None}, NEW e \in BOOLEAN, Assign(v, p, e)
        PROVE  Base'
    BY <2>5, BaseAssign
  <2>6. QED
    BY <1>2, <2>1, <2>2, <2>3, <2>4, <2>5 DEF Person
<1>3. CASE Pass \/ NextWindow \/ PassFails
  BY <1>3, BasePass DEF Pass
<1>4. CASE UNCHANGED vars
  BY <1>4 DEF vars, people, rows, jobs, work, hearing, reid, Base, Fields, Idle, Staged, WindowInv, Rooted
<1>5. QED
  BY <1>1, <1>2, <1>3, <1>4 DEF Next

\* So it holds throughout.
LEMMA BaseInvariant == OverlapSpec => []Base
BY BaseInit, BaseStep, PTL DEF OverlapSpec

\* The model without failing passes is the model with them, less some behaviours.
THEOREM NoFailingPass == Spec => OverlapSpec
<1>1. [Next]_vars => [Next \/ PassFails]_vars
  OBVIOUS
<1>2. QED
  BY <1>1, PTL DEF Spec, OverlapSpec

\* A step is one of these.
LEMMA Steps ==
    ASSUME [Next \/ PassFails]_vars
    PROVE  \/ \E v \in Voices : HearIdentify(v)
           \/ \E v \in Voices : HearRow(v)
           \/ \E v \in Voices : HearTranscript(v) \/ HearFails(v)
           \/ \E v \in Voices : Forget(v)
           \/ \E v \in Voices, p \in Profiles \cup {None}, e \in BOOLEAN : Assign(v, p, e)
           \/ \E t \in LiveTurns, p \in Profiles : LiveTag(t, p)
           \/ \E p \in Profiles, s \in Prints : Unenroll(p, s)
           \/ \E p, q \in Profiles : Merge(p, q) \/ Delete(p)
           \/ \E c \in Clusters, p \in Profiles : Promote(c, p)
           \/ \E c, d \in Clusters : Dismiss(c) \/ Consolidate(c, d)
           \/ \E b \in Windows : StartPass(b)
           \/ \E v \in Voices : Judge(v)
           \/ WriteRow \/ WriteTranscript \/ EndPass \/ PassFails \/ NextWindow \/ UNCHANGED vars
BY DEF Next, Clip, Person, Pass

\* A merge and a deletion do the same: they repoint, and ask for a pass.
LEMMA ProfileGoes ==
    ASSUME Base, NEW p \in Profiles, NEW q \in Profiles, Merge(p, q) \/ Delete(p)
    PROVE  \E r \in (profiles \cup {None}) \ {p} :
              /\ r \in Profiles \cup {None} /\ Repointed(p, r) /\ AskForPass
              /\ profiles' = profiles \ {p} /\ UNCHANGED <<heard, work>>
              /\ pass = None \/ MayOverlap \cap {"merge", "delete"} # {}
              /\ InHand = {} \/ MayInterrupt \cap {"merge", "delete"} # {}
<1> USE SpeakersConstants DEF Base, Fields
<1>1. CASE Merge(p, q)
  BY <1>1 DEF Merge, Handler
<1>2. CASE Delete(p)
  BY <1>2 DEF Delete, Handler
<1>3. QED
  BY <1>1, <1>2

\* Dismissing a cluster and joining it to another do the same: they ungroup its voices.
LEMMA Regrouped ==
    ASSUME NEW c \in Clusters, NEW d \in Clusters, Dismiss(c) \/ Consolidate(c, d)
    PROVE  \E k \in (Clusters \cup {None}) \ {c} :
              /\ Ungrouped(c, k) /\ (k # None => cluster[k] = "live")
              /\ pass = None \/ MayOverlap \cap {"dismiss", "consolidate"} # {}
<1>1. CASE Dismiss(c)
  BY <1>1, SpeakersConstants DEF Dismiss, Handler
<1>2. CASE Consolidate(c, d)
  BY <1>2 DEF Consolidate, Handler
<1>3. QED
  BY <1>1, <1>2

\* With no voice in hand the pipeline holds nothing.
LEMMA NothingInHand ==
    ASSUME Base, InHand = {}, NEW v \in Voices
    PROVE  stage[v] = "none" /\ speaker[v] = Blank
BY DEF Base, Staged, InHand

-----------------------------------------------------------------------------
(* Merges and deletions may not overlap a pass, nor come before the        *)
(* pipeline has written a voice it has judged: a profile that is gone      *)
(* would enter the transcript, which no foreign key protects.              *)

\* Rows, transcripts and the verdicts in hand name profiles that exist.
NamesExist ==
    /\ verdict.pid \in profiles \cup {None}
    /\ \A v \in Voices : speaker[v].pid \in profiles \cup {None} /\ utt[v] \in profiles \cup {None}
    /\ \A v \in heard : voice[v].pid \in profiles \cup {None}

\* Each step keeps them so.
LEMMA NamesExistStep ==
    ASSUME (MayOverlap \cup MayInterrupt) \cap {"merge", "delete"} = {},
           Base, NamesExist, [Next \/ PassFails]_vars
    PROVE  NamesExist'
<1> USE SpeakersConstants DEF NamesExist
<1>1. /\ heard \subseteq Voices /\ voice \in [Voices -> Row] /\ speaker \in [Voices -> Row]
      /\ utt \in [Voices -> Profiles \cup {None}]
  BY DEF Base, Fields
<1>2. ASSUME NEW v \in Voices, HearIdentify(v) PROVE NamesExist'
  <2>1. NewVerdict(v)
    BY <1>2, HeardVerdict
  <2>2. QED
    BY <1>1, <2>1 DEF NewVerdict, rows, jobs, reid
<1>3. ASSUME NEW v \in Voices, HearRow(v) PROVE NamesExist'
  <2>1. NewRow(v)
    BY <1>3, HeardRow
  <2>2. QED
    BY <1>1, <2>1 DEF NewRow, people, jobs, reid
<1>4. ASSUME NEW v \in Voices, HearTranscript(v) \/ HearFails(v) PROVE NamesExist'
  BY <1>1, <1>4, LetGoFacts, BlankFacts DEF people, jobs, reid
<1>5. ASSUME NEW v \in Voices, Forget(v) PROVE NamesExist'
  BY <1>1, <1>5, BlankFacts DEF Forget, LetGo, people, work, hearing, reid
<1>6. ASSUME NEW v \in Voices, NEW p \in Profiles \cup {None}, NEW e \in BOOLEAN, Assign(v, p, e)
      PROVE  NamesExist'
  BY <1>1, <1>6 DEF Assign, Named, work, hearing, reid
<1>7. ASSUME NEW t \in LiveTurns, NEW p \in Profiles, LiveTag(t, p) PROVE NamesExist'
  BY <1>7 DEF LiveTag, Named, rows, work, hearing, reid
<1>8. ASSUME NEW p \in Profiles, NEW s \in Prints, Unenroll(p, s) PROVE NamesExist'
  BY <1>8 DEF Unenroll, rows, work, hearing, reid
<1>9. ASSUME NEW p \in Profiles, NEW q \in Profiles, Merge(p, q) \/ Delete(p) PROVE NamesExist'
  <2>1. PICK r \in (profiles \cup {None}) \ {p} :
           /\ r \in Profiles \cup {None} /\ Repointed(p, r)
           /\ profiles' = profiles \ {p} /\ UNCHANGED <<heard, work>>
           /\ pass = None /\ InHand = {}
    BY <1>9, ProfileGoes
  <2>2. verdict' = Unknown /\ \A v \in Voices : speaker'[v].pid = None
    BY <2>1, NothingInHand, BlankFacts DEF Base, Idle, work, hearing, reid
  <2>3. QED
    BY <1>1, <2>1, <2>2, RepointedFacts DEF Unknown
<1>10. ASSUME NEW c \in Clusters, NEW p \in Profiles, Promote(c, p) PROVE NamesExist'
  <2>1. \A v \in Voices : /\ v \in Members(c) => voice'[v].pid = p
                          /\ v \notin Members(c) => voice'[v] = voice[v]
    BY <1>10, PromotedRows
  <2>2. /\ utt' = [v \in Voices |-> IF v \in Members(c) THEN p ELSE utt[v]]
        /\ profiles' = profiles \cup {p} /\ UNCHANGED <<heard, verdict, speaker>>
    BY <1>10 DEF Promote, Named, work, hearing, reid
  <2>3. QED
    BY <1>1, <2>1, <2>2
<1>11. ASSUME NEW c \in Clusters, NEW d \in Clusters, Dismiss(c) \/ Consolidate(c, d) PROVE NamesExist'
  <2>1. PICK k \in (Clusters \cup {None}) \ {c} : Ungrouped(c, k)
    BY <1>11, Regrouped
  <2>2. \A v \in Voices : voice'[v].pid = voice[v].pid
    BY <2>1, UngroupedRows
  <2>3. QED
    BY <1>1, <2>1, <2>2 DEF Ungrouped, work, hearing, reid
<1>12. ASSUME NEW b \in Windows, StartPass(b) PROVE NamesExist'
  BY <1>12 DEF StartPass, people, rows, hearing
<1>13. ASSUME NEW v \in Voices, Judge(v) PROVE NamesExist'
  BY <1>13, IdentifyNames DEF Judge, people, rows, hearing
<1>14. CASE WriteRow
  <2>1. /\ row \in heard => voice'[row].pid = verdict.pid
        /\ \A v \in Voices : v # row \/ row \notin heard => voice'[v] = voice[v]
    BY <1>14, WrittenRow
  <2>2. UNCHANGED <<profiles, heard, utt, speaker, verdict>>
    BY <1>14 DEF WriteRow, people, hearing
  <2>3. QED
    BY <1>1, <2>1, <2>2
<1>15. CASE WriteTranscript
  BY <1>1, <1>15 DEF WriteTranscript, Unknown, people, hearing
<1>16. CASE EndPass \/ PassFails
  BY <1>16 DEF EndPass, PassFails, PassOver, Unknown, people, rows, hearing
<1>17. CASE NextWindow \/ UNCHANGED vars
  BY <1>17 DEF NextWindow, vars, people, rows, work, hearing, reid
<1>18. QED
  BY Steps, <1>2, <1>3, <1>4, <1>5, <1>6, <1>7, <1>8, <1>9, <1>10, <1>11, <1>12, <1>13, <1>14, <1>15, <1>16, <1>17

\* References point to what exists, those of utterances included, which have no foreign key,
\* as long as no profile goes away while a pass is under way or the pipeline has a voice in hand.
THEOREM ReferencesExist ==
    ASSUME (MayOverlap \cup MayInterrupt) \cap {"merge", "delete"} = {}
    PROVE  OverlapSpec => []TypeOK
<1>1. Init => NamesExist
  BY DEF Init, NamesExist, Unknown, Blank
<1>2. Base /\ NamesExist /\ [Next \/ PassFails]_vars => NamesExist'
  BY NamesExistStep
<1>3. Base /\ NamesExist => TypeOK
  BY DEF Base, Fields, Rooted, NamesExist, TypeOK
<1>4. QED
  BY <1>1, <1>2, <1>3, BaseInvariant, PTL DEF OverlapSpec

-----------------------------------------------------------------------------
(* Naming by hand may not overlap a pass: it would be overwritten.         *)

\* The voices a pass has read and not finished with.
AtHand(v) == v \in todo \/ row = v

\* No voice set by hand is at hand.
DecisionInv == DecisionKept /\ \A v \in Voices : AtHand(v) => ~voice[v].manual

\* Each step keeps it so.
LEMMA DecisionStep ==
    ASSUME "assign" \notin MayOverlap, Base, DecisionInv, [Next \/ PassFails]_vars
    PROVE  DecisionInv'
<1> USE SpeakersConstants DEF DecisionInv, DecisionKept, AtHand
<1>1. /\ heard \subseteq Voices /\ voice \in [Voices -> Row]
      /\ decided \in [Voices -> Profiles \cup {None}] /\ todo \subseteq Voices
  BY DEF Base, Fields
<1>2. ASSUME NEW v \in Voices, HearIdentify(v) PROVE DecisionInv'
  <2>1. NewVerdict(v)
    BY <1>2, HeardVerdict
  <2>2. QED
    BY <1>1, <2>1 DEF NewVerdict, rows, jobs, reid
<1>3. ASSUME NEW v \in Voices, HearRow(v) PROVE DecisionInv'
  <2>1. NewRow(v)
    BY <1>3, HeardRow
  <2>2. QED
    BY <1>1, <2>1 DEF NewRow, people, jobs, reid
<1>4. ASSUME NEW v \in Voices, HearTranscript(v) \/ HearFails(v) PROVE DecisionInv'
  BY <1>1, <1>4, LetGoFacts, BlankFacts DEF people, jobs, reid
<1>5. ASSUME NEW v \in Voices, Forget(v) PROVE DecisionInv'
  BY <1>1, <1>5 DEF Forget, Blank, reid
<1>6. ASSUME NEW v \in Voices, NEW p \in Profiles \cup {None}, NEW e \in BOOLEAN, Assign(v, p, e)
      PROVE  DecisionInv'
  <2>1. row' = None /\ todo' = {}
    BY <1>6 DEF Assign, Handler, Base, Idle, work, hearing, reid
  <2>2. QED
    BY <1>1, <1>6, <2>1 DEF Assign
<1>7. ASSUME NEW t \in LiveTurns, NEW p \in Profiles, LiveTag(t, p) PROVE DecisionInv'
  BY <1>7 DEF LiveTag, rows, work, hearing, reid
<1>8. ASSUME NEW p \in Profiles, NEW s \in Prints, Unenroll(p, s) PROVE DecisionInv'
  BY <1>8 DEF Unenroll, rows, work, hearing, reid
<1>9. ASSUME NEW p \in Profiles, NEW q \in Profiles, Merge(p, q) \/ Delete(p) PROVE DecisionInv'
  <2>1. PICK r \in (profiles \cup {None}) \ {p} :
           r \in Profiles \cup {None} /\ Repointed(p, r) /\ UNCHANGED <<heard, work>>
    BY <1>9, ProfileGoes
  <2>2. \A v \in Voices :
           /\ voice'[v].pid = (IF v \in heard /\ voice[v].pid = p THEN r ELSE voice[v].pid)
           /\ voice'[v].manual = voice[v].manual
           /\ decided'[v] = (IF decided[v] = p THEN r ELSE decided[v])
    BY <2>1, RepointedFacts
  <2>3. QED
    BY <1>1, <2>1, <2>2 DEF work, hearing, reid
<1>10. ASSUME NEW c \in Clusters, NEW p \in Profiles, Promote(c, p) PROVE DecisionInv'
  <2>1. \A v \in Voices : /\ v \in Members(c) => voice'[v].pid = p
                          /\ v \notin Members(c) => voice'[v] = voice[v]
                          /\ voice'[v].manual = voice[v].manual
    BY <1>10, PromotedRows
  <2>2. /\ decided' = [v \in Voices |-> IF v \in Members(c) /\ voice[v].manual THEN p ELSE decided[v]]
        /\ UNCHANGED <<heard, todo, row>>
    BY <1>10 DEF Promote, work, hearing, reid
  <2>3. QED
    BY <1>1, <2>1, <2>2
<1>11. ASSUME NEW c \in Clusters, NEW d \in Clusters, Dismiss(c) \/ Consolidate(c, d) PROVE DecisionInv'
  <2>1. PICK k \in (Clusters \cup {None}) \ {c} : Ungrouped(c, k)
    BY <1>11, Regrouped
  <2>2. \A v \in Voices : voice'[v].pid = voice[v].pid /\ voice'[v].manual = voice[v].manual
    BY <2>1, UngroupedRows
  <2>3. QED
    BY <1>1, <2>1, <2>2 DEF Ungrouped, work, hearing, reid
<1>12. ASSUME NEW b \in Windows, StartPass(b) PROVE DecisionInv'
  BY <1>12 DEF StartPass, PassReads, rows, Base, Idle, hearing
<1>13. ASSUME NEW v \in Voices, Judge(v) PROVE DecisionInv'
  BY <1>13 DEF Judge, rows, hearing
<1>14. CASE WriteRow
  <2>1. \A v \in Voices : voice'[v].manual = voice[v].manual /\ (v # row => voice'[v] = voice[v])
    BY <1>14, WrittenRow
  <2>2. UNCHANGED <<heard, decided, todo, row>>
    BY <1>14 DEF WriteRow, hearing
  <2>3. QED
    BY <1>1, <2>1, <2>2
<1>15. CASE WriteTranscript
  BY <1>15 DEF WriteTranscript, hearing
<1>16. CASE EndPass \/ PassFails
  BY <1>16 DEF EndPass, PassFails, PassOver, rows, hearing
<1>17. CASE NextWindow \/ UNCHANGED vars
  BY <1>17 DEF NextWindow, vars, rows, work, hearing, reid
<1>18. QED
  BY Steps, <1>2, <1>3, <1>4, <1>5, <1>6, <1>7, <1>8, <1>9, <1>10, <1>11, <1>12, <1>13, <1>14, <1>15, <1>16, <1>17

\* What a person decided of a voice stays decided, whatever else runs during a pass, as long
\* as nobody names a voice by hand during one, whatever the pipeline has in hand.
THEOREM DecisionsStay ==
    ASSUME "assign" \notin MayOverlap
    PROVE  OverlapSpec => []DecisionKept
<1>1. Init => DecisionInv
  BY SpeakersConstants DEF Init, DecisionInv, DecisionKept, AtHand
<1>2. Base /\ DecisionInv /\ [Next \/ PassFails]_vars => DecisionInv'
  BY DecisionStep
<1>3. DecisionInv => DecisionKept
  BY DEF DecisionInv
<1>4. QED
  BY <1>1, <1>2, <1>3, BaseInvariant, PTL DEF OverlapSpec

-----------------------------------------------------------------------------
(* Promotions may not overlap a pass, nor a voice in hand: it would be put *)
(* (back) into a cluster that has a name by now.                           *)

\* The cluster a voice at hand was read in, or one in hand is meant for, is still nobody's, if
\* it is one at all.
PoolInv ==
    /\ PoolIsListed
    /\ \A v \in Voices : AtHand(v) /\ snap[v].cid # None => cluster[snap[v].cid] \in {"live", "free"}
    /\ \A v \in Voices : speaker[v].cid # None => cluster[speaker[v].cid] \in {"live", "free"}

\* Each step keeps it so.
LEMMA PoolStep ==
    ASSUME "promote" \notin MayOverlap \cup MayInterrupt, Base, PoolInv, [Next \/ PassFails]_vars
    PROVE  PoolInv'
<1> USE SpeakersConstants DEF PoolInv, PoolIsListed, AtHand
<1>1. /\ heard \subseteq Voices /\ voice \in [Voices -> Row] /\ snap \in [Voices -> Row]
      /\ cluster \in [Clusters -> {"free", "live"} \cup Profiles] /\ todo \subseteq Voices
      /\ \A v \in Voices : /\ voice[v].cid \in Clusters \cup {None}
                           /\ snap[v].cid \in Clusters \cup {None}
                           /\ speaker[v].cid \in Clusters \cup {None}
      /\ speaker \in [Voices -> Row]
  BY DEF Base, Fields, Row
<1>2. ASSUME NEW v \in Voices, HearIdentify(v) PROVE PoolInv'
  <2>1. NewVerdict(v)
    BY <1>2, HeardVerdict
  <2>2. QED
    BY <1>1, <2>1 DEF NewVerdict, rows, jobs, reid
<1>3. ASSUME NEW v \in Voices, HearRow(v) PROVE PoolInv'
  <2>1. NewRow(v)
    BY <1>3, HeardRow
  <2>2. QED
    BY <1>1, <2>1 DEF NewRow, people, jobs, reid
<1>4. ASSUME NEW v \in Voices, HearTranscript(v) \/ HearFails(v) PROVE PoolInv'
  BY <1>1, <1>4, LetGoFacts, BlankFacts DEF people, jobs, reid
<1>5. ASSUME NEW v \in Voices, Forget(v) PROVE PoolInv'
  BY <1>1, <1>5, BlankFacts DEF Forget, LetGo, people, reid
<1>6. ASSUME NEW v \in Voices, NEW p \in Profiles \cup {None}, NEW e \in BOOLEAN, Assign(v, p, e)
      PROVE  PoolInv'
  BY <1>1, <1>6 DEF Assign, work, hearing, reid
<1>7. ASSUME NEW t \in LiveTurns, NEW p \in Profiles, LiveTag(t, p) PROVE PoolInv'
  BY <1>7 DEF LiveTag, rows, work, hearing, reid
<1>8. ASSUME NEW p \in Profiles, NEW s \in Prints, Unenroll(p, s) PROVE PoolInv'
  BY <1>8 DEF Unenroll, rows, work, hearing, reid
<1>9. ASSUME NEW p \in Profiles, NEW q \in Profiles, Merge(p, q) \/ Delete(p) PROVE PoolInv'
  <2>1. PICK r \in (profiles \cup {None}) \ {p} :
           r \in Profiles \cup {None} /\ Repointed(p, r) /\ UNCHANGED <<heard, work>>
    BY <1>9, ProfileGoes
  <2>2. /\ \A v \in Voices : voice'[v].cid = voice[v].cid
        /\ \A c \in Clusters : cluster[c] # p => cluster'[c] = cluster[c]
    BY <2>1, RepointedFacts
  <2>3. QED
    BY <1>1, <2>1, <2>2 DEF work, hearing, reid
<1>10. ASSUME NEW c \in Clusters, NEW p \in Profiles, Promote(c, p) PROVE PoolInv'
  <2>1. \A v \in heard : voice'[v].cid \in {voice[v].cid, None} \ {c}
    BY <1>10, PromotedRows
  <2>2. row' = None /\ todo' = {} /\ heard' = heard /\ cluster' = [cluster EXCEPT ![c] = p]
    BY <1>10 DEF Promote, Handler, Base, Idle, work, hearing, reid
  <2>3. \A v \in Voices : speaker'[v].cid = None
    BY <1>10, NothingInHand, BlankFacts DEF Promote, Handler, work, hearing
  <2>4. QED
    BY <1>1, <2>1, <2>2, <2>3
<1>11. ASSUME NEW c \in Clusters, NEW d \in Clusters, Dismiss(c) \/ Consolidate(c, d) PROVE PoolInv'
  <2>1. PICK k \in (Clusters \cup {None}) \ {c} : Ungrouped(c, k) /\ (k # None => cluster[k] = "live")
    BY <1>11, Regrouped
  <2>2. \A v \in heard : voice'[v].cid \in {voice[v].cid, k} \ {c}
    BY <2>1, UngroupedRows
  <2>3. UNCHANGED <<heard, todo, row, snap, speaker>> /\ cluster' = [cluster EXCEPT ![c] = "free"]
    BY <2>1 DEF Ungrouped, work, hearing, reid
  <2>4. QED
    BY <1>1, <2>1, <2>2, <2>3
<1>12. ASSUME NEW b \in Windows, StartPass(b) PROVE PoolInv'
  <2>1. UNCHANGED <<cluster, heard, voice, speaker>> /\ row' = None
    BY <1>12 DEF StartPass, people, rows, Base, Idle, hearing
  <2>2. /\ todo' \subseteq heard
        /\ \A v \in todo' : snap'[v] = voice[v]
    BY <1>1, <1>12 DEF StartPass, PassReads, hearing
  <2>3. QED
    BY <1>1, <2>1, <2>2
<1>13. ASSUME NEW v \in Voices, Judge(v) PROVE PoolInv'
  BY <1>13 DEF Judge, people, rows, hearing
<1>14. CASE WriteRow
  <2>1. /\ \A v \in Voices : v # row \/ row \notin heard => voice'[v] = voice[v]
        /\ row \in heard => voice'[row].cid = NewCluster /\ Referable(verdict.pid, NewCluster) /\ row \in Voices
    BY <1>14, WrittenRow
  <2>2. UNCHANGED <<cluster, heard, todo, row, snap, speaker>>
    BY <1>14 DEF WriteRow, people, hearing
  <2>3. row \in heard /\ NewCluster # None => cluster[NewCluster] = "live"
    BY <1>1, <2>1 DEF Referable, NewCluster
  <2>4. QED
    BY <1>1, <2>1, <2>2, <2>3
<1>15. CASE WriteTranscript
  BY <1>1, <1>15 DEF WriteTranscript, people, Blank, hearing
<1>16. CASE EndPass \/ PassFails
  BY <1>16 DEF EndPass, PassFails, PassOver, people, rows, hearing
<1>17. CASE NextWindow \/ UNCHANGED vars
  BY <1>17 DEF NextWindow, vars, people, rows, work, hearing, reid
<1>18. QED
  BY Steps, <1>2, <1>3, <1>4, <1>5, <1>6, <1>7, <1>8, <1>9, <1>10, <1>11, <1>12, <1>13, <1>14, <1>15, <1>16, <1>17

\* Every voice in the pool of the unnamed is in a cluster the list of the unnamed shows, as
\* long as no cluster is promoted during a pass or while the pipeline has a voice in hand.
THEOREM PoolsAreListed ==
    ASSUME "promote" \notin MayOverlap \cup MayInterrupt
    PROVE  OverlapSpec => []PoolIsListed
<1>1. Init => PoolInv
  BY SpeakersConstants DEF Init, PoolInv, PoolIsListed, AtHand, Blank
<1>2. Base /\ PoolInv /\ [Next \/ PassFails]_vars => PoolInv'
  BY PoolStep
<1>3. PoolInv => PoolIsListed
  BY DEF PoolInv
<1>4. QED
  BY <1>1, <1>2, <1>3, BaseInvariant, PTL DEF OverlapSpec

-----------------------------------------------------------------------------
(* A pass, and the pipeline, write the row first; a pass writes the        *)
(* transcript only if the verdict is new: nothing else may write the row   *)
(* or the transcript in between.                                           *)

\* Until a pass has written a row, row and transcript say what it read; in between, the row
\* says what it judged and the transcript what it read.  A row the pipeline has inserted says
\* what its transcript is going to say, and no pass has read it.
TranscriptInv ==
    /\ TranscriptAgrees
    /\ \A v \in Voices : AtHand(v) => v \in heard /\ utt[v] = snap[v].pid
    /\ \A v \in Voices : v \in todo \/ (row = v /\ ~written) => voice[v].pid = snap[v].pid
    /\ row # None => row \notin todo /\ (written => voice[row].pid = verdict.pid)
    /\ \A v \in Voices : AtHand(v) => stage[v] = "none"
    /\ \A v \in Voices : stage[v] = "inserted" => voice[v].pid = speaker[v].pid

\* Each step keeps it so.
LEMMA TranscriptStep ==
    ASSUME MayOverlap \cap {"assign", "promote", "merge", "delete", "forget"} = {},
           MayInterrupt \cap {"assign", "promote", "merge", "delete", "pass"} = {},
           Base, TranscriptInv, [Next \/ PassFails]_vars
    PROVE  TranscriptInv'
<1> USE SpeakersConstants DEF TranscriptInv, TranscriptAgrees, AtHand
<1>1. /\ heard \subseteq Voices /\ voice \in [Voices -> Row] /\ snap \in [Voices -> Row]
      /\ utt \in [Voices -> Profiles \cup {None}] /\ todo \subseteq Voices /\ row \in Voices \cup {None}
      /\ speaker \in [Voices -> Row] /\ stage \in [Voices -> Stages]
      /\ \A v \in Voices : stage[v] = "inserted" => v \in heard
      /\ (row = None => ~written) /\ (pass = None => row = None /\ todo = {})
  BY DEF Base, Fields, Idle, Staged
<1>2. ASSUME NEW v \in Voices, HearIdentify(v) PROVE TranscriptInv'
  <2>1. NewVerdict(v)
    BY <1>2, HeardVerdict
  <2>2. QED
    BY <1>1, <2>1 DEF NewVerdict, rows, jobs, reid
<1>3. ASSUME NEW v \in Voices, HearRow(v) PROVE TranscriptInv'
  <2>1. NewRow(v)
    BY <1>3, HeardRow
  <2>2. QED
    BY <1>1, <2>1 DEF NewRow, people, jobs, reid
<1>4. ASSUME NEW v \in Voices, HearTranscript(v) \/ HearFails(v) PROVE TranscriptInv'
  BY <1>1, <1>4, LetGoFacts, BlankFacts DEF people, jobs, reid
<1>5. ASSUME NEW v \in Voices, Forget(v) PROVE TranscriptInv'
  <2>1. row = None /\ todo = {}
    BY <1>1, <1>5 DEF Forget, Handler
  <2>2. QED
    BY <1>1, <1>5, <2>1 DEF Forget, LetGo, reid
<1>6. ASSUME NEW v \in Voices, NEW p \in Profiles \cup {None}, NEW e \in BOOLEAN, Assign(v, p, e)
      PROVE  TranscriptInv'
  <2>1. row = None /\ todo = {} /\ \A u \in Voices : stage[u] = "none"
    BY <1>1, <1>6, NothingInHand DEF Assign, Handler
  <2>2. QED
    BY <1>1, <1>6, <2>1 DEF Assign, work, hearing, reid
<1>7. ASSUME NEW t \in LiveTurns, NEW p \in Profiles, LiveTag(t, p) PROVE TranscriptInv'
  BY <1>7 DEF LiveTag, rows, work, hearing, reid
<1>8. ASSUME NEW p \in Profiles, NEW s \in Prints, Unenroll(p, s) PROVE TranscriptInv'
  BY <1>8 DEF Unenroll, rows, work, hearing, reid
<1>9. ASSUME NEW p \in Profiles, NEW q \in Profiles, Merge(p, q) \/ Delete(p) PROVE TranscriptInv'
  <2>1. PICK r \in (profiles \cup {None}) \ {p} :
           /\ r \in Profiles \cup {None} /\ Repointed(p, r) /\ UNCHANGED <<heard, work>>
           /\ row = None /\ todo = {} /\ \A u \in Voices : stage[u] = "none"
    <3>1. PICK r \in (profiles \cup {None}) \ {p} :
             /\ r \in Profiles \cup {None} /\ Repointed(p, r) /\ UNCHANGED <<heard, work>>
             /\ pass = None /\ InHand = {}
      BY <1>9, ProfileGoes
    <3>2. row = None /\ todo = {} /\ \A u \in Voices : stage[u] = "none"
      BY <1>1, <3>1, NothingInHand
    <3>3. QED
      BY <3>1, <3>2
  <2>2. \A v \in Voices :
           /\ voice'[v].pid = (IF v \in heard /\ voice[v].pid = p THEN r ELSE voice[v].pid)
           /\ utt'[v] = (IF utt[v] = p THEN r ELSE utt[v])
    BY <2>1, RepointedFacts
  <2>3. QED
    BY <1>1, <2>1, <2>2 DEF work, hearing, reid
<1>10. ASSUME NEW c \in Clusters, NEW p \in Profiles, Promote(c, p) PROVE TranscriptInv'
  <2>1. \A v \in Voices : /\ v \in Members(c) => voice'[v].pid = p
                          /\ v \notin Members(c) => voice'[v] = voice[v]
    BY <1>10, PromotedRows
  <2>2. /\ row = None /\ todo = {} /\ UNCHANGED <<heard, work>> /\ \A u \in Voices : stage[u] = "none"
        /\ utt' = [v \in Voices |-> IF v \in Members(c) THEN p ELSE utt[v]]
    BY <1>1, <1>10, NothingInHand DEF Promote, Handler
  <2>3. QED
    BY <1>1, <2>1, <2>2 DEF work, hearing, reid
<1>11. ASSUME NEW c \in Clusters, NEW d \in Clusters, Dismiss(c) \/ Consolidate(c, d) PROVE TranscriptInv'
  <2>1. PICK k \in (Clusters \cup {None}) \ {c} : Ungrouped(c, k)
    BY <1>11, Regrouped
  <2>2. \A v \in Voices : voice'[v].pid = voice[v].pid
    BY <2>1, UngroupedRows
  <2>3. QED
    BY <1>1, <2>1, <2>2 DEF Ungrouped, work, hearing, reid
<1>12. ASSUME NEW b \in Windows, StartPass(b) PROVE TranscriptInv'
  <2>1. /\ UNCHANGED <<heard, voice, utt, row, written, stage, speaker>> /\ row = None
        /\ \A u \in Voices : stage[u] = "none"
    BY <1>1, <1>12, NothingInHand DEF StartPass, rows, hearing
  <2>2. todo' \subseteq heard /\ \A v \in todo' : snap'[v] = voice[v]
    BY <1>1, <1>12 DEF StartPass, PassReads, hearing
  <2>3. QED
    BY <1>1, <2>1, <2>2
<1>13. ASSUME NEW v \in Voices, Judge(v) PROVE TranscriptInv'
  BY <1>1, <1>13 DEF Judge, rows, hearing
<1>14. CASE WriteRow
  <2>1. /\ \A v \in Voices : v # row \/ row \notin heard => voice'[v] = voice[v]
        /\ row \in heard => voice'[row].pid = verdict.pid
        /\ row \in Voices /\ stage[row] = "none"
    BY <1>1, <1>14, WrittenRow
  <2>2. UNCHANGED <<heard, utt, todo, row, snap, verdict, stage, speaker>> /\ ~written /\ written'
    BY <1>14 DEF WriteRow, hearing
  <2>3. QED
    BY <1>1, <2>1, <2>2
<1>15. CASE WriteTranscript
  <2>1. /\ row \in heard /\ row \notin todo
        /\ utt[row] = snap[row].pid /\ voice[row].pid = verdict.pid
    BY <1>1, <1>15 DEF WriteTranscript, hearing
  <2>2. utt'[row] = voice[row].pid /\ \A v \in Voices \ {row} : utt'[v] = utt[v] /\ snap'[v] = snap[v]
    BY <1>1, <1>15, <2>1 DEF WriteTranscript, hearing
  <2>3. UNCHANGED <<heard, voice, todo, stage, speaker>> /\ row' = None /\ ~written'
    BY <1>15 DEF WriteTranscript, hearing
  <2>4. QED
    BY <1>1, <2>1, <2>2, <2>3
<1>16. CASE EndPass \/ PassFails
  <2>1. UNCHANGED <<rows, stage, speaker>> /\ row' = None /\ todo' = {} /\ ~written
    BY <1>1, <1>16 DEF EndPass, PassFails, PassOver, hearing
  <2>2. QED
    BY <1>1, <2>1 DEF rows
<1>17. CASE NextWindow \/ UNCHANGED vars
  BY <1>17 DEF NextWindow, vars, rows, work, hearing, reid
<1>18. QED
  BY Steps, <1>2, <1>3, <1>4, <1>5, <1>6, <1>7, <1>8, <1>9, <1>10, <1>11, <1>12, <1>13, <1>14, <1>15, <1>16, <1>17

\* The transcript names who the clip's speakers say, whatever enrolments come and go and
\* whatever clusters are tidied up during a pass, as long as no voice is named, repointed,
\* promoted or forgotten during one; and as long as no voice is named, repointed or promoted,
\* and no pass begins, while the pipeline has one in hand.
THEOREM TranscriptsAgree ==
    ASSUME MayOverlap \cap {"assign", "promote", "merge", "delete", "forget"} = {},
           MayInterrupt \cap {"assign", "promote", "merge", "delete", "pass"} = {}
    PROVE  OverlapSpec => []TranscriptAgrees
<1>1. Init => TranscriptInv
  BY SpeakersConstants DEF Init, TranscriptInv, TranscriptAgrees, AtHand
<1>2. Base /\ TranscriptInv /\ [Next \/ PassFails]_vars => TranscriptInv'
  BY TranscriptStep
<1>3. TranscriptInv => TranscriptAgrees
  BY DEF TranscriptInv
<1>4. QED
  BY <1>1, <1>2, <1>3, BaseInvariant, PTL DEF OverlapSpec

-----------------------------------------------------------------------------
(* Clusters may not be tidied up during a pass: the row that refers to one *)
(* fails the job, which is not tried again.  And a pass does not see the   *)
(* row of a voice that is still in the pipeline's hand.                    *)

\* The voice's row says what the enrolments of today say.
Attributed(v) == [pid |-> voice[v].pid, result |-> voice[v].result] = IdentifyBy(v, enrolled)

\* With no pass to come, every voice is attributed or at hand, the verdicts in hand are today's,
\* and no row that a pass is still to write refers to what is gone.
FreshInv ==
    queued = {} =>
        /\ \A v \in heard : ~voice[v].manual => Attributed(v) \/ v \in todo \/ (row = v /\ ~written)
        /\ row # None /\ ~written => verdict = IdentifyBy(row, enrolled)
        /\ verdict.pid \in profiles \cup {None}
        /\ \A v \in Voices : AtHand(v) /\ snap[v].cid # None => cluster[snap[v].cid] # "free"
        /\ \A v \in Voices : stage[v] = "identified" =>
              [pid |-> speaker[v].pid, result |-> speaker[v].result] = IdentifyBy(v, enrolled)

\* Each step keeps it so.
LEMMA FreshStep ==
    ASSUME MayOverlap \cap {"dismiss", "consolidate"} = {}, "pass" \notin MayInterrupt,
           Base, FreshInv, [Next \/ PassFails]_vars
    PROVE  FreshInv'
<1> USE SpeakersConstants DEF FreshInv, Attributed, AtHand
<1> SUFFICES ASSUME queued' = {} PROVE FreshInv'
  OBVIOUS
<1>1. /\ heard \subseteq Voices /\ voice \in [Voices -> Row] /\ snap \in [Voices -> Row]
      /\ cluster \in [Clusters -> {"free", "live"} \cup Profiles]
      /\ speaker \in [Voices -> Row] /\ stage \in [Voices -> Stages]
      /\ todo \subseteq Voices /\ row \in Voices \cup {None} /\ verdict \in Verdicts
      /\ (row = None => ~written /\ verdict = Unknown) /\ (pass = None => row = None /\ todo = {})
      /\ \A v \in Voices : snap[v].cid \in Clusters \cup {None}
      /\ \A v \in heard : voice[v].cid # None => cluster[voice[v].cid] # "free"
  BY DEF Base, Fields, Idle, Rooted, Row
<1>2. ASSUME NEW v \in Voices, HearIdentify(v) PROVE FreshInv'
  <2>1. NewVerdict(v)
    BY <1>2, HeardVerdict
  <2>2. UNCHANGED <<heard, voice, queued, todo, row, snap, written, verdict, profiles, enrolled>>
    BY <2>1 DEF NewVerdict, rows, jobs, reid
  <2>3. Identify(v) = IdentifyBy(v, enrolled)
    BY IdentifyNames
  <2>4. \A u \in Voices : stage'[u] = "identified" =>
           [pid |-> speaker'[u].pid, result |-> speaker'[u].result] = IdentifyBy(u, enrolled')
    BY <1>1, <2>1, <2>2, <2>3 DEF NewVerdict
  <2>5. \A u \in Voices : AtHand(u)' /\ snap'[u].cid # None => cluster'[snap'[u].cid] # "free"
    BY <1>1, <2>1, <2>2 DEF NewVerdict
  <2>6. QED
    BY <1>1, <2>2, <2>4, <2>5
<1>3. ASSUME NEW v \in Voices, HearRow(v) PROVE FreshInv'
  <2>1. NewRow(v)
    BY <1>3, HeardRow
  <2>2. /\ UNCHANGED <<queued, cluster, todo, row, snap, written, verdict, profiles, enrolled, speaker>>
        /\ voice'[v] = speaker[v] /\ \A u \in Voices \ {v} : voice'[u] = voice[u]
    BY <1>1, <2>1 DEF NewRow, people, jobs, reid
  <2>3. Attributed(v)'
    BY <2>1, <2>2 DEF NewRow
  <2>4. QED
    BY <1>1, <2>1, <2>2, <2>3 DEF NewRow
<1>4. ASSUME NEW v \in Voices, HearTranscript(v) \/ HearFails(v) PROVE FreshInv'
  BY <1>1, <1>4, LetGoFacts, BlankFacts DEF people, jobs, reid
<1>5. ASSUME NEW v \in Voices, Forget(v) PROVE FreshInv'
  BY <1>1, <1>5 DEF Forget, LetGo, people, reid, jobs
<1>6. ASSUME AskForPass PROVE FALSE
  BY <1>6, AskingQueues
<1>7. ASSUME NEW c \in Clusters, NEW d \in Clusters, Dismiss(c) \/ Consolidate(c, d) PROVE FreshInv'
  <2>1. PICK k \in (Clusters \cup {None}) \ {c} : Ungrouped(c, k) /\ pass = None
    BY <1>7, Regrouped
  <2>2. \A v \in Voices : /\ voice'[v].pid = voice[v].pid /\ voice'[v].result = voice[v].result
                          /\ voice'[v].manual = voice[v].manual
    BY <2>1, UngroupedRows
  <2>3. QED
    BY <1>1, <2>1, <2>2 DEF Ungrouped, work, hearing, reid, jobs
<1>8. ASSUME NEW b \in Windows, StartPass(b) PROVE FreshInv'
  <2>1. UNCHANGED <<profiles, enrolled, cluster, heard, voice, row, written, verdict, stage>>
        /\ row = None /\ \A v \in Voices : stage[v] = "none"
    BY <1>1, <1>8, NothingInHand DEF StartPass, people, rows, hearing
  <2>2. todo' = {v \in heard : ~voice[v].manual} /\ \A v \in todo' : snap'[v] = voice[v]
    BY <1>1, <1>8 DEF StartPass, PassReads, hearing
  <2>3. QED
    BY <1>1, <2>1, <2>2 DEF Unknown
<1>9. ASSUME NEW v \in Voices, Judge(v) PROVE FreshInv'
  BY <1>1, <1>9, IdentifyNames DEF Judge, people, rows, jobs, hearing
<1>10. CASE WriteRow
  <2>1. /\ \A v \in Voices : v # row \/ row \notin heard => voice'[v] = voice[v]
        /\ row \in heard => voice'[row].pid = verdict.pid /\ voice'[row].result = verdict.result
        /\ row \in Voices /\ \A v \in Voices : voice'[v].manual = voice[v].manual
    BY <1>10, WrittenRow
  <2>2. /\ UNCHANGED <<profiles, enrolled, cluster, heard, queued, todo, row, snap, verdict, hearing>>
        /\ ~written /\ written'
    BY <1>10 DEF WriteRow, people, jobs, hearing
  <2>3. [pid |-> verdict.pid, result |-> verdict.result] = verdict
    BY <1>1 DEF Verdicts
  <2>4. row \in heard => Attributed(row)'
    BY <1>1, <2>1, <2>2, <2>3
  <2>5. QED
    BY <1>1, <2>1, <2>2, <2>4 DEF hearing
<1>11. CASE WriteTranscript
  <2>1. UNCHANGED <<profiles, enrolled, cluster, heard, voice, queued, todo, hearing>> /\ row' = None /\ written
    BY <1>11 DEF WriteTranscript, people, jobs, hearing
  <2>2. verdict' = Unknown /\ \A v \in Voices : snap'[v] = snap[v] \/ snap'[v].cid = None
    BY <1>1, <1>11 DEF WriteTranscript, Blank, hearing
  <2>3. QED
    BY <1>1, <2>1, <2>2 DEF Unknown, hearing
<1>12. CASE EndPass
  BY <1>1, <1>12 DEF EndPass, PassOver, people, rows, Unknown, hearing
<1>13. CASE PassFails
  <2>1. row \in Voices /\ ~Referable(verdict.pid, NewCluster) /\ queued = {}
    BY <1>1, <1>13 DEF PassFails, PassOver, hearing
  <2>2. NewCluster # None => NewCluster = snap[row].cid
    BY DEF NewCluster
  <2>3. QED
    BY <2>1, <2>2 DEF Referable
<1>14. CASE NextWindow \/ UNCHANGED vars
  BY <1>14 DEF NextWindow, vars, people, rows, jobs, work, hearing, reid
<1>15. QED
  BY Steps, <1>2, <1>3, <1>4, <1>5, <1>6, <1>7, <1>8, <1>9, <1>10, <1>11, <1>12, <1>13, <1>14
     DEF Assign, LiveTag, Unenroll, Merge, Delete, Promote

\* Naming a voice once names it everywhere: when no pass is queued or under way, every voice no
\* person has set is attributed as the enrolments say, whatever was named, removed, merged,
\* promoted or deleted, in whatever windows, during whatever passes and while the pipeline has
\* whatever voices in hand, as long as no cluster is dismissed or consolidated during a pass
\* and no pass begins while the pipeline has a voice in hand.
THEOREM EverybodyIsIdentified ==
    ASSUME MayOverlap \cap {"dismiss", "consolidate"} = {}, "pass" \notin MayInterrupt
    PROVE  OverlapSpec => []IdentifiedEverywhere
<1>1. Init => FreshInv
  BY SpeakersConstants DEF Init, FreshInv, AtHand, Unknown
<1>2. Base /\ FreshInv /\ [Next \/ PassFails]_vars => FreshInv'
  BY FreshStep
<1>3. Base /\ FreshInv => IdentifiedEverywhere
  BY SpeakersConstants DEF Base, Fields, Idle, FreshInv, Attributed, IdentifiedEverywhere
<1>4. QED
  BY <1>1, <1>2, <1>3, BaseInvariant, PTL DEF OverlapSpec
=============================================================================
