------------------------------- MODULE Speakers -------------------------------
(***************************************************************************)
(* Who speaks: the voices of the processed clips, the profiles they are    *)
(* attributed to and the clusters of those nobody has named.               *)
(*                                                                         *)
(* A person's handlers write several tables and end in a request for a     *)
(* re-identification pass, coalesced into windows as graph rebuilds are.   *)
(* A pass takes a snapshot of the voices no person has set, and judges and *)
(* writes one after the other.  The pipeline judges a new voice in one     *)
(* stage, and writes its row and then its transcript in the next.  A       *)
(* handler is one step here; which handlers may come between two steps of  *)
(* a pass, and of the pipeline, is a parameter.                            *)
(***************************************************************************)
EXTENDS Integers, FiniteSets

CONSTANTS
    Voices,      \* (clip_id, local_label): a voice of a clip, with an embedding
    LiveTurns,   \* turns of a live session, whose voiceprint can be enrolled
    Profiles,    \* ids of speaker_profiles
    Clusters,    \* ids of speaker_clusters
    Sound,       \* what each voiceprint sounds like
    Fair,        \* the voices heard well enough to be judged, pooled and enrolled
    Windows,     \* names of reidentify windows; one nobody refers to is used again
    None,
    MayOverlap,  \* the handlers that may run while a pass is under way
    MayInterrupt \* what may run, or if "pass" begin, while the pipeline has a voice in hand

Handlers == {"assign", "livetag", "unenroll", "merge", "delete", "promote", "dismiss",
             "consolidate", "forget"}
Prints == Voices \cup LiveTurns

ASSUME SpeakersConstants ==
    /\ DOMAIN Sound = Prints
    /\ Fair \subseteq Voices
    /\ MayOverlap \subseteq Handlers /\ MayInterrupt \subseteq Handlers \cup {"pass"}
    /\ None \notin Profiles \cup Clusters \cup Windows \cup Voices
    /\ Profiles \cap {"free", "live"} = {}

VARIABLES
    profiles,   \* the profiles that exist
    enrolled,   \* speaker_enrollments of each profile, by voiceprint
    centroid,   \* the enrolments each profile's stored centroid was computed from
    cluster,    \* "free", "live" or the profile promoted_to
    gist,       \* what the centroid of each cluster sounds like
    heard,      \* voices with a clip_speakers row
    voice,      \* that row: profile_id, cluster_id, match_result, is_manual
    utt,        \* utterances.profile_id of the voice's turns
    decided,    \* history: what a person last decided of a voice set by hand
    stage,      \* of a voice the pipeline has in hand: "identified", then "inserted"
    speaker,    \* what its ctx.speakers say of that voice, as a row
    queued, kept, now,   \* reidentify job ids: queued; with a kept result; of the present window
    pass,       \* the id of the pass under way
    todo,       \* its voices still to judge
    snap,       \* the rows it read
    row,        \* the voice it is at
    verdict,    \* what identify said of it
    written     \* its clip_speakers row is written, its utterances are not

people == <<profiles, enrolled, centroid, cluster, gist>>
rows == <<heard, voice, utt, decided>>
jobs == <<queued, kept, now>>
hearing == <<stage, speaker>>
reid == <<pass, todo, snap, row, verdict, written>>
work == <<hearing, reid>>
vars == <<people, rows, jobs, work>>

Results == {"confident", "suggested", "unknown"}
Row == [pid : Profiles \cup {None}, cid : Clusters \cup {None}, result : Results, manual : BOOLEAN]
Blank == [pid |-> None, cid |-> None, result |-> "unknown", manual |-> FALSE]
Stages == {"none", "identified", "inserted"}
Verdicts == [pid : Profiles \cup {None}, result : Results]
Unknown == [pid |-> None, result |-> "unknown"]

\* References point to what exists, those of utterances too, which have no foreign key.
TypeOK ==
    /\ profiles \subseteq Profiles
    /\ enrolled \in [Profiles -> SUBSET Prints] /\ centroid \in [Profiles -> SUBSET Prints]
    /\ \A p \in Profiles \ profiles : enrolled[p] = {} /\ centroid[p] = {}
    /\ \A c \in Clusters : cluster[c] \in {"free", "live"} \cup profiles
    /\ heard \subseteq Voices /\ voice \in [Voices -> Row]
    /\ \A v \in heard : voice[v].pid \in profiles \cup {None} /\ utt[v] \in profiles \cup {None}
    /\ \A v \in heard : voice[v].cid # None => cluster[voice[v].cid] # "free"
    /\ stage \in [Voices -> Stages] /\ speaker \in [Voices -> Row]
    /\ queued \subseteq Windows /\ kept \subseteq Windows /\ now \in Windows
    /\ pass \in Windows \cup {None} /\ todo \subseteq Voices /\ row \in Voices \cup {None}
    /\ verdict \in Verdicts /\ written \in BOOLEAN

Init ==
    /\ profiles = {} /\ enrolled = [p \in Profiles |-> {}] /\ centroid = enrolled
    /\ cluster = [c \in Clusters |-> "free"] /\ gist = [c \in Clusters |-> None]
    /\ heard = {} /\ voice = [v \in Voices |-> Blank]
    /\ utt = [v \in Voices |-> None] /\ decided = utt
    /\ stage = [v \in Voices |-> "none"] /\ speaker = voice
    /\ queued = {} /\ kept = {} /\ now \in Windows
    /\ pass = None /\ todo = {} /\ snap = voice /\ row = None /\ verdict = Unknown
    /\ written = FALSE

-----------------------------------------------------------------------------
(* identify() and what the handlers share.                                 *)

\* A centroid of one sound is a clear match of that sound, a mixed one a weak match of each.
Clear(p, v, C) == C[p] # {} /\ \A s \in C[p] : Sound[s] = Sound[v]
Weak(p, v, C) == \E s \in C[p] : Sound[s] = Sound[v]

\* Confident: clear, with no second profile as close, of a voice heard well enough.
IdentifyBy(v, C) ==
    LET clear == {p \in Profiles : Clear(p, v, C)}
        weak == {p \in Profiles : Weak(p, v, C)}
    IN  IF weak = {} THEN Unknown
        ELSE IF clear = {} THEN [pid |-> CHOOSE p \in weak : TRUE, result |-> "suggested"]
        ELSE [pid |-> CHOOSE p \in clear : TRUE,
              result |-> IF Cardinality(clear) = 1 /\ v \in Fair THEN "confident" ELSE "suggested"]

Identify(v) == IdentifyBy(v, centroid)

\* arq drops an id it has queued, running, or the result of.
AskForPass ==
    /\ queued' = IF now \in kept \cup {pass} THEN queued ELSE queued \cup {now}
    /\ UNCHANGED <<kept, now>>

\* Rows in somebody's memory.  An id they hold is not given again.
Held == {speaker[v] : v \in Voices} \cup {snap[v] : v \in Voices}

\* A profile somebody names: one that exists, or a new one.
Named(p) ==
    /\ p \in profiles \/ p \notin {verdict.pid} \cup {r.pid : r \in Held}
    /\ profiles' = profiles \cup {p}

\* add_enrollment, then recompute_centroid.
Enroll(p, prints) ==
    /\ enrolled' = [enrolled EXCEPT ![p] = @ \cup prints]
    /\ centroid' = [centroid EXCEPT ![p] = enrolled'[p]]

Members(c) == {v \in heard : voice[v].cid = c}
WhoseProfile(p) == {v \in heard : voice[v].pid = p}

\* The voices a clip's job is between identifying and having written.
InHand == {v \in Voices : stage[v] # "none"}

Handler(h) ==
    /\ pass = None \/ h \in MayOverlap
    /\ InHand = {} \/ h \in MayInterrupt

\* The foreign keys of clip_speakers: the profile and the cluster still exist.
Referable(p, c) == p \in profiles \cup {None} /\ (c # None => cluster[c] # "free")

-----------------------------------------------------------------------------
(* The pipeline: identify and postprocess of a clip, with auto_enroll off. *)

\* assign_cluster: the nearest unnamed cluster that is near enough, or a new one.
PooledIn(v, c) ==
    LET near == {k \in Clusters : cluster[k] = "live" /\ gist[k] = Sound[v]}
    IN  IF near # {}
        THEN c \in near /\ UNCHANGED <<cluster, gist>>
        ELSE /\ cluster[c] = "free" /\ c \notin {r.cid : r \in Held}
             /\ cluster' = [cluster EXCEPT ![c] = "live"]
             /\ gist' = [gist EXCEPT ![c] = Sound[v]]

\* IDENTIFYING: the verdict, and the cluster of a voice nobody knows, stay in memory.
HearIdentify(v) ==
    /\ v \notin heard /\ stage[v] = "none"
    /\ stage' = [stage EXCEPT ![v] = "identified"]
    /\ LET m == Identify(v)
           Become(c) == speaker' = [speaker EXCEPT ![v] =
                            [pid |-> m.pid, cid |-> c, result |-> m.result, manual |-> FALSE]]
       IN  IF m.result = "unknown" /\ v \in Fair
           THEN \E c \in Clusters : PooledIn(v, c) /\ Become(c)
           ELSE Become(None) /\ UNCHANGED <<cluster, gist>>
    /\ UNCHANGED <<profiles, enrolled, centroid, rows, jobs, reid>>

\* POSTPROCESSING: INSERT INTO clip_speakers.
HearRow(v) ==
    /\ stage[v] = "identified" /\ stage' = [stage EXCEPT ![v] = "inserted"]
    /\ Referable(speaker[v].pid, speaker[v].cid)
    /\ heard' = heard \cup {v}
    /\ voice' = [voice EXCEPT ![v] = speaker[v]]
    /\ UNCHANGED <<people, utt, decided, speaker, jobs, reid>>

\* The voice is in nobody's hand any more.
LetGo(v) == stage' = [stage EXCEPT ![v] = "none"] /\ speaker' = [speaker EXCEPT ![v] = Blank]

\* POSTPROCESSING: UPDATE utterances.
HearTranscript(v) ==
    /\ stage[v] = "inserted" /\ LetGo(v)
    /\ utt' = [utt EXCEPT ![v] = speaker[v].pid]
    /\ UNCHANGED <<people, heard, voice, decided, jobs, reid>>

\* A foreign key fails the INSERT, and with it the clip.
HearFails(v) ==
    /\ stage[v] = "identified" /\ ~Referable(speaker[v].pid, speaker[v].cid) /\ LetGo(v)
    /\ UNCHANGED <<people, rows, jobs, reid>>

\* A clip is deleted, or its reprocessing clears what it derived; enrolments stay.  Of a clip
\* deleted under its job nothing more is written: its rows are gone, new ones have no clip.
Forget(v) ==
    /\ Handler("forget")
    /\ v \in heard \cup InHand /\ heard' = heard \ {v} /\ LetGo(v)
    /\ voice' = [voice EXCEPT ![v] = Blank]
    /\ utt' = [utt EXCEPT ![v] = None] /\ decided' = [decided EXCEPT ![v] = None]
    /\ UNCHANGED <<people, jobs, reid>>

-----------------------------------------------------------------------------
(* What a person does.                                                     *)

\* speaker_ops.assign, from the clip page or from a claim: to a profile, or to nobody.
Assign(v, p, enroll) ==
    /\ Handler("assign") /\ v \in heard
    /\ voice' = [voice EXCEPT ![v] =
           [pid |-> p, cid |-> IF p = None THEN @.cid ELSE None, result |-> "confident",
            manual |-> TRUE]]
    /\ utt' = [utt EXCEPT ![v] = p]
    /\ decided' = [decided EXCEPT ![v] = p]
    /\ IF p = None THEN UNCHANGED profiles ELSE Named(p)
    /\ IF enroll /\ p # None /\ v \in Fair
       THEN Enroll(p, {v}) ELSE UNCHANGED <<enrolled, centroid>>
    /\ AskForPass
    /\ UNCHANGED <<cluster, gist, heard, work>>

\* A live turn is named: there is no clip to attribute, only a voiceprint to enrol.
LiveTag(t, p) ==
    /\ Handler("livetag")
    /\ Named(p) /\ Enroll(p, {t})
    /\ AskForPass
    /\ UNCHANGED <<cluster, gist, rows, work>>

\* A plausible mistake: an enrolment goes and nobody looks at the voices again.
UnenrollSilently(p, s) ==
    /\ Handler("unenroll")
    /\ s \in enrolled[p]
    /\ enrolled' = [enrolled EXCEPT ![p] = @ \ {s}]
    /\ centroid' = [centroid EXCEPT ![p] = enrolled'[p]]
    /\ UNCHANGED <<profiles, cluster, gist, rows, jobs, work>>

Unenroll(p, s) ==
    /\ Handler("unenroll")
    /\ s \in enrolled[p]
    /\ enrolled' = [enrolled EXCEPT ![p] = @ \ {s}]
    /\ centroid' = [centroid EXCEPT ![p] = enrolled'[p]]
    /\ AskForPass
    /\ UNCHANGED <<profiles, cluster, gist, rows, work>>

\* Everything said of one profile is said of another, or of nobody.
Repointed(p, q) ==
    /\ voice' = [v \in Voices |-> IF v \in WhoseProfile(p) THEN [voice[v] EXCEPT !.pid = q] ELSE voice[v]]
    /\ utt' = [v \in Voices |-> IF utt[v] = p THEN q ELSE utt[v]]
    /\ decided' = [v \in Voices |-> IF decided[v] = p THEN q ELSE decided[v]]
    /\ cluster' = [c \in Clusters |->
                      IF cluster[c] # p THEN cluster[c] ELSE IF q = None THEN "live" ELSE q]

\* A plausible mistake: the transcripts keep the profile that goes; no foreign key minds.
MergeKeepsTranscripts(p, q) ==
    /\ Handler("merge") /\ p # q /\ p \in profiles /\ q \in profiles
    /\ voice' = [v \in Voices |-> IF v \in WhoseProfile(p) THEN [voice[v] EXCEPT !.pid = q] ELSE voice[v]]
    /\ decided' = [v \in Voices |-> IF decided[v] = p THEN q ELSE decided[v]]
    /\ cluster' = [c \in Clusters |-> IF cluster[c] = p THEN q ELSE cluster[c]]
    /\ profiles' = profiles \ {p}
    /\ enrolled' = [enrolled EXCEPT ![p] = {}, ![q] = @ \cup enrolled[p]]
    /\ centroid' = [centroid EXCEPT ![p] = {}, ![q] = enrolled'[q]]
    /\ AskForPass
    /\ UNCHANGED <<gist, heard, utt, work>>

\* merge_profiles, from the merge dialog or from a deletion that reassigns.
Merge(p, q) ==
    /\ Handler("merge") /\ p # q /\ p \in profiles /\ q \in profiles
    /\ Repointed(p, q)
    /\ profiles' = profiles \ {p}
    /\ enrolled' = [enrolled EXCEPT ![p] = {}, ![q] = @ \cup enrolled[p]]
    /\ centroid' = [centroid EXCEPT ![p] = {}, ![q] = enrolled'[q]]
    /\ AskForPass
    /\ UNCHANGED <<gist, heard, work>>

Delete(p) ==
    /\ Handler("delete") /\ p \in profiles
    /\ Repointed(p, None)
    /\ profiles' = profiles \ {p}
    /\ enrolled' = [enrolled EXCEPT ![p] = {}] /\ centroid' = [centroid EXCEPT ![p] = {}]
    /\ AskForPass
    /\ UNCHANGED <<gist, heard, work>>

\* A past mistake: clip_speakers is cleared first, and the transcripts, which are found
\* through it, keep saying nobody.
PromoteClearsFirst(c, p) ==
    /\ Handler("promote") /\ cluster[c] = "live"
    /\ Named(p) /\ Enroll(p, Members(c) \cap Fair)
    /\ voice' = [v \in Voices |->
                    IF v \in Members(c) THEN [voice[v] EXCEPT !.pid = p, !.cid = None] ELSE voice[v]]
    /\ decided' = [v \in Voices |-> IF v \in Members(c) /\ voice[v].manual THEN p ELSE decided[v]]
    /\ cluster' = [cluster EXCEPT ![c] = p]
    /\ AskForPass
    /\ UNCHANGED <<utt, gist, heard, work>>

\* A plausible mistake: the voices are named and stay in the pool.
PromoteKeepsPool(c, p) ==
    /\ Handler("promote") /\ cluster[c] = "live"
    /\ Named(p) /\ Enroll(p, Members(c) \cap Fair)
    /\ utt' = [v \in Voices |-> IF v \in Members(c) THEN p ELSE utt[v]]
    /\ voice' = [v \in Voices |-> IF v \in Members(c) THEN [voice[v] EXCEPT !.pid = p] ELSE voice[v]]
    /\ decided' = [v \in Voices |-> IF v \in Members(c) /\ voice[v].manual THEN p ELSE decided[v]]
    /\ cluster' = [cluster EXCEPT ![c] = p]
    /\ AskForPass
    /\ UNCHANGED <<gist, heard, work>>

\* promote_cluster: the members that were heard well are enrolled, all of them are named.
Promote(c, p) ==
    /\ Handler("promote") /\ cluster[c] = "live"
    /\ Named(p) /\ Enroll(p, Members(c) \cap Fair)
    /\ utt' = [v \in Voices |-> IF v \in Members(c) THEN p ELSE utt[v]]
    /\ voice' = [v \in Voices |->
                    IF v \in Members(c) THEN [voice[v] EXCEPT !.pid = p, !.cid = None] ELSE voice[v]]
    /\ decided' = [v \in Voices |-> IF v \in Members(c) /\ voice[v].manual THEN p ELSE decided[v]]
    /\ cluster' = [cluster EXCEPT ![c] = p]
    /\ AskForPass
    /\ UNCHANGED <<gist, heard, work>>

\* The voices of a cluster stop being grouped; no pass is asked for.
Ungrouped(c, d) ==
    /\ voice' = [v \in Voices |-> IF v \in Members(c) THEN [voice[v] EXCEPT !.cid = d] ELSE voice[v]]
    /\ cluster' = [cluster EXCEPT ![c] = "free"] /\ gist' = [gist EXCEPT ![c] = None]
    /\ UNCHANGED <<profiles, enrolled, centroid, heard, utt, decided, jobs, work>>

Dismiss(c) == Handler("dismiss") /\ cluster[c] # "free" /\ Ungrouped(c, None)

\* consolidate_clusters: two unnamed clusters that are one voice become one.
Consolidate(c, d) ==
    /\ Handler("consolidate")
    /\ c # d /\ cluster[c] = "live" /\ cluster[d] = "live" /\ gist[c] = gist[d]
    /\ Ungrouped(c, d)

-----------------------------------------------------------------------------
(* reidentify_job.                                                         *)

\* A plausible mistake: the pass reads every voice, those set by hand too.
PassReadsAll == heard

PassReads == {v \in heard : ~voice[v].manual}

StartPass(b) ==
    /\ pass = None /\ b \in queued \ {now}
    /\ InHand = {} \/ "pass" \in MayInterrupt
    /\ pass' = b /\ queued' = queued \ {b}
    /\ todo' = PassReads
    /\ snap' = [v \in Voices |-> IF v \in PassReads THEN voice[v] ELSE Blank]
    /\ UNCHANGED <<people, rows, hearing, kept, now, row, verdict, written>>

Judge(v) ==
    /\ pass # None /\ row = None /\ v \in todo
    /\ row' = v /\ todo' = todo \ {v} /\ verdict' = Identify(v)
    /\ UNCHANGED <<people, rows, hearing, jobs, pass, snap, written>>

\* The row is written as it was read, and only the cluster of a confident voice is cleared.
NewCluster == IF verdict.result = "confident" THEN None ELSE snap[row].cid

WriteRow ==
    /\ row # None /\ ~written
    /\ row \in heard => Referable(verdict.pid, NewCluster)
    /\ voice' = IF row \in heard
                THEN [voice EXCEPT ![row].pid = verdict.pid, ![row].result = verdict.result,
                                   ![row].cid = NewCluster]
                ELSE voice
    /\ written' = TRUE
    /\ UNCHANGED <<people, heard, utt, decided, hearing, jobs, pass, todo, snap, row, verdict>>

\* Only if the verdict differs from the row that was read.
WriteTranscript ==
    /\ written
    /\ utt' = IF row \in heard /\ (verdict.pid # snap[row].pid \/ verdict.result # snap[row].result)
              THEN [utt EXCEPT ![row] = verdict.pid] ELSE utt
    /\ snap' = [snap EXCEPT ![row] = Blank]
    /\ row' = None /\ written' = FALSE /\ verdict' = Unknown
    /\ UNCHANGED <<people, heard, voice, decided, hearing, jobs, pass, todo>>

PassOver ==
    /\ pass' = None /\ kept' = kept \cup {pass}
    /\ todo' = {} /\ row' = None /\ verdict' = Unknown /\ snap' = [v \in Voices |-> Blank]
    /\ UNCHANGED <<people, rows, hearing, queued, now, written>>

EndPass == pass # None /\ todo = {} /\ row = None /\ PassOver

\* A foreign key fails the job, which is not retried: a handler took away, between reading and
\* writing, what the row refers to.
PassFails == row \in heard /\ ~written /\ ~Referable(verdict.pid, NewCluster) /\ PassOver

\* The next window begins; arq has long forgotten the last job of that name.
NextWindow ==
    /\ now' \in Windows \ ({now, pass} \cup queued)
    /\ kept' = kept \ {now'}
    /\ UNCHANGED <<people, rows, queued, work>>

-----------------------------------------------------------------------------
Clip ==
    \/ \E v \in Voices : HearIdentify(v) \/ HearRow(v) \/ HearTranscript(v) \/ HearFails(v)
    \/ \E v \in Voices : Forget(v)

Person ==
    \/ \E v \in Voices, p \in Profiles \cup {None}, e \in BOOLEAN : Assign(v, p, e)
    \/ \E t \in LiveTurns, p \in Profiles : LiveTag(t, p)
    \/ \E p \in Profiles, s \in Prints : Unenroll(p, s)
    \/ \E p, q \in Profiles : Merge(p, q)
    \/ \E p \in Profiles : Delete(p)
    \/ \E c \in Clusters, p \in Profiles : Promote(c, p)
    \/ \E c \in Clusters : Dismiss(c)
    \/ \E c, d \in Clusters : Consolidate(c, d)

Pass ==
    \/ \E b \in Windows : StartPass(b)
    \/ \E v \in Voices : Judge(v)
    \/ WriteRow \/ WriteTranscript \/ EndPass

Next == Clip \/ Person \/ Pass \/ NextWindow

Spec == Init /\ [][Next]_vars

\* With handlers that a pass's rows may depend on in MayOverlap.
OverlapSpec == Init /\ [][Next \/ PassFails]_vars

-----------------------------------------------------------------------------
\* Naming a voice once names it everywhere: when no pass is queued or under way, every voice no
\* person has set is attributed as the enrolments of today say, whatever merges, deletions,
\* promotions and removed enrolments led there, and in whatever windows their passes fell.
IdentifiedEverywhere ==
    queued = {} /\ pass = None =>
        \A v \in heard : ~voice[v].manual =>
            [pid |-> voice[v].pid, result |-> voice[v].result] = IdentifyBy(v, enrolled)

\* The transcript names who the clip's speakers say: two tables, written by every handler, by
\* the pipeline and by a pass one after the other.
TranscriptAgrees ==
    \A v \in heard : (written /\ row = v) \/ stage[v] = "inserted" \/ utt[v] = voice[v].pid

\* What a person decided of a voice stays decided, until a person decides otherwise.
DecisionKept == \A v \in heard : voice[v].manual => voice[v].pid = decided[v]

\* A voice in the pool of the unnamed is in a cluster the list of the unnamed shows.
PoolIsListed == \A v \in heard : voice[v].cid # None => cluster[voice[v].cid] = "live"
=============================================================================
