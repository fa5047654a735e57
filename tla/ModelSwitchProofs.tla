-------------------------- MODULE ModelSwitchProofs --------------------------
(***************************************************************************)
(* What holds of a model switch for any models, clips and downloads.       *)
(*                                                                         *)
(* The type invariant is proved first; on it rest three inductive          *)
(* invariants, one for each property of the runs: of the catalogue, of the *)
(* widths of what is stored, and of a migration that is not finished.      *)
(***************************************************************************)
EXTENDS ModelSwitch, TLAPS

Steps == {"idle", "checked", "accepted", "waiting", "downloading", "done", "failed"}
Vectors == Models \cup {"absent", "null", "short"}

TypeInv ==
    /\ row \in [Models -> {"none", "downloading", "downloaded", "error"}]
    /\ files \in SUBSET Models
    /\ pull \in [Pulls -> [model : Models \cup {None}, at : Steps]]
    /\ \A p \in Pulls : pull[p].at # "idle" => pull[p].model \in Models
    /\ saved \in [Pulls -> BOOLEAN] /\ offline \in BOOLEAN
    /\ override \in Models \cup {None}
    /\ phase \in {"down", "loaded", "retyped", "reembed", "enrolments", "reidentify", "stamped", "ready"}
    /\ phase # "down" => active \in Models
    /\ todo \in SUBSET Clips
    /\ stamp \in Models \cup {None} /\ complete \in SUBSET Clips
    /\ voice \in [Clips -> Vectors] /\ enrolled \in [Clips \cup Live -> Vectors]
    /\ hand # None => hand.clip \in Clips /\ hand.vector \in Models

(* The worker's side of the next-state relation, and the api's.            *)
WorkerSteps ==
    \/ Start \/ InSpace \/ Retype \/ SelectClips \/ ReembedClip \/ RebuildEnrollments \/ RebuildCentroids
    \/ Stamp \/ Report \/ Crash \/ ProcessClip
ApiSteps == Pull \/ ApiRestart \/ Activate \/ ResetSetting \/ PatchSettings \/ Reprocess \/ EnrolRead \/ EnrolInsert

-----------------------------------------------------------------------------
(* Type correctness.                                                       *)
LEMMA TypeInit == Init => TypeInv
  BY SwitchConstants DEF Init, TypeInv, Idle, Steps, Vectors

(* A download's step keeps the types: what is pulled is a model.           *)
LEMMA TypePull == TypeInv /\ Pull => TypeInv'
<1> SUFFICES ASSUME TypeInv, Pull PROVE TypeInv'
  OBVIOUS
<1> USE DEF TypeInv, Steps
<1>1. UNCHANGED <<settings, start, reported, stamp, store, hand>>
  BY DEF Pull
<1>2. PICK p \in Pulls :
         \/ \E m \in Models \ {EnvModel} : PullChecked(p, m)
         \/ PullAccepted(p) \/ PullStarts(p) \/ DownloadStarts(p) \/ DownloadEnds(p) \/ PullSettles(p)
  BY DEF Pull
<1>3. /\ row' \in [Models -> {"none", "downloading", "downloaded", "error"}]
      /\ files' \in SUBSET Models
      /\ saved' \in [Pulls -> BOOLEAN] /\ offline' \in BOOLEAN
  BY <1>2 DEF PullChecked, PullAccepted, PullStarts, DownloadStarts, DownloadEnds, PullSettles, At
<1>4. /\ pull' \in [Pulls -> [model : Models \cup {None}, at : Steps]]
      /\ \A q \in Pulls : pull'[q].at # "idle" => pull'[q].model \in Models
  <2>1. CASE \E m \in Models \ {EnvModel} : PullChecked(p, m)
    BY <2>1 DEF PullChecked
  <2>2. CASE PullAccepted(p) \/ PullStarts(p) \/ DownloadStarts(p) \/ DownloadEnds(p)
    <3>1. pull[p].at # "idle" /\ \E at \in Steps : pull' = [pull EXCEPT ![p].at = at]
      BY <2>2 DEF PullAccepted, PullStarts, DownloadStarts, DownloadEnds, At, Move
    <3> QED
      BY <3>1
  <2>3. CASE PullSettles(p)
    BY <2>3 DEF PullSettles, Idle
  <2> QED
    BY <1>2, <2>1, <2>2, <2>3
<1> QED
  BY <1>1, <1>3, <1>4 DEF settings, start, store

(* The requests of the api write nothing of another type.                 *)
LEMMA TypeApi == TypeInv /\ ApiSteps => TypeInv'
<1> SUFFICES ASSUME TypeInv, ApiSteps PROVE TypeInv'
  OBVIOUS
<1> USE SwitchConstants DEF TypeInv, catalog, settings, start, store, Vectors
<1>1. CASE Pull
  BY <1>1, TypePull
<1>2. CASE ApiRestart
  BY <1>2 DEF ApiRestart, Idle, Steps
<1>3. CASE Activate \/ ResetSetting \/ PatchSettings
  BY <1>3 DEF Activate, ResetSetting, PatchSettings
<1>4. CASE Reprocess \/ EnrolRead
  BY <1>4 DEF Reprocess, EnrolRead
<1>5. CASE EnrolInsert
  BY <1>5 DEF EnrolInsert
<1> QED
  BY <1>1, <1>2, <1>3, <1>4, <1>5 DEF ApiSteps

(* Neither does the worker, from its start to its crash.                   *)
LEMMA TypeWorker == TypeInv /\ WorkerSteps => TypeInv'
<1> SUFFICES ASSUME TypeInv, WorkerSteps PROVE TypeInv'
  OBVIOUS
<1> USE SwitchConstants DEF TypeInv, catalog, settings, start, store, Vectors
<1>1. CASE Start
  BY <1>1 DEF Start, EffectiveModel
<1>2. CASE InSpace
  BY <1>2 DEF InSpace
<1>3. CASE Retype
  BY <1>3 DEF Retype, Emptied
<1>4. CASE SelectClips \/ ReembedClip
  BY <1>4 DEF SelectClips, ReembedClip
<1>5. CASE RebuildEnrollments
  BY <1>5 DEF RebuildEnrollments
<1>6. CASE RebuildCentroids \/ Stamp \/ Report \/ Crash
  BY <1>6 DEF RebuildCentroids, Stamp, Report, Crash
<1>7. CASE ProcessClip
  BY <1>7 DEF ProcessClip
<1> QED
  BY <1>1, <1>2, <1>3, <1>4, <1>5, <1>6, <1>7 DEF WorkerSteps

(* Every variable of the switch keeps its type, for any number of models,  *)
(* clips and downloads.  ModelSwitch.                                      *)
THEOREM SwitchTypeCorrect == Spec => []TypeInv
<1>1. TypeInv /\ UNCHANGED vars => TypeInv'
  BY DEF TypeInv, vars, catalog, settings, start, store, history
<1>2. TypeInv /\ [Next]_vars => TypeInv'
  BY <1>1, TypeApi, TypeWorker DEF Next, ApiSteps, WorkerSteps
<1> QED
  BY <1>2, TypeInit, PTL DEF Spec

-----------------------------------------------------------------------------
(* The catalogue: the api is online only under a download, which found it  *)
(* offline, and what was downloaded is never deleted.                      *)
CatalogInv ==
    /\ \A p \in Pulls : At(p, "downloading") => saved[p]
    /\ ~DownloadRuns => offline
    /\ \A p \in Pulls : At(p, "done") => pull[p].model \in files
    /\ \A m \in Models : row[m] = "downloaded" \/ override = m => m \in files

(* A download's step keeps the catalogue's invariant.                      *)
LEMMA CatalogPull == TypeInv /\ CatalogInv /\ Pull => CatalogInv'
<1> SUFFICES ASSUME TypeInv, CatalogInv, Pull PROVE CatalogInv'
  OBVIOUS
<1> USE DEF TypeInv, CatalogInv, DownloadRuns, At
<1>1. UNCHANGED override
  BY DEF Pull, settings
<1>2. PICK p \in Pulls :
         \/ \E m \in Models \ {EnvModel} : PullChecked(p, m)
         \/ PullAccepted(p) \/ PullStarts(p) \/ DownloadStarts(p) \/ DownloadEnds(p) \/ PullSettles(p)
  BY DEF Pull
<1>3. CASE \E m \in Models \ {EnvModel} : PullChecked(p, m)
  BY <1>1, <1>3 DEF PullChecked
<1>4. CASE PullAccepted(p)
  BY <1>1, <1>4 DEF PullAccepted, Move
<1>5. CASE PullStarts(p)
  BY <1>1, <1>5 DEF PullStarts, Move
<1>6. CASE DownloadStarts(p)
  BY <1>1, <1>6 DEF DownloadStarts, Move
<1>7. CASE DownloadEnds(p)
  BY <1>1, <1>7 DEF DownloadEnds, Move
<1>8. CASE PullSettles(p)
  BY <1>1, <1>8 DEF PullSettles, Idle
<1> QED
  BY <1>2, <1>3, <1>4, <1>5, <1>6, <1>7, <1>8

(* Of the other steps only the requests of the api touch the catalogue.    *)
LEMMA CatalogOther == TypeInv /\ CatalogInv /\ (ApiSteps \/ WorkerSteps) => CatalogInv'
<1> SUFFICES ASSUME TypeInv, CatalogInv, ApiSteps \/ WorkerSteps PROVE CatalogInv'
  OBVIOUS
<1> USE DEF catalog, settings
<1>1. CASE Pull
  BY <1>1, CatalogPull
<1>2. CASE ApiRestart
  BY <1>2 DEF ApiRestart, TypeInv, CatalogInv, DownloadRuns, At, Idle
<1>3. CASE Activate
  BY <1>3 DEF Activate, CatalogInv, DownloadRuns, At
<1>4. CASE ResetSetting
  BY <1>4, SwitchConstants DEF ResetSetting, CatalogInv, DownloadRuns, At
<1>5. CASE UNCHANGED <<catalog, override>>
  BY <1>5 DEF CatalogInv, DownloadRuns, At
<1>6. PatchSettings \/ Reprocess \/ EnrolRead \/ EnrolInsert \/ WorkerSteps => UNCHANGED <<catalog, override>>
  BY DEF PatchSettings, Reprocess, EnrolRead, EnrolInsert, WorkerSteps, Start, InSpace, Retype, SelectClips, ReembedClip,
         RebuildEnrollments, RebuildCentroids, Stamp, Report, Crash, ProcessClip
<1> QED
  BY <1>1, <1>2, <1>3, <1>4, <1>5, <1>6 DEF ApiSteps

(* Whatever is pulled at once, fails or dies with the api: a model listed  *)
(* as downloaded or activated has its weights on disk, and the api is      *)
(* offline whenever no download runs.  pull_model, activate_model.         *)
THEOREM CatalogStaysHonest == Spec => []CatalogIsHonest
<1>1. Init => CatalogInv
  BY SwitchConstants DEF Init, CatalogInv, DownloadRuns, At, Idle
<1>2. CatalogInv /\ UNCHANGED vars => CatalogInv'
  BY DEF vars, catalog, settings, CatalogInv, DownloadRuns, At
<1>3. TypeInv /\ CatalogInv /\ [Next]_vars => CatalogInv'
  BY <1>2, CatalogOther DEF Next, ApiSteps, WorkerSteps
<1>4. CatalogInv => CatalogIsHonest
  BY DEF CatalogInv, CatalogIsHonest, Listed
<1> QED
  BY <1>1, <1>3, <1>4, SwitchTypeCorrect, PTL DEF Spec

-----------------------------------------------------------------------------
(* The store: whatever holds a vector holds one that fits the columns, and *)
(* the columns fit the model from the moment the store is emptied for it.  *)
OwnWidths == \A m, n \in Models : Dim[m] = Dim[n] => m = n

Held == Spaces(voice) \cup Spaces(enrolled) \cup centroid \cup gist

SpaceInv ==
    /\ phase \in {"retyped", "reembed", "enrolments", "reidentify", "stamped", "ready"} => width = Dim[active]
    /\ phase \in {"stamped", "ready"} => stamp = active
    /\ \A m \in Held : m \in Models /\ Dim[m] = width

(* The handlers of the api store a vector only when it fits.               *)
LEMMA SpaceApi == TypeInv /\ SpaceInv /\ ApiSteps => SpaceInv'
<1> SUFFICES ASSUME TypeInv, SpaceInv, ApiSteps PROVE SpaceInv'
  OBVIOUS
<1>1. CASE EnrolInsert /\ ~UNCHANGED <<enrolled, centroid>>
  <2>1. hand.vector \in Models /\ Dim[hand.vector] = width
    BY <1>1 DEF EnrolInsert, TypeInv
  <2>2. enrolled' = [enrolled EXCEPT ![hand.clip] = hand.vector]
    BY <1>1 DEF EnrolInsert
  <2>3. Spaces(enrolled') \subseteq Spaces(enrolled) \cup {hand.vector}
    BY <2>2 DEF Spaces, TypeInv
  <2>4. centroid' \subseteq centroid \cup Spaces(enrolled')
    BY <1>1 DEF EnrolInsert
  <2>5. UNCHANGED <<phase, active, stamp, width, voice, gist>>
    BY <1>1 DEF EnrolInsert, start
  <2> QED
    BY <2>1, <2>3, <2>4, <2>5 DEF SpaceInv, Held, Spaces
<1>2. CASE UNCHANGED <<start, stamp, width, voice, enrolled, centroid, gist>>
  BY <1>2 DEF SpaceInv, Held, Spaces, start, store
<1>3. \/ EnrolInsert /\ ~UNCHANGED <<enrolled, centroid>>
      \/ UNCHANGED <<start, stamp, width, voice, enrolled, centroid, gist>>
  BY DEF ApiSteps, Pull, ApiRestart, Activate, ResetSetting, PatchSettings, Reprocess, EnrolRead, EnrolInsert, store
<1> QED
  BY <1>1, <1>2, <1>3

(* The worker empties the store before it holds vectors of another model.  *)
LEMMA SpaceWorker == TypeInv /\ SpaceInv /\ WorkerSteps => SpaceInv'
<1> SUFFICES ASSUME TypeInv, SpaceInv, WorkerSteps PROVE SpaceInv'
  OBVIOUS
<1> USE DEF SpaceInv, start, store
<1>1. CASE Start \/ Crash
  BY <1>1 DEF Start, Crash, Held, Spaces
<1>2. CASE InSpace
  BY <1>2 DEF InSpace, NeedsMigration, Held, Spaces
<1>3. CASE Retype
  <2>1. Spaces(voice') = {} /\ Spaces(enrolled') = {}
    BY <1>3, SwitchConstants DEF Retype, Emptied, Spaces
  <2> QED
    BY <1>3, <2>1 DEF Retype, Held
<1>4. CASE ReembedClip \/ ProcessClip
  <2>1. active \in Models /\ width = Dim[active]
    BY <1>4 DEF ReembedClip, ProcessClip, TypeInv
  <2>2. Spaces(voice') \subseteq Spaces(voice) \cup {active}
    <3>1. voice' = voice \/ \E c \in Clips, heard \in {"absent", "short", active} : voice' = [voice EXCEPT ![c] = heard]
      BY <1>4 DEF ReembedClip, ProcessClip, TypeInv
    <3>2. {"absent", "short"} \cap Models = {}
      BY SwitchConstants
    <3> QED
      BY <3>1, <3>2 DEF Spaces, TypeInv
  <2>3. gist' \subseteq gist \cup {active} /\ UNCHANGED <<phase, active, stamp, width, enrolled, centroid>>
    BY <1>4 DEF ReembedClip, ProcessClip
  <2> QED
    BY <2>1, <2>2, <2>3 DEF Held, Spaces
<1>5. CASE RebuildEnrollments
  <2>1. Spaces(enrolled') \subseteq Spaces(voice) \cup Spaces(enrolled)
    <3>1. \A x \in Clips \cup Live : \/ x \in Clips /\ enrolled'[x] = voice[x]
                                    \/ enrolled'[x] \in {"absent", enrolled[x]}
      BY <1>5 DEF RebuildEnrollments
    <3>2. DOMAIN voice = Clips /\ DOMAIN enrolled = Clips \cup Live /\ DOMAIN enrolled' = Clips \cup Live
      BY <1>5 DEF RebuildEnrollments, TypeInv
    <3>3. "absent" \notin Models
      BY SwitchConstants
    <3> QED
      BY <3>1, <3>2, <3>3 DEF Spaces
  <2>2. UNCHANGED <<active, stamp, width, voice, centroid, gist>> /\ phase = "reembed" /\ phase' = "enrolments"
    BY <1>5 DEF RebuildEnrollments
  <2>3. Held' \subseteq Held
    BY <2>1, <2>2 DEF Held
  <2> QED
    BY <2>2, <2>3
<1>6. CASE RebuildCentroids
  BY <1>6 DEF RebuildCentroids, Held, Spaces
<1>7. CASE SelectClips \/ Stamp \/ Report
  BY <1>7 DEF SelectClips, Stamp, Report, Held, Spaces
<1> QED
  BY <1>1, <1>2, <1>3, <1>4, <1>5, <1>6, <1>7 DEF WorkerSteps

(* Every step keeps it.                                                    *)
LEMMA SpaceKept == Spec => []SpaceInv
<1>1. Init => SpaceInv
  <2> SUFFICES ASSUME Init PROVE SpaceInv
    OBVIOUS
  <2>0. {"absent", "short"} \cap Models = {}
    BY SwitchConstants
  <2>1. Spaces(voice) \subseteq {EnvModel}
    <3>1. voice \in [Clips -> {"absent", "short", EnvModel}]
      BY DEF Init
    <3> QED
      BY <2>0, <3>1 DEF Spaces
  <2>2. Spaces(enrolled) \subseteq {EnvModel}
    <3>1. PICK l \in SUBSET Live : enrolled = [x \in Clips \cup Live |-> IF x \in l THEN EnvModel ELSE "absent"]
      BY DEF Init
    <3> QED
      BY <2>0, <3>1 DEF Spaces
  <2>3. centroid \subseteq {EnvModel} /\ gist = Spaces(voice) /\ width = Dim[EnvModel] /\ phase = "down"
    BY DEF Init
  <2> QED
    BY <2>1, <2>2, <2>3, SwitchConstants DEF SpaceInv, Held
<1>2. SpaceInv /\ UNCHANGED vars => SpaceInv'
  BY DEF vars, start, store, SpaceInv, Held, Spaces
<1>3. TypeInv /\ SpaceInv /\ [Next]_vars => SpaceInv'
  BY <1>2, SpaceApi, SpaceWorker DEF Next, ApiSteps, WorkerSteps
<1> QED
  BY <1>1, <1>3, SwitchTypeCorrect, PTL DEF Spec

(* When no two models have vectors of one width, a worker that takes jobs  *)
(* compares vectors of its own model only, however the switches, crashes   *)
(* and enrolments before it fell.  reembed.ensure_space.                   *)
THEOREM StoreStaysInOneSpace == ASSUME OwnWidths PROVE Spec => []StoreInOneSpace
<1>1. TypeInv /\ SpaceInv => StoreInOneSpace
  BY OwnWidths DEF OwnWidths, TypeInv, SpaceInv, StoreInOneSpace, Held
<1> QED
  BY <1>1, SpaceKept, SwitchTypeCorrect, PTL

-----------------------------------------------------------------------------
(* A migration begun is either the one the worker is at or one it resumes: *)
(* until it is stamped every start is with its model and finds another     *)
(* stamp, so that no worker becomes ready between.  What it lost are the   *)
(* COMPLETE clips: the only ones a migration embeds again.                 *)
Lost == {c \in complete : voice[c] = "null"}

Settled ==
    /\ width = Dim[stamp] /\ phase \notin {"retyped", "reembed", "enrolments", "reidentify"}
    /\ Lost \subseteq reported \cup failing

UnderWay ==
    /\ stamp # begun /\ phase \in {"down", "loaded", "retyped", "reembed", "enrolments", "reidentify"}
    /\ phase # "down" => active = begun
    /\ phase = "reembed" => Lost \subseteq todo \cup failing
    /\ phase \in {"enrolments", "reidentify"} => Lost \subseteq failing

VoiceInv ==
    /\ stamp \in Models /\ begun \in Models \cup {None}
    /\ ~reverted => (begun = None /\ Settled) \/ (begun # None /\ UnderWay)

(* The worker's start: a new model, the same again, or none to move to.    *)
LEMMA VoiceStart == TypeInv /\ VoiceInv /\ (Start \/ InSpace \/ Retype \/ Crash) => VoiceInv'
<1> SUFFICES ASSUME TypeInv, VoiceInv, Start \/ InSpace \/ Retype \/ Crash PROVE VoiceInv'
  OBVIOUS
<1> USE SwitchConstants DEF VoiceInv, start, store, history
<1>1. CASE Start
  BY <1>1 DEF Start, Settled, UnderWay, Lost
<1>2. CASE InSpace
  BY <1>2 DEF InSpace, NeedsMigration, Settled, UnderWay, Lost
<1>3. CASE Retype
  <2>1. active \in Models /\ begun' = active /\ phase' = "retyped" /\ UNCHANGED <<active, stamp, reverted>>
    BY <1>3 DEF Retype, TypeInv
  <2>2. ~reverted => stamp # active
    BY <1>3 DEF Retype, NeedsMigration, Settled, UnderWay
  <2> QED
    BY <2>1, <2>2 DEF UnderWay
<1>4. CASE Crash
  BY <1>4 DEF Crash, Settled, UnderWay, Lost
<1> QED
  BY <1>1, <1>2, <1>3, <1>4

(* The migration itself, and what a ready worker does.                     *)
LEMMA VoiceRebuild ==
    TypeInv /\ SpaceInv /\ VoiceInv /\ WorkerSteps /\ ~(Start \/ InSpace \/ Retype \/ Crash) => VoiceInv'
<1> SUFFICES ASSUME TypeInv, SpaceInv, VoiceInv, WorkerSteps, ~(Start \/ InSpace \/ Retype \/ Crash)
             PROVE VoiceInv'
  OBVIOUS
<1> USE SwitchConstants DEF VoiceInv, start, store, history
<1>1. CASE SelectClips
  BY <1>1 DEF SelectClips, Settled, UnderWay, Lost
<1>2. CASE ReembedClip
  <2>1. active \in Models /\ UNCHANGED <<phase, active, stamp, begun, reverted>> /\ phase = "reembed"
    BY <1>2 DEF ReembedClip, TypeInv
  <2>2. Lost \subseteq todo \cup failing => Lost' \subseteq todo' \cup failing'
    BY <1>2, <2>1 DEF ReembedClip, Lost, TypeInv
  <2> QED
    BY <2>1, <2>2 DEF Settled, UnderWay
<1>3. CASE RebuildEnrollments \/ RebuildCentroids
  BY <1>3 DEF RebuildEnrollments, RebuildCentroids, Settled, UnderWay, Lost
<1>4. CASE Stamp
  BY <1>4 DEF Stamp, SpaceInv, TypeInv, Settled, UnderWay, Lost
<1>5. CASE Report
  BY <1>5 DEF Report, Settled, UnderWay, Lost
<1>6. CASE ProcessClip
  <2>1. Lost' \subseteq Lost
    <3>1. PICK c \in Clips \ complete, heard \in {"absent", "short", active} :
             /\ voice' = [voice EXCEPT ![c] = heard]
             /\ complete' \in {complete, complete \cup {c}}
      BY <1>6 DEF ProcessClip
    <3>2. heard # "null"
      BY <1>6 DEF ProcessClip, TypeInv
    <3> QED
      BY <3>1, <3>2 DEF Lost, TypeInv
  <2> QED
    BY <1>6, <2>1 DEF ProcessClip, Settled, UnderWay
<1> QED
  BY <1>1, <1>2, <1>3, <1>4, <1>5, <1>6 DEF WorkerSteps

(* The api does not touch a migration.                                     *)
LEMMA VoiceApi == VoiceInv /\ ApiSteps => VoiceInv'
<1>1. ApiSteps => UNCHANGED <<start, reported, stamp, width, voice, history>> /\ complete' \subseteq complete
  BY DEF ApiSteps, Pull, ApiRestart, Activate, ResetSetting, PatchSettings, Reprocess, EnrolRead, EnrolInsert, store
<1> QED
  BY <1>1 DEF VoiceInv, Settled, UnderWay, Lost, start, history

(* From a store that is stamped, and as long as no start turns back to     *)
(* another model in the middle, a migration may be cut short anywhere and  *)
(* a ready worker has lost no COMPLETE clip's voice without saying so.     *)
(* reembed.py.                                                             *)
THEOREM NoVoiceIsLost == ASSUME FirstStamp = EnvModel PROVE Spec => []NoVoiceLost
<1>1. Init => VoiceInv
  BY SwitchConstants, FirstStamp = EnvModel DEF Init, VoiceInv, Settled, Lost
<1>2. VoiceInv /\ UNCHANGED vars => VoiceInv'
  BY DEF vars, start, store, history, VoiceInv, Settled, UnderWay, Lost
<1>3. TypeInv /\ SpaceInv /\ VoiceInv /\ [Next]_vars => VoiceInv'
  BY <1>2, VoiceApi, VoiceStart, VoiceRebuild DEF Next, ApiSteps, WorkerSteps
<1>4. TypeInv /\ VoiceInv => NoVoiceLost
  BY DEF VoiceInv, NoVoiceLost, InterruptingIsSafe, Unaccounted, Settled, UnderWay, Lost, TypeInv
<1> QED
  BY <1>1, <1>3, <1>4, SwitchTypeCorrect, SpaceKept, PTL DEF Spec
=============================================================================
