----------------------------- MODULE ModelSwitch -----------------------------
(***************************************************************************)
(* Changing the voice model: a model is downloaded and activated through   *)
(* the api, and the worker that starts next rebuilds the speaker store in  *)
(* the new model's space before it takes a job.                            *)
(*                                                                         *)
(* A vector is the model that made it; a row whose reliability_reason says *)
(* that its voice spoke too little to embed is "short", one that was       *)
(* emptied and not embedded again "null".  There is one profile, whose     *)
(* enrolments come from clips or from live turns, and one cluster.  The    *)
(* worker or the api may die between any two steps.                        *)
(***************************************************************************)
EXTENDS Naturals, FiniteSets

CONSTANTS
    Models,        \* models of the embedding category
    EnvModel,      \* the one the environment names, baked into the image
    Dim,           \* the width of each model's vectors
    Clips, Live,   \* clips, each with one voice; live turns that were enrolled
    Pulls,         \* bound: downloads asked for at once
    FirstStamp,    \* what embedding_spaces says at first: a model, or None before stamping
    Patches,       \* what a patch stores for an int setting
    None

ASSUME SwitchConstants ==
    /\ EnvModel \in Models /\ Dim \in [Models -> Nat \ {0}]
    /\ FirstStamp \in Models \cup {None} /\ Models \cap {None, "absent", "null", "short"} = {}
    /\ Patches \subseteq {"int", "float"} /\ Clips \cap Live = {}

VARIABLES
    row,        \* downloaded_models.status of each model
    files,      \* the models with weights on disk
    inflight,   \* _inflight
    pull,       \* each request to pull: its model and how far it is
    saved,      \* HF_HUB_OFFLINE as each download found it
    offline,    \* HF_HUB_OFFLINE of the api process
    override,   \* settings_overrides.embed_model
    knob,       \* settings_overrides of an int setting, as text
    phase,      \* how far the worker's start is
    active,     \* the model it started with, None when it is down
    todo,       \* clips to re-embed
    failing,    \* clips whose re-embedding failed, this time
    reported,   \* history: the failed clips of the summaries in the audit log
    stamp,      \* embedding_spaces
    width,      \* the width of the vector columns
    voice,      \* clip_speakers.embedding
    complete,   \* the clips whose status is COMPLETE
    enrolled,   \* speaker_enrollments.embedding
    centroid,   \* the models in the profile's centroid; none: NULL
    gist,       \* the same of the cluster's
    hand,       \* a voice an enrolment handler has read and not inserted yet
    begun,      \* history: the model of a migration begun and not stamped, or None
    reverted    \* history: a start picked another model than the one begun

catalog == <<row, files, inflight, pull, saved, offline>>
settings == <<override, knob>>
start == <<phase, active, todo, failing>>
store == <<width, voice, complete, enrolled, centroid, gist>>
history == <<begun, reverted>>
vars == <<catalog, settings, start, reported, stamp, store, hand, history>>

Idle == [model |-> None, at |-> "idle"]
At(p, step) == pull[p].at = step
Move(p, step) == pull' = [pull EXCEPT ![p].at = step]

Spaces(vectors) == {vectors[x] : x \in DOMAIN vectors} \cap Models

Init ==
    /\ row = [m \in Models |-> "none"] /\ files = {EnvModel} /\ inflight = {}
    /\ pull = [p \in Pulls |-> Idle] /\ saved = [p \in Pulls |-> TRUE] /\ offline = TRUE
    /\ override = None /\ knob = "none"
    /\ phase = "down" /\ active = None /\ todo = {} /\ failing = {} /\ reported = {}
    /\ stamp = FirstStamp /\ width = Dim[EnvModel]
    /\ voice \in [Clips -> {"absent", "short", EnvModel}]
    /\ complete \in SUBSET {c \in Clips : voice[c] # "absent"} /\ gist = Spaces(voice)
    /\ \E l \in SUBSET Live :
          /\ enrolled = [x \in Clips \cup Live |-> IF x \in l THEN EnvModel ELSE "absent"]
          /\ centroid = (IF l = {} THEN {} ELSE {EnvModel})
    /\ hand = None /\ begun = None /\ reverted = FALSE

-----------------------------------------------------------------------------
(* POST /v1/admin/models/pull, and the task it leaves behind.              *)
PullChecked(p, m) ==
    /\ At(p, "idle") /\ m \notin inflight
    /\ pull' = [pull EXCEPT ![p] = [model |-> m, at |-> "checked"]]
    /\ UNCHANGED <<row, files, inflight, saved, offline>>

PullAccepted(p) ==
    /\ At(p, "checked") /\ Move(p, "accepted")
    /\ row' = [row EXCEPT ![pull[p].model] = "downloading"]
    /\ UNCHANGED <<files, inflight, saved, offline>>

PullStarts(p) ==
    /\ At(p, "accepted") /\ Move(p, "waiting")
    /\ inflight' = inflight \cup {pull[p].model}
    /\ UNCHANGED <<row, files, saved, offline>>

DownloadRuns == \E p \in Pulls : At(p, "downloading")

(* A plausible mistake: downloads do not wait for each other.              *)
DownloadStartsUnlocked(p) ==
    /\ At(p, "waiting") /\ Move(p, "downloading")
    /\ saved' = [saved EXCEPT ![p] = offline] /\ offline' = FALSE
    /\ UNCHANGED <<row, files, inflight>>

DownloadStarts(p) ==
    /\ At(p, "waiting") /\ ~DownloadRuns /\ Move(p, "downloading")
    /\ saved' = [saved EXCEPT ![p] = offline] /\ offline' = FALSE
    /\ UNCHANGED <<row, files, inflight>>

DownloadEnds(p) ==
    /\ At(p, "downloading") /\ offline' = saved[p]
    /\ \/ Move(p, "done") /\ files' = files \cup {pull[p].model}
       \/ Move(p, "failed") /\ UNCHANGED files
    /\ UNCHANGED <<row, inflight, saved>>

(* A plausible mistake: a failed download settles like any other.          *)
PullSettlesAnyhow(p) ==
    /\ \/ At(p, "done") \/ At(p, "failed")
    /\ row' = [row EXCEPT ![pull[p].model] = "downloaded"]
    /\ inflight' = inflight \ {pull[p].model} /\ pull' = [pull EXCEPT ![p] = Idle]
    /\ UNCHANGED <<files, saved, offline>>

PullSettles(p) ==
    /\ \/ At(p, "done") /\ row' = [row EXCEPT ![pull[p].model] = "downloaded"]
       \/ At(p, "failed") /\ row' = [row EXCEPT ![pull[p].model] = "error"]
    /\ inflight' = inflight \ {pull[p].model} /\ pull' = [pull EXCEPT ![p] = Idle]
    /\ UNCHANGED <<files, saved, offline>>

Pull ==
    /\ \/ \E p \in Pulls : \/ \E m \in Models \ {EnvModel} : PullChecked(p, m)
                           \/ PullAccepted(p) \/ PullStarts(p) \/ DownloadStarts(p) \/ DownloadEnds(p) \/ PullSettles(p)
    /\ UNCHANGED <<settings, start, reported, stamp, store, hand, history>>

(* The tasks die with the api process, the rows stay as they are.          *)
ApiRestart ==
    /\ pull' = [p \in Pulls |-> Idle] /\ inflight' = {} /\ offline' = TRUE
    /\ saved' = [p \in Pulls |-> TRUE] /\ hand' = None
    /\ UNCHANGED <<row, files, settings, start, reported, stamp, store, history>>

(* The status GET /v1/admin/models shows.                                  *)
Listed(m) ==
    CASE m \in inflight -> "downloading"
      [] m \notin inflight /\ row[m] # "none" -> row[m]
      [] OTHER -> IF m \in files THEN "downloaded" ELSE "not_downloaded"

Activate ==
    /\ \E m \in Models : row[m] = "downloaded" /\ override' = m
    /\ UNCHANGED <<catalog, knob, start, reported, stamp, store, hand, history>>

ResetSetting ==
    /\ \/ override' = None /\ UNCHANGED knob
       \/ knob' = "none" /\ UNCHANGED override
    /\ UNCHANGED <<catalog, start, reported, stamp, store, hand, history>>

(* A value that validates is stored as its text: 5, or 5.0.                *)
PatchSettings ==
    /\ knob' \in Patches
    /\ UNCHANGED <<catalog, override, start, reported, stamp, store, hand, history>>

Readable(text) == text \in {"none", "int"}
EffectiveModel == IF override = None THEN EnvModel ELSE override

-----------------------------------------------------------------------------
(* The start of a worker, up to ensure_space.                              *)
Start ==
    /\ phase = "down" /\ Readable(knob) /\ EffectiveModel \in files
    /\ phase' = "loaded" /\ active' = EffectiveModel
    /\ reverted' = (reverted \/ begun \notin {None, EffectiveModel})
    /\ UNCHANGED <<catalog, settings, todo, failing, reported, stamp, store, hand, begun>>

(* A plausible mistake: only the stamp is compared.                        *)
NeedsMigrationByStamp == stamp # None /\ stamp # active

NeedsMigration == width # Dim[active] \/ (stamp # None /\ stamp # active)

InSpace ==
    /\ phase = "loaded" /\ ~NeedsMigration
    /\ phase' = "ready" /\ stamp' = IF stamp = None THEN active ELSE stamp
    /\ UNCHANGED <<catalog, settings, active, todo, failing, reported, store, hand, history>>

Emptied(vectors) == [x \in DOMAIN vectors |-> IF vectors[x] \in Models THEN "null" ELSE vectors[x]]

(* A plausible mistake: the space is stamped as soon as it is the columns'.*)
RetypeStamping ==
    /\ phase = "loaded" /\ NeedsMigration
    /\ width' = Dim[active] /\ voice' = Emptied(voice) /\ enrolled' = Emptied(enrolled)
    /\ centroid' = {} /\ gist' = {} /\ stamp' = active
    /\ phase' = "retyped" /\ begun' = active
    /\ UNCHANGED <<catalog, settings, active, todo, failing, reported, complete, hand, reverted>>

Retype ==
    /\ phase = "loaded" /\ NeedsMigration
    /\ width' = Dim[active] /\ voice' = Emptied(voice) /\ enrolled' = Emptied(enrolled)
    /\ centroid' = {} /\ gist' = {}
    /\ phase' = "retyped" /\ begun' = active
    /\ UNCHANGED <<catalog, settings, active, todo, failing, reported, stamp, complete, hand, reverted>>

(* Every vector is emptied; only the COMPLETE clips are embedded again.    *)
SelectClips ==
    /\ phase = "retyped" /\ phase' = "reembed" /\ todo' = complete /\ failing' = {}
    /\ UNCHANGED <<catalog, settings, active, reported, stamp, store, hand, history>>

(* One clip.  Its voice may be too short for a vector, and the row says so;*)
(* an exception, such as its audio being gone, leaves it as it is.         *)
ReembedClip ==
    /\ phase = "reembed"
    /\ \E c \in todo :
          /\ todo' = todo \ {c}
          /\ \/ \E heard \in {active, "short"} : voice' = [voice EXCEPT ![c] = heard]
                /\ UNCHANGED failing
             \/ failing' = failing \cup {c} /\ UNCHANGED voice
    /\ UNCHANGED <<catalog, settings, phase, active, reported, stamp, width, complete, enrolled, centroid, gist, hand, history>>

RebuildEnrollments ==
    /\ phase = "reembed" /\ todo = {} /\ phase' = "enrolments"
    /\ enrolled' = [x \in Clips \cup Live |->
          IF enrolled[x] # "absent" /\ x \in Clips /\ voice[x] \in Models THEN voice[x]
          ELSE IF enrolled[x] = "null" THEN "absent" ELSE enrolled[x]]
    /\ UNCHANGED <<catalog, settings, active, todo, failing, reported, stamp, width, voice, complete, centroid, gist, hand, history>>

(* recompute_centroid, _rebuild_clusters.                                  *)
RebuildCentroids ==
    /\ phase = "enrolments" /\ phase' = "reidentify"
    /\ centroid' = Spaces(enrolled) /\ gist' = Spaces(voice)
    /\ UNCHANGED <<catalog, settings, active, todo, failing, reported, stamp, width, voice, complete, enrolled, hand, history>>

(* Re-identification, then the stamp, then the summary's audit row.        *)
Stamp ==
    /\ phase = "reidentify" /\ phase' = "stamped" /\ stamp' = active /\ begun' = None
    /\ UNCHANGED <<catalog, settings, active, todo, failing, reported, store, hand, reverted>>

Report ==
    /\ phase = "stamped" /\ phase' = "ready" /\ reported' = reported \cup failing
    /\ UNCHANGED <<catalog, settings, active, todo, failing, stamp, store, hand, history>>

Crash ==
    /\ phase # "down" /\ phase' = "down" /\ active' = None /\ todo' = {}
    /\ UNCHANGED <<catalog, settings, failing, reported, stamp, store, hand, history>>

-----------------------------------------------------------------------------
(* A clip's voice: its row is written anew, when there is enough of it with*)
(* a vector that is compared and pooled; the clip fails before or after the*)
(* row, or is COMPLETE.                                                    *)
ProcessClip ==
    /\ phase = "ready"
    /\ \E c \in Clips \ complete, heard \in {"absent", "short", active} :
          /\ voice' = [voice EXCEPT ![c] = heard]
          /\ gist' \in IF heard = "short" THEN {gist} ELSE {gist, gist \cup {active}}
          /\ complete' \in IF heard = "absent" THEN {complete} ELSE {complete, complete \cup {c}}
    /\ UNCHANGED <<catalog, settings, start, reported, stamp, width, enrolled, centroid, hand, history>>

(* The api sends a clip through the pipeline again: its row stays until the*)
(* worker starts on it.                                                    *)
Reprocess ==
    /\ \E c \in complete : complete' = complete \ {c}
    /\ UNCHANGED <<catalog, settings, start, reported, stamp, width, voice, enrolled, centroid, gist, hand, history>>

(* The api enrols a clip's voice, whatever the worker is at.               *)
EnrolRead ==
    /\ hand = None
    /\ \E c \in Clips : voice[c] \in Models /\ hand' = [clip |-> c, vector |-> voice[c]]
    /\ UNCHANGED <<catalog, settings, start, reported, stamp, store, history>>

(* The insert, refused if the vector does not fit the column, and the new  *)
(* centroid, which fails on an enrolment without a vector.                 *)
EnrolInsert ==
    /\ hand # None /\ hand' = None
    /\ IF Dim[hand.vector] # width THEN UNCHANGED <<enrolled, centroid>>
       ELSE LET after == [enrolled EXCEPT ![hand.clip] = hand.vector] IN
            /\ enrolled' = after
            /\ centroid' = IF \E x \in DOMAIN enrolled : enrolled[x] = "null" THEN centroid ELSE Spaces(after)
    /\ UNCHANGED <<catalog, settings, start, reported, stamp, width, voice, complete, gist, history>>

Next ==
    \/ Pull \/ ApiRestart \/ Activate \/ ResetSetting \/ PatchSettings
    \/ Start \/ InSpace \/ Retype \/ SelectClips \/ ReembedClip \/ RebuildEnrollments \/ RebuildCentroids
    \/ Stamp \/ Report \/ Crash
    \/ ProcessClip \/ Reprocess \/ EnrolRead \/ EnrolInsert

Spec == Init /\ [][Next]_vars

-----------------------------------------------------------------------------
(* A worker that takes jobs compares only vectors of its own model:        *)
(* voices, enrolments and centroids are all in the space it is stamped     *)
(* with, whatever was interrupted, reverted or enrolled meanwhile.         *)
(* reembed.ensure_space.                                                   *)
StoreInOneSpace ==
    phase = "ready" =>
        stamp = active /\ Spaces(voice) \cup Spaces(enrolled) \cup centroid \cup gist \subseteq {active}

(* The clips whose voiceprint was taken away and of which no summary tells,*)
(* those apart whose summary a crash lost.                                 *)
Unaccounted == {c \in Clips : voice[c] = "null"} \ (reported \cup failing)

(* A migration may be interrupted anywhere: once a worker is ready, a      *)
(* COMPLETE clip has its voiceprint, or the row says that there was too    *)
(* little speech for one, or a summary names the clip.  reembed.py says so *)
(* of any interruption.                                                    *)
InterruptingIsSafe == phase = "ready" => complete \cap Unaccounted = {}

(* It is so in a stamped store, as long as a migration that was cut short  *)
(* is resumed with the model it began with.  ensure_space, needs_migration.*)
NoVoiceLost == ~reverted => InterruptingIsSafe

(* The same of every clip, COMPLETE or not: a stored voiceprint is either  *)
(* in the active model's space or accounted for.  reembed.py's first line. *)
EveryVoiceAccounted == phase = "ready" => Unaccounted = {}

(* When no download runs the api is offline again, and what it lists as    *)
(* downloaded or has activated can be loaded.  pull_model, list_models.    *)
CatalogIsHonest ==
    /\ ~DownloadRuns => offline
    /\ \A m \in Models : Listed(m) = "downloaded" \/ override = m => m \in files

(* What a patch accepts can be read back: the settings are not left in a   *)
(* state in which get_effective_settings fails for everybody.              *)
AcceptedIsReadable == Readable(knob)
=============================================================================
