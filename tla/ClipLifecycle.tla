---------------------------- MODULE ClipLifecycle ----------------------------
(***************************************************************************)
(* The life of one clip: upload, the arq jobs that run the pipeline over   *)
(* it, reprocessing, deletion, and the maintenance tick that looks after   *)
(* clips whose worker or whose job was lost.                               *)
(*                                                                         *)
(* Nothing here runs in a database transaction: every statement commits by *)
(* itself, so a step is one statement (or one write to disk or to Redis),  *)
(* and between two of them anybody else may run, the worker may die, or    *)
(* arq's timeout may cancel the job.                                       *)
(***************************************************************************)
EXTENDS Naturals, Sequences, FiniteSets

CONSTANTS
    Jobs,          \* arq job ids in use at once; an id is reused when its job is over
    Requests,      \* api requests in flight at once
    Stages,        \* the pipeline stages in scope
    MaxRuns,       \* bound: processing_runs rows
    MaxTries,      \* job_max_attempts
    MaxFaults,     \* bound: worker, api or Redis losses
    Faults,        \* which of "worker", "api", "redis" may be lost
    TimeoutAt,     \* the job phases in which arq's job_timeout may strike
    RaiseAt,       \* the job phases of the pipeline's try in which something may raise
    MaxReprocess,  \* bound: reprocess requests
    ReprocessAt,   \* the statuses in which an operator asks for one
    ClipAges,      \* the clip lives longer than maintenance's ORPHAN_GRACE_S
    PromptRetry,   \* a lost job has started its next run before its last one counts as stalled
    MayDelete,     \* an operator may delete the clip
    Retention      \* retention_days is set and the clip may outlive it

AllStages == <<"VALIDATING", "PREPROCESSING", "TRANSCRIBING", "DIARIZING", "RECONCILING",
               "EMBEDDING", "IDENTIFYING", "POSTPROCESSING", "INDEXING", "TAGGING">>

StageNames == {AllStages[i] : i \in DOMAIN AllStages}
Terminal == {"COMPLETE", "FAILED", "REJECTED"}
Statuses == {"QUEUED"} \cup StageNames \cup Terminal

\* What each stage leaves behind, in the order it writes it.  Stages that only compute, or
\* only fill columns of rows that exist, write nothing the others depend on.
PreprocessWrites == <<"work", "quality_metrics", "vad_regions">>
DiarizeWrites == <<"speaker_turns">>
ReconcileWrites == <<"transcripts", "utterances", "words">>
PostprocessWrites == <<"clip_speakers", "exports">>
TagWrites == <<"auto_tags">>

WritingStages == [PREPROCESSING  |-> PreprocessWrites,
                  DIARIZING      |-> DiarizeWrites,
                  RECONCILING    |-> ReconcileWrites,
                  POSTPROCESSING |-> PostprocessWrites,
                  TAGGING        |-> TagWrites]

Writes == [s \in StageNames |-> IF s \in DOMAIN WritingStages THEN WritingStages[s]
                                                              ELSE <<"nothing">>]

\* The stages that end in RejectError rather than in a result, before they write anything.
Rejecting == {"VALIDATING", "PREPROCESSING", "TRANSCRIBING", "DIARIZING"}

\* _DERIVED_TABLES and the auto_tags column, in the order _reset_derived_data clears them.
ResetOrder == <<"quality_metrics", "vad_regions", "speaker_turns", "transcripts",
                "clip_speakers", "auto_tags">>

\* A plausible mistake: no ON DELETE CASCADE from transcripts to utterances.
ClearedNoCascade(t) == {t}

\* Deleting transcripts takes its utterances with it, and they their words.
Cleared(t) == IF t = "transcripts" THEN {"transcripts", "utterances", "words"} ELSE {t}

\* quality_metrics.clip_id is a primary key, clip_speakers has a unique index per label.
Unique == {"quality_metrics", "clip_speakers"}
Tables == {ResetOrder[i] : i \in DOMAIN ResetOrder} \cup {"utterances", "words"}
Files == {"raw", "work", "exports"}

\* The stages in scope that come after the i-th of the pipeline; the next one comes first.
StagesAfter(i) == {k \in DOMAIN AllStages : k > i /\ AllStages[k] \in Stages}
FirstOf(S) == CHOOSE k \in S : \A m \in S : k <= m

TablesInScope == {t \in Tables : \E s \in Stages : \E i \in DOMAIN Writes[s] : Writes[s][i] = t}

Runs == 1 .. MaxRuns
Phases == {"none", "queued", "reset", "begin", "status", "stage", "reject", "success",
           "complete", "announce", "fail", "failrun", "finish"}
Active == Phases \ {"none", "queued"}

\* The phases inside process_clip's try.
Guarded == {"status", "stage", "reject", "success", "complete", "announce"}
ApiPhases == {"idle", "up_raw", "up_enqueue", "rep_status", "rep_enqueue",
              "del_files", "del_row", "del_receipt"}
MaintPhases == {"idle", "stall_clip", "stall_run", "orphans", "orphan_key", "orphan_enqueue",
                "retention", "ret_files", "ret_row", "ret_receipt"}

ASSUME LifecycleConstants ==
    /\ Stages \subseteq StageNames /\ Stages # {}
    /\ MaxRuns \in Nat /\ MaxTries \in Nat \ {0} /\ MaxFaults \in Nat /\ MaxReprocess \in Nat
    /\ Faults \subseteq {"worker", "api", "redis"}
    /\ TimeoutAt \subseteq Active /\ RaiseAt \subseteq Guarded
    /\ ReprocessAt \subseteq Statuses
    /\ {ClipAges, PromptRetry, MayDelete, Retention} \subseteq BOOLEAN

VARIABLES
    exists,      \* the clips row is there
    status,      \* clips.status
    error,       \* clips.error_code
    age,         \* of the clip: younger than ORPHAN_GRACE_S, older, past retention_days
    files,       \* the clip's files under DATA_DIR
    rows,        \* for every derived table, the runs whose rows it holds
    outcome,     \* processing_runs in the order they were started: their outcome
    runAge,      \* of the latest run: started within the grace, earlier, past the stall cutoff
    receipts,    \* the clip has a row in deletion_receipts
    phase,       \* where each arq job is
    at,          \* index into ResetOrder or AllStages
    written,     \* how many of the stage's writes are done
    run,         \* the run the job's process_clip inserted
    tries,       \* arq's job_try
    keys,        \* the arq:job:<id> keys in Redis
    api,         \* where each api request is
    maint,       \* where the maintenance job is
    stalledRun,  \* the run recover_stalled selected with the clip
    faults, reprocessed, uploaded

clipVars == <<exists, status, error, age, files, rows, outcome, runAge, receipts>>
jobVars == <<phase, at, written, run, tries, keys>>
otherVars == <<api, maint, stalledRun, faults, reprocessed, uploaded>>
vars == <<clipVars, jobVars, otherVars>>

TypeOK ==
    /\ exists \in BOOLEAN /\ receipts \in BOOLEAN /\ uploaded \in BOOLEAN
    /\ status \in Statuses
    /\ error \in {"none", "Exception", "Rejected", "STALLED"}
    /\ age \in {"young", "aged", "expired"}
    /\ files \subseteq Files
    /\ rows \in [Tables -> SUBSET Runs]
    /\ Len(outcome) <= MaxRuns
    /\ \A r \in DOMAIN outcome : outcome[r] \in {"running", "success", "rejected", "failed"}
    /\ runAge \in {"recent", "earlier", "old"}
    /\ phase \in [Jobs -> Phases]
    /\ at \in [Jobs -> 0 .. 10] /\ written \in [Jobs -> 0 .. 3]
    /\ run \in [Jobs -> {0} \cup Runs] /\ tries \in [Jobs -> 0 .. MaxTries]
    /\ keys \subseteq Jobs
    /\ api \in [Requests -> ApiPhases]
    /\ maint \in MaintPhases /\ stalledRun \in {0} \cup Runs
    /\ faults \in 0 .. MaxFaults /\ reprocessed \in 0 .. MaxReprocess

Init ==
    /\ exists = FALSE /\ status = "QUEUED" /\ error = "none" /\ age = "young"
    /\ files = {} /\ rows = [t \in Tables |-> {}] /\ outcome = <<>> /\ runAge = "earlier"
    /\ receipts = FALSE
    /\ phase = [j \in Jobs |-> "none"] /\ at = [j \in Jobs |-> 0]
    /\ written = [j \in Jobs |-> 0] /\ run = [j \in Jobs |-> 0] /\ tries = [j \in Jobs |-> 0]
    /\ keys = {}
    /\ api = [q \in Requests |-> "idle"] /\ maint = "idle" /\ stalledRun = 0
    /\ faults = 0 /\ reprocessed = 0 /\ uploaded = FALSE

-----------------------------------------------------------------------------
(* Statements.  An UPDATE or DELETE whose row is gone changes nothing.     *)

SetStatus(s) == status' = IF exists THEN s ELSE status
SetError(e) == error' = IF exists THEN e ELSE error
SetOutcome(r, o) == outcome' = IF exists /\ r \in DOMAIN outcome
                               THEN [outcome EXCEPT ![r] = o] ELSE outcome

\* DELETE FROM clips, with everything that references the clip ON DELETE CASCADE.
DeleteRow ==
    /\ exists' = FALSE
    /\ rows' = [t \in Tables |-> {}]
    /\ outcome' = <<>>
    /\ UNCHANGED <<status, error, age, files, runAge, receipts>>

\* enqueue_job under an id no job has.
Enqueue(j) ==
    /\ phase[j] = "none"
    /\ phase' = [phase EXCEPT ![j] = "queued"]
    /\ keys' = keys \cup {j}
    /\ UNCHANGED <<at, written, run, tries>>

\* The job function has returned, raised or timed out: arq is done with the id.
Over(j) ==
    /\ phase' = [phase EXCEPT ![j] = "none"]
    /\ at' = [at EXCEPT ![j] = 0]
    /\ written' = [written EXCEPT ![j] = 0]
    /\ run' = [run EXCEPT ![j] = 0]
    /\ tries' = [tries EXCEPT ![j] = 0]
    /\ keys' = keys \ {j}

GoTo(j, p, i) ==
    /\ phase' = [phase EXCEPT ![j] = p]
    /\ at' = [at EXCEPT ![j] = i]
    /\ written' = [written EXCEPT ![j] = 0]

-----------------------------------------------------------------------------
(* The job: process_clip_job.                                              *)

\* arq picks the job up, or gives it up after job_max_attempts.
Dequeue(j) ==
    /\ phase[j] = "queued"
    /\ IF tries[j] < MaxTries
       THEN /\ GoTo(j, "reset", 1)
            /\ tries' = [tries EXCEPT ![j] = @ + 1]
            /\ UNCHANGED <<run, keys>>
       ELSE Over(j)
    /\ UNCHANGED <<clipVars, otherVars>>

\* _reset_derived_data, one DELETE (or the UPDATE of auto_tags) at a time.
Reset(j) ==
    /\ phase[j] = "reset"
    /\ rows' = [t \in Tables |-> IF t \in Cleared(ResetOrder[at[j]]) THEN {} ELSE rows[t]]
    /\ IF at[j] < Len(ResetOrder) THEN GoTo(j, "reset", at[j] + 1) ELSE GoTo(j, "begin", 0)
    /\ UNCHANGED <<exists, status, error, age, files, outcome, runAge, receipts,
                   run, tries, keys, otherVars>>

\* INSERT INTO processing_runs, outside the try: without its clip it is a foreign key error
\* that ends the job.
Begin(j) ==
    /\ phase[j] = "begin"
    /\ \/ /\ exists /\ Len(outcome) < MaxRuns
          /\ outcome' = Append(outcome, "running")
          /\ runAge' = "recent"
          /\ run' = [run EXCEPT ![j] = Len(outcome) + 1]
          /\ GoTo(j, "status", FirstOf(StagesAfter(0)))
          /\ UNCHANGED <<tries, keys>>
       \/ /\ ~exists
          /\ Over(j)
          /\ UNCHANGED <<outcome, runAge>>
    /\ UNCHANGED <<exists, status, error, age, files, rows, receipts, otherVars>>

\* UPDATE clips SET status=<stage>
EnterStage(j) ==
    /\ phase[j] = "status"
    /\ SetStatus(AllStages[at[j]])
    /\ GoTo(j, "stage", at[j])
    /\ UNCHANGED <<exists, error, age, files, rows, outcome, runAge, receipts,
                   run, tries, keys, otherVars>>

NextStage(j) ==
    IF StagesAfter(at[j]) = {}
    THEN GoTo(j, "success", 0)
    ELSE GoTo(j, "status", FirstOf(StagesAfter(at[j])))

\* One write of the stage is done.
Advance(j) ==
    IF written[j] + 1 < Len(Writes[AllStages[at[j]]])
    THEN /\ written' = [written EXCEPT ![j] = @ + 1]
         /\ UNCHANGED <<phase, at>>
    ELSE NextStage(j)

\* The insert meets its table's constraints: a clip to refer to, no other row where only one
\* may be, and for utterances and words the transcript and utterances this run inserted.
Insertable(j, t) ==
    /\ exists
    /\ t \in Unique => rows[t] = {}
    /\ t = "utterances" => run[j] \in rows["transcripts"]
    /\ t = "words" => run[j] \in rows["utterances"]

\* The stage's next write.  auto_tags is an UPDATE, and a failure to tag is only a warning.
Write(j) ==
    /\ phase[j] = "stage"
    /\ LET w == Writes[AllStages[at[j]]][written[j] + 1]
       IN  \/ /\ w \in {"work", "exports"}
              /\ files' = files \cup {w}
              /\ UNCHANGED rows
           \/ /\ w = "nothing"
              /\ AllStages[at[j]] = "VALIDATING" => exists /\ "raw" \in files
              /\ UNCHANGED <<files, rows>>
           \/ /\ w = "auto_tags"
              /\ rows' \in {rows, [rows EXCEPT ![w] = IF exists THEN {run[j]} ELSE @]}
              /\ UNCHANGED files
           \/ /\ w \in Tables \ {"auto_tags"}
              /\ Insertable(j, w)
              /\ rows' = [rows EXCEPT ![w] = @ \cup {run[j]}]
              /\ UNCHANGED files
    /\ Advance(j)
    /\ UNCHANGED <<exists, status, error, age, outcome, runAge, receipts,
                   run, tries, keys, otherVars>>

\* Something raises inside the try: a stage, a statement around it, or the event that tells
\* about it, the last one too, which is sent when clip and run are settled.
Raise(j) ==
    /\ phase[j] \in RaiseAt
    /\ GoTo(j, "fail", 0)
    /\ UNCHANGED <<clipVars, run, tries, keys, otherVars>>

\* RejectError: the clip is told first, the run after it.
Reject(j) ==
    /\ phase[j] = "stage"
    /\ AllStages[at[j]] \in Rejecting /\ written[j] = 0
    /\ SetStatus("REJECTED") /\ SetError("Rejected")
    /\ GoTo(j, "reject", 0)
    /\ UNCHANGED <<exists, age, files, rows, outcome, runAge, receipts,
                   run, tries, keys, otherVars>>

RejectRun(j) ==
    /\ phase[j] = "reject"
    /\ SetOutcome(run[j], "rejected")
    /\ GoTo(j, "announce", 0)
    /\ UNCHANGED <<exists, status, error, age, files, rows, runAge, receipts,
                   run, tries, keys, otherVars>>

\* A finished pipeline tells the run first, the clip after it.
Success(j) ==
    /\ phase[j] = "success"
    /\ SetOutcome(run[j], "success")
    /\ GoTo(j, "complete", 0)
    /\ UNCHANGED <<exists, status, error, age, files, rows, runAge, receipts,
                   run, tries, keys, otherVars>>

Complete(j) ==
    /\ phase[j] = "complete"
    /\ SetStatus("COMPLETE")
    /\ GoTo(j, "announce", 0)
    /\ UNCHANGED <<exists, error, age, files, rows, outcome, runAge, receipts,
                   run, tries, keys, otherVars>>

\* except Exception: the clip, then the run, then the exception goes on to arq, which does
\* not try a job that raised again.
Fail(j) ==
    /\ phase[j] = "fail"
    /\ SetStatus("FAILED") /\ SetError("Exception")
    /\ GoTo(j, "failrun", 0)
    /\ UNCHANGED <<exists, age, files, rows, outcome, runAge, receipts,
                   run, tries, keys, otherVars>>

FailRun(j) ==
    /\ phase[j] = "failrun"
    /\ SetOutcome(run[j], "failed")
    /\ GoTo(j, "finish", 0)
    /\ UNCHANGED <<exists, status, error, age, files, rows, runAge, receipts,
                   run, tries, keys, otherVars>>

\* The last event is sent, the graph rebuild scheduled, and arq notes that the job is over.
Finish(j) ==
    /\ phase[j] \in {"announce", "finish"}
    /\ Over(j)
    /\ UNCHANGED <<clipVars, otherVars>>

\* A plausible mistake: taking a timeout for a loss that arq makes up for.
TimeoutIsRetried(j) ==
    /\ phase[j] \in TimeoutAt
    /\ GoTo(j, "queued", 0)
    /\ run' = [run EXCEPT ![j] = 0]
    /\ UNCHANGED <<tries, keys, clipVars, otherVars>>

\* arq's job_timeout cancels the coroutine past `except Exception`, and is final.  So is what
\* raises outside the try: in the reset, the INSERT of the run, or the handler itself.
Timeout(j) ==
    /\ phase[j] \in TimeoutAt
    /\ Over(j)
    /\ UNCHANGED <<clipVars, otherVars>>

-----------------------------------------------------------------------------
(* Losses.                                                                 *)

Fault(f) == f \in Faults /\ faults < MaxFaults /\ faults' = faults + 1

\* The worker dies or is told to stop: arq will run again whatever still has its key.
LoseWorker ==
    /\ Fault("worker")
    /\ \E j \in Jobs : phase[j] \in Active
    /\ phase' = [j \in Jobs |-> IF phase[j] \notin Active THEN phase[j]
                                ELSE IF j \in keys THEN "queued" ELSE "none"]
    /\ at' = [j \in Jobs |-> 0]
    /\ written' = [j \in Jobs |-> 0]
    /\ run' = [j \in Jobs |-> 0]
    /\ tries' = [j \in Jobs |-> IF j \in keys THEN tries[j] ELSE 0]
    /\ maint' = "idle" /\ stalledRun' = 0
    /\ UNCHANGED <<clipVars, keys, api, reprocessed, uploaded>>

\* The api process dies between two statements of a request.
LoseApi ==
    /\ Fault("api")
    /\ \E q \in Requests : api[q] # "idle"
    /\ api' = [q \in Requests |-> "idle"]
    /\ UNCHANGED <<clipVars, jobVars, maint, stalledRun, reprocessed, uploaded>>

\* Redis is flushed, or restarts without persistence.
FlushRedis ==
    /\ Fault("redis")
    /\ keys # {}
    /\ keys' = {}
    /\ phase' = [j \in Jobs |-> IF phase[j] = "queued" THEN "none" ELSE phase[j]]
    /\ tries' = [j \in Jobs |-> IF phase[j] = "queued" THEN 0 ELSE tries[j]]
    /\ UNCHANGED <<clipVars, at, written, run, api, maint, stalledRun, reprocessed, uploaded>>

-----------------------------------------------------------------------------
(* The api.                                                                *)

Step(q, from, to) == api[q] = from /\ api' = [api EXCEPT ![q] = to]
apiUnchanged == <<maint, stalledRun, faults>>

\* ingest_clip: the row, then the file in its place, then the job.
UploadRow(q) ==
    /\ Step(q, "idle", "up_raw")
    /\ ~uploaded /\ uploaded' = TRUE
    /\ exists' = TRUE
    /\ UNCHANGED <<status, error, age, files, rows, outcome, runAge, receipts,
                   jobVars, apiUnchanged, reprocessed>>

UploadFile(q) ==
    /\ Step(q, "up_raw", "up_enqueue")
    /\ files' = files \cup {"raw"}
    /\ UNCHANGED <<exists, status, error, age, rows, outcome, runAge, receipts,
                   jobVars, apiUnchanged, reprocessed, uploaded>>

UploadEnqueue(q) ==
    /\ Step(q, "up_enqueue", "idle")
    /\ \E j \in Jobs : Enqueue(j)
    /\ UNCHANGED <<clipVars, apiUnchanged, reprocessed, uploaded>>

\* reprocess_clip, and the same statements in the bulk action.
ReprocessCheck(q) ==
    /\ Step(q, "idle", "rep_status")
    /\ exists
    /\ status \in ReprocessAt
    /\ reprocessed < MaxReprocess /\ reprocessed' = reprocessed + 1
    /\ UNCHANGED <<clipVars, jobVars, apiUnchanged, uploaded>>

ReprocessStatus(q) ==
    /\ Step(q, "rep_status", "rep_enqueue")
    /\ SetStatus("QUEUED") /\ SetError("none")
    /\ UNCHANGED <<exists, age, files, rows, outcome, runAge, receipts,
                   jobVars, apiUnchanged, reprocessed, uploaded>>

ReprocessEnqueue(q) ==
    /\ Step(q, "rep_enqueue", "idle")
    /\ \E j \in Jobs : Enqueue(j)
    /\ UNCHANGED <<clipVars, apiUnchanged, reprocessed, uploaded>>

\* _delete_one: the files, the row, the receipt.
DeleteFetch(q) ==
    /\ Step(q, "idle", "del_files")
    /\ MayDelete /\ exists
    /\ UNCHANGED <<clipVars, jobVars, apiUnchanged, reprocessed, uploaded>>

DeleteFiles(q) ==
    /\ Step(q, "del_files", "del_row")
    /\ files' = {}
    /\ UNCHANGED <<exists, status, error, age, rows, outcome, runAge, receipts,
                   jobVars, apiUnchanged, reprocessed, uploaded>>

DeleteClip(q) ==
    /\ Step(q, "del_row", "del_receipt")
    /\ DeleteRow
    /\ UNCHANGED <<jobVars, apiUnchanged, reprocessed, uploaded>>

DeleteReceipt(q) ==
    /\ Step(q, "del_receipt", "idle")
    /\ receipts' = TRUE
    /\ UNCHANGED <<exists, status, error, age, files, rows, outcome, runAge,
                   jobVars, apiUnchanged, reprocessed, uploaded>>

-----------------------------------------------------------------------------
(* The maintenance tick.                                                   *)

maintUnchanged == <<api, faults, reprocessed, uploaded>>
Pass(from, to) == maint = from /\ maint' = to
Latest == Len(outcome)

\* A plausible mistake: not asking whether the latest run has finished.
StalledThoughFinished ==
    /\ exists /\ status \notin {"QUEUED"} \cup Terminal
    /\ outcome # <<>> /\ runAge = "old"

\* recover_stalled: clips mid-pipeline whose latest run is unfinished and past the cutoff.
Stalled ==
    /\ exists /\ status \notin {"QUEUED"} \cup Terminal
    /\ outcome # <<>> /\ outcome[Latest] = "running" /\ runAge = "old"

SelectStalled ==
    /\ Pass("idle", IF Stalled THEN "stall_clip" ELSE "orphans")
    /\ stalledRun' = IF Stalled THEN Latest ELSE 0
    /\ UNCHANGED <<clipVars, jobVars, maintUnchanged>>

\* A plausible mistake: the statement's two texts swapped.
MarkStalledSwapped ==
    /\ Pass("stall_clip", "stall_run")
    /\ SetStatus("STALLED") /\ SetError("FAILED")
    /\ UNCHANGED <<exists, age, files, rows, outcome, runAge, receipts, jobVars,
                   stalledRun, maintUnchanged>>

MarkStalledClip ==
    /\ Pass("stall_clip", "stall_run")
    /\ SetStatus("FAILED") /\ SetError("STALLED")
    /\ UNCHANGED <<exists, age, files, rows, outcome, runAge, receipts, jobVars,
                   stalledRun, maintUnchanged>>

MarkStalledRun ==
    /\ Pass("stall_run", "orphans")
    /\ SetOutcome(stalledRun, "failed")
    /\ stalledRun' = 0
    /\ UNCHANGED <<exists, status, error, age, files, rows, runAge, receipts, jobVars,
                   maintUnchanged>>

\* A plausible mistake: an inner join, which drops the clips that never had a run.
OrphanedAfterRun ==
    exists /\ status = "QUEUED" /\ age # "young" /\ outcome # <<>> /\ runAge # "recent"

\* requeue_orphans: clips QUEUED past the grace, without a run in it and without a key.
Orphaned == exists /\ status = "QUEUED" /\ age # "young" /\ (outcome = <<>> \/ runAge # "recent")

SelectOrphans ==
    /\ Pass("orphans", IF Orphaned THEN "orphan_key" ELSE "retention")
    /\ UNCHANGED <<clipVars, jobVars, stalledRun, maintUnchanged>>

\* A plausible mistake: requeueing without a look at Redis.
LookForNoKey ==
    /\ Pass("orphan_key", "orphan_enqueue")
    /\ UNCHANGED <<clipVars, jobVars, stalledRun, maintUnchanged>>

LookForKey ==
    /\ Pass("orphan_key", IF keys = {} THEN "orphan_enqueue" ELSE "retention")
    /\ UNCHANGED <<clipVars, jobVars, stalledRun, maintUnchanged>>

RequeueOrphan ==
    /\ Pass("orphan_enqueue", "retention")
    /\ \E j \in Jobs : Enqueue(j)
    /\ UNCHANGED <<clipVars, stalledRun, maintUnchanged>>

\* enforce_retention: the same three steps a person's delete takes.
SelectExpired ==
    /\ Pass("retention", IF exists /\ age = "expired" /\ status \in Terminal
                         THEN "ret_files" ELSE "idle")
    /\ UNCHANGED <<clipVars, jobVars, stalledRun, maintUnchanged>>

ExpireFiles ==
    /\ Pass("ret_files", "ret_row")
    /\ files' = {}
    /\ UNCHANGED <<exists, status, error, age, rows, outcome, runAge, receipts, jobVars,
                   stalledRun, maintUnchanged>>

\* A plausible mistake: retention that forgets the receipt.
ExpireRowOnly ==
    /\ Pass("ret_row", "idle")
    /\ DeleteRow
    /\ UNCHANGED <<jobVars, stalledRun, maintUnchanged>>

ExpireRow ==
    /\ Pass("ret_row", "ret_receipt")
    /\ DeleteRow
    /\ UNCHANGED <<jobVars, stalledRun, maintUnchanged>>

ExpireReceipt ==
    /\ Pass("ret_receipt", "idle")
    /\ receipts' = TRUE
    /\ UNCHANGED <<exists, status, error, age, files, rows, outcome, runAge, jobVars,
                   stalledRun, maintUnchanged>>

-----------------------------------------------------------------------------
(* Time, as far as maintenance's WHERE clauses tell it apart.              *)

\* The grace is longer than an upload's tail, which is what the code sets it for.
ClipAgesOn ==
    /\ ClipAges /\ exists
    /\ \/ /\ age = "young"
          /\ \A q \in Requests : api[q] \notin {"up_raw", "up_enqueue"}
          /\ age' = "aged"
       \/ /\ age = "aged" /\ Retention
          /\ age' = "expired"
    /\ UNCHANGED <<exists, status, error, files, rows, outcome, runAge, receipts,
                   jobVars, otherVars>>

\* A plausible mistake: a cutoff below job_timeout_s, the floor of stall_cutoff_s left out.
PastCutoffNoFloor == maint = "idle"

\* stall_cutoff_s is at least job_timeout_s + 60: when a run is that old, every job that had
\* begun its run by then is over.  A tick is cancelled at job_timeout_s too, and reads the
\* cutoff at its start only.
PastCutoff ==
    /\ maint = "idle"
    /\ \A j \in Jobs : phase[j] \in Active => run[j] = 0
    /\ PromptRetry => \A j \in Jobs : phase[j] \notin {"queued", "reset", "begin"}

RunAgesOn ==
    /\ outcome # <<>>
    /\ \/ runAge = "recent" /\ runAge' = "earlier"
       \/ runAge = "earlier" /\ PastCutoff /\ runAge' = "old"
    /\ UNCHANGED <<exists, status, error, age, files, rows, outcome, receipts,
                   jobVars, otherVars>>

-----------------------------------------------------------------------------
JobStep(j) ==
    \/ Dequeue(j) \/ Reset(j) \/ Begin(j) \/ EnterStage(j) \/ Write(j) \/ Raise(j)
    \/ Reject(j) \/ RejectRun(j) \/ Success(j) \/ Complete(j) \/ Fail(j) \/ FailRun(j)
    \/ Finish(j)

Ask(q) == UploadRow(q) \/ ReprocessCheck(q) \/ DeleteFetch(q)

Serve(q) ==
    \/ UploadFile(q) \/ UploadEnqueue(q) \/ ReprocessStatus(q) \/ ReprocessEnqueue(q)
    \/ DeleteFiles(q) \/ DeleteClip(q) \/ DeleteReceipt(q)

Maintain ==
    \/ SelectStalled \/ MarkStalledClip \/ MarkStalledRun
    \/ SelectOrphans \/ LookForKey \/ RequeueOrphan
    \/ SelectExpired \/ ExpireFiles \/ ExpireRow \/ ExpireReceipt

Lose == LoseWorker \/ LoseApi \/ FlushRedis

Next ==
    \/ \E j \in Jobs : JobStep(j) \/ Timeout(j)
    \/ \E q \in Requests : Ask(q) \/ Serve(q)
    \/ Maintain \/ Lose \/ ClipAgesOn \/ RunAgesOn

\* The worker polls its queue, the cron fires every five minutes, a request that was begun
\* goes on, and time passes, between the ticks too (SF).  Nobody has to upload, reprocess or
\* delete, or to lose anything.
Fairness ==
    /\ \A j \in Jobs : WF_vars(JobStep(j))
    /\ \A q \in Requests : WF_vars(Serve(q))
    /\ WF_vars(Maintain) /\ WF_vars(ClipAgesOn) /\ SF_vars(RunAgesOn)

Spec == Init /\ [][Next]_vars
FairSpec == Spec /\ Fairness

-----------------------------------------------------------------------------
Running == {j \in Jobs : phase[j] \in Active}

\* The jobs that still have something to write to the clip, unless their last event raises.
Working == {j \in Jobs : phase[j] \in Active \ {"reject", "failrun", "announce", "finish"}}

\* Those, and the jobs that are still to come or to come back.
Pending == Working \cup {j \in Jobs : phase[j] = "queued"}

Deleting == (\E q \in Requests : api[q] \in {"del_row", "del_receipt"})
            \/ maint \in {"ret_row", "ret_receipt"}

\* A COMPLETE clip that no job has still to work on shows one analysis and the whole of it: every
\* derived table holds the rows of the latest run and of no other, that run succeeded, and
\* the files it wrote are there.  (Tags may be missing: failing to tag is not failing.)
CompleteIsWhole ==
    exists /\ status = "COMPLETE" /\ Pending = {} /\ ~Deleting =>
        /\ outcome[Latest] = "success"
        /\ \A t \in TablesInScope \ {"auto_tags"} : rows[t] = {Latest}
        /\ rows["auto_tags"] \subseteq {Latest}
        /\ \A s \in Stages : \A i \in DOMAIN Writes[s] :
              Writes[s][i] \in Files => Writes[s][i] \in files

\* Whatever is queued, retried or requeued, one job at a time works on the clip.
OneJobAtATime == Cardinality(Working) <= 1

\* The outcome a run ends with stands: recover_stalled never overrules a run that finished,
\* and no job writes to a run recover_stalled gave up.  Only the job of the run itself may
\* take a success or a rejection back, when it cannot tell about it.
OutcomeStands ==
    [][\A r \in DOMAIN outcome \cap DOMAIN outcome' :
          outcome[r] # "running" /\ outcome'[r] # outcome[r] =>
              /\ outcome[r] \in {"success", "rejected"} /\ outcome'[r] = "failed"
              /\ \E j \in Jobs : run[j] = r /\ phase[j] = "failrun"]_vars

\* recover_stalled only ever fails a clip that no job is working on.
StalledOnlyWhenLost ==
    [][error' = "STALLED" /\ error # "STALLED" => Working = {}]_vars

\* A clip never stays in the middle: it is analysed, rejected, failed or deleted, whatever
\* worker, job or api process is lost on the way.
EventuallySettled == exists ~> (~exists \/ status \in Terminal)

\* Every clip that was deleted has its receipt, once the deletion is through.
ReceiptForEveryDeletion == uploaded /\ ~exists /\ ~Deleting => receipts
=============================================================================
