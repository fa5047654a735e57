# Voice Intelligence Workbench: a verification project

TLA+ models, TLC runs and TLAPS proofs of the Voice Intelligence Workbench: an offline system
that ingests audio clips, runs them through a pipeline of models on a worker (validation,
preprocessing, transcription, diarization, attribution, embedding, speaker identification,
tagging), keeps the results in PostgreSQL, mirrors them into a Neo4j graph, transcribes a live
microphone, and answers questions about the corpus through a tool-using agent.

## 1. Inventory

| Component | State it keeps | Operations | Talks to |
|---|---|---|---|
| API (`src/api/app`) | none of its own; rows, files, Redis jobs | upload, reprocess, delete, assign, promote, merge, settings, search, ask | PostgreSQL, data directory, arq queue in Redis, agent's model |
| Job queue (`services/queue.py`, arq) | `arq:job:*` keys, attempt counters | enqueue, run, retry after a lost worker, cancel at `job_timeout` | API → worker |
| Pipeline (`worker/pipeline.py`, `stages/*`) | clip status, `processing_runs`, derived tables, work and export files | `process_clip`: reset, insert run, ten stages, settle | DB, files, lane, events |
| Model lanes (`worker/lane.py`) | `_held`, `_waiters` | acquire, release, hold, step aside, cancel | every job that touches a model |
| Model pool (`worker/pool.py`) | `_cache` of loaded models | load, lazy get, evict on VRAM exhaustion | jobs' threads |
| Maintenance (`worker/maintenance.py`) | none | recover_stalled, requeue_orphans, enforce_retention, backfill_tags, consolidate | DB, queue, files, lane |
| Audit trail (`common/audit.py`) | `audit_log` hash chain | audit | every mutating handler, the worker |
| Graph projection (`common/graph_sync.py`, `main.graph_sync_job`) | Redis lock, window job ids, Neo4j | schedule, resync, rebuild | API, worker |
| Speaker identity (`common/speaker.py`, `services/speaker_ops.py`, `routers/speakers.py`, `routers/clusters.py`) | profiles, enrolments, clusters, `clip_speakers` attribution | identify, assign, enrol, promote, merge, dismiss, consolidate, reidentify | API, pipeline, worker |
| Embedding space (`worker/reembed.py`) | column dimension, stored stamp, vectors | ensure_space at worker start | DB |
| Ingest (`services/ingest.py`) | temporary file, clip row, raw file | ingest_clip | API, files, DB, queue |
| Live channel (`routers/live.py`, `main.transcribe_live_chunk_job`) | per-session language lock | upload chunk, transcribe chunk | queue, Whisper lane, events |
| Events (`common/events.py`, `routers/ws.py`) | Redis pub/sub | emit, subscribe | worker, agent → browser |
| Model downloads (`routers/models.py`) | `_inflight`, `downloaded_models`, files, the process's `HF_HUB_OFFLINE` | pull, list, activate | API, worker at its start |
| Agent (`services/agent.py`, `routers/agent.py`) | the conversation of one question | normalise history, tool loop of two kinds of provider, nudges, relieve, compact | model provider, search, graph, events |
| Settings (`common/config.py`, `routers/admin.py`) | override rows, as text | patch, reset, get_effective_settings | everyone |
| Signal algorithms (`stages/diarize.py`, `reconcile.py`, `transcribe.py`, `postprocess.py`, `embed.py`, `recluster.py`, `speaker.py`) | none | pure functions on turns, words, vectors | pipeline |
| Web client (`src/web`) | browser state | pages | API |

**What is hard.** The queue may run two jobs of one clip at once; a job is a long sequence of
single-statement transactions that a crash, a worker restart or arq's timeout may cut anywhere;
maintenance reads a set of rows and acts on each of them later; a thread started by
`asyncio.to_thread` outlives the task that awaits it; the audit chain, the graph rebuild and the
speaker tables are read-then-write across processes with no transaction around them.

**What makes each component correct.**

| Component | Properties |
|---|---|
| Model lanes | one thread in a model; the lane is never lost and never held twice; interactive first, oldest first, nobody barges; a person's chunk is always served |
| Clip pipeline, queue, maintenance | a COMPLETE clip shows one whole analysis; one job at a time works on a clip; the outcome a run ends with stands; only lost runs are called stalled; a clip always settles; a deletion leaves a receipt |
| Graph projection | rebuilds never interleave; nothing written before a request that got through is left out for good; the graph catches up with what was asked for |
| Speaker identity | attributions are what today's enrolments say; transcripts agree with the clip's speakers; a person's decision is kept; the pool of the unnamed is what its list shows; no dangling reference |
| Audit trail | one chain: every row but the newest has a successor that names it (the code does not keep this) |
| Embedding space, settings | a worker that takes jobs compares vectors of one model; a migration cut short anywhere loses no COMPLETE clip's voice unreported; what a patch accepts can be read back |
| Model downloads | what is listed as downloaded or activated is on disk; the api is offline when no download runs |
| Agent | every request is one a provider accepts; results are trimmed oldest first; nothing unsearched is returned; the requests of a turn are bounded |
| Signal algorithms | windowed scans find what comparing all pairs finds; a word goes to the turn it shares most with; cutting loses nothing and keeps its limits; a turn too short to judge disqualifies nobody else's |
| Model pool (not modelled) | a model in use is not evicted; one instance of each |
| Live channel (not modelled) | the language lock follows the latest chunk that was sure |

## 2. Plan

Order: what every job goes through first, then what its results mean, then the rest.

1. `PriorityLane` (abstract) and `ModelLane` (the code), the refinement and its proofs: **done**.
2. `ClipLifecycle`, which composes api, queue, worker and maintenance around one clip, and the proofs
   of all its safety properties: **done**.
3. `GraphSync` and its proofs: **done**.
4. `Speakers`, whose pipeline and pass go step by step, and the proofs of its five invariants:
   **done**. A later version cuts the handlers into statements.
5. `ModelSwitch`, which composes downloads, settings, the worker's start and the store of
   voiceprints it rebuilds, and its proofs: **done**.
6. `AgentTurn` and its proofs, of what a turn returns, of the form of its requests, of their trimming
   and of their number: **done**.
7. `Turns`, `Cuts` and `ClipAlgorithms`, the computations on turns, words and windows against
   reference definitions, over every small input in one run and over every input in the proofs:
   **done**.
8. `AuditChain`: **done**; a lock around its two statements would make it a refinement of an
   append-only log, which the code does not have.
9. `LiveLanguage` (the chunk loop's language lock), `ModelPool` (two lanes' threads, loading and
   eviction), deduplication of uploads: planned.

## 3. Modules

| Module | Models | EXTENDS / composes |
|---|---|---|
| `PriorityLane` | what a lane promises: an owner, a queue, interactive first | |
| `ModelLane` | `worker/lane.py` and the jobs, threads and coroutines that use it | INSTANCE `PriorityLane` |
| `MCModelLane` | model values of the lane's runs | `ModelLane` |
| `ModelLaneProofs` | theorems on the lane | `ModelLane`, TLAPS |
| `ClipLifecycle` | upload, `process_clip`, reprocess, delete, the maintenance tick | |
| `ClipLifecycleProofs` | theorems on the clip | `ClipLifecycle`, TLAPS |
| `GraphSync` | `graph_sync.resync`, `schedule`, `graph_sync_job`, `rebuild`, the admin endpoint | |
| `GraphSyncProofs` | theorems on the graph | `GraphSync`, TLAPS |
| `Speakers` | the speaker endpoints, identify, clusters, the re-identification pass | |
| `MCSpeakers` | what each voiceprint of the speaker runs sounds like | `Speakers`, TLC |
| `SpeakersProofs` | theorems on who is named where | `Speakers`, TLAPS |
| `ModelSwitch` | pull and activate, settings, the worker's start, `ensure_space`, enrolments meanwhile | |
| `MCModelSwitch` | the widths of two of the three models | `ModelSwitch`, TLC |
| `ModelSwitchProofs` | theorems on the switch | `ModelSwitch`, TLAPS |
| `AgentTurn` | one question to the agent: history, both tool loops, errors, nudges, compaction | |
| `AgentTurnProofs` | theorems on what a turn asks for and returns | `AgentTurn`, `Induction`, TLAPS |
| `Induction` | induction, recursion and folds over the natural numbers, as lemmas on sets | TLAPS |
| `Sorting` | Python's `sorted`, by what it promises (external) | |
| `Turns` | operators of `diarize.py`, `reconcile.py`, `postprocess.py` | `Sorting` |
| `Cuts` | operators of `transcribe.py`, `recluster.py`, `embed.py` | `Sorting` |
| `ClipAlgorithms` | the stages that use them, each on any input within its bounds | `Turns`, `Cuts` |
| `MCClipAlgorithms` | edges and words of the algorithms' runs, the symmetry of two voices | `ClipAlgorithms`, TLC |
| `ClipAlgorithmsProofs` | theorems on what the stages compute | `ClipAlgorithms`, `Induction`, TLAPS |
| `AuditChain` | `audit()`: read the last hash, insert the next row | |

An operator introduced as a *plausible* (or *past*) *mistake* is a variant of the definition that
follows it. No specification uses it: each is the mutant with which the property it is aimed at
was tried out, and found violated.

### ModelLane

A step is what the event loop does between two awaits, or what a `to_thread` thread does between
two windows. `held` and `waiters` are `_held` and `_waiters`; a client is a job's task or the
`_step_aside` coroutine its thread posted; the heap's sequence numbers are the relation `ahead`.
`AcquireFree`/`AcquireWait` are `acquire`'s two paths, `WakeCancelled`/`HandOn` its `except`
clause, `Release` the loop that skips dead entries. `CancelInside` (a timeout while the job
is inside a model) is only part of `TimeoutSpec`.

### ClipLifecycle

One clip, any number of jobs of it. Every statement commits by itself, so an action is one SQL
statement, one file written or one Redis command. `rows[t]` is the set of runs whose rows table
`t` holds, so a mixture is visible; `Cleared` is the schema's ON DELETE CASCADE. `phase` follows
`process_clip` from `_reset_derived_data` to the last event (`announce`). Whatever raises inside the
`try` (`Guarded`: a stage, the statements around it, the events, the one after COMPLETE or
REJECTED included) goes to `except Exception` (`Raise`, then `Fail` and `FailRun`), which may take
back an outcome already written; `RaiseAt` says where a run lets it happen. `Timeout` is arq's
cancellation (final), `LoseWorker` a lost worker (retried up to `MaxTries`), `FlushRedis` the loss of the
queue. `age` and `runAge` are what maintenance's WHERE clauses tell apart.

### GraphSync

`db` is what Postgres says of each item, `graph` what each projection has written of it. Some
writers change and then ask (`Change`), others never ask (`ChangeSilently`: a clip reprocessed,
failed, requeued or deleted for its age, an enrolment removed, clusters consolidated). A request
computes its window (`Ask`) and enqueues (`EnqueueRequest`) in two steps, or does not get through
(`AskFails`); arq drops an id it already holds (`Enqueued`). A job starts only after its window
(`_defer_until`), takes the lock or schedules again, wipes, and then fetches and writes one
projection after the other; it may fail before or inside the rebuild (`JobFails`, which the code
logs and forgets) or at the DEL of its lock (`UnlockFails`). `unasked`, a history variable, is what
has changed since the last request that got through, or was lost with a failed job: the properties
speak of all the rest. The admin endpoint (`AdminStart`) and the rebuild the api falls back to when it
cannot enqueue (`FallBack`) take no lock, and are part of `AdminSpec` only.

### Speakers

A voice is a row of `clip_speakers`; its turns' `utterances.profile_id` is `utt`, written by a
statement of its own everywhere in the code. A centroid is the set of enrolments it was computed
from: of one sound it matches that sound clearly, of several it matches each of them weakly, which
keeps identify's three results (and its demotion of barely heard voices) without its numbers.
`decided` is a history variable: what a person last said of a voice. Handlers are atomic. The
pipeline and `reidentify` are not: a voice is judged, and pooled, in IDENTIFYING (`HearIdentify`,
whose result stays in `speaker`, the run's memory), its row inserted (`HearRow`, or `HearFails` on a
foreign key) and its transcript written (`HearTranscript`) in POSTPROCESSING; a pass reads the rows
(`StartPass`), judges one (`Judge`), writes its row (`WriteRow`) and its transcript
(`WriteTranscript`). Which handlers come between two steps of a pass (`MayOverlap`), and which of
them, or which beginning of a pass, between two steps of the pipeline (`MayInterrupt`), are constants.

### ModelSwitch

A vector is the name of the model that made it; a voice that speaks too little to embed is `"short"`
(NULL with that reason, no failure), one emptied and not embedded again `"null"`, no row `"absent"`.
A request to pull is followed from its checks (`PullChecked`) to the last update of its task (`PullSettles`);
`DownloadStarts` and `DownloadEnds` are the part under `_download_lock`, in which `HF_HUB_OFFLINE`
of the whole process is lifted. `Start` is the worker's startup: it reads every override
(`Readable`), and loads the effective model. `ensure_space` is one action per transaction:
`InSpace` or `Retype`, which empties every clip's vectors, `SelectClips`, which picks the COMPLETE
ones (`complete`; a `Reprocess` takes a clip out of them), one `ReembedClip`
per clip, `RebuildEnrollments`, `RebuildCentroids`, `Stamp`, `Report`; `Crash` may come between any two, `ApiRestart` at any time. The
enrolment handler reads a voice (`EnrolRead`) and inserts it later (`EnrolInsert`), when the columns may have
another width. `begun` and `reverted` are history variables: the model of a migration under way,
and whether a start chose another.

### AgentTurn

`msgs` is the conversation of one question. A message keeps its role, the identifiers of the calls
it makes or answers, and whether a result was trimmed; its words are left out. What the model
replies is any sequence of calls (that run, raise, name no tool, or do not parse), any content,
and calls written as text; `Heard` is what the loop makes of it. `RefusesToolChoice`,
`BotchesToolCall` and `FindsTooLarge` are the errors the loop recovers from, `NudgeToSearch` and
`NudgeToAnswer` its two nudges, `Relieve` and `Compact` how it shrinks a request. The SDK's runner
(`Runner*`) is external and modelled by how `_run_anthropic` uses it.

### Turns, Cuts, ClipAlgorithms

Times are ticks. Loops that scan a moving window (`drop_onset_phantoms`, `annotate_overlaps`,
`assign_words`, `count_interruptions_all`) are translated with the window and the early exit, since
these are what could be wrong; the invariants state the quadratic definition. A loop over a list is
a fold whose step has a name (`Merge`, `SmoothAt`, `PutInLine`, `CountAt`, `PackRegion`,
`PutInGroup`); the recursion of `pieces` is a recursive function. `Sorted` is what `sorted` promises:
by key, what is equal as it stood. `ClipAlgorithms` has one action per stage, whose input is
anything the stage before may hand over. The length of a clip, the numbers of turns, words and rows,
the voices, the sets of edges that turns are snapped to and the words the decoder may find are
constants.

### AuditChain

A row is the number of its insertion, which stands for its hash, and the hash it read.

## 4. Runs

| Run | Checks | Distinct states |
|---|---|---|
| `lane` | one microphone, two batch jobs, cancelled waiters: type, mutual exclusion, ownership, order, no barging, service, refinement of `PriorityLane` | 52 thousand |
| `lane_timeout_two_threads` | violation: a timeout inside a model puts a second thread beside the first | |
| `clip_reprocess` | an upload and a reprocess of the settled clip, timeouts in every phase, errors in every phase before it is settled | 24 thousand |
| `clip_losses` | an upload, worker and api lost twice anywhere, stages timing out, errors in every phase, the last event's too; the clip settles | 370 thousand |
| `clip_deletion` | two people and the retention policy delete one clip, Redis flushed | 432 thousand |
| `graph_sync` | two requests that may fail, silent changes, two job slots, a worker lost or a job failed: exclusive rebuilds, nothing asked for left out | 1.02 million |
| `speakers` | two voices, a live turn, two profiles, two clusters, handlers between passes, enrolments during one, five handlers while the pipeline has a voice in hand | 478 thousand |
| `agent_turn` | any short history, every kind of reply, error and nudge on each kind of provider, in any order | 66 thousand |
| `algorithms` | every list of up to three turns or three words, every speech mask of five ticks | 130 thousand |
| `model_switch` | two models, a clip, a live enrolment, two downloads at once, crashes anywhere, enrolments and a reprocess in between | 4.6 million |
| `reembed_interrupted` | violation: an interrupted migration of a store that was never stamped loses every voiceprint | |
| `audit_fork` | violation: two rows with one predecessor, one of which can go without a trace | |

Configurations beside these, each of one property that the code does not keep, are listed in
section 6 with what they contradict.

### Bounds, and why they are enough

* **Lane.** Two batch jobs and one interactive one give every relative order of two priorities and
  two arrivals of one priority; two windows let a thread step aside and go on. Cancellation may
  strike every waiter at any moment, as often as it waits.
* **Clip.** Stages in scope are those with different ways to write (a file and two tables, one
  table, tables that refer to each other, one that only computes, one whose failure is a
  warning); the others repeat one of these. `MaxTries = 3` in the loss run is the configured
  number of attempts, `MaxFaults = 2` lets every attempt but the last be lost. Two job ids are
  enough for one queued beside one running.
* **Graph.** Two items, of which one can be renamed or deleted twice, and two projections tell an
  old row before the wipe from one after it. Three windows let one be running, one queued and one
  current. `MaxFaults = 1` is one lost worker, failed job or failed unlocking. The theorems do
  not depend on these numbers.
* **Speakers.** Two profiles and two clusters make merges and consolidations; a live turn of another
  sound makes mixed centroids, hence weak matches; one of the two voices is too faint to enrol. Two
  windows let one be passing and one current. Both voices may be in the pipeline's hand at once.
  Clusters and windows are interchangeable and no
  property is temporal, so the run uses their symmetry.
* **Model switch.** Two models of different widths, of the three the catalogue offers; two pulls of
  the other one overlap, fail and settle in either order. One clip and one live enrolment are the
  two kinds of enrolment; the clip may speak too little, fail before or after its row, complete
  and be reprocessed. The theorems hold for any number of models, clips and live turns.
* **Agent.** Three iterations hold a nudge, a call and an answer, or two calls and the last; two
  calls a reply are one more than a single-call provider keeps; histories of two turns are cut to
  three messages, so a cut falls between a question and its answer. Four thousand tokens let the
  reservation be lowered twice.
* **Algorithms.** Thresholds are one or two ticks of five, so that below, at and above each of them
  occurs; three turns let one be long, one a phantom and one short, three words let the middle one
  be smoothed, four rows overflow a batch. Speech is any list of regions with pauses between; turns
  are snapped to no edges or to three; words last one or two ticks; the first decoding's words start
  on every second tick. The two voices are interchangeable, since no stage looks at a label but to compare
  it, so the run uses their symmetry. The theorems do not depend on any of these bounds.
* **Audit.** Two writers and three rows: one forks, one follows.

### Fairness

* Lane: WF on each job's own steps. The event loop runs every ready callback, the operating system
  every thread. Nobody is obliged to send work.
* Clip: WF on each job (arq polls), on each request in progress, on the maintenance cron, on the clip's
  ageing; SF on the run's ageing, because a tick in progress disables it again and again while
  the wall clock goes on between ticks.
* Graph: WF on requests (to go on, or to fail), on taking a due job, on each job, on the clock's windows
  and on the lock's expiry. Changes are finitely many (`MaxChanges`), which is what "once the changes stop" means.
* Speakers, model switch, agent, algorithms, audit: safety only, no fairness. That a turn stops is
  stated as a bound on its requests, not as liveness.

### Assumptions about the environment

* arq: a timeout or an exception ends a job for good, a lost worker's job is run again up to
  `MaxTries` times; a job id already queued, running or with a kept result is not enqueued again.
* Clip: operators reprocess settled clips (`ReprocessAt`), except in `ClipReprocessBusy.cfg`, whose
  subject is the opposite. `PromptRetry`: a lost job restarts before its old run counts as stalled.
  The tail of an upload is shorter than the orphan grace, a maintenance tick shorter than the
  stall cutoff. The timeouts of `clip_losses` do not strike in the reset, before the run is
  inserted, before a stage's status, between outcome and status (the subject of
  `ClipTimeoutAtComplete.cfg`) or in the failure handler's first statement; errors may come at any
  statement of the `try`. In `clip_reprocess` it is the other way round: timeouts strike everywhere,
  and nothing raises once the clip says COMPLETE or REJECTED (`ClipReprocessLateRaise.cfg` is about
  that). `MaxFaults < MaxTries`: a job lost on all its attempts is not
  in scope. `clip_deletion` has one job id, which keeps a requeued job behind a running one.
* Graph: a rebuild ends before its job's timeout, which is below the lock's 900 s; worker and api
  share a clock. In `Spec` every rebuild is a job of the worker: the api's own (the admin endpoint, and
  the fall-back when Redis takes no request) are in `AdminSpec`. What nobody asked for, or what a
  failed job was to project, is outside the properties until the next request gets through
  (`GraphUnasked.cfg`).
* Speakers: handlers are atomic and one person acts at a time; one pass at a time;
  `auto_enroll` is off (the default); enrolling one voiceprint twice is enrolling it once; outlier
  marks and scores are abstracted; `MayOverlap` of the passing run holds the handlers that change
  enrolments but no row a pass has read, `MayInterrupt` those that touch no row or cluster the
  pipeline has yet to write, or that fail it (`HearFails`). With others the pass, or the pipeline,
  overwrites what they wrote: `SpeakersOverlap.cfg` and the four `Speakers_*.cfg` of section 6. Voices
  go through the pipeline each on its own, which includes the order of the code, where the voices of
  one clip go together; ids held in memory are not given again, as uuids are not. `PassFails` (a
  foreign key that went) belongs to that specification only, because in the other the references a pass writes cannot go.
* Model switch: one worker, as deployed; `StoreInOneSpace` needs models of different widths (the
  theorem says so: `OwnWidths`), `NoVoiceLost` a store that is stamped and a migration that is
  resumed with the model it began with (`reverted`), and it speaks of COMPLETE clips, the only ones that
  are embedded again; patches store integers. What happens otherwise is in section 6.
  Re-identification inside `ensure_space` is one step; `Speakers` has its pass. A clip's failure to re-embed is any exception.
* Agent: the model on the other side may reply anything; the SDK's tool runner appends to its
  conversation as its documentation says and stops at `max_iterations`; a request either gets a
  reply or an error (the SDK has timeouts). The ids of calls are the provider's and are taken to be
  distinct within a conversation. One question at a time: the turns share nothing.
* Algorithms: the diarizer hands turns over in order of start, the decoder words in order.
* Audit: distinct rows have distinct hashes.

## 5. Proofs

TLAPS checks every leaf of some 13,000 obligations. Each theorem holds for every value of the constants
that the `ASSUME` of its module admits (numbers are numbers, identities are told apart); where a
theorem has a hypothesis of its own, it is named here with the reason for it, and TLC finds the
property violated without it.

**ModelLane** (`ModelLaneProofs`, of `Spec`, in which cancellation strikes waiters and not jobs inside a
model; `TimeoutSpec` violates mutual exclusion, as the run shows). The properties are not
inductive. `IInv` adds what each task, future, thread and coroutine may be together (`TaskInv`),
that every live future has its entry in the heap and every entry is live or cancelled
(`HeapInv`), that `ahead` never orders two entries both ways (`OrderInv`) and that there is
at most one owner, exactly when the lane is held (`OwnerInv`). One lemma per action shows it
preserved. From it follow `TypeCorrect`, `LaneAccountedFor`, `ModelsAreSingleThreaded`,
`ThreadsOwnTheirLane`, `HandOversAreOrdered`, `NobodyBarges` (one lemma per step that can make
a job an owner), and `LaneImplementsPriorityLane`: every step maps to a step of the abstract lane
or to a stutter. Only `LaneConstants` is assumed.

**GraphSync** (`GraphSyncProofs`, of `Spec`, without the admin endpoint). `GraphTypeCorrect`; the
lock invariant gives `RebuildsAreExclusive`; `GraphCurrentWhenQuiet` needs an account of every change
that is not `unasked`: either a rebuild is *coming* (its request past the point where it may fail,
queued, deferred, or in a job that has not yet wiped), or the rebuild at work has read, or will read,
what Postgres says, or the graph already shows it. A job that fails with nothing queued behind it
makes every item `unasked` again, since the wiped graph may lack any of them. A request for a window
whose job is already running does not count as coming, because arq drops it: that such a request is never needed is exactly why `_defer_until` matters, and
why `StartUndeferred` (a job running inside its own window) violates the property. No property of the
numbers of writers, workers, windows, projections or losses is used.

**ModelSwitch** (`ModelSwitchProofs`, of `Spec`, for any models, clips, live turns and downloads).
Three inductive invariants rest on `SwitchTypeCorrect`. `CatalogInv`: a download found the api
offline, a finished one left its files, and files are never deleted; hence `CatalogStaysHonest`,
whose crux is that only one download runs at a time, so that what it restores is what it found.
`SpaceInv`: the columns fit the active model from `Retype` on, and whatever holds a vector holds one
that fits the columns, an enrolment in flight included, which the column refuses otherwise; with
`OwnWidths` that means one model, hence `StoreStaysInOneSpace`. `VoiceInv`: either the store is
settled (width and stamp agree, every lost voice was reported), or a migration is under way whose
model is not the stamp's, and then no start finds the store in order, every lost voice is still to
do or has failed, a voice being lost when its clip is COMPLETE and its vector was emptied and not
made again; hence `NoVoiceIsLost`, which assumes `FirstStamp = EnvModel`. Without it the first
disjunct fails in the initial state: that is the finding `reembed_interrupted`.

**ClipLifecycle** (`ClipLifecycleProofs`, of `Spec`, for any number of jobs, requests, runs and faults and
any stages in scope). Two theorems need no hypothesis. `TypesCorrect` rests on `TInv`, which says how
far a job of each phase can be in its stage. `OutcomesStand` rests on `RunInv`: a job in a phase
that writes an outcome owns a run nobody else has written, no two jobs own one run, a run that counts
as old is nobody's, and what recover_stalled has selected is such a run. What is left is a job that
takes its own success or rejection back (`FailRun` after a `Raise`), which the property allows because
the code does it. The others say something of
the environment the runs say too:

| Theorem | Under | Because |
|---|---|---|
| `OneJobWithoutReprocessing` | `MaxReprocess = 0`, Redis not flushed | the key turns a second job away, and only a flush removes the key of a job that lives |
| `StalledWithoutReprocessing` | the same, `PromptRetry` | a lost job that waits past the cutoff is called stalled and then runs |
| `CompleteWithoutReprocessing` | the same without `PromptRetry`, `MaxFaults < MaxTries`, no timeout in reset, begin, a stage's status or the handler's first statement | a job lost after COMPLETE comes back and clears the tables: it must get as far as setting the status |
| `OneJobWhenSettled`, `StalledWhenSettled`, `CompleteWhenSettled` | one request at a time, reprocessing of settled clips only, a young clip, only the api lost, nothing raises between the clip's last status and the end of its job | `ClipReprocessBusy.cfg` shows what a busy clip comes to, `ClipReprocessLateRaise.cfg` what a late error does |
| `DeletionsLeaveReceipts` | whoever deletes is not lost between row and receipt | section 6 |

`SingleJob` (every job has its key, so there is one; none while an upload is on its way or an orphan
was found without a key) is the invariant of the first three, `Settled` (at most one job is awaited,
none while somebody asks for one, and the status says whether one is) of the next three, for
whatever phase jobs time out in. `CompleteIsWhole` needs, with either, an account of the tables
(`WholeInv`): a job that is at table i of the reset has left the first i-1 empty, and one at write w
of stage k has written exactly what comes before, under its own run; what is done only grows
(`Progress`, `Holds`), and nothing else writes. `CompleteWithoutReprocessing` adds `TriesInv`: a try more
than the faults so far is never used up.

**Speakers** (`SpeakersProofs`, of `OverlapSpec`, in which a pass may fail, so of `Spec` too, as `NoFailingPass`
says). `MayOverlap`, the handlers that may come during a pass, and `MayInterrupt`, what may come while
the pipeline has a voice in hand, are constants: each theorem names what they must not hold, and
nothing else, so together they say which interleaving breaks what.

| Theorem | Not during a pass | Not while the pipeline has a voice | What would happen |
|---|---|---|---|
| `ReferencesExist` (`TypeOK`) | merge, delete | merge, delete | the name of a profile that went is written into the lines, which have no foreign key (`Speakers_TypeOK.cfg`) |
| `DecisionsStay` | assign | | the pass writes over what a person just decided (`SpeakersOverlap.cfg`) |
| `PoolsAreListed` | promote | promote | a voice is put into a cluster that has become a person (`Speakers_PoolIsListed.cfg`) |
| `TranscriptsAgree` | assign, promote, merge, delete, forget | assign, promote, merge, delete, a pass | lines and rows are written by two statements each (`Speakers_TranscriptAgrees.cfg`) |
| `EverybodyIsIdentified` | dismiss, consolidate | a pass | the cluster the pass is about to write is gone, it fails and no other follows; a pass reads the rows before the voice it should judge is inserted (`Speakers_IdentifiedEverywhere.cfg`) |

Common to all is `Base`: types, the windows of the queue, and that a pass only holds rows that are there.
`EverybodyIsIdentified` rests on `FreshInv`: either a pass is queued that has not read its rows, or every
voice outside the pass's work list, those in the pipeline's hand included, is attributed as the
enrolments say, because whoever changes an enrolment asks for a pass in a window that is not yet running.

**AgentTurn** (`AgentTurnProofs`, of `Spec`, for any bounds, histories and replies; no hypothesis). `TurnInv`
says what the model said last while the turn goes on: nothing, or narration beside a call that
has run. It gives `NothingUnsearchedIsReturned`. `ResultsAreTrimmedInOrder` says of the whole
conversation what `_compact` does to the results before the last assistant message.
`TurnsAreTyped` needs to know that a second attempt at a refused request is the only one
(`SecondAttempt`). `RequestsAreWellFormed` rests on `Conversation`, whose parts say of the messages that the
first is the user's, that only assistants call and only results have identifiers, that calls and
results match, and that a call and its results stand together (`Together`, which is what trimming and
compacting could break). `RequestsAreBounded` rests on a measure: requests made, batches of
results that can still be trimmed, halvings of the reservation and refusals left to learn from
never exceed twice the iterations and three. Its lemmas on joined sequences, and on the first and
last message of a kind, need induction, which `Induction` provides: it states induction, least
and greatest numbers and definition by recursion for *sets*, from the library's theorem that < is
well founded on Nat, since a theorem that takes a predicate cannot be instantiated here.

**ClipAlgorithms** (`ClipAlgorithmsProofs`, of `Spec`, for any thresholds, clip length, turns, voices, words,
regions and rows). Assumed of the constants: thresholds and bounds are natural numbers, a window and
the least piece are not empty, and the least piece is not longer than a piece (1.0 s and 2.5 s in
`recluster.py`), without which a piece could be cut that is too short. The inductive invariant is `Computed`: what a stage
made is its function of something the stage before can hand over. What remains is to say what the
functions return, which the four theorems do:

| Theorem | Along |
|---|---|
| `ScansMissNothing` | turns are in order of start, so what a window left behind starts too early for every later turn and what lies past an early exit starts too late (`LowEnd`, `Reached`); a turn that interrupts starts inside another speaker's turn exactly when the furthest end carried for that speaker is later (`CountAt`) |
| `ShortTurnsDisqualifyNobody` | every merged turn is made of long turns of its label and reaches from the first one's start to the last end among them; marking compares long turns only; snapping moves an end by no more than the tolerance, or leaves a sliver behind the start; the final sort keeps all there is |
| `WordsFollowTheVoices` | the words are in order, so a turn passed by the window ended before every later word begins; smoothing looks at three words of which the third is not yet smoothed; the lines, joined, are the words so far |
| `CutsLoseNothing` | windows stay in order and behind the regions still to come; what is cut of a long region is a grid; pieces by induction on what remains; a batch grows in order of size, so its last row is its longest; a word of a window that is not redone is lost only on the edge of one that is |

`Induction` gives each of these its induction: a fold over a list is unfolded once, as a lemma on the
function it builds, and every property of a loop is then proved for each number of rounds.

**Only model-checked.** Every liveness property (`EventuallySettled`, `GraphCatchesUp`,
`InteractiveServed`), because liveness under fairness and ENABLED are beyond the prover. Every
safety property of a passing run is stated by a theorem, some under the hypotheses above. The audit chain has a counterexample and
no theorem.

## 6. What disagrees

Three runs end in a violation; each quotes, in `PROJECT.json` under "findings", the sentence of the
repository that the code contradicts: two threads in a model after a timeout
(`lane_timeout_two_threads`); voiceprints lost by an interrupted migration (`reembed_interrupted`); a
forked audit chain (`audit_fork`). These configurations show fourteen more:

| Configuration | Property | What TLC finds | Against |
|---|---|---|---|
| `ModelLane_Served.cfg` (`MCModelLane`) | `InteractiveServed` | a timeout while a thread steps aside loses the lane for good | `lane.py:10` |
| `ClipReprocessBusy.cfg` (`ClipLifecycle`) | `CompleteIsWhole` | reprocessing a busy clip mixes two runs' rows in a COMPLETE clip | `ARCHITECTURE.md:105` |
| `ClipReprocessLateRaise.cfg` (`ClipLifecycle`) | `OneJobAtATime` | a clip is COMPLETE and reprocessed before its last event is sent; the event raises, and the old job writes FAILED while the new one works | `ARCHITECTURE.md:105` |
| `ClipTimeoutAtComplete.cfg` (`ClipLifecycle`) | `EventuallySettled` | a timeout between the run's outcome and the clip's status is never repaired | `maintenance.py:5` |
| `GraphAdminSync.cfg` (`GraphSync`) | `CurrentWhenQuiet` | the admin rebuild, which takes no lock, leaves old rows behind | `admin.py:252` |
| `GraphUnasked.cfg` (`GraphSync`) | `NothingLeftOut` | a change nobody asks a rebuild for, such as a clip being reprocessed, stays out of the graph | `graph_sync.py:384` |
| `SpeakersOverlap.cfg` (`MCSpeakers`) | `DecisionKept` | a running pass overwrites a person's attribution | `speaker.py:140` |
| `Speakers_IdentifiedEverywhere.cfg` (`MCSpeakers`) | `IdentifiedEverywhere` | a person is enrolled, and the whole pass runs, between a voice's IDENTIFYING and its row, which keeps the old verdict | `speaker.py:131` |
| `Speakers_TranscriptAgrees.cfg` (`MCSpeakers`) | `TranscriptAgrees` | an assignment between a voice's row and its transcript is overwritten in the transcript | `speaker.py:396` |
| `Speakers_PoolIsListed.cfg` (`MCSpeakers`) | `PoolIsListed` | a cluster chosen for a voice is promoted before the voice's row is inserted into it | `speaker.py:158` |
| `Speakers_TypeOK.cfg` (`MCSpeakers`) | `TypeOK` | a profile deleted between a voice's row and its transcript is named by the transcript | `speakers.py:156` |
| `ClipAlgorithms_Deleted.cfg` (`MCClipAlgorithms`) | `NothingSilentlyDeleted` | a long turn whose ends are snapped together becomes short and is dropped (`diarize.py:109`), not marked | `diarize.py:84` |
| `ModelSwitch_Failed.cfg` (`MCModelSwitch`) | `EveryVoiceAccounted` | a clip that failed after its row was written loses its voiceprint in a migration, and no summary tells | `reembed.py:1` |
| `ModelSwitch_Unreadable.cfg` (`MCModelSwitch`) | `AcceptedIsReadable` | a patch accepts `5.0` for an integer and stores text that no reader can parse, so every later start fails | `config.py:358` |

Smaller ones the models can reach, or that were met while reading, and that no run is devoted to:

* an api process lost between a deletion and its receipt leaves none;
* an event that cannot be published after a clip is COMPLETE or REJECTED turns clip and run FAILED, with
  every derived row in place;
* a job that runs while its clip is deleted writes `work/<clip_id>` again;
* `requeue_orphans` may put a second job on an old clip that is just being reprocessed, since
  it measures its grace from `created_at`;
* a job lost after COMPLETE clears the analysis when it is retried, and for good if it was its last try;
* a job whose retry waits past the cutoff is failed as STALLED and then runs all the same; a clip
  rerun after a failure may end COMPLETE with the old error code;
* a clip selected as expired may be reprocessed before its row is deleted; `backfill_tags` may
  mark a clip being reprocessed as tagged with nothing;
* batch work waits as long as interactive jobs keep arriving: the lane's heap has no ageing;
* no graph rebuild is asked for when a clip is reprocessed, fails, is stalled or deleted for its age, when
  an enrolment is removed, a live turn tagged, tags derived again or clusters consolidated; a rebuild
  that fails in the middle leaves the graph half projected until somebody else asks;
* dismissing or consolidating a cluster during a pass fails the pass on a foreign key, and between a
  clip's IDENTIFYING and its rows it fails the clip (`HearFails`);
* deleting a profile with `reassign_to` equal to itself leaves transcripts with its id;
* a pass that outlasts its three seconds runs beside the next one; `assign_cluster`,
  `recompute_centroid` and `consolidate_clusters` lose updates of each other; an enrolment once
  marked as an outlier is never looked at again;
* a switch between models of one width that is interrupted and reverted finds nothing to migrate and
  mixes two spaces; an interrupted switch that is reverted and interrupted again loses voices
  (`NoVoiceLost` excludes both with `reverted`);
* two pulls of one model both pass the `_inflight` check, and the first to settle clears the other's
  mark; a pull that fails marks a model that is present `error`; a restart of the api leaves a row at
  `downloading`; a baked-in model is listed as downloaded but cannot be activated, since it has no
  row; `y` or `1.0` for a boolean is accepted and reads back as false;
* an activation of the text embedding model does not reach a running api;
* `ModelPool.load` runs before the cache holds anything, so its eviction on VRAM exhaustion finds nothing
  to evict (`pool.py:90`);
* a tool call that failed or named no tool counts as having searched; a capped or empty answer of the
  Anthropic path carries no detail; a failure to publish a progress event ends the turn with an
  error; `read_recording`'s continuation is rounded, so it may repeat or skip a line;
* a word that starts exactly on the edge a redone window shares with its neighbour is dropped; a
  turn whose label got no cluster keeps a label that a renumbered speaker may have.

## 7. What is not modelled

What the models compute from audio (denoising, loudness, decoding confidence, embeddings,
clustering), the contents of events, tags and search results, and the browser. Of the components
in section 1: the model pool and the live language lock are planned (section 2); of events only that
sending one may fail is modelled, since nobody reads them back; search, the graph context and the agent's tools only read. Within the modelled
components: renaming profiles, calibration, tags and audit rows of the handlers, `backfill_tags`,
the deduplication of uploads, what the Cypher computes, the gated token and the
dependencies of a download, and the settings other than the voice model and one integer.
