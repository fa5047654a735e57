------------------------ MODULE ClipLifecycleProofs ------------------------
(***************************************************************************)
(* For any number of job ids, requests, runs, tries and losses.  What      *)
(* holds of a clip depends on what may be lost and on when an operator     *)
(* asks for a reprocess, so a theorem that needs it names what it rules    *)
(* out, and allows all the rest.                                           *)
(***************************************************************************)
EXTENDS ClipLifecycle, FiniteSetTheorems, SequenceTheorems, TLAPS

Outcomes == {"running", "success", "rejected", "failed"}

\* How much the i-th stage writes.
WriteCount(i) == Len(Writes[AllStages[i]])

\* A job is in a phase of the pipeline at a place that phase has.
Placed(p, i, w) ==
    /\ p \in Phases /\ i \in 0 .. 10 /\ w \in 0 .. 3
    /\ p = "reset" => i \in DOMAIN ResetOrder
    /\ p \in {"status", "stage"} => i \in StagesAfter(0)
    /\ p = "stage" => w < WriteCount(i)

ClipTypes ==
    /\ exists \in BOOLEAN /\ receipts \in BOOLEAN
    /\ status \in Statuses
    /\ error \in {"none", "Exception", "Rejected", "STALLED"}
    /\ age \in {"young", "aged", "expired"}
    /\ files \subseteq Files
    /\ rows \in [Tables -> SUBSET Runs]
    /\ outcome \in Seq(Outcomes) /\ Len(outcome) <= MaxRuns
    /\ runAge \in {"recent", "earlier", "old"}

Places ==
    /\ phase \in [Jobs -> Phases]
    /\ at \in [Jobs -> 0 .. 10] /\ written \in [Jobs -> 0 .. 3]
    /\ \A j \in Jobs : Placed(phase[j], at[j], written[j])

JobTypes ==
    /\ Places
    /\ run \in [Jobs -> {0} \cup Runs] /\ tries \in [Jobs -> 0 .. MaxTries]
    /\ keys \subseteq Jobs

OtherTypes ==
    /\ api \in [Requests -> ApiPhases]
    /\ maint \in MaintPhases /\ stalledRun \in {0} \cup Runs
    /\ faults \in 0 .. MaxFaults /\ reprocessed \in 0 .. MaxReprocess
    /\ uploaded \in BOOLEAN

\* A job knows its run from the INSERT of it to its end.
RunKnown == \A j \in Jobs : run[j] # 0 <=> phase[j] \notin {"none", "queued", "reset", "begin"}

TInv == ClipTypes /\ JobTypes /\ RunKnown /\ OtherTypes

-----------------------------------------------------------------------------
(* The pipeline's tables.                                                  *)

\* The ten stages by their numbers.
LEMMA StageNumbers ==
    /\ DOMAIN AllStages = 1 .. 10
    /\ \A i \in 1 .. 10 : AllStages[i] \in StageNames
    /\ AllStages[1] = "VALIDATING" /\ AllStages[2] = "PREPROCESSING"
    /\ AllStages[3] = "TRANSCRIBING" /\ AllStages[4] = "DIARIZING"
    /\ AllStages[5] = "RECONCILING" /\ AllStages[6] = "EMBEDDING"
    /\ AllStages[7] = "IDENTIFYING" /\ AllStages[8] = "POSTPROCESSING"
    /\ AllStages[9] = "INDEXING" /\ AllStages[10] = "TAGGING"
<1>1. DOMAIN AllStages = 1 .. 10
  BY DEF AllStages
<1>2. \A i \in 1 .. 10 : AllStages[i] \in StageNames
  BY <1>1 DEF StageNames
<1>3. QED
  BY <1>1, <1>2 DEF AllStages

\* What each of them writes.
LEMMA StageWrites ==
    /\ Writes["PREPROCESSING"] = PreprocessWrites /\ Writes["DIARIZING"] = DiarizeWrites
    /\ Writes["RECONCILING"] = ReconcileWrites /\ Writes["POSTPROCESSING"] = PostprocessWrites
    /\ Writes["TAGGING"] = TagWrites
    /\ \A s \in StageNames \ {"PREPROCESSING", "DIARIZING", "RECONCILING", "POSTPROCESSING",
                              "TAGGING"} : Writes[s] = <<"nothing">>
<1>1. {"PREPROCESSING", "DIARIZING", "RECONCILING", "POSTPROCESSING", "TAGGING"} \subseteq StageNames
  BY StageNumbers
<1>2. DOMAIN WritingStages = {"PREPROCESSING", "DIARIZING", "RECONCILING", "POSTPROCESSING", "TAGGING"}
  BY DEF WritingStages
<1>3. QED
  BY <1>1, <1>2 DEF Writes, WritingStages

\* Every stage has from one to three writes.
LEMMA WritesAreFew == \A s \in StageNames : Len(Writes[s]) \in 1 .. 3 /\ DOMAIN Writes[s] = 1 .. Len(Writes[s])
<1> TAKE s \in StageNames
<1>1. CASE s \in {"PREPROCESSING", "DIARIZING", "RECONCILING", "POSTPROCESSING", "TAGGING"}
  <2>1. /\ Len(PreprocessWrites) = 3 /\ DOMAIN PreprocessWrites = 1 .. 3
        /\ Len(DiarizeWrites) = 1 /\ DOMAIN DiarizeWrites = 1 .. 1
        /\ Len(ReconcileWrites) = 3 /\ DOMAIN ReconcileWrites = 1 .. 3
        /\ Len(PostprocessWrites) = 2 /\ DOMAIN PostprocessWrites = 1 .. 2
        /\ Len(TagWrites) = 1 /\ DOMAIN TagWrites = 1 .. 1
    BY DEF PreprocessWrites, DiarizeWrites, ReconcileWrites, PostprocessWrites, TagWrites
  <2>2. QED
    BY <1>1, <2>1, StageWrites
<1>2. CASE s \notin {"PREPROCESSING", "DIARIZING", "RECONCILING", "POSTPROCESSING", "TAGGING"}
  <2>1. Writes[s] = <<"nothing">>
    BY <1>2, StageWrites
  <2>2. QED
    BY <2>1
<1>3. QED
  BY <1>1, <1>2

\* The reset has six steps.
LEMMA SixResets == Len(ResetOrder) = 6 /\ DOMAIN ResetOrder = 1 .. 6
BY DEF ResetOrder

\* There is a next stage as long as there are stages left.
LEMMA NextStageExists ==
    ASSUME NEW S \in SUBSET (1 .. 10), S # {}
    PROVE  FirstOf(S) \in S /\ \A m \in S : FirstOf(S) <= m
<1> DEFINE Least(n) == n \in S /\ \A m \in S : n <= m
           Beyond(k) == \A m \in S : m > k
           HasLeast == \E n \in S : Least(n)
<1>1. HasLeast
  <2>1. Beyond(0)
    OBVIOUS
  <2>2. \A k \in 0 .. 9 : Beyond(k) => Beyond(k + 1) \/ HasLeast
    OBVIOUS
  <2>3. ~Beyond(10)
    <3>1. PICK m \in S : m \in 1 .. 10
      OBVIOUS
    <3>2. QED
      BY <3>1
  <2> HIDE DEF Beyond, HasLeast
  <2>4. Beyond(5) \/ HasLeast
    BY <2>1, <2>2
  <2>5. Beyond(10) \/ HasLeast
    BY <2>4, <2>2
  <2>6. QED
    BY <2>3, <2>5
<1>2. QED
  BY <1>1 DEF FirstOf

\* The stages left are stages, and there are always some at the start.
LEMMA StagesLeft ==
    /\ \A i \in 0 .. 10 : StagesAfter(i) \subseteq StagesAfter(0)
    /\ StagesAfter(0) \subseteq 1 .. 10
    /\ StagesAfter(0) # {}
<1>1. \A i \in 0 .. 10 : StagesAfter(i) \subseteq StagesAfter(0)
  BY StageNumbers DEF StagesAfter
<1>2. StagesAfter(0) \subseteq 1 .. 10
  BY StageNumbers DEF StagesAfter
<1>3. StagesAfter(0) # {}
  <2>1. PICK s \in Stages : s \in StageNames
    BY LifecycleConstants
  <2>2. PICK k \in DOMAIN AllStages : AllStages[k] = s
    BY <2>1 DEF StageNames
  <2>3. k \in StagesAfter(0)
    BY <2>1, <2>2, StageNumbers DEF StagesAfter
  <2>4. QED
    BY <2>3
<1>4. QED
  BY <1>1, <1>2, <1>3

-----------------------------------------------------------------------------
(* What the moves of a job do to its place, and its type.                  *)

\* A job goes to a place its next phase has.
LEMMA GoingSomewhere ==
    ASSUME Places, NEW j \in Jobs, NEW p, NEW i, Placed(p, i, 0), GoTo(j, p, i)
    PROVE  Places'
<1>1. /\ phase' \in [Jobs -> Phases] /\ at' \in [Jobs -> 0 .. 10] /\ written' \in [Jobs -> 0 .. 3]
  BY DEF Places, GoTo, Placed
<1>2. ASSUME NEW k \in Jobs PROVE Placed(phase'[k], at'[k], written'[k])
  <2>1. CASE k = j
    BY <2>1 DEF GoTo, Places
  <2>2. CASE k # j
    <3>1. phase'[k] = phase[k] /\ at'[k] = at[k] /\ written'[k] = written[k]
      BY <2>2 DEF GoTo, Places
    <3>2. QED
      BY <3>1 DEF Places
  <2>3. QED
    BY <2>1, <2>2
<1>3. QED
  BY <1>1, <1>2 DEF Places

\* An id that is over is free again.
LEMMA BeingOver ==
    ASSUME JobTypes, NEW j \in Jobs, Over(j)
    PROVE  JobTypes'
<1>1. Places'
  <2>1. GoTo(j, "none", 0)
    BY DEF Over, GoTo
  <2>2. Placed("none", 0, 0)
    BY DEF Placed, Phases
  <2>3. QED
    BY <2>1, <2>2, GoingSomewhere DEF JobTypes
<1>2. QED
  BY <1>1, LifecycleConstants DEF JobTypes, Over

\* A free id is queued.
LEMMA BeingQueued ==
    ASSUME JobTypes, NEW j \in Jobs, Enqueue(j)
    PROVE  JobTypes'
<1>1. phase' \in [Jobs -> Phases]
  BY DEF JobTypes, Places, Enqueue, Phases
<1>2. ASSUME NEW k \in Jobs PROVE Placed(phase'[k], at'[k], written'[k])
  BY DEF JobTypes, Places, Enqueue, Placed, Phases
<1>3. QED
  BY <1>1, <1>2 DEF JobTypes, Places, Enqueue

\* A stage that is entered has something to write.
LEMMA Entering ==
    ASSUME NEW i \in StagesAfter(0)
    PROVE  /\ i \in 1 .. 10 /\ AllStages[i] \in StageNames
           /\ WriteCount(i) \in 1 .. 3
           /\ Placed("status", i, 0) /\ Placed("stage", i, 0)
<1>1. i \in 1 .. 10 /\ AllStages[i] \in StageNames
  BY StagesLeft, StageNumbers
<1>2. WriteCount(i) \in 1 .. 3
  BY <1>1, WritesAreFew DEF WriteCount
<1>3. QED
  BY <1>1, <1>2 DEF Placed, Phases

\* A stage that has written goes on to its next write, or the job to the next stage.
LEMMA Advancing ==
    ASSUME Places, NEW j \in Jobs, phase[j] = "stage", Advance(j)
    PROVE  Places'
<1> DEFINE i == at[j]
<1>1. i \in StagesAfter(0) /\ written[j] \in 0 .. 3
  BY DEF Places, Placed
<1>2. CASE written[j] + 1 < WriteCount(i)
  <2>1. UNCHANGED <<phase, at>> /\ written' = [written EXCEPT ![j] = written[j] + 1]
    BY <1>2 DEF Advance, WriteCount
  <2>2. written[j] + 1 \in 0 .. 3
    <3>1. WriteCount(i) \in 1 .. 3
      BY <1>1, Entering
    <3>2. QED
      BY <1>1, <1>2, <3>1
  <2>3. ASSUME NEW k \in Jobs PROVE Placed(phase'[k], at'[k], written'[k])
    <3>1. CASE k = j
      BY <1>2, <2>1, <2>2, <3>1 DEF Places, Placed
    <3>2. CASE k # j
      BY <2>1, <3>2 DEF Places
    <3>3. QED
      BY <3>1, <3>2
  <2>4. QED
    BY <2>1, <2>2, <2>3 DEF Places
<1>3. CASE ~(written[j] + 1 < WriteCount(i))
  <2>1. NextStage(j)
    BY <1>3 DEF Advance, WriteCount
  <2>2. CASE StagesAfter(i) = {}
    <3>1. GoTo(j, "success", 0)
      BY <2>1, <2>2 DEF NextStage
    <3>2. Placed("success", 0, 0)
      BY DEF Placed, Phases
    <3>3. QED
      BY <3>1, <3>2, GoingSomewhere
  <2>3. CASE StagesAfter(i) # {}
    <3>1. GoTo(j, "status", FirstOf(StagesAfter(i)))
      BY <2>1, <2>3 DEF NextStage
    <3>2. FirstOf(StagesAfter(i)) \in StagesAfter(0)
      <4>1. StagesAfter(i) \subseteq StagesAfter(0) /\ StagesAfter(i) \in SUBSET (1 .. 10)
        BY <1>1, StagesLeft
      <4>2. QED
        BY <4>1, <2>3, NextStageExists
    <3>3. QED
      BY <3>1, <3>2, Entering, GoingSomewhere
  <2>4. QED
    BY <2>2, <2>3
<1>4. QED
  BY <1>2, <1>3

-----------------------------------------------------------------------------
(* Types.                                                                  *)

\* Every step of a job leaves the jobs at places their phases have.
LEMMA JobTypesStay ==
    ASSUME TInv, [Next]_vars
    PROVE  JobTypes'
<1> JobTypes /\ Places
  BY DEF TInv, JobTypes
<1>1. ASSUME NEW j \in Jobs, Dequeue(j) PROVE JobTypes'
  <2>1. CASE tries[j] < MaxTries
    <3>1. GoTo(j, "reset", 1) /\ tries' = [tries EXCEPT ![j] = tries[j] + 1] /\ UNCHANGED <<run, keys>>
      BY <1>1, <2>1 DEF Dequeue
    <3>2. Placed("reset", 1, 0)
      BY SixResets DEF Placed, Phases
    <3>3. Places'
      BY <3>1, <3>2, GoingSomewhere
    <3>4. tries[j] + 1 \in 0 .. MaxTries
      BY <2>1, LifecycleConstants DEF JobTypes
    <3>5. QED
      BY <3>1, <3>3, <3>4 DEF JobTypes
  <2>2. CASE ~(tries[j] < MaxTries)
    BY <1>1, <2>2, BeingOver DEF Dequeue
  <2>3. QED
    BY <2>1, <2>2
<1>2. ASSUME NEW j \in Jobs, Reset(j) PROVE JobTypes'
  <2>1. at[j] \in 1 .. 6
    BY <1>2, SixResets DEF Reset, Places, Placed
  <2>2. CASE at[j] < 6
    <3>1. GoTo(j, "reset", at[j] + 1)
      BY <1>2, <2>2, SixResets DEF Reset
    <3>2. Placed("reset", at[j] + 1, 0)
      BY <2>1, <2>2, SixResets DEF Placed, Phases
    <3>3. QED
      BY <1>2, <3>1, <3>2, GoingSomewhere DEF Reset, JobTypes
  <2>3. CASE ~(at[j] < 6)
    <3>1. GoTo(j, "begin", 0)
      BY <1>2, <2>3, SixResets DEF Reset
    <3>2. Placed("begin", 0, 0)
      BY DEF Placed, Phases
    <3>3. QED
      BY <1>2, <3>1, <3>2, GoingSomewhere DEF Reset, JobTypes
  <2>4. QED
    BY <2>2, <2>3
<1>3. ASSUME NEW j \in Jobs, Begin(j) PROVE JobTypes'
  <2>1. CASE exists
    <3>1. /\ Len(outcome) < MaxRuns /\ run' = [run EXCEPT ![j] = Len(outcome) + 1]
          /\ GoTo(j, "status", FirstOf(StagesAfter(0))) /\ UNCHANGED <<tries, keys>>
      BY <1>3, <2>1 DEF Begin
    <3>2. FirstOf(StagesAfter(0)) \in StagesAfter(0)
      BY StagesLeft, NextStageExists
    <3>3. Places'
      BY <3>1, <3>2, Entering, GoingSomewhere
    <3>4. Len(outcome) \in Nat
      BY DEF TInv, ClipTypes
    <3>5. Len(outcome) + 1 \in Runs
      BY <3>1, <3>4, LifecycleConstants DEF Runs
    <3>6. QED
      BY <3>1, <3>3, <3>5 DEF JobTypes
  <2>2. CASE ~exists
    BY <1>3, <2>2, BeingOver DEF Begin
  <2>3. QED
    BY <2>1, <2>2
<1>4. ASSUME NEW j \in Jobs, EnterStage(j) PROVE JobTypes'
  <2>1. at[j] \in StagesAfter(0)
    BY <1>4 DEF EnterStage, Places, Placed
  <2>2. GoTo(j, "stage", at[j]) /\ UNCHANGED <<run, tries, keys>>
    BY <1>4 DEF EnterStage
  <2>3. QED
    BY <2>1, <2>2, Entering, GoingSomewhere DEF JobTypes
<1>5. ASSUME NEW j \in Jobs, Write(j) PROVE JobTypes'
  <2>1. phase[j] = "stage" /\ Advance(j) /\ UNCHANGED <<run, tries, keys>>
    BY <1>5 DEF Write
  <2>2. QED
    BY <2>1, Advancing DEF JobTypes
<1>6. ASSUME NEW j \in Jobs, NEW p \in Phases \ {"reset", "status", "stage"}, GoTo(j, p, 0),
             UNCHANGED <<run, tries, keys>>
      PROVE  JobTypes'
  <2>1. Placed(p, 0, 0)
    BY <1>6 DEF Placed
  <2>2. QED
    BY <1>6, <2>1, GoingSomewhere DEF JobTypes
<1>7. ASSUME NEW j \in Jobs,
             Raise(j) \/ Reject(j) \/ RejectRun(j) \/ Success(j) \/ Complete(j) \/ Fail(j) \/ FailRun(j)
      PROVE  JobTypes'
  <2>1. \E p \in {"fail", "reject", "announce", "finish", "complete", "failrun"} : GoTo(j, p, 0)
    BY <1>7 DEF Raise, Reject, RejectRun, Success, Complete, Fail, FailRun
  <2>2. UNCHANGED <<run, tries, keys>>
    BY <1>7 DEF Raise, Reject, RejectRun, Success, Complete, Fail, FailRun
  <2>3. {"fail", "reject", "announce", "finish", "complete", "failrun"} \subseteq Phases \ {"reset", "status", "stage"}
    BY DEF Phases
  <2>4. QED
    BY <1>6, <2>1, <2>2, <2>3
<1>8. ASSUME NEW j \in Jobs, Finish(j) \/ Timeout(j) PROVE JobTypes'
  BY <1>8, BeingOver DEF Finish, Timeout
<1>9. ASSUME NEW j \in Jobs, Enqueue(j) PROVE JobTypes'
  BY <1>9, BeingQueued
<1>10. CASE LoseWorker
  <2>1. /\ phase' \in [Jobs -> Phases] /\ at' \in [Jobs -> 0 .. 10] /\ written' \in [Jobs -> 0 .. 3]
    BY <1>10 DEF LoseWorker, Places, Phases
  <2>2. ASSUME NEW k \in Jobs PROVE Placed(phase'[k], at'[k], written'[k])
    <3>1. phase'[k] \in {"none", "queued"} /\ at'[k] = 0 /\ written'[k] = 0
      BY <1>10 DEF LoseWorker, Places, Active
    <3>2. QED
      BY <3>1 DEF Placed, Phases
  <2>3. Places'
    BY <2>1, <2>2 DEF Places
  <2>4. run' \in [Jobs -> {0} \cup Runs] /\ tries' \in [Jobs -> 0 .. MaxTries] /\ keys' \subseteq Jobs
    BY <1>10, LifecycleConstants DEF LoseWorker, JobTypes
  <2>5. QED
    BY <2>3, <2>4 DEF JobTypes
<1>11. CASE FlushRedis
  <2>1. phase' \in [Jobs -> Phases] /\ UNCHANGED <<at, written, run>> /\ keys' \subseteq Jobs
    BY <1>11 DEF FlushRedis, Places, Phases
  <2>2. ASSUME NEW k \in Jobs PROVE Placed(phase'[k], at'[k], written'[k])
    <3>1. phase'[k] \in {"none", phase[k]}
      BY <1>11 DEF FlushRedis, Places
    <3>2. QED
      BY <2>1, <3>1 DEF Placed, Phases, Places
  <2>3. tries' \in [Jobs -> 0 .. MaxTries]
    BY <1>11, LifecycleConstants DEF FlushRedis, JobTypes
  <2>4. QED
    BY <2>1, <2>2, <2>3 DEF JobTypes, Places
<1>12. CASE UNCHANGED jobVars
  BY <1>12 DEF JobTypes, Places, jobVars
<1>13. QED
  <2>1. ASSUME NEW j \in Jobs, JobStep(j) \/ Timeout(j) PROVE JobTypes'
    BY <1>1, <1>2, <1>3, <1>4, <1>5, <1>7, <1>8, <2>1 DEF JobStep
  <2>2. ASSUME NEW q \in Requests, Ask(q) \/ Serve(q) PROVE JobTypes'
    BY <1>9, <1>12, <2>2 DEF Ask, Serve, UploadRow, ReprocessCheck, DeleteFetch, UploadFile,
       UploadEnqueue, ReprocessStatus, ReprocessEnqueue, DeleteFiles, DeleteClip, DeleteReceipt
  <2>3. ASSUME Maintain PROVE JobTypes'
    BY <1>9, <1>12, <2>3 DEF Maintain, SelectStalled, MarkStalledClip, MarkStalledRun, SelectOrphans,
       LookForKey, RequeueOrphan, SelectExpired, ExpireFiles, ExpireRow, ExpireReceipt
  <2>4. ASSUME Lose \/ ClipAgesOn \/ RunAgesOn \/ UNCHANGED vars PROVE JobTypes'
    BY <1>10, <1>11, <1>12, <2>4 DEF Lose, LoseApi, ClipAgesOn, RunAgesOn, vars
  <2>5. QED
    BY <2>1, <2>2, <2>3, <2>4 DEF Next

\* A job that moves within the pipeline keeps its run, and a free id has none.
LEMMA RunKnownStays ==
    ASSUME TInv, [Next]_vars
    PROVE  RunKnown'
<1> USE DEF RunKnown
<1> JobTypes /\ Places /\ RunKnown
  BY DEF TInv, JobTypes
<1>1. ASSUME NEW j \in Jobs, Over(j) PROVE RunKnown'
  BY <1>1 DEF Over, JobTypes, Places
<1>2. ASSUME NEW j \in Jobs, NEW p, NEW i, GoTo(j, p, i), UNCHANGED run,
             p \in {"none", "queued", "reset", "begin"} <=> phase[j] \in {"none", "queued", "reset", "begin"}
      PROVE  RunKnown'
  BY <1>2 DEF GoTo, JobTypes, Places
<1>3. ASSUME NEW j \in Jobs, Dequeue(j) PROVE RunKnown'
  <2>1. CASE tries[j] < MaxTries
    <3>1. GoTo(j, "reset", 1) /\ UNCHANGED run /\ phase[j] = "queued"
      BY <1>3, <2>1 DEF Dequeue
    <3>2. QED
      BY <1>2, <3>1
  <2>2. CASE ~(tries[j] < MaxTries)
    BY <1>1, <1>3, <2>2 DEF Dequeue
  <2>3. QED
    BY <2>1, <2>2
<1>4. ASSUME NEW j \in Jobs, Reset(j) PROVE RunKnown'
  <2>1. \E p \in {"reset", "begin"}, i \in {0, at[j] + 1} : GoTo(j, p, i)
    BY <1>4 DEF Reset
  <2>2. phase[j] = "reset" /\ UNCHANGED run
    BY <1>4 DEF Reset
  <2>3. QED
    BY <1>2, <2>1, <2>2
<1>5. ASSUME NEW j \in Jobs, Begin(j) PROVE RunKnown'
  <2>1. CASE exists
    <3>1. /\ run' = [run EXCEPT ![j] = Len(outcome) + 1]
          /\ phase' = [phase EXCEPT ![j] = "status"]
      BY <1>5, <2>1 DEF Begin, GoTo
    <3>2. Len(outcome) + 1 # 0
      BY DEF TInv, ClipTypes
    <3>3. QED
      BY <3>1, <3>2 DEF JobTypes, Places
  <2>2. CASE ~exists
    BY <1>1, <1>5, <2>2 DEF Begin
  <2>3. QED
    BY <2>1, <2>2
<1>6. ASSUME NEW j \in Jobs, Write(j) PROVE RunKnown'
  <2>1. phase[j] = "stage" /\ UNCHANGED run /\ Advance(j)
    BY <1>6 DEF Write
  <2>2. UNCHANGED phase \/ \E p \in {"success", "status"}, i \in {0, FirstOf(StagesAfter(at[j]))} : GoTo(j, p, i)
    BY <2>1 DEF Advance, NextStage
  <2>3. QED
    BY <1>2, <2>1, <2>2
<1>7. ASSUME NEW j \in Jobs,
             \/ EnterStage(j) \/ Raise(j) \/ Reject(j) \/ RejectRun(j) \/ Success(j) \/ Complete(j)
             \/ Fail(j) \/ FailRun(j)
      PROVE  RunKnown'
  <2>1. \E p \in {"stage", "fail", "reject", "announce", "finish", "complete", "failrun"}, i \in {0, at[j]} : GoTo(j, p, i)
    BY <1>7 DEF EnterStage, Raise, Reject, RejectRun, Success, Complete, Fail, FailRun
  <2>2. UNCHANGED run /\ phase[j] \notin {"none", "queued", "reset", "begin"}
    BY <1>7, LifecycleConstants
    DEF EnterStage, Raise, Reject, RejectRun, Success, Complete, Fail, FailRun, Guarded
  <2>3. QED
    BY <1>2, <2>1, <2>2
<1>8. ASSUME NEW j \in Jobs, Finish(j) \/ Timeout(j) PROVE RunKnown'
  BY <1>1, <1>8 DEF Finish, Timeout
<1>9. ASSUME NEW j \in Jobs, Enqueue(j) PROVE RunKnown'
  BY <1>9 DEF Enqueue, JobTypes, Places
<1>10. CASE LoseWorker
  BY <1>10 DEF LoseWorker, JobTypes, Places, Active, Phases
<1>11. CASE FlushRedis
  BY <1>11 DEF FlushRedis, JobTypes, Places
<1>12. CASE UNCHANGED jobVars
  BY <1>12 DEF jobVars
<1>13. QED
  <2>1. ASSUME NEW j \in Jobs, JobStep(j) \/ Timeout(j) PROVE RunKnown'
    BY <1>3, <1>4, <1>5, <1>6, <1>7, <1>8, <2>1 DEF JobStep
  <2>2. ASSUME NEW q \in Requests, Ask(q) \/ Serve(q) PROVE RunKnown'
    BY <1>9, <1>12, <2>2 DEF Ask, Serve, UploadRow, ReprocessCheck, DeleteFetch, UploadFile,
       UploadEnqueue, ReprocessStatus, ReprocessEnqueue, DeleteFiles, DeleteClip, DeleteReceipt
  <2>3. ASSUME Maintain PROVE RunKnown'
    BY <1>9, <1>12, <2>3 DEF Maintain, SelectStalled, MarkStalledClip, MarkStalledRun, SelectOrphans,
       LookForKey, RequeueOrphan, SelectExpired, ExpireFiles, ExpireRow, ExpireReceipt
  <2>4. ASSUME Lose \/ ClipAgesOn \/ RunAgesOn \/ UNCHANGED vars PROVE RunKnown'
    BY <1>10, <1>11, <1>12, <2>4 DEF Lose, LoseApi, ClipAgesOn, RunAgesOn, vars
  <2>5. QED
    BY <2>1, <2>2, <2>3, <2>4 DEF Next

\* An UPDATE of a run's outcome changes that outcome, where the run is there, and nothing else.
LEMMA SettingOutcome ==
    ASSUME outcome \in Seq(Outcomes), NEW r, NEW o \in Outcomes, SetOutcome(r, o)
    PROVE  /\ outcome' \in Seq(Outcomes) /\ Len(outcome') = Len(outcome)
           /\ \A k \in 1 .. Len(outcome) : outcome'[k] = IF exists /\ k = r THEN o ELSE outcome[k]
<1>1. CASE exists /\ r \in DOMAIN outcome
  <2>1. outcome' = [outcome EXCEPT ![r] = o] /\ r \in 1 .. Len(outcome)
    BY <1>1 DEF SetOutcome
  <2>2. QED
    BY <1>1, <2>1, ExceptSeq
<1>2. CASE ~(exists /\ r \in DOMAIN outcome)
  BY <1>2 DEF SetOutcome
<1>3. QED
  BY <1>1, <1>2

\* Every statement leaves the clip with values its columns can have.
LEMMA ClipTypesStay ==
    ASSUME TInv, [Next]_vars
    PROVE  ClipTypes'
<1> ClipTypes /\ JobTypes /\ RunKnown
  BY DEF TInv
<1>1. ASSUME NEW r, NEW o \in Outcomes, SetOutcome(r, o),
             UNCHANGED <<exists, status, error, age, files, rows, runAge, receipts>>
      PROVE  ClipTypes'
  BY <1>1, SettingOutcome DEF ClipTypes
<1>2. ASSUME NEW j \in Jobs, Reset(j) PROVE ClipTypes'
  <2>1. rows' \in [Tables -> SUBSET Runs]
    BY <1>2 DEF Reset, ClipTypes
  <2>2. QED
    BY <1>2, <2>1 DEF Reset, ClipTypes
<1>3. ASSUME NEW j \in Jobs, Begin(j) PROVE ClipTypes'
  <2>1. CASE exists
    <3>1. outcome' = Append(outcome, "running") /\ Len(outcome) < MaxRuns /\ runAge' = "recent"
      BY <1>3, <2>1 DEF Begin
    <3>2. outcome' \in Seq(Outcomes) /\ Len(outcome') <= MaxRuns
      BY <3>1, LifecycleConstants DEF ClipTypes, Outcomes
    <3>3. QED
      BY <1>3, <3>1, <3>2 DEF Begin, ClipTypes
  <2>2. CASE ~exists
    BY <1>3, <2>2 DEF Begin, ClipTypes
  <2>3. QED
    BY <2>1, <2>2
<1>4. ASSUME NEW s \in Statuses, NEW e \in {"none", "Exception", "Rejected", "STALLED"},
             SetStatus(s), SetError(e) \/ UNCHANGED error,
             UNCHANGED <<exists, age, files, rows, outcome, runAge, receipts>>
      PROVE  ClipTypes'
  BY <1>4 DEF SetStatus, SetError, ClipTypes
<1>5. ASSUME NEW j \in Jobs, EnterStage(j) PROVE ClipTypes'
  <2>1. AllStages[at[j]] \in Statuses
    BY <1>5, Entering DEF EnterStage, JobTypes, Places, Placed, Statuses
  <2>2. QED
    BY <1>4, <1>5, <2>1 DEF EnterStage
<1>6. ASSUME NEW j \in Jobs, Write(j) PROVE ClipTypes'
  <2>1. run[j] \in Runs
    BY <1>6 DEF Write, JobTypes, RunKnown
  <2>2. rows' \in [Tables -> SUBSET Runs]
    <3>1. \/ UNCHANGED rows
          \/ \E w \in Tables : rows' = [rows EXCEPT ![w] = IF exists THEN {run[j]} ELSE rows[w]]
          \/ \E w \in Tables : rows' = [rows EXCEPT ![w] = rows[w] \cup {run[j]}]
      <4>1. "auto_tags" \in Tables
        BY DEF Tables, ResetOrder
      <4>2. QED
        BY <1>6, <4>1 DEF Write
    <3>2. QED
      BY <2>1, <3>1 DEF ClipTypes
  <2>3. files' \subseteq Files
    BY <1>6 DEF Write, ClipTypes, Files
  <2>4. QED
    BY <1>6, <2>2, <2>3 DEF Write, ClipTypes
<1>7. ASSUME NEW j \in Jobs, Reject(j) \/ Complete(j) \/ Fail(j) PROVE ClipTypes'
  <2>1. {"REJECTED", "COMPLETE", "FAILED"} \subseteq Statuses
    BY DEF Statuses, Terminal
  <2>2. QED
    BY <1>4, <1>7, <2>1 DEF Reject, Complete, Fail
<1>8. ASSUME NEW j \in Jobs, RejectRun(j) \/ Success(j) \/ FailRun(j) PROVE ClipTypes'
  BY <1>1, <1>8 DEF RejectRun, Success, FailRun, Outcomes
<1>9. ASSUME DeleteRow PROVE ClipTypes'
  <2>1. rows' \in [Tables -> SUBSET Runs]
    BY <1>9 DEF DeleteRow
  <2>2. outcome' \in Seq(Outcomes) /\ Len(outcome') <= MaxRuns
    BY <1>9, LifecycleConstants DEF DeleteRow
  <2>3. QED
    BY <1>9, <2>1, <2>2 DEF DeleteRow, ClipTypes
<1>10. ASSUME NEW q \in Requests, Ask(q) \/ Serve(q) PROVE ClipTypes'
  <2>1. CASE UploadRow(q) \/ UploadFile(q) \/ DeleteFiles(q) \/ DeleteReceipt(q)
    BY <2>1 DEF UploadRow, UploadFile, DeleteFiles, DeleteReceipt, ClipTypes, Files
  <2>2. CASE ReprocessStatus(q)
    <3>1. "QUEUED" \in Statuses
      BY DEF Statuses
    <3>2. QED
      BY <1>4, <2>2, <3>1 DEF ReprocessStatus
  <2>3. CASE DeleteClip(q)
    BY <1>9, <2>3 DEF DeleteClip
  <2>4. CASE UNCHANGED clipVars
    BY <2>4 DEF ClipTypes, clipVars
  <2>5. QED
    BY <1>10, <2>1, <2>2, <2>3, <2>4
    DEF Ask, Serve, ReprocessCheck, DeleteFetch, UploadEnqueue, ReprocessEnqueue
<1>11. ASSUME Maintain PROVE ClipTypes'
  <2>1. CASE MarkStalledClip
    <3>1. "FAILED" \in Statuses
      BY DEF Statuses, Terminal
    <3>2. QED
      BY <1>4, <2>1, <3>1 DEF MarkStalledClip
  <2>2. CASE MarkStalledRun
    BY <1>1, <2>2 DEF MarkStalledRun, Outcomes
  <2>3. CASE ExpireFiles \/ ExpireReceipt
    BY <2>3 DEF ExpireFiles, ExpireReceipt, ClipTypes
  <2>4. CASE ExpireRow
    BY <1>9, <2>4 DEF ExpireRow
  <2>5. CASE UNCHANGED clipVars
    BY <2>5 DEF ClipTypes, clipVars
  <2>6. QED
    BY <1>11, <2>1, <2>2, <2>3, <2>4, <2>5
    DEF Maintain, SelectStalled, SelectOrphans, LookForKey, RequeueOrphan, SelectExpired
<1>12. CASE ClipAgesOn \/ RunAgesOn
  BY <1>12 DEF ClipAgesOn, RunAgesOn, ClipTypes
<1>13. CASE UNCHANGED clipVars
  BY <1>13 DEF ClipTypes, clipVars
<1>14. QED
  <2>1. ASSUME NEW j \in Jobs, JobStep(j) \/ Timeout(j) PROVE ClipTypes'
    BY <1>2, <1>3, <1>5, <1>6, <1>7, <1>8, <1>13, <2>1 DEF JobStep, Dequeue, Raise, Finish, Timeout
  <2>2. ASSUME Lose \/ UNCHANGED vars PROVE ClipTypes'
    BY <1>13, <2>2 DEF Lose, LoseWorker, LoseApi, FlushRedis, vars
  <2>3. QED
    BY <1>10, <1>11, <1>12, <2>1, <2>2 DEF Next

\* The requests, the tick and the counters stay within what they can be.
LEMMA OtherTypesStay ==
    ASSUME TInv, [Next]_vars
    PROVE  OtherTypes'
<1> OtherTypes /\ ClipTypes
  BY DEF TInv
<1>1. ASSUME NEW q \in Requests, NEW f, NEW p \in ApiPhases, Step(q, f, p) PROVE api' \in [Requests -> ApiPhases]
  BY <1>1 DEF Step, OtherTypes
<1>2. ASSUME NEW q \in Requests, Ask(q) \/ Serve(q) PROVE OtherTypes'
  <2>1. \E f, p \in ApiPhases : Step(q, f, p)
    BY <1>2 DEF Ask, Serve, UploadRow, ReprocessCheck, DeleteFetch, UploadFile, UploadEnqueue,
       ReprocessStatus, ReprocessEnqueue, DeleteFiles, DeleteClip, DeleteReceipt, ApiPhases
  <2>2. api' \in [Requests -> ApiPhases]
    BY <1>1, <2>1
  <2>3. UNCHANGED <<maint, stalledRun, faults>>
    BY <1>2 DEF Ask, Serve, UploadRow, ReprocessCheck, DeleteFetch, UploadFile, UploadEnqueue,
       ReprocessStatus, ReprocessEnqueue, DeleteFiles, DeleteClip, DeleteReceipt, apiUnchanged
  <2>4. \/ UNCHANGED reprocessed
        \/ reprocessed < MaxReprocess /\ reprocessed' = reprocessed + 1
    BY <1>2 DEF Ask, Serve, UploadRow, ReprocessCheck, DeleteFetch, UploadFile, UploadEnqueue,
       ReprocessStatus, ReprocessEnqueue, DeleteFiles, DeleteClip, DeleteReceipt
  <2>5. uploaded' = uploaded \/ uploaded' = TRUE
    BY <1>2 DEF Ask, Serve, UploadRow, ReprocessCheck, DeleteFetch, UploadFile, UploadEnqueue,
       ReprocessStatus, ReprocessEnqueue, DeleteFiles, DeleteClip, DeleteReceipt
  <2>6. reprocessed' \in 0 .. MaxReprocess
    BY <2>4, LifecycleConstants DEF OtherTypes
  <2>7. QED
    BY <2>2, <2>3, <2>5, <2>6 DEF OtherTypes
<1>3. ASSUME Maintain PROVE OtherTypes'
  <2>1. maint' \in MaintPhases
    BY <1>3 DEF Maintain, SelectStalled, MarkStalledClip, MarkStalledRun, SelectOrphans, LookForKey,
       RequeueOrphan, SelectExpired, ExpireFiles, ExpireRow, ExpireReceipt, Pass, MaintPhases
  <2>2. stalledRun' \in {0} \cup Runs
    <3>1. Stalled => Latest \in Runs
      BY LifecycleConstants DEF Stalled, Latest, ClipTypes, Runs
    <3>2. QED
      BY <1>3, <3>1 DEF Maintain, SelectStalled, MarkStalledClip, MarkStalledRun, SelectOrphans, LookForKey,
         RequeueOrphan, SelectExpired, ExpireFiles, ExpireRow, ExpireReceipt, OtherTypes
  <2>3. UNCHANGED <<api, faults, reprocessed, uploaded>>
    BY <1>3 DEF Maintain, SelectStalled, MarkStalledClip, MarkStalledRun, SelectOrphans, LookForKey,
       RequeueOrphan, SelectExpired, ExpireFiles, ExpireRow, ExpireReceipt, maintUnchanged
  <2>4. QED
    BY <2>1, <2>2, <2>3 DEF OtherTypes
<1>4. CASE Lose
  <2>1. faults' \in 0 .. MaxFaults
    BY <1>4, LifecycleConstants DEF Lose, LoseWorker, LoseApi, FlushRedis, Fault, OtherTypes
  <2>2. api' \in [Requests -> ApiPhases] /\ maint' \in MaintPhases /\ stalledRun' \in {0} \cup Runs
    BY <1>4 DEF Lose, LoseWorker, LoseApi, FlushRedis, OtherTypes, ApiPhases, MaintPhases
  <2>3. UNCHANGED <<reprocessed, uploaded>>
    BY <1>4 DEF Lose, LoseWorker, LoseApi, FlushRedis
  <2>4. QED
    BY <2>1, <2>2, <2>3 DEF OtherTypes
<1>5. CASE UNCHANGED otherVars
  BY <1>5 DEF OtherTypes, otherVars
<1>6. QED
  <2>1. ASSUME NEW j \in Jobs, JobStep(j) \/ Timeout(j) PROVE UNCHANGED otherVars
    BY <2>1 DEF JobStep, Dequeue, Reset, Begin, EnterStage, Write, Raise, Reject, RejectRun, Success,
       Complete, Fail, FailRun, Finish, Timeout
  <2>2. ASSUME ClipAgesOn \/ RunAgesOn \/ UNCHANGED vars PROVE UNCHANGED otherVars
    BY <2>2 DEF ClipAgesOn, RunAgesOn, vars
  <2>3. QED
    BY <1>2, <1>3, <1>4, <1>5, <2>1, <2>2 DEF Next

\* Types hold at the start.
LEMMA TInvInit == Init => TInv
<1> SUFFICES ASSUME Init PROVE TInv
  OBVIOUS
<1>1. ClipTypes
  <2>1. outcome \in Seq(Outcomes) /\ Len(outcome) <= MaxRuns
    BY LifecycleConstants DEF Init
  <2>2. rows \in [Tables -> SUBSET Runs]
    BY DEF Init
  <2>3. QED
    BY <2>1, <2>2 DEF Init, ClipTypes, Statuses
<1>2. Places
  BY DEF Init, Places, Placed, Phases
<1>3. JobTypes /\ RunKnown
  <2>1. 0 \in 0 .. MaxTries
    BY LifecycleConstants
  <2>2. QED
    BY <1>2, <2>1 DEF Init, JobTypes, RunKnown
<1>4. OtherTypes
  <2>1. 0 \in 0 .. MaxFaults /\ 0 \in 0 .. MaxReprocess
    BY LifecycleConstants
  <2>2. QED
    BY <2>1 DEF Init, OtherTypes, ApiPhases, MaintPhases
<1>5. QED
  BY <1>1, <1>3, <1>4 DEF TInv

\* Every state has its types.
LEMMA TypesAlways == Spec => []TInv
<1>1. TInv /\ [Next]_vars => TInv'
  BY JobTypesStay, RunKnownStays, ClipTypesStay, OtherTypesStay DEF TInv
<1>2. QED
  BY <1>1, TInvInit, PTL DEF Spec

\* Type correctness, whatever may be lost, deleted or asked for.
THEOREM TypesCorrect == Spec => []TypeOK
<1>1. TInv => TypeOK
  BY DEF TInv, ClipTypes, JobTypes, Places, OtherTypes, TypeOK, Outcomes
<1>2. QED
  BY <1>1, TypesAlways, PTL

-----------------------------------------------------------------------------
(* Runs and their outcomes.                                                *)

\* Before the upload there is nothing to work on, to ask for or to look after.
NotYet ==
    /\ exists => uploaded
    /\ ~uploaded => /\ \A j \in Jobs : phase[j] = "none"
                    /\ \A q \in Requests : api[q] = "idle"
                    /\ maint \in {"idle", "orphans", "retention"}
                    /\ stalledRun = 0 /\ outcome = <<>> /\ runAge # "old"
                    /\ status = "QUEUED" /\ age = "young"

\* The phases in which a job has still to tell its run its outcome, those in which it has
\* told it, and those in which it may have.
Open == {"status", "stage", "reject", "success"}
Told == {"complete", "announce"}
Failing == {"fail", "failrun"}

\* What a job in phase p may find its run to be.
Tells(p, o) ==
    /\ p \in Open => o = "running"
    /\ p = "complete" => o = "success"
    /\ p \in Told => o \in {"success", "rejected"}
    /\ p \in Failing => o \in {"running", "success", "rejected"}

\* A job's run is there with the clip: running until the job tells it better, and failed by
\* nobody but the job.
OwnRun == exists => \A j \in Jobs : run[j] <= Len(outcome) /\ Tells(phase[j], outcome[run[j]])

\* No two jobs share a run.
RunsApart == \A i, j \in Jobs : run[i] = run[j] /\ run[i] # 0 => i = j

\* Once the latest run is past the stall cutoff, no job has a run.
NoRunIsOld == runAge = "old" => \A j \in Jobs : run[j] = 0

\* The run recover_stalled is about to fail is a running one that no job has.
GivenUp ==
    stalledRun # 0 => /\ \A j \in Jobs : run[j] # stalledRun
                      /\ exists => stalledRun <= Len(outcome) /\ outcome[stalledRun] = "running"

RunInv == NotYet /\ (~exists => outcome = <<>>) /\ OwnRun /\ RunsApart /\ NoRunIsOld /\ GivenUp

\* Nothing happens before the upload but the tick.
LEMMA NotYetStays ==
    ASSUME TInv, NotYet, ~exists => outcome = <<>>, [Next]_vars
    PROVE  NotYet'
<1> USE DEF NotYet
<1>1. ASSUME NEW j \in Jobs, JobStep(j) \/ Timeout(j) PROVE NotYet'
  <2>1. phase[j] # "none"
    BY <1>1, LifecycleConstants
    DEF JobStep, Timeout, Dequeue, Reset, Begin, EnterStage, Write, Raise, Reject, RejectRun, Success,
        Complete, Fail, FailRun, Finish, Active, Guarded
  <2>2. UNCHANGED <<exists, uploaded>>
    BY <1>1 DEF JobStep, Timeout, Dequeue, Reset, Begin, EnterStage, Write, Raise, Reject, RejectRun,
       Success, Complete, Fail, FailRun, Finish, clipVars, otherVars
  <2>3. QED
    BY <2>1, <2>2
<1>2. ASSUME NEW q \in Requests, Ask(q) \/ Serve(q) PROVE NotYet'
  <2>1. CASE UploadRow(q)
    BY <2>1 DEF UploadRow
  <2>2. CASE DeleteClip(q)
    BY <2>2 DEF DeleteClip, DeleteRow, Step
  <2>3. CASE ~UploadRow(q) /\ ~DeleteClip(q)
    <3>1. UNCHANGED <<exists, uploaded>> /\ (api[q] # "idle" \/ exists)
      BY <1>2, <2>3 DEF Ask, Serve, ReprocessCheck, DeleteFetch, UploadFile, UploadEnqueue, ReprocessStatus,
         ReprocessEnqueue, DeleteFiles, DeleteReceipt, Step, clipVars
    <3>2. QED
      BY <3>1
  <2>4. QED
    BY <2>1, <2>2, <2>3
<1>3. ASSUME Maintain PROVE NotYet'
  <2>1. UNCHANGED uploaded
    BY <1>3 DEF Maintain, SelectStalled, MarkStalledClip, MarkStalledRun, SelectOrphans, LookForKey,
       RequeueOrphan, SelectExpired, ExpireFiles, ExpireRow, ExpireReceipt, maintUnchanged
  <2>2. CASE ~uploaded
    <3>1. ~exists /\ maint \in {"idle", "orphans", "retention"}
      BY <2>2
    <3>2. UNCHANGED <<exists, uploaded, phase, api, age, outcome, status, runAge>>
      BY <1>3, <3>1 DEF Maintain, SelectStalled, MarkStalledClip, MarkStalledRun, SelectOrphans, LookForKey,
         RequeueOrphan, SelectExpired, ExpireFiles, ExpireRow, ExpireReceipt, Pass,
         maintUnchanged, clipVars, jobVars
    <3>3. maint' \in {"idle", "orphans", "retention"} /\ stalledRun' = 0
      BY <1>3, <2>2, <3>1 DEF Maintain, SelectStalled, MarkStalledClip, MarkStalledRun, SelectOrphans,
         LookForKey, RequeueOrphan, SelectExpired, ExpireFiles, ExpireRow, ExpireReceipt, Pass, Stalled,
         Orphaned
    <3>4. QED
      BY <2>2, <3>2, <3>3
  <2>3. CASE uploaded
    BY <2>1, <2>3
  <2>4. QED
    BY <2>2, <2>3
<1>4. CASE LoseWorker
  BY <1>4 DEF LoseWorker, clipVars, Active, TInv, JobTypes, Places
<1>5. CASE LoseApi
  BY <1>5 DEF LoseApi, clipVars, jobVars
<1>6. CASE FlushRedis
  BY <1>6 DEF FlushRedis, clipVars
<1>7. CASE ClipAgesOn \/ RunAgesOn
  BY <1>7 DEF ClipAgesOn, RunAgesOn, jobVars, otherVars
<1>8. CASE UNCHANGED vars
  BY <1>8 DEF vars, clipVars, jobVars, otherVars
<1>9. QED
  BY <1>1, <1>2, <1>3, <1>4, <1>5, <1>6, <1>7, <1>8 DEF Next, Lose

\* Where a job may go on to without telling its run anything.
GoesOn(p, q) ==
    /\ q \in Open => p \in Open
    /\ q = "complete" => p = "complete"
    /\ q = "announce" => p \in Told
    /\ q \in Failing => p \in Open \cup Told \cup Failing

\* A job on its way keeps its run or gives it up, and the runs in the table stay what they are.
JobsOnward ==
    \A k \in Jobs : /\ run'[k] \in {0, run[k]}
                    /\ GoesOn(phase[k], phase'[k])
                    /\ phase'[k] \in Open \cup Told \cup Failing => run'[k] = run[k]

Onward == UNCHANGED <<exists, outcome, runAge>> /\ stalledRun' \in {0, stalledRun} /\ JobsOnward

RunParts == (~exists => outcome = <<>>) /\ OwnRun /\ RunsApart /\ NoRunIsOld /\ GivenUp

\* So what is known of the runs stays known.
LEMMA OnwardKeepsRuns ==
    ASSUME TInv, RunInv, Onward
    PROVE  RunParts'
<1> \A k \in Jobs : run[k] \in Nat
  BY LifecycleConstants DEF TInv, JobTypes, Runs
<1> Len(outcome) \in Nat
  BY DEF TInv, ClipTypes
<1>1. OwnRun'
  <2> SUFFICES ASSUME exists, NEW k \in Jobs
               PROVE  run'[k] <= Len(outcome) /\ Tells(phase'[k], outcome[run'[k]])
    BY DEF OwnRun, Onward
  <2>1. run[k] <= Len(outcome) /\ Tells(phase[k], outcome[run[k]])
    BY DEF RunInv, OwnRun
  <2>2. /\ run'[k] \in {0, run[k]} /\ GoesOn(phase[k], phase'[k])
        /\ phase'[k] \in Open \cup Told \cup Failing => run'[k] = run[k]
    BY DEF Onward, JobsOnward
  <2>3. QED
    BY <2>1, <2>2 DEF Tells, GoesOn, Open, Told, Failing
<1>2. RunsApart'
  BY DEF RunInv, RunsApart, Onward, JobsOnward
<1>3. NoRunIsOld'
  BY DEF RunInv, NoRunIsOld, Onward, JobsOnward
<1>4. GivenUp'
  BY DEF RunInv, GivenUp, Onward, JobsOnward
<1>5. QED
  BY <1>1, <1>2, <1>3, <1>4 DEF RunInv, RunParts, Onward

\* Every step is on its way, but for the run's INSERT, its outcome, the upload, a deletion, the
\* selection of a stalled run and its age.
LEMMA OnwardSteps ==
    ASSUME TInv, [Next]_vars
    PROVE  \/ Onward
           \/ \E j \in Jobs : Begin(j) /\ exists
           \/ \E j \in Jobs : RejectRun(j) \/ Success(j) \/ FailRun(j)
           \/ \E q \in Requests : UploadRow(q) \/ DeleteClip(q)
           \/ ExpireRow \/ MarkStalledRun \/ SelectStalled \/ RunAgesOn
<1> JobTypes /\ Places
  BY DEF TInv, JobTypes
<1> USE DEF Open, Told, Failing
<1>0. \A p : GoesOn(p, p) /\ GoesOn(p, "none") /\ GoesOn(p, "queued")
  BY DEF GoesOn
<1>1. ASSUME NEW j \in Jobs, Over(j) PROVE JobsOnward
  BY <1>0, <1>1 DEF Over, JobTypes, Places, JobsOnward
<1>2. ASSUME NEW j \in Jobs, NEW p, NEW i, GoTo(j, p, i), UNCHANGED run, GoesOn(phase[j], p)
      PROVE  JobsOnward
  BY <1>0, <1>2 DEF GoTo, JobTypes, Places, JobsOnward
<1>3. ASSUME NEW j \in Jobs, Dequeue(j) PROVE JobsOnward
  <2>1. CASE tries[j] < MaxTries
    <3>1. GoTo(j, "reset", 1) /\ UNCHANGED run
      BY <1>3, <2>1 DEF Dequeue
    <3>2. QED
      BY <1>2, <3>1 DEF GoesOn
  <2>2. CASE ~(tries[j] < MaxTries)
    BY <1>1, <1>3, <2>2 DEF Dequeue
  <2>3. QED
    BY <2>1, <2>2
<1>4. ASSUME NEW j \in Jobs, Reset(j) PROVE JobsOnward
  <2>1. \E p \in {"reset", "begin"}, i \in {0, at[j] + 1} : GoTo(j, p, i)
    BY <1>4 DEF Reset
  <2>2. QED
    BY <1>2, <1>4, <2>1 DEF Reset, GoesOn
<1>5. ASSUME NEW j \in Jobs, Write(j) PROVE JobsOnward
  <2>1. phase[j] = "stage" /\ UNCHANGED run /\ Advance(j)
    BY <1>5 DEF Write
  <2>2. UNCHANGED phase \/ \E p \in {"success", "status"}, i \in {0, FirstOf(StagesAfter(at[j]))} : GoTo(j, p, i)
    BY <2>1 DEF Advance, NextStage
  <2>3. QED
    BY <1>0, <1>2, <2>1, <2>2 DEF GoesOn, JobsOnward
<1>6. ASSUME NEW j \in Jobs, EnterStage(j) \/ Raise(j) \/ Reject(j) \/ Complete(j) \/ Fail(j) PROVE JobsOnward
  <2>1. \/ phase[j] \in Open /\ \E p \in {"stage", "reject"}, i \in {0, at[j]} : GoTo(j, p, i)
        \/ phase[j] \in Open \cup Told \cup Failing /\ \E p \in Failing : GoTo(j, p, 0)
        \/ phase[j] = "complete" /\ GoTo(j, "announce", 0)
    BY <1>6, LifecycleConstants DEF EnterStage, Raise, Reject, Complete, Fail, Guarded
  <2>2. UNCHANGED run
    BY <1>6 DEF EnterStage, Raise, Reject, Complete, Fail
  <2>3. QED
    BY <1>2, <2>1, <2>2 DEF GoesOn
<1>7. ASSUME NEW j \in Jobs, JobStep(j) \/ Timeout(j)
      PROVE  Onward \/ (Begin(j) /\ exists) \/ RejectRun(j) \/ Success(j) \/ FailRun(j)
  <2>1. CASE Begin(j) /\ ~exists
    <3>1. JobsOnward
      BY <1>1, <2>1 DEF Begin
    <3>2. QED
      BY <2>1, <3>1 DEF Begin, Onward, otherVars
  <2>2. CASE \/ Dequeue(j) \/ Reset(j) \/ EnterStage(j) \/ Write(j) \/ Raise(j) \/ Reject(j)
             \/ Complete(j) \/ Fail(j) \/ Finish(j) \/ Timeout(j)
    <3>1. JobsOnward
      BY <1>1, <1>3, <1>4, <1>5, <1>6, <2>2 DEF Finish, Timeout
    <3>2. UNCHANGED <<exists, outcome, runAge, stalledRun>>
      BY <2>2 DEF Dequeue, Reset, EnterStage, Write, Raise, Reject, Complete, Fail, Finish, Timeout,
         clipVars, otherVars
    <3>3. QED
      BY <3>1, <3>2 DEF Onward
  <2>3. QED
    BY <1>7, <2>1, <2>2 DEF JobStep
<1>8. ASSUME NEW j \in Jobs, Enqueue(j) PROVE JobsOnward
  BY <1>0, <1>8 DEF Enqueue, JobTypes, Places, JobsOnward
<1>9. ASSUME UNCHANGED jobVars PROVE JobsOnward
  BY <1>0, <1>9 DEF jobVars, JobsOnward
<1>10. ASSUME NEW q \in Requests, Ask(q) \/ Serve(q)
       PROVE  Onward \/ UploadRow(q) \/ DeleteClip(q)
  <2>1. CASE UploadRow(q) \/ DeleteClip(q)
    BY <2>1
  <2>2. CASE ~(UploadRow(q) \/ DeleteClip(q))
    <3>1. (\E j \in Jobs : Enqueue(j)) \/ UNCHANGED jobVars
      BY <1>10, <2>2 DEF Ask, Serve, ReprocessCheck, DeleteFetch, UploadFile, UploadEnqueue,
         ReprocessStatus, ReprocessEnqueue, DeleteFiles, DeleteReceipt
    <3>2. UNCHANGED <<exists, outcome, runAge, stalledRun>>
      BY <1>10, <2>2 DEF Ask, Serve, ReprocessCheck, DeleteFetch, UploadFile, UploadEnqueue,
         ReprocessStatus, ReprocessEnqueue, DeleteFiles, DeleteReceipt, clipVars, apiUnchanged
    <3>3. QED
      BY <1>8, <1>9, <3>1, <3>2 DEF Onward
  <2>3. QED
    BY <2>1, <2>2
<1>11. ASSUME Maintain PROVE Onward \/ ExpireRow \/ MarkStalledRun \/ SelectStalled
  <2>1. CASE ExpireRow \/ MarkStalledRun \/ SelectStalled
    BY <2>1
  <2>2. CASE ~(ExpireRow \/ MarkStalledRun \/ SelectStalled)
    <3>1. (\E j \in Jobs : Enqueue(j)) \/ UNCHANGED jobVars
      BY <1>11, <2>2 DEF Maintain, MarkStalledClip, SelectOrphans, LookForKey, RequeueOrphan,
         SelectExpired, ExpireFiles, ExpireReceipt
    <3>2. UNCHANGED <<exists, outcome, runAge, stalledRun>>
      BY <1>11, <2>2 DEF Maintain, MarkStalledClip, SelectOrphans, LookForKey, RequeueOrphan,
         SelectExpired, ExpireFiles, ExpireReceipt, clipVars
    <3>3. QED
      BY <1>8, <1>9, <3>1, <3>2 DEF Onward
  <2>3. QED
    BY <2>1, <2>2
<1>12. CASE LoseWorker
  <2>1. JobsOnward
    BY <1>0, <1>12 DEF LoseWorker, JobTypes, Places, Active, Phases, JobsOnward
  <2>2. QED
    BY <1>12, <2>1 DEF LoseWorker, Onward, clipVars
<1>13. CASE FlushRedis
  <2>1. JobsOnward
    BY <1>0, <1>13 DEF FlushRedis, JobTypes, Places, JobsOnward
  <2>2. QED
    BY <1>13, <2>1 DEF FlushRedis, Onward, clipVars
<1>14. CASE LoseApi \/ ClipAgesOn \/ UNCHANGED vars
  <2>1. UNCHANGED jobVars /\ UNCHANGED <<exists, outcome, runAge, stalledRun>>
    BY <1>14 DEF LoseApi, ClipAgesOn, vars, clipVars, otherVars
  <2>2. QED
    BY <1>9, <2>1 DEF Onward
<1>15. QED
  BY <1>7, <1>10, <1>11, <1>12, <1>13, <1>14 DEF Next, Lose

\* A job that has its run to tell, or has told it, has one.
LEMMA HaveRuns ==
    ASSUME RunKnown, NEW k \in Jobs, phase[k] \in Open \cup Told \cup Failing
    PROVE  run[k] # 0
BY DEF RunKnown, Open, Told, Failing

\* The runs stay told apart, and in step with the jobs that have them.
LEMMA RunInvStays ==
    ASSUME TInv, RunInv, [Next]_vars
    PROVE  RunInv'
<1> JobTypes /\ Places /\ RunKnown /\ ClipTypes
  BY DEF TInv, JobTypes
<1>a. \A k \in Jobs : run[k] \in Nat
  BY LifecycleConstants DEF JobTypes, Runs
<1>b. Len(outcome) \in Nat /\ outcome \in Seq(Outcomes)
  BY DEF ClipTypes
<1>c. UNCHANGED run => RunsApart'
  BY DEF RunInv, RunsApart
<1>d. UNCHANGED <<run, runAge>> => NoRunIsOld'
  BY DEF RunInv, NoRunIsOld
<1>e. UNCHANGED <<exists, outcome, phase, run>> => OwnRun' /\ (~exists' => outcome' = <<>>)
  BY DEF RunInv, OwnRun
<1>1. ASSUME NEW j \in Jobs, Begin(j), exists PROVE RunParts'
  <2>1. /\ outcome' = Append(outcome, "running") /\ runAge' = "recent"
        /\ run' = [run EXCEPT ![j] = Len(outcome) + 1] /\ phase' = [phase EXCEPT ![j] = "status"]
        /\ exists' /\ UNCHANGED stalledRun
    BY <1>1 DEF Begin, GoTo, otherVars
  <2>2. /\ Len(outcome') = Len(outcome) + 1 /\ outcome'[Len(outcome) + 1] = "running"
        /\ \A i \in 1 .. Len(outcome) : outcome'[i] = outcome[i]
    BY <1>b, <2>1, AppendProperties DEF Outcomes
  <2>3. ASSUME NEW k \in Jobs
        PROVE  run'[k] <= Len(outcome') /\ Tells(phase'[k], outcome'[run'[k]])
    <3>1. CASE k = j
      BY <1>b, <2>1, <2>2, <3>1 DEF JobTypes, Places, Tells, Open, Told, Failing
    <3>2. CASE k # j
      <4>1. run'[k] = run[k] /\ phase'[k] = phase[k] /\ run[k] <= Len(outcome)
        BY <1>1, <2>1, <3>2 DEF JobTypes, Places, RunInv, OwnRun
      <4>2. phase[k] \in Open \cup Told \cup Failing => run[k] \in 1 .. Len(outcome)
        BY <1>a, <1>b, <4>1, HaveRuns
      <4>3. Tells(phase[k], outcome[run[k]])
        BY <1>1 DEF RunInv, OwnRun
      <4>4. Tells(phase[k], outcome'[run[k]])
        BY <2>2, <4>2, <4>3 DEF Tells, Told
      <4>5. QED
        BY <1>a, <1>b, <2>2, <4>1, <4>4
    <3>3. QED
      BY <3>1, <3>2
  <2>4. OwnRun'
    BY <2>3 DEF OwnRun
  <2>5. RunsApart'
    <3>1. \A k \in Jobs : run[k] <= Len(outcome)
      BY <1>1 DEF RunInv, OwnRun
    <3>2. QED
      BY <1>a, <1>b, <2>1, <3>1 DEF RunInv, RunsApart, JobTypes
  <2>6. NoRunIsOld'
    BY <2>1 DEF NoRunIsOld
  <2>7. GivenUp'
    <3>1. CASE stalledRun = 0
      BY <2>1, <3>1 DEF GivenUp
    <3>2. CASE stalledRun # 0
      <4>1. stalledRun \in 1 .. Len(outcome) /\ outcome[stalledRun] = "running"
            /\ \A k \in Jobs : run[k] # stalledRun
        BY <1>1, <1>b, <3>2, LifecycleConstants DEF RunInv, GivenUp, TInv, OtherTypes, Runs
      <4>2. QED
        BY <1>b, <2>1, <2>2, <4>1 DEF GivenUp, JobTypes
    <3>3. QED
      BY <3>1, <3>2
  <2>8. QED
    BY <2>1, <2>4, <2>5, <2>6, <2>7 DEF RunParts
<1>2. ASSUME NEW j \in Jobs, RejectRun(j) \/ Success(j) \/ FailRun(j) PROVE RunParts'
  <2>1. PICK o \in Outcomes, p \in {"finish", "announce", "complete"} :
           /\ SetOutcome(run[j], o) /\ phase' = [phase EXCEPT ![j] = p]
           /\ Tells(p, o)
    BY <1>2 DEF RejectRun, Success, FailRun, GoTo, Outcomes, Tells, Open, Told, Failing
  <2>2. phase[j] \in Open \cup Failing /\ UNCHANGED <<exists, runAge, run, stalledRun>>
    BY <1>2 DEF RejectRun, Success, FailRun, Open, Failing, otherVars
  <2>3. /\ Len(outcome') = Len(outcome)
        /\ \A k \in 1 .. Len(outcome) : outcome'[k] = IF exists /\ k = run[j] THEN o ELSE outcome[k]
    BY <1>b, <2>1, SettingOutcome
  <2>4. ASSUME exists, NEW k \in Jobs
        PROVE  run'[k] <= Len(outcome') /\ Tells(phase'[k], outcome'[run'[k]])
    <3>1. run[k] <= Len(outcome) /\ Tells(phase[k], outcome[run[k]])
      BY <2>4 DEF RunInv, OwnRun
    <3>2. CASE k = j
      <4>1. run[j] \in 1 .. Len(outcome)
        BY <1>a, <1>b, <2>2, <3>1, <3>2, HaveRuns
      <4>2. phase'[j] = p
        BY <2>1 DEF Places
      <4>3. outcome'[run[j]] = o
        BY <2>3, <2>4, <4>1
      <4>4. QED
        BY <2>1, <2>2, <2>3, <3>1, <3>2, <4>2, <4>3
    <3>3. CASE k # j
      <4>1. phase'[k] = phase[k]
        BY <2>1, <3>3 DEF Places
      <4>2. phase[k] \in Open \cup Told \cup Failing => run[k] \in 1 .. Len(outcome) /\ run[k] # run[j]
        <5>1. phase[k] \in Open \cup Told \cup Failing => run[k] # 0
          BY HaveRuns
        <5>2. QED
          BY <1>a, <1>b, <3>1, <3>3, <5>1 DEF RunInv, RunsApart
      <4>3. Tells(phase[k], outcome'[run[k]])
        BY <2>3, <3>1, <4>2 DEF Tells, Told
      <4>4. QED
        BY <2>2, <2>3, <3>1, <4>1, <4>3
    <3>4. QED
      BY <3>2, <3>3
  <2>5. OwnRun'
    BY <2>2, <2>4 DEF OwnRun
  <2>6. GivenUp'
    <3>1. ASSUME stalledRun # 0, exists PROVE stalledRun <= Len(outcome) /\ outcome'[stalledRun] = "running"
      <4>1. stalledRun \in 1 .. Len(outcome) /\ outcome[stalledRun] = "running" /\ run[j] # stalledRun
        BY <1>b, <3>1, LifecycleConstants DEF RunInv, GivenUp, TInv, OtherTypes, Runs
      <4>2. QED
        BY <2>3, <4>1
    <3>2. QED
      BY <2>2, <2>3, <3>1 DEF GivenUp, RunInv
  <2>7. ~exists' => outcome' = <<>>
    <3>1. ~exists => outcome' = outcome
      BY <2>1 DEF SetOutcome
    <3>2. QED
      BY <2>2, <3>1 DEF RunInv
  <2>8. QED
    BY <1>c, <1>d, <2>2, <2>5, <2>6, <2>7 DEF RunParts
<1>3. ASSUME NEW q \in Requests, UploadRow(q) PROVE RunParts'
  <2>1. \A j \in Jobs : phase[j] = "none" /\ run[j] = 0
    BY <1>3 DEF UploadRow, RunInv, NotYet, RunKnown
  <2>2. outcome = <<>> /\ stalledRun = 0
    BY <1>3 DEF UploadRow, RunInv, NotYet
  <2>3. exists' /\ UNCHANGED <<outcome, runAge, stalledRun, phase, run>>
    BY <1>3 DEF UploadRow, apiUnchanged, jobVars
  <2>4. OwnRun'
    BY <2>1, <2>2, <2>3 DEF OwnRun, Tells, Open, Told, Failing
  <2>5. QED
    BY <2>1, <2>2, <2>3, <2>4 DEF RunParts, RunsApart, NoRunIsOld, GivenUp
<1>4. ASSUME DeleteRow, UNCHANGED <<phase, run, stalledRun>> PROVE RunParts'
  BY <1>4 DEF DeleteRow, RunParts, RunInv, OwnRun, RunsApart, NoRunIsOld, GivenUp
<1>5. ASSUME MarkStalledRun PROVE RunParts'
  <2>1. SetOutcome(stalledRun, "failed") /\ stalledRun' = 0 /\ UNCHANGED <<exists, runAge, phase, run>>
    BY <1>5 DEF MarkStalledRun, jobVars
  <2>2. /\ Len(outcome') = Len(outcome)
        /\ \A k \in 1 .. Len(outcome) : k # stalledRun => outcome'[k] = outcome[k]
    BY <1>b, <2>1, SettingOutcome DEF Outcomes
  <2>3. ASSUME exists, NEW k \in Jobs
        PROVE  run[k] <= Len(outcome') /\ Tells(phase[k], outcome'[run[k]])
    <3>1. run[k] <= Len(outcome) /\ Tells(phase[k], outcome[run[k]])
      BY <2>3 DEF RunInv, OwnRun
    <3>2. phase[k] \in Open \cup Told \cup Failing => run[k] \in 1 .. Len(outcome) /\ run[k] # stalledRun
      <4>1. phase[k] \in Open \cup Told \cup Failing => run[k] # 0
        BY HaveRuns
      <4>2. QED
        BY <1>a, <1>b, <3>1, <4>1 DEF RunInv, GivenUp
    <3>3. Tells(phase[k], outcome'[run[k]])
      BY <2>2, <3>1, <3>2 DEF Tells, Told
    <3>4. QED
      BY <2>2, <3>1, <3>3
  <2>4. OwnRun'
    BY <2>1, <2>3 DEF OwnRun
  <2>5. ~exists' => outcome' = <<>>
    BY <2>1 DEF SetOutcome, RunInv
  <2>6. GivenUp'
    BY <2>1 DEF GivenUp
  <2>7. QED
    BY <1>c, <1>d, <2>1, <2>4, <2>5, <2>6 DEF RunParts
<1>6. ASSUME SelectStalled PROVE RunParts'
  <2>1. UNCHANGED <<exists, outcome, runAge, phase, run>>
    BY <1>6 DEF SelectStalled, clipVars, jobVars
  <2>2. CASE Stalled
    <3>1. stalledRun' = Len(outcome) /\ outcome[Len(outcome)] = "running" /\ runAge = "old"
          /\ outcome # <<>>
      BY <1>6, <2>2 DEF SelectStalled, Stalled, Latest
    <3>2. \A j \in Jobs : run[j] = 0
      BY <3>1 DEF RunInv, NoRunIsOld
    <3>3. Len(outcome) # 0
      BY <1>b, <3>1
    <3>4. GivenUp'
      BY <1>b, <2>1, <3>1, <3>2, <3>3 DEF GivenUp
    <3>5. QED
      BY <1>c, <1>d, <1>e, <2>1, <3>4 DEF RunParts
  <2>3. CASE ~Stalled
    <3>1. stalledRun' = 0
      BY <1>6, <2>3 DEF SelectStalled
    <3>2. GivenUp'
      BY <3>1 DEF GivenUp
    <3>3. QED
      BY <1>c, <1>d, <1>e, <2>1, <3>2 DEF RunParts
  <2>4. QED
    BY <2>2, <2>3
<1>7. ASSUME RunAgesOn PROVE RunParts'
  <2>1. UNCHANGED <<exists, outcome, phase, run, stalledRun>>
    BY <1>7 DEF RunAgesOn, jobVars, otherVars
  <2>2. NoRunIsOld'
    <3>1. runAge' = "old" => \A j \in Jobs : (phase[j] \in Active => run[j] = 0)
      BY <1>7 DEF RunAgesOn, PastCutoff
    <3>2. \A j \in Jobs : phase[j] \notin Active => run[j] = 0
      BY DEF Places, RunKnown, Active
    <3>3. QED
      BY <2>1, <3>1, <3>2 DEF NoRunIsOld
  <2>3. GivenUp'
    BY <2>1 DEF RunInv, GivenUp
  <2>4. QED
    BY <1>c, <1>e, <2>1, <2>2, <2>3 DEF RunParts
<1>8. RunParts'
  <2>1. \A q \in Requests : DeleteClip(q) => DeleteRow /\ UNCHANGED <<phase, run, stalledRun>>
    BY DEF DeleteClip, jobVars, apiUnchanged
  <2>2. ExpireRow => DeleteRow /\ UNCHANGED <<phase, run, stalledRun>>
    BY DEF ExpireRow, jobVars
  <2>3. CASE Onward
    BY <2>3, OnwardKeepsRuns
  <2>4. CASE ~Onward
    <3>1. \/ \E j \in Jobs : Begin(j) /\ exists
          \/ \E j \in Jobs : RejectRun(j) \/ Success(j) \/ FailRun(j)
          \/ \E q \in Requests : UploadRow(q) \/ DeleteClip(q)
          \/ ExpireRow \/ MarkStalledRun \/ SelectStalled \/ RunAgesOn
      BY <2>4, OnwardSteps
    <3>2. QED
      BY <1>1, <1>2, <1>3, <1>4, <1>5, <1>6, <1>7, <2>1, <2>2, <3>1
  <2>5. QED
    BY <2>3, <2>4
<1>9. QED
  BY <1>8, NotYetStays DEF RunInv, RunParts

\* The runs are told apart from the start.
LEMMA RunsAlways == Spec => []RunInv
<1>1. Init => RunInv
  BY DEF Init, RunInv, NotYet, OwnRun, RunsApart, NoRunIsOld, GivenUp
<1>2. TInv /\ RunInv /\ [Next]_vars => RunInv'
  BY RunInvStays
<1>3. QED
  BY <1>1, <1>2, TypesAlways, PTL DEF Spec

\* The outcome a run ends with stands, whatever is lost, raises or times out: recover_stalled
\* only gives up runs that no job will tell, and only the job of a run takes its success or
\* its rejection back, when what it has still to do raises.
THEOREM OutcomesStand == Spec => OutcomeStands
<1> DEFINE TakenBack(r) == /\ outcome[r] \in {"success", "rejected"} /\ outcome'[r] = "failed"
                           /\ \E j \in Jobs : run[j] = r /\ phase[j] = "failrun"
           Final == \A r \in DOMAIN outcome \cap DOMAIN outcome' :
                       outcome[r] # "running" /\ outcome'[r] # outcome[r] => TakenBack(r)
<1>1. ASSUME TInv, RunInv, [Next]_vars PROVE [Final]_vars
  <2> Len(outcome) \in Nat /\ outcome \in Seq(Outcomes) /\ DOMAIN outcome = 1 .. Len(outcome)
    BY <1>1 DEF TInv, ClipTypes
  <2>1. ASSUME NEW j \in Jobs, Begin(j), exists PROVE Final
    <3>1. outcome' = Append(outcome, "running")
      BY <2>1 DEF Begin
    <3>2. \A i \in 1 .. Len(outcome) : outcome'[i] = outcome[i]
      BY <3>1, AppendProperties DEF Outcomes
    <3>3. QED
      BY <3>2
  <2>2. ASSUME NEW r, r # 0 /\ exists => outcome[r] = "running", r \in Nat,
               NEW o \in Outcomes, SetOutcome(r, o)
        PROVE  Final
    <3>1. \A k \in 1 .. Len(outcome) : outcome'[k] = IF exists /\ k = r THEN o ELSE outcome[k]
      BY <2>2, SettingOutcome
    <3>2. QED
      BY <2>2, <3>1
  <2>3. ASSUME NEW j \in Jobs, RejectRun(j) \/ Success(j) \/ FailRun(j) PROVE Final
    <3>1. run[j] \in Nat /\ (exists => Tells(phase[j], outcome[run[j]]))
      BY <1>1, LifecycleConstants DEF RunInv, OwnRun, TInv, JobTypes, Runs
    <3>2. CASE RejectRun(j) \/ Success(j)
      <4>1. \E o \in Outcomes : SetOutcome(run[j], o)
        BY <3>2 DEF RejectRun, Success, Outcomes
      <4>2. exists => outcome[run[j]] = "running"
        BY <3>1, <3>2 DEF RejectRun, Success, Tells, Open
      <4>3. QED
        BY <2>2, <3>1, <4>1, <4>2
    <3>3. CASE FailRun(j)
      <4>1. SetOutcome(run[j], "failed") /\ phase[j] = "failrun"
        BY <3>3 DEF FailRun
      <4>2. \A k \in 1 .. Len(outcome) :
               outcome'[k] = IF exists /\ k = run[j] THEN "failed" ELSE outcome[k]
        BY <4>1, SettingOutcome DEF Outcomes
      <4>3. exists => outcome[run[j]] \in {"running", "success", "rejected"}
        BY <3>1, <4>1 DEF Tells, Failing
      <4>4. QED
        BY <4>1, <4>2, <4>3
    <3>4. QED
      BY <2>3, <3>2, <3>3
  <2>4. CASE MarkStalledRun
    <3>1. SetOutcome(stalledRun, "failed")
      BY <2>4 DEF MarkStalledRun
    <3>2. stalledRun \in Nat /\ (stalledRun # 0 /\ exists => outcome[stalledRun] = "running")
      BY <1>1, LifecycleConstants DEF RunInv, GivenUp, TInv, OtherTypes, Runs
    <3>3. QED
      BY <2>2, <3>1, <3>2 DEF Outcomes
  <2>5. ASSUME DeleteRow PROVE Final
    BY <2>5 DEF DeleteRow
  <2>6. ASSUME UNCHANGED outcome PROVE Final
    BY <2>6
  <2>7. QED
    <3>1. \A q \in Requests : (DeleteClip(q) => DeleteRow) /\ (UploadRow(q) => UNCHANGED outcome)
      BY DEF DeleteClip, UploadRow
    <3>2. ExpireRow => DeleteRow
      BY DEF ExpireRow
    <3>3. Onward \/ SelectStalled \/ RunAgesOn => UNCHANGED outcome
      BY DEF Onward, SelectStalled, RunAgesOn, clipVars
    <3>4. QED
      BY <1>1, <2>1, <2>3, <2>4, <2>5, <2>6, <3>1, <3>2, <3>3, OnwardSteps
<1>2. QED
  BY <1>1, TypesAlways, RunsAlways, PTL DEF Spec, OutcomeStands

-----------------------------------------------------------------------------
(* Deletions and their receipts.                                           *)

\* Only somebody who may delete does, and only a clip that may expire expires.
DeletersMay ==
    /\ \A q \in Requests : api[q] \in {"del_files", "del_row", "del_receipt"} => MayDelete
    /\ age = "expired" => Retention
    /\ maint \in {"ret_files", "ret_row", "ret_receipt"} => Retention

\* Without its row a clip has a receipt, or somebody about to write it.
ReceiptComes ==
    uploaded /\ ~exists /\ ~receipts => \/ \E q \in Requests : api[q] = "del_receipt"
                                        \/ maint = "ret_receipt"

\* Nobody starts a deletion that was not allowed.
LEMMA DeletersAlwaysMay == Spec => []DeletersMay
<1>1. Init => DeletersMay
  BY DEF Init, DeletersMay
<1>2. ASSUME TInv, DeletersMay, [Next]_vars PROVE DeletersMay'
  <2> USE DEF DeletersMay
  <2> api \in [Requests -> ApiPhases]
    BY <1>2 DEF TInv, OtherTypes
  <2>1. ASSUME NEW j \in Jobs, JobStep(j) \/ Timeout(j) PROVE DeletersMay'
    <3>1. UNCHANGED <<api, age, maint>>
      BY <2>1 DEF JobStep, Timeout, Dequeue, Reset, Begin, EnterStage, Write, Raise, Reject, RejectRun,
         Success, Complete, Fail, FailRun, Finish, clipVars, otherVars
    <3>2. QED
      BY <1>2, <3>1
  <2>2. ASSUME NEW q \in Requests, Ask(q) \/ Serve(q) PROVE DeletersMay'
    <3>1. UNCHANGED <<age, maint>>
      BY <2>2 DEF Ask, Serve, UploadRow, ReprocessCheck, DeleteFetch, UploadFile, UploadEnqueue,
         ReprocessStatus, ReprocessEnqueue, DeleteFiles, DeleteClip, DeleteReceipt, DeleteRow,
         clipVars, apiUnchanged
    <3>2. PICK p : /\ api' = [api EXCEPT ![q] = p]
                   /\ p \in {"del_files", "del_row", "del_receipt"} =>
                         MayDelete \/ api[q] \in {"del_files", "del_row", "del_receipt"}
      BY <2>2 DEF Ask, Serve, UploadRow, ReprocessCheck, DeleteFetch, UploadFile, UploadEnqueue,
         ReprocessStatus, ReprocessEnqueue, DeleteFiles, DeleteClip, DeleteReceipt, Step
    <3>3. QED
      BY <1>2, <3>1, <3>2
  <2>3. ASSUME Maintain PROVE DeletersMay'
    <3>1. UNCHANGED <<api, age>>
      BY <2>3 DEF Maintain, SelectStalled, MarkStalledClip, MarkStalledRun, SelectOrphans, LookForKey,
         RequeueOrphan, SelectExpired, ExpireFiles, ExpireRow, ExpireReceipt, DeleteRow,
         clipVars, maintUnchanged
    <3>2. maint' \in {"ret_files", "ret_row", "ret_receipt"} =>
             age = "expired" \/ maint \in {"ret_files", "ret_row", "ret_receipt"}
      BY <2>3 DEF Maintain, SelectStalled, MarkStalledClip, MarkStalledRun, SelectOrphans, LookForKey,
         RequeueOrphan, SelectExpired, ExpireFiles, ExpireRow, ExpireReceipt, Pass
    <3>3. QED
      BY <1>2, <3>1, <3>2
  <2>4. ASSUME Lose PROVE DeletersMay'
    BY <1>2, <2>4 DEF Lose, LoseWorker, LoseApi, FlushRedis, clipVars
  <2>5. ASSUME ClipAgesOn PROVE DeletersMay'
    BY <1>2, <2>5 DEF ClipAgesOn, otherVars
  <2>6. ASSUME RunAgesOn \/ UNCHANGED vars PROVE DeletersMay'
    BY <1>2, <2>6 DEF RunAgesOn, vars, clipVars, otherVars
  <2>7. QED
    BY <1>2, <2>1, <2>2, <2>3, <2>4, <2>5, <2>6 DEF Next
<1>3. QED
  BY <1>1, <1>2, TypesAlways, PTL DEF Spec

\* Whoever deletes the row writes the receipt, however many delete at once.  Only who is lost
\* in between does not: no api process may be where people delete, no worker where retention
\* does.  Redis may be, and workers while people delete, and api processes while retention does.
THEOREM DeletionsLeaveReceipts ==
    ASSUME MayDelete => "api" \notin Faults, Retention => "worker" \notin Faults
    PROVE  Spec => []ReceiptForEveryDeletion
<1>1. Init => ReceiptComes
  BY DEF Init, ReceiptComes
<1>2. ASSUME TInv, NotYet, DeletersMay, ReceiptComes, [Next]_vars PROVE ReceiptComes'
  <2> api \in [Requests -> ApiPhases]
    BY <1>2 DEF TInv, OtherTypes
  <2>1. ASSUME NEW j \in Jobs, JobStep(j) \/ Timeout(j) PROVE ReceiptComes'
    <3>1. UNCHANGED <<uploaded, exists, receipts, api, maint>>
      BY <2>1 DEF JobStep, Timeout, Dequeue, Reset, Begin, EnterStage, Write, Raise, Reject, RejectRun,
         Success, Complete, Fail, FailRun, Finish, clipVars, otherVars
    <3>2. QED
      BY <1>2, <3>1 DEF ReceiptComes
  <2>2. ASSUME NEW q \in Requests, Ask(q) \/ Serve(q) PROVE ReceiptComes'
    <3>1. CASE UploadRow(q)
      BY <3>1 DEF UploadRow, ReceiptComes
    <3>2. CASE DeleteClip(q)
      BY <3>2 DEF DeleteClip, Step, ReceiptComes
    <3>3. CASE DeleteReceipt(q)
      BY <3>3 DEF DeleteReceipt, ReceiptComes
    <3>4. CASE ~UploadRow(q) /\ ~DeleteClip(q) /\ ~DeleteReceipt(q)
      <4>1. UNCHANGED <<uploaded, exists, receipts, maint>>
        BY <2>2, <3>4 DEF Ask, Serve, ReprocessCheck, DeleteFetch, UploadFile, UploadEnqueue,
           ReprocessStatus, ReprocessEnqueue, DeleteFiles, clipVars, apiUnchanged
      <4>2. PICK p : api' = [api EXCEPT ![q] = p] /\ api[q] # "del_receipt"
        BY <2>2, <3>4 DEF Ask, Serve, ReprocessCheck, DeleteFetch, UploadFile, UploadEnqueue,
           ReprocessStatus, ReprocessEnqueue, DeleteFiles, Step
      <4>3. \A r \in Requests : api[r] = "del_receipt" => api'[r] = "del_receipt"
        BY <4>2
      <4>4. QED
        BY <1>2, <4>1, <4>3 DEF ReceiptComes
    <3>5. QED
      BY <3>1, <3>2, <3>3, <3>4
  <2>3. ASSUME Maintain PROVE ReceiptComes'
    <3>1. CASE ExpireRow
      BY <3>1 DEF ExpireRow, Pass, ReceiptComes
    <3>2. CASE ExpireReceipt
      BY <3>2 DEF ExpireReceipt, ReceiptComes
    <3>3. CASE ~ExpireRow /\ ~ExpireReceipt
      <4>1. UNCHANGED <<uploaded, exists, receipts, api>> /\ maint # "ret_receipt"
        BY <2>3, <3>3 DEF Maintain, SelectStalled, MarkStalledClip, MarkStalledRun, SelectOrphans,
           LookForKey, RequeueOrphan, SelectExpired, ExpireFiles, Pass, clipVars, maintUnchanged
      <4>2. QED
        BY <1>2, <4>1 DEF ReceiptComes
    <3>4. QED
      BY <3>1, <3>2, <3>3
  <2>4. ASSUME LoseWorker PROVE ReceiptComes'
    <3>1. "worker" \in Faults /\ UNCHANGED <<uploaded, exists, receipts, api>>
      BY <2>4 DEF LoseWorker, Fault, clipVars
    <3>2. maint # "ret_receipt"
      BY <1>2, <3>1 DEF DeletersMay
    <3>3. QED
      BY <1>2, <3>1, <3>2 DEF ReceiptComes
  <2>5. ASSUME LoseApi PROVE ReceiptComes'
    <3>1. "api" \in Faults /\ UNCHANGED <<uploaded, exists, receipts, maint>>
      BY <2>5 DEF LoseApi, Fault, clipVars
    <3>2. \A q \in Requests : api[q] # "del_receipt"
      BY <1>2, <3>1 DEF DeletersMay
    <3>3. QED
      BY <1>2, <3>1, <3>2 DEF ReceiptComes
  <2>6. ASSUME FlushRedis \/ ClipAgesOn \/ RunAgesOn \/ UNCHANGED vars PROVE ReceiptComes'
    <3>1. UNCHANGED <<uploaded, exists, receipts, api, maint>>
      BY <2>6 DEF FlushRedis, ClipAgesOn, RunAgesOn, vars, clipVars, otherVars
    <3>2. QED
      BY <1>2, <3>1 DEF ReceiptComes
  <2>7. QED
    BY <1>2, <2>1, <2>2, <2>3, <2>4, <2>5, <2>6 DEF Next, Lose
<1>3. ReceiptComes /\ TInv => ReceiptForEveryDeletion
  BY DEF ReceiptComes, ReceiptForEveryDeletion, Deleting, TInv, ClipTypes
<1>4. RunInv => NotYet
  BY DEF RunInv
<1>5. QED
  BY <1>1, <1>2, <1>3, <1>4, TypesAlways, RunsAlways, DeletersAlwaysMay, PTL DEF Spec

-----------------------------------------------------------------------------
(* One job at a time.                                                      *)

\* Jobs that are pairwise the same are at most one.
LEMMA AtMostOne ==
    ASSUME NEW S, \A i, j \in S : i = j
    PROVE  Cardinality(S) <= 1
<1>1. CASE S = {}
  BY <1>1, FS_EmptySet
<1>2. CASE S # {}
  <2>1. PICK i \in S : S = {i}
    BY <1>2
  <2>2. Cardinality({i}) = 1
    BY FS_Singleton
  <2>3. QED
    BY <2>1, <2>2
<1>3. QED
  BY <1>1, <1>2

\* No id is taken that was free, and the ids that are still taken keep their keys.
FewerJobs == \A k \in Jobs : phase'[k] # "none" => phase[k] # "none" /\ (k \in keys => k \in keys')

\* A job takes no other id, and neither asks nor looks after anything.
LEMMA JobsTakeNoId ==
    ASSUME TInv, NEW n \in Jobs, JobStep(n) \/ Timeout(n)
    PROVE  FewerJobs /\ phase[n] # "none" /\ UNCHANGED <<age, api, maint, uploaded, faults>>
<1> JobTypes /\ Places
  BY DEF TInv, JobTypes
<1>1. ASSUME NEW j \in Jobs, Over(j) PROVE FewerJobs
  BY <1>1 DEF Over, Places, FewerJobs
<1>2. ASSUME NEW j \in Jobs, NEW p, NEW i, GoTo(j, p, i), phase[j] # "none", UNCHANGED keys PROVE FewerJobs
  BY <1>2 DEF GoTo, Places, FewerJobs
<1>3. FewerJobs
  <2>1. CASE Dequeue(n) \/ Begin(n) \/ Finish(n) \/ Timeout(n)
    <3>1. Over(n) \/ ((\E p, i : GoTo(n, p, i)) /\ phase[n] # "none" /\ UNCHANGED keys)
      BY <2>1 DEF Dequeue, Begin, Finish, Timeout
    <3>2. QED
      BY <1>1, <1>2, <3>1
  <2>2. CASE \/ Reset(n) \/ EnterStage(n) \/ Raise(n) \/ Reject(n) \/ RejectRun(n) \/ Success(n)
             \/ Complete(n) \/ Fail(n) \/ FailRun(n)
    <3>1. (\E p, i : GoTo(n, p, i)) /\ phase[n] # "none" /\ UNCHANGED keys
      BY <2>2, LifecycleConstants
      DEF Reset, EnterStage, Raise, Reject, RejectRun, Success, Complete, Fail, FailRun, Guarded
    <3>2. QED
      BY <1>2, <3>1
  <2>3. CASE Write(n)
    <3>1. Advance(n) /\ phase[n] = "stage" /\ UNCHANGED keys
      BY <2>3 DEF Write
    <3>2. UNCHANGED phase \/ \E p, i : GoTo(n, p, i)
      BY <3>1 DEF Advance, NextStage
    <3>3. QED
      BY <1>2, <3>1, <3>2 DEF FewerJobs
  <2>4. QED
    BY <2>1, <2>2, <2>3 DEF JobStep
<1>4. phase[n] # "none"
  BY LifecycleConstants
  DEF JobStep, Timeout, Dequeue, Reset, Begin, EnterStage, Write, Raise, Reject, RejectRun, Success,
      Complete, Fail, FailRun, Finish, Active, Guarded
<1>5. UNCHANGED <<age, otherVars>>
  BY DEF JobStep, Timeout, Dequeue, Reset, Begin, EnterStage, Write, Raise, Reject, RejectRun,
     Success, Complete, Fail, FailRun, Finish, clipVars
<1>6. QED
  BY <1>3, <1>4, <1>5 DEF otherVars

\* Where nobody reprocesses and Redis keeps its keys: every job has its key, ...
Keyed == \A j \in Jobs : phase[j] # "none" => j \in keys

\* ... there is at most one of them, ...
Alone == \A i, j \in Jobs : phase[i] # "none" /\ phase[j] # "none" => i = j

\* ... none while the upload is at its file or its enqueue, which is one request's doing, ...
Uploading(q) == api[q] \in {"up_raw", "up_enqueue"}
UploadFirst ==
    \A q \in Requests : Uploading(q) =>
        /\ \A r \in Requests : Uploading(r) => q = r
        /\ \A j \in Jobs : phase[j] = "none"
        /\ outcome = <<>> /\ age = "young" /\ runAge # "old" /\ uploaded

\* ... and none once requeue_orphans has found no key.
OrphanAlone ==
    /\ maint \in {"orphan_key", "orphan_enqueue"} => age # "young"
    /\ maint = "orphan_enqueue" => \A j \in Jobs : phase[j] = "none"

NoReprocess == \A q \in Requests : api[q] \notin {"rep_status", "rep_enqueue"}

SingleJob == NoReprocess /\ Keyed /\ Alone /\ UploadFirst /\ OrphanAlone

\* The key in Redis turns every second job away, as long as it is not flushed.
LEMMA SingleJobStays ==
    ASSUME MaxReprocess = 0, "redis" \notin Faults, TInv, NotYet, SingleJob, [Next]_vars
    PROVE  SingleJob'
<1> JobTypes /\ Places /\ OtherTypes /\ api \in [Requests -> ApiPhases]
  BY DEF TInv, JobTypes, OtherTypes
<1> USE DEF SingleJob
<1>1. FewerJobs => Keyed' /\ Alone'
  BY DEF FewerJobs, Keyed, Alone
<1>2. ASSUME NEW j \in Jobs, Enqueue(j), \A i \in Jobs : phase[i] = "none" PROVE Keyed' /\ Alone'
  BY <1>2 DEF Enqueue, Places, Keyed, Alone
<1>3. ASSUME NEW j \in Jobs, JobStep(j) \/ Timeout(j) PROVE SingleJob'
  <2>1. FewerJobs /\ phase[j] # "none" /\ UNCHANGED <<age, api, maint, uploaded>>
    BY <1>3, JobsTakeNoId
  <2>2. NoReprocess'
    BY <2>1 DEF NoReprocess
  <2>3. UploadFirst'
    BY <2>1 DEF UploadFirst, Uploading
  <2>4. OrphanAlone'
    BY <2>1 DEF OrphanAlone
  <2>5. QED
    BY <1>1, <2>1, <2>2, <2>3, <2>4
<1>4. ASSUME NEW q \in Requests, Ask(q) \/ Serve(q) PROVE SingleJob'
  <2>1. ~ReprocessCheck(q)
    BY DEF ReprocessCheck, OtherTypes
  <2>2. ~ReprocessStatus(q) /\ ~ReprocessEnqueue(q)
    BY DEF ReprocessStatus, ReprocessEnqueue, Step, NoReprocess
  <2>3. UNCHANGED <<age, maint>>
    BY <1>4 DEF Ask, Serve, UploadRow, ReprocessCheck, DeleteFetch, UploadFile, UploadEnqueue,
       ReprocessStatus, ReprocessEnqueue, DeleteFiles, DeleteClip, DeleteReceipt, DeleteRow,
       clipVars, apiUnchanged
  <2>4. PICK p \in {"idle", "up_raw", "up_enqueue", "del_files", "del_row", "del_receipt"} :
           api' = [api EXCEPT ![q] = p]
    BY <1>4, <2>1, <2>2 DEF Ask, Serve, UploadRow, DeleteFetch, UploadFile, UploadEnqueue,
       DeleteFiles, DeleteClip, DeleteReceipt, Step
  <2>5. NoReprocess'
    BY <2>4 DEF NoReprocess
  <2>6. CASE UploadRow(q)
    <3>1. ~uploaded /\ uploaded' /\ UNCHANGED <<outcome, runAge, age, jobVars>> /\ p = "up_raw"
      BY <2>4, <2>6 DEF UploadRow, Step
    <3>2. UploadFirst'
      BY <2>4, <3>1 DEF NotYet, UploadFirst, Uploading, jobVars
    <3>3. QED
      BY <2>3, <2>5, <3>1, <3>2 DEF jobVars, Keyed, Alone, OrphanAlone
  <2>7. CASE UploadFile(q)
    <3>1. api[q] = "up_raw" /\ UNCHANGED <<outcome, runAge, age, uploaded, jobVars>>
      BY <2>7 DEF UploadFile, Step
    <3>2. \A r \in Requests : api'[r] \in {"up_raw", "up_enqueue"} => api[r] \in {"up_raw", "up_enqueue"}
      BY <2>4, <3>1
    <3>3. UploadFirst'
      BY <3>1, <3>2 DEF UploadFirst, Uploading, jobVars
    <3>4. QED
      BY <2>3, <2>5, <3>1, <3>3 DEF jobVars, Keyed, Alone, OrphanAlone
  <2>8. CASE UploadEnqueue(q)
    <3>1. api[q] = "up_enqueue" /\ api'[q] = "idle" /\ UNCHANGED uploaded
      BY <2>8 DEF UploadEnqueue, Step
    <3>2. (\A j \in Jobs : phase[j] = "none") /\ age = "young"
      BY <3>1 DEF UploadFirst, Uploading
    <3>3. Keyed' /\ Alone'
      BY <1>2, <2>8, <3>2 DEF UploadEnqueue
    <3>4. \A r \in Requests : ~Uploading(r)'
      BY <2>4, <3>1 DEF UploadFirst, Uploading
    <3>5. UploadFirst'
      BY <3>4 DEF UploadFirst
    <3>6. OrphanAlone'
      BY <2>3, <3>2 DEF OrphanAlone
    <3>7. QED
      BY <2>5, <3>3, <3>5, <3>6
  <2>9. CASE DeleteFetch(q) \/ DeleteFiles(q) \/ DeleteClip(q) \/ DeleteReceipt(q)
    <3>1. /\ UNCHANGED <<runAge, uploaded, jobVars>> /\ outcome' \in {outcome, <<>>}
          /\ p \in {"idle", "del_files", "del_row", "del_receipt"}
      BY <2>4, <2>9 DEF DeleteFetch, DeleteFiles, DeleteClip, DeleteReceipt, DeleteRow, clipVars, Step
    <3>2. \A r \in Requests : api'[r] \in {"up_raw", "up_enqueue"} => api[r] \in {"up_raw", "up_enqueue"}
      BY <2>4, <3>1
    <3>3. UploadFirst'
      BY <2>3, <3>1, <3>2 DEF UploadFirst, Uploading, jobVars
    <3>4. QED
      BY <2>3, <2>5, <3>1, <3>3 DEF jobVars, Keyed, Alone, OrphanAlone
  <2>10. QED
    BY <1>4, <2>1, <2>2, <2>6, <2>7, <2>8, <2>9 DEF Ask, Serve
<1>5. ASSUME Maintain PROVE SingleJob'
  <2>1. UNCHANGED <<api, age, uploaded, runAge>>
    BY <1>5 DEF Maintain, SelectStalled, MarkStalledClip, MarkStalledRun, SelectOrphans, LookForKey,
       RequeueOrphan, SelectExpired, ExpireFiles, ExpireRow, ExpireReceipt, DeleteRow, clipVars,
       maintUnchanged
  <2>2. NoReprocess'
    BY <2>1 DEF NoReprocess
  <2>3. CASE RequeueOrphan
    <3>1. /\ maint = "orphan_enqueue" /\ maint' = "retention" /\ UNCHANGED outcome
      BY <2>3 DEF RequeueOrphan, Pass, clipVars
    <3>2. age # "young" /\ \A j \in Jobs : phase[j] = "none"
      BY <3>1 DEF OrphanAlone
    <3>3. Keyed' /\ Alone'
      BY <1>2, <2>3, <3>2 DEF RequeueOrphan
    <3>4. UploadFirst'
      BY <2>1, <3>2 DEF UploadFirst, Uploading
    <3>5. QED
      BY <2>2, <3>1, <3>3, <3>4 DEF OrphanAlone
  <2>4. CASE ~RequeueOrphan
    <3>1. UNCHANGED jobVars
      BY <1>5, <2>4 DEF Maintain, SelectStalled, MarkStalledClip, MarkStalledRun, SelectOrphans,
         LookForKey, SelectExpired, ExpireFiles, ExpireRow, ExpireReceipt
    <3>2. outcome = <<>> => outcome' = <<>>
      BY <1>5, <2>4 DEF Maintain, SelectStalled, MarkStalledClip, MarkStalledRun, SelectOrphans,
         LookForKey, SelectExpired, ExpireFiles, ExpireRow, ExpireReceipt, clipVars, DeleteRow, SetOutcome
    <3>3. UploadFirst'
      BY <2>1, <3>1, <3>2 DEF UploadFirst, Uploading, jobVars
    <3>4. /\ maint' = "orphan_key" => Orphaned
          /\ maint' = "orphan_enqueue" => keys = {} /\ maint = "orphan_key"
      BY <1>5, <2>4 DEF Maintain, SelectStalled, MarkStalledClip, MarkStalledRun, SelectOrphans,
         LookForKey, SelectExpired, ExpireFiles, ExpireRow, ExpireReceipt, Pass
    <3>5. OrphanAlone'
      BY <2>1, <3>1, <3>4 DEF OrphanAlone, Orphaned, Keyed, jobVars
    <3>6. QED
      BY <2>2, <3>1, <3>3, <3>5 DEF jobVars, Keyed, Alone
  <2>5. QED
    BY <2>3, <2>4
<1>6. ASSUME LoseWorker PROVE SingleJob'
  <2>1. FewerJobs /\ maint' = "idle" /\ UNCHANGED <<clipVars, api, uploaded>>
    BY <1>6 DEF LoseWorker, Places, Active, FewerJobs
  <2>2. UploadFirst'
    BY <2>1 DEF UploadFirst, Uploading, FewerJobs, clipVars
  <2>3. QED
    BY <1>1, <2>1, <2>2 DEF NoReprocess, OrphanAlone
<1>7. ASSUME LoseApi PROVE SingleJob'
  BY <1>7 DEF LoseApi, clipVars, jobVars, NoReprocess, Keyed, Alone, UploadFirst, Uploading, OrphanAlone
<1>8. ~FlushRedis
  BY DEF FlushRedis, Fault
<1>9. ASSUME ClipAgesOn PROVE SingleJob'
  <2>1. \/ age = "aged"
        \/ \A q \in Requests : ~Uploading(q)
    BY <1>9 DEF ClipAgesOn, Uploading
  <2>2. age' # "young" /\ UNCHANGED <<outcome, runAge, jobVars, otherVars>>
    BY <1>9 DEF ClipAgesOn
  <2>3. UploadFirst'
    BY <2>1, <2>2 DEF UploadFirst, Uploading, otherVars
  <2>4. QED
    BY <2>2, <2>3 DEF jobVars, otherVars, NoReprocess, Keyed, Alone, OrphanAlone
<1>10. ASSUME RunAgesOn PROVE SingleJob'
  <2>1. outcome # <<>> /\ UNCHANGED <<age, outcome, jobVars, otherVars>>
    BY <1>10 DEF RunAgesOn
  <2>2. UploadFirst'
    BY <2>1 DEF UploadFirst, Uploading, otherVars
  <2>3. QED
    BY <2>1, <2>2 DEF jobVars, otherVars, NoReprocess, Keyed, Alone, OrphanAlone
<1>11. ASSUME UNCHANGED vars PROVE SingleJob'
  BY <1>11 DEF vars, clipVars, jobVars, otherVars, NoReprocess, Keyed, Alone, UploadFirst, Uploading,
     OrphanAlone
<1>12. QED
  BY <1>3, <1>4, <1>5, <1>6, <1>7, <1>8, <1>9, <1>10, <1>11 DEF Next, Lose

\* From the upload on.
LEMMA SingleJobAlways ==
    ASSUME MaxReprocess = 0, "redis" \notin Faults
    PROVE  Spec => []SingleJob
<1>1. Init => SingleJob
  BY DEF Init, SingleJob, NoReprocess, Keyed, Alone, UploadFirst, Uploading, OrphanAlone
<1>2. TInv /\ NotYet /\ SingleJob /\ [Next]_vars => SingleJob'
  BY SingleJobStays
<1>3. RunInv => NotYet
  BY DEF RunInv
<1>4. QED
  BY <1>1, <1>2, <1>3, TypesAlways, RunsAlways, PTL DEF Spec

\* Whatever worker or api process is lost, retried or timed out, and whatever is requeued or
\* deleted meanwhile, one job at a time works on a clip that nobody reprocesses.  Redis may
\* not be lost: an orphan's job is looked up there.
THEOREM OneJobWithoutReprocessing ==
    ASSUME MaxReprocess = 0, "redis" \notin Faults
    PROVE  Spec => []OneJobAtATime
<1>1. SingleJob => OneJobAtATime
  <2> SUFFICES ASSUME SingleJob PROVE Cardinality(Working) <= 1
    BY DEF OneJobAtATime
  <2>1. \A i, j \in Working : i = j
    BY DEF SingleJob, Alone, Working, Active
  <2>2. QED
    BY <2>1, AtMostOne
<1>2. QED
  BY <1>1, SingleJobAlways, PTL

\* Of a clip whose latest run is past the cutoff no job is left but one that starts again,
\* and recover_stalled takes none for stalled that waits for one.
OldIsOver ==
    /\ runAge = "old" /\ ((\E j \in Jobs : phase[j] # "none") \/ maint \in {"orphan_key", "orphan_enqueue"})
          => status = "QUEUED"
    /\ maint = "stall_clip" => runAge = "old" /\ status # "QUEUED"

\* A run gets old only while nobody works on it.
LEMMA OldIsOverStays ==
    ASSUME MaxReprocess = 0, "redis" \notin Faults, PromptRetry,
           TInv, RunInv, SingleJob, OldIsOver, [Next]_vars
    PROVE  OldIsOver'
<1> JobTypes /\ Places /\ OtherTypes /\ RunKnown /\ NotYet
  BY DEF TInv, JobTypes, RunInv
<1> USE DEF OldIsOver
<1>1. ASSUME NEW j \in Jobs, JobStep(j) \/ Timeout(j) PROVE OldIsOver'
  <2>1. FewerJobs /\ phase[j] # "none" /\ UNCHANGED maint
    BY <1>1, JobsTakeNoId
  <2>2. maint # "stall_clip"
    BY <2>1
  <2>3. CASE runAge = "old"
    <3>1. status = "QUEUED" /\ run[j] = 0
      BY <2>1, <2>3 DEF RunInv, NoRunIsOld
    <3>2. phase[j] \in {"queued", "reset", "begin"}
      BY <2>1, <3>1 DEF RunKnown
    <3>3. runAge' = "recent" \/ UNCHANGED status
      BY <1>1, <3>2 DEF JobStep, Timeout, Dequeue, Reset, Begin, EnterStage, Write, Raise, Reject,
         RejectRun, Success, Complete, Fail, FailRun, Finish, clipVars
    <3>4. QED
      BY <2>1, <2>2, <3>1, <3>3
  <2>4. CASE runAge # "old"
    <3>1. runAge' # "old"
      BY <1>1, <2>4 DEF JobStep, Timeout, Dequeue, Reset, Begin, EnterStage, Write, Raise, Reject,
         RejectRun, Success, Complete, Fail, FailRun, Finish, clipVars
    <3>2. QED
      BY <2>1, <2>2, <3>1
  <2>5. QED
    BY <2>3, <2>4
<1>2. ASSUME NEW q \in Requests, Ask(q) \/ Serve(q) PROVE OldIsOver'
  <2>1. ~ReprocessCheck(q) /\ ~ReprocessStatus(q) /\ ~ReprocessEnqueue(q)
    BY DEF ReprocessCheck, ReprocessStatus, ReprocessEnqueue, Step, SingleJob, NoReprocess, OtherTypes
  <2>2. UNCHANGED <<status, runAge, maint>>
    BY <1>2, <2>1 DEF Ask, Serve, UploadRow, DeleteFetch, UploadFile, UploadEnqueue, DeleteFiles,
       DeleteClip, DeleteReceipt, DeleteRow, clipVars, apiUnchanged
  <2>3. CASE UploadEnqueue(q)
    <3>1. runAge # "old"
      BY <2>3 DEF UploadEnqueue, Step, SingleJob, UploadFirst, Uploading
    <3>2. QED
      BY <2>2, <3>1
  <2>4. CASE ~UploadEnqueue(q)
    <3>1. UNCHANGED jobVars
      BY <1>2, <2>1, <2>4 DEF Ask, Serve, UploadRow, DeleteFetch, UploadFile, DeleteFiles,
         DeleteClip, DeleteReceipt
    <3>2. QED
      BY <2>2, <3>1 DEF jobVars
  <2>5. QED
    BY <2>3, <2>4
<1>3. ASSUME Maintain PROVE OldIsOver'
  <2>1. UNCHANGED runAge
    BY <1>3 DEF Maintain, SelectStalled, MarkStalledClip, MarkStalledRun, SelectOrphans, LookForKey,
       RequeueOrphan, SelectExpired, ExpireFiles, ExpireRow, ExpireReceipt, DeleteRow, clipVars
  <2>2. CASE MarkStalledClip
    <3>1. maint = "stall_clip" /\ maint' = "stall_run" /\ UNCHANGED jobVars
      BY <2>2 DEF MarkStalledClip, Pass
    <3>2. \A j \in Jobs : phase[j] = "none"
      BY <3>1
    <3>3. QED
      BY <3>1, <3>2 DEF jobVars
  <2>3. CASE RequeueOrphan
    <3>1. maint = "orphan_enqueue" /\ maint' = "retention" /\ UNCHANGED status
      BY <2>3 DEF RequeueOrphan, Pass, clipVars
    <3>2. QED
      BY <2>1, <3>1
  <2>4. CASE ~MarkStalledClip /\ ~RequeueOrphan
    <3>1. UNCHANGED <<jobVars, status>>
      BY <1>3, <2>4 DEF Maintain, SelectStalled, MarkStalledRun, SelectOrphans, LookForKey,
         SelectExpired, ExpireFiles, ExpireRow, ExpireReceipt, DeleteRow, clipVars
    <3>2. /\ maint' = "stall_clip" => Stalled
          /\ maint' = "orphan_key" => Orphaned
          /\ maint' = "orphan_enqueue" => maint = "orphan_key"
      BY <1>3, <2>4 DEF Maintain, SelectStalled, MarkStalledRun, SelectOrphans, LookForKey,
         SelectExpired, ExpireFiles, ExpireRow, ExpireReceipt, Pass
    <3>3. QED
      BY <2>1, <3>1, <3>2 DEF jobVars, Stalled, Orphaned
  <2>5. QED
    BY <2>2, <2>3, <2>4
<1>4. ASSUME LoseWorker PROVE OldIsOver'
  <2>1. FewerJobs /\ maint' = "idle" /\ UNCHANGED clipVars
    BY <1>4 DEF LoseWorker, Places, Active, FewerJobs
  <2>2. QED
    BY <2>1 DEF FewerJobs, clipVars
<1>5. ~FlushRedis
  BY DEF FlushRedis, Fault
<1>6. ASSUME LoseApi \/ ClipAgesOn \/ UNCHANGED vars PROVE OldIsOver'
  <2>1. UNCHANGED <<status, runAge, maint, jobVars>>
    BY <1>6 DEF LoseApi, ClipAgesOn, vars, clipVars, otherVars
  <2>2. QED
    BY <2>1 DEF jobVars
<1>7. ASSUME RunAgesOn PROVE OldIsOver'
  <2>1. UNCHANGED <<status, jobVars, maint>>
    BY <1>7 DEF RunAgesOn, otherVars
  <2>2. CASE runAge' = "old"
    <3>1. maint = "idle" /\ \A j \in Jobs : phase[j] \in Active => run[j] = 0
      BY <1>7, <2>2 DEF RunAgesOn, PastCutoff
    <3>2. \A j \in Jobs : phase[j] \notin {"queued", "reset", "begin"}
      BY <1>7, <2>2 DEF RunAgesOn, PastCutoff
    <3>3. \A j \in Jobs : phase[j] = "none"
      BY <3>1, <3>2 DEF RunKnown, Places, Active
    <3>4. QED
      BY <2>1, <3>1, <3>3 DEF jobVars
  <2>3. CASE runAge' # "old"
    <3>1. runAge # "old"
      BY <1>7, <2>3 DEF RunAgesOn
    <3>2. QED
      BY <2>1, <2>3, <3>1
  <2>4. QED
    BY <2>2, <2>3
<1>8. QED
  BY <1>1, <1>2, <1>3, <1>4, <1>5, <1>6, <1>7 DEF Next, Lose

\* Only recover_stalled calls a clip stalled.
LEMMA WhoStalls ==
    ASSUME [Next]_vars
    PROVE  error' \in {error, "none", "Exception", "Rejected"} \/ MarkStalledClip
BY DEF Next, JobStep, Dequeue, Reset, Begin, EnterStage, Write, Raise, Reject, RejectRun, Success,
   Complete, Fail, FailRun, Finish, Timeout, Ask, Serve, UploadRow, ReprocessCheck, DeleteFetch,
   UploadFile, UploadEnqueue, ReprocessStatus, ReprocessEnqueue, DeleteFiles, DeleteClip,
   DeleteReceipt, DeleteRow, Maintain, SelectStalled, MarkStalledRun, SelectOrphans, LookForKey,
   RequeueOrphan, SelectExpired, ExpireFiles, ExpireRow, ExpireReceipt, Lose, LoseWorker, LoseApi,
   FlushRedis, ClipAgesOn, RunAgesOn, SetError, clipVars, vars

\* recover_stalled only fails a clip that no job works on, whatever worker or api process is
\* lost, as long as a lost job has begun its next run before its last one is past the cutoff.
THEOREM StalledWithoutReprocessing ==
    ASSUME MaxReprocess = 0, "redis" \notin Faults, PromptRetry
    PROVE  Spec => StalledOnlyWhenLost
<1>1. Init => OldIsOver
  BY DEF Init, OldIsOver
<1>2. TInv /\ RunInv /\ SingleJob /\ OldIsOver /\ [Next]_vars => OldIsOver'
  BY OldIsOverStays
<1>3. ASSUME TInv, OldIsOver, [Next]_vars
      PROVE  [error' = "STALLED" /\ error # "STALLED" => Working = {}]_vars
  <2>1. MarkStalledClip => Working = {}
    BY <1>3 DEF MarkStalledClip, Pass, OldIsOver, Working, Active
  <2>2. error' \in {error, "none", "Exception", "Rejected"} \/ MarkStalledClip
    BY <1>3, WhoStalls
  <2>3. QED
    BY <2>1, <2>2
<1>4. QED
  BY <1>1, <1>2, <1>3, TypesAlways, RunsAlways, SingleJobAlways, PTL DEF Spec, StalledOnlyWhenLost

-----------------------------------------------------------------------------
(* One operator, who asks for a reprocess of a settled clip only, of a     *)
(* clip younger than the grace; an api process may be lost, but what the   *)
(* pipeline does after it has settled the clip does not raise.             *)

Settling ==
    /\ \A q, r \in Requests : q = r
    /\ ReprocessAt \subseteq Terminal
    /\ ~ClipAges
    /\ Faults \subseteq {"api"}
    /\ RaiseAt \cap {"reject", "announce"} = {}

\* The phases of a job that has still something to write, or has yet to come.
Awaited == {"queued", "reset", "begin", "status", "stage", "success", "complete", "fail"}
Early == {"queued", "reset", "begin"}

Asking(q) == api[q] \in {"up_raw", "up_enqueue", "rep_status", "rep_enqueue"}
NoneAwaited == \A j \in Jobs : phase[j] \notin Awaited

\* At most one job is awaited, none while somebody uploads or reprocesses, and the status says
\* whether one is.
Settled ==
    /\ age = "young" /\ maint \notin {"orphan_key", "orphan_enqueue"}
    /\ \A i, j \in Jobs : phase[i] \in Awaited /\ phase[j] \in Awaited => i = j
    /\ \A q \in Requests : Asking(q) => NoneAwaited
    /\ exists =>
          /\ status \in Terminal => NoneAwaited
          /\ \A q \in Requests : api[q] \in {"up_raw", "up_enqueue", "rep_enqueue"} => status = "QUEUED"
          /\ \A q \in Requests : api[q] = "rep_status" => status \in Terminal
          /\ \A j \in Jobs : phase[j] \in Early => status = "QUEUED"
          /\ maint = "stall_clip" => /\ NoneAwaited /\ \A q \in Requests : ~Asking(q)
                                     /\ status \notin {"QUEUED"} \cup Terminal

\* A job's step moves that job only, and never back to where it is awaited again.
LEMMA JobsMoveOn ==
    ASSUME Settling, TInv, NEW j \in Jobs, JobStep(j) \/ Timeout(j)
    PROVE  \E p : /\ phase' = [phase EXCEPT ![j] = p]
                  /\ p \in Awaited => phase[j] \in Awaited
                  /\ p \in Early => phase[j] \in Early
<1> Places
  BY DEF TInv, JobTypes
<1> DEFINE Goal == \E p : /\ phase' = [phase EXCEPT ![j] = p]
                          /\ p \in Awaited => phase[j] \in Awaited
                          /\ p \in Early => phase[j] \in Early
<1>1. Over(j) => Goal
  BY DEF Over, Awaited, Early
<1>2. ASSUME NEW p, NEW i, GoTo(j, p, i), p \in Awaited => phase[j] \in Awaited,
             p \in Early => phase[j] \in Early
      PROVE  Goal
  BY <1>2 DEF GoTo
<1>3. CASE Dequeue(j) \/ Begin(j) \/ Finish(j) \/ Timeout(j)
  <2>1. \/ Over(j)
        \/ phase[j] = "queued" /\ GoTo(j, "reset", 1)
        \/ phase[j] = "begin" /\ GoTo(j, "status", FirstOf(StagesAfter(0)))
    BY <1>3 DEF Dequeue, Begin, Finish, Timeout
  <2>2. QED
    BY <1>1, <1>2, <2>1 DEF Awaited, Early
<1>4. CASE Reset(j)
  <2>1. phase[j] = "reset" /\ \E p \in {"reset", "begin"}, i \in {0, at[j] + 1} : GoTo(j, p, i)
    BY <1>4 DEF Reset
  <2>2. QED
    BY <1>2, <2>1 DEF Awaited, Early
<1>5. CASE Write(j)
  <2>1. phase[j] = "stage" /\ Advance(j)
    BY <1>5 DEF Write
  <2>2. CASE UNCHANGED phase
    <3>1. phase' = [phase EXCEPT ![j] = phase[j]]
      BY <2>2 DEF Places
    <3>2. QED
      BY <3>1
  <2>3. CASE ~UNCHANGED phase
    <3>1. \E p \in {"success", "status"}, i \in {0, FirstOf(StagesAfter(at[j]))} : GoTo(j, p, i)
      BY <2>1, <2>3 DEF Advance, NextStage
    <3>2. QED
      BY <1>2, <2>1, <3>1 DEF Awaited, Early
  <2>4. QED
    BY <2>2, <2>3
<1>6. CASE EnterStage(j) \/ Raise(j) \/ Success(j)
  <2>1. phase[j] \in Awaited /\ \E p \in {"stage", "fail", "complete"}, i \in {0, at[j]} : GoTo(j, p, i)
    BY <1>6, LifecycleConstants DEF EnterStage, Raise, Success, Awaited, Guarded, Settling
  <2>2. QED
    BY <1>2, <2>1 DEF Awaited, Early
<1>7. CASE Reject(j) \/ RejectRun(j) \/ Complete(j) \/ Fail(j) \/ FailRun(j)
  <2>1. \E p \in {"reject", "announce", "finish", "failrun"} : GoTo(j, p, 0)
    BY <1>7 DEF Reject, RejectRun, Complete, Fail, FailRun
  <2>2. QED
    BY <1>2, <2>1 DEF Awaited, Early
<1>8. QED
  BY <1>3, <1>4, <1>5, <1>6, <1>7 DEF JobStep

\* No stage is called like a queued or a settled clip.
LEMMA StagesAreNamed == StageNames \cap ({"QUEUED"} \cup Terminal) = {}
<1> SUFFICES ASSUME NEW i \in 1 .. 10 PROVE AllStages[i] \notin {"QUEUED", "COMPLETE", "FAILED", "REJECTED"}
  BY StageNumbers DEF StageNames, Terminal
<1>1. i = 1 \/ i = 2 \/ i = 3 \/ i = 4 \/ i = 5 \/ i = 6 \/ i = 7 \/ i = 8 \/ i = 9 \/ i = 10
  OBVIOUS
<1>2. QED
  BY <1>1, StageNumbers

\* A request that settles the clip first finds no job, and lets none in beside its own.
LEMMA SettledStays ==
    ASSUME Settling, TInv, RunInv, Settled, [Next]_vars
    PROVE  Settled'
<1> JobTypes /\ Places /\ OtherTypes /\ ClipTypes /\ RunKnown /\ NotYet /\ api \in [Requests -> ApiPhases]
  BY DEF TInv, JobTypes, OtherTypes, RunInv
<1> USE DEF Settled, NoneAwaited, Asking
<1>1. ASSUME NEW j \in Jobs, JobStep(j) \/ Timeout(j) PROVE Settled'
  <2>1. UNCHANGED <<age, api, maint, exists>>
    <3>1. UNCHANGED <<age, api, maint>>
      BY <1>1, JobsTakeNoId
    <3>2. UNCHANGED exists
      BY <1>1 DEF JobStep, Timeout, Dequeue, Reset, Begin, EnterStage, Write, Raise, Reject, RejectRun,
         Success, Complete, Fail, FailRun, Finish, clipVars
    <3>3. QED
      BY <3>1, <3>2
  <2>2. PICK p : /\ phase' = [phase EXCEPT ![j] = p]
                 /\ p \in Awaited => phase[j] \in Awaited
                 /\ p \in Early => phase[j] \in Early
    BY <1>1, JobsMoveOn
  <2>3. \A k \in Jobs : /\ phase'[k] \in Awaited => phase[k] \in Awaited
                        /\ phase'[k] \in Early => phase[k] \in Early
    BY <2>2 DEF Places
  <2>4. CASE UNCHANGED status
    BY <2>1, <2>3, <2>4
  <2>5. CASE EnterStage(j)
    <3>1. at[j] \in StagesAfter(0) /\ phase[j] \in Awaited
      BY <2>5 DEF EnterStage, Places, Placed, Awaited
    <3>2. exists => status' \in StageNames
      BY <2>5, <3>1, Entering DEF EnterStage, SetStatus
    <3>3. exists => status' \notin {"QUEUED"} \cup Terminal
      BY <3>2, StagesAreNamed
    <3>4. \A k \in Jobs : phase'[k] \notin Early
      <4>1. phase'[j] = "stage"
        BY <2>5 DEF EnterStage, GoTo, Places
      <4>2. \A k \in Jobs : phase[k] \in Awaited => k = j
        BY <3>1
      <4>3. QED
        BY <2>3, <4>1, <4>2 DEF Awaited, Early
    <3>5. QED
      BY <2>1, <2>3, <3>1, <3>3, <3>4
  <2>6. CASE Reject(j) \/ Complete(j) \/ Fail(j)
    <3>1. /\ phase[j] \in Awaited /\ phase'[j] \notin Awaited
          /\ exists => status' \in Terminal
      BY <2>6 DEF Reject, Complete, Fail, SetStatus, Terminal, Awaited, GoTo, Places
    <3>2. \A k \in Jobs : phase'[k] \notin Awaited
      BY <2>3, <3>1
    <3>3. \A k \in Jobs : phase'[k] \notin Early
      BY <3>2 DEF Awaited, Early
    <3>4. QED
      BY <2>1, <3>1, <3>2, <3>3
  <2>7. QED
    <3>1. UNCHANGED status \/ EnterStage(j) \/ Reject(j) \/ Complete(j) \/ Fail(j)
      BY <1>1 DEF JobStep, Timeout, Dequeue, Reset, Begin, Write, Raise, RejectRun, Success, FailRun,
         Finish, clipVars
    <3>2. QED
      BY <2>4, <2>5, <2>6, <3>1
<1>2. ASSUME NEW q \in Requests, Ask(q) \/ Serve(q) PROVE Settled'
  <2>1. \A r \in Requests : r = q
    BY DEF Settling
  <2>2. UNCHANGED <<age, maint>>
    BY <1>2 DEF Ask, Serve, UploadRow, ReprocessCheck, DeleteFetch, UploadFile, UploadEnqueue,
       ReprocessStatus, ReprocessEnqueue, DeleteFiles, DeleteClip, DeleteReceipt, DeleteRow,
       clipVars, apiUnchanged
  <2>3. CASE UploadRow(q)
    <3>1. ~uploaded /\ api'[q] = "up_raw" /\ UNCHANGED <<status, phase>>
      BY <2>3 DEF UploadRow, Step, jobVars
    <3>2. \A j \in Jobs : phase'[j] \notin Awaited \cup Early
      BY <3>1 DEF NotYet, Awaited, Early
    <3>3. status' = "QUEUED" /\ maint' # "stall_clip"
      BY <2>2, <3>1 DEF NotYet
    <3>4. QED
      BY <2>1, <2>2, <3>1, <3>2, <3>3
  <2>4. CASE UploadEnqueue(q) \/ ReprocessEnqueue(q)
    <3>1. /\ api[q] \in {"up_enqueue", "rep_enqueue"} /\ api'[q] = "idle"
          /\ UNCHANGED <<exists, status>>
      BY <2>4 DEF UploadEnqueue, ReprocessEnqueue, Step, clipVars
    <3>2. PICK j \in Jobs : phase' = [phase EXCEPT ![j] = "queued"]
      BY <2>4 DEF UploadEnqueue, ReprocessEnqueue, Enqueue
    <3>3. \A k \in Jobs : phase'[k] \in Awaited => k = j
      BY <3>1, <3>2 DEF Places
    <3>4. exists => status = "QUEUED" /\ maint # "stall_clip"
      BY <3>1
    <3>5. "QUEUED" \notin Terminal
      BY DEF Terminal
    <3>6. QED
      BY <2>1, <2>2, <3>1, <3>3, <3>4, <3>5
  <2>5. CASE UploadFile(q)
    <3>1. api[q] = "up_raw" /\ api'[q] = "up_enqueue" /\ UNCHANGED <<exists, status, phase>>
      BY <2>5 DEF UploadFile, Step, jobVars
    <3>2. QED
      BY <2>1, <2>2, <3>1
  <2>6. CASE ReprocessCheck(q)
    <3>1. api'[q] = "rep_status" /\ UNCHANGED <<exists, status, phase>> /\ exists /\ status \in Terminal
      BY <2>6 DEF ReprocessCheck, Step, jobVars, clipVars, Settling
    <3>2. QED
      BY <2>1, <2>2, <3>1
  <2>7. CASE ReprocessStatus(q)
    <3>1. /\ api[q] = "rep_status" /\ api'[q] = "rep_enqueue" /\ UNCHANGED <<exists, phase>>
          /\ exists => status' = "QUEUED"
      BY <2>7 DEF ReprocessStatus, Step, jobVars, SetStatus
    <3>2. "QUEUED" \notin Terminal
      BY DEF Terminal
    <3>3. QED
      BY <2>1, <2>2, <3>1, <3>2
  <2>8. CASE DeleteFetch(q) \/ DeleteFiles(q) \/ DeleteClip(q) \/ DeleteReceipt(q)
    <3>1. /\ api'[q] \in {"del_files", "del_row", "del_receipt", "idle"}
          /\ UNCHANGED <<status, phase>> /\ (exists' => exists)
      BY <2>8 DEF DeleteFetch, DeleteFiles, DeleteClip, DeleteReceipt, DeleteRow, Step, jobVars, clipVars
    <3>2. QED
      BY <2>1, <2>2, <3>1
  <2>9. QED
    BY <1>2, <2>3, <2>4, <2>5, <2>6, <2>7, <2>8 DEF Ask, Serve
<1>3. ASSUME Maintain PROVE Settled'
  <2>1. ~RequeueOrphan /\ UNCHANGED <<api, age, jobVars>> /\ (exists' => exists)
    BY <1>3 DEF Maintain, SelectStalled, MarkStalledClip, MarkStalledRun, SelectOrphans, LookForKey,
       RequeueOrphan, SelectExpired, ExpireFiles, ExpireRow, ExpireReceipt, DeleteRow, clipVars,
       maintUnchanged, Pass
  <2>2. maint' \notin {"orphan_key", "orphan_enqueue"}
    BY <1>3 DEF Maintain, SelectStalled, MarkStalledClip, MarkStalledRun, SelectOrphans, LookForKey,
       RequeueOrphan, SelectExpired, ExpireFiles, ExpireRow, ExpireReceipt, Pass, Orphaned
  <2>3. CASE SelectStalled
    <3>1. UNCHANGED <<exists, status>> /\ (maint' = "stall_clip" => Stalled)
      BY <2>3 DEF SelectStalled, Pass, clipVars
    <3>2. Stalled => NoneAwaited /\ \A q \in Requests : ~Asking(q)
      <4> SUFFICES ASSUME Stalled PROVE NoneAwaited /\ \A q \in Requests : ~Asking(q)
        OBVIOUS
      <4>1. exists /\ status \notin {"QUEUED"} \cup Terminal /\ \A j \in Jobs : run[j] = 0
        BY DEF Stalled, RunInv, NoRunIsOld
      <4>2. \A j \in Jobs : phase[j] \in {"none", "queued", "reset", "begin"}
        BY <4>1 DEF RunKnown
      <4>3. QED
        BY <4>1, <4>2 DEF Awaited, Early
    <3>3. QED
      BY <2>1, <2>2, <3>1, <3>2 DEF jobVars, Stalled
  <2>4. CASE MarkStalledClip
    <3>1. /\ maint = "stall_clip" /\ maint' = "stall_run" /\ UNCHANGED exists
          /\ exists => status' = "FAILED"
      BY <2>4 DEF MarkStalledClip, Pass, SetStatus
    <3>2. exists => NoneAwaited /\ (\A q \in Requests : ~Asking(q)) /\ \A j \in Jobs : phase[j] \notin Early
      BY <3>1 DEF Awaited, Early
    <3>3. QED
      BY <2>1, <2>2, <3>1, <3>2 DEF jobVars
  <2>5. CASE ~SelectStalled /\ ~MarkStalledClip
    <3>1. UNCHANGED status /\ maint' # "stall_clip"
      BY <1>3, <2>1, <2>5 DEF Maintain, MarkStalledRun, SelectOrphans, LookForKey,
         SelectExpired, ExpireFiles, ExpireRow, ExpireReceipt, DeleteRow, clipVars, Pass
    <3>2. QED
      BY <2>1, <2>2, <3>1 DEF jobVars
  <2>6. QED
    BY <2>3, <2>4, <2>5
<1>4. ~LoseWorker /\ ~FlushRedis /\ ~ClipAgesOn
  BY DEF LoseWorker, FlushRedis, Fault, ClipAgesOn, Settling
<1>5. ASSUME LoseApi PROVE Settled'
  <2>1. UNCHANGED <<exists, status, age, maint, phase>> /\ \A q \in Requests : api'[q] = "idle"
    BY <1>5 DEF LoseApi, clipVars, jobVars
  <2>2. QED
    BY <2>1
<1>6. ASSUME RunAgesOn \/ UNCHANGED vars PROVE Settled'
  <2>1. UNCHANGED <<exists, status, age, maint, phase, api>>
    BY <1>6 DEF RunAgesOn, vars, clipVars, jobVars, otherVars
  <2>2. QED
    BY <2>1
<1>7. QED
  BY <1>1, <1>2, <1>3, <1>4, <1>5, <1>6 DEF Next, Lose

\* From the upload on.
LEMMA SettledAlways ==
    ASSUME Settling
    PROVE  Spec => []Settled
<1>1. Init => Settled
  BY DEF Init, Settled, NoneAwaited, Asking, Awaited, Early
<1>2. TInv /\ RunInv /\ Settled /\ [Next]_vars => Settled'
  BY SettledStays
<1>3. QED
  BY <1>1, <1>2, TypesAlways, RunsAlways, PTL DEF Spec

\* Upload, reprocess and delete as often as one likes, one at a time and reprocess when the
\* clip has settled: one job at a time works on the clip, in whatever phase jobs time out.
THEOREM OneJobWhenSettled ==
    ASSUME Settling
    PROVE  Spec => []OneJobAtATime
<1>1. Settled => OneJobAtATime
  <2> SUFFICES ASSUME Settled PROVE Cardinality(Working) <= 1
    BY DEF OneJobAtATime
  <2>1. Active \ {"reject", "failrun", "announce", "finish"} \subseteq Awaited
    BY DEF Active, Phases, Awaited
  <2>2. \A i, j \in Working : i = j
    BY <2>1 DEF Settled, Working
  <2>3. QED
    BY <2>2, AtMostOne
<1>2. QED
  BY <1>1, SettledAlways, PTL

\* And recover_stalled only fails a clip that no job works on, however long its next job waits.
THEOREM StalledWhenSettled ==
    ASSUME Settling
    PROVE  Spec => StalledOnlyWhenLost
<1>1. ASSUME TInv, Settled, [Next]_vars
      PROVE  [error' = "STALLED" /\ error # "STALLED" => Working = {}]_vars
  <2>1. MarkStalledClip /\ exists => Working = {}
    <3>1. Active \ {"reject", "failrun", "announce", "finish"} \subseteq Awaited
      BY DEF Active, Phases, Awaited
    <3>2. QED
      BY <1>1, <3>1 DEF MarkStalledClip, Pass, Settled, NoneAwaited, Working
  <2>2. MarkStalledClip /\ ~exists => UNCHANGED error
    BY DEF MarkStalledClip, SetError
  <2>3. error' \in {error, "none", "Exception", "Rejected"} \/ MarkStalledClip
    BY <1>1, WhoStalls
  <2>4. QED
    BY <2>1, <2>2, <2>3
<1>2. QED
  BY <1>1, TypesAlways, SettledAlways, PTL DEF Spec, StalledOnlyWhenLost

-----------------------------------------------------------------------------
(* What a pipeline has written when.                                       *)

\* The m-th write of the k-th stage.
What(k, m) == Writes[AllStages[k]][m]

\* A stage in scope has written x by the w-th write of the i-th stage.
IsDone(x, i, w) ==
    \E k \in StagesAfter(0) : \E m \in 1 .. WriteCount(k) :
        What(k, m) = x /\ (k < i \/ (k = i /\ m <= w))

\* The writes of the ten stages, one by one.
LEMMA AllWrites ==
    /\ WriteCount(1) = 1 /\ What(1, 1) = "nothing"
    /\ WriteCount(2) = 3 /\ What(2, 1) = "work" /\ What(2, 2) = "quality_metrics"
                         /\ What(2, 3) = "vad_regions"
    /\ WriteCount(3) = 1 /\ What(3, 1) = "nothing"
    /\ WriteCount(4) = 1 /\ What(4, 1) = "speaker_turns"
    /\ WriteCount(5) = 3 /\ What(5, 1) = "transcripts" /\ What(5, 2) = "utterances"
                         /\ What(5, 3) = "words"
    /\ WriteCount(6) = 1 /\ What(6, 1) = "nothing"
    /\ WriteCount(7) = 1 /\ What(7, 1) = "nothing"
    /\ WriteCount(8) = 2 /\ What(8, 1) = "clip_speakers" /\ What(8, 2) = "exports"
    /\ WriteCount(9) = 1 /\ What(9, 1) = "nothing"
    /\ WriteCount(10) = 1 /\ What(10, 1) = "auto_tags"
<1>1. /\ Writes["VALIDATING"] = <<"nothing">> /\ Writes["PREPROCESSING"] = PreprocessWrites
      /\ Writes["TRANSCRIBING"] = <<"nothing">> /\ Writes["DIARIZING"] = DiarizeWrites
      /\ Writes["RECONCILING"] = ReconcileWrites /\ Writes["EMBEDDING"] = <<"nothing">>
      /\ Writes["IDENTIFYING"] = <<"nothing">> /\ Writes["POSTPROCESSING"] = PostprocessWrites
      /\ Writes["INDEXING"] = <<"nothing">> /\ Writes["TAGGING"] = TagWrites
  BY StageNumbers, StageWrites
<1> DEFINE Is1(s, x) == Len(s) = 1 /\ s[1] = x
           Is2(s, x, y) == Len(s) = 2 /\ s[1] = x /\ s[2] = y
           Is3(s, x, y, z) == Len(s) = 3 /\ s[1] = x /\ s[2] = y /\ s[3] = z
<1>2. /\ Is1(<<"nothing">>, "nothing")
      /\ Is3(PreprocessWrites, "work", "quality_metrics", "vad_regions")
      /\ Is1(DiarizeWrites, "speaker_turns")
      /\ Is3(ReconcileWrites, "transcripts", "utterances", "words")
      /\ Is2(PostprocessWrites, "clip_speakers", "exports")
      /\ Is1(TagWrites, "auto_tags")
  BY DEF PreprocessWrites, DiarizeWrites, ReconcileWrites, PostprocessWrites, TagWrites
<1>3. QED
  BY <1>1, <1>2, StageNumbers DEF WriteCount, What

\* No table is written twice.
LEMMA OneHome ==
    ASSUME NEW k \in 1 .. 10, NEW m \in 1 .. WriteCount(k),
           NEW l \in 1 .. 10, NEW n \in 1 .. WriteCount(l),
           What(k, m) = What(l, n), What(k, m) \in Tables
    PROVE  k = l /\ m = n
<1> DEFINE Number(x) == IF x = "quality_metrics" THEN 22 ELSE IF x = "vad_regions" THEN 23
                        ELSE IF x = "speaker_turns" THEN 41 ELSE IF x = "transcripts" THEN 51
                        ELSE IF x = "utterances" THEN 52 ELSE IF x = "words" THEN 53
                        ELSE IF x = "clip_speakers" THEN 81 ELSE 101
<1>1. Tables = {"quality_metrics", "vad_regions", "speaker_turns", "transcripts", "utterances", "words",
                "clip_speakers", "auto_tags"}
  BY DEF Tables, ResetOrder
<1>2. ASSUME NEW i \in 1 .. 10, NEW w \in 1 .. WriteCount(i), What(i, w) \in Tables
      PROVE  Number(What(i, w)) = 10 * i + w /\ w \in 1 .. 3
  <2>1. i \in {1, 3, 6, 7, 9} => w = 1 /\ What(i, w) = "nothing"
    BY <1>2, AllWrites
  <2>2. i \in {2, 4, 5, 8, 10}
    BY <1>1, <1>2, <2>1
  <2>3. CASE i = 2
    BY <1>1, <1>2, <2>3, AllWrites
  <2>4. CASE i = 4 \/ i = 10
    BY <1>1, <1>2, <2>4, AllWrites
  <2>5. CASE i = 5
    BY <1>1, <1>2, <2>5, AllWrites
  <2>6. CASE i = 8
    BY <1>1, <1>2, <2>6, AllWrites
  <2>7. QED
    BY <2>2, <2>3, <2>4, <2>5, <2>6
<1>3. 10 * k + m = 10 * l + n /\ m \in 1 .. 3 /\ n \in 1 .. 3
  BY <1>2
<1>4. QED
  BY <1>3

\* The reset clears every table.
LEMMA ResetsAll == \A t \in Tables : \E k \in 1 .. 6 : t \in Cleared(ResetOrder[k])
<1>1. /\ ResetOrder[1] = "quality_metrics" /\ ResetOrder[2] = "vad_regions"
      /\ ResetOrder[3] = "speaker_turns" /\ ResetOrder[4] = "transcripts"
      /\ ResetOrder[5] = "clip_speakers" /\ ResetOrder[6] = "auto_tags"
  BY DEF ResetOrder
<1>2. Tables = {"quality_metrics", "vad_regions", "speaker_turns", "transcripts", "utterances", "words",
                "clip_speakers", "auto_tags"}
  BY DEF Tables, ResetOrder
<1>3. QED
  BY <1>1, <1>2 DEF Cleared

\* Before its first stage a pipeline has written nothing.
LEMMA NothingAtFirst == \A x : ~IsDone(x, FirstOf(StagesAfter(0)), 0)
<1>1. \A k \in StagesAfter(0) : k \in 1 .. 10 /\ FirstOf(StagesAfter(0)) <= k
  BY StagesLeft, NextStageExists
<1>2. FirstOf(StagesAfter(0)) \in 1 .. 10
  BY StagesLeft, NextStageExists
<1>3. QED
  BY <1>1, <1>2 DEF IsDone

\* A write adds what it writes, which if it is a table was not there before.
LEMMA OneMore ==
    ASSUME NEW i \in StagesAfter(0), NEW w \in 0 .. 3, w < WriteCount(i)
    PROVE  /\ \A x : IsDone(x, i, w + 1) <=> IsDone(x, i, w) \/ x = What(i, w + 1)
           /\ What(i, w + 1) \in Tables => ~IsDone(What(i, w + 1), i, w)
<1>1. i \in 1 .. 10 /\ WriteCount(i) \in 1 .. 3
  BY Entering
<1>2. w + 1 \in 1 .. WriteCount(i)
  BY <1>1
<1>3. \A k \in StagesAfter(0) : k \in 1 .. 10 /\ WriteCount(k) \in 1 .. 3
  BY Entering
<1>4. ASSUME NEW x PROVE IsDone(x, i, w + 1) <=> IsDone(x, i, w) \/ x = What(i, w + 1)
  BY <1>1, <1>2, <1>3 DEF IsDone
<1>5. ASSUME What(i, w + 1) \in Tables, IsDone(What(i, w + 1), i, w) PROVE FALSE
  <2>1. PICK k \in StagesAfter(0) : \E m \in 1 .. WriteCount(k) :
           What(k, m) = What(i, w + 1) /\ (k < i \/ (k = i /\ m <= w))
    BY <1>5 DEF IsDone
  <2>2. PICK m \in 1 .. WriteCount(k) :
           What(k, m) = What(i, w + 1) /\ (k < i \/ (k = i /\ m <= w))
    BY <2>1
  <2>3. k = i /\ m = w + 1
    BY <1>1, <1>2, <1>3, <1>5, <2>2, OneHome
  <2>4. QED
    BY <1>1, <2>2, <2>3
<1>6. QED
  BY <1>4, <1>5

\* After a stage's last write the next stage begins where it ended, or the pipeline is through.
LEMMA StageOver ==
    ASSUME NEW i \in StagesAfter(0), NEW x
    PROVE  /\ StagesAfter(i) = {} => (IsDone(x, i, WriteCount(i)) <=> IsDone(x, 11, 0))
           /\ StagesAfter(i) # {} =>
                 (IsDone(x, i, WriteCount(i)) <=> IsDone(x, FirstOf(StagesAfter(i)), 0))
<1>1. \A k \in StagesAfter(0) : k \in 1 .. 10 /\ WriteCount(k) \in 1 .. 3
  BY Entering
<1>2. \A k \in StagesAfter(0) : k > i => k \in StagesAfter(i)
  BY DEF StagesAfter
<1>3. CASE StagesAfter(i) = {}
  BY <1>1, <1>2, <1>3 DEF IsDone
<1>4. CASE StagesAfter(i) # {}
  <2> DEFINE f == FirstOf(StagesAfter(i))
  <2>1. StagesAfter(i) \in SUBSET (1 .. 10) /\ i \in 1 .. 10
    BY <1>1, StagesLeft
  <2>2. f \in StagesAfter(i) /\ \A k \in StagesAfter(i) : f <= k
    BY <1>4, <2>1, NextStageExists
  <2>3. f > i /\ f \in 1 .. 10
    BY <2>1, <2>2 DEF StagesAfter
  <2> HIDE DEF f
  <2>4. \A k \in StagesAfter(0) : k < f <=> k <= i
    BY <1>1, <1>2, <2>1, <2>2, <2>3
  <2>5. IsDone(x, i, WriteCount(i)) <=> IsDone(x, f, 0)
    BY <1>1, <2>1, <2>3, <2>4 DEF IsDone
  <2>6. QED
    BY <1>4, <2>5 DEF f
<1>5. QED
  BY <1>3, <1>4

-----------------------------------------------------------------------------
(* A COMPLETE clip is whole.                                               *)

\* The tables hold what the run has written so far and nothing else, and its files are there
\* unless somebody deletes them.  (The tags may be missing.)
Holds(r, i, w) ==
    /\ \A t \in Tables \ {"auto_tags"} : rows[t] = IF IsDone(t, i, w) THEN {r} ELSE {}
    /\ rows["auto_tags"] \subseteq IF IsDone("auto_tags", i, w) THEN {r} ELSE {}
    /\ ~Deleting => \A f \in Files : IsDone(f, i, w) => f \in files

\* A job in its reset has cleared what it came by; after that it is the latest run, has
\* written what comes before its place, and once it is in a stage the clip is not COMPLETE;
\* nor is it where the latest run is about to be failed.
Progress(p, i, w, r) ==
    /\ p = "reset" => \A k \in 1 .. i - 1 : \A t \in Cleared(ResetOrder[k]) : rows[t] = {}
    /\ p = "begin" => \A t \in Tables : rows[t] = {}
    /\ p = "status" => Holds(r, i, 0)
    /\ p = "stage" => Holds(r, i, w)
    /\ p \in {"success", "complete"} => Holds(r, 11, 0)
    /\ p \in {"status", "stage", "success", "complete"} => r = Len(outcome)
    /\ p \in {"stage", "success", "complete"} => status # "COMPLETE"
    /\ p = "failrun" /\ r = Len(outcome) => status # "COMPLETE"

\* Of a job in these phases nothing is said.
Loose == {"none", "queued", "reject", "announce", "fail", "finish"}

Whole == outcome # <<>> /\ outcome[Len(outcome)] = "success" /\ Holds(Len(outcome), 11, 0)

WholeInv ==
    exists => /\ \A j \in Jobs : Progress(phase[j], at[j], written[j], run[j])
              /\ status = "COMPLETE" /\ NoneAwaited => Whole

\* Whoever is to write a receipt has deleted the row.
RowGone ==
    /\ \A q \in Requests : api[q] = "del_receipt" => ~exists
    /\ maint = "ret_receipt" => ~exists

\* No receipt is begun before its row is deleted.
LEMMA RowGoneAlways == Spec => []RowGone
<1>1. Init => RowGone
  BY DEF Init, RowGone
<1>2. ASSUME TInv, NotYet, RowGone, [Next]_vars PROVE RowGone'
  <2> USE DEF RowGone
  <2> api \in [Requests -> ApiPhases]
    BY <1>2 DEF TInv, OtherTypes
  <2>1. ASSUME NEW q \in Requests, Ask(q) \/ Serve(q) PROVE RowGone'
    <3>1. CASE UploadRow(q)
      <4>1. ~uploaded /\ api' = [api EXCEPT ![q] = "up_raw"] /\ UNCHANGED maint
        BY <3>1 DEF UploadRow, Step, apiUnchanged
      <4>2. QED
        BY <1>2, <4>1 DEF NotYet
    <3>2. CASE ~UploadRow(q)
      <4>1. UNCHANGED maint /\ (exists' => exists)
        BY <2>1, <3>2 DEF Ask, Serve, ReprocessCheck, DeleteFetch, UploadFile, UploadEnqueue,
           ReprocessStatus, ReprocessEnqueue, DeleteFiles, DeleteClip, DeleteReceipt, DeleteRow,
           clipVars, apiUnchanged
      <4>2. PICK p : api' = [api EXCEPT ![q] = p] /\ (p = "del_receipt" => ~exists')
        BY <2>1, <3>2 DEF Ask, Serve, ReprocessCheck, DeleteFetch, UploadFile, UploadEnqueue,
           ReprocessStatus, ReprocessEnqueue, DeleteFiles, DeleteClip, DeleteReceipt, DeleteRow, Step
      <4>3. QED
        BY <1>2, <4>1, <4>2
    <3>3. QED
      BY <3>1, <3>2
  <2>2. ASSUME Maintain PROVE RowGone'
    <3>1. UNCHANGED api /\ (exists' => exists)
      BY <2>2 DEF Maintain, SelectStalled, MarkStalledClip, MarkStalledRun, SelectOrphans, LookForKey,
         RequeueOrphan, SelectExpired, ExpireFiles, ExpireRow, ExpireReceipt, DeleteRow, clipVars,
         maintUnchanged
    <3>2. maint' = "ret_receipt" => ~exists'
      BY <2>2 DEF Maintain, SelectStalled, MarkStalledClip, MarkStalledRun, SelectOrphans, LookForKey,
         RequeueOrphan, SelectExpired, ExpireFiles, ExpireRow, ExpireReceipt, DeleteRow, Pass
    <3>3. QED
      BY <1>2, <3>1, <3>2
  <2>3. ASSUME Lose PROVE RowGone'
    BY <1>2, <2>3 DEF Lose, LoseWorker, LoseApi, FlushRedis, clipVars
  <2>4. ASSUME NEW j \in Jobs, JobStep(j) \/ Timeout(j) PROVE RowGone'
    <3>1. UNCHANGED <<exists, api, maint>>
      BY <2>4 DEF JobStep, Timeout, Dequeue, Reset, Begin, EnterStage, Write, Raise, Reject, RejectRun,
         Success, Complete, Fail, FailRun, Finish, clipVars, otherVars
    <3>2. QED
      BY <1>2, <3>1
  <2>5. ASSUME ClipAgesOn \/ RunAgesOn \/ UNCHANGED vars PROVE RowGone'
    <3>1. UNCHANGED <<exists, api, maint>>
      BY <2>5 DEF ClipAgesOn, RunAgesOn, vars, clipVars, otherVars
    <3>2. QED
      BY <1>2, <3>1
  <2>6. QED
    BY <1>2, <2>1, <2>2, <2>3, <2>4, <2>5 DEF Next
<1>3. RunInv => NotYet
  BY DEF RunInv
<1>4. QED
  BY <1>1, <1>2, <1>3, TypesAlways, RunsAlways, PTL DEF Spec

\* Deletions that are begun are not lost: they take files away only on the way to the row.
DeletersLast == (MayDelete => "api" \notin Faults) /\ (Retention => "worker" \notin Faults)

FilesStay == ~Deleting' => ~Deleting /\ files \subseteq files'

\* While the row stays and nobody is deleting, so do the files.
LEMMA FilesGoLast ==
    ASSUME DeletersLast, TInv, DeletersMay, RowGone, [Next]_vars, exists, exists'
    PROVE  FilesStay
<1> api \in [Requests -> ApiPhases]
  BY DEF TInv, OtherTypes
<1>1. ASSUME NEW q \in Requests, Ask(q) \/ Serve(q) PROVE FilesStay
  <2>1. ~DeleteClip(q) /\ ~DeleteReceipt(q)
    BY DEF DeleteClip, DeleteReceipt, DeleteRow, Step, RowGone
  <2>2. UNCHANGED maint
    BY <1>1 DEF Ask, Serve, UploadRow, ReprocessCheck, DeleteFetch, UploadFile, UploadEnqueue,
       ReprocessStatus, ReprocessEnqueue, DeleteFiles, DeleteClip, DeleteReceipt, apiUnchanged
  <2>3. PICK p : /\ api' = [api EXCEPT ![q] = p] /\ api[q] \notin {"del_row", "del_receipt"}
                 /\ p = "del_row" \/ files \subseteq files'
    BY <1>1, <2>1 DEF Ask, Serve, UploadRow, ReprocessCheck, DeleteFetch, UploadFile, UploadEnqueue,
       ReprocessStatus, ReprocessEnqueue, DeleteFiles, clipVars, Step
  <2>4. QED
    BY <2>2, <2>3 DEF FilesStay, Deleting
<1>2. ASSUME Maintain PROVE FilesStay
  <2>1. ~ExpireRow /\ ~ExpireReceipt
    BY DEF ExpireRow, ExpireReceipt, DeleteRow, Pass, RowGone
  <2>2. UNCHANGED api
    BY <1>2 DEF Maintain, SelectStalled, MarkStalledClip, MarkStalledRun, SelectOrphans, LookForKey,
       RequeueOrphan, SelectExpired, ExpireFiles, ExpireRow, ExpireReceipt, maintUnchanged
  <2>3. /\ maint \notin {"ret_row", "ret_receipt"}
        /\ maint' = "ret_row" \/ files \subseteq files'
    BY <1>2, <2>1 DEF Maintain, SelectStalled, MarkStalledClip, MarkStalledRun, SelectOrphans,
       LookForKey, RequeueOrphan, SelectExpired, ExpireFiles, clipVars, Pass
  <2>4. QED
    BY <2>2, <2>3 DEF FilesStay, Deleting
<1>3. ASSUME LoseWorker PROVE FilesStay
  <2>1. maint \notin {"ret_row", "ret_receipt"} /\ UNCHANGED <<api, files>>
    BY <1>3 DEF LoseWorker, Fault, DeletersLast, DeletersMay, clipVars
  <2>2. QED
    BY <2>1 DEF FilesStay, Deleting
<1>4. ASSUME LoseApi PROVE FilesStay
  <2>1. (\A q \in Requests : api[q] \notin {"del_row", "del_receipt"}) /\ UNCHANGED <<maint, files>>
    BY <1>4 DEF LoseApi, Fault, DeletersLast, DeletersMay, clipVars
  <2>2. QED
    BY <2>1 DEF FilesStay, Deleting
<1>5. ASSUME UNCHANGED <<api, maint>>, files \subseteq files' PROVE FilesStay
  BY <1>5 DEF FilesStay, Deleting
<1>6. ASSUME NEW j \in Jobs, JobStep(j) \/ Timeout(j) PROVE FilesStay
  <2>1. UNCHANGED <<api, maint>> /\ files \subseteq files'
    BY <1>6 DEF JobStep, Timeout, Dequeue, Reset, Begin, EnterStage, Write, Raise, Reject, RejectRun,
       Success, Complete, Fail, FailRun, Finish, clipVars, otherVars
  <2>2. QED
    BY <1>5, <2>1
<1>7. ASSUME FlushRedis \/ ClipAgesOn \/ RunAgesOn \/ UNCHANGED vars PROVE FilesStay
  <2>1. UNCHANGED <<api, maint, files>>
    BY <1>7 DEF FlushRedis, ClipAgesOn, RunAgesOn, vars, clipVars, otherVars
  <2>2. QED
    BY <1>5, <2>1
<1>8. QED
  BY <1>1, <1>2, <1>3, <1>4, <1>6, <1>7 DEF Next, Lose

\* What the tables hold is not disturbed by a step that leaves them alone.
LEMMA HoldsStill ==
    ASSUME FilesStay, UNCHANGED rows, NEW r, NEW i, NEW w, Holds(r, i, w)
    PROVE  Holds(r, i, w)'
BY DEF FilesStay, Holds

\* Nor is the progress of a job that such a step does not move.
LEMMA ProgressStill ==
    ASSUME FilesStay, UNCHANGED rows, Len(outcome') = Len(outcome), status' = "COMPLETE" => status = "COMPLETE",
           NEW j \in Jobs, Progress(phase[j], at[j], written[j], run[j]),
           \/ phase'[j] \in Loose
           \/ phase'[j] = phase[j] /\ at'[j] = at[j] /\ written'[j] = written[j] /\ run'[j] = run[j]
    PROVE  Progress(phase[j], at[j], written[j], run[j])'
<1>1. CASE phase'[j] \in Loose
  BY <1>1 DEF Progress, Loose
<1>2. CASE phase'[j] = phase[j] /\ at'[j] = at[j] /\ written'[j] = written[j] /\ run'[j] = run[j]
  <2>1. /\ phase[j] = "status" => Holds(run[j], at[j], 0)'
        /\ phase[j] = "stage" => Holds(run[j], at[j], written[j])'
        /\ phase[j] \in {"success", "complete"} => Holds(run[j], 11, 0)'
    BY <1>2, HoldsStill DEF Progress
  <2>2. QED
    BY <1>2, <2>1 DEF Progress
<1>3. QED
  BY <1>1, <1>2

\* A write adds to what the run has written what the stage writes next.
LEMMA WriteHolds ==
    ASSUME TInv, exists, FilesStay, NEW j \in Jobs, Write(j),
           NEW r, NEW i, NEW w, r = run[j], i = at[j], w = written[j],
           Holds(r, i, w)
    PROVE  Holds(r, i, w + 1)'
<1> DEFINE x == What(i, w + 1)
<1>1. i \in StagesAfter(0) /\ w \in 0 .. 3 /\ w < WriteCount(i)
  BY DEF Write, TInv, JobTypes, Places, Placed
<1>2. /\ \A y : IsDone(y, i, w + 1) <=> IsDone(y, i, w) \/ y = x
      /\ x \in Tables => ~IsDone(x, i, w)
  BY <1>1, OneMore
<1>3. /\ Tables \cap (Files \cup {"nothing"}) = {} /\ "auto_tags" \in Tables
      /\ Files = {"raw", "work", "exports"}
  BY DEF Tables, ResetOrder, Files
<1>4. \/ x \in {"work", "exports"} /\ files' = files \cup {x} /\ UNCHANGED rows
      \/ x = "nothing" /\ UNCHANGED <<files, rows>>
      \/ x = "auto_tags" /\ rows' \in {rows, [rows EXCEPT !["auto_tags"] = {r}]} /\ UNCHANGED files
      \/ x \in Tables \ {"auto_tags"} /\ rows' = [rows EXCEPT ![x] = rows[x] \cup {r}] /\ UNCHANGED files
  BY DEF Write, What
<1> HIDE DEF x
<1>5. rows \in [Tables -> SUBSET Runs]
  BY DEF TInv, ClipTypes
<1>6. ASSUME NEW t \in Tables \ {"auto_tags"}
      PROVE  rows'[t] = IF IsDone(t, i, w + 1) THEN {r} ELSE {}
  <2>1. rows[t] = IF IsDone(t, i, w) THEN {r} ELSE {}
    BY DEF Holds
  <2>2. CASE t = x
    <3>1. rows'[t] = rows[t] \cup {r}
      BY <1>3, <1>4, <1>5, <2>2
    <3>2. rows[t] = {} /\ IsDone(t, i, w + 1)
      BY <1>2, <2>1, <2>2
    <3>3. QED
      BY <3>1, <3>2
  <2>3. CASE t # x
    <3>1. rows'[t] = rows[t]
      BY <1>3, <1>4, <1>5, <2>3
    <3>2. QED
      BY <1>2, <2>1, <2>3, <3>1
  <2>4. QED
    BY <2>2, <2>3
<1>7. rows'["auto_tags"] \subseteq IF IsDone("auto_tags", i, w + 1) THEN {r} ELSE {}
  <2>1. rows["auto_tags"] \subseteq IF IsDone("auto_tags", i, w) THEN {r} ELSE {}
    BY DEF Holds
  <2>2. CASE x = "auto_tags"
    <3>1. IsDone("auto_tags", i, w + 1) /\ rows["auto_tags"] \subseteq {r}
      BY <1>2, <2>1, <2>2
    <3>2. rows'["auto_tags"] \in {rows["auto_tags"], {r}}
      BY <1>3, <1>4, <1>5, <2>2
    <3>3. QED
      BY <3>1, <3>2
  <2>3. CASE x # "auto_tags"
    <3>1. rows'["auto_tags"] = rows["auto_tags"]
      BY <1>3, <1>4, <1>5, <2>3
    <3>2. QED
      BY <1>2, <2>1, <2>3, <3>1
  <2>4. QED
    BY <2>2, <2>3
<1>8. ASSUME ~Deleting', NEW f \in Files, IsDone(f, i, w + 1) PROVE f \in files'
  <2>1. IsDone(f, i, w) => f \in files
    BY <1>8 DEF Holds, FilesStay
  <2>2. files \subseteq files'
    BY <1>8 DEF FilesStay
  <2>3. f = x => f \in files'
    BY <1>3, <1>4
  <2>4. QED
    BY <1>2, <1>8, <2>1, <2>2, <2>3
<1>9. QED
  BY <1>6, <1>7, <1>8 DEF Holds

\* What is held at one place is held at another where the same is done.
LEMMA SameHolds ==
    ASSUME NEW r, NEW i, NEW w, NEW k, NEW n, \A x : IsDone(x, i, w) <=> IsDone(x, k, n), Holds(r, i, w)'
    PROVE  Holds(r, k, n)'
BY DEF Holds

\* A job that moves makes progress.
LEMMA JobProgresses ==
    ASSUME TInv, OwnRun, exists, exists', FilesStay, NEW j \in Jobs, JobStep(j) \/ Timeout(j),
           Progress(phase[j], at[j], written[j], run[j])
    PROVE  Progress(phase[j], at[j], written[j], run[j])'
<1> JobTypes /\ Places /\ ClipTypes
  BY DEF TInv, JobTypes
<1>a. ASSUME phase'[j] \in Loose PROVE Progress(phase[j], at[j], written[j], run[j])'
  BY <1>a DEF Progress, Loose
<1>1. CASE Dequeue(j)
  <2>1. CASE tries[j] < MaxTries
    <3>1. phase'[j] = "reset" /\ at'[j] = 1
      BY <1>1, <2>1 DEF Dequeue, GoTo, Places
    <3>2. QED
      BY <3>1 DEF Progress
  <2>2. CASE ~(tries[j] < MaxTries)
    <3>1. phase'[j] = "none"
      BY <1>1, <2>2 DEF Dequeue, Over, Places
    <3>2. QED
      BY <1>a, <3>1 DEF Loose
  <2>3. QED
    BY <2>1, <2>2
<1>2. CASE Reset(j)
  <2>1. at[j] \in 1 .. 6
    BY <1>2, SixResets DEF Reset, Places, Placed
  <2>2. \A k \in 1 .. 6 : Cleared(ResetOrder[k]) \subseteq Tables
    BY SixResets DEF Cleared, Tables
  <2>3. ASSUME NEW k \in 1 .. at[j], NEW t \in Cleared(ResetOrder[k]) PROVE rows'[t] = {}
    <3>1. t \in Tables
      BY <2>1, <2>2
    <3>2. rows'[t] = IF t \in Cleared(ResetOrder[at[j]]) THEN {} ELSE rows[t]
      BY <1>2, <3>1 DEF Reset
    <3>3. k # at[j] => rows[t] = {}
      <4>1. k # at[j] => k \in 1 .. at[j] - 1
        BY <2>1
      <4>2. QED
        BY <1>2, <4>1 DEF Progress, Reset
    <3>4. QED
      BY <3>2, <3>3
  <2>4. CASE at[j] < 6
    <3>1. phase'[j] = "reset" /\ at'[j] = at[j] + 1
      BY <1>2, <2>4, SixResets DEF Reset, GoTo, Places
    <3>2. at'[j] - 1 = at[j]
      BY <2>1, <3>1
    <3>3. QED
      BY <2>3, <3>1, <3>2 DEF Progress
  <2>5. CASE ~(at[j] < 6)
    <3>1. phase'[j] = "begin" /\ at[j] = 6
      BY <1>2, <2>1, <2>5, SixResets DEF Reset, GoTo, Places
    <3>2. \A t \in Tables : rows'[t] = {}
      BY <2>3, <3>1, ResetsAll
    <3>3. QED
      BY <3>1, <3>2 DEF Progress
  <2>6. QED
    BY <2>4, <2>5
<1>3. CASE Begin(j)
  <2> DEFINE f == FirstOf(StagesAfter(0))
  <2>0. PICK r : r = Len(outcome) + 1
    OBVIOUS
  <2>1. /\ outcome' = Append(outcome, "running") /\ run'[j] = r /\ phase'[j] = "status" /\ at'[j] = f
        /\ UNCHANGED <<rows, status>> /\ phase[j] = "begin"
    BY <1>3, <2>0 DEF Begin, GoTo, Places, JobTypes
  <2>2. Len(outcome') = r
    BY <2>0, <2>1 DEF ClipTypes
  <2>3. \A x : ~IsDone(x, f, 0)
    BY NothingAtFirst
  <2>4. \A t \in Tables : rows'[t] = {}
    BY <2>1 DEF Progress
  <2> HIDE DEF f
  <2>5. "auto_tags" \in Tables
    BY DEF Tables, ResetOrder
  <2>6. Holds(r, f, 0)'
    BY <2>3, <2>4, <2>5 DEF Holds
  <2>7. QED
    BY <2>1, <2>2, <2>6 DEF Progress
<1>4. CASE EnterStage(j)
  <2>0. PICK r, i : r = run[j] /\ i = at[j]
    OBVIOUS
  <2>1. /\ phase[j] = "status" /\ phase'[j] = "stage" /\ at'[j] = i /\ written'[j] = 0 /\ run'[j] = r
        /\ UNCHANGED <<rows, outcome>> /\ status' = AllStages[i]
    BY <1>4, <2>0 DEF EnterStage, GoTo, Places, SetStatus
  <2>2. i \in StagesAfter(0)
    BY <2>0, <2>1 DEF Places, Placed
  <2>3. status' # "COMPLETE"
    BY <2>1, <2>2, Entering, StagesAreNamed DEF Terminal
  <2>4. Holds(r, i, 0) /\ r = Len(outcome)
    BY <2>0, <2>1 DEF Progress
  <2>5. Holds(r, i, 0)'
    BY <2>1, <2>4, HoldsStill
  <2>6. QED
    BY <2>1, <2>3, <2>4, <2>5 DEF Progress
<1>5. CASE Write(j)
  <2>4. PICK r, i, w : r = run[j] /\ i = at[j] /\ w = written[j]
    OBVIOUS
  <2>1. /\ phase[j] = "stage" /\ Advance(j) /\ run'[j] = r /\ UNCHANGED <<outcome, status>>
    BY <1>5, <2>4 DEF Write
  <2>2. i \in StagesAfter(0) /\ w \in 0 .. 3 /\ w < WriteCount(i) /\ WriteCount(i) \in 1 .. 3
    BY <2>1, <2>4, Entering DEF Places, Placed
  <2>3. Holds(r, i, w) /\ r = Len(outcome) /\ status # "COMPLETE"
    BY <2>1, <2>4 DEF Progress
  <2>5. Holds(r, i, w + 1)'
    BY <1>5, <2>3, <2>4, WriteHolds
  <2>6. CASE w + 1 < WriteCount(i)
    <3>1. phase'[j] = "stage" /\ at'[j] = i /\ written'[j] = w + 1
      BY <2>1, <2>4, <2>6 DEF Advance, WriteCount, Places
    <3>2. QED
      BY <2>1, <2>3, <2>5, <3>1 DEF Progress
  <2>7. CASE ~(w + 1 < WriteCount(i))
    <3>1. NextStage(j) /\ w + 1 = WriteCount(i)
      BY <2>1, <2>2, <2>4, <2>7 DEF Advance, WriteCount
    <3>2. CASE StagesAfter(i) = {}
      <4>1. phase'[j] = "success"
        BY <2>4, <3>1, <3>2 DEF NextStage, GoTo, Places
      <4>2. \A x : IsDone(x, i, w + 1) <=> IsDone(x, 11, 0)
        BY <2>2, <3>1, <3>2, StageOver
      <4>3. Holds(r, 11, 0)'
        BY <2>5, <4>2, SameHolds
      <4>4. QED
        BY <2>1, <2>3, <4>1, <4>3 DEF Progress
    <3>3. CASE StagesAfter(i) # {}
      <4> DEFINE f == FirstOf(StagesAfter(i))
      <4>1. phase'[j] = "status" /\ at'[j] = f
        BY <2>4, <3>1, <3>3 DEF NextStage, GoTo, Places
      <4>2. \A x : IsDone(x, i, w + 1) <=> IsDone(x, f, 0)
        BY <2>2, <3>1, <3>3, StageOver
      <4> HIDE DEF f
      <4>3. Holds(r, f, 0)'
        BY <2>5, <4>2, SameHolds
      <4>4. QED
        BY <2>1, <2>3, <4>1, <4>3 DEF Progress
    <3>4. QED
      BY <3>2, <3>3
  <2>8. QED
    BY <2>6, <2>7
<1>6. CASE Raise(j)
  <2>1. phase'[j] = "fail"
    BY <1>6 DEF Raise, GoTo, Places
  <2>2. QED
    BY <1>a, <2>1 DEF Loose
<1>7. CASE Success(j)
  <2>0. PICK r : r = run[j]
    OBVIOUS
  <2>1. /\ phase[j] = "success" /\ phase'[j] = "complete" /\ UNCHANGED <<rows, status>> /\ run'[j] = r
        /\ SetOutcome(r, "success")
    BY <1>7, <2>0 DEF Success, GoTo, Places
  <2>2. Holds(r, 11, 0) /\ r = Len(outcome) /\ status # "COMPLETE"
    BY <2>0, <2>1 DEF Progress
  <2>3. Holds(r, 11, 0)'
    BY <2>1, <2>2, HoldsStill
  <2>4. Len(outcome') = Len(outcome)
    BY <2>1, SettingOutcome DEF ClipTypes, Outcomes
  <2>5. QED
    BY <2>1, <2>2, <2>3, <2>4 DEF Progress
<1>8. CASE \/ Reject(j) \/ RejectRun(j) \/ Complete(j) \/ FailRun(j) \/ Finish(j) \/ Timeout(j)
  <2>1. phase'[j] \in {"reject", "announce", "finish", "none"}
    BY <1>8 DEF Reject, RejectRun, Complete, FailRun, Finish, Timeout, GoTo, Over, Places
  <2>2. QED
    BY <1>a, <2>1 DEF Loose
<1>9. CASE Fail(j)
  <2>1. phase'[j] = "failrun" /\ status' # "COMPLETE"
    BY <1>9 DEF Fail, GoTo, Places, SetStatus
  <2>2. QED
    BY <2>1 DEF Progress
<1>10. QED
  BY <1>1, <1>2, <1>3, <1>4, <1>5, <1>6, <1>7, <1>8, <1>9 DEF JobStep

-----------------------------------------------------------------------------
(* A COMPLETE clip shows one analysis and the whole of it.                 *)

\* At most one job is awaited, and a clip that stays COMPLETE does not lose one it awaits.
OneAwaited == \A i, j \in Jobs : phase[i] \in Awaited /\ phase[j] \in Awaited => i = j
Kept == exists /\ status = "COMPLETE" /\ status' = "COMPLETE" /\ NoneAwaited' => NoneAwaited

SamePlace(k) == phase'[k] = phase[k] /\ at'[k] = at[k] /\ written'[k] = written[k] /\ run'[k] = run[k]

\* A job's step leaves the other jobs where they are.
LEMMA OthersStay ==
    ASSUME TInv, NEW j \in Jobs, JobStep(j) \/ Timeout(j), NEW k \in Jobs, k # j
    PROVE  SamePlace(k)
<1> Places /\ run \in [Jobs -> {0} \cup Runs]
  BY DEF TInv, JobTypes
<1>1. Over(j) => SamePlace(k)
  BY DEF Over, Places, SamePlace
<1>2. ASSUME NEW p, NEW i, GoTo(j, p, i), run'[k] = run[k] PROVE SamePlace(k)
  BY <1>2 DEF GoTo, Places, SamePlace
<1>3. CASE Dequeue(j) \/ Begin(j) \/ Finish(j) \/ Timeout(j)
  <2>1. Over(j) \/ (run'[k] = run[k] /\ \E p, i : GoTo(j, p, i))
    BY <1>3 DEF Dequeue, Begin, Finish, Timeout
  <2>2. QED
    BY <1>1, <1>2, <2>1
<1>4. CASE \/ Reset(j) \/ EnterStage(j) \/ Raise(j) \/ Reject(j) \/ RejectRun(j) \/ Success(j)
           \/ Complete(j) \/ Fail(j) \/ FailRun(j)
  <2>1. run'[k] = run[k] /\ \E p, i : GoTo(j, p, i)
    BY <1>4 DEF Reset, EnterStage, Raise, Reject, RejectRun, Success, Complete, Fail, FailRun
  <2>2. QED
    BY <1>2, <2>1
<1>5. CASE Write(j)
  <2>1. Advance(j) /\ run'[k] = run[k]
    BY <1>5 DEF Write
  <2>2. \/ \E p, i : GoTo(j, p, i)
        \/ UNCHANGED <<phase, at>> /\ written' = [written EXCEPT ![j] = @ + 1]
    BY <2>1 DEF Advance, NextStage
  <2>3. CASE UNCHANGED <<phase, at>> /\ written' = [written EXCEPT ![j] = @ + 1]
    BY <2>1, <2>3 DEF Places, SamePlace
  <2>4. QED
    BY <1>2, <2>1, <2>2, <2>3
<1>6. QED
  BY <1>3, <1>4, <1>5 DEF JobStep

\* A step that neither moves an awaited job nor touches the tables keeps what is held.
Still ==
    /\ UNCHANGED rows /\ Len(outcome') = Len(outcome)
    /\ status' = "COMPLETE" => status = "COMPLETE"
    /\ \A k \in Jobs : phase'[k] \in Loose \/ SamePlace(k)
    /\ Whole /\ status' = "COMPLETE" => outcome'[Len(outcome)] = "success"

\* So every job still holds what it had, and a COMPLETE clip everything.
LEMMA StillKeeps ==
    ASSUME TInv, exists, FilesStay, Kept, WholeInv, Still
    PROVE  WholeInv'
<1>1. ASSUME NEW k \in Jobs PROVE Progress(phase[k], at[k], written[k], run[k])'
  <2>1. Progress(phase[k], at[k], written[k], run[k])
    BY DEF WholeInv
  <2>2. \/ phase'[k] \in Loose
        \/ phase'[k] = phase[k] /\ at'[k] = at[k] /\ written'[k] = written[k] /\ run'[k] = run[k]
    BY DEF Still, SamePlace
  <2>3. UNCHANGED rows /\ Len(outcome') = Len(outcome) /\ (status' = "COMPLETE" => status = "COMPLETE")
    BY DEF Still
  <2>4. QED
    BY <2>1, <2>2, <2>3, ProgressStill
<1>2. ASSUME status' = "COMPLETE", NoneAwaited' PROVE Whole'
  <2>1. Whole
    BY <1>2 DEF Still, Kept, WholeInv
  <2>2. PICK n \in Nat : n = Len(outcome) /\ n # 0
    BY <2>1 DEF Whole, TInv, ClipTypes
  <2>3. Holds(n, 11, 0)
    BY <2>1, <2>2 DEF Whole
  <2>4. Holds(n, 11, 0)'
    BY <2>3, HoldsStill DEF Still
  <2>5. Len(outcome') = n /\ outcome'[n] = "success"
    BY <1>2, <2>1, <2>2 DEF Still
  <2>6. outcome' # <<>>
    BY <2>2, <2>5
  <2>7. QED
    BY <2>4, <2>5, <2>6 DEF Whole
<1>3. QED
  BY <1>1, <1>2 DEF WholeInv

\* Whatever is not a job's step is such a step.
LEMMA OthersAreStill ==
    ASSUME TInv, RunInv, exists, exists',
           \/ \E q \in Requests : Ask(q) \/ Serve(q)
           \/ Maintain \/ Lose \/ ClipAgesOn \/ RunAgesOn \/ UNCHANGED vars
    PROVE  Still
<1> JobTypes /\ Places /\ ClipTypes
  BY DEF TInv, JobTypes
<1> DEFINE Stay == \A k \in Jobs : phase'[k] \in Loose \/ SamePlace(k)
           Frame == /\ UNCHANGED <<rows, outcome>>
                    /\ status' = "COMPLETE" => status = "COMPLETE"
<1>1. UNCHANGED jobVars => Stay
  BY DEF jobVars, SamePlace
<1>2. ASSUME NEW j \in Jobs, Enqueue(j) PROVE Stay
  <2> SUFFICES ASSUME NEW k \in Jobs PROVE phase'[k] = "queued" \/ SamePlace(k)
    BY DEF Loose
  <2>1. CASE k = j
    BY <1>2, <2>1 DEF Enqueue, Places
  <2>2. CASE k # j
    BY <1>2, <2>2 DEF Enqueue, Places, SamePlace
  <2>3. QED
    BY <2>1, <2>2
<1>3. LoseWorker => Stay
  <2> SUFFICES ASSUME LoseWorker, NEW k \in Jobs PROVE phase'[k] \in {"queued", "none"}
    BY DEF Loose
  <2>1. phase[k] \in Phases
    BY DEF Places
  <2>2. QED
    BY <2>1 DEF LoseWorker, Active
<1>4. FlushRedis => Stay
  <2> SUFFICES ASSUME FlushRedis, NEW k \in Jobs PROVE phase'[k] = "none" \/ SamePlace(k)
    BY DEF Loose
  <2>1. QED
    BY DEF FlushRedis, Places, SamePlace
<1>5. Stay /\ Frame => Still
  <2> SUFFICES ASSUME Stay, Frame PROVE Still
    OBVIOUS
  <2>1. Whole => outcome'[Len(outcome)] = "success"
    BY DEF Whole
  <2>2. QED
    BY <2>1 DEF Still
<1>6. MarkStalledRun => Still
  <2> SUFFICES ASSUME MarkStalledRun PROVE Still
    OBVIOUS
  <2>1. SetOutcome(stalledRun, "failed") /\ UNCHANGED <<rows, status, jobVars>>
    BY DEF MarkStalledRun
  <2>2. PICK n \in Nat : n = Len(outcome)
    BY DEF ClipTypes
  <2>3. /\ Len(outcome') = n
        /\ \A k \in 1 .. n : outcome'[k] = IF k = stalledRun THEN "failed" ELSE outcome[k]
    BY <2>1, <2>2, SettingOutcome DEF ClipTypes, Outcomes
  <2>4. ASSUME Whole PROVE outcome'[n] = "success"
    <3>1. n # 0 /\ outcome[n] = "success"
      BY <2>2, <2>4 DEF Whole, ClipTypes
    <3>2. n # stalledRun
      <4>1. stalledRun # 0 => outcome[stalledRun] = "running"
        BY DEF RunInv, GivenUp
      <4>2. QED
        BY <3>1, <4>1
    <3>3. n \in 1 .. n
      BY <3>1
    <3>4. QED
      BY <2>3, <3>1, <3>2, <3>3
  <2>5. Stay
    BY <1>1, <2>1
  <2>6. QED
    BY <2>1, <2>2, <2>3, <2>4, <2>5 DEF Still
<1> HIDE DEF Stay
<1>7. ASSUME NEW q \in Requests, Ask(q) \/ Serve(q) PROVE Still
  <2>1. Stay
    BY <1>1, <1>2, <1>7 DEF Ask, Serve, UploadRow, ReprocessCheck, DeleteFetch, UploadFile,
       UploadEnqueue, ReprocessStatus, ReprocessEnqueue, DeleteFiles, DeleteClip, DeleteReceipt
  <2>2. ~DeleteClip(q)
    BY DEF DeleteClip, DeleteRow
  <2>3. Frame
    BY <1>7, <2>2 DEF Ask, Serve, UploadRow, ReprocessCheck, DeleteFetch, UploadFile,
       UploadEnqueue, ReprocessStatus, ReprocessEnqueue, DeleteFiles, DeleteReceipt, clipVars, SetStatus
  <2>4. QED
    BY <1>5, <2>1, <2>3
<1>8. ASSUME Maintain PROVE Still
  <2>1. CASE MarkStalledRun
    BY <1>6, <2>1
  <2>2. CASE ~MarkStalledRun
    <3>1. Stay
      BY <1>1, <1>2, <1>8, <2>2 DEF Maintain, SelectStalled, MarkStalledClip, SelectOrphans,
         LookForKey, RequeueOrphan, SelectExpired, ExpireFiles, ExpireRow, ExpireReceipt
    <3>2. ~ExpireRow
      BY DEF ExpireRow, DeleteRow
    <3>3. Frame
      BY <1>8, <2>2, <3>2 DEF Maintain, SelectStalled, MarkStalledClip, SelectOrphans,
         LookForKey, RequeueOrphan, SelectExpired, ExpireFiles, ExpireReceipt, clipVars, SetStatus
    <3>4. QED
      BY <1>5, <3>1, <3>3
  <2>3. QED
    BY <2>1, <2>2
<1>9. ASSUME Lose PROVE Still
  <2>1. Stay
    BY <1>1, <1>3, <1>4, <1>9 DEF Lose, LoseApi
  <2>2. Frame
    BY <1>9 DEF Lose, LoseWorker, LoseApi, FlushRedis, clipVars
  <2>3. QED
    BY <1>5, <2>1, <2>2
<1>10. ASSUME ClipAgesOn \/ RunAgesOn \/ UNCHANGED vars PROVE Still
  <2>1. Stay
    BY <1>1, <1>10 DEF ClipAgesOn, RunAgesOn, vars
  <2>2. Frame
    BY <1>10 DEF ClipAgesOn, RunAgesOn, vars, clipVars
  <2>3. QED
    BY <1>5, <2>1, <2>2
<1>11. QED
  BY <1>7, <1>8, <1>9, <1>10

\* While a job is about to fail the latest run, no other one makes the clip COMPLETE.
LEMMA FailrunStays ==
    ASSUME TInv, RunInv, exists, WholeInv, NEW j \in Jobs, JobStep(j) \/ Timeout(j),
           NEW k \in Jobs \ {j}, phase[k] = "failrun", run[k] = Len(outcome')
    PROVE  status' # "COMPLETE"
<1> JobTypes /\ Places /\ ClipTypes /\ RunKnown
  BY DEF TInv, JobTypes
<1>1. PICK n \in Nat : n = Len(outcome)
  BY DEF ClipTypes
<1>2. run[k] \in Nat /\ run[k] # 0 /\ run[k] <= n
  BY <1>1, LifecycleConstants DEF RunInv, OwnRun, RunKnown, JobTypes, Runs
<1>3. run[k] = n => status # "COMPLETE"
  BY <1>1 DEF WholeInv, Progress
<1>4. ASSUME Len(outcome') = n, status' # "COMPLETE" \/ UNCHANGED status PROVE status' # "COMPLETE"
  BY <1>3, <1>4
<1>5. CASE Begin(j)
  <2>1. outcome' = Append(outcome, "running")
    BY <1>5 DEF Begin
  <2>2. Len(outcome') = n + 1
    BY <1>1, <2>1 DEF ClipTypes
  <2>3. QED
    BY <1>2, <2>2
<1>6. CASE Complete(j)
  <2>1. phase[j] = "complete" /\ UNCHANGED outcome
    BY <1>6 DEF Complete
  <2>2. run[j] = n
    BY <1>1, <2>1 DEF WholeInv, Progress
  <2>3. run[j] # run[k]
    BY <1>2 DEF RunInv, RunsApart
  <2>4. QED
    BY <1>1, <2>1, <2>2, <2>3
<1>7. CASE EnterStage(j)
  <2>1. at[j] \in StagesAfter(0) /\ UNCHANGED outcome
    BY <1>7 DEF EnterStage, Places, Placed
  <2>2. status' \in StageNames
    BY <1>7, <2>1, Entering DEF EnterStage, SetStatus
  <2>3. QED
    BY <2>2, StagesAreNamed DEF Terminal
<1>8. CASE RejectRun(j) \/ Success(j) \/ FailRun(j)
  <2>1. (\E o \in Outcomes : SetOutcome(run[j], o)) /\ UNCHANGED status
    BY <1>8 DEF RejectRun, Success, FailRun, Outcomes
  <2>2. Len(outcome') = n
    BY <1>1, <2>1, SettingOutcome DEF ClipTypes
  <2>3. QED
    BY <1>4, <2>1, <2>2
<1>9. CASE Reject(j) \/ Fail(j)
  BY <1>9 DEF Reject, Fail, SetStatus
<1>10. CASE Dequeue(j) \/ Reset(j) \/ Write(j) \/ Raise(j) \/ Finish(j) \/ Timeout(j)
  <2>1. UNCHANGED <<outcome, status>>
    BY <1>10 DEF Dequeue, Reset, Write, Raise, Finish, Timeout, clipVars
  <2>2. QED
    BY <1>1, <1>4, <2>1
<1>11. QED
  BY <1>5, <1>6, <1>7, <1>8, <1>9, <1>10 DEF JobStep

\* A step keeps what is held of the clip.
LEMMA WholeInvStays ==
    ASSUME DeletersLast, TInv, RunInv, DeletersMay, RowGone, OneAwaited, WholeInv, [Next]_vars, Kept
    PROVE  WholeInv'
<1> JobTypes /\ Places /\ ClipTypes /\ RunKnown
  BY DEF TInv, JobTypes
<1>1. CASE ~exists'
  BY <1>1 DEF WholeInv
<1>2. CASE ~exists /\ exists'
  <2>1. status' = "QUEUED" /\ \A j \in Jobs : phase'[j] = "none"
    <3>1. PICK q \in Requests : UploadRow(q)
      BY <1>2 DEF Next, JobStep, Timeout, Dequeue, Reset, Begin, EnterStage, Write, Raise, Reject,
         RejectRun, Success, Complete, Fail, FailRun, Finish, Ask, Serve, ReprocessCheck, DeleteFetch,
         UploadFile, UploadEnqueue, ReprocessStatus, ReprocessEnqueue, DeleteFiles, DeleteClip,
         DeleteReceipt, Maintain, SelectStalled, MarkStalledClip, MarkStalledRun, SelectOrphans,
         LookForKey, RequeueOrphan, SelectExpired, ExpireFiles, ExpireRow, ExpireReceipt, DeleteRow,
         Lose, LoseWorker, LoseApi, FlushRedis, ClipAgesOn, RunAgesOn, clipVars, vars
    <3>2. QED
      BY <3>1 DEF UploadRow, RunInv, NotYet, jobVars
  <2>2. QED
    BY <2>1 DEF WholeInv, Progress
<1>3. CASE exists /\ exists'
  <2>1. FilesStay
    BY <1>3, FilesGoLast
  <2>2. ASSUME NEW j \in Jobs, JobStep(j) \/ Timeout(j) PROVE WholeInv'
    <3>1. \A k \in Jobs \ {j} : SamePlace(k)
      BY <2>2, OthersStay
    <3>2. CASE phase[j] \in Awaited
      <4>1. ASSUME NEW k \in Jobs PROVE Progress(phase[k], at[k], written[k], run[k])'
        <5>1. CASE k = j
          <6>1. Progress(phase[j], at[j], written[j], run[j])
            BY <1>3 DEF WholeInv
          <6>2. OwnRun
            BY DEF RunInv
          <6>3. QED
            BY <1>3, <2>1, <2>2, <5>1, <6>1, <6>2, JobProgresses
        <5>2. CASE k # j
          <6>1. SamePlace(k) /\ phase'[k] \notin Awaited
            BY <3>1, <3>2, <5>2 DEF OneAwaited, SamePlace
          <6>2. ASSUME phase[k] = "failrun", run[k] = Len(outcome') PROVE status' # "COMPLETE"
            BY <1>3, <2>2, <5>2, <6>2, FailrunStays
          <6>3. QED
            BY <6>1, <6>2 DEF Progress, Awaited, SamePlace
        <5>3. QED
          BY <5>1, <5>2
      <4>2. ASSUME status' = "COMPLETE", NoneAwaited' PROVE Whole'
        <5>1. CASE Complete(j)
          <6>1. phase[j] = "complete" /\ UNCHANGED <<rows, outcome>>
            BY <5>1 DEF Complete
          <6>2. PICK n : n = run[j]
            OBVIOUS
          <6>3. Holds(n, 11, 0) /\ n = Len(outcome)
            BY <1>3, <6>1, <6>2 DEF WholeInv, Progress
          <6>4. outcome[n] = "success"
            BY <1>3, <6>1, <6>2 DEF RunInv, OwnRun, Tells
          <6>5. n # 0
            BY <6>1, <6>2 DEF RunKnown
          <6>6. Holds(n, 11, 0)'
            BY <2>1, <6>1, <6>3, HoldsStill
          <6>7. outcome # <<>>
            BY <6>3, <6>5
          <6>8. QED
            BY <6>1, <6>3, <6>4, <6>6, <6>7 DEF Whole
        <5>2. CASE ~Complete(j)
          <6>1. status = "COMPLETE"
            <7>1. EnterStage(j) => status' # "COMPLETE"
              <8> SUFFICES ASSUME EnterStage(j) PROVE status' # "COMPLETE"
                OBVIOUS
              <8>1. at[j] \in StagesAfter(0)
                BY DEF EnterStage, Places, Placed
              <8>2. status' \in StageNames
                BY <1>3, <8>1, Entering DEF EnterStage, SetStatus
              <8>3. QED
                BY <8>2, StagesAreNamed DEF Terminal
            <7>2. UNCHANGED status \/ EnterStage(j) \/ Reject(j) \/ Fail(j)
              BY <2>2, <5>2 DEF JobStep, Timeout, Dequeue, Reset, Begin, Write, Raise, RejectRun,
                 Success, FailRun, Finish, clipVars
            <7>3. Reject(j) \/ Fail(j) => status' # "COMPLETE"
              BY <1>3 DEF Reject, Fail, SetStatus
            <7>4. QED
              BY <4>2, <7>1, <7>2, <7>3
          <6>2. NoneAwaited
            BY <1>3, <4>2, <6>1 DEF Kept
          <6>3. QED
            BY <3>2, <6>2 DEF NoneAwaited
        <5>3. QED
          BY <5>1, <5>2
      <4>3. QED
        BY <4>1, <4>2 DEF WholeInv
    <3>3. CASE phase[j] \notin Awaited
      <4>1. RejectRun(j) \/ FailRun(j) \/ Raise(j) \/ Finish(j) \/ Timeout(j)
        BY <2>2, <3>3 DEF JobStep, Dequeue, Reset, Begin, EnterStage, Write, Reject, Success,
           Complete, Fail, Awaited
      <4>2. UNCHANGED <<rows, status>>
        BY <4>1 DEF RejectRun, FailRun, Raise, Finish, Timeout, clipVars
      <4>3. phase'[j] \in Loose
        BY <4>1 DEF RejectRun, FailRun, Raise, Finish, Timeout, GoTo, Over, Places, Loose
      <4>4. PICK n \in Nat : n = Len(outcome)
        BY DEF ClipTypes
      <4>5. /\ Len(outcome') = n
            /\ Whole /\ status' = "COMPLETE" => outcome'[n] = "success"
        <5>1. CASE UNCHANGED outcome
          BY <4>4, <5>1 DEF Whole
        <5>2. CASE RejectRun(j) \/ FailRun(j)
          <6>1. PICK o \in {"rejected", "failed"} : SetOutcome(run[j], o)
            BY <5>2 DEF RejectRun, FailRun
          <6>2. outcome[run[j]] = "running" \/ (run[j] = n => status # "COMPLETE")
            <7>1. RejectRun(j) => outcome[run[j]] = "running"
              BY <1>3 DEF RejectRun, RunInv, OwnRun, Tells, Open
            <7>2. FailRun(j) => (run[j] = n => status # "COMPLETE")
              BY <1>3, <4>4 DEF FailRun, WholeInv, Progress
            <7>3. QED
              BY <5>2, <7>1, <7>2
          <6>3. /\ Len(outcome') = n
                /\ \A k \in 1 .. n : outcome'[k] = IF k = run[j] THEN o ELSE outcome[k]
            BY <1>3, <4>4, <6>1, SettingOutcome DEF ClipTypes, Outcomes
          <6>4. ASSUME Whole, status' = "COMPLETE" PROVE outcome'[n] = "success"
            <7>1. n # 0 /\ outcome[n] = "success"
              BY <4>4, <6>4 DEF Whole, ClipTypes
            <7>2. n \in 1 .. n /\ n # run[j]
              BY <4>2, <6>2, <6>4, <7>1
            <7>3. QED
              BY <6>3, <7>1, <7>2
          <6>5. QED
            BY <6>3, <6>4
        <5>3. QED
          BY <4>1, <5>1, <5>2 DEF Raise, Finish, Timeout, clipVars
      <4>6. Still
        BY <3>1, <4>2, <4>3, <4>4, <4>5 DEF Still
      <4>7. QED
        BY <1>3, <2>1, <4>6, StillKeeps
    <3>4. QED
      BY <3>2, <3>3
  <2>3. CASE \/ \E q \in Requests : Ask(q) \/ Serve(q)
             \/ Maintain \/ Lose \/ ClipAgesOn \/ RunAgesOn \/ UNCHANGED vars
    <3>1. Still
      BY <1>3, <2>3, OthersAreStill
    <3>2. QED
      BY <1>3, <2>1, <3>1, StillKeeps
  <2>4. QED
    BY <2>2, <2>3 DEF Next
<1>4. QED
  BY <1>1, <1>2, <1>3 DEF ClipTypes

\* Nothing is held before there is a clip.
LEMMA WholeInvInit == Init => WholeInv
BY DEF Init, WholeInv

\* The tables and files by what a finished pipeline has written.
LEMMA WholeIsComplete ==
    ASSUME TInv, WholeInv
    PROVE  CompleteIsWhole
<1> SUFFICES ASSUME exists, status = "COMPLETE", Pending = {}, ~Deleting
             PROVE  /\ outcome[Latest] = "success"
                    /\ \A t \in TablesInScope \ {"auto_tags"} : rows[t] = {Latest}
                    /\ rows["auto_tags"] \subseteq {Latest}
                    /\ \A s \in Stages : \A i \in DOMAIN Writes[s] :
                          Writes[s][i] \in Files => Writes[s][i] \in files
  BY DEF CompleteIsWhole
<1>1. NoneAwaited
  <2>1. Awaited \subseteq (Active \ {"reject", "failrun", "announce", "finish"}) \cup {"queued"}
    BY DEF Awaited, Active, Phases
  <2>2. QED
    BY <2>1 DEF NoneAwaited, Pending, Working
<1>2. outcome[Latest] = "success" /\ Holds(Latest, 11, 0)
  BY <1>1 DEF WholeInv, Whole, Latest
<1>3. ASSUME NEW s \in Stages, NEW i \in DOMAIN Writes[s] PROVE IsDone(Writes[s][i], 11, 0)
  <2>1. PICK k \in 1 .. 10 : AllStages[k] = s
    BY LifecycleConstants, StageNumbers DEF StageNames
  <2>2. k \in StagesAfter(0)
    BY <2>1, StageNumbers DEF StagesAfter
  <2>3. i \in 1 .. WriteCount(k)
    <3>1. s \in StageNames
      BY LifecycleConstants
    <3>2. DOMAIN Writes[s] = 1 .. WriteCount(k)
      BY <2>1, <3>1, WritesAreFew DEF WriteCount
    <3>3. QED
      BY <3>2
  <2>4. What(k, i) = Writes[s][i] /\ k < 11
    BY <2>1 DEF What
  <2>5. QED
    BY <2>2, <2>3, <2>4 DEF IsDone
<1>4. ASSUME NEW t \in TablesInScope \ {"auto_tags"} PROVE rows[t] = {Latest}
  <2>1. t \in Tables /\ IsDone(t, 11, 0)
    BY <1>3 DEF TablesInScope
  <2>2. QED
    BY <1>2, <2>1 DEF Holds
<1>5. rows["auto_tags"] \subseteq {Latest}
  BY <1>2 DEF Holds
<1>6. ASSUME NEW s \in Stages, NEW i \in DOMAIN Writes[s], Writes[s][i] \in Files PROVE Writes[s][i] \in files
  BY <1>2, <1>3, <1>6 DEF Holds
<1>7. QED
  BY <1>2, <1>4, <1>5, <1>6

\* Upload, reprocess and delete as often as one likes, one at a time and reprocess when the
\* clip has settled: a COMPLETE clip shows one analysis and the whole of it.
THEOREM CompleteWhenSettled ==
    ASSUME Settling, DeletersLast
    PROVE  Spec => []CompleteIsWhole
<1>1. Settled => OneAwaited
  BY DEF Settled, OneAwaited
<1>2. Settled => Kept
  BY DEF Settled, Kept, Terminal
<1>3. TInv /\ RunInv /\ DeletersMay /\ RowGone /\ Settled /\ WholeInv /\ [Next]_vars => WholeInv'
  BY <1>1, <1>2, WholeInvStays
<1>4. TInv /\ WholeInv => CompleteIsWhole
  BY WholeIsComplete
<1>5. QED
  BY <1>3, <1>4, WholeInvInit, TypesAlways, RunsAlways, DeletersAlwaysMay, RowGoneAlways, SettledAlways,
     PTL DEF Spec

\* A job has been tried once more, at most, than something was lost.
TriesInv ==
    \A j \in Jobs : /\ phase[j] = "none" => tries[j] = 0
                    /\ phase[j] = "queued" => tries[j] <= faults
                    /\ tries[j] <= faults + 1

\* Only a loss puts a job back in the queue, and only the queue starts a try.
LEMMA TriesStay ==
    ASSUME "redis" \notin Faults, TInv, SingleJob, TriesInv, [Next]_vars
    PROVE  TriesInv'
<1> JobTypes /\ Places /\ OtherTypes /\ faults \in Nat /\ tries \in [Jobs -> 0 .. MaxTries] /\ MaxTries \in Nat
  BY LifecycleConstants DEF TInv, JobTypes, OtherTypes
<1>0. \A k \in Jobs : tries[k] \in Nat
  OBVIOUS
<1>1. ASSUME UNCHANGED faults, NEW j \in Jobs,
             \A k \in Jobs \ {j} : phase'[k] = phase[k] /\ tries'[k] = tries[k],
             /\ phase'[j] = "none" => tries'[j] = 0
             /\ phase'[j] = "queued" => tries'[j] <= faults
             /\ tries'[j] <= faults + 1
      PROVE  TriesInv'
  BY <1>1 DEF TriesInv
<1>2. ASSUME NEW j \in Jobs, Enqueue(j), UNCHANGED faults PROVE TriesInv'
  <2>1. /\ \A k \in Jobs \ {j} : phase'[k] = phase[k] /\ tries'[k] = tries[k]
        /\ phase'[j] = "queued" /\ tries'[j] = tries[j] /\ tries[j] = 0
    BY <1>2 DEF Enqueue, Places, TriesInv
  <2>2. QED
    BY <1>1, <1>2, <2>1
<1>3. ASSUME UNCHANGED <<phase, tries>>, faults' \in {faults, faults + 1} PROVE TriesInv'
  BY <1>0, <1>3 DEF TriesInv
<1>4. ASSUME NEW j \in Jobs, JobStep(j) \/ Timeout(j) PROVE TriesInv'
  <2>1. UNCHANGED faults
    BY <1>4, JobsTakeNoId
  <2>2. Over(j) => TriesInv'
    BY <1>1, <2>1 DEF Over, Places
  <2>3. ASSUME NEW p, NEW i, GoTo(j, p, i), p \notin {"none", "queued"},
               tries' = tries \/ (tries' = [tries EXCEPT ![j] = tries[j] + 1] /\ phase[j] = "queued")
        PROVE  TriesInv'
    <3>1. /\ \A k \in Jobs \ {j} : phase'[k] = phase[k] /\ tries'[k] = tries[k]
          /\ phase'[j] \notin {"none", "queued"}
      BY <2>3 DEF GoTo, Places
    <3>2. tries'[j] <= faults + 1
      BY <1>0, <2>3 DEF TriesInv
    <3>3. QED
      BY <1>1, <2>1, <3>1, <3>2
  <2>4. CASE Dequeue(j) \/ Begin(j) \/ Finish(j) \/ Timeout(j)
    <3>1. \/ Over(j)
          \/ /\ GoTo(j, "reset", 1) /\ phase[j] = "queued"
             /\ tries' = [tries EXCEPT ![j] = tries[j] + 1]
          \/ GoTo(j, "status", FirstOf(StagesAfter(0))) /\ tries' = tries
      BY <2>4 DEF Dequeue, Begin, Finish, Timeout
    <3>2. QED
      BY <2>2, <2>3, <3>1
  <2>5. CASE \/ Reset(j) \/ EnterStage(j) \/ Raise(j) \/ Reject(j) \/ RejectRun(j) \/ Success(j)
             \/ Complete(j) \/ Fail(j) \/ FailRun(j)
    <3>1. (\E p, i : GoTo(j, p, i) /\ p \notin {"none", "queued"}) /\ tries' = tries
      BY <2>5 DEF Reset, EnterStage, Raise, Reject, RejectRun, Success, Complete, Fail, FailRun
    <3>2. QED
      BY <2>3, <3>1
  <2>6. CASE Write(j)
    <3>1. Advance(j) /\ tries' = tries
      BY <2>6 DEF Write
    <3>2. UNCHANGED phase \/ \E p, i : GoTo(j, p, i) /\ p \notin {"none", "queued"}
      BY <3>1 DEF Advance, NextStage
    <3>3. QED
      BY <1>3, <2>1, <2>3, <3>1, <3>2
  <2>7. QED
    BY <1>4, <2>4, <2>5, <2>6 DEF JobStep
<1>5. ASSUME NEW q \in Requests, Ask(q) \/ Serve(q) PROVE TriesInv'
  <2>1. UNCHANGED faults /\ (UNCHANGED <<phase, tries>> \/ \E j \in Jobs : Enqueue(j))
    BY <1>5 DEF Ask, Serve, UploadRow, ReprocessCheck, DeleteFetch, UploadFile, UploadEnqueue,
       ReprocessStatus, ReprocessEnqueue, DeleteFiles, DeleteClip, DeleteReceipt, jobVars, apiUnchanged
  <2>2. QED
    BY <1>2, <1>3, <2>1
<1>6. ASSUME Maintain PROVE TriesInv'
  <2>1. UNCHANGED faults /\ (UNCHANGED <<phase, tries>> \/ \E j \in Jobs : Enqueue(j))
    BY <1>6 DEF Maintain, SelectStalled, MarkStalledClip, MarkStalledRun, SelectOrphans, LookForKey,
       RequeueOrphan, SelectExpired, ExpireFiles, ExpireRow, ExpireReceipt, jobVars, maintUnchanged
  <2>2. QED
    BY <1>2, <1>3, <2>1
<1>7. ASSUME LoseWorker PROVE TriesInv'
  <2>1. faults' = faults + 1
    BY <1>7 DEF LoseWorker, Fault
  <2>2. ASSUME NEW k \in Jobs
        PROVE  /\ phase'[k] = "none" => tries'[k] = 0
               /\ tries'[k] <= faults + 1
    <3>1. k \in keys \/ phase[k] = "none"
      BY DEF SingleJob, Keyed
    <3>2. /\ tries'[k] = IF k \in keys THEN tries[k] ELSE 0
          /\ phase'[k] = IF phase[k] \notin Active THEN phase[k] ELSE IF k \in keys THEN "queued" ELSE "none"
      BY <1>7 DEF LoseWorker
    <3>3. tries'[k] <= faults + 1
      BY <1>0, <3>2 DEF TriesInv
    <3>4. phase'[k] = "none" => tries'[k] = 0
      BY <3>1, <3>2 DEF TriesInv
    <3>5. QED
      BY <3>3, <3>4
  <2>3. \A k \in Jobs : tries'[k] <= faults + 1 => tries'[k] <= faults'
    BY <2>1
  <2>4. \A k \in Jobs : tries'[k] <= faults + 1 => tries'[k] <= faults' + 1
    <3> SUFFICES ASSUME NEW k \in Jobs, tries'[k] <= faults + 1 PROVE tries'[k] <= faults + 1 + 1
      BY <2>1
    <3>1. tries'[k] \in {0, tries[k]}
      BY <1>7 DEF LoseWorker
    <3>2. QED
      BY <1>0, <3>1
  <2>5. QED
    BY <2>2, <2>3, <2>4 DEF TriesInv
<1>8. ~FlushRedis
  BY DEF FlushRedis, Fault
<1>9. ASSUME LoseApi \/ ClipAgesOn \/ RunAgesOn \/ UNCHANGED vars PROVE TriesInv'
  <2>1. UNCHANGED <<phase, tries>> /\ faults' \in {faults, faults + 1}
    BY <1>9 DEF LoseApi, Fault, ClipAgesOn, RunAgesOn, vars, jobVars, otherVars
  <2>2. QED
    BY <1>3, <2>1
<1>10. QED
  BY <1>4, <1>5, <1>6, <1>7, <1>8, <1>9 DEF Next, Lose

\* A job that comes back to a COMPLETE clip, or fails to announce one, is not given up before
\* it has told the clip so.
KeepsAtIt ==
    /\ MaxReprocess = 0 /\ "redis" \notin Faults
    /\ TimeoutAt \cap {"reset", "begin", "status", "fail"} = {}
    /\ MaxFaults < MaxTries

\* So it is still waiting for its turn, or on its way to say so, while the clip is COMPLETE.
LEMMA CompleteIsKept ==
    ASSUME KeepsAtIt, TInv, SingleJob, TriesInv, WholeInv, [Next]_vars
    PROVE  Kept
<1> JobTypes /\ Places /\ OtherTypes
  BY DEF TInv, JobTypes
<1> SUFFICES ASSUME exists, status = "COMPLETE", status' = "COMPLETE", NEW j \in Jobs, phase[j] \in Awaited
             PROVE  phase'[j] \in Awaited
  BY DEF Kept, NoneAwaited
<1>1. phase[j] \in {"queued", "reset", "begin", "status", "fail"}
  <2>1. Progress(phase[j], at[j], written[j], run[j])
    BY DEF WholeInv
  <2>2. QED
    BY <2>1 DEF Progress, Awaited
<1>2. {"queued", "reset", "begin", "status", "stage", "fail"} \subseteq Awaited
  BY DEF Awaited
<1>3. ASSUME NEW k \in Jobs, JobStep(k) \/ Timeout(k) PROVE phase'[j] \in Awaited
  <2>1. CASE k # j
    BY <1>3, <2>1, OthersStay DEF SamePlace
  <2>2. CASE k = j
    <3>1. Dequeue(j) \/ Reset(j) \/ Begin(j) \/ EnterStage(j) \/ Raise(j)
      <4>1. ~Timeout(j)
        BY <1>1, LifecycleConstants DEF Timeout, KeepsAtIt, Active
      <4>2. ~Fail(j)
        BY DEF Fail, SetStatus
      <4>3. QED
        BY <1>1, <1>3, <2>2, <4>1, <4>2 DEF JobStep, Write, Reject, RejectRun, Success, Complete,
           FailRun, Finish
    <3>2. CASE Dequeue(j)
      <4>1. tries[j] < MaxTries
        <5>1. tries[j] <= faults
          BY <3>2 DEF TriesInv, Dequeue
        <5>2. tries[j] \in 0 .. MaxTries /\ faults \in 0 .. MaxFaults
          BY DEF JobTypes, OtherTypes
        <5>3. QED
          BY <5>1, <5>2, LifecycleConstants DEF KeepsAtIt
      <4>2. GoTo(j, "reset", 1)
        BY <3>2, <4>1 DEF Dequeue
      <4>3. QED
        BY <1>2, <4>2 DEF GoTo, Places
    <3>3. CASE Reset(j)
      <4>1. \E p \in {"reset", "begin"} : \E i : GoTo(j, p, i)
        BY <3>3 DEF Reset
      <4>2. QED
        BY <1>2, <4>1 DEF GoTo, Places
    <3>4. CASE Begin(j)
      <4>1. \E i : GoTo(j, "status", i)
        BY <3>4 DEF Begin
      <4>2. QED
        BY <1>2, <4>1 DEF GoTo, Places
    <3>5. CASE EnterStage(j)
      BY <1>2, <3>5 DEF EnterStage, GoTo, Places
    <3>6. CASE Raise(j)
      BY <1>2, <3>6 DEF Raise, GoTo, Places
    <3>7. QED
      BY <3>1, <3>2, <3>3, <3>4, <3>5, <3>6
  <2>3. QED
    BY <2>1, <2>2
<1>4. ASSUME NEW k \in Jobs, Enqueue(k) PROVE phase'[j] \in Awaited
  BY <1>4 DEF Enqueue, Places, Awaited
<1>5. LoseWorker => phase'[j] \in Awaited
  <2>1. j \in keys
    BY DEF SingleJob, Keyed, Awaited
  <2>2. QED
    BY <2>1 DEF LoseWorker, Awaited
<1>6. ~FlushRedis
  BY DEF FlushRedis, Fault, KeepsAtIt
<1>7. ASSUME NEW q \in Requests, Ask(q) \/ Serve(q) PROVE UNCHANGED phase \/ \E k \in Jobs : Enqueue(k)
  BY <1>7 DEF Ask, Serve, UploadRow, ReprocessCheck, DeleteFetch, UploadFile, UploadEnqueue,
     ReprocessStatus, ReprocessEnqueue, DeleteFiles, DeleteClip, DeleteReceipt, jobVars
<1>8. ASSUME Maintain PROVE UNCHANGED phase \/ \E k \in Jobs : Enqueue(k)
  BY <1>8 DEF Maintain, SelectStalled, MarkStalledClip, MarkStalledRun, SelectOrphans, LookForKey,
     RequeueOrphan, SelectExpired, ExpireFiles, ExpireRow, ExpireReceipt, jobVars
<1>9. LoseApi \/ ClipAgesOn \/ RunAgesOn \/ UNCHANGED vars => UNCHANGED phase
  BY DEF LoseApi, ClipAgesOn, RunAgesOn, vars, jobVars
<1>10. QED
  BY <1>3, <1>4, <1>5, <1>6, <1>7, <1>8, <1>9 DEF Next, Lose

\* Lose workers and api processes, time out in any stage, requeue and delete: a clip that
\* nobody reprocesses shows one analysis and the whole of it when it is COMPLETE.  What may
\* not happen is that a job that comes back after COMPLETE clears the tables and is then
\* given up: by its last try, or by a timeout before it has set the status, that of a failure
\* too.
THEOREM CompleteWithoutReprocessing ==
    ASSUME KeepsAtIt, DeletersLast
    PROVE  Spec => []CompleteIsWhole
<1>1. SingleJob => OneAwaited
  BY DEF SingleJob, Alone, OneAwaited, Awaited
<1>2. TInv /\ SingleJob /\ TriesInv /\ WholeInv /\ [Next]_vars => Kept
  BY CompleteIsKept
<1>3. /\ TInv /\ RunInv /\ DeletersMay /\ RowGone /\ SingleJob /\ TriesInv /\ WholeInv /\ [Next]_vars
      => WholeInv'
  BY <1>1, <1>2, WholeInvStays
<1>4. TInv /\ SingleJob /\ TriesInv /\ [Next]_vars => TriesInv'
  BY TriesStay DEF KeepsAtIt
<1>5. Init => TriesInv
  BY DEF Init, TriesInv
<1>6. TInv /\ WholeInv => CompleteIsWhole
  BY WholeIsComplete
<1>7. Spec => []SingleJob
  BY SingleJobAlways DEF KeepsAtIt
<1>8. QED
  BY <1>3, <1>4, <1>5, <1>6, <1>7, WholeInvInit, TypesAlways, RunsAlways, DeletersAlwaysMay,
     RowGoneAlways, PTL DEF Spec

=============================================================================
