------------------------------ MODULE GraphSync -------------------------------
(***************************************************************************)
(* The Neo4j graph as a read model of Postgres.                            *)
(*                                                                         *)
(* Whoever changes what the graph shows commits the change and then, if it *)
(* is one of those that do, asks for a rebuild: the job id is the debounce *)
(* window the request falls into, the job is deferred to the end of that   *)
(* window, and arq drops a request whose id it still holds, queued or      *)
(* running.  A rebuild wipes the graph and projects one query after the    *)
(* other, under a Redis lock; a job that finds the lock taken asks again,  *)
(* in the window it is then.  The api process may rebuild too, without the *)
(* lock: for the admin endpoint, and for a request it could not queue.     *)
(***************************************************************************)
EXTENDS Naturals

CONSTANTS
    Items,        \* what is projected: clips, people, voices
    Versions,     \* what Postgres may say of an item
    Absent,       \* nothing, or nothing the graph shows
    Projections,  \* rebuild's statements are 1 .. Projections: nodes first, then relationships
    Windows,      \* names of debounce windows; a window nobody refers to may be named again
    Requests,     \* requests for a rebuild in flight at once
    Workers,      \* arq job slots, of one worker process or of several
    Admins,       \* rebuilds the api process runs itself at once
    None,         \* no window
    MaxChanges,   \* bound: changes of Postgres
    MaxTries,     \* arq gives a job up that was lost this often
    MaxFaults     \* bound: lost workers and failed jobs, so few that no job is given up

ASSUME GraphConstants ==
    /\ Absent \in Versions
    /\ Projections \in Nat \ {0}
    /\ None \notin Windows
    /\ Requests \cap Workers = {} /\ Requests \cap Admins = {} /\ Workers \cap Admins = {}
    /\ MaxChanges \in Nat /\ MaxTries \in Nat /\ MaxFaults \in Nat /\ MaxFaults < MaxTries

VARIABLES
    db,       \* Postgres: what it says of every item
    graph,    \* Neo4j: what every projection has written of every item
    pc,       \* where each request, worker and admin is
    window,   \* the window a request, or a worker that asks again, has computed
    job,      \* the id of the job a worker runs
    queued,   \* the ids arq holds for later
    now,      \* the present window
    locked,   \* graph-sync:lock exists
    step,     \* the projection a rebuild is at
    rows,     \* what its query returned
    unasked,  \* history: what changed since the last request that got through, or was to be
              \* projected by a job that failed
    changes, faults

vars == <<db, graph, pc, window, job, queued, now, locked, step, rows, unasked, changes, faults>>

Steps == 1 .. Projections
Rebuilders == Workers \cup Admins
Clients == Requests \cup Workers
Procs == Clients \cup Admins
Content == [Items -> Versions]
Empty == [i \in Items |-> Absent]

\* Inside rebuild().
Rebuilding == {"wipe", "fetch", "write", "unlock"}
PCs == Rebuilding \cup {"idle", "ask", "enqueue", "lock", "over"}

TypeOK ==
    /\ db \in Content
    /\ graph \in [Steps -> Content]
    /\ pc \in [Procs -> PCs]
    /\ window \in [Clients -> Windows \cup {None}]
    /\ job \in [Workers -> Windows \cup {None}]
    /\ queued \subseteq Windows
    /\ now \in Windows
    /\ locked \in BOOLEAN
    /\ step \in [Rebuilders -> Steps]
    /\ rows \in [Rebuilders -> Content]
    /\ unasked \subseteq Items
    /\ changes \in 0 .. MaxChanges /\ faults \in 0 .. MaxFaults

Init ==
    /\ db = Empty /\ graph = [k \in Steps |-> Empty]
    /\ pc = [p \in Procs |-> "idle"]
    /\ window = [c \in Clients |-> None] /\ job = [w \in Workers |-> None]
    /\ queued = {} /\ now \in Windows /\ locked = FALSE
    /\ step = [r \in Rebuilders |-> 1] /\ rows = [r \in Rebuilders |-> Empty]
    /\ unasked = {} /\ changes = 0 /\ faults = 0

-----------------------------------------------------------------------------
GoTo(p, l) == pc' = [pc EXCEPT ![p] = l]
InRebuild(r) == pc[r] \in Rebuilding
RunningIds == {job[w] : w \in Workers} \ {None}

\* arq's enqueue_job: an id whose job is queued or running is not enqueued again.
Enqueued(b) == IF b \in RunningIds THEN queued ELSE queued \cup {b}

\* MERGE what the rows say; a relationship whose end the graph does not have matches nothing.
Merged(k, r) ==
    [i \in Items |->
        IF r[i] # Absent /\ (k = 1 \/ graph[1][i] # Absent) THEN r[i] ELSE graph[k][i]]

-----------------------------------------------------------------------------
(* Requests: a clip that completes, an identity that is edited.            *)

\* Postgres says something else of an item.
Changed ==
    /\ changes < MaxChanges /\ changes' = changes + 1
    /\ \E i \in Items, v \in Versions :
         /\ v # db[i] /\ db' = [db EXCEPT ![i] = v]
         /\ unasked' = unasked \cup {i}

Change(q) ==
    /\ pc[q] = "idle"
    /\ Changed
    /\ GoTo(q, "ask")
    /\ UNCHANGED <<graph, window, job, queued, now, locked, step, rows, faults>>

\* What changes the projection and asks for nothing: a clip that is reprocessed, fails, is
\* requeued or deleted for its age, an enrolment removed, a tag derived again, clusters
\* consolidated.
ChangeSilently ==
    /\ Changed
    /\ UNCHANGED <<graph, pc, window, job, queued, now, locked, step, rows, faults>>

\* schedule, when it gets through: the window is read from the clock first, the job enqueued
\* after it.  It asks for everybody's changes so far.
Ask(q) ==
    /\ pc[q] = "ask"
    /\ window' = [window EXCEPT ![q] = now]
    /\ unasked' = {}
    /\ GoTo(q, "enqueue")
    /\ UNCHANGED <<db, graph, job, queued, now, locked, step, rows, changes, faults>>

\* Redis does not answer, which the worker logs and forgets; the process is lost before it
\* asks, or an error of its own comes first.
AskFails(q) ==
    /\ pc[q] = "ask"
    /\ GoTo(q, "idle")
    /\ UNCHANGED <<db, graph, window, job, queued, now, locked, step, rows, unasked, changes, faults>>

EnqueueRequest(q) ==
    /\ pc[q] = "enqueue"
    /\ queued' = Enqueued(window[q])
    /\ window' = [window EXCEPT ![q] = None]
    /\ GoTo(q, "idle")
    /\ UNCHANGED <<db, graph, job, now, locked, step, rows, unasked, changes, faults>>

-----------------------------------------------------------------------------
(* graph_sync_job.                                                         *)

\* A plausible mistake: no _defer_until, so that a job may run inside its own window.
StartUndeferred(w) ==
    /\ pc[w] = "idle"
    /\ \E b \in queued :
         /\ job' = [job EXCEPT ![w] = b]
         /\ queued' = queued \ {b}
    /\ GoTo(w, "lock")
    /\ UNCHANGED <<db, graph, window, now, locked, step, rows, unasked, changes, faults>>

Start(w) ==
    /\ pc[w] = "idle"
    /\ \E b \in queued \ {now} :
         /\ job' = [job EXCEPT ![w] = b]
         /\ queued' = queued \ {b}
    /\ GoTo(w, "lock")
    /\ UNCHANGED <<db, graph, window, now, locked, step, rows, unasked, changes, faults>>

\* A plausible mistake: SET without NX.
TakeLockAnyway(w) ==
    /\ pc[w] = "lock"
    /\ locked' = TRUE
    /\ GoTo(w, "wipe")
    /\ UNCHANGED <<db, graph, window, job, queued, now, step, rows, unasked, changes, faults>>

\* SET NX EX 900.
TakeLock(w) ==
    /\ pc[w] = "lock"
    /\ ~locked
    /\ locked' = TRUE
    /\ GoTo(w, "wipe")
    /\ UNCHANGED <<db, graph, window, job, queued, now, step, rows, unasked, changes, faults>>

\* A plausible mistake: a job that finds the lock taken leaves the work to its holder.
LockTakenDrops(w) ==
    /\ pc[w] = "lock"
    /\ locked
    /\ GoTo(w, "over")
    /\ UNCHANGED <<db, graph, window, job, queued, now, locked, step, rows, unasked, changes, faults>>

\* Somebody rebuilds: ask again, in the window it is now.
LockTaken(w) ==
    /\ pc[w] = "lock"
    /\ locked
    /\ window' = [window EXCEPT ![w] = now]
    /\ GoTo(w, "enqueue")
    /\ UNCHANGED <<db, graph, job, queued, now, locked, step, rows, unasked, changes, faults>>

EnqueueAgain(w) ==
    /\ pc[w] = "enqueue"
    /\ queued' = Enqueued(window[w])
    /\ window' = [window EXCEPT ![w] = None]
    /\ GoTo(w, "over")
    /\ UNCHANGED <<db, graph, job, now, locked, step, rows, unasked, changes, faults>>

\* rebuild(): MATCH (n) DETACH DELETE n, in one transaction ...
Wipe(r) ==
    /\ pc[r] = "wipe"
    /\ graph' = [k \in Steps |-> Empty]
    /\ step' = [step EXCEPT ![r] = 1]
    /\ GoTo(r, "fetch")
    /\ UNCHANGED <<db, window, job, queued, now, locked, rows, unasked, changes, faults>>

\* ... then one projection after the other: its query ...
Fetch(r) ==
    /\ pc[r] = "fetch"
    /\ rows' = [rows EXCEPT ![r] = db]
    /\ GoTo(r, "write")
    /\ UNCHANGED <<db, graph, window, job, queued, now, locked, step, unasked, changes, faults>>

\* A plausible mistake: one projection too many.
WriteOnePast(r) ==
    /\ pc[r] = "write"
    /\ graph' = [graph EXCEPT ![step[r]] = Merged(step[r], rows[r])]
    /\ IF step[r] <= Projections
       THEN GoTo(r, "fetch") /\ step' = [step EXCEPT ![r] = @ + 1]
       ELSE GoTo(r, "unlock") /\ UNCHANGED step
    /\ UNCHANGED <<db, window, job, queued, now, locked, rows, unasked, changes, faults>>

\* ... and its MERGE.
Write(r) ==
    /\ pc[r] = "write"
    /\ graph' = [graph EXCEPT ![step[r]] = Merged(step[r], rows[r])]
    /\ IF step[r] < Projections
       THEN GoTo(r, "fetch") /\ step' = [step EXCEPT ![r] = @ + 1]
       ELSE GoTo(r, "unlock") /\ UNCHANGED step
    /\ UNCHANGED <<db, window, job, queued, now, locked, rows, unasked, changes, faults>>

\* finally: DEL graph-sync:lock, whoever's it is.
Unlock(w) ==
    /\ pc[w] = "unlock"
    /\ locked' = FALSE
    /\ GoTo(w, "over")
    /\ UNCHANGED <<db, graph, window, job, queued, now, step, rows, unasked, changes, faults>>

\* The settings cannot be read or Redis does not answer, and the job ends before a rebuild;
\* or Neo4j or a query fails in the middle of one, which is logged and forgotten.  Lost is
\* what no queued job will project.
JobFails(w) ==
    /\ pc[w] \in {"lock", "wipe", "fetch", "write"}
    /\ faults < MaxFaults /\ faults' = faults + 1
    /\ unasked' = IF queued = {} THEN Items ELSE unasked
    /\ GoTo(w, IF InRebuild(w) THEN "unlock" ELSE "over")
    /\ UNCHANGED <<db, graph, window, job, queued, now, locked, step, rows, changes>>

\* The DEL fails: the lock stays until its time is over.
UnlockFails(w) ==
    /\ pc[w] = "unlock"
    /\ faults < MaxFaults /\ faults' = faults + 1
    /\ GoTo(w, "over")
    /\ UNCHANGED <<db, graph, window, job, queued, now, locked, step, rows, unasked, changes>>

\* arq forgets the job (keep_result=0).
Over(w) ==
    /\ pc[w] = "over"
    /\ job' = [job EXCEPT ![w] = None]
    /\ GoTo(w, "idle")
    /\ UNCHANGED <<db, graph, window, queued, now, locked, step, rows, unasked, changes, faults>>

-----------------------------------------------------------------------------
(* The world around.                                                       *)

\* A worker dies: its lock stays, and arq runs its job again, tries being left.
LoseWorker(w) ==
    /\ pc[w] # "idle"
    /\ faults < MaxFaults /\ faults' = faults + 1
    /\ queued' = queued \cup {job[w]}
    /\ job' = [job EXCEPT ![w] = None]
    /\ window' = [window EXCEPT ![w] = None]
    /\ GoTo(w, "idle")
    /\ UNCHANGED <<db, graph, now, locked, step, rows, unasked, changes>>

\* 900 seconds are longer than job_timeout_s lets a rebuild take.
LockExpires ==
    /\ locked /\ \A w \in Workers : ~InRebuild(w)
    /\ locked' = FALSE
    /\ UNCHANGED <<db, graph, pc, window, job, queued, now, step, rows, unasked, changes, faults>>

\* The next window begins; no id still in use is its name.
NextWindow ==
    /\ now' \in Windows \ ({now} \cup queued \cup RunningIds \cup {window[c] : c \in Clients})
    /\ UNCHANGED <<db, graph, pc, window, job, queued, locked, step, rows, unasked, changes, faults>>

\* POST /v1/admin/graph/sync: the same rebuild, at once and in the api process.
AdminStart(a) ==
    /\ pc[a] = "idle"
    /\ GoTo(a, "wipe")
    /\ unasked' = {}
    /\ UNCHANGED <<db, graph, window, job, queued, now, locked, step, rows, changes, faults>>

\* resync, when schedule fails: the same.
FallBack(q, a) ==
    /\ pc[q] = "ask" /\ pc[a] = "idle"
    /\ pc' = [pc EXCEPT ![q] = "idle", ![a] = "wipe"]
    /\ unasked' = {}
    /\ UNCHANGED <<db, graph, window, job, queued, now, locked, step, rows, changes, faults>>

AdminEnd(a) ==
    /\ pc[a] = "unlock"
    /\ GoTo(a, "idle")
    /\ UNCHANGED <<db, graph, window, job, queued, now, locked, step, rows, unasked, changes, faults>>

-----------------------------------------------------------------------------
Request(q) == Ask(q) \/ EnqueueRequest(q)
Rebuild(r) == Wipe(r) \/ Fetch(r) \/ Write(r)
Work(w) == TakeLock(w) \/ LockTaken(w) \/ EnqueueAgain(w) \/ Rebuild(w) \/ Unlock(w) \/ Over(w)

Next ==
    \/ \E q \in Requests : Change(q) \/ Request(q) \/ AskFails(q)
    \/ ChangeSilently
    \/ \E w \in Workers : Start(w) \/ Work(w) \/ JobFails(w) \/ UnlockFails(w) \/ LoseWorker(w)
    \/ LockExpires \/ NextWindow

AdminNext ==
    \/ Next
    \/ \E a \in Admins : AdminStart(a) \/ Rebuild(a) \/ AdminEnd(a) \/ (\E q \in Requests : FallBack(q, a))

\* A request that was begun goes on, or fails, some slot takes a due job, a job goes on, the clock runs
\* and a lock's time runs out.  Nobody has to change anything.
Fairness ==
    /\ \A q \in Requests : WF_vars(Request(q))
    /\ WF_vars(\E w \in Workers : Start(w))
    /\ \A w \in Workers : WF_vars(Work(w))
    /\ WF_vars(NextWindow) /\ WF_vars(LockExpires)

Spec == Init /\ [][Next]_vars
FairSpec == Spec /\ Fairness
AdminSpec == Init /\ [][AdminNext]_vars

-----------------------------------------------------------------------------
\* Of what was asked for, every projection shows what Postgres says.
InSync == \A i \in Items \ unasked, k \in Steps : graph[k][i] = db[i]

Quiet == queued = {} /\ \A p \in Procs : pc[p] = "idle"

\* Nothing written before a request that got through is ever left out of the graph: when no
\* request is on its way, no rebuild queued and none at work, the graph shows what Postgres
\* says of all but what has changed since, or was lost with a failed job; however requests,
\* coalesced windows, deferred retries, silent changes and lost workers fell together.
CurrentWhenQuiet == Quiet => InSync

\* A wipe-then-reproject never interleaves with another: at most one worker is inside rebuild.
RebuildsNeverInterleave == \A v, w \in Workers : InRebuild(v) /\ InRebuild(w) => v = w

\* Once the changes stop the rebuilds come to an end, and the graph is right of what was
\* asked for: a lost worker's lock, or a taken one, delays a rebuild and never prevents it.
GraphCatchesUp == <>[](Quiet /\ InSync)

\* The graph is right of everything, asked for or not.
NothingLeftOut == Quiet => \A k \in Steps : graph[k] = db
=============================================================================
