------------------------------ MODULE ModelLane ------------------------------
(***************************************************************************)
(* worker/lane.py: the asyncio lane that guards one model of the worker's  *)
(* ModelPool, together with the jobs that use it the way the worker does:  *)
(*                                                                         *)
(*     async with lane:                      # or lane.hold(INTERACTIVE)   *)
(*         await asyncio.to_thread(fn, ...)  # fn runs inside the model    *)
(*                                                                         *)
(* The event loop is single-threaded, so a step is what happens between    *)
(* two awaits; the thread that runs fn is an actor of its own, and so is   *)
(* the _step_aside coroutine it posts to the loop between two              *)
(* transcription windows.  arq may cancel the job's task at any await; it  *)
(* cannot stop the thread.                                                 *)
(***************************************************************************)
EXTENDS Naturals, FiniteSets

CONSTANTS Interactive,  \* slots that run live chunks or voice queries
          Batch,        \* slots that run pipeline stages, backfills, retags
          Windows,      \* units of work of a batch thread; it may step aside after each
          NoOne

Jobs == Interactive \cup Batch

ASSUME LaneConstants ==
    /\ Interactive \cap Batch = {}
    /\ Windows \in Nat
    /\ NoOne \notin Jobs

\* Whoever can have an entry in _waiters: a job's own task, or the _step_aside coroutine
\* its thread posted.  The latter always asks with BATCH priority.
Task(j) == <<j, "task">>
Aside(j) == <<j, "aside">>
Clients == Jobs \X {"task", "aside"}
InteractiveClients == {Task(j) : j \in Interactive}

VARIABLES
    held,      \* ModelLane._held
    waiters,   \* the clients with an entry in the heap ModelLane._waiters
    ahead,     \* the entries pushed before a client's own: its sequence number is higher
    fut,       \* the future of the client's entry
    task,      \* where the job's coroutine is
    thread,    \* where the job's to_thread worker is
    left,      \* windows the thread has still to do
    helper,    \* the _step_aside coroutine the thread is blocked on
    raised     \* how the job's last use of the lane ended

vars == <<held, waiters, ahead, fut, task, thread, left, helper, raised>>
laneVars == <<held, waiters, ahead, fut>>

FutStates == {"none", "pending", "set", "cancelled"}
TaskStates == {"idle", "waiting", "cancelling", "inside"}
ThreadStates == {"none", "queued", "model", "aside", "ended"}
HelperStates == {"none", "scheduled", "waiting"}
Outcomes == {"nothing", "returned", "CancelledError", "ValueError"}

TypeOK ==
    /\ held \in BOOLEAN
    /\ waiters \subseteq Clients
    /\ ahead \in [Clients -> SUBSET Clients]
    /\ fut \in [Clients -> FutStates]
    /\ task \in [Jobs -> TaskStates]
    /\ thread \in [Jobs -> ThreadStates]
    /\ left \in [Jobs -> 0 .. Windows]
    /\ helper \in [Jobs -> HelperStates]
    /\ raised \in [Jobs -> Outcomes]

Init ==
    /\ held = FALSE
    /\ waiters = {}
    /\ ahead = [c \in Clients |-> {}]
    /\ fut = [c \in Clients |-> "none"]
    /\ task = [j \in Jobs |-> "idle"]
    /\ thread = [j \in Jobs |-> "none"]
    /\ left = [j \in Jobs |-> 0]
    /\ helper = [j \in Jobs |-> "none"]
    /\ raised = [j \in Jobs |-> "nothing"]

-----------------------------------------------------------------------------
(* The heap and its futures.                                               *)

\* A plausible mistake: a heap keyed by sequence number alone.
BeforeBySeqOnly(c, d) == c \in ahead[d]

\* (priority, seq, fut) tuples compare by priority, then by sequence number.
Before(c, d) ==
    \/ c \in InteractiveClients /\ d \notin InteractiveClients
    \/ /\ c \in InteractiveClients <=> d \in InteractiveClients
       /\ c \in ahead[d]

Pending == {c \in waiters : fut[c] = "pending"}
First == {c \in Pending : \A d \in Pending \ {c} : Before(c, d)}

\* interactive_waiting
InteractiveWaiting == Pending \cap InteractiveClients # {}

\* acquire's slow path: push an entry with the next sequence number on what is in the heap.
\* The number itself only ever orders two entries, so the order is all that is kept.
Push(c, ws) ==
    /\ waiters' = ws \cup {c}
    /\ ahead' = [d \in Clients |-> IF d = c THEN ws ELSE ahead[d] \ {c}]

\* A plausible mistake: `if self._waiters` for `while self._waiters`, so that a dead entry
\* ends the search for someone to hand the lane to.
Top == {c \in waiters : \A d \in waiters \ {c} : Before(c, d)}
ReleaseToTopOnly(f) ==
    \/ /\ Top \cap Pending = {}
       /\ waiters' = waiters \ Top
       /\ held' = FALSE
       /\ fut' = f
    \/ \E c \in Top \cap Pending :
          /\ waiters' = waiters \ {c}
          /\ fut' = [f EXCEPT ![c] = "set"]
          /\ UNCHANGED held

\* release: pop until a future that is not done, and hand the lane to its client.  f is
\* fut, less the future the releasing client itself is done with.
Popped(c) == {d \in waiters : d = c \/ Before(d, c)}

Release(f) ==
    \/ /\ Pending = {}
       /\ waiters' = {}
       /\ held' = FALSE
       /\ fut' = f
    \/ \E c \in First :
          /\ waiters' = waiters \ Popped(c)
          /\ fut' = [f EXCEPT ![c] = "set"]
          /\ UNCHANGED held

-----------------------------------------------------------------------------
(* The job's coroutine.                                                    *)

\* The body of `async with`: to_thread hands fn to the executor.
Enter(j) ==
    /\ task' = [task EXCEPT ![j] = "inside"]
    /\ thread' = [thread EXCEPT ![j] = "queued"]
    /\ left' = [left EXCEPT ![j] = IF j \in Batch THEN Windows ELSE 0]

\* A plausible mistake: the fast path without its test.
AcquireFreeUnchecked(j) ==
    /\ task[j] = "idle" /\ thread[j] = "none"
    /\ held' = TRUE
    /\ Enter(j)
    /\ raised' = [raised EXCEPT ![j] = "nothing"]
    /\ UNCHANGED <<waiters, ahead, fut, helper>>

\* acquire, fast path: a slot is reused only once the previous job's thread is gone.
AcquireFree(j) ==
    /\ task[j] = "idle" /\ thread[j] = "none"
    /\ ~held /\ waiters = {}
    /\ held' = TRUE
    /\ Enter(j)
    /\ raised' = [raised EXCEPT ![j] = "nothing"]
    /\ UNCHANGED <<waiters, ahead, fut, helper>>

\* acquire, slow path: queue and await the future.
AcquireWait(j) ==
    /\ task[j] = "idle" /\ thread[j] = "none"
    /\ held \/ waiters # {}
    /\ Push(Task(j), waiters)
    /\ fut' = [fut EXCEPT ![Task(j)] = "pending"]
    /\ task' = [task EXCEPT ![j] = "waiting"]
    /\ raised' = [raised EXCEPT ![j] = "nothing"]
    /\ UNCHANGED <<held, thread, left, helper>>

\* The awaited future has its result: the lane is ours.
Wake(j) ==
    /\ task[j] = "waiting" /\ fut[Task(j)] = "set"
    /\ fut' = [fut EXCEPT ![Task(j)] = "none"]
    /\ Enter(j)
    /\ UNCHANGED <<held, waiters, ahead, helper, raised>>

\* The thread has returned and the task leaves the `async with` block.
Leave(j) ==
    /\ task[j] = "inside" /\ thread[j] = "ended"
    /\ Release(fut)
    /\ task' = [task EXCEPT ![j] = "idle"]
    /\ thread' = [thread EXCEPT ![j] = "none"]
    /\ raised' = [raised EXCEPT ![j] = "returned"]
    /\ UNCHANGED <<ahead, left, helper>>

-----------------------------------------------------------------------------
(* Cancellation (arq's job timeout, or a worker told to stop).             *)

\* Task.cancel on a task that awaits its lane future: the future is cancelled at once if
\* it is still pending; otherwise the task only remembers to raise when it next runs.
CancelWaiting(j) ==
    /\ task[j] = "waiting"
    /\ \/ /\ fut[Task(j)] = "pending"
          /\ fut' = [fut EXCEPT ![Task(j)] = "cancelled"]
          /\ UNCHANGED task
       \/ /\ fut[Task(j)] = "set"
          /\ task' = [task EXCEPT ![j] = "cancelling"]
          /\ UNCHANGED fut
    /\ UNCHANGED <<held, waiters, ahead, thread, left, helper, raised>>

\* acquire's except clause when the lane was never handed over: leave the heap.  If a
\* release has popped the dead entry meanwhile, list.remove has nothing to remove.
WakeCancelled(j) ==
    /\ task[j] = "waiting" /\ fut[Task(j)] = "cancelled"
    /\ waiters' = waiters \ {Task(j)}
    /\ raised' = [raised EXCEPT ![j] =
                     IF Task(j) \in waiters THEN "CancelledError" ELSE "ValueError"]
    /\ fut' = [fut EXCEPT ![Task(j)] = "none"]
    /\ task' = [task EXCEPT ![j] = "idle"]
    /\ UNCHANGED <<held, ahead, thread, left, helper>>

\* A plausible mistake: no except clause for a lane already handed over.
HandOnForgotten(j) ==
    /\ task[j] = "cancelling"
    /\ fut' = [fut EXCEPT ![Task(j)] = "none"]
    /\ task' = [task EXCEPT ![j] = "idle"]
    /\ raised' = [raised EXCEPT ![j] = "CancelledError"]
    /\ UNCHANGED <<held, waiters, ahead, thread, left, helper>>

\* acquire's except clause when it was: hand the lane on.
HandOn(j) ==
    /\ task[j] = "cancelling"
    /\ Release([fut EXCEPT ![Task(j)] = "none"])
    /\ task' = [task EXCEPT ![j] = "idle"]
    /\ raised' = [raised EXCEPT ![j] = "CancelledError"]
    /\ UNCHANGED <<ahead, thread, left, helper>>

\* Task.cancel while the task awaits to_thread: the `async with` block is left and the
\* lane released, but only a thread that has not started yet can be called off.
CancelInside(j) ==
    /\ task[j] = "inside"
    /\ Release(fut)
    /\ task' = [task EXCEPT ![j] = "idle"]
    /\ thread' = [thread EXCEPT ![j] = IF @ \in {"queued", "ended"} THEN "none" ELSE @]
    /\ raised' = [raised EXCEPT ![j] = "CancelledError"]
    /\ UNCHANGED <<ahead, left, helper>>

-----------------------------------------------------------------------------
(* The worker thread, and the coroutine it posts to the loop.              *)

StartThread(j) ==
    /\ thread[j] = "queued"
    /\ thread' = [thread EXCEPT ![j] = "model"]
    /\ UNCHANGED <<laneVars, task, left, helper, raised>>

\* A plausible mistake: run_coroutine_threadsafe without .result().
StepAsideUnblocked(j) ==
    /\ thread[j] = "model" /\ left[j] > 0
    /\ InteractiveWaiting
    /\ helper' = [helper EXCEPT ![j] = "scheduled"]
    /\ UNCHANGED <<laneVars, task, thread, left, raised>>

\* step_aside_from_thread, somebody interactive waiting: block on the posted coroutine.
StepAside(j) ==
    /\ thread[j] = "model" /\ left[j] > 0
    /\ InteractiveWaiting
    /\ thread' = [thread EXCEPT ![j] = "aside"]
    /\ helper' = [helper EXCEPT ![j] = "scheduled"]
    /\ UNCHANGED <<laneVars, task, left, raised>>

\* A plausible mistake: one window too many.
NextWindowOffByOne(j) ==
    /\ thread[j] = "model" /\ left[j] >= 0
    /\ ~InteractiveWaiting
    /\ left' = [left EXCEPT ![j] = @ - 1]
    /\ UNCHANGED <<laneVars, task, thread, helper, raised>>

\* Nobody interactive: go on with the next window.
NextWindow(j) ==
    /\ thread[j] = "model" /\ left[j] > 0
    /\ ~InteractiveWaiting
    /\ left' = [left EXCEPT ![j] = @ - 1]
    /\ UNCHANGED <<laneVars, task, thread, helper, raised>>

\* The function returns; with its task already gone nobody takes the result.
EndThread(j) ==
    /\ thread[j] = "model" /\ left[j] = 0
    /\ thread' = [thread EXCEPT ![j] = IF task[j] = "inside" THEN "ended" ELSE "none"]
    /\ UNCHANGED <<laneVars, task, left, helper, raised>>

\* Where the thread goes once _step_aside has returned: on with the windows that are left.
Resume(j) ==
    /\ helper' = [helper EXCEPT ![j] = "none"]
    /\ thread' = [thread EXCEPT ![j] = "model"]
    /\ left' = [left EXCEPT ![j] = @ - 1]

\* _step_aside: release, then acquire(BATCH), up to the first await.
RunAside(j) ==
    /\ helper[j] = "scheduled"
    /\ \/ /\ Pending = {}          \* whoever was waiting gave up: straight back in
          /\ waiters' = {}
          /\ held' = TRUE
          /\ Resume(j)
          /\ UNCHANGED <<ahead, fut>>
       \/ \E c \in First :
             /\ Push(Aside(j), waiters \ Popped(c))
             /\ fut' = [fut EXCEPT ![c] = "set", ![Aside(j)] = "pending"]
             /\ helper' = [helper EXCEPT ![j] = "waiting"]
             /\ UNCHANGED <<held, thread, left>>
    /\ UNCHANGED <<task, raised>>

\* The lane has come back to _step_aside.
WakeAside(j) ==
    /\ helper[j] = "waiting" /\ fut[Aside(j)] = "set"
    /\ fut' = [fut EXCEPT ![Aside(j)] = "none"]
    /\ Resume(j)
    /\ UNCHANGED <<held, waiters, ahead, task, raised>>

-----------------------------------------------------------------------------
\* What the loop and the threads do by themselves, once runnable.
Run(j) ==
    \/ Wake(j) \/ Leave(j) \/ WakeCancelled(j) \/ HandOn(j)
    \/ StartThread(j) \/ StepAside(j) \/ NextWindow(j) \/ EndThread(j)
    \/ RunAside(j) \/ WakeAside(j)

\* What comes from outside.
Arrive(j) == AcquireFree(j) \/ AcquireWait(j)

Next == \E j \in Jobs : Run(j) \/ Arrive(j) \/ CancelWaiting(j)

\* With arq's timeout also striking jobs that are inside the model.
TimeoutNext == Next \/ \E j \in Jobs : CancelInside(j)

\* The loop runs every ready callback and the operating system every thread; nobody is
\* obliged to send work or to cancel it.
Fairness == \A j \in Jobs : WF_vars(Run(j))

Spec == Init /\ [][Next]_vars
FairSpec == Spec /\ Fairness
TimeoutSpec == Init /\ [][TimeoutNext]_vars
FairTimeoutSpec == TimeoutSpec /\ Fairness

-----------------------------------------------------------------------------
(* Ownership.  The lane has no owner field: a job owns it from the moment  *)
(* its future (or its _step_aside's) is resolved to the moment it releases.*)

Owns(j) ==
    \/ task[j] = "inside" /\ helper[j] # "waiting"
    \/ fut[Task(j)] = "set"
    \/ fut[Aside(j)] = "set"

Owners == {j \in Jobs : Owns(j)}

\* Two threads in one model at once is the heap corruption that lane.py and main.startup
\* exist to rule out: at most one thread is inside the model.
MutualExclusion ==
    \A i, j \in Jobs : thread[i] = "model" /\ thread[j] = "model" => i = j

\* The lane is held exactly when one job is going to release it.  Were it held by nobody,
\* every later job would wait for ever; were it held twice, two threads would follow.
HeldByExactlyOne ==
    /\ held <=> Owners # {}
    /\ \A i, j \in Owners : i = j

\* acquire's fast path looks at _held and at _waiters; they never disagree: a free lane has
\* no entry left in its heap, live or dead, so nobody sleeps beside a free lane.
FreeLaneHasNoWaiters == ~held => waiters = {}

\* A job that steps aside really waits outside the model, and one that was let through
\* comes back only when the lane did: a thread in the model owns the lane.
ThreadInModelOwnsLane == \A j \in Jobs : thread[j] = "model" => Owns(j)

\* d asked before c of the same priority, or is a person waiting where c is not.
Entitled(d, c) ==
    \/ d \in InteractiveClients /\ c \notin InteractiveClients
    \/ /\ d \in InteractiveClients <=> c \in InteractiveClients
       /\ d \in ahead[c]

\* A future is only ever resolved for the client entitled to go next: interactive before
\* batch, first come first served within each (release, through any of its callers).
HandedOverInOrder ==
    [][\A c \in Clients : fut[c] # "set" /\ fut'[c] = "set"
          => \A d \in Pending \ {c} : ~Entitled(d, c)]_vars

\* Nobody barges: while somebody else is waiting for the lane a job only comes to own it, the
\* fast paths of acquire and of _step_aside included, after waiting in the heap itself, and a
\* batch job never comes to own it past a live interactive waiter.
NoBarging ==
    [][\A j \in Jobs : j \notin Owners /\ j \in Owners'
          => \A d \in Pending \ {Task(j), Aside(j)} :
                /\ d \in InteractiveClients => j \in Interactive
                /\ fut[Task(j)] = "pending" \/ fut[Aside(j)] = "pending"]_vars

\* The person at the microphone is always served: a live chunk or voice query that waits
\* for the lane gets it, or is cancelled, whatever batch work is queued.
InteractiveServed == \A j \in Interactive : task[j] = "waiting" ~> task[j] # "waiting"

\* lane.py implements the lane of PriorityLane.tla, which knows neither futures nor threads
\* nor dead entries: the owner is whoever will release, the queue whoever can be handed it.
LaneOwner == IF Owners = {} THEN NoOne ELSE CHOOSE j \in Jobs : Owns(j)
LaneQueue == {j \in Jobs : Task(j) \in Pending \/ Aside(j) \in Pending}

Lane == INSTANCE PriorityLane WITH owner <- LaneOwner, queue <- LaneQueue

ImplementsPriorityLane == Lane!Spec
=============================================================================
