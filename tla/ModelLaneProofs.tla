--------------------------- MODULE ModelLaneProofs ---------------------------
(***************************************************************************)
(* For any number of interactive and batch jobs and any number of windows: *)
(* as long as a timeout only strikes jobs that wait for the lane, the lane *)
(* keeps its models single-threaded and never loses its owner.             *)
(***************************************************************************)
EXTENDS ModelLane, TLAPS

\* The two entries of a job are two clients, and no two jobs share one.
LEMMA ClientFacts ==
    /\ \A j \in Jobs : Task(j) \in Clients /\ Aside(j) \in Clients
    /\ \A i, j : Task(i) # Aside(j)
    /\ \A i, j : Task(i) = Task(j) => i = j
    /\ \A i, j : Aside(i) = Aside(j) => i = j
    /\ \A c \in Clients : \E j \in Jobs : c = Task(j) \/ c = Aside(j)
BY DEF Task, Aside, Clients

\* The lane starts with every field of its type.
LEMMA InitTypeOK == Init => TypeOK
<1>1. 0 \in 0 .. Windows
  BY LaneConstants
<1> SUFFICES ASSUME Init PROVE TypeOK
  OBVIOUS
<1> USE DEF Init
<1>2. held \in BOOLEAN /\ waiters \subseteq Clients
  OBVIOUS
<1>3. ahead \in [Clients -> SUBSET Clients]
  OBVIOUS
<1>4. fut \in [Clients -> FutStates] /\ raised \in [Jobs -> Outcomes]
  BY DEF FutStates, Outcomes
<1>5. task \in [Jobs -> TaskStates] /\ helper \in [Jobs -> HelperStates]
  BY DEF TaskStates, HelperStates
<1>6. thread \in [Jobs -> ThreadStates] /\ left \in [Jobs -> 0 .. Windows]
  BY <1>1 DEF ThreadStates
<1>7. QED
  BY <1>2, <1>3, <1>4, <1>5, <1>6 DEF TypeOK

\* A push keeps the heap and its order well-formed.
LEMMA PushType ==
    ASSUME TypeOK, NEW c \in Clients, NEW ws \in SUBSET Clients, Push(c, ws)
    PROVE  waiters' \subseteq Clients /\ ahead' \in [Clients -> SUBSET Clients]
BY DEF TypeOK, Push

\* So does a release, whichever future it resolves.
LEMMA ReleaseType ==
    ASSUME TypeOK, NEW f \in [Clients -> FutStates], Release(f)
    PROVE  held' \in BOOLEAN /\ waiters' \subseteq Clients /\ fut' \in [Clients -> FutStates]
BY DEF TypeOK, Release, First, Pending, FutStates

\* Entering the `async with` body keeps the types of task, thread and left.
LEMMA EnterType ==
    ASSUME TypeOK, NEW j \in Jobs, Enter(j)
    PROVE  /\ task' \in [Jobs -> TaskStates]
           /\ thread' \in [Jobs -> ThreadStates]
           /\ left' \in [Jobs -> 0 .. Windows]
BY LaneConstants DEF TypeOK, Enter, TaskStates, ThreadStates

\* Coming back from _step_aside keeps the types of helper, thread and left.
LEMMA ResumeType ==
    ASSUME TypeOK, NEW j \in Jobs, left[j] > 0, Resume(j)
    PROVE  /\ helper' \in [Jobs -> HelperStates]
           /\ thread' \in [Jobs -> ThreadStates]
           /\ left' \in [Jobs -> 0 .. Windows]
BY LaneConstants DEF TypeOK, Resume, HelperStates, ThreadStates

-----------------------------------------------------------------------------
(* The inductive invariant.  Mutual exclusion alone is not inductive: who  *)
(* may enter next depends on the futures, and a future only tells the      *)
(* truth because coroutine, thread, helper and heap entry move together.   *)

\* A task, its future, its thread and its helper agree.
TaskInv ==
    \A j \in Jobs :
        /\ task[j] \in {"idle", "inside"} => fut[Task(j)] = "none"
        /\ task[j] = "cancelling" => fut[Task(j)] = "set"
        /\ task[j] = "waiting" => fut[Task(j)] \in {"pending", "set", "cancelled"}
        /\ task[j] = "inside" <=> thread[j] # "none"
        /\ thread[j] = "aside" <=> helper[j] # "none"
        /\ thread[j] = "aside" => left[j] > 0
        /\ left[j] > 0 => j \in Batch
        /\ helper[j] # "waiting" => fut[Aside(j)] = "none"
        /\ helper[j] = "waiting" => fut[Aside(j)] \in {"pending", "set"}

\* A heap entry is live or dead, and a live future is in the heap.
HeapInv ==
    /\ \A c \in waiters : fut[c] \in {"pending", "cancelled"}
    /\ \A c \in Clients : fut[c] = "pending" => c \in waiters

\* Sequence numbers are a strict order on the entries in the heap.
OrderInv == \A c, d \in waiters : c \in ahead[d] => d \notin ahead[c]

\* At most one job owns the lane, and none does when it is free.
OwnerInv ==
    /\ \A i, j \in Jobs : Owns(i) /\ Owns(j) => i = j
    /\ held <=> \E j \in Jobs : Owns(j)

IInv == TypeOK /\ TaskInv /\ HeapInv /\ OrderInv /\ OwnerInv /\ FreeLaneHasNoWaiters

\* Release discards dead entries only: no live waiter but the one it serves leaves the heap.
LEMMA ReleaseKeepsLive ==
    ASSUME IInv, NEW c \in First
    PROVE  /\ c \in Clients /\ c \in waiters /\ fut[c] = "pending"
           /\ \A d \in Popped(c) : d = c \/ fut[d] = "cancelled"
<1>1. c \in waiters /\ c \in Clients /\ fut[c] = "pending"
  BY DEF First, Pending, IInv, TypeOK
<1>2. ASSUME NEW d \in Popped(c), d # c, fut[d] # "cancelled"
      PROVE  FALSE
  <2>1. d \in Pending \ {c} /\ Before(d, c)
    BY <1>2 DEF Popped, Pending, IInv, HeapInv
  <2>2. Before(c, d)
    BY <2>1 DEF First
  <2>3. QED
    BY <1>1, <2>1, <2>2 DEF Before, Pending, IInv, OrderInv
<1>3. QED
  BY <1>1, <1>2

\* acquire's fast path keeps the inductive invariant.
LEMMA AcquireFreeInv ==
    ASSUME IInv, NEW j \in Jobs, AcquireFree(j)
    PROVE  IInv'
<1> USE ClientFacts DEF IInv, AcquireFree, Enter
<1>1. TypeOK'
  BY LaneConstants DEF TypeOK, TaskInv, FutStates, TaskStates, ThreadStates, HelperStates, Outcomes
<1>2. TaskInv'
  BY DEF TypeOK, TaskInv, HeapInv
<1>3. HeapInv'
  BY DEF TypeOK, TaskInv, HeapInv
<1>4. OrderInv'
  BY DEF TypeOK, TaskInv, HeapInv, OrderInv
<1>5. OwnerInv'
  BY DEF TypeOK, TaskInv, HeapInv, OwnerInv, Owns, FreeLaneHasNoWaiters
<1>6. FreeLaneHasNoWaiters'
  BY DEF FreeLaneHasNoWaiters, TypeOK
<1>7. QED
  BY <1>1, <1>2, <1>3, <1>4, <1>5, <1>6

\* acquire's slow path keeps it: the new entry is the youngest of the heap.
LEMMA AcquireWaitInv ==
    ASSUME IInv, NEW j \in Jobs, AcquireWait(j)
    PROVE  IInv'
<1> USE ClientFacts DEF IInv, AcquireWait, Push
<1>1. TypeOK'
  BY LaneConstants DEF TypeOK, TaskInv, FutStates, TaskStates, ThreadStates, HelperStates, Outcomes
<1>2. TaskInv'
  BY DEF TypeOK, TaskInv, HeapInv
<1>3. HeapInv'
  BY DEF TypeOK, TaskInv, HeapInv
<1>4. OrderInv'
  BY DEF TypeOK, TaskInv, HeapInv, OrderInv
<1>5. OwnerInv'
  BY DEF TypeOK, TaskInv, HeapInv, OwnerInv, Owns, FreeLaneHasNoWaiters
<1>6. FreeLaneHasNoWaiters'
  BY DEF FreeLaneHasNoWaiters, TypeOK
<1>7. QED
  BY <1>1, <1>2, <1>3, <1>4, <1>5, <1>6

\* Waking with the lane keeps it: the future's ownership becomes the task's.
LEMMA WakeInv ==
    ASSUME IInv, NEW j \in Jobs, Wake(j)
    PROVE  IInv'
<1> USE ClientFacts DEF IInv, Wake, Enter
<1>1. TypeOK'
  BY LaneConstants DEF TypeOK, TaskInv, FutStates, TaskStates, ThreadStates, HelperStates, Outcomes
<1>2. TaskInv'
  BY DEF TypeOK, TaskInv, HeapInv
<1>3. HeapInv'
  BY DEF TypeOK, TaskInv, HeapInv
<1>4. OrderInv'
  BY DEF TypeOK, TaskInv, HeapInv, OrderInv
<1>5. OwnerInv'
  BY DEF TypeOK, TaskInv, HeapInv, OwnerInv, Owns, FreeLaneHasNoWaiters
<1>6. FreeLaneHasNoWaiters'
  BY DEF FreeLaneHasNoWaiters, TypeOK
<1>7. QED
  BY <1>1, <1>2, <1>3, <1>4, <1>5, <1>6

\* Cancelling a waiter keeps it: a resolved future stays resolved.
LEMMA CancelWaitingInv ==
    ASSUME IInv, NEW j \in Jobs, CancelWaiting(j)
    PROVE  IInv'
<1> USE ClientFacts DEF IInv, CancelWaiting
<1>1. TypeOK'
  BY LaneConstants DEF TypeOK, TaskInv, FutStates, TaskStates, ThreadStates, HelperStates, Outcomes
<1>2. TaskInv'
  BY DEF TypeOK, TaskInv, HeapInv
<1>3. HeapInv'
  BY DEF TypeOK, TaskInv, HeapInv
<1>4. OrderInv'
  BY DEF TypeOK, TaskInv, HeapInv, OrderInv
<1>5. OwnerInv'
  BY DEF TypeOK, TaskInv, HeapInv, OwnerInv, Owns, FreeLaneHasNoWaiters
<1>6. FreeLaneHasNoWaiters'
  BY DEF FreeLaneHasNoWaiters, TypeOK
<1>7. QED
  BY <1>1, <1>2, <1>3, <1>4, <1>5, <1>6

\* A cancelled waiter that leaves the heap keeps it.
LEMMA WakeCancelledInv ==
    ASSUME IInv, NEW j \in Jobs, WakeCancelled(j)
    PROVE  IInv'
<1> USE ClientFacts DEF IInv, WakeCancelled
<1>1. TypeOK'
  BY LaneConstants DEF TypeOK, TaskInv, FutStates, TaskStates, ThreadStates, HelperStates, Outcomes
<1>2. TaskInv'
  BY DEF TypeOK, TaskInv, HeapInv
<1>3. HeapInv'
  BY DEF TypeOK, TaskInv, HeapInv
<1>4. OrderInv'
  BY DEF TypeOK, TaskInv, HeapInv, OrderInv
<1>5. OwnerInv'
  BY DEF TypeOK, TaskInv, HeapInv, OwnerInv, Owns, FreeLaneHasNoWaiters
<1>6. FreeLaneHasNoWaiters'
  BY DEF FreeLaneHasNoWaiters, TypeOK
<1>7. QED
  BY <1>1, <1>2, <1>3, <1>4, <1>5, <1>6

\* Starting the thread keeps it: its task is inside and owns the lane.
LEMMA StartThreadInv ==
    ASSUME IInv, NEW j \in Jobs, StartThread(j)
    PROVE  IInv'
<1> USE ClientFacts DEF IInv, StartThread, laneVars
<1>1. TypeOK'
  BY LaneConstants DEF TypeOK, TaskInv, FutStates, TaskStates, ThreadStates, HelperStates, Outcomes
<1>2. TaskInv'
  BY DEF TypeOK, TaskInv, HeapInv
<1>3. HeapInv'
  BY DEF TypeOK, TaskInv, HeapInv
<1>4. OrderInv'
  BY DEF TypeOK, TaskInv, HeapInv, OrderInv
<1>5. OwnerInv'
  BY DEF TypeOK, TaskInv, HeapInv, OwnerInv, Owns, FreeLaneHasNoWaiters
<1>6. FreeLaneHasNoWaiters'
  BY DEF FreeLaneHasNoWaiters, TypeOK
<1>7. QED
  BY <1>1, <1>2, <1>3, <1>4, <1>5, <1>6

\* Blocking on _step_aside keeps it: the lane is not released yet.
LEMMA StepAsideInv ==
    ASSUME IInv, NEW j \in Jobs, StepAside(j)
    PROVE  IInv'
<1> USE ClientFacts DEF IInv, StepAside, laneVars
<1>1. TypeOK'
  BY LaneConstants DEF TypeOK, TaskInv, FutStates, TaskStates, ThreadStates, HelperStates, Outcomes
<1>2. TaskInv'
  BY DEF TypeOK, TaskInv, HeapInv
<1>3. HeapInv'
  BY DEF TypeOK, TaskInv, HeapInv
<1>4. OrderInv'
  BY DEF TypeOK, TaskInv, HeapInv, OrderInv
<1>5. OwnerInv'
  BY DEF TypeOK, TaskInv, HeapInv, OwnerInv, Owns, FreeLaneHasNoWaiters
<1>6. FreeLaneHasNoWaiters'
  BY DEF FreeLaneHasNoWaiters, TypeOK
<1>7. QED
  BY <1>1, <1>2, <1>3, <1>4, <1>5, <1>6

\* Decoding a window keeps it.
LEMMA NextWindowInv ==
    ASSUME IInv, NEW j \in Jobs, NextWindow(j)
    PROVE  IInv'
<1> USE ClientFacts DEF IInv, NextWindow, laneVars
<1>1. TypeOK'
  BY LaneConstants DEF TypeOK, TaskInv, FutStates, TaskStates, ThreadStates, HelperStates, Outcomes
<1>2. TaskInv'
  BY DEF TypeOK, TaskInv, HeapInv
<1>3. HeapInv'
  BY DEF TypeOK, TaskInv, HeapInv
<1>4. OrderInv'
  BY DEF TypeOK, TaskInv, HeapInv, OrderInv
<1>5. OwnerInv'
  BY DEF TypeOK, TaskInv, HeapInv, OwnerInv, Owns, FreeLaneHasNoWaiters
<1>6. FreeLaneHasNoWaiters'
  BY DEF FreeLaneHasNoWaiters, TypeOK
<1>7. QED
  BY <1>1, <1>2, <1>3, <1>4, <1>5, <1>6

\* Returning from the model keeps it.
LEMMA EndThreadInv ==
    ASSUME IInv, NEW j \in Jobs, EndThread(j)
    PROVE  IInv'
<1> USE ClientFacts DEF IInv, EndThread, laneVars
<1>1. TypeOK'
  BY LaneConstants DEF TypeOK, TaskInv, FutStates, TaskStates, ThreadStates, HelperStates, Outcomes
<1>2. TaskInv'
  BY DEF TypeOK, TaskInv, HeapInv
<1>3. HeapInv'
  BY DEF TypeOK, TaskInv, HeapInv
<1>4. OrderInv'
  BY DEF TypeOK, TaskInv, HeapInv, OrderInv
<1>5. OwnerInv'
  BY DEF TypeOK, TaskInv, HeapInv, OwnerInv, Owns, FreeLaneHasNoWaiters
<1>6. FreeLaneHasNoWaiters'
  BY DEF FreeLaneHasNoWaiters, TypeOK
<1>7. QED
  BY <1>1, <1>2, <1>3, <1>4, <1>5, <1>6

\* Waking _step_aside with the lane keeps it: the future's ownership becomes the thread's.
LEMMA WakeAsideInv ==
    ASSUME IInv, NEW j \in Jobs, WakeAside(j)
    PROVE  IInv'
<1> USE ClientFacts DEF IInv, WakeAside, Resume
<1>1. TypeOK'
  BY LaneConstants DEF TypeOK, TaskInv, FutStates, TaskStates, ThreadStates, HelperStates, Outcomes
<1>2. TaskInv'
  BY DEF TypeOK, TaskInv, HeapInv
<1>3. HeapInv'
  BY DEF TypeOK, TaskInv, HeapInv
<1>4. OrderInv'
  BY DEF TypeOK, TaskInv, HeapInv, OrderInv
<1>5. OwnerInv'
  BY DEF TypeOK, TaskInv, HeapInv, OwnerInv, Owns, FreeLaneHasNoWaiters
<1>6. FreeLaneHasNoWaiters'
  BY DEF FreeLaneHasNoWaiters, TypeOK
<1>7. QED
  BY <1>1, <1>2, <1>3, <1>4, <1>5, <1>6

\* Leaving the `async with` block keeps it: the lane passes on or is free.
LEMMA LeaveInv ==
    ASSUME IInv, NEW j \in Jobs, Leave(j)
    PROVE  IInv'
<1> DEFINE f == fut
<1> USE ClientFacts DEF IInv, Leave
<1>0. f \in [Clients -> FutStates] /\ Release(f)
  BY DEF TypeOK, FutStates
<1>1. TypeOK'
  <2>1. held' \in BOOLEAN /\ waiters' \subseteq Clients /\ fut' \in [Clients -> FutStates]
    BY <1>0, ReleaseType
  <2>2. QED
    BY <2>1 DEF TypeOK, TaskStates, ThreadStates, Outcomes
<1>2. CASE Pending = {} /\ waiters' = {} /\ held' = FALSE /\ fut' = f
  <2>1. TaskInv' /\ HeapInv' /\ OrderInv'
    BY <1>2 DEF TypeOK, TaskInv, HeapInv, OrderInv, Pending
  <2>2. OwnerInv' /\ FreeLaneHasNoWaiters'
    BY <1>2 DEF TypeOK, TaskInv, OwnerInv, Owns, FreeLaneHasNoWaiters
  <2>3. QED
    BY <1>1, <2>1, <2>2
<1>3. ASSUME NEW c \in First,
             waiters' = waiters \ Popped(c), fut' = [f EXCEPT ![c] = "set"], held' = held
      PROVE  IInv'
  <2>0. /\ c \in Clients /\ c \in waiters /\ fut[c] = "pending" /\ c \in Popped(c)
        /\ \A d \in Popped(c) : d = c \/ fut[d] = "cancelled"
    BY ReleaseKeepsLive DEF Popped
  <2>1. TaskInv'
    BY <1>3, <2>0 DEF TypeOK, TaskInv
  <2>2. HeapInv' /\ OrderInv'
    BY <1>3, <2>0 DEF TypeOK, TaskInv, HeapInv, OrderInv
  <2>3. held
    BY <2>0 DEF FreeLaneHasNoWaiters
  <2>4. OwnerInv' /\ FreeLaneHasNoWaiters'
    <3>1. PICK k \in Jobs : c = Task(k) \/ c = Aside(k)
      BY <2>0
    <3>2. k # j /\ Owns(k)'
      BY <1>3, <2>0, <3>1 DEF TypeOK, TaskInv, Owns
    <3>3. \A i \in Jobs \ {k} : ~Owns(i)'
      BY <1>3, <2>0, <3>1 DEF TypeOK, TaskInv, Owns, OwnerInv
    <3>4. QED
      BY <1>3, <2>3, <3>2, <3>3 DEF OwnerInv, FreeLaneHasNoWaiters
  <2>5. QED
    BY <1>1, <2>1, <2>2, <2>4
<1>4. QED
  BY <1>0, <1>2, <1>3 DEF Release

\* Handing on a lane that came too late keeps it.
LEMMA HandOnInv ==
    ASSUME IInv, NEW j \in Jobs, HandOn(j)
    PROVE  IInv'
<1> DEFINE f == [fut EXCEPT ![Task(j)] = "none"]
<1> USE ClientFacts DEF IInv, HandOn
<1>0. f \in [Clients -> FutStates] /\ Release(f)
  BY DEF TypeOK, FutStates
<1>1. TypeOK'
  <2>1. held' \in BOOLEAN /\ waiters' \subseteq Clients /\ fut' \in [Clients -> FutStates]
    BY <1>0, ReleaseType
  <2>2. QED
    BY <2>1 DEF TypeOK, TaskStates, ThreadStates, Outcomes
<1>2. CASE Pending = {} /\ waiters' = {} /\ held' = FALSE /\ fut' = f
  <2>1. TaskInv' /\ HeapInv' /\ OrderInv'
    BY <1>2 DEF TypeOK, TaskInv, HeapInv, OrderInv, Pending
  <2>2. OwnerInv' /\ FreeLaneHasNoWaiters'
    BY <1>2 DEF TypeOK, TaskInv, OwnerInv, Owns, FreeLaneHasNoWaiters
  <2>3. QED
    BY <1>1, <2>1, <2>2
<1>3. ASSUME NEW c \in First,
             waiters' = waiters \ Popped(c), fut' = [f EXCEPT ![c] = "set"], held' = held
      PROVE  IInv'
  <2>0. /\ c \in Clients /\ c \in waiters /\ fut[c] = "pending" /\ c \in Popped(c)
        /\ \A d \in Popped(c) : d = c \/ fut[d] = "cancelled"
    BY ReleaseKeepsLive DEF Popped
  <2>1. TaskInv'
    BY <1>3, <2>0 DEF TypeOK, TaskInv
  <2>2. HeapInv' /\ OrderInv'
    BY <1>3, <2>0 DEF TypeOK, TaskInv, HeapInv, OrderInv
  <2>3. held
    BY <2>0 DEF FreeLaneHasNoWaiters
  <2>4. OwnerInv' /\ FreeLaneHasNoWaiters'
    <3>1. PICK k \in Jobs : c = Task(k) \/ c = Aside(k)
      BY <2>0
    <3>2. k # j /\ Owns(k)'
      BY <1>3, <2>0, <3>1 DEF TypeOK, TaskInv, Owns
    <3>3. \A i \in Jobs \ {k} : ~Owns(i)'
      BY <1>3, <2>0, <3>1 DEF TypeOK, TaskInv, Owns, OwnerInv
    <3>4. QED
      BY <1>3, <2>3, <3>2, <3>3 DEF OwnerInv, FreeLaneHasNoWaiters
  <2>5. QED
    BY <1>1, <2>1, <2>2, <2>4
<1>4. QED
  BY <1>0, <1>2, <1>3 DEF Release

\* _step_aside's release and re-acquisition keep it.
LEMMA RunAsideInv ==
    ASSUME IInv, NEW j \in Jobs, RunAside(j)
    PROVE  IInv'
<1> USE ClientFacts DEF IInv, RunAside
<1>0. /\ task[j] = "inside" /\ thread[j] = "aside" /\ left[j] > 0
      /\ fut[Task(j)] = "none" /\ fut[Aside(j)] = "none" /\ Owns(j) /\ held
  BY DEF TypeOK, TaskInv, OwnerInv, Owns
<1>1. CASE Pending = {} /\ waiters' = {} /\ held' = TRUE /\ Resume(j) /\ UNCHANGED <<ahead, fut>>
  <2>1. TypeOK'
    BY <1>0, <1>1, ResumeType DEF TypeOK
  <2>2. TaskInv' /\ HeapInv' /\ OrderInv'
    BY <1>0, <1>1 DEF TypeOK, TaskInv, HeapInv, OrderInv, Pending, Resume
  <2>3. OwnerInv' /\ FreeLaneHasNoWaiters'
    BY <1>0, <1>1 DEF TypeOK, TaskInv, OwnerInv, Owns, FreeLaneHasNoWaiters, Resume
  <2>4. QED
    BY <2>1, <2>2, <2>3
<1>2. ASSUME NEW c \in First,
             Push(Aside(j), waiters \ Popped(c)),
             fut' = [fut EXCEPT ![c] = "set", ![Aside(j)] = "pending"],
             helper' = [helper EXCEPT ![j] = "waiting"],
             UNCHANGED <<held, thread, left>>
      PROVE  IInv'
  <2>0. /\ c \in Clients /\ c \in waiters /\ fut[c] = "pending" /\ c \in Popped(c)
        /\ \A d \in Popped(c) : d = c \/ fut[d] = "cancelled"
        /\ Aside(j) \notin waiters /\ c # Aside(j)
    BY <1>0, ReleaseKeepsLive DEF Popped, HeapInv
  <2>1. TypeOK'
    <3>1. waiters' \subseteq Clients /\ ahead' \in [Clients -> SUBSET Clients]
      BY <1>2, PushType DEF TypeOK
    <3>2. QED
      BY <1>2, <2>0, <3>1 DEF TypeOK, FutStates, HelperStates
  <2>2. TaskInv'
    BY <1>0, <1>2, <2>0 DEF TypeOK, TaskInv
  <2>3. HeapInv'
    BY <1>0, <1>2, <2>0 DEF TypeOK, HeapInv, Push
  <2>4. OrderInv'
    BY <1>0, <1>2, <2>0 DEF TypeOK, OrderInv, Push
  <2>5. OwnerInv' /\ FreeLaneHasNoWaiters'
    <3>1. PICK k \in Jobs : c = Task(k) \/ c = Aside(k)
      BY <2>0
    <3>2. k # j /\ Owns(k)'
      BY <1>0, <1>2, <2>0, <3>1 DEF TypeOK, TaskInv, Owns
    <3>3. \A i \in Jobs \ {k} : ~Owns(i)'
      BY <1>0, <1>2, <2>0, <3>1 DEF TypeOK, TaskInv, Owns, OwnerInv
    <3>4. QED
      BY <1>0, <1>2, <3>2, <3>3 DEF OwnerInv, FreeLaneHasNoWaiters
  <2>6. QED
    BY <2>1, <2>2, <2>3, <2>4, <2>5
<1>3. QED
  BY <1>1, <1>2

-----------------------------------------------------------------------------
\* Every step of the loop, of a thread or from outside keeps the inductive invariant.
LEMMA IInvInductive == IInv /\ [Next]_vars => IInv'
<1> SUFFICES ASSUME IInv, [Next]_vars PROVE IInv'
  OBVIOUS
<1>1. ASSUME NEW j \in Jobs, Run(j) \/ Arrive(j) \/ CancelWaiting(j)
      PROVE  IInv'
  BY <1>1, WakeInv, LeaveInv, WakeCancelledInv, HandOnInv, StartThreadInv, StepAsideInv,
     NextWindowInv, EndThreadInv, RunAsideInv, WakeAsideInv, AcquireFreeInv, AcquireWaitInv,
     CancelWaitingInv DEF Run, Arrive
<1>2. CASE UNCHANGED vars
  BY <1>2 DEF vars, IInv, TypeOK, TaskInv, HeapInv, OrderInv, OwnerInv, Owns, FreeLaneHasNoWaiters
<1>3. QED
  BY <1>1, <1>2 DEF Next

\* The idle worker satisfies the inductive invariant.
LEMMA IInvInit == Init => IInv
<1> SUFFICES ASSUME Init PROVE IInv
  OBVIOUS
<1>1. TypeOK
  BY InitTypeOK
<1>2. TaskInv /\ HeapInv /\ OrderInv
  BY ClientFacts DEF Init, TaskInv, HeapInv, OrderInv
<1>3. OwnerInv /\ FreeLaneHasNoWaiters
  BY ClientFacts DEF Init, OwnerInv, Owns, FreeLaneHasNoWaiters
<1>4. QED
  BY <1>1, <1>2, <1>3 DEF IInv

\* So it holds in every reachable state.
LEMMA IInvInvariant == Spec => []IInv
BY IInvInit, IInvInductive, PTL DEF Spec

\* Every field of the lane and of its jobs keeps its type.
THEOREM TypeCorrect == Spec => []TypeOK
<1>1. IInv => TypeOK
  BY DEF IInv
<1>2. QED
  BY <1>1, IInvInvariant, PTL

\* The lane is held exactly while one job is going to release it: no job is ever stranded
\* behind a lane nobody holds, and no lane is ever handed to two.
THEOREM LaneAccountedFor == Spec => [](HeldByExactlyOne /\ FreeLaneHasNoWaiters)
<1>1. IInv => HeldByExactlyOne /\ FreeLaneHasNoWaiters
  BY DEF IInv, OwnerInv, HeldByExactlyOne, Owners
<1>2. QED
  BY <1>1, IInvInvariant, PTL

\* A job that steps aside waits outside the model, and comes back in only with the lane.
THEOREM ThreadsOwnTheirLane == Spec => []ThreadInModelOwnsLane
<1>1. IInv => ThreadInModelOwnsLane
  BY DEF IInv, TypeOK, TaskInv, ThreadInModelOwnsLane, Owns, TaskStates, ThreadStates
<1>2. QED
  BY <1>1, IInvInvariant, PTL

\* The rule lane.py opens with: never two threads inside one model, whatever the number of
\* jobs, however they queue, step aside or are cancelled while they wait.
THEOREM ModelsAreSingleThreaded == Spec => []MutualExclusion
<1>1. IInv /\ ThreadInModelOwnsLane => MutualExclusion
  BY DEF IInv, OwnerInv, MutualExclusion, ThreadInModelOwnsLane
<1>2. QED
  BY <1>1, IInvInvariant, ThreadsOwnTheirLane, PTL

\* Whichever step resolves a future, it is the future of the client entitled to the lane.
LEMMA OrderStep ==
    ASSUME IInv, [Next]_vars, NEW c \in Clients, fut[c] # "set", fut'[c] = "set",
           NEW d \in Pending \ {c}
    PROVE  ~Entitled(d, c)
<1> USE ClientFacts DEF IInv
<1>1. ASSUME c \in First PROVE ~Entitled(d, c)
  BY <1>1, ReleaseKeepsLive DEF First, Before, Entitled, OrderInv, Pending
<1>2. ASSUME NEW j \in Jobs, Leave(j) \/ HandOn(j) \/ RunAside(j)
      PROVE  c \in First
  <2>1. CASE Leave(j)
    BY <2>1, ReleaseKeepsLive DEF Leave, Release, TypeOK
  <2>2. CASE HandOn(j)
    BY <2>2, ReleaseKeepsLive DEF HandOn, Release, TypeOK
  <2>3. CASE RunAside(j)
    BY <2>3, ReleaseKeepsLive DEF RunAside, TypeOK
  <2>4. QED
    BY <1>2, <2>1, <2>2, <2>3
<1>3. ASSUME NEW j \in Jobs,
             \/ Wake(j) \/ WakeCancelled(j) \/ StartThread(j) \/ StepAside(j) \/ NextWindow(j)
             \/ EndThread(j) \/ WakeAside(j) \/ Arrive(j) \/ CancelWaiting(j)
      PROVE  FALSE
  BY <1>3 DEF Wake, WakeCancelled, StartThread, StepAside, NextWindow, EndThread, WakeAside,
     Arrive, AcquireFree, AcquireWait, CancelWaiting, laneVars, TypeOK
<1>4. CASE UNCHANGED vars
  BY <1>4 DEF vars
<1>5. QED
  BY <1>1, <1>2, <1>3, <1>4 DEF Next, Run

\* Interactive before batch and first come first served, at every hand-over.
THEOREM HandOversAreOrdered == Spec => HandedOverInOrder
<1>1. IInv /\ [Next]_vars =>
        [\A c \in Clients : fut[c] # "set" /\ fut'[c] = "set"
            => \A d \in Pending \ {c} : ~Entitled(d, c)]_vars
  BY OrderStep
<1>2. QED
  BY <1>1, IInvInvariant, PTL DEF Spec, HandedOverInOrder

\* What only moves a thread, wakes a coroutine or cancels a waiter makes nobody an owner.
LEMMA QuietOwners ==
    ASSUME IInv, NEW j \in Jobs,
           \/ Wake(j) \/ WakeCancelled(j) \/ StartThread(j) \/ StepAside(j)
           \/ NextWindow(j) \/ EndThread(j) \/ WakeAside(j) \/ CancelWaiting(j)
    PROVE  \A i \in Jobs : Owns(i)' <=> Owns(i)
BY ClientFacts
   DEF IInv, Wake, Enter, WakeCancelled, StartThread, StepAside, NextWindow, EndThread, WakeAside,
       CancelWaiting, Resume, laneVars, Owns, TypeOK, TaskInv

\* Whoever comes to own a lane somebody waits for is the client at the front of its heap.
LEMMA BargingStep ==
    ASSUME IInv, [Next]_vars, NEW j \in Jobs, j \notin Owners, j \in Owners',
           NEW d \in Pending \ {Task(j), Aside(j)}
    PROVE  /\ d \in InteractiveClients => j \in Interactive
           /\ fut[Task(j)] = "pending" \/ fut[Aside(j)] = "pending"
<1> USE ClientFacts DEF IInv
<1>0. ~Owns(j) /\ Owns(j)' /\ d \in waiters
  BY DEF Owners, Pending
<1>1. ASSUME NEW c \in First, c = Task(j) \/ c = Aside(j)
      PROVE  /\ d \in InteractiveClients => j \in Interactive
             /\ fut[Task(j)] = "pending" \/ fut[Aside(j)] = "pending"
  <2>1. fut[c] = "pending"
    BY <1>1, ReleaseKeepsLive
  <2>2. Before(c, d)
    BY <1>1 DEF First
  <2>3. d \in InteractiveClients => c \in InteractiveClients
    BY <2>2 DEF Before
  <2>4. QED
    BY <1>1, <2>1, <2>3 DEF InteractiveClients
<1>2. ASSUME NEW k \in Jobs, AcquireFree(k)
      PROVE  FALSE
  BY <1>0, <1>2 DEF AcquireFree
<1>3. ASSUME NEW k \in Jobs, AcquireWait(k)
      PROVE  FALSE
  BY <1>0, <1>3 DEF AcquireWait, Owns, TypeOK, TaskInv
<1>4. ASSUME NEW k \in Jobs, Leave(k) \/ HandOn(k) \/ RunAside(k)
      PROVE  \E c \in First : c = Task(j) \/ c = Aside(j)
  <2>1. Pending # {}
    OBVIOUS
  <2>2. CASE Leave(k)
    BY <1>0, <2>1, <2>2, ReleaseKeepsLive DEF Leave, Release, Owns, TypeOK, TaskInv
  <2>3. CASE HandOn(k)
    BY <1>0, <2>1, <2>3, ReleaseKeepsLive DEF HandOn, Release, Owns, TypeOK, TaskInv
  <2>4. CASE RunAside(k)
    <3>1. PICK c \in First :
             /\ fut' = [fut EXCEPT ![c] = "set", ![Aside(k)] = "pending"]
             /\ helper' = [helper EXCEPT ![k] = "waiting"] /\ task' = task
      BY <2>1, <2>4 DEF RunAside
    <3>2. c \in Clients /\ task[k] = "inside" /\ helper[k] # "waiting"
      BY <2>4, ReleaseKeepsLive DEF RunAside, TypeOK, TaskInv
    <3>3. j # k /\ (fut'[Task(j)] = "set" \/ fut'[Aside(j)] = "set")
      BY <1>0, <3>1, <3>2 DEF Owns, TypeOK
    <3>4. QED
      BY <1>0, <3>1, <3>2, <3>3 DEF Owns, TypeOK
  <2>5. QED
    BY <1>4, <2>2, <2>3, <2>4
<1>5. CASE UNCHANGED vars
  BY <1>0, <1>5 DEF vars, Owns
<1>6. QED
  BY <1>0, <1>1, <1>2, <1>3, <1>4, <1>5, QuietOwners DEF Next, Run, Arrive

\* Nobody overtakes: the fast paths of acquire and of _step_aside never take a lane that
\* somebody waits for, and a batch job never comes to own one past an interactive waiter.
THEOREM NobodyBarges == Spec => NoBarging
<1>1. IInv /\ [Next]_vars =>
        [\A j \in Jobs : j \notin Owners /\ j \in Owners'
          => \A d \in Pending \ {Task(j), Aside(j)} :
                /\ d \in InteractiveClients => j \in Interactive
                /\ fut[Task(j)] = "pending" \/ fut[Aside(j)] = "pending"]_vars
  BY BargingStep
<1>2. QED
  BY <1>1, IInvInvariant, PTL DEF Spec, NoBarging

-----------------------------------------------------------------------------
(* The refinement: each step of the implementation is a step of            *)
(* PriorityLane or leaves owner and queue as they were.                    *)

\* LaneOwner, without the choice: the one owner, or NoOne.
LEMMA OwnerIs ==
    ASSUME IInv
    PROVE  /\ \A j \in Jobs : Owns(j) => LaneOwner = j
           /\ (\A j \in Jobs : ~Owns(j)) => LaneOwner = NoOne
           /\ \A j \in Jobs : LaneOwner = j => Owns(j)
           /\ held <=> LaneOwner # NoOne
<1>1. \A j \in Jobs : Owns(j) => LaneOwner = j
  <2> SUFFICES ASSUME NEW j \in Jobs, Owns(j) PROVE LaneOwner = j
    OBVIOUS
  <2>1. Owners # {} /\ \A i \in Jobs : Owns(i) => i = j
    BY DEF Owners, IInv, OwnerInv
  <2>2. (CHOOSE i \in Jobs : Owns(i)) = j
    BY <2>1
  <2>3. QED
    BY <2>1, <2>2 DEF LaneOwner
<1>2. (\A j \in Jobs : ~Owns(j)) => LaneOwner = NoOne
  BY DEF LaneOwner, Owners
<1>3. QED
  BY <1>1, <1>2, LaneConstants DEF IInv, OwnerInv

\* The same for the next state.
LEMMA OwnerIsNext ==
    ASSUME IInv'
    PROVE  /\ \A j \in Jobs : Owns(j)' => LaneOwner' = j
           /\ (\A j \in Jobs : ~Owns(j)') => LaneOwner' = NoOne
<1>1. \A j \in Jobs : Owns(j)' => LaneOwner' = j
  <2> SUFFICES ASSUME NEW j \in Jobs, Owns(j)' PROVE LaneOwner' = j
    OBVIOUS
  <2>1. Owners' # {} /\ \A i \in Jobs : Owns(i)' => i = j
    BY DEF Owners, IInv, OwnerInv
  <2>2. (CHOOSE i \in Jobs : Owns(i)') = j
    BY <2>1
  <2>3. QED
    BY <2>1, <2>2 DEF LaneOwner
<1>2. (\A j \in Jobs : ~Owns(j)') => LaneOwner' = NoOne
  BY DEF LaneOwner, Owners
<1>3. QED
  BY <1>1, <1>2

\* Serving the first client of the heap serves a best waiter of the abstract queue.
LEMMA FirstIsBest ==
    ASSUME IInv, NEW c \in First, NEW k \in Jobs, c = Task(k) \/ c = Aside(k)
    PROVE  k \in Lane!Best(LaneQueue)
<1> USE ClientFacts, ReleaseKeepsLive
<1>1. k \in LaneQueue
  BY DEF LaneQueue, First
<1>2. CASE LaneQueue \cap Interactive = {}
  BY <1>1, <1>2 DEF Lane!Best
<1>3. ASSUME NEW i \in LaneQueue \cap Interactive
      PROVE  k \in Interactive
  <2>1. i \in Jobs /\ i \notin Batch
    BY LaneConstants DEF LaneQueue
  <2>2. Task(i) \in Pending /\ Task(i) \in InteractiveClients
    BY <2>1 DEF LaneQueue, Pending, InteractiveClients, IInv, TypeOK, TaskInv
  <2>3. c \in InteractiveClients
    BY <2>2 DEF First, Before
  <2>4. QED
    BY <2>3 DEF InteractiveClients
<1>4. QED
  BY <1>1, <1>2, <1>3 DEF Lane!Best

\* Resolving the future of client c takes its job, and no other, off the abstract queue.
LEMMA ServedLeavesQueue ==
    ASSUME IInv, NEW c \in First, NEW k \in Jobs, c = Task(k) \/ c = Aside(k),
           NEW f \in [Clients -> FutStates],
           \A d \in Clients : (f[d] = "pending") <=> (fut[d] = "pending"),
           waiters' = waiters \ Popped(c), fut' = [f EXCEPT ![c] = "set"]
    PROVE  LaneQueue' = LaneQueue \ {k}
<1> USE ClientFacts, ReleaseKeepsLive
<1>1. \A d \in Clients : d \in Pending' <=> d \in Pending /\ d # c
  BY DEF Pending, Popped, FutStates
<1>2. ~(Task(k) \in Pending /\ Aside(k) \in Pending)
  BY DEF Pending, IInv, TypeOK, TaskInv
<1>3. QED
  BY <1>1, <1>2 DEF LaneQueue, First

\* If the same jobs own and the same futures are pending, PriorityLane sees a stutter.
LEMMA Stutter ==
    ASSUME IInv, IInv', \A j \in Jobs : Owns(j)' <=> Owns(j), Pending' = Pending
    PROVE  UNCHANGED Lane!vars
<1>1. LaneOwner' = LaneOwner
  BY OwnerIs, OwnerIsNext
<1>2. LaneQueue' = LaneQueue
  BY DEF LaneQueue
<1>3. QED
  BY <1>1, <1>2 DEF Lane!vars

\* Every release by the owner is PriorityLane's Leave.
LEMMA ReleaseIsLeave ==
    ASSUME IInv, IInv', held, NEW f \in [Clients -> FutStates],
           \A d \in Clients : (f[d] = "pending") <=> (fut[d] = "pending"),
           Release(f)
    PROVE  Lane!Leave
<1> USE ClientFacts
<1>0. LaneOwner # NoOne
  BY OwnerIs
<1>1. CASE Pending = {} /\ waiters' = {} /\ held' = FALSE /\ fut' = f
  <2>1. LaneOwner' = NoOne
    BY <1>1, OwnerIsNext DEF IInv, OwnerInv
  <2>2. LaneQueue = {} /\ LaneQueue' = {}
    BY <1>1 DEF LaneQueue, Pending
  <2>3. QED
    BY <1>0, <2>1, <2>2 DEF Lane!Leave
<1>2. ASSUME NEW c \in First,
             waiters' = waiters \ Popped(c), fut' = [f EXCEPT ![c] = "set"]
      PROVE  Lane!Leave
  <2>1. c \in Clients
    BY ReleaseKeepsLive
  <2>2. PICK k \in Jobs : c = Task(k) \/ c = Aside(k)
    BY <2>1
  <2>3. LaneOwner' = k
    BY <1>2, <2>1, <2>2, OwnerIsNext DEF Owns
  <2>4. LaneQueue' = LaneQueue \ {k} /\ k \in Lane!Best(LaneQueue)
    BY <1>2, <2>2, ServedLeavesQueue, FirstIsBest
  <2>5. QED
    BY <1>0, <2>3, <2>4 DEF Lane!Leave
<1>3. QED
  BY <1>1, <1>2 DEF Release

\* acquire's fast path is PriorityLane's Take.
LEMMA AcquireFreeIsTake ==
    ASSUME IInv, IInv', NEW j \in Jobs, AcquireFree(j)
    PROVE  Lane!Take(j)
<1> USE ClientFacts DEF IInv, AcquireFree
<1>1. LaneOwner = NoOne /\ LaneOwner' = j
  <2>1. Owns(j)'
    BY DEF Owns, Enter, TypeOK, TaskInv
  <2>2. QED
    BY <2>1, OwnerIs, OwnerIsNext
<1>2. LaneQueue = {} /\ LaneQueue' = LaneQueue
  BY DEF LaneQueue, Pending
<1>3. QED
  BY <1>1, <1>2 DEF Lane!Take

\* acquire's slow path is PriorityLane's Join.
LEMMA AcquireWaitIsJoin ==
    ASSUME IInv, IInv', NEW j \in Jobs, AcquireWait(j)
    PROVE  Lane!Join(j)
<1> USE ClientFacts DEF IInv, AcquireWait
<1>1. held /\ ~Owns(j) /\ fut[Task(j)] = "none" /\ fut[Aside(j)] = "none"
  BY DEF FreeLaneHasNoWaiters, TypeOK, TaskInv, Owns
<1>2. LaneOwner # NoOne /\ LaneOwner # j
  BY <1>1, OwnerIs, LaneConstants
<1>3. LaneOwner' = LaneOwner
  <2>1. \A i \in Jobs : Owns(i)' <=> Owns(i)
    BY <1>1 DEF Owns, TypeOK
  <2>2. QED
    BY <2>1, OwnerIs, OwnerIsNext
<1>4. j \notin LaneQueue /\ LaneQueue' = LaneQueue \cup {j}
  BY <1>1 DEF LaneQueue, Pending, Push, TypeOK
<1>5. QED
  BY <1>2, <1>3, <1>4 DEF Lane!Join

\* Cancelling a waiter is PriorityLane's GiveUp, or a stutter if it had been served.
LEMMA CancelWaitingIsGiveUp ==
    ASSUME IInv, IInv', NEW j \in Jobs, CancelWaiting(j)
    PROVE  Lane!GiveUp(j) \/ UNCHANGED Lane!vars
<1> USE ClientFacts DEF IInv, CancelWaiting
<1>1. CASE fut[Task(j)] = "pending" /\ fut' = [fut EXCEPT ![Task(j)] = "cancelled"] /\ UNCHANGED task
  <2>1. \A i \in Jobs : Owns(i)' <=> Owns(i)
    BY <1>1 DEF Owns, TypeOK
  <2>2. LaneOwner' = LaneOwner
    BY <2>1, OwnerIs, OwnerIsNext
  <2>3. Task(j) \in Pending /\ Aside(j) \notin Pending /\ Pending' = Pending \ {Task(j)}
    BY <1>1 DEF Pending, TypeOK, TaskInv, HeapInv
  <2>4. j \in LaneQueue /\ LaneQueue' = LaneQueue \ {j}
    BY <2>3 DEF LaneQueue
  <2>5. QED
    BY <2>2, <2>4 DEF Lane!GiveUp
<1>2. CASE fut[Task(j)] = "set" /\ task' = [task EXCEPT ![j] = "cancelling"] /\ UNCHANGED fut
  <2>1. \A i \in Jobs : Owns(i)' <=> Owns(i)
    BY <1>2 DEF Owns, TypeOK
  <2>2. Pending' = Pending
    BY <1>2 DEF Pending
  <2>3. QED
    BY <2>1, <2>2, Stutter
<1>3. QED
  BY <1>1, <1>2

\* _step_aside is PriorityLane's StepAside, or a stutter if nobody waits any more.
LEMMA RunAsideIsStepAside ==
    ASSUME IInv, IInv', NEW j \in Jobs, RunAside(j)
    PROVE  Lane!StepAside \/ UNCHANGED Lane!vars
<1> USE ClientFacts DEF IInv, RunAside
<1>0. /\ task[j] = "inside" /\ thread[j] = "aside" /\ fut[Task(j)] = "none"
      /\ fut[Aside(j)] = "none" /\ Owns(j) /\ LaneOwner = j /\ j # NoOne
  BY OwnerIs, LaneConstants DEF TypeOK, TaskInv, Owns
<1>1. CASE Pending = {} /\ waiters' = {} /\ Resume(j) /\ UNCHANGED fut
  <2>1. \A i \in Jobs : Owns(i)' <=> Owns(i)
    BY <1>0, <1>1 DEF Owns, TypeOK, Resume
  <2>2. Pending' = Pending
    BY <1>1 DEF Pending
  <2>3. QED
    BY <2>1, <2>2, Stutter
<1>2. ASSUME NEW c \in First,
             Push(Aside(j), waiters \ Popped(c)),
             fut' = [fut EXCEPT ![c] = "set", ![Aside(j)] = "pending"]
      PROVE  Lane!StepAside
  <2>1. /\ c \in Clients /\ c \in waiters /\ fut[c] = "pending"
        /\ \A d \in Popped(c) : d = c \/ fut[d] = "cancelled"
    BY ReleaseKeepsLive
  <2>2. PICK k \in Jobs : c = Task(k) \/ c = Aside(k)
    BY <2>1
  <2>3. LaneOwner' = k
    BY <1>0, <1>2, <2>1, <2>2, OwnerIsNext DEF Owns, TypeOK
  <2>4. \A d \in Clients : d \in Pending' <=> (d \in Pending /\ d # c) \/ d = Aside(j)
    BY <1>0, <1>2, <2>1 DEF Pending, Push, Popped, TypeOK
  <2>5. ~(Task(k) \in Pending /\ Aside(k) \in Pending) /\ k # j
    BY <1>0, <2>1, <2>2 DEF Pending, TypeOK, TaskInv
  <2>6. LaneQueue' = (LaneQueue \ {k}) \cup {j}
    <3>1. \A i \in Jobs : i \in LaneQueue' <=> (i \in LaneQueue /\ i # k) \/ i = j
      <4> TAKE i \in Jobs
      <4>1. Task(i) \in Pending' <=> Task(i) \in Pending /\ Task(i) # c
        BY <2>4
      <4>2. Aside(i) \in Pending' <=> (Aside(i) \in Pending /\ Aside(i) # c) \/ i = j
        BY <2>4
      <4>3. QED
        BY <2>1, <2>2, <2>5, <4>1, <4>2 DEF LaneQueue, Pending
    <3>2. QED
      BY <3>1, <2>2 DEF LaneQueue
  <2>7. k \in Lane!Best(LaneQueue)
    BY <2>2, FirstIsBest
  <2>8. QED
    BY <1>0, <2>3, <2>6, <2>7 DEF Lane!StepAside
<1>3. QED
  BY <1>1, <1>2

\* What only moves a thread, or wakes a coroutine, is a stutter of PriorityLane.
LEMMA QuietSteps ==
    ASSUME IInv, IInv', NEW j \in Jobs,
           \/ Wake(j) \/ WakeCancelled(j) \/ StartThread(j) \/ StepAside(j)
           \/ NextWindow(j) \/ EndThread(j) \/ WakeAside(j)
    PROVE  UNCHANGED Lane!vars
<1> USE ClientFacts DEF IInv
<1>1. \A i \in Jobs : Owns(i)' <=> Owns(i)
  BY QuietOwners
<1>2. Pending' = Pending
  BY DEF Wake, WakeCancelled, StartThread, StepAside, NextWindow, EndThread, WakeAside,
         laneVars, Pending, TypeOK, HeapInv
<1>3. QED
  BY <1>1, <1>2, Stutter

\* Every step of ModelLane is a step of PriorityLane or a stutter.
LEMMA RefinementStep == IInv /\ IInv' /\ [Next]_vars => [Lane!Next]_Lane!vars
<1> SUFFICES ASSUME IInv, IInv', [Next]_vars PROVE [Lane!Next]_Lane!vars
  OBVIOUS
<1>1. ASSUME NEW j \in Jobs, Leave(j) \/ HandOn(j)
      PROVE  Lane!Leave
  <2>1. held
    BY <1>1, ClientFacts DEF Leave, HandOn, IInv, OwnerInv, Owns, TaskInv, TypeOK
  <2>2. CASE Leave(j)
    BY <2>1, <2>2, ReleaseIsLeave DEF Leave, IInv, TypeOK
  <2>3. CASE HandOn(j)
    <3>1. fut[Task(j)] = "set"
      BY <2>3 DEF HandOn, IInv, TaskInv
    <3> DEFINE f == [fut EXCEPT ![Task(j)] = "none"]
    <3>2. /\ f \in [Clients -> FutStates]
          /\ \A d \in Clients : (f[d] = "pending") <=> (fut[d] = "pending")
      BY <3>1, ClientFacts DEF IInv, TypeOK, FutStates
    <3>3. Release(f)
      BY <2>3 DEF HandOn
    <3> HIDE DEF f
    <3>4. QED
      BY <2>1, <3>2, <3>3, ReleaseIsLeave
  <2>4. QED
    BY <1>1, <2>2, <2>3
<1>2. ASSUME NEW j \in Jobs, Run(j) \/ Arrive(j) \/ CancelWaiting(j)
      PROVE  [Lane!Next]_Lane!vars
  BY <1>1, <1>2, AcquireFreeIsTake, AcquireWaitIsJoin, CancelWaitingIsGiveUp,
     RunAsideIsStepAside, QuietSteps DEF Run, Arrive, Lane!Next
<1>3. CASE UNCHANGED vars
  <2>1. (\A i \in Jobs : Owns(i)' <=> Owns(i)) /\ Pending' = Pending
    BY <1>3 DEF vars, Owns, Pending
  <2>2. QED
    BY <2>1, Stutter
<1>4. QED
  BY <1>2, <1>3 DEF Next

\* lane.py keeps everything PriorityLane promises: one owner, interactive waiters first.
THEOREM LaneImplementsPriorityLane == Spec => ImplementsPriorityLane
<1>1. Init => Lane!Init
  BY ClientFacts DEF Init, Lane!Init, LaneOwner, LaneQueue, Owners, Owns, Pending
<1>2. QED
  BY <1>1, IInvInvariant, RefinementStep, PTL DEF Spec, Lane!Spec, ImplementsPriorityLane
=============================================================================
