---------------------------- MODULE GraphSyncProofs ---------------------------
(***************************************************************************)
(* For any items, projections, windows, requests and workers, and any      *)
(* number of changes, failures and losses: rebuilds under the lock never   *)
(* interleave, and whenever nothing is on its way the graph shows all that *)
(* was asked for.                                                          *)
(***************************************************************************)
EXTENDS GraphSync, TLAPS

\* A MERGE writes one version for every item.
LEMMA MergedType ==
    ASSUME TypeOK, NEW k \in Steps, NEW r \in Content
    PROVE  Merged(k, r) \in Content
BY DEF TypeOK, Content, Merged

\* Windows are asked for, queued and run under their own names.
LEMMA EnqueuedType ==
    ASSUME TypeOK, NEW b \in Windows
    PROVE  Enqueued(b) \subseteq Windows
BY DEF TypeOK, Enqueued

-----------------------------------------------------------------------------
(* The inductive invariant.  That the graph is current when nothing is on  *)
(* its way says nothing about a state in which something is; Main says     *)
(* what each request on its way is worth, down to the one arq drops.       *)

\* Whoever is inside rebuild holds the lock, and is alone there.
LockInv ==
    /\ \A w \in Workers : InRebuild(w) => locked
    /\ RebuildsNeverInterleave

\* A job at work has its id, which is not the present window's; who is about to enqueue knows
\* for which window.
IdInv ==
    /\ \A w \in Workers : pc[w] # "idle" => job[w] \in Windows
    /\ \A w \in Workers : job[w] # now
    /\ \A c \in Clients : pc[c] = "enqueue" => window[c] \in Windows

\* A rebuild that has not read anything yet is going to happen.  A request that may still fail
\* is not counted, nor is one for a window whose job already runs: arq drops it.
Coming ==
    \/ queued # {}
    \/ \E w \in Workers : pc[w] \in {"lock", "wipe"}
    \/ \E c \in Clients : pc[c] = "enqueue" /\ window[c] \notin RunningIds

\* What a rebuild has projected and fetched so far is what Postgres says now, of all that was
\* asked for.
CaughtUp(w) ==
    /\ pc[w] \in {"fetch", "write"} =>
         \A i \in Items \ unasked, k \in Steps :
            graph[k][i] = IF k < step[w] THEN db[i] ELSE Absent
    /\ pc[w] = "write" => \A i \in Items \ unasked : rows[w][i] = db[i]
    /\ pc[w] = "unlock" => InSync

Main ==
    ~Coming =>
        /\ \A w \in Workers : InRebuild(w) => CaughtUp(w)
        /\ (\A w \in Workers : ~InRebuild(w)) => InSync

IInv == TypeOK /\ LockInv /\ IdInv /\ Main

-----------------------------------------------------------------------------
(* Types.                                                                  *)

\* Postgres and the graph start empty, and nobody is doing anything.
LEMMA InitTypeOK == Init => TypeOK
<1>1. Empty \in Content
  BY GraphConstants DEF Empty, Content
<1>2. 1 \in Steps /\ 0 \in 0 .. MaxChanges /\ 0 \in 0 .. MaxFaults
  BY GraphConstants DEF Steps
<1>3. "idle" \in PCs
  BY DEF PCs
<1> SUFFICES ASSUME Init PROVE TypeOK
  OBVIOUS
<1>4. pc \in [Procs -> PCs]
  BY <1>3 DEF Init
<1>5. graph \in [Steps -> Content]
  BY <1>1 DEF Init
<1>6. step \in [Rebuilders -> Steps] /\ rows \in [Rebuilders -> Content]
  BY <1>1, <1>2 DEF Init
<1>7. job \in [Workers -> Windows \cup {None}] /\ window \in [Clients -> Windows \cup {None}]
  BY DEF Init
<1>8. QED
  BY <1>1, <1>2, <1>4, <1>5, <1>6, <1>7 DEF Init, TypeOK

\* Every step of a request, a worker, a lock or the clock keeps the types; that whoever
\* enqueues knows for which window is what keeps None out of the queue.
LEMMA NextTypeOK == TypeOK /\ IdInv /\ [Next]_vars => TypeOK'
<1> SUFFICES ASSUME TypeOK, IdInv, [Next]_vars PROVE TypeOK'
  OBVIOUS
<1>1. \A p \in Procs, l \in PCs : GoTo(p, l) => pc' \in [Procs -> PCs]
  BY DEF GoTo, TypeOK
<1>2. /\ {"idle", "ask", "enqueue", "lock", "over", "wipe", "fetch", "write", "unlock"} \subseteq PCs
      /\ Requests \subseteq Clients /\ Workers \subseteq Clients /\ Clients \subseteq Procs
      /\ Workers \subseteq Rebuilders
  BY DEF PCs, Rebuilding, Clients, Procs, Rebuilders
<1>3. ASSUME Changed PROVE db' \in Content /\ changes' \in 0 .. MaxChanges /\ unasked' \subseteq Items
  <2>1. PICK i \in Items, v \in Versions : db' = [db EXCEPT ![i] = v] /\ unasked' = unasked \cup {i}
    BY <1>3 DEF Changed
  <2>2. db' \in Content
    BY <2>1 DEF Content, TypeOK
  <2>3. changes' \in 0 .. MaxChanges
    BY <1>3, GraphConstants DEF Changed, TypeOK
  <2>4. unasked' \subseteq Items
    BY <2>1 DEF TypeOK
  <2>5. QED
    BY <2>2, <2>3, <2>4
<1>4. ASSUME NEW q \in Requests, Change(q) PROVE TypeOK'
  <2>1. pc' \in [Procs -> PCs]
    BY <1>1, <1>2, <1>4 DEF Change
  <2>2. db' \in Content /\ changes' \in 0 .. MaxChanges /\ unasked' \subseteq Items
    BY <1>3, <1>4 DEF Change
  <2>3. QED
    BY <1>4, <2>1, <2>2 DEF Change, TypeOK
<1>5. ASSUME ChangeSilently PROVE TypeOK'
  BY <1>3, <1>5 DEF ChangeSilently, TypeOK
<1>6. ASSUME NEW q \in Requests, Request(q) \/ AskFails(q) PROVE TypeOK'
  <2>1. pc' \in [Procs -> PCs]
    BY <1>1, <1>2, <1>6 DEF Request, Ask, AskFails, EnqueueRequest
  <2>5. CASE AskFails(q)
    BY <2>1, <2>5 DEF AskFails, TypeOK
  <2>2. CASE Ask(q)
    BY <1>2, <2>1, <2>2 DEF Ask, TypeOK
  <2>3. CASE EnqueueRequest(q)
    <3>1. queued' \subseteq Windows
      BY <1>2, <2>3, EnqueuedType DEF EnqueueRequest, IdInv
    <3>2. QED
      BY <2>1, <2>3, <3>1 DEF EnqueueRequest, TypeOK
  <2>4. QED
    BY <1>6, <2>2, <2>3, <2>5 DEF Request
<1>7. ASSUME NEW w \in Workers, Start(w) PROVE TypeOK'
  <2>1. pc' \in [Procs -> PCs]
    BY <1>1, <1>2, <1>7 DEF Start
  <2>2. QED
    BY <1>7, <2>1 DEF Start, TypeOK
<1>8. ASSUME NEW w \in Workers, Work(w) PROVE TypeOK'
  <2>1. CASE TakeLock(w)
    <3>1. pc' \in [Procs -> PCs]
      BY <1>1, <1>2, <2>1 DEF TakeLock
    <3>2. QED
      BY <2>1, <3>1 DEF TakeLock, TypeOK
  <2>2. CASE LockTaken(w)
    <3>1. pc' \in [Procs -> PCs]
      BY <1>1, <1>2, <2>2 DEF LockTaken
    <3>2. QED
      BY <1>2, <2>2, <3>1 DEF LockTaken, TypeOK
  <2>3. CASE EnqueueAgain(w)
    <3>1. pc' \in [Procs -> PCs]
      BY <1>1, <1>2, <2>3 DEF EnqueueAgain
    <3>2. queued' \subseteq Windows
      BY <1>2, <2>3, EnqueuedType DEF EnqueueAgain, IdInv
    <3>3. QED
      BY <2>3, <3>1, <3>2 DEF EnqueueAgain, TypeOK
  <2>4. CASE Wipe(w)
    <3>1. pc' \in [Procs -> PCs]
      BY <1>1, <1>2, <2>4 DEF Wipe
    <3>2. Empty \in Content /\ 1 \in Steps
      BY GraphConstants DEF Empty, Content, Steps
    <3>3. QED
      BY <1>2, <2>4, <3>1, <3>2 DEF Wipe, TypeOK
  <2>5. CASE Fetch(w)
    <3>1. pc' \in [Procs -> PCs]
      BY <1>1, <1>2, <2>5 DEF Fetch
    <3>2. QED
      BY <1>2, <2>5, <3>1 DEF Fetch, TypeOK
  <2>6. CASE Write(w)
    <3>1. pc' \in [Procs -> PCs]
      BY <1>1, <1>2, <2>6 DEF Write
    <3>2. Merged(step[w], rows[w]) \in Content
      BY <1>2, MergedType DEF TypeOK
    <3>3. step' \in [Rebuilders -> Steps]
      <4>1. step[w] \in 1 .. Projections
        BY <1>2 DEF TypeOK, Steps
      <4>2. step[w] < Projections => step[w] + 1 \in Steps
        BY <4>1, GraphConstants DEF Steps
      <4>3. QED
        BY <2>6, <4>2 DEF Write, TypeOK
    <3>4. QED
      BY <2>6, <3>1, <3>2, <3>3 DEF Write, TypeOK
  <2>7. CASE Unlock(w)
    <3>1. pc' \in [Procs -> PCs]
      BY <1>1, <1>2, <2>7 DEF Unlock
    <3>2. QED
      BY <2>7, <3>1 DEF Unlock, TypeOK
  <2>8. CASE Over(w)
    <3>1. pc' \in [Procs -> PCs]
      BY <1>1, <1>2, <2>8 DEF Over
    <3>2. QED
      BY <2>8, <3>1 DEF Over, TypeOK
  <2>9. QED
    BY <1>8, <2>1, <2>2, <2>3, <2>4, <2>5, <2>6, <2>7, <2>8 DEF Work, Rebuild
<1>9. ASSUME NEW w \in Workers, LoseWorker(w) PROVE TypeOK'
  <2>1. pc' \in [Procs -> PCs]
    BY <1>1, <1>2, <1>9 DEF LoseWorker
  <2>2. faults' \in 0 .. MaxFaults
    BY <1>9, GraphConstants DEF LoseWorker, TypeOK
  <2>3. queued' \subseteq Windows
    BY <1>9 DEF LoseWorker, TypeOK, IdInv
  <2>4. QED
    BY <1>9, <2>1, <2>2, <2>3 DEF LoseWorker, TypeOK
<1>10. ASSUME NEW w \in Workers, JobFails(w) \/ UnlockFails(w) PROVE TypeOK'
  <2>1. pc' \in [Procs -> PCs]
    BY <1>1, <1>2, <1>10 DEF JobFails, UnlockFails
  <2>2. faults' \in 0 .. MaxFaults
    BY <1>10, GraphConstants DEF JobFails, UnlockFails, TypeOK
  <2>3. unasked' \subseteq Items
    BY <1>10 DEF JobFails, UnlockFails, TypeOK
  <2>4. QED
    BY <1>10, <2>1, <2>2, <2>3 DEF JobFails, UnlockFails, TypeOK
<1>11. CASE LockExpires
  BY <1>11 DEF LockExpires, TypeOK
<1>12. CASE NextWindow
  BY <1>12 DEF NextWindow, TypeOK
<1>13. CASE UNCHANGED vars
  BY <1>13 DEF vars, TypeOK
<1>14. QED
  BY <1>4, <1>5, <1>6, <1>7, <1>8, <1>9, <1>10, <1>11, <1>12, <1>13 DEF Next

-----------------------------------------------------------------------------
(* Who is inside rebuild, and whose ids are about.                         *)

\* Whoever moves is the only one that moves.
LEMMA Moved ==
    ASSUME TypeOK, NEW p \in Procs, NEW l \in PCs, GoTo(p, l)
    PROVE  pc'[p] = l /\ \A o \in Procs \ {p} : pc'[o] = pc[o]
BY DEF TypeOK, GoTo

\* Names of places and kinds of processes, once.
LEMMA Names ==
    /\ {"idle", "ask", "enqueue", "lock", "over", "wipe", "fetch", "write", "unlock"} \subseteq PCs
    /\ Requests \subseteq Clients /\ Workers \subseteq Clients /\ Clients \subseteq Procs
    /\ Workers \subseteq Rebuilders /\ Requests \cap Workers = {}
    /\ Clients = Requests \cup Workers
BY GraphConstants DEF PCs, Rebuilding, Clients, Procs, Rebuilders

\* SET NX lets one in, only its finally opens the lock, and the lock outlives any rebuild.
LEMMA NextLockInv == TypeOK /\ LockInv /\ [Next]_vars => LockInv'
<1> SUFFICES ASSUME TypeOK, LockInv, [Next]_vars PROVE LockInv'
  OBVIOUS
<1> USE Names DEF LockInv, RebuildsNeverInterleave, InRebuild, Rebuilding
<1>1. ASSUME NEW q \in Requests, Change(q) \/ Request(q) \/ AskFails(q) PROVE LockInv'
  <2>1. \A w \in Workers : pc'[w] = pc[w]
    BY <1>1, Moved DEF Change, Request, Ask, AskFails, EnqueueRequest
  <2>2. locked' = locked
    BY <1>1 DEF Change, Request, Ask, AskFails, EnqueueRequest
  <2>3. QED
    BY <2>1, <2>2
<1>2. ASSUME NEW w \in Workers, Start(w) \/ LockTaken(w) \/ EnqueueAgain(w) \/ Over(w) PROVE LockInv'
  <2>1. pc'[w] \in {"lock", "enqueue", "over", "idle"} /\ \A v \in Workers \ {w} : pc'[v] = pc[v]
    BY <1>2, Moved DEF Start, LockTaken, EnqueueAgain, Over
  <2>2. locked' = locked
    BY <1>2 DEF Start, LockTaken, EnqueueAgain, Over
  <2>3. QED
    BY <2>1, <2>2
<1>3. ASSUME NEW w \in Workers, TakeLock(w) PROVE LockInv'
  <2>1. \A v \in Workers \ {w} : pc'[v] = pc[v]
    BY <1>3, Moved DEF TakeLock
  <2>2. ~locked /\ locked'
    BY <1>3 DEF TakeLock
  <2>3. QED
    BY <2>1, <2>2
<1>4. ASSUME NEW w \in Workers, Rebuild(w) PROVE LockInv'
  <2>1. InRebuild(w) /\ \A v \in Workers \ {w} : pc'[v] = pc[v]
    BY <1>4, Moved DEF Rebuild, Wipe, Fetch, Write
  <2>2. locked' = locked
    BY <1>4 DEF Rebuild, Wipe, Fetch, Write
  <2>3. QED
    BY <2>1, <2>2
<1>5. ASSUME NEW w \in Workers, Unlock(w) PROVE LockInv'
  <2>1. pc[w] = "unlock" /\ pc'[w] = "over" /\ \A v \in Workers \ {w} : pc'[v] = pc[v]
    BY <1>5, Moved DEF Unlock
  <2>2. QED
    BY <2>1
<1>6. ASSUME NEW w \in Workers, LoseWorker(w) PROVE LockInv'
  <2>1. pc'[w] = "idle" /\ \A v \in Workers \ {w} : pc'[v] = pc[v]
    BY <1>6, Moved DEF LoseWorker
  <2>2. locked' = locked
    BY <1>6 DEF LoseWorker
  <2>3. QED
    BY <2>1, <2>2
<1>7. ASSUME NEW w \in Workers, JobFails(w) \/ UnlockFails(w) PROVE LockInv'
  <2>1. /\ pc'[w] \in {"unlock", "over"} /\ \A v \in Workers \ {w} : pc'[v] = pc[v]
        /\ pc'[w] = "unlock" => InRebuild(w)
    BY <1>7, Moved DEF JobFails, UnlockFails
  <2>2. locked' = locked
    BY <1>7 DEF JobFails, UnlockFails
  <2>3. QED
    BY <2>1, <2>2
<1>8. CASE LockExpires
  BY <1>8 DEF LockExpires
<1>9. CASE NextWindow \/ ChangeSilently
  BY <1>9 DEF NextWindow, ChangeSilently
<1>10. CASE UNCHANGED vars
  BY <1>10 DEF vars
<1>11. QED
  BY <1>1, <1>2, <1>3, <1>4, <1>5, <1>6, <1>8, <1>9, <1>10, <1>7 DEF Next, Work

\* A due job is not of the present window, and the next window's name is nobody's.
LEMMA NextIdInv == TypeOK /\ IdInv /\ [Next]_vars => IdInv'
<1> SUFFICES ASSUME TypeOK, IdInv, [Next]_vars PROVE IdInv'
  OBVIOUS
<1> USE Names DEF IdInv
<1>1. ASSUME NEW q \in Requests, Change(q) \/ Request(q) \/ AskFails(q) PROVE IdInv'
  <2>1. \A w \in Workers : pc'[w] = pc[w] /\ window'[w] = window[w]
    BY <1>1, Moved DEF Change, Request, Ask, AskFails, EnqueueRequest, TypeOK
  <2>2. job' = job /\ now' = now
    BY <1>1 DEF Change, Request, Ask, AskFails, EnqueueRequest
  <2>3. \A r \in Requests \ {q} : pc'[r] = pc[r] /\ window'[r] = window[r]
    BY <1>1, Moved DEF Change, Request, Ask, AskFails, EnqueueRequest, TypeOK
  <2>4. pc'[q] = "enqueue" => window'[q] = now
    BY <1>1, Moved DEF Change, Request, Ask, AskFails, EnqueueRequest, TypeOK
  <2>5. QED
    BY <2>1, <2>2, <2>3, <2>4 DEF TypeOK
<1>2. ASSUME NEW w \in Workers, Start(w) PROVE IdInv'
  <2>1. pc'[w] = "lock" /\ \A p \in Procs \ {w} : pc'[p] = pc[p]
    BY <1>2, Moved DEF Start
  <2>2. now' = now /\ window' = window
    BY <1>2 DEF Start
  <2>3. job'[w] \in Windows \ {now} /\ \A v \in Workers \ {w} : job'[v] = job[v]
    BY <1>2 DEF Start, TypeOK
  <2>4. QED
    BY <2>1, <2>2, <2>3
<1>3. ASSUME NEW w \in Workers, LockTaken(w) \/ EnqueueAgain(w) PROVE IdInv'
  <2>1. pc[w] # "idle" /\ \A p \in Procs \ {w} : pc'[p] = pc[p]
    BY <1>3, Moved DEF LockTaken, EnqueueAgain
  <2>2. now' = now /\ job' = job
    BY <1>3 DEF LockTaken, EnqueueAgain
  <2>3. \A c \in Clients \ {w} : window'[c] = window[c]
    BY <1>3 DEF LockTaken, EnqueueAgain, TypeOK
  <2>4. pc'[w] = "enqueue" => window'[w] = now
    BY <1>3, Moved DEF LockTaken, EnqueueAgain, TypeOK
  <2>5. QED
    BY <2>1, <2>2, <2>3, <2>4 DEF TypeOK
<1>4. ASSUME NEW w \in Workers, TakeLock(w) \/ Rebuild(w) \/ Unlock(w) \/ JobFails(w) \/ UnlockFails(w)
      PROVE  IdInv'
  <2>1. /\ pc[w] # "idle" /\ pc'[w] # "enqueue"
        /\ \A p \in Procs \ {w} : pc'[p] = pc[p]
    BY <1>4, Moved DEF TakeLock, Rebuild, Wipe, Fetch, Write, Unlock, JobFails, UnlockFails
  <2>2. now' = now /\ job' = job /\ window' = window
    BY <1>4 DEF TakeLock, Rebuild, Wipe, Fetch, Write, Unlock, JobFails, UnlockFails
  <2>3. QED
    BY <2>1, <2>2
<1>5. ASSUME NEW w \in Workers, Over(w) \/ LoseWorker(w) PROVE IdInv'
  <2>1. pc'[w] = "idle" /\ \A p \in Procs \ {w} : pc'[p] = pc[p]
    BY <1>5, Moved DEF Over, LoseWorker
  <2>2. now' = now /\ job'[w] = None /\ \A v \in Workers \ {w} : job'[v] = job[v]
    BY <1>5 DEF Over, LoseWorker, TypeOK
  <2>3. \A c \in Clients \ {w} : window'[c] = window[c]
    BY <1>5 DEF Over, LoseWorker, TypeOK
  <2>4. None # now
    BY GraphConstants DEF TypeOK
  <2>5. QED
    BY <2>1, <2>2, <2>3, <2>4
<1>6. CASE LockExpires \/ ChangeSilently
  BY <1>6 DEF LockExpires, ChangeSilently
<1>7. CASE NextWindow
  <2>1. \A w \in Workers : job[w] # now'
    BY <1>7, GraphConstants DEF NextWindow, RunningIds
  <2>2. QED
    BY <1>7, <2>1 DEF NextWindow
<1>8. CASE UNCHANGED vars
  BY <1>8 DEF vars
<1>9. QED
  BY <1>1, <1>2, <1>3, <1>4, <1>5, <1>6, <1>7, <1>8 DEF Next, Work

-----------------------------------------------------------------------------
(* What the graph owes.                                                    *)

\* As long as no rebuild has yet to read, one that has written its last projection has
\* written everything asked for: a MERGE into an empty projection, of rows that are still what Postgres
\* says and whose ends the first projection wrote.
LEMMA WriteCatchesUp ==
    ASSUME TypeOK, NEW w \in Workers, Write(w), CaughtUp(w)
    PROVE  CaughtUp(w)'
<1> USE Names
<1>1. step[w] \in 1 .. Projections
  BY DEF TypeOK, Steps
<1>2. \A i \in Items \ unasked, k \in Steps : graph[k][i] = IF k < step[w] THEN db[i] ELSE Absent
  BY DEF Write, CaughtUp
<1>3. \A i \in Items \ unasked : Merged(step[w], rows[w])[i] = db[i]
  <2> SUFFICES ASSUME NEW i \in Items \ unasked PROVE Merged(step[w], rows[w])[i] = db[i]
    OBVIOUS
  <2>1. graph[step[w]][i] = Absent
    BY <1>1, <1>2 DEF Steps
  <2>2. step[w] = 1 \/ graph[1][i] = db[i]
    BY <1>1, <1>2, GraphConstants DEF Steps
  <2>3. rows[w][i] = db[i]
    BY DEF Write, CaughtUp
  <2>4. QED
    BY <2>1, <2>2, <2>3 DEF Merged
<1>4. \A i \in Items \ unasked, k \in Steps :
         graph'[k][i] = IF k < step[w] + 1 THEN db[i] ELSE Absent
  <2>1. \A k \in Steps : graph'[k] = IF k = step[w] THEN Merged(step[w], rows[w]) ELSE graph[k]
    BY <1>1 DEF Write, TypeOK, Steps
  <2>2. QED
    BY <1>1, <1>2, <1>3, <2>1 DEF Steps
<1>5. db' = db /\ unasked' = unasked
  BY DEF Write
<1>6. CASE step[w] < Projections
  <2>1. pc'[w] = "fetch" /\ step'[w] = step[w] + 1
    BY <1>6, Moved DEF Write, TypeOK
  <2>2. QED
    BY <1>4, <1>5, <2>1 DEF CaughtUp
<1>7. CASE ~(step[w] < Projections)
  <2>1. pc'[w] = "unlock"
    BY <1>7, Moved DEF Write
  <2>2. \A k \in Steps : k < step[w] + 1
    BY <1>1, <1>7, GraphConstants DEF Steps
  <2>3. InSync'
    BY <1>4, <1>5, <2>2 DEF InSync
  <2>4. QED
    BY <2>1, <2>3 DEF CaughtUp
<1>8. QED
  BY <1>6, <1>7

\* A step that changes nothing in Postgres but what it leaves unasked, leaves the graph and
\* everybody inside rebuild alone, and does not make a coming rebuild go away, keeps Main.
LEMMA MainFrame ==
    ASSUME Main, Coming => Coming',
           unasked \subseteq unasked', \A i \in Items \ unasked' : db'[i] = db[i],
           graph' = graph, step' = step, rows' = rows,
           \A w \in Workers : pc'[w] = pc[w] \/ (~InRebuild(w) /\ ~InRebuild(w)')
    PROVE  Main'
<1> SUFFICES ASSUME ~Coming'
             PROVE  /\ \A w \in Workers : InRebuild(w)' => CaughtUp(w)'
                    /\ (\A w \in Workers : ~InRebuild(w)') => InSync'
  BY DEF Main
<1>1. \A w \in Workers : InRebuild(w)' => pc'[w] = pc[w]
  OBVIOUS
<1>2. \A w \in Workers : InRebuild(w)' <=> InRebuild(w)
  BY DEF InRebuild
<1>3. \A w \in Workers : InRebuild(w)' => CaughtUp(w)'
  <2> SUFFICES ASSUME NEW w \in Workers, InRebuild(w)' PROVE CaughtUp(w)'
    OBVIOUS
  <2>1. CaughtUp(w) /\ pc'[w] = pc[w]
    BY <1>1, <1>2 DEF Main
  <2>2. InSync => InSync'
    BY DEF InSync
  <2>3. QED
    BY <2>1, <2>2 DEF CaughtUp
<1>4. QED
  BY <1>2, <1>3 DEF Main, InSync

\* An id that joins the queue, or that a job not yet read stands for, is a coming rebuild; the
\* one arq drops was not counted.
LEMMA EnqueueKeepsComing ==
    ASSUME TypeOK, NEW c \in Clients, pc[c] = "enqueue", job' = job,
           queued' = Enqueued(window[c]), window' = [window EXCEPT ![c] = None],
           NEW l \in {"idle", "over"}, GoTo(c, l), Coming
    PROVE  Coming'
<1> USE Names
<1>1. \A o \in Procs \ {c} : pc'[o] = pc[o]
  BY Moved
<1>2. \A o \in Clients \ {c} : window'[o] = window[o]
  BY DEF TypeOK
<1>3. RunningIds' = RunningIds
  BY DEF RunningIds
<1>4. CASE queued # {} \/ window[c] \notin RunningIds
  <2>1. queued' # {}
    BY <1>4 DEF Enqueued
  <2>2. QED
    BY <2>1 DEF Coming
<1>5. CASE window[c] \in RunningIds /\ queued = {}
  BY <1>1, <1>2, <1>3, <1>5 DEF Coming
<1>6. QED
  BY <1>4, <1>5

\* What changes is unasked, and nothing is forgotten that was.
LEMMA ChangedIsUnasked ==
    ASSUME TypeOK, Changed
    PROVE  unasked \subseteq unasked' /\ \A i \in Items \ unasked' : db'[i] = db[i]
<1>1. PICK i \in Items, v \in Versions : db' = [db EXCEPT ![i] = v] /\ unasked' = unasked \cup {i}
  BY DEF Changed
<1>2. QED
  BY <1>1 DEF TypeOK, Content

\* No step leaves the graph behind, of what was asked for, without a rebuild on its way.
LEMMA NextMain == IInv /\ [Next]_vars => Main'
<1> SUFFICES ASSUME TypeOK, LockInv, IdInv, Main, [Next]_vars PROVE Main'
  BY DEF IInv
<1> USE Names
<1>1. ASSUME NEW q \in Requests, Change(q) PROVE Main'
  <2>1. pc[q] = "idle" /\ pc'[q] = "ask" /\ \A p \in Procs \ {q} : pc'[p] = pc[p]
    BY <1>1, Moved DEF Change
  <2>2. job' = job /\ window' = window /\ queued' = queued
    BY <1>1 DEF Change
  <2>3. Coming => Coming'
    BY <2>1, <2>2 DEF Coming, RunningIds
  <2>4. unasked \subseteq unasked' /\ \A i \in Items \ unasked' : db'[i] = db[i]
    BY <1>1, ChangedIsUnasked DEF Change
  <2>5. \A w \in Workers : pc'[w] = pc[w]
    BY <2>1
  <2>6. QED
    BY <1>1, <2>3, <2>4, <2>5, MainFrame DEF Change
<1>2. ASSUME ChangeSilently PROVE Main'
  <2>1. pc' = pc /\ job' = job /\ window' = window /\ queued' = queued
    BY <1>2 DEF ChangeSilently
  <2>2. Coming => Coming'
    BY <2>1 DEF Coming, RunningIds
  <2>3. unasked \subseteq unasked' /\ \A i \in Items \ unasked' : db'[i] = db[i]
    BY <1>2, ChangedIsUnasked DEF ChangeSilently
  <2>4. QED
    BY <1>2, <2>1, <2>2, <2>3, MainFrame DEF ChangeSilently
<1>3. ASSUME NEW q \in Requests, AskFails(q) PROVE Main'
  <2>1. pc[q] = "ask" /\ pc'[q] = "idle" /\ \A p \in Procs \ {q} : pc'[p] = pc[p]
    BY <1>3, Moved DEF AskFails
  <2>2. job' = job /\ window' = window /\ queued' = queued
    BY <1>3 DEF AskFails
  <2>3. Coming => Coming'
    BY <2>1, <2>2 DEF Coming, RunningIds
  <2>4. \A w \in Workers : pc'[w] = pc[w]
    BY <2>1
  <2>5. QED
    BY <1>3, <2>3, <2>4, MainFrame DEF AskFails
<1>4. ASSUME NEW w \in Workers, JobFails(w) PROVE Main'
  <2>1. CASE queued = {}
    <3>1. Items \ unasked' = {}
      BY <1>4, <2>1 DEF JobFails
    <3>2. InSync'
      BY <3>1 DEF InSync
    <3>3. \A v \in Workers : CaughtUp(v)'
      BY <3>1, <3>2 DEF CaughtUp
    <3>4. QED
      BY <3>2, <3>3 DEF Main
  <2>2. CASE queued # {}
    BY <1>4, <2>2 DEF JobFails, Main, Coming
  <2>3. QED
    BY <2>1, <2>2
<1>5. ASSUME NEW c \in Clients, Ask(c) \/ (c \in Workers /\ LockTaken(c)) PROVE Main'
  <2>1. pc'[c] = "enqueue" /\ window'[c] = now /\ job' = job
    BY <1>5, Moved DEF Ask, LockTaken, TypeOK
  <2>2. now \notin RunningIds'
    BY <2>1, GraphConstants DEF RunningIds, IdInv, TypeOK
  <2>3. QED
    BY <2>1, <2>2 DEF Main, Coming
<1>6. ASSUME NEW q \in Requests, EnqueueRequest(q) PROVE Main'
  <2>1. Coming => Coming'
    BY <1>6, EnqueueKeepsComing DEF EnqueueRequest
  <2>2. \A w \in Workers : pc'[w] = pc[w]
    BY <1>6, Moved DEF EnqueueRequest
  <2>3. QED
    BY <1>6, <2>1, <2>2, MainFrame DEF EnqueueRequest
<1>7. ASSUME NEW w \in Workers, EnqueueAgain(w) PROVE Main'
  <2>1. Coming => Coming'
    BY <1>7, EnqueueKeepsComing DEF EnqueueAgain
  <2>2. \A v \in Workers : pc'[v] = pc[v] \/ (~InRebuild(v) /\ ~InRebuild(v)')
    BY <1>7, Moved DEF EnqueueAgain, InRebuild, Rebuilding
  <2>3. QED
    BY <1>7, <2>1, <2>2, MainFrame DEF EnqueueAgain
<1>8. ASSUME NEW w \in Workers, Start(w) \/ TakeLock(w) PROVE Main'
  <2>1. pc'[w] \in {"lock", "wipe"}
    BY <1>8, Moved DEF Start, TakeLock
  <2>2. QED
    BY <2>1 DEF Main, Coming
<1>9. ASSUME NEW w \in Workers, Rebuild(w) PROVE Main'
  <2> SUFFICES ASSUME ~Coming' PROVE CaughtUp(w)' /\ \A v \in Workers : InRebuild(v)' => v = w
    <3>1. InRebuild(w)'
      BY <1>9, Moved DEF Rebuild, Wipe, Fetch, Write, InRebuild, Rebuilding
    <3>2. QED
      BY <3>1 DEF Main
  <2>1. \A v \in Workers : InRebuild(v)' => v = w
    <3>1. InRebuild(w) /\ \A v \in Workers \ {w} : pc'[v] = pc[v]
      BY <1>9, Moved DEF Rebuild, Wipe, Fetch, Write, InRebuild, Rebuilding
    <3>2. QED
      BY <3>1 DEF LockInv, RebuildsNeverInterleave, InRebuild
  <2>2. CASE Wipe(w)
    <3>1. pc'[w] = "fetch" /\ step'[w] = 1 /\ \A i \in Items, k \in Steps : graph'[k][i] = Absent
      BY <2>2, Moved DEF Wipe, TypeOK, Empty
    <3>2. QED
      BY <2>1, <3>1 DEF CaughtUp, Steps
  <2>3. CASE Fetch(w) \/ Write(w)
    <3>1. \A o \in Procs \ {w} : pc'[o] = pc[o]
      BY <2>3, Moved DEF Fetch, Write
    <3>2. pc[w] \in {"fetch", "write"}
      BY <2>3 DEF Fetch, Write
    <3>3. job' = job /\ window' = window /\ queued' = queued
      BY <2>3 DEF Fetch, Write
    <3>4. ~Coming
      BY <3>1, <3>2, <3>3 DEF Coming, RunningIds
    <3>5. CaughtUp(w)
      BY <3>2, <3>4 DEF Main, InRebuild, Rebuilding
    <3>6. CASE Fetch(w)
      <4>1. pc'[w] = "write" /\ rows'[w] = db /\ unasked' = unasked
        BY <3>6, Moved DEF Fetch, TypeOK
      <4>2. QED
        BY <2>1, <3>5, <3>6, <4>1 DEF CaughtUp, Fetch
    <3>7. CASE Write(w)
      BY <2>1, <3>5, <3>7, WriteCatchesUp
    <3>8. QED
      BY <2>3, <3>6, <3>7
  <2>4. QED
    BY <1>9, <2>2, <2>3 DEF Rebuild
<1>10. ASSUME NEW w \in Workers, Unlock(w) \/ UnlockFails(w) PROVE Main'
  <2>1. pc[w] = "unlock" /\ pc'[w] = "over" /\ \A o \in Procs \ {w} : pc'[o] = pc[o]
    BY <1>10, Moved DEF Unlock, UnlockFails
  <2>2. /\ job' = job /\ window' = window /\ queued' = queued
        /\ db' = db /\ graph' = graph /\ unasked' = unasked
    BY <1>10 DEF Unlock, UnlockFails
  <2>3. Coming => Coming'
    BY <2>1, <2>2 DEF Coming, RunningIds
  <2>4. \A v \in Workers : ~InRebuild(v)'
    BY <2>1 DEF LockInv, RebuildsNeverInterleave, InRebuild, Rebuilding
  <2>5. ~Coming => InSync'
    BY <2>1, <2>2 DEF Main, CaughtUp, InRebuild, Rebuilding, InSync
  <2>6. QED
    BY <2>3, <2>4, <2>5 DEF Main
<1>11. ASSUME NEW w \in Workers, Over(w) PROVE Main'
  <2>1. pc[w] = "over" /\ pc'[w] = "idle" /\ \A o \in Procs \ {w} : pc'[o] = pc[o]
    BY <1>11, Moved DEF Over
  <2>2. RunningIds' \subseteq RunningIds
    BY <1>11 DEF Over, RunningIds, TypeOK
  <2>3. Coming => Coming'
    BY <1>11, <2>1, <2>2 DEF Coming, Over
  <2>4. \A v \in Workers : pc'[v] = pc[v] \/ (~InRebuild(v) /\ ~InRebuild(v)')
    BY <2>1 DEF InRebuild, Rebuilding
  <2>5. QED
    BY <1>11, <2>3, <2>4, MainFrame DEF Over
<1>12. ASSUME NEW w \in Workers, LoseWorker(w) PROVE Main'
  <2>1. queued' # {}
    BY <1>12 DEF LoseWorker
  <2>2. QED
    BY <2>1 DEF Main, Coming
<1>13. CASE LockExpires \/ NextWindow \/ UNCHANGED vars
  <2>1. /\ pc' = pc /\ job' = job /\ window' = window /\ queued' = queued
        /\ db' = db /\ graph' = graph /\ step' = step /\ rows' = rows /\ unasked' = unasked
    BY <1>13 DEF LockExpires, NextWindow, vars
  <2>2. Coming => Coming'
    BY <2>1 DEF Coming, RunningIds
  <2>3. QED
    BY <2>1, <2>2, MainFrame
<1>14. QED
  BY <1>1, <1>5, <1>6, <1>7, <1>8, <1>9, <1>10, <1>11, <1>12, <1>13, <1>2, <1>3, <1>4
     DEF Next, Request, Work

-----------------------------------------------------------------------------
(* The theorems.                                                           *)

\* An empty graph of an empty Postgres is current.
LEMMA InitIInv == Init => IInv
<1> SUFFICES ASSUME Init PROVE IInv
  OBVIOUS
<1> USE Names DEF Init
<1>1. \A p \in Procs : pc[p] = "idle"
  OBVIOUS
<1>2. LockInv
  BY <1>1 DEF LockInv, RebuildsNeverInterleave, InRebuild, Rebuilding
<1>3. IdInv
  BY <1>1, GraphConstants DEF IdInv
<1>4. Main
  BY <1>1 DEF Main, InSync, InRebuild, Rebuilding
<1>5. QED
  BY <1>2, <1>3, <1>4, InitTypeOK DEF IInv

\* Every reachable state satisfies the inductive invariant.
LEMMA IInvInvariant == Spec => []IInv
<1>1. IInv /\ [Next]_vars => IInv'
  BY NextTypeOK, NextLockInv, NextIdInv, NextMain DEF IInv
<1>2. QED
  BY InitIInv, <1>1, PTL DEF Spec

\* What the queue, the lock and the rebuilds hold always has its type.
THEOREM GraphTypeCorrect == Spec => []TypeOK
<1>1. IInv => TypeOK
  BY DEF IInv
<1>2. QED
  BY <1>1, IInvInvariant, PTL

\* graph_sync_job's lock: two workers are never inside rebuild together, whichever of them is
\* lost and whenever the lock runs out.
THEOREM RebuildsAreExclusive == Spec => []RebuildsNeverInterleave
<1>1. IInv => RebuildsNeverInterleave
  BY DEF IInv, LockInv
<1>2. QED
  BY <1>1, IInvInvariant, PTL

\* schedule's promise, "a write mid-window is never missed": when nothing is on its way the
\* graph shows what Postgres said when the last request got through, for any number of
\* writers who ask, who do not or who fail to, of job slots, lost workers and failed jobs.
THEOREM GraphCurrentWhenQuiet == Spec => []CurrentWhenQuiet
<1>1. IInv => CurrentWhenQuiet
  <2> SUFFICES ASSUME Main, Quiet PROVE InSync
    BY DEF IInv, CurrentWhenQuiet
  <2>1. \A w \in Workers : pc[w] = "idle"
    BY Names DEF Quiet
  <2>2. ~Coming
    BY Names DEF Quiet, Coming
  <2>3. QED
    BY <2>1, <2>2 DEF Main, InRebuild, Rebuilding
<1>2. QED
  BY <1>1, IInvInvariant, PTL
=============================================================================
