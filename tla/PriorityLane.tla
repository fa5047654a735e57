---------------------------- MODULE PriorityLane ----------------------------
(***************************************************************************)
(* What the worker's model lane promises to the jobs that share a model:   *)
(* one owner at a time, and whoever is waiting interactively (a live       *)
(* microphone chunk, a voice query) goes before any batch stage.           *)
(* ModelLane.tla, the asyncio implementation, is shown to implement it.    *)
(***************************************************************************)
CONSTANTS Jobs,         \* everything that may ask for the lane
          Interactive,  \* the jobs somebody is waiting on
          NoOne         \* the owner of a free lane

VARIABLES owner, queue

vars == <<owner, queue>>

Init == owner = NoOne /\ queue = {}

\* Those of q entitled to go next.
Best(q) == IF q \cap Interactive = {} THEN q ELSE q \cap Interactive

\* A job that finds the lane free, and nobody queueing, simply has it.
Take(j) ==
    /\ owner = NoOne
    /\ queue = {}
    /\ owner' = j
    /\ UNCHANGED queue

\* A job that finds it taken queues.
Join(j) ==
    /\ owner # NoOne
    /\ j \notin queue \cup {owner}
    /\ queue' = queue \cup {j}
    /\ UNCHANGED owner

\* A job gives up waiting.
GiveUp(j) ==
    /\ j \in queue
    /\ queue' = queue \ {j}
    /\ UNCHANGED owner

\* The owner is finished and the lane passes straight to the best waiter.
Leave ==
    /\ owner # NoOne
    /\ \/ /\ queue = {}
          /\ owner' = NoOne
          /\ UNCHANGED queue
       \/ \E j \in Best(queue) :
             /\ owner' = j
             /\ queue' = queue \ {j}

\* The owner lets the best waiter through and queues for what is left of its turn.
StepAside ==
    /\ owner # NoOne
    /\ \E j \in Best(queue) :
          /\ owner' = j
          /\ queue' = (queue \ {j}) \cup {owner}

Next ==
    \/ \E j \in Jobs : Take(j) \/ Join(j) \/ GiveUp(j)
    \/ Leave
    \/ StepAside

Spec == Init /\ [][Next]_vars
=============================================================================
