----------------------------- MODULE AuditChain -----------------------------
(***************************************************************************)
(* The audit log: each row commits to the hash of the row before it.       *)
(* Every handler that changes something appends one, and so does the       *)
(* worker: reading the last hash and inserting the new row are two         *)
(* statements, with no transaction around them.                            *)
(***************************************************************************)
EXTENDS Naturals, Sequences

CONSTANTS
    Writers,    \* handlers and jobs that audit at once
    MaxRows     \* bound: rows

VARIABLES
    log,        \* audit_log in the order of id: the row_hash and prev_hash of each row
    writing,    \* the writers between the two statements
    prev        \* what each read as the last row_hash; 0 for none

vars == <<log, writing, prev>>

(* A row's hash is its number: no two rows hash alike.                     *)
LastHash == IF log = <<>> THEN 0 ELSE log[Len(log)].hash

Init == log = <<>> /\ writing = {} /\ prev = [w \in Writers |-> 0]

ReadLast(w) ==
    /\ w \notin writing /\ Len(log) < MaxRows
    /\ writing' = writing \cup {w} /\ prev' = [prev EXCEPT ![w] = LastHash]
    /\ UNCHANGED log

InsertRow(w) ==
    /\ w \in writing /\ writing' = writing \ {w}
    /\ log' = Append(log, [hash |-> Len(log) + 1, prev |-> prev[w]])
    /\ UNCHANGED prev

(* The process dies, or the insert fails: no row.                          *)
GivesUp(w) ==
    /\ w \in writing /\ writing' = writing \ {w}
    /\ UNCHANGED <<log, prev>>

Next == \E w \in Writers : ReadLast(w) \/ InsertRow(w) \/ GivesUp(w)

Spec == Init /\ [][Next]_vars

-----------------------------------------------------------------------------
(* Removing a row breaks the chain: each row but the newest is the one     *)
(* some later row commits to, so its absence shows.  audit.audit; README   *)
(* says that tampering breaks the chain.                                   *)
RemovalShows ==
    \A n \in DOMAIN log : n < Len(log) => \E m \in n + 1 .. Len(log) : log[m].prev = log[n].hash
=============================================================================
