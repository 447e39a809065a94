------------------------------ MODULE SlotLock ------------------------------
(***************************************************************************)
(* What the connect slot of app/xray/operations.py promises: per node a    *)
(* revocable lock.  At most one connect thread owns the slot of a node;    *)
(* Edit, Delete, disable and manual Reconnect revoke it; an owner older    *)
(* than XRAY_NODE_CONNECT_STALE_TIMEOUT may be dispossessed; and a thread  *)
(* that was dispossessed changes nothing when it finishes.                 *)
(*                                                                         *)
(* ConnectSlot, the slot as the code implements it with generation tokens, *)
(* is shown to implement this module; NodeConnect is built on top of it.   *)
(***************************************************************************)
CONSTANTS
    Nodes,     \* node ids
    Threads,   \* jobs of the xray thread pool that can be under way at once
    None       \* "no node" / "no thread"

ASSUME NoneAssumption == None \notin Nodes /\ None \notin Threads

VARIABLES
    owner,     \* owner[n]: the thread that owns the slot of n, or None
    expired,   \* nodes whose slot is older than the stale timeout
    work       \* work[t]: the node whose connect t is executing, or None

slotVars == <<owner, expired, work>>

SlotTypeOK ==
    /\ owner \in [Nodes -> Threads \cup {None}]
    /\ expired \in SUBSET Nodes
    /\ work \in [Threads -> Nodes \cup {None}]

SlotInit ==
    /\ owner = [n \in Nodes |-> None]
    /\ expired = {}
    /\ work = [t \in Threads |-> None]

\* The slot can be taken: it is free, or its owner is older than the timeout.
Available(n) == owner[n] = None \/ n \in expired

Take(t, n) ==
    /\ work[t] = None
    /\ Available(n)
    /\ owner' = [owner EXCEPT ![n] = t]
    /\ expired' = expired \ {n}
    /\ work' = [work EXCEPT ![t] = n]

\* The end of a connect frees the slot, unless the thread lost it meanwhile.
Drop(t) ==
    /\ work[t] # None
    /\ owner' = [owner EXCEPT ![work[t]] = IF @ = t THEN None ELSE @]
    /\ expired' = IF owner[work[t]] = t THEN expired \ {work[t]} ELSE expired
    /\ work' = [work EXCEPT ![t] = None]

Revoke(n) ==
    /\ owner' = [owner EXCEPT ![n] = None]
    /\ expired' = expired \ {n}
    /\ UNCHANGED work

Expire(n) ==
    /\ owner[n] # None
    /\ n \notin expired
    /\ expired' = expired \cup {n}
    /\ UNCHANGED <<owner, work>>

SlotNext ==
    \/ \E t \in Threads, n \in Nodes : Take(t, n)
    \/ \E t \in Threads : Drop(t)
    \/ \E n \in Nodes : Revoke(n) \/ Expire(n)

SlotSpec == SlotInit /\ [][SlotNext]_slotVars
=============================================================================
