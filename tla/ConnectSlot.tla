---------------------------- MODULE ConnectSlot ----------------------------
(***************************************************************************)
(* The connect slot of app/xray/operations.py as it is implemented: the    *)
(* set _connecting_nodes, the start times _connecting_started_at and the   *)
(* owner tokens _connecting_generation, all under _connecting_nodes_lock   *)
(* (each action is one critical section).  A connect thread keeps the      *)
(* token it was given and presents it when it releases the slot.           *)
(*                                                                         *)
(* Start times are abstracted to the only thing the code asks of them:     *)
(* whether the slot is older than XRAY_NODE_CONNECT_STALE_TIMEOUT.         *)
(***************************************************************************)
EXTENDS Integers

CONSTANTS
    Nodes,     \* node ids
    Threads,   \* jobs of the xray thread pool that can be under way at once
    None,      \* "no node"
    MaxGen     \* bound on the generation counters, which the code leaves unbounded

ASSUME SlotAssumption ==
    /\ None \notin Nodes
    /\ None \notin Threads
    /\ MaxGen \in Nat

VARIABLES
    connecting,   \* _connecting_nodes
    stale,        \* nodes of _connecting_started_at older than the timeout
    generation,   \* _connecting_generation (a missing key is 0)
    work,         \* work[t]: node_id of the _connect_node_impl call t executes, or None
    slot_gen      \* slot_gen[t]: the token that call holds

vars == <<connecting, stale, generation, work, slot_gen>>

\* The type invariant; a generation never runs below zero.
TypeOK ==
    /\ connecting \in SUBSET Nodes
    /\ stale \in SUBSET Nodes
    /\ generation \in [Nodes -> Nat]
    /\ work \in [Threads -> Nodes \cup {None}]
    /\ slot_gen \in [Threads -> Nat]

Init ==
    /\ connecting = {}
    /\ stale = {}
    /\ generation = [n \in Nodes |-> 0]
    /\ work = [t \in Threads |-> None]
    /\ slot_gen = [t \in Threads |-> 0]

-----------------------------------------------------------------------------
\* Variants of the operations below, each with a plausible slip in it.

\* the new generation is handed out but not stored
AcquireWithoutStore(t, n) ==
    /\ work[t] = None
    /\ n \in connecting => n \in stale
    /\ connecting' = connecting \cup {n}
    /\ stale' = stale \ {n}
    /\ work' = [work EXCEPT ![t] = n]
    /\ slot_gen' = [slot_gen EXCEPT ![t] = generation[n] + 1]
    /\ UNCHANGED generation

\* the finally block frees the slot without looking at the token
ReleaseAlways(t) ==
    /\ work[t] # None
    /\ connecting' = connecting \ {work[t]}
    /\ stale' = stale \ {work[t]}
    /\ work' = [work EXCEPT ![t] = None]
    /\ slot_gen' = [slot_gen EXCEPT ![t] = 0]
    /\ UNCHANGED generation

\* the generation runs backwards
InvalidateDecrements(n) ==
    /\ generation' = [generation EXCEPT ![n] = @ - 1]
    /\ connecting' = connecting \ {n}
    /\ stale' = stale \ {n}
    /\ UNCHANGED <<work, slot_gen>>

-----------------------------------------------------------------------------
\* _acquire_connect_slot: refused while the slot is held and young; a stale
\* slot is reclaimed, which bumps the generation once more.
AcquireConnectSlot(t, n) ==
    LET reclaim == n \in connecting
        gen     == generation[n] + IF reclaim THEN 2 ELSE 1
    IN  /\ work[t] = None
        /\ reclaim => n \in stale
        /\ gen <= MaxGen
        /\ generation' = [generation EXCEPT ![n] = gen]
        /\ connecting' = connecting \cup {n}
        /\ stale' = stale \ {n}
        /\ work' = [work EXCEPT ![t] = n]
        /\ slot_gen' = [slot_gen EXCEPT ![t] = gen]

\* _release_connect_slot, in the finally of _connect_node_impl.
ReleaseConnectSlot(t) ==
    LET n == work[t] IN
    /\ n # None
    /\ IF generation[n] # slot_gen[t]
         THEN UNCHANGED <<connecting, stale>>
         ELSE /\ connecting' = connecting \ {n}
              /\ stale' = stale \ {n}
    /\ work' = [work EXCEPT ![t] = None]
    /\ slot_gen' = [slot_gen EXCEPT ![t] = 0]
    /\ UNCHANGED generation

\* invalidate_connect_slot: Edit, Delete, disable, manual Reconnect.
InvalidateConnectSlot(n) ==
    /\ generation[n] + 1 <= MaxGen
    /\ generation' = [generation EXCEPT ![n] = @ + 1]
    /\ connecting' = connecting \ {n}
    /\ stale' = stale \ {n}
    /\ UNCHANGED <<work, slot_gen>>

\* Time passes until is_connect_stale(n) holds.
SlotAges(n) ==
    /\ n \in connecting \ stale
    /\ stale' = stale \cup {n}
    /\ UNCHANGED <<connecting, generation, work, slot_gen>>

Next ==
    \/ \E t \in Threads, n \in Nodes : AcquireConnectSlot(t, n)
    \/ \E t \in Threads : ReleaseConnectSlot(t)
    \/ \E n \in Nodes : InvalidateConnectSlot(n)
    \/ \E n \in Nodes : SlotAges(n)

Spec == Init /\ [][Next]_vars

-----------------------------------------------------------------------------
\* Thread t holds the current token of node n.
Owns(t, n) == work[t] = n /\ slot_gen[t] = generation[n]

\* A held slot has an owner whose release will free it, and only one: the
\* slot can neither leak (nobody would ever clear it, and the node could only
\* be reconnected after the stale timeout) nor be freed under a newer owner.
SlotHasOneOwner ==
    \A n \in Nodes :
        /\ n \in connecting <=> \E t \in Threads : Owns(t, n)
        /\ \A t, u \in Threads : Owns(t, n) /\ Owns(u, n) => t = u

\* No two calls under way for the same node, the dispossessed ones included,
\* ever hold the same token, and no token comes from the future.
TokensDistinct ==
    \A t, u \in Threads :
        work[t] # None =>
            /\ slot_gen[t] <= generation[work[t]]
            /\ work[t] = work[u] /\ slot_gen[t] = slot_gen[u] => t = u

\* The abstract lock this state stands for.
ownerOf ==
    [n \in Nodes |-> IF n \in connecting THEN CHOOSE t \in Threads : Owns(t, n) ELSE None]

Lock == INSTANCE SlotLock WITH owner <- ownerOf, expired <- stale

\* The slot with generation tokens implements the revocable lock: a thread
\* that lost the slot (Edit, Reconnect, stale reclaim) leaves the new owner's
\* slot alone when its finally block runs.
ImplementsLock == Lock!SlotSpec

=============================================================================
