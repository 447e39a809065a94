-------------------------- MODULE SharedStateProofs --------------------------
(***************************************************************************)
(* Proofs about what threads of the panel share: the connect slot of       *)
(* app/xray/operations.py, the cache of hosts that subscriptions read, the *)
(* two ends of a cascade, the documents of client configurations, the      *)
(* addresses of a user and the journal of them, for any number of threads, *)
(* nodes, inbounds, documents and days.                                    *)
(***************************************************************************)
EXTENDS ConnectSlot, HostCache, CascadeNodes, ClientConfigs, AddressJournal,
        SequenceTheorems, FiniteSetTheorems, TLAPS

(***************************************************************************)
(* The connect slot: one owner per slot, distinct tokens, and the          *)
(* implementation of the abstract lock.                                    *)
(***************************************************************************)

\* Only a held slot can be stale (_connecting_started_at has no other keys).
StaleIsHeld == stale \subseteq connecting

IInv == TypeOK /\ SlotHasOneOwner /\ TokensDistinct /\ StaleIsHeld

USE SlotAssumption

\* The invariant holds when the panel starts: nothing is connecting.
LEMMA InitIInv == Init => IInv
  BY DEF Init, IInv, TypeOK, SlotHasOneOwner, TokensDistinct, StaleIsHeld, Owns

\* _acquire_connect_slot hands out a token above all others of that node.
LEMMA AcquireIInv ==
  ASSUME NEW t \in Threads, NEW n \in Nodes, IInv, AcquireConnectSlot(t, n)
  PROVE  IInv'
<1>1. TypeOK'
  BY DEF IInv, TypeOK, AcquireConnectSlot
<1>2. \A u \in Threads : u # t /\ work[u] = n => slot_gen[u] < generation'[n]
  BY DEF IInv, TypeOK, TokensDistinct, AcquireConnectSlot
<1>3. TokensDistinct'
  BY <1>1, <1>2 DEF IInv, TypeOK, TokensDistinct, AcquireConnectSlot
<1>4. SlotHasOneOwner'
  <2> SUFFICES ASSUME NEW m \in Nodes
               PROVE  /\ m \in connecting' <=> \E u \in Threads : Owns(u, m)'
                      /\ \A u, v \in Threads : Owns(u, m)' /\ Owns(v, m)' => u = v
    BY DEF SlotHasOneOwner
  <2>1. CASE m = n
    BY <2>1, <1>1, <1>2 DEF IInv, TypeOK, AcquireConnectSlot, Owns
  <2>2. CASE m # n
    <3>1. \A u \in Threads : Owns(u, m)' <=> Owns(u, m)
      BY <2>2 DEF IInv, TypeOK, AcquireConnectSlot, Owns
    <3>2. m \in connecting' <=> m \in connecting
      BY <2>2 DEF AcquireConnectSlot
    <3> QED BY <3>1, <3>2 DEF IInv, SlotHasOneOwner
  <2> QED BY <2>1, <2>2
<1>5. StaleIsHeld'
  BY DEF IInv, StaleIsHeld, AcquireConnectSlot
<1> QED BY <1>1, <1>3, <1>4, <1>5 DEF IInv

\* _release_connect_slot frees the slot exactly when its caller owns it.
LEMMA ReleaseIInv ==
  ASSUME NEW t \in Threads, IInv, ReleaseConnectSlot(t)
  PROVE  IInv'
<1> DEFINE n == work[t]
<1>0. n \in Nodes
  BY DEF IInv, TypeOK, ReleaseConnectSlot
<1>1. TypeOK'
  BY DEF IInv, TypeOK, ReleaseConnectSlot
<1>2. TokensDistinct'
  BY DEF IInv, TypeOK, TokensDistinct, ReleaseConnectSlot
<1>3. SlotHasOneOwner'
  <2> SUFFICES ASSUME NEW m \in Nodes
               PROVE  /\ m \in connecting' <=> \E u \in Threads : Owns(u, m)'
                      /\ \A u, v \in Threads : Owns(u, m)' /\ Owns(v, m)' => u = v
    BY DEF SlotHasOneOwner
  <2>1. \A u \in Threads \ {t} : Owns(u, m)' <=> Owns(u, m)
    BY DEF IInv, TypeOK, ReleaseConnectSlot, Owns
  <2>2. ~Owns(t, m)'
    BY DEF IInv, TypeOK, ReleaseConnectSlot, Owns
  <2>3. CASE Owns(t, m)
    <3>1. m = n /\ m \notin connecting'
      BY <2>3 DEF ReleaseConnectSlot, Owns
    <3>2. \A u \in Threads \ {t} : ~Owns(u, m)
      BY <2>3 DEF IInv, SlotHasOneOwner
    <3> QED BY <2>1, <2>2, <3>1, <3>2
  <2>4. CASE ~Owns(t, m)
    <3>1. m \in connecting' <=> m \in connecting
      BY <2>4 DEF ReleaseConnectSlot, Owns
    <3> QED BY <2>1, <2>2, <2>4, <3>1 DEF IInv, SlotHasOneOwner
  <2> QED BY <2>3, <2>4
<1>4. StaleIsHeld'
  BY DEF IInv, StaleIsHeld, ReleaseConnectSlot
<1> QED BY <1>1, <1>2, <1>3, <1>4 DEF IInv

\* invalidate_connect_slot leaves the node without an owner.
LEMMA InvalidateIInv ==
  ASSUME NEW n \in Nodes, IInv, InvalidateConnectSlot(n)
  PROVE  IInv'
<1>1. TypeOK'
  BY DEF IInv, TypeOK, InvalidateConnectSlot
<1>2. TokensDistinct'
  BY DEF IInv, TypeOK, TokensDistinct, InvalidateConnectSlot
<1>3. \A u \in Threads : ~Owns(u, n)'
  BY DEF IInv, TypeOK, TokensDistinct, InvalidateConnectSlot, Owns
<1>4. \A m \in Nodes \ {n}, u \in Threads : Owns(u, m)' <=> Owns(u, m)
  BY DEF IInv, TypeOK, InvalidateConnectSlot, Owns
<1>5. SlotHasOneOwner'
  BY <1>3, <1>4 DEF IInv, SlotHasOneOwner, InvalidateConnectSlot
<1>6. StaleIsHeld'
  BY DEF IInv, StaleIsHeld, InvalidateConnectSlot
<1> QED BY <1>1, <1>2, <1>5, <1>6 DEF IInv

\* Ageing touches neither owners nor tokens.
LEMMA AgeIInv ==
  ASSUME NEW n \in Nodes, IInv, SlotAges(n)
  PROVE  IInv'
<1>1. TypeOK' /\ StaleIsHeld'
  BY DEF IInv, TypeOK, StaleIsHeld, SlotAges
<1>2. SlotHasOneOwner' /\ TokensDistinct'
  BY DEF IInv, SlotHasOneOwner, TokensDistinct, Owns, SlotAges
<1> QED BY <1>1, <1>2 DEF IInv

\* The inductive step: each critical section of the code, and stuttering.
LEMMA NextIInv == IInv /\ [Next]_vars => IInv'
<1> SUFFICES ASSUME IInv, [Next]_vars PROVE IInv'
  OBVIOUS
<1>1. CASE \E t \in Threads, n \in Nodes : AcquireConnectSlot(t, n)
  BY <1>1, AcquireIInv
<1>2. CASE \E t \in Threads : ReleaseConnectSlot(t)
  BY <1>2, ReleaseIInv
<1>3. CASE \E n \in Nodes : InvalidateConnectSlot(n)
  BY <1>3, InvalidateIInv
<1>4. CASE \E n \in Nodes : SlotAges(n)
  BY <1>4, AgeIInv
<1>5. CASE UNCHANGED vars
  BY <1>5 DEF vars, IInv, TypeOK, SlotHasOneOwner, TokensDistinct, StaleIsHeld, Owns
<1> QED BY <1>1, <1>2, <1>3, <1>4, <1>5 DEF Next

\* The slot of every node is always in a consistent state.
THEOREM SlotInvariant == Spec => []IInv
  BY InitIInv, NextIInv, PTL DEF Spec

\* The state of the slot is always well typed.
THEOREM SlotTyped == Spec => []TypeOK
<1>1. IInv => TypeOK
  BY DEF IInv
<1> QED BY <1>1, SlotInvariant, PTL

\* A slot that is held has exactly one owner, a running connect whose release
\* will free it; a slot that is free has none.
THEOREM OneOwner == Spec => []SlotHasOneOwner
<1>1. IInv => SlotHasOneOwner
  BY DEF IInv
<1> QED BY <1>1, SlotInvariant, PTL

\* Two connects of the same node never hold the same generation token.
THEOREM DistinctTokens == Spec => []TokensDistinct
<1>1. IInv => TokensDistinct
  BY DEF IInv
<1> QED BY <1>1, SlotInvariant, PTL

-----------------------------------------------------------------------------
(* The implementation of SlotLock.  ownerOf picks the owner of a held slot *)
(* with CHOOSE; the invariant makes that owner unique, before and after a  *)
(* step.                                                                   *)

\* What ownerOf denotes, in terms of the tokens.
LEMMA OwnerOfDenotes ==
  ASSUME NEW n \in Nodes, IInv
  PROVE  /\ n \notin connecting => ownerOf[n] = None
         /\ \A t \in Threads : Owns(t, n) => n \in connecting /\ ownerOf[n] = t
  BY DEF IInv, SlotHasOneOwner, ownerOf

\* The same after the step.
LEMMA OwnerOfDenotesNext ==
  ASSUME NEW n \in Nodes, IInv'
  PROVE  /\ n \notin connecting' => ownerOf'[n] = None
         /\ \A t \in Threads : Owns(t, n)' => n \in connecting' /\ ownerOf'[n] = t
  BY DEF IInv, SlotHasOneOwner, ownerOf

\* ownerOf is a function on the nodes, before and after the step.
LEMMA OwnerOfFunction ==
  /\ ownerOf = [n \in Nodes |-> ownerOf[n]]
  /\ ownerOf' = [n \in Nodes |-> ownerOf'[n]]
  BY DEF ownerOf

\* A node whose slot is held as before, by the same tokens, keeps its owner.
LEMMA OwnerOfStays ==
  ASSUME NEW n \in Nodes, IInv, IInv',
         n \in connecting' <=> n \in connecting,
         \A t \in Threads : Owns(t, n)' <=> Owns(t, n)
  PROVE  ownerOf'[n] = ownerOf[n]
<1>1. CASE n \in connecting
  <2>1. PICK t \in Threads : Owns(t, n)
    BY <1>1 DEF IInv, SlotHasOneOwner
  <2> QED BY <2>1, OwnerOfDenotes, OwnerOfDenotesNext
<1>2. CASE n \notin connecting
  BY <1>2, OwnerOfDenotes, OwnerOfDenotesNext
<1> QED BY <1>1, <1>2

\* Acquiring the slot takes the abstract lock.
LEMMA AcquireTakes ==
  ASSUME NEW t \in Threads, NEW n \in Nodes, IInv, IInv', AcquireConnectSlot(t, n)
  PROVE  Lock!Take(t, n)
<1>1. Lock!Available(n)
  BY OwnerOfDenotes DEF AcquireConnectSlot, Lock!Available
<1>2. ownerOf'[n] = t
  BY OwnerOfDenotesNext DEF IInv, TypeOK, AcquireConnectSlot, Owns
<1>3. \A m \in Nodes \ {n} : ownerOf'[m] = ownerOf[m]
  <2> TAKE m \in Nodes \ {n}
  <2>1. m \in connecting' <=> m \in connecting
    BY DEF AcquireConnectSlot
  <2>2. \A u \in Threads : Owns(u, m)' <=> Owns(u, m)
    BY DEF IInv, TypeOK, AcquireConnectSlot, Owns
  <2> QED BY <2>1, <2>2, OwnerOfStays
<1>4. ownerOf' = [ownerOf EXCEPT ![n] = t]
  BY <1>2, <1>3, OwnerOfFunction
<1> QED BY <1>1, <1>4 DEF AcquireConnectSlot, Lock!Take

\* Releasing the slot drops the abstract lock, or nothing if it was lost.
LEMMA ReleaseDrops ==
  ASSUME NEW t \in Threads, IInv, IInv', ReleaseConnectSlot(t)
  PROVE  Lock!Drop(t)
<1>0. PICK n \in Nodes : n = work[t] /\ n # None
  BY DEF IInv, TypeOK, ReleaseConnectSlot
<1>1. \A m \in Nodes \ {n} : ownerOf'[m] = ownerOf[m]
  <2> TAKE m \in Nodes \ {n}
  <2>1. m \in connecting' <=> m \in connecting
    BY <1>0 DEF ReleaseConnectSlot
  <2>2. \A u \in Threads : Owns(u, m)' <=> Owns(u, m)
    BY <1>0 DEF IInv, TypeOK, ReleaseConnectSlot, Owns
  <2> QED BY <2>1, <2>2, OwnerOfStays
<1>2. CASE slot_gen[t] = generation[n]
  <2>1. ownerOf[n] = t
    BY <1>0, <1>2, OwnerOfDenotes DEF Owns
  <2>2. ownerOf'[n] = None
    BY <1>0, <1>2, OwnerOfDenotesNext DEF ReleaseConnectSlot
  <2>3. ownerOf' = [ownerOf EXCEPT ![n] = IF @ = t THEN None ELSE @]
    BY <1>0, <1>1, <2>1, <2>2, OwnerOfFunction
  <2> QED BY <1>0, <1>2, <2>1, <2>3 DEF ReleaseConnectSlot, Lock!Drop
<1>3. CASE slot_gen[t] # generation[n]
  <2>1. \A u \in Threads : Owns(u, n)' <=> Owns(u, n)
    BY <1>0, <1>3 DEF IInv, TypeOK, ReleaseConnectSlot, Owns
  <2>2. ownerOf'[n] = ownerOf[n]
    BY <1>0, <1>3, <2>1, OwnerOfStays DEF ReleaseConnectSlot
  <2>3. ownerOf[n] # t
    <3>1. CASE n \in connecting
      <4>1. PICK u \in Threads : Owns(u, n)
        BY <1>0, <3>1 DEF IInv, SlotHasOneOwner
      <4> QED BY <1>0, <1>3, <4>1, OwnerOfDenotes DEF Owns
    <3>2. CASE n \notin connecting
      BY <1>0, <3>2, OwnerOfDenotes
    <3> QED BY <3>1, <3>2
  <2>4. ownerOf' = [ownerOf EXCEPT ![n] = IF @ = t THEN None ELSE @]
    BY <1>0, <1>1, <2>2, <2>3, OwnerOfFunction
  <2> QED BY <1>0, <1>3, <2>3, <2>4 DEF ReleaseConnectSlot, Lock!Drop
<1> QED BY <1>2, <1>3

\* Invalidating the slot revokes the abstract lock.
LEMMA InvalidateRevokes ==
  ASSUME NEW n \in Nodes, IInv, IInv', InvalidateConnectSlot(n)
  PROVE  Lock!Revoke(n)
<1>1. ownerOf'[n] = None
  BY OwnerOfDenotesNext DEF InvalidateConnectSlot
<1>2. \A m \in Nodes \ {n} : ownerOf'[m] = ownerOf[m]
  <2> TAKE m \in Nodes \ {n}
  <2>1. m \in connecting' <=> m \in connecting
    BY DEF InvalidateConnectSlot
  <2>2. \A u \in Threads : Owns(u, m)' <=> Owns(u, m)
    BY DEF IInv, TypeOK, InvalidateConnectSlot, Owns
  <2> QED BY <2>1, <2>2, OwnerOfStays
<1>3. ownerOf' = [ownerOf EXCEPT ![n] = None]
  BY <1>1, <1>2, OwnerOfFunction
<1> QED BY <1>3 DEF InvalidateConnectSlot, Lock!Revoke

\* A slot that gets stale makes the abstract lock expire.
LEMMA AgeExpires ==
  ASSUME NEW n \in Nodes, IInv, IInv', SlotAges(n)
  PROVE  Lock!Expire(n)
<1>1. PICK t \in Threads : Owns(t, n)
  BY DEF IInv, SlotHasOneOwner, SlotAges
<1>2. ownerOf[n] # None
  BY <1>1, OwnerOfDenotes
<1>3. ownerOf' = ownerOf
  BY DEF SlotAges, ownerOf, Owns
<1> QED BY <1>2, <1>3 DEF SlotAges, Lock!Expire

\* The slot of operations.py implements the revocable lock: whatever Edit,
\* Reconnect or a stale reclaim does while connects are running, a connect
\* that lost its slot leaves its successor's slot alone.
THEOREM SlotImplementsLock == Spec => ImplementsLock
<1>1. Init => Lock!SlotInit
  BY DEF Init, Lock!SlotInit, ownerOf
<1>2. IInv /\ IInv' /\ [Next]_vars => [Lock!SlotNext]_(Lock!slotVars)
  <2> SUFFICES ASSUME IInv, IInv', [Next]_vars
               PROVE  [Lock!SlotNext]_(Lock!slotVars)
    OBVIOUS
  <2>1. ASSUME NEW t \in Threads, NEW n \in Nodes, AcquireConnectSlot(t, n)
        PROVE  Lock!SlotNext
    BY <2>1, AcquireTakes DEF Lock!SlotNext
  <2>2. ASSUME NEW t \in Threads, ReleaseConnectSlot(t)
        PROVE  Lock!SlotNext
    BY <2>2, ReleaseDrops DEF Lock!SlotNext
  <2>3. ASSUME NEW n \in Nodes, InvalidateConnectSlot(n)
        PROVE  Lock!SlotNext
    BY <2>3, InvalidateRevokes DEF Lock!SlotNext
  <2>4. ASSUME NEW n \in Nodes, SlotAges(n)
        PROVE  Lock!SlotNext
    BY <2>4, AgeExpires DEF Lock!SlotNext
  <2>5. CASE UNCHANGED vars
    <3>1. ownerOf' = ownerOf
      BY <2>5 DEF vars, ownerOf, Owns
    <3> QED BY <2>5, <3>1 DEF vars, Lock!slotVars
  <2> QED BY <2>1, <2>2, <2>3, <2>4, <2>5 DEF Next
<1> QED BY <1>1, <1>2, SlotInvariant, PTL DEF Spec, ImplementsLock, Lock!SlotSpec

HIDE SlotAssumption

(***************************************************************************)
(* The cache of hosts: what subscriptions read is complete, and fresh once *)
(* every call has ended, as long as no call crosses another one. The       *)
(* invariant follows the one call that is under way: the inbounds a        *)
(* refresh has filled and those it has left make up the catalog.           *)
(***************************************************************************)

\* No other call is under way beside the one that is.
OneCall == \A t, u \in Callers : pc[t] # "idle" /\ pc[u] # "idle" => t = u

\* The cache holds the hosts of every inbound as they are now.
Full == hosts = [u \in InCatalog |-> db]

\* A refresh has filled some inbounds with what is there now, and has the others
\* left to fill.
Filling ==
  \A t \in Callers : pc[t] \in {"fill", "refill"} =>
    /\ left[t] \in Seq(InCatalog)
    /\ snap[t] = db
    /\ hosts = [u \in DOMAIN hosts |-> db]
    /\ DOMAIN hosts \cup {left[t][i] : i \in DOMAIN left[t]} = InCatalog

\* A subscription has inbounds of the catalog left to read, and a full cache
\* once it has filled it.
Reading ==
  \A t \in Callers :
    /\ pc[t] \in {"read", "refill", "found"} => todo[t] \in Seq(InCatalog) /\ todo[t] # <<>>
    /\ pc[t] = "found" => Full

\* The types of the cache's state, as far as they matter.
CacheTyped ==
  /\ db \in Nat
  /\ inbounds \in Seq(InCatalog) /\ inbounds # <<>>
  /\ pc \in [Callers -> {"idle", "update", "fill", "refill", "read", "found"}]
  /\ DOMAIN left = Callers
  /\ DOMAIN todo = Callers
  /\ DOMAIN snap = Callers
  /\ DOMAIN got = Callers

\* Between refreshes the cache is empty or full.
FullOrEmpty ==
  (\A t \in Callers : pc[t] \in {"idle", "read"}) => hosts = Nothing \/ Full

\* No subscription found an inbound without hosts.
GotAll == \A t \in Callers : \A u \in DOMAIN got[t] : got[t][u] # -1

CacheBody == CacheTyped /\ OneCall /\ Filling /\ Reading /\ FullOrEmpty /\ GotAll

\* The invariant, for as long as calls have not crossed.
CacheInv == ~crossed => CacheBody

USE CacheAssumption

\* The inbounds left after the first one.
LEMMA TailOfCatalog ==
  ASSUME NEW S, NEW s \in Seq(S), s # <<>>
  PROVE /\ s[1] \in S /\ Tail(s) \in Seq(S)
        /\ {s[i] : i \in DOMAIN s} = {s[1]} \cup {Tail(s)[i] : i \in DOMAIN Tail(s)}
        /\ Len(s) # 1 => Tail(s) # <<>>
<1>1. /\ Tail(s) \in Seq(S) /\ Len(Tail(s)) = Len(s) - 1
      /\ \A i \in 1 .. Len(Tail(s)) : Tail(s)[i] = s[i + 1]
  BY HeadTailProperties
<1>2. Len(s) \in Nat \ {0} /\ DOMAIN s = 1 .. Len(s) /\ DOMAIN Tail(s) = 1 .. Len(s) - 1 /\ s[1] \in S
  BY <1>1, EmptySeq, LenProperties
<1>3. \A i \in DOMAIN s : i = 1 \/ (i - 1 \in DOMAIN Tail(s) /\ s[i] = Tail(s)[i - 1])
  BY <1>1, <1>2
<1>4. \A i \in DOMAIN Tail(s) : i + 1 \in DOMAIN s /\ Tail(s)[i] = s[i + 1]
  BY <1>1, <1>2
<1>5. ASSUME NEW x \in {s[i] : i \in DOMAIN s} PROVE x \in {s[1]} \cup {Tail(s)[i] : i \in DOMAIN Tail(s)}
  BY <1>3
<1>6. ASSUME NEW x \in {s[1]} \cup {Tail(s)[i] : i \in DOMAIN Tail(s)} PROVE x \in {s[i] : i \in DOMAIN s}
  BY <1>2, <1>4
<1>7. Len(s) # 1 => Tail(s) # <<>>
  <2>1. DOMAIN <<>> = {}
    OBVIOUS
  <2>2. Len(s) # 1 => 1 \in 1 .. Len(s) - 1
    BY <1>2
  <2> QED BY <1>2, <2>1, <2>2
<1> QED BY <1>1, <1>2, <1>5, <1>6, <1>7

\* An empty cache, and nobody at work.
LEMMA InitCache == CacheInit => CacheInv
<1> SUFFICES ASSUME CacheInit PROVE CacheBody
  BY DEF CacheInv
<1>1. CacheTyped
  BY DEF CacheInit, CacheTyped, CacheAssumption, InCatalog
<1> QED BY <1>1 DEF CacheInit, CacheBody, OneCall, Filling, Reading, FullOrEmpty, GotAll, Nothing

\* A commit begins when nobody is at work, or calls have crossed.
LEMMA CommitCache ==
  ASSUME NEW t \in Callers, CacheInv, CommitHosts(t) \/ SaveCoreConfig(t) PROVE CacheInv'
<1> SUFFICES ASSUME ~crossed' PROVE CacheBody'
  BY DEF CacheInv
<1>1. CacheBody /\ pc[t] = "idle" /\ \A o \in Callers \ {t} : pc[o] = "idle"
  BY DEF CacheInv, CommitHosts, SaveCoreConfig, Meets, CacheBody, CacheTyped
<1>2. pc' = [pc EXCEPT ![t] = "update"] /\ db' = db + 1 /\ UNCHANGED <<left, todo, snap, got>>
  BY DEF CommitHosts, SaveCoreConfig, CallGoes
<1>3. inbounds' \in Seq(InCatalog') /\ inbounds' # <<>>
  BY <1>1 DEF CommitHosts, SaveCoreConfig, CacheBody, CacheTyped, CacheAssumption, InCatalog
<1>4. CacheTyped'
  BY <1>1, <1>2, <1>3 DEF CacheBody, CacheTyped
<1>5. pc'[t] = "update" /\ \A o \in Callers \ {t} : pc'[o] = "idle"
  BY <1>1, <1>2 DEF CacheBody, CacheTyped
<1> QED BY <1>1, <1>2, <1>4, <1>5 DEF CacheBody, OneCall, Filling, Reading, FullOrEmpty, GotAll

\* A refresh that has filled nothing has everything left.
LEMMA ClearCache ==
  ASSUME NEW t \in Callers, CacheInv, Clear(t) PROVE CacheInv'
<1> SUFFICES ASSUME ~crossed' PROVE CacheBody'
  BY DEF CacheInv
<1>1. CacheBody /\ \A o \in Callers \ {t} : pc[o] = "idle"
  BY DEF CacheInv, Clear, CacheBody, CacheTyped, OneCall
<1>2. CacheTyped'
  <2>1. /\ left' = [left EXCEPT ![t] = inbounds] /\ snap' = [snap EXCEPT ![t] = db]
        /\ pc' = [pc EXCEPT ![t] = "fill"] /\ UNCHANGED <<db, inbounds, todo, got>>
        /\ InCatalog' = InCatalog
    BY DEF Clear, update_starts, CallGoes, InCatalog
  <2> QED BY <1>1, <2>1 DEF CacheBody, CacheTyped
<1>3. pc'[t] = "fill" /\ \A o \in Callers \ {t} : pc'[o] = "idle"
  BY <1>1 DEF Clear, CallGoes, CacheBody, CacheTyped
<1>4. Filling'
  <2>1. left'[t] = inbounds /\ snap'[t] = db /\ hosts' = [u \in {} |-> 0]
    BY <1>1 DEF Clear, update_starts, CacheBody, CacheTyped, Nothing
  <2>2. hosts' = [u \in DOMAIN hosts' |-> db] /\ DOMAIN hosts' = {}
    BY <2>1
  <2> QED BY <1>1, <1>3, <2>1, <2>2 DEF Clear, Filling, CacheBody, CacheTyped, InCatalog
<1> QED BY <1>1, <1>2, <1>3, <1>4 DEF Clear, CacheBody, OneCall, Reading, FullOrEmpty, GotAll

\* It fills one inbound with what is there now: nobody commits meanwhile.
LEMMA FillCache ==
  ASSUME NEW t \in Callers, CacheInv, Fill(t) PROVE CacheInv'
<1> SUFFICES ASSUME ~crossed' PROVE CacheBody'
  BY DEF CacheInv
<1>1. CacheBody /\ \A o \in Callers \ {t} : pc[o] = "idle"
  BY DEF CacheInv, Fill, CacheBody, CacheTyped, OneCall
<1>2. left[t] \in Seq(InCatalog) /\ left[t] # <<>> /\ snap[t] = db
  BY <1>1 DEF Fill, CacheBody, Filling
<1>3. CacheTyped' /\ InCatalog' = InCatalog /\ UNCHANGED <<pc, db, snap, todo, got>>
  <2>1. /\ left' = [left EXCEPT ![t] = Tail(@)] /\ InCatalog' = InCatalog
        /\ UNCHANGED <<db, inbounds, pc, todo, snap, got>>
    BY DEF Fill, FillOne, InCatalog
  <2> QED BY <1>1, <2>1 DEF CacheBody, CacheTyped
<1>4. hosts' = [u \in DOMAIN hosts \cup {left[t][1]} |-> db]
  BY <1>1, <1>2 DEF Fill, FillOne, CacheBody, Filling
<1>5. left'[t] = Tail(left[t])
  BY <1>1 DEF Fill, FillOne, CacheBody, CacheTyped
<1>6. /\ Tail(left[t]) \in Seq(InCatalog)
      /\ {left[t][i] : i \in DOMAIN left[t]}
           = {left[t][1]} \cup {Tail(left[t])[i] : i \in DOMAIN Tail(left[t])}
  BY <1>2, TailOfCatalog
<1>7. Filling'
  <2>1. /\ DOMAIN hosts \cup {left[t][i] : i \in DOMAIN left[t]} = InCatalog
        /\ DOMAIN hosts' = DOMAIN hosts \cup {left[t][1]}
    BY <1>1, <1>4 DEF Fill, CacheBody, Filling
  <2>2. DOMAIN hosts' \cup {left'[t][i] : i \in DOMAIN left'[t]} = InCatalog'
    BY <1>3, <1>5, <1>6, <2>1
  <2>3. hosts' = [u \in DOMAIN hosts' |-> db'] /\ snap'[t] = db' /\ left'[t] \in Seq(InCatalog')
    BY <1>2, <1>3, <1>4, <1>5, <1>6
  <2> QED BY <1>1, <1>3, <2>2, <2>3 DEF Filling
<1> QED BY <1>1, <1>3, <1>7 DEF Fill, CacheBody, OneCall, Reading, FullOrEmpty, GotAll

\* With nothing left the cache is full.
LEMMA FilledCache ==
  ASSUME NEW t \in Callers, CacheInv, Filled(t) PROVE CacheInv'
<1> SUFFICES ASSUME ~crossed' PROVE CacheBody'
  BY DEF CacheInv
<1>1. CacheBody /\ \A o \in Callers \ {t} : pc[o] = "idle"
  BY DEF CacheInv, Filled, CacheBody, CacheTyped, OneCall
<1>2. Full
  <2>1. /\ hosts = [u \in DOMAIN hosts |-> db]
        /\ DOMAIN hosts \cup {left[t][i] : i \in DOMAIN left[t]} = InCatalog
        /\ left[t] = <<>>
    BY <1>1 DEF Filled, CacheBody, Filling
  <2>2. {left[t][i] : i \in DOMAIN left[t]} = {}
    BY <2>1
  <2> QED BY <2>1, <2>2 DEF Full
<1>3. Full' /\ InCatalog' = InCatalog /\ UNCHANGED <<left, todo, got>>
  BY <1>2 DEF Filled, Full, InCatalog
<1>4. /\ pc'[t] = (IF pc[t] = "fill" THEN "idle" ELSE "found")
      /\ pc[t] \in {"fill", "refill"}
      /\ \A o \in Callers \ {t} : pc'[o] = "idle"
  BY <1>1 DEF Filled, CallGoes, CacheBody, CacheTyped
<1>5. CacheTyped'
  BY <1>1, <1>3 DEF Filled, CallGoes, CacheBody, CacheTyped
<1> QED BY <1>1, <1>3, <1>4, <1>5 DEF CacheBody, OneCall, Filling, Reading, FullOrEmpty, GotAll

\* A subscription finds the cache empty or full.
LEMMA SubscribeCache ==
  ASSUME NEW t \in Callers, CacheInv, Subscribe(t) PROVE CacheInv'
<1> SUFFICES ASSUME ~crossed' PROVE CacheBody'
  BY DEF CacheInv
<1>1. CacheBody /\ pc[t] = "idle" /\ \A o \in Callers \ {t} : pc[o] = "idle"
  BY DEF CacheInv, Subscribe, Meets, CacheBody, CacheTyped
<1>2. /\ pc'[t] = "read" /\ \A o \in Callers \ {t} : pc'[o] = "idle"
      /\ todo'[t] = inbounds
      /\ InCatalog' = InCatalog /\ UNCHANGED <<hosts, db>>
  BY <1>1 DEF Subscribe, CallGoes, CacheBody, CacheTyped, InCatalog
<1>3. CacheTyped'
  BY <1>1, <1>2 DEF Subscribe, CallGoes, CacheBody, CacheTyped
<1>4. GotAll'
  BY <1>1 DEF Subscribe, CacheBody, CacheTyped, GotAll, Nothing
<1>5. FullOrEmpty'
  BY <1>1, <1>2 DEF CacheBody, FullOrEmpty, Full
<1> QED BY <1>1, <1>2, <1>3, <1>4, <1>5 DEF CacheBody, CacheTyped, OneCall, Filling, Reading

\* It fills an empty cache, and reads a full one.
LEMMA ReadCache ==
  ASSUME NEW t \in Callers, CacheInv, ReadHosts(t) PROVE CacheInv'
<1> SUFFICES ASSUME ~crossed' PROVE CacheBody'
  BY DEF CacheInv
<1>1. CacheBody /\ \A o \in Callers \ {t} : pc[o] = "idle"
  BY DEF CacheInv, ReadHosts, CacheBody, CacheTyped, OneCall
<1>2. InCatalog' = InCatalog /\ db' = db /\ inbounds' = inbounds
  BY DEF ReadHosts, InCatalog
<1>3. CASE pc[t] = "read" /\ hosts = Nothing
  <2>1. /\ left' = [left EXCEPT ![t] = inbounds] /\ snap' = [snap EXCEPT ![t] = db]
        /\ hosts' = Nothing /\ pc' = [pc EXCEPT ![t] = "refill"] /\ UNCHANGED <<todo, got>>
    BY <1>3 DEF ReadHosts, get_hosts, update_starts, CallGoes
  <2>2. pc'[t] = "refill" /\ \A o \in Callers \ {t} : pc'[o] = "idle"
    BY <1>1, <2>1 DEF CacheBody, CacheTyped
  <2>3. CacheTyped'
    BY <1>1, <1>2, <2>1 DEF CacheBody, CacheTyped
  <2>4. Filling'
    <3>1. left'[t] = inbounds /\ snap'[t] = db /\ hosts' = [u \in {} |-> 0]
      BY <1>1, <2>1 DEF CacheBody, CacheTyped, Nothing
    <3>2. hosts' = [u \in DOMAIN hosts' |-> db] /\ DOMAIN hosts' = {}
      BY <3>1
    <3> QED BY <1>1, <1>2, <2>2, <3>1, <3>2 DEF Filling, CacheBody, CacheTyped, InCatalog
  <2> QED BY <1>1, <1>2, <1>3, <2>1, <2>2, <2>3, <2>4
          DEF CacheBody, OneCall, Reading, FullOrEmpty, GotAll
<1>4. CASE ~(pc[t] = "read" /\ hosts = Nothing)
  <2>1. TakeHosts(t) /\ pc[t] \in {"read", "found"}
    BY <1>4 DEF ReadHosts, get_hosts
  <2>2. Full
    BY <1>1, <1>4, <2>1 DEF CacheBody, Reading, FullOrEmpty
  <2>3. todo[t] \in Seq(InCatalog) /\ todo[t] # <<>>
    BY <1>1, <2>1 DEF CacheBody, Reading
  <2>4. Found(todo[t][1]) = db
    BY <2>2, <2>3 DEF Full, Found
  <2>5. CacheTyped'
    BY <1>1, <1>2, <2>1 DEF TakeHosts, CallGoes, CacheBody, CacheTyped
  <2>6. /\ pc'[t] = (IF Len(todo[t]) = 1 THEN "idle" ELSE "read")
        /\ \A o \in Callers \ {t} : pc'[o] = "idle"
        /\ todo'[t] = Tail(todo[t])
        /\ UNCHANGED hosts
    BY <1>1, <2>1 DEF TakeHosts, CallGoes, CacheBody, CacheTyped
  <2>7. Tail(todo[t]) \in Seq(InCatalog) /\ (Len(todo[t]) # 1 => Tail(todo[t]) # <<>>)
    BY <2>3, TailOfCatalog
  <2>8. GotAll'
    <3>1. got'[t] = [u \in DOMAIN got[t] \cup {todo[t][1]} |->
                        IF u = todo[t][1] THEN db ELSE got[t][u]]
      BY <1>1, <2>1, <2>4 DEF TakeHosts, CacheBody, CacheTyped
    <3>2. \A o \in Callers \ {t} : got'[o] = got[o]
      BY <1>1, <2>1 DEF TakeHosts, CacheBody, CacheTyped
    <3> QED BY <1>1, <3>1, <3>2 DEF CacheBody, CacheTyped, GotAll
  <2>9. Full'
    BY <1>2, <2>2, <2>6 DEF Full
  <2> QED BY <1>1, <1>2, <2>5, <2>6, <2>7, <2>8, <2>9
          DEF CacheBody, OneCall, Filling, Reading, FullOrEmpty
<1> QED BY <1>3, <1>4

\* Every step keeps the invariant.
LEMMA NextCache == CacheInv /\ [CacheNext]_cacheVars => CacheInv'
<1> SUFFICES ASSUME CacheInv, [CacheNext]_cacheVars PROVE CacheInv'
  OBVIOUS
<1>1. CASE UNCHANGED cacheVars
  <2>1. UNCHANGED <<db, inbounds, hosts, pc, left, todo, snap, got, crossed>> /\ InCatalog' = InCatalog
    BY <1>1 DEF cacheVars, InCatalog
  <2>2. CacheTyped => CacheTyped'
    BY <2>1 DEF CacheTyped
  <2>3. Filling => Filling'
    BY <2>1 DEF Filling
  <2>4. Reading /\ FullOrEmpty => Reading' /\ FullOrEmpty'
    BY <2>1 DEF Reading, FullOrEmpty, Full
  <2>5. OneCall /\ GotAll => OneCall' /\ GotAll'
    BY <2>1 DEF OneCall, GotAll
  <2> QED BY <2>1, <2>2, <2>3, <2>4, <2>5 DEF CacheInv, CacheBody
<1>2. CASE CacheNext
  BY <1>2, CommitCache, ClearCache, FillCache, FilledCache, SubscribeCache, ReadCache DEF CacheNext
<1> QED BY <1>1, <1>2

\* xray.hosts: once every call has ended it is empty or complete and fresh, and a
\* subscription gets the hosts of every inbound, unless calls crossed, whatever
\* catalogs are saved and however often (update, get_hosts).
THEOREM HostsSound == CacheSpec => []CacheSound
<1>1. CacheInv => CacheSound
  BY DEF CacheInv, CacheBody, FullOrEmpty, Full, GotAll, CacheSound, CacheIsFresh, ReadersSeeAll,
         Quiet
<1> QED BY <1>1, InitCache, NextCache, PTL DEF CacheSpec

HIDE CacheAssumption

(***************************************************************************)
(* Cascades: the two halves fit, uuids stay, and a restart of everything   *)
(* leaves nothing stale. The invariant extends both to what threads have   *)
(* read and not yet pushed.                                                *)
(***************************************************************************)

\* Rows of nodes, outbounds of an entry, and what threads know.
Row ==
  [on : BOOLEAN, role : Roles, uuid : Nat, allowed : SUBSET (Tags \cup {Other}),
   routes : SUBSET Route]
Out == [exit : NodeIds, inb : Tags, uuid : Nat \ {0}, key : Nat]
Kwargs == [allowed : SUBSET (Tags \cup {Other}), clients : SUBSET (Tags \X Nat), outs : SUBSET Out]
Base == [Tags -> Nat]
CascadeThreads == [node : NodeIds, base : Base \cup {<<>>}, kw : Kwargs \cup {<<>>}, admin : BOOLEAN]

\* The types of the cascade's state.
CascadeTyped ==
  /\ nodeRows \in [NodeIds -> Row \cup {<<>>}]
  /\ catalog \in Base
  /\ uuids \in Nat
  /\ DOMAIN nodeRuns = NodeIds
  /\ \A n \in NodeIds : nodeRuns[n] # <<>> => nodeRuns[n].outs \subseteq Out
  /\ up \subseteq NodeIds
  /\ tasks \subseteq CascadeThreads

\* An entry sends with the uuid that the exit's row has, if there is one.
Kept(outs) == \A o \in outs : Exists(o.exit) => o.uuid = nodeRows[o.exit].uuid

\* So does what a node runs, and what a thread has read for it.
UuidsKept ==
  /\ \A n \in NodeIds : nodeRuns[n] # <<>> => Kept(nodeRuns[n].outs)
  /\ \A t \in tasks : t.kw # <<>> => Kept(t.kw.outs)

\* Since the restart of everything the threads know nothing stale, and a node
\* that still runs something stale has a thread under way.
Heals ==
  healed =>
    /\ \A t \in tasks : /\ t.base # <<>> => t.base = catalog
                        /\ t.kw # <<>> => t.kw = _cascade_kwargs(t.node)
    /\ \A n \in up : Exists(n) =>
         \/ nodeRuns[n] = Current(n)
         \/ \E t \in tasks : t.node = n /\ t.base # <<>>

\* The invariant.
CascadeInv == CascadeTyped /\ UuidsKept /\ Heals

\* Catalogs, threads and configurations are never taken for none.
LEMMA CatalogIsThere == ASSUME NEW b \in Base PROVE b # <<>>
BY CascadeAssumption DEF Base

LEMMA TaskTyped ==
  ASSUME NEW n \in NodeIds, NEW base \in Base \cup {<<>>}, NEW task, task \in {Task(n, base, FALSE)}
  PROVE task \in CascadeThreads /\ task.node = n /\ task.base = base /\ task.kw = <<>>
<1>1. <<>> \in Kwargs \cup {<<>>}
  OBVIOUS
<1>2. task = [node |-> n, base |-> base, kw |-> <<>>, admin |-> FALSE]
  BY Zenon DEF Task
<1> QED BY <1>1, <1>2 DEF CascadeThreads

LEMMA AdminTaskTyped ==
  ASSUME NEW n \in NodeIds, NEW base \in Base \cup {<<>>}, NEW task, task \in {Task(n, base, TRUE)}
  PROVE task \in CascadeThreads /\ task.node = n /\ task.base = base /\ task.kw = <<>>
<1>1. <<>> \in Kwargs \cup {<<>>}
  OBVIOUS
<1>2. task = [node |-> n, base |-> base, kw |-> <<>>, admin |-> TRUE]
  BY Zenon DEF Task
<1> QED BY <1>1, <1>2 DEF CascadeThreads

\* What a thread reads for a node has the uuids of the rows.
LEMMA KwargsTyped ==
  ASSUME CascadeTyped, NEW n \in NodeIds, Exists(n)
  PROVE /\ _cascade_kwargs(n) \in Kwargs
        /\ _cascade_kwargs(n) # <<>>
        /\ Kept(_cascade_kwargs(n).outs)
<1>1. nodeRows[n] \in Row
  BY DEF CascadeTyped, Exists
<1>2. ExitClients(n) \subseteq Tags \X Nat
  <2>1. \A m \in NodeIds : Exists(m) => nodeRows[m].routes \subseteq Route
    BY DEF CascadeTyped, Exists, Row
  <2>2. nodeRows[n].uuid \in Nat
    BY <1>1 DEF Row
  <2> QED BY <2>1, <2>2 DEF ExitClients, Route
<1>3. EntryRoutes(n) \subseteq Out /\ Kept(EntryRoutes(n))
  <2>1. SUFFICES ASSUME NEW r \in nodeRows[n].routes,
                        Exists(r.exit), nodeRows[r.exit].uuid # 0, catalog[r.inb] # 0,
                        NEW o, o = [exit |-> r.exit, inb |-> r.inb,
                                    uuid |-> nodeRows[r.exit].uuid, key |-> catalog[r.inb]]
                 PROVE o \in Out /\ o.uuid = nodeRows[o.exit].uuid
    BY DEF EntryRoutes, Kept
  <2>2. r.exit \in NodeIds /\ r.inb \in Tags
    BY <1>1, <2>1 DEF Row, Route
  <2>3. nodeRows[r.exit] \in Row /\ catalog[r.inb] \in Nat
    BY <2>1, <2>2 DEF CascadeTyped, Exists, Base
  <2>4. nodeRows[r.exit].uuid \in Nat \ {0}
    BY <2>1, <2>3 DEF Row
  <2> QED BY <2>1, <2>2, <2>3, <2>4 DEF Out
<1>4. nodeRows[n].allowed \in SUBSET (Tags \cup {Other})
  BY <1>1 DEF Row
<1>5. _cascade_kwargs(n) \in Kwargs
  BY <1>2, <1>3, <1>4 DEF _cascade_kwargs, Kwargs
<1>6. Kept(_cascade_kwargs(n).outs)
  BY <1>3 DEF _cascade_kwargs, Kept
<1>7. _cascade_kwargs(n) # <<>>
  BY DEF _cascade_kwargs
<1> QED BY <1>5, <1>6, <1>7

LEMMA ConfigIsThere ==
  ASSUME NEW base, NEW kw
  PROVE node_config_json(base, kw) # <<>> /\ node_config_json(base, kw).outs = kw.outs
BY DEF node_config_json

\* Nodes start with the catalog and without a cascade.
LEMMA InitCascade == CascadeInit => CascadeInv
<1> SUFFICES ASSUME CascadeInit PROVE CascadeInv
  OBVIOUS
<1>1. nodeRows \in [NodeIds -> Row \cup {<<>>}]
  BY DEF CascadeInit, FirstRow, Row, Roles
<1>2. \A n \in NodeIds : nodeRuns[n].outs = {}
  BY DEF CascadeInit
<1>3. CascadeTyped
  BY <1>1, <1>2 DEF CascadeInit, CascadeTyped, Base
<1>4. UuidsKept
  BY <1>2 DEF CascadeInit, UuidsKept, Kept
<1> QED BY <1>3, <1>4 DEF CascadeInv, CascadeInit, Heals

\* What an edit makes of a node's row: the uuid of an exit is kept.
LEMMA EditedRow ==
  ASSUME CascadeTyped, NEW n \in NodeIds, NEW new \in Modified(n)
  PROVE /\ Exists(n) /\ new \in Row /\ new # <<>>
        /\ nodeRows[n].uuid # 0 => new.uuid = nodeRows[n].uuid
<1>1. Exists(n)
  BY DEF Modified
<1>2. nodeRows[n] \in Row
  BY <1>1 DEF CascadeTyped, Exists
<1> DEFINE on == [nodeRows[n] EXCEPT !.on = TRUE]
<1>3. on \in Row /\ on.uuid = nodeRows[n].uuid /\ nodeRows[n].uuid \in Nat
  BY <1>2 DEF Row
<1>4. uuids + 1 \in Nat
  BY DEF CascadeTyped
<1>5. ASSUME NEW role \in Roles
      PROVE /\ _apply_node_role(on, role) \in Row
            /\ on.uuid # 0 => _apply_node_role(on, role).uuid = on.uuid
  BY <1>3, <1>4 DEF _apply_node_role, Row
<1>6. ASSUME NEW a \in {{}, Tags, {Other}}
      PROVE [on EXCEPT !.allowed = a] \in Row /\ [on EXCEPT !.allowed = a].uuid = on.uuid
  BY <1>3 DEF Row
<1>7. ASSUME NEW s \in SUBSET Route
      PROVE [on EXCEPT !.routes = s] \in Row /\ [on EXCEPT !.routes = s].uuid = on.uuid
  BY <1>3 DEF Row
<1>8. [on EXCEPT !.on = FALSE] \in Row /\ [on EXCEPT !.on = FALSE].uuid = on.uuid
  BY <1>3 DEF Row
<1>9. new \in Row /\ (nodeRows[n].uuid # 0 => new.uuid = nodeRows[n].uuid)
  BY <1>1, <1>3, <1>5, <1>6, <1>7, <1>8 DEF Modified
<1> QED BY <1>1, <1>9 DEF Row

\* Rows that edits leave or change keep the uuids that are in use.
LEMMA EditKeeps ==
  ASSUME CascadeTyped, NEW outs \in SUBSET Out, Kept(outs),
         \A m \in NodeIds : nodeRows'[m] # <<>> =>
             /\ Exists(m)
             /\ nodeRows[m].uuid # 0 => nodeRows'[m].uuid = nodeRows[m].uuid
  PROVE Kept(outs)'
BY DEF Kept, Exists, Out

LEMMA EditCascade ==
  ASSUME CascadeInv, NEW n \in NodeIds,
         (\E new \in Modified(n) : modify_node(n, new)) \/ remove_node(n)
  PROVE CascadeInv'
<1>1. /\ nodeRows' \in [NodeIds -> Row \cup {<<>>}]
      /\ \A m \in NodeIds : nodeRows'[m] # <<>> =>
             /\ Exists(m)
             /\ nodeRows[m].uuid # 0 => nodeRows'[m].uuid = nodeRows[m].uuid
      /\ uuids' \in Nat
  <2>1. CASE \E new \in Modified(n) : modify_node(n, new)
    <3>1. PICK new \in Modified(n) : modify_node(n, new)
      BY <2>1
    <3>2. nodeRows' = [nodeRows EXCEPT ![n] = new] /\ uuids' \in {uuids, uuids + 1}
      BY <3>1 DEF modify_node
    <3> QED BY <3>2, EditedRow DEF CascadeInv, CascadeTyped, Exists
  <2>2. CASE remove_node(n)
    <3>1. nodeRows' = [m \in NodeIds |->
                        IF m = n THEN <<>> ELSE IF ~Exists(m) THEN nodeRows[m]
                        ELSE [nodeRows[m] EXCEPT !.routes = {r \in @ : r.exit # n}]]
          /\ uuids' = uuids
      BY <2>2 DEF remove_node
    <3>2. ASSUME NEW m \in NodeIds, Exists(m)
          PROVE /\ [nodeRows[m] EXCEPT !.routes = {r \in @ : r.exit # n}] \in Row
                /\ [nodeRows[m] EXCEPT !.routes = {r \in @ : r.exit # n}].uuid = nodeRows[m].uuid
      BY <3>2 DEF CascadeInv, CascadeTyped, Exists, Row
    <3>3. ASSUME NEW m \in NodeIds
          PROVE /\ nodeRows'[m] \in Row \cup {<<>>}
                /\ nodeRows'[m] # <<>> => Exists(m) /\ nodeRows'[m].uuid = nodeRows[m].uuid
      BY <3>1, <3>2 DEF Exists
    <3> QED BY <3>1, <3>3 DEF CascadeInv, CascadeTyped
  <2> QED BY <2>1, <2>2
<1>2. /\ nodeRuns' = [nodeRuns EXCEPT ![n] = <<>>]
      /\ up' = up \ {n} /\ catalog' = catalog /\ healed' = FALSE
  BY DEF modify_node, remove_node
<1>3. \A t \in tasks' :
        /\ t \in CascadeThreads
        /\ t.kw # <<>> => \E u \in tasks : u.kw # <<>> /\ t.kw = u.kw
  <2>1. CASE \E new \in Modified(n) : modify_node(n, new)
    <3>1. ASSUME NEW u \in tasks
          PROVE /\ [u EXCEPT !.admin = @ /\ u.node # n] \in CascadeThreads
                /\ [u EXCEPT !.admin = @ /\ u.node # n].kw = u.kw
      BY DEF CascadeInv, CascadeTyped, CascadeThreads
    <3>2. ASSUME NEW w, w = Task(n, <<>>, FALSE) PROVE w \in CascadeThreads /\ w.kw = <<>>
      <4>1. <<>> \in Base \cup {<<>>}
        OBVIOUS
      <4> QED BY <3>2, <4>1, TaskTyped, Zenon
    <3>3. ASSUME NEW t \in tasks'
          PROVE \/ \E u \in tasks : t = [u EXCEPT !.admin = @ /\ u.node # n]
                \/ t = Task(n, <<>>, FALSE)
      <4> DEFINE freed == {[u EXCEPT !.admin = @ /\ u.node # n] : u \in tasks}
      <4>1. PICK new : tasks' = freed \cup (IF new.on THEN {Task(n, <<>>, FALSE)} ELSE {})
        BY <2>1, Zenon DEF modify_node
      <4>2. t \in freed \/ t \in {Task(n, <<>>, FALSE)}
        <5> HIDE DEF freed
        <5> QED BY <3>3, <4>1
      <4> QED BY <4>2, Zenon
    <3>4. ASSUME NEW t \in tasks'
          PROVE t \in CascadeThreads /\ (t.kw # <<>> => \E u \in tasks : u.kw # <<>> /\ t.kw = u.kw)
      <4>1. CASE \E u \in tasks : t = [u EXCEPT !.admin = @ /\ u.node # n]
        <5>1. PICK u \in tasks : t = [u EXCEPT !.admin = @ /\ u.node # n]
          BY <4>1, Zenon
        <5>2. t \in CascadeThreads /\ t.kw = u.kw
          BY <3>1, <5>1, Zenon
        <5> QED BY <5>2
      <4>2. CASE t = Task(n, <<>>, FALSE)
        BY <3>2, <4>2, Zenon
      <4> QED BY <3>3, <4>1, <4>2, Zenon
    <3> QED BY <3>4
  <2>2. CASE remove_node(n)
    BY <2>2 DEF remove_node, CascadeInv, CascadeTyped
  <2> QED BY <2>1, <2>2
<1>4. CascadeTyped'
  BY <1>1, <1>2, <1>3 DEF CascadeInv, CascadeTyped
<1>5. UuidsKept'
  <2>1. \A m \in NodeIds : nodeRuns'[m] # <<>> => nodeRuns'[m] = nodeRuns[m]
    BY <1>2 DEF CascadeInv, CascadeTyped
  <2>2. ASSUME NEW m \in NodeIds, nodeRuns'[m] # <<>> PROVE Kept(nodeRuns[m].outs)'
    BY <1>1, <2>1, <2>2, EditKeeps DEF CascadeInv, CascadeTyped, UuidsKept, Kept, Exists, Out
  <2>3. ASSUME NEW t \in tasks', t.kw # <<>> PROVE Kept(t.kw.outs)'
    <3>1. t.kw.outs \in SUBSET Out /\ Kept(t.kw.outs)
      BY <1>3, <2>3 DEF CascadeInv, UuidsKept, CascadeThreads, Kwargs
    <3> QED BY <1>1, <3>1, EditKeeps DEF CascadeInv
  <2> QED BY <2>1, <2>2, <2>3 DEF UuidsKept, Kept, Exists
<1> QED BY <1>2, <1>4, <1>5 DEF CascadeInv, Heals

\* A wave of restarts: a thread for every connected node, with the base it is
\* given.
LEMMA WaveCascade ==
  ASSUME CascadeInv, (\E t \in Tags, key \in 0 .. 2 : modify_core_config(t, key)) \/ restart_core
  PROVE CascadeInv'
<1>1. /\ catalog' \in Base /\ tasks' = tasks \cup Wave(catalog') /\ healed' = (tasks = {})
      /\ UNCHANGED <<nodeRows, uuids, nodeRuns, up>>
  BY DEF modify_core_config, restart_core, CascadeInv, CascadeTyped, Base
<1>2. \A w \in Wave(catalog') : w \in CascadeThreads /\ w.kw = <<>> /\ w.base = catalog'
  <2> SUFFICES ASSUME NEW m \in up, NEW w, w = Task(m, catalog', FALSE)
               PROVE w \in CascadeThreads /\ w.kw = <<>> /\ w.base = catalog'
    BY <1>1, Zenon DEF Wave
  <2>1. m \in NodeIds /\ catalog' \in Base \cup {<<>>}
    BY <1>1 DEF CascadeInv, CascadeTyped
  <2> QED BY <2>1, TaskTyped, Zenon
<1>3. CascadeTyped'
  BY <1>1, <1>2 DEF CascadeInv, CascadeTyped
<1>4. UuidsKept'
  BY <1>1, <1>2 DEF CascadeInv, UuidsKept, Kept, Exists
<1>5. Heals'
  <2> SUFFICES ASSUME tasks = {} PROVE Heals'
    BY <1>1 DEF Heals
  <2>1. tasks' = Wave(catalog')
    BY <1>1
  <2>2. ASSUME NEW m \in up' PROVE \E w \in tasks' : w.node = m /\ w.base # <<>>
    <3>1. Task(m, catalog', FALSE) \in tasks'
      BY <1>1, <2>1 DEF Wave
    <3> QED BY <1>1, <3>1, CatalogIsThere DEF Task
  <2> QED BY <1>2, <2>1, <2>2 DEF Heals
<1> QED BY <1>3, <1>4, <1>5 DEF CascadeInv

\* A reconnect, the health check, a lost connection and its restoration.
LEMMA LinkCascade ==
  ASSUME CascadeInv, NEW n \in NodeIds,
         reconnect_node(n) \/ core_health_check(n) \/ Blip(n) \/ Restores(n)
  PROVE CascadeInv'
<1>1. UNCHANGED <<nodeRows, catalog, uuids, nodeRuns>> /\ up' \subseteq NodeIds
  BY DEF reconnect_node, core_health_check, Blip, Restores, CascadeInv, CascadeTyped
<1>2. /\ tasks \subseteq tasks'
      /\ \A t \in tasks' \ tasks : t \in CascadeThreads /\ t.kw = <<>> /\ t.base = <<>>
      /\ healed' => healed /\ up' = up
  <2>1. \/ tasks' = tasks /\ healed' = FALSE
        \/ \E task \in {Task(n, <<>>, FALSE), Task(n, <<>>, TRUE)} : 
              tasks' = tasks \cup {task} /\ healed' = healed /\ up' = up
    BY DEF reconnect_node, core_health_check, Blip, Restores
  <2>2. <<>> \in Base \cup {<<>>}
    OBVIOUS
  <2>3. \A task \in {Task(n, <<>>, FALSE), Task(n, <<>>, TRUE)} :
           task \in CascadeThreads /\ task.kw = <<>> /\ task.base = <<>>
    <3>1. ASSUME NEW task, task \in {Task(n, <<>>, FALSE), Task(n, <<>>, TRUE)}
          PROVE task \in CascadeThreads /\ task.kw = <<>> /\ task.base = <<>>
      <4>1. CASE task = Task(n, <<>>, FALSE)
        BY <2>2, <4>1, TaskTyped, Zenon
      <4>2. CASE task = Task(n, <<>>, TRUE)
        BY <2>2, <4>2, AdminTaskTyped, Zenon
      <4> QED BY <3>1, <4>1, <4>2, Zenon
    <3> QED BY <3>1, Zenon
  <2>4. \/ tasks' = tasks /\ healed' = FALSE
        \/ \E task : /\ task \in CascadeThreads /\ task.kw = <<>> /\ task.base = <<>>
                     /\ tasks' = tasks \cup {task} /\ healed' = healed /\ up' = up
    BY <2>1, <2>3, Zenon
  <2> QED BY <2>4
<1>3. CascadeTyped'
  BY <1>1, <1>2 DEF CascadeInv, CascadeTyped
<1>4. UuidsKept'
  BY <1>1, <1>2 DEF CascadeInv, UuidsKept, Kept, Exists
<1>5. \A m : Current(m)' = Current(m) /\ _cascade_kwargs(m)' = _cascade_kwargs(m)
  BY <1>1 DEF Current, _cascade_kwargs, ExitClients, EntryRoutes, Exists, node_config_json
<1>6. Heals'
  BY <1>1, <1>2, <1>5 DEF CascadeInv, Heals, Exists
<1> QED BY <1>3, <1>4, <1>6 DEF CascadeInv

\* A thread reads the node's row, or takes the base.
LEMMA ThreadCascade ==
  ASSUME CascadeInv, NEW t \in tasks, Reads(t) \/ Takes(t)
  PROVE CascadeInv'
<1>1. UNCHANGED <<nodeRows, catalog, uuids, nodeRuns, up, healed>>
  BY DEF Reads, Takes
<1>2. t \in CascadeThreads
  BY DEF CascadeInv, CascadeTyped
<1> DEFINE next(u) == /\ u \in CascadeThreads /\ u.node = t.node
                      /\ t.base # <<>> => u.base # <<>>
                      /\ u.base # <<>> => u.base \in {t.base, catalog}
                      /\ u.kw # <<>> => u.kw = t.kw \/ (u.kw = _cascade_kwargs(t.node) /\ Exists(t.node))
<1>3. \/ \E u : next(u) /\ tasks' = (tasks \ {t}) \cup {u}
      \/ /\ tasks' = tasks \ {t}
         /\ t.base # <<>> => ~Exists(t.node) \/ t.node \notin up
  <2>1. CASE Reads(t)
    <3>1. CASE /\ Exists(t.node)
               /\ IF t.base = <<>> THEN nodeRows[t.node].on ELSE t.node \in up
      <4> DEFINE u == [t EXCEPT !.kw = ReadRow(t)]
      <4>1. tasks' = (tasks \ {t}) \cup {u}
        BY <2>1, <3>1 DEF Reads
      <4>2. ReadRow(t) \in Kwargs /\ ReadRow(t) = _cascade_kwargs(t.node)
        BY <1>2, <3>1, KwargsTyped DEF ReadRow, CascadeInv, CascadeThreads
      <4>3. next(u)
        BY <1>2, <3>1, <4>2 DEF CascadeThreads
      <4> QED BY <4>1, <4>3
    <3>2. CASE ~ /\ Exists(t.node)
                 /\ IF t.base = <<>> THEN nodeRows[t.node].on ELSE t.node \in up
      BY <2>1, <3>2 DEF Reads
    <3> QED BY <3>1, <3>2
  <2>2. CASE Takes(t)
    <3> DEFINE u == [t EXCEPT !.base = catalog]
    <3>1. tasks' = (tasks \ {t}) \cup {u} /\ t.base = <<>>
      BY <2>2 DEF Takes
    <3>2. next(u)
      BY <1>2, <3>1 DEF CascadeThreads, CascadeInv, CascadeTyped
    <3> QED BY <3>1, <3>2
  <2> QED BY <2>1, <2>2
<1>4. \A m : Current(m)' = Current(m) /\ _cascade_kwargs(m)' = _cascade_kwargs(m)
  BY <1>1 DEF Current, _cascade_kwargs, ExitClients, EntryRoutes, Exists, node_config_json
<1>5. CascadeTyped'
  BY <1>1, <1>3 DEF CascadeInv, CascadeTyped
<1>6. UuidsKept'
  <2>1. \A n \in NodeIds : nodeRuns'[n] # <<>> => Kept(nodeRuns'[n].outs)
    BY <1>1 DEF CascadeInv, UuidsKept
  <2>2. ASSUME NEW u \in tasks', u.kw # <<>> PROVE Kept(u.kw.outs)
    <3>1. CASE u \in tasks
      BY <2>2, <3>1 DEF CascadeInv, UuidsKept
    <3>2. CASE u \notin tasks
      <4>1. next(u)
        BY <1>3, <3>2
      <4>2. CASE u.kw = t.kw
        BY <2>2, <4>2 DEF CascadeInv, UuidsKept
      <4>3. CASE u.kw = _cascade_kwargs(t.node) /\ Exists(t.node)
        BY <1>2, <4>3, KwargsTyped DEF CascadeInv, CascadeThreads
      <4> QED BY <2>2, <4>1, <4>2, <4>3
    <3> QED BY <3>1, <3>2
  <2>3. \A outs : Kept(outs) => Kept(outs)'
    BY <1>1 DEF Kept, Exists
  <2> QED BY <2>1, <2>2, <2>3 DEF UuidsKept
<1>7. Heals'
  <2> SUFFICES ASSUME healed PROVE Heals'
    BY <1>1 DEF Heals
  <2>1. ASSUME NEW u \in tasks'
        PROVE /\ u.base # <<>> => u.base = catalog
              /\ u.kw # <<>> => u.kw = _cascade_kwargs(u.node)
    BY <1>2, <1>3 DEF CascadeInv, Heals
  <2>2. ASSUME NEW m \in up, Exists(m), nodeRuns[m] # Current(m)
        PROVE \E u \in tasks' : u.node = m /\ u.base # <<>>
    <3>1. PICK w \in tasks : w.node = m /\ w.base # <<>>
      BY <2>2 DEF CascadeInv, Heals
    <3> QED BY <1>3, <2>2, <3>1
  <2> QED BY <1>1, <1>4, <2>1, <2>2 DEF Heals, Exists
<1> QED BY <1>5, <1>6, <1>7 DEF CascadeInv

\* A thread pushes what it has built, or fails.
LEMMA PushCascade ==
  ASSUME CascadeInv, NEW t \in tasks, Pushes(t) \/ (\E stopped \in BOOLEAN : Fails(t, stopped))
  PROVE CascadeInv'
<1>1. /\ t \in CascadeThreads /\ t.kw # <<>> /\ t.base # <<>> /\ tasks' = tasks \ {t}
      /\ UNCHANGED <<nodeRows, catalog, uuids>>
  BY DEF Pushes, Fails, CascadeInv, CascadeTyped
<1> DEFINE built == node_config_json(t.base, t.kw)
<1>2. /\ built # <<>> /\ built.outs = t.kw.outs
      /\ t.kw.outs \in SUBSET Out /\ Kept(t.kw.outs) /\ t.node \in NodeIds
  BY <1>1, ConfigIsThere DEF CascadeThreads, Kwargs, CascadeInv, UuidsKept
<1> HIDE DEF built
<1>3. \/ nodeRuns' = [nodeRuns EXCEPT ![t.node] = built] /\ up' = up \cup {t.node} /\ healed' = healed
      \/ (nodeRuns' = [nodeRuns EXCEPT ![t.node] = <<>>] \/ nodeRuns' = nodeRuns)
         /\ up' = up \ {t.node} /\ healed' = FALSE
  BY DEF Pushes, Fails, built
<1>4. CascadeTyped'
  BY <1>1, <1>2, <1>3 DEF CascadeInv, CascadeTyped
<1>5. UuidsKept'
  <2>1. \A outs : Kept(outs) => Kept(outs)'
    BY <1>1 DEF Kept, Exists
  <2>2. \A n \in NodeIds : nodeRuns'[n] # <<>> => Kept(nodeRuns'[n].outs)
    BY <1>2, <1>3 DEF CascadeInv, CascadeTyped, UuidsKept
  <2>3. \A u \in tasks' : u.kw # <<>> => Kept(u.kw.outs)
    BY <1>1 DEF CascadeInv, UuidsKept
  <2> QED BY <2>1, <2>2, <2>3 DEF UuidsKept
<1>6. Heals'
  <2> SUFFICES ASSUME healed, healed',
                      nodeRuns' = [nodeRuns EXCEPT ![t.node] = built], up' = up \cup {t.node}
               PROVE Heals'
    BY <1>3 DEF Heals
  <2>1. \A m : Current(m)' = Current(m) /\ _cascade_kwargs(m)' = _cascade_kwargs(m)
    BY <1>1 DEF Current, _cascade_kwargs, ExitClients, EntryRoutes, Exists, node_config_json
  <2>2. built = Current(t.node)
    BY <1>1 DEF built, Current, CascadeInv, Heals
  <2>3. ASSUME NEW m \in up', Exists(m)'
        PROVE \/ nodeRuns'[m] = Current(m)
              \/ \E u \in tasks' : u.node = m /\ u.base # <<>>
    <3>1. CASE m = t.node
      BY <1>2, <2>2, <3>1 DEF CascadeInv, CascadeTyped
    <3>2. CASE m # t.node
      BY <1>1, <2>3, <3>2 DEF CascadeInv, CascadeTyped, Heals, Exists
    <3> QED BY <3>1, <3>2
  <2> QED BY <1>1, <2>1, <2>3 DEF CascadeInv, Heals
<1> QED BY <1>4, <1>5, <1>6 DEF CascadeInv

\* Every step keeps the invariant.
LEMMA NextCascade == CascadeInv /\ [CascadeNext]_cascadeVars => CascadeInv'
<1> SUFFICES ASSUME CascadeInv, [CascadeNext]_cascadeVars PROVE CascadeInv'
  OBVIOUS
<1>1. CASE UNCHANGED cascadeVars
  <2>1. UNCHANGED <<nodeRows, catalog, uuids, nodeRuns, up, tasks, healed>>
    BY <1>1 DEF cascadeVars
  <2>2. CascadeTyped' /\ UuidsKept'
    BY <2>1 DEF CascadeInv, CascadeTyped, UuidsKept, Kept, Exists
  <2>3. \A m : Current(m)' = Current(m) /\ _cascade_kwargs(m)' = _cascade_kwargs(m)
    BY <2>1 DEF Current, _cascade_kwargs, ExitClients, EntryRoutes, Exists, node_config_json
  <2>4. Heals'
    BY <2>1, <2>3 DEF CascadeInv, Heals, Exists
  <2> QED BY <2>2, <2>4 DEF CascadeInv
<1>2. CASE CascadeNext
  BY <1>2, EditCascade, WaveCascade, LinkCascade, ThreadCascade, PushCascade DEF CascadeNext
<1> QED BY <1>1, <1>2

\* Both halves of a cascade are made from the same rows.
LEMMA HalvesFit == CascadeTyped => CascadeAccepted
<1> SUFFICES ASSUME CascadeTyped,
                    NEW n \in NodeIds, Exists(n), nodeRuns[n] = Current(n),
                    NEW o \in nodeRuns[n].outs,
                    nodeRuns[o.exit] = Current(o.exit), nodeRows[o.exit].role = "exit",
                    Has(o.exit, o.inb)
             PROVE Accepts(o)
  BY DEF CascadeAccepted
<1>1. o \in EntryRoutes(n)
  BY DEF Current, node_config_json, _cascade_kwargs
<1>2. PICK r \in nodeRows[n].routes :
        /\ Exists(r.exit) /\ nodeRows[r.exit].uuid # 0
        /\ o = [exit |-> r.exit, inb |-> r.inb, uuid |-> nodeRows[r.exit].uuid,
                key |-> catalog[r.inb]]
  BY <1>1 DEF EntryRoutes
<1>3. r.exit \in NodeIds /\ r.inb \in Tags
  BY <1>2 DEF CascadeTyped, Exists, Row, Route
<1> DEFINE inbs == IF nodeRows[o.exit].allowed = {} THEN Tags ELSE nodeRows[o.exit].allowed \cap Tags
           clients == {c \in ExitClients(o.exit) : c[1] \in inbs}
<1>4. o.inb \in inbs
  BY <1>2, <1>3 DEF Has
<1>5. <<o.inb, o.uuid>> \in ExitClients(o.exit)
  BY <1>2 DEF ExitClients
<1>6. nodeRuns[o.exit].keys = [t \in inbs |-> catalog[t]] /\ nodeRuns[o.exit].clients = clients
  BY <1>2 DEF Current, node_config_json, _cascade_kwargs
<1>7. <<o.inb, o.uuid>> \in clients
  BY <1>4, <1>5
<1>8. nodeRuns[o.exit] # <<>>
  BY ConfigIsThere DEF Current
<1>9. o.key = catalog[o.inb]
  BY <1>2
<1> QED BY <1>4, <1>6, <1>7, <1>8, <1>9 DEF Accepts

\* The halves of a cascade fit, its uuid outlives every change of the exit's role,
\* and a restart of everything leaves nothing stale, for any number of nodes,
\* inbounds, routes, edits and failures (_cascade_kwargs, _apply_node_role).
THEOREM CascadesSound == CascadeSpec => []CascadeSound
<1>1. CascadeInv => CascadeSound
  BY HalvesFit DEF CascadeInv, UuidsKept, Kept, Heals, CascadeSound, UuidStays, RestartHeals
<1> QED BY <1>1, InitCascade, NextCascade, PTL DEF CascadeSpec

(***************************************************************************)
(* Documents of client configurations: the bodies in the process are the   *)
(* last ones once nobody has to invalidate them, a host is served with the *)
(* document it is bound to, and no version is lost.                        *)
(***************************************************************************)

\* Documents and calls are what they should be; ids are given in order.
DocTyped ==
  /\ docs \in [Ids -> Seq(Int) \cup {NoDoc}]
  /\ lastDoc \in Nat /\ saves \in Nat
  /\ \A d \in Live : d <= lastDoc
  /\ DOMAIN docCalls = Savers
  /\ \A t \in Savers : /\ Doing(t, "append") => docCalls[t].doc \in Ids /\ docCalls[t].body \in Int
                       /\ Doing(t, "create") => docCalls[t].doc \in Ids

\* What a subscription has loaded, and what the cache holds once no commit waits
\* for its invalidation, are the active bodies.
BodiesFresh ==
  ~loadCrossed =>
    /\ \A t \in Savers : Doing(t, "load") => docCalls[t].bodies = Active
    /\ NobodyWrites => bodyCache \in {NoDoc, Active}

\* A document that the database names, or that is gone for good while the
\* database names none.
Fits(d) == d = binding \/ (binding = NoDoc /\ d \in Ids \ Live /\ d <= lastDoc)

\* Such a one is what a refresh has read, and what xray.hosts holds once every
\* refresh has begun.
HostBound ==
  ~hostCrossed =>
    /\ \A t \in Savers : Doing(t, "store") => Fits(docCalls[t].doc)
    /\ NobodyRefreshes => hostCache = Unread \/ Fits(hostCache)

\* The invariant.
DocInv == DocTyped /\ BodiesFresh /\ HostBound

\* Bodies are read as bodies.
LEMMA ActiveTyped == ASSUME DocTyped PROVE Active \in [Ids -> Int]
<1>1. ASSUME NEW d \in Ids, d \in Live, docs[d] # <<>> PROVE Last(docs[d]) \in Int
  <2>1. docs[d] \in Seq(Int)
    BY <1>1 DEF DocTyped, Live
  <2>2. Len(docs[d]) \in Nat \ {0} /\ Len(docs[d]) \in 1 .. Len(docs[d])
    BY <1>1, <2>1, EmptySeq
  <2> QED BY <2>1, <2>2, ElementOfSeq DEF Last
<1> QED BY <1>1 DEF Active, Empty

LEMMA SelectedTyped ==
  ASSUME DocTyped, NEW d \in Ids \cup {NoDoc}
  PROVE Selected(Active, d) \in Int
BY ActiveTyped, DocAssumption DEF Selected, FileBody, Ids, Default

\* A commit of a document's new bodies, and of its end.
LEMMA CommitKeeps ==
  ASSUME DocInv, NEW t \in Savers, NEW d \in Ids, NEW bodies \in Seq(Int) \cup {NoDoc},
         d \in Live, docs' = [docs EXCEPT ![d] = bodies],
         docCalls' = [docCalls EXCEPT ![t] = [op |-> "invalidate"]], Crosses,
         binding' = (IF bodies = NoDoc /\ binding = d THEN NoDoc ELSE binding),
         ~Doing(t, "refresh"), saves' \in Nat,
         UNCHANGED <<lastDoc, hostCache, bodyCache, hostCrossed>>
  PROVE DocInv'
<1>1. docs' \in [Ids -> Seq(Int) \cup {NoDoc}] /\ Live' \subseteq Live
  BY DEF DocInv, DocTyped, Live
<1>2. Doing(t, "invalidate")' /\ \A o \in Savers \ {t} : docCalls'[o] = docCalls[o]
  BY DocAssumption DEF DocInv, DocTyped, Doing
<1>3. DocTyped'
  BY <1>1, <1>2 DEF DocInv, DocTyped, Doing
<1>4. BodiesFresh'
  BY <1>2 DEF Crosses, BodiesFresh, NobodyWrites, Doing
<1>5. HostBound'
  <2>1. d <= lastDoc
    BY DEF DocInv, DocTyped
  <2>2. ASSUME NEW h, Fits(h) PROVE Fits(h)'
    BY <1>1, <2>1, <2>2 DEF DocInv, DocTyped, Fits, Live
  <2>3. NobodyRefreshes' => NobodyRefreshes
    BY <1>2 DEF NobodyRefreshes, Doing
  <2>4. ASSUME NEW o \in Savers, Doing(o, "store")' PROVE docCalls'[o] = docCalls[o] /\ Doing(o, "store")
    BY <1>2, <2>4 DEF Doing
  <2>5. hostCache' = hostCache /\ hostCrossed' = hostCrossed
    OBVIOUS
  <2> QED BY <2>2, <2>3, <2>4, <2>5 DEF DocInv, HostBound
<1> QED BY <1>3, <1>4, <1>5 DEF DocInv

\* A step that changes no body that is read, and nobody's turn to invalidate.
LEMMA CallKeeps ==
  ASSUME DocInv, NEW t \in Savers, NEW c, docCalls' = [docCalls EXCEPT ![t] = c],
         ~Doing(t, "invalidate"), ~Doing(t, "refresh"),
         c = NoCall \/ c.op \notin {"load", "invalidate", "store"},
         c # NoCall /\ c.op = "append" => c.doc \in Ids /\ c.body \in Int,
         c # NoCall /\ c.op = "create" => c.doc \in Ids,
         saves' \in Nat,
         UNCHANGED <<docs, lastDoc, binding, hostCache, bodyCache, loadCrossed, hostCrossed>>
  PROVE DocInv'
<1>1. docCalls'[t] = c /\ \A o \in Savers \ {t} : docCalls'[o] = docCalls[o]
  BY DEF DocInv, DocTyped
<1>2. Live' = Live /\ Active' = Active
  BY DEF Live, Active
<1>3. DocTyped'
  BY <1>1, <1>2 DEF DocInv, DocTyped, Doing
<1>4. BodiesFresh'
  BY <1>1, <1>2 DEF DocInv, BodiesFresh, NobodyWrites, Doing
<1>5. HostBound'
  <2>1. \A h : Fits(h)' <=> Fits(h)
    BY <1>2 DEF Fits
  <2> QED BY <1>1, <2>1 DEF DocInv, HostBound, NobodyRefreshes, Doing
<1> QED BY <1>3, <1>4, <1>5 DEF DocInv

\* Saving and reverting only read until they commit.
LEMMA SaveKeeps ==
  ASSUME DocInv, NEW t \in Savers, NEW d \in Live,
         \/ \E body \in {Empty, saves + 1} : save_version(t, d, body)
         \/ \E v \in DOMAIN docs[d] : revert(t, d, v)
  PROVE DocInv'
<1>1. d \in Ids /\ docs[d] \in Seq(Int) /\ saves \in Nat
  BY DEF DocInv, DocTyped, Live
<1>2. PICK body \in Int : /\ BeginSave(t, Append_(d, body))
                          /\ UNCHANGED <<docs, lastDoc, binding, hostCache, bodyCache, loadCrossed,
                                         hostCrossed>>
  BY <1>1, ElementOfSeq, LenProperties DEF save_version, revert, Empty
<1>3. /\ saves' \in Nat /\ ~Doing(t, "invalidate") /\ ~Doing(t, "refresh")
      /\ docCalls' = [docCalls EXCEPT ![t] = Append_(d, body)]
  BY <1>1, <1>2 DEF BeginSave, Doing
<1>4. Append_(d, body).op = "append" /\ Append_(d, body).doc = d /\ Append_(d, body).body = body
  BY DEF Append_
<1> QED BY <1>1, <1>2, <1>3, <1>4, CallKeeps

\* A deletion is a commit.
LEMMA DeleteKeeps ==
  ASSUME DocInv, NEW t \in Savers, NEW d \in Live, delete_config(t, d)
  PROVE DocInv'
<1>1. saves' \in Nat /\ d \in Ids /\ ~Doing(t, "refresh")
  BY DEF delete_config, BeginSave, DocInv, DocTyped, Live, Doing
<1> QED BY <1>1, CommitKeeps DEF delete_config, BeginSave

\* So is a version, unless another one took its number.
LEMMA CommitVersionKeeps ==
  ASSUME DocInv, NEW t \in Savers, CommitVersion(t)
  PROVE DocInv'
<1> DEFINE c == docCalls[t]
<1>1. c.doc \in Ids /\ c.body \in Int /\ saves' \in Nat /\ ~Doing(t, "invalidate") /\ ~Doing(t, "refresh")
  BY DEF CommitVersion, DocInv, DocTyped, Doing
<1>2. CASE c.doc \in Live /\ c.version = Len(docs[c.doc]) + 1
  <2>1. docs[c.doc] \in Seq(Int) /\ Append(docs[c.doc], c.body) \in Seq(Int) /\ NoDoc \notin Seq(Int)
    BY <1>1, <1>2, DocAssumption DEF DocInv, DocTyped, Live
  <2>2. docs' = [docs EXCEPT ![c.doc] = Append(docs[c.doc], c.body)]
    BY <1>2 DEF CommitVersion
  <2>3. /\ docCalls' = [docCalls EXCEPT ![t] = [op |-> "invalidate"]] /\ Crosses
        /\ UNCHANGED <<lastDoc, binding, hostCache, bodyCache, saves, hostCrossed>>
    BY <1>2 DEF CommitVersion, SaveGoes
  <2> HIDE DEF c
  <2> QED BY <1>1, <1>2, <2>1, <2>2, <2>3, CommitKeeps
<1>3. CASE ~(c.doc \in Live /\ c.version = Len(docs[c.doc]) + 1)
  BY <1>1, <1>3, CallKeeps DEF CommitVersion, SaveGoes
<1> QED BY <1>2, <1>3

\* A new document has an id that no document had: nothing that is read changes.
LEMMA CreateKeeps ==
  ASSUME DocInv, ~ReuseIds, NEW t \in Savers, create_config(t)
  PROVE DocInv' /\ NextId \notin Live
<1>1. NextId = lastDoc + 1 /\ NextId \in Ids /\ NextId \notin Live /\ lastDoc' = lastDoc + 1
  BY DEF create_config, NextId, DocInv, DocTyped
<1>2. docs' = [docs EXCEPT ![NextId] = <<>>] /\ <<>> \in Seq(Int)
  BY EmptySeq DEF create_config
<1>3. /\ saves' \in Nat /\ ~Doing(t, "invalidate")
      /\ docCalls' = [docCalls EXCEPT ![t] = [op |-> "create", doc |-> NextId]]
      /\ ~Doing(t, "refresh") /\ UNCHANGED <<binding, hostCache, bodyCache, loadCrossed, hostCrossed>>
  BY DEF create_config, BeginSave, Doing, DocInv, DocTyped
<1>4. docs' \in [Ids -> Seq(Int) \cup {NoDoc}] /\ Live' \subseteq Live \cup {NextId}
  BY <1>1, <1>2 DEF DocInv, DocTyped, Live
<1>5. Active' = Active
  <2>1. ASSUME NEW d \in Ids
        PROVE (d \in Live' /\ docs'[d] # <<>>) <=> (d \in Live /\ docs[d] # <<>>)
    BY <1>1, <1>2 DEF DocInv, DocTyped, Live
  <2>2. ASSUME NEW d \in Ids, d \in Live PROVE docs'[d] = docs[d]
    BY <1>1, <1>2, <2>2 DEF DocInv, DocTyped
  <2> QED BY <2>1, <2>2 DEF Active
<1>6. DocTyped'
  <2>1. \A d \in Live' : d <= lastDoc'
    BY <1>1, <1>4 DEF DocInv, DocTyped, Live, Ids
  <2>2. \A o \in Savers : docCalls'[o] = IF o = t THEN [op |-> "create", doc |-> NextId] ELSE docCalls[o]
    BY <1>3 DEF DocInv, DocTyped
  <2>3. \A o \in Savers :
          /\ Doing(o, "append")' => docCalls'[o].doc \in Ids /\ docCalls'[o].body \in Int
          /\ Doing(o, "create")' => docCalls'[o].doc \in Ids
    BY <1>1, <2>2 DEF DocInv, DocTyped, Doing
  <2>4. /\ docs' \in [Ids -> Seq(Int) \cup {NoDoc}]
        /\ lastDoc' \in Nat /\ saves' \in Nat /\ DOMAIN docCalls' = Savers
    BY <1>1, <1>3, <1>4 DEF DocInv, DocTyped
  <2> QED BY <2>1, <2>3, <2>4 DEF DocTyped, Doing
<1>7. BodiesFresh'
  BY <1>3, <1>5 DEF DocInv, DocTyped, BodiesFresh, NobodyWrites, Doing
<1>8. HostBound'
  <2>1. ASSUME NEW h, Fits(h) PROVE Fits(h)'
    <3>1. CASE h = binding
      BY <1>3, <3>1 DEF Fits
    <3>2. CASE binding = NoDoc /\ h \in Ids \ Live /\ h <= lastDoc
      <4>1. h \in Int /\ lastDoc \in Int
        BY <3>2 DEF Ids, DocInv, DocTyped
      <4>2. h <= lastDoc' /\ h # NextId
        BY <1>1, <3>2, <4>1
      <4> QED BY <1>3, <1>4, <3>2, <4>2 DEF Fits
    <3> QED BY <2>1, <3>1, <3>2 DEF Fits
  <2>2. \A o \in Savers : /\ Doing(o, "store")' => docCalls'[o] = docCalls[o] /\ Doing(o, "store")
                          /\ Doing(o, "refresh") => Doing(o, "refresh")'
    BY <1>3 DEF DocInv, DocTyped, Doing
  <2> QED BY <1>3, <2>1, <2>2 DEF DocInv, HostBound, NobodyRefreshes
<1> QED BY <1>1, <1>6, <1>7, <1>8 DEF DocInv

\* The first version of a document is read from the default one.
LEMMA FirstVersionKeeps ==
  ASSUME DocInv, NEW t \in Savers, FirstVersion(t)
  PROVE DocInv'
<1> DEFINE d == docCalls[t].doc
           c == IF d \in Live THEN Append_(d, Selected(Active, NoDoc)) ELSE NoCall
<1>1. /\ d \in Ids /\ saves' \in Nat /\ ~Doing(t, "invalidate") /\ ~Doing(t, "refresh")
      /\ Selected(Active, NoDoc) \in Int
  BY SelectedTyped DEF FirstVersion, DocInv, DocTyped, Doing
<1>2. c = NoCall \/ (c.op = "append" /\ c.doc = d /\ c.body = Selected(Active, NoDoc))
  BY DEF Append_
<1>3. docCalls' = [docCalls EXCEPT ![t] = c]
      /\ UNCHANGED <<docs, lastDoc, binding, hostCache, bodyCache, loadCrossed, hostCrossed>>
  BY DEF FirstVersion, SaveGoes
<1> HIDE DEF c, d
<1> QED BY <1>1, <1>2, <1>3, CallKeeps

\* Loading, storing and clearing the active bodies.
LEMMA CacheKeeps ==
  ASSUME DocInv, NEW t \in Savers, LoadBodies(t) \/ get_cached_active_bodies(t) \/ invalidate(t)
  PROVE DocInv'
<1>1. ~Doing(t, "refresh") /\ UNCHANGED <<docs, lastDoc, binding, hostCache, saves, loadCrossed, hostCrossed>>
  BY DEF LoadBodies, get_cached_active_bodies, invalidate, Doing
<1>2. Live' = Live /\ Active' = Active /\ \A h : Fits(h)' <=> Fits(h)
  BY <1>1 DEF Live, Active, Fits
<1>3. PICK c \in {NoCall, [op |-> "load", bodies |-> Active]} : docCalls' = [docCalls EXCEPT ![t] = c]
  BY DEF LoadBodies, get_cached_active_bodies, invalidate, SaveGoes
<1>4. docCalls'[t] = c /\ \A o \in Savers \ {t} : docCalls'[o] = docCalls[o]
  BY <1>3 DEF DocInv, DocTyped
<1>5. DocTyped'
  BY <1>1, <1>2, <1>3, <1>4 DEF DocInv, DocTyped, Doing
<1>6. BodiesFresh'
  <2>1. CASE LoadBodies(t)
    BY <1>1, <1>2, <1>3, <1>4, <2>1 DEF LoadBodies, DocInv, BodiesFresh, NobodyWrites, Doing
  <2>2. CASE get_cached_active_bodies(t)
    <3>1. bodyCache' = docCalls[t].bodies /\ Doing(t, "load") /\ c = NoCall
      BY <1>4, <2>2 DEF get_cached_active_bodies, SaveGoes, DocInv, DocTyped
    <3> QED BY <1>1, <1>2, <1>4, <3>1 DEF DocInv, BodiesFresh, NobodyWrites, Doing
  <2>3. CASE invalidate(t)
    <3>1. bodyCache' = NoDoc /\ c = NoCall
      BY <1>4, <2>3 DEF invalidate, SaveGoes, DocInv, DocTyped
    <3> QED BY <1>1, <1>2, <1>4, <3>1 DEF DocInv, BodiesFresh, Doing
  <2> QED BY <2>1, <2>2, <2>3
<1>7. HostBound'
  BY <1>1, <1>2, <1>3, <1>4 DEF DocInv, HostBound, NobodyRefreshes, Doing
<1> QED BY <1>5, <1>6, <1>7 DEF DocInv

\* What PUT /hosts and a refresh only read or announce.
LEMMA RefreshBegins ==
  ASSUME DocInv, NEW t \in Savers,
         \/ \E d \in Live \cup {NoDoc} : modify_hosts(t, d)
         \/ RefreshHosts(t) \/ RefillHosts(t)
  PROVE DocInv'
<1>1. PICK c \in {[op |-> "refresh"], [op |-> "refill"]}
                   \cup {[op |-> "bind", doc |-> d] : d \in Live \cup {NoDoc}} :
        docCalls' = [docCalls EXCEPT ![t] = c]
  BY DEF modify_hosts, RefreshHosts, RefillHosts, BeginSave, SaveGoes
<1>2. /\ docCalls[t] = NoCall /\ saves' \in Nat
      /\ UNCHANGED <<docs, lastDoc, binding, hostCache, bodyCache, loadCrossed, hostCrossed>>
  BY DEF modify_hosts, RefreshHosts, RefillHosts, BeginSave, DocInv, DocTyped
<1> QED BY <1>1, <1>2, CallKeeps DEF Doing

\* The commit of PUT /hosts owes a refresh; a refresh that has read before it is
\* remembered as crossed.
LEMMA BindingKeeps ==
  ASSUME DocInv, ~ReuseIds, NEW t \in Savers, CommitBinding(t)
  PROVE DocInv'
<1> DEFINE d == docCalls[t].doc
<1>1. CASE d \in Live \cup {NoDoc}
  <2>1. /\ docCalls' = [docCalls EXCEPT ![t] = [op |-> "refresh"]]
        /\ hostCrossed' = (hostCrossed \/ \E o \in Savers : Doing(o, "store"))
        /\ UNCHANGED <<docs, lastDoc, hostCache, bodyCache, saves, loadCrossed>> /\ Doing(t, "bind")
    <3>1. d \in Live \cup {NoDoc} \/ ReuseIds
      BY <1>1
    <3> HIDE DEF d
    <3> QED BY <3>1 DEF CommitBinding, SaveGoes, d
  <2>2. Live' = Live /\ Active' = Active
    BY <2>1 DEF Live, Active
  <2>3. docCalls'[t] = [op |-> "refresh"] /\ \A o \in Savers \ {t} : docCalls'[o] = docCalls[o]
    BY <2>1 DEF DocInv, DocTyped
  <2>4. Doing(t, "refresh")' /\ [op |-> "refresh"] # NoCall
    BY <2>3, DocAssumption DEF Doing
  <2>5. DocTyped'
    <3>1. DOMAIN docCalls' = Savers /\ saves' \in Nat
      BY <2>1 DEF DocInv, DocTyped
    <3>2. \A o \in Savers \ {t}, op \in {"append", "create"} : Doing(o, op)' = Doing(o, op)
      BY <2>3 DEF Doing
    <3>3. ~Doing(t, "append")' /\ ~Doing(t, "create")'
      BY <2>3 DEF Doing
    <3>4. \A o \in Savers :
            /\ Doing(o, "append")' => docCalls'[o].doc \in Ids /\ docCalls'[o].body \in Int
            /\ Doing(o, "create")' => docCalls'[o].doc \in Ids
      BY <2>3, <3>2, <3>3 DEF DocInv, DocTyped
    <3> QED BY <2>1, <2>2, <3>1, <3>4 DEF DocInv, DocTyped
  <2>6. BodiesFresh'
    BY <2>1, <2>2, <2>3 DEF DocInv, BodiesFresh, NobodyWrites, Doing
  <2>7. HostBound'
    BY <2>1, <2>3, <2>4 DEF DocInv, HostBound, NobodyRefreshes, Doing
  <2> QED BY <2>5, <2>6, <2>7 DEF DocInv
<1>2. CASE d \notin Live \cup {NoDoc}
  <2>1. /\ docCalls' = [docCalls EXCEPT ![t] = NoCall] /\ Doing(t, "bind") /\ saves' \in Nat
        /\ UNCHANGED <<docs, lastDoc, binding, hostCache, bodyCache, loadCrossed, hostCrossed>>
    BY <1>2 DEF CommitBinding, SaveGoes, DocInv, DocTyped
  <2> QED BY <2>1, CallKeeps DEF Doing
<1> QED BY <1>1, <1>2

\* A refresh empties the storage, reads what the database names and stores it.
LEMMA HostRefreshKeeps ==
  ASSUME DocInv, NEW t \in Savers, ClearHosts(t) \/ LoadHosts(t) \/ StoreHosts(t)
  PROVE DocInv'
<1>1. UNCHANGED <<docs, lastDoc, binding, bodyCache, saves, loadCrossed, hostCrossed>>
  BY DEF ClearHosts, LoadHosts, StoreHosts
<1>2. Live' = Live /\ Active' = Active /\ \A h : Fits(h)' <=> Fits(h)
  BY <1>1 DEF Live, Active, Fits
<1>3. PICK c \in {NoCall, [op |-> "fill"], [op |-> "store", doc |-> binding]} :
        docCalls' = [docCalls EXCEPT ![t] = c]
  BY DEF ClearHosts, LoadHosts, StoreHosts, SaveGoes
<1>4. docCalls'[t] = c /\ \A o \in Savers \ {t} : docCalls'[o] = docCalls[o]
  BY <1>3 DEF DocInv, DocTyped
<1>5. DocTyped'
  BY <1>1, <1>2, <1>3, <1>4 DEF DocInv, DocTyped, Doing
<1>6. BodiesFresh'
  <2>1. ~Doing(t, "invalidate")
    BY DEF ClearHosts, LoadHosts, StoreHosts, Doing
  <2> QED BY <1>1, <1>2, <1>3, <1>4, <2>1 DEF DocInv, BodiesFresh, NobodyWrites, Doing
<1>7. HostBound'
  <2>1. CASE ClearHosts(t)
    <3>1. hostCache' = Unread /\ c.op = "fill"
      BY <1>4, <2>1 DEF ClearHosts, SaveGoes, DocInv, DocTyped
    <3> QED BY <1>1, <1>2, <1>4, <3>1 DEF DocInv, HostBound, NobodyRefreshes, Doing
  <2>2. CASE LoadHosts(t)
    <3>1. hostCache' = hostCache /\ c = [op |-> "store", doc |-> binding] /\ Doing(t, "fill")
      BY <1>4, <2>2 DEF LoadHosts, SaveGoes, DocInv, DocTyped
    <3>2. Fits(c.doc)
      BY <3>1 DEF Fits
    <3> QED BY <1>1, <1>2, <1>4, <3>1, <3>2 DEF DocInv, HostBound, NobodyRefreshes, Doing
  <2>3. CASE StoreHosts(t)
    <3>1. hostCache' = docCalls[t].doc /\ c = NoCall /\ Doing(t, "store")
      BY <1>4, <2>3 DEF StoreHosts, SaveGoes, DocInv, DocTyped
    <3> QED BY <1>1, <1>2, <1>4, <3>1 DEF DocInv, HostBound, NobodyRefreshes, Doing
  <2> QED BY <2>1, <2>2, <2>3
<1> QED BY <1>5, <1>6, <1>7 DEF DocInv

\* A restart forgets what is in the process.
LEMMA RestartKeeps == DocInv /\ Restart => DocInv'
<1> SUFFICES ASSUME DocInv, Restart PROVE DocInv'
  OBVIOUS
<1>1. Live' = Live /\ Active' = Active
  BY DEF Restart, Live, Active
<1>2. \A t \in Savers : docCalls'[t] = NoCall
  BY DEF Restart
<1>3. DocTyped'
  BY <1>1, <1>2 DEF Restart, DocInv, DocTyped, Doing
<1>4. hostCache' = Unread /\ bodyCache' = NoDoc
  BY DEF Restart
<1> QED BY <1>1, <1>2, <1>3, <1>4 DEF DocInv, BodiesFresh, Doing, HostBound

\* The panel starts with the documents it has, and reads nothing yet.
LEMMA InitDocs == DocInit => DocInv
<1> SUFFICES ASSUME DocInit PROVE DocInv
  OBVIOUS
<1>1. <<Empty>> \in Seq(Int) /\ \A d \in Ids : <<FileBody - d>> \in Seq(Int)
  BY DEF Empty, FileBody, Ids
<1>2. lastDoc \in Nat /\ Default <= lastDoc
  BY DocAssumption DEF DocInit, Ids, Default
<1>3. docs \in [Ids -> Seq(Int) \cup {NoDoc}]
  BY <1>1 DEF DocInit
<1>4. \A d \in Live : d <= lastDoc
  BY <1>2 DEF DocInit, Live
<1>5. DocTyped
  BY <1>2, <1>3, <1>4 DEF DocInit, DocTyped, Doing
<1> QED BY <1>5 DEF DocInit, DocInv, BodiesFresh, Doing, HostBound

\* Every step keeps the invariant.
LEMMA NextDocs == ASSUME ~ReuseIds PROVE DocInv /\ [DocNext]_docVars => DocInv'
<1> SUFFICES ASSUME DocInv, [DocNext]_docVars PROVE DocInv'
  OBVIOUS
<1>1. CASE UNCHANGED docVars
  <2>1. UNCHANGED <<docs, lastDoc, binding, hostCache, bodyCache, docCalls, saves, loadCrossed, hostCrossed>>
    BY <1>1 DEF docVars
  <2>2. Live' = Live /\ Active' = Active /\ \A h : Fits(h)' <=> Fits(h)
    BY <2>1 DEF Live, Active, Fits
  <2>3. DocTyped'
    BY <2>1, <2>2 DEF DocInv, DocTyped, Doing
  <2> QED BY <2>1, <2>2, <2>3 DEF DocInv, BodiesFresh, NobodyWrites, Doing, HostBound, NobodyRefreshes
<1>2. CASE DocNext
  BY <1>2, SaveKeeps, DeleteKeeps, CommitVersionKeeps, CreateKeeps, FirstVersionKeeps, CacheKeeps,
     RefreshBegins, BindingKeeps, HostRefreshKeeps, RestartKeeps DEF DocNext
<1> QED BY <1>1, <1>2

\* What is read is what was saved last, in the document that is bound.
LEMMA DocsRead == DocInv => BodiesAreFresh /\ ServedAsBound
<1> SUFFICES ASSUME DocInv, ~loadCrossed, NobodyWrites
             PROVE /\ bodyCache # NoDoc => bodyCache = Active
                   /\ ~hostCrossed => ServedAsBoundOnceRefreshed
  BY DEF BodiesAreFresh, BodiesAreActive, ServedAsBound, ServedAsBoundOnceRefreshed
<1>1. bodyCache \in {NoDoc, Active}
  BY DEF DocInv, BodiesFresh
<1>2. ASSUME ~hostCrossed, NobodyRefreshes, hostCache # Unread
      PROVE Selected(Active, hostCache) = Selected(Active, binding)
  <2>1. Fits(hostCache)
    BY <1>2 DEF DocInv, HostBound
  <2>2. CASE hostCache = binding
    BY <2>2
  <2>3. CASE binding = NoDoc /\ hostCache \in Ids \ Live
    <3>1. Active[hostCache] = Empty
      BY <2>3 DEF Active
    <3> QED BY <2>3, <3>1 DEF Selected
  <2> QED BY <2>1, <2>2, <2>3 DEF Fits
<1> QED BY <1>1, <1>2 DEF ServedAsBoundOnceRefreshed

\* Each step leaves the versions of a document, and adds one at most.
LEMMA VersionsStay ==
  ASSUME ~ReuseIds, DocInv, [DocNext]_docVars, NEW d \in Live
  PROVE \/ docs'[d] = docs[d] \/ docs'[d] = NoDoc
        \/ \E body \in Int : docs'[d] = Append(docs[d], body)
<1>1. d \in Ids /\ DOMAIN docs = Ids
  BY DEF Live, DocInv, DocTyped
<1>2. CASE docs' = docs
  BY <1>2
<1>3. CASE \E t \in Savers, e \in Live : delete_config(t, e)
  BY <1>1, <1>3 DEF delete_config
<1>4. CASE \E t \in Savers : create_config(t)
  BY <1>1, <1>4, CreateKeeps DEF create_config
<1>5. ASSUME NEW t \in Savers, CommitVersion(t)
      PROVE docs'[d] = docs[d] \/ \E body \in Int : docs'[d] = Append(docs[d], body)
  <2>1. docCalls[t].body \in Int
    BY <1>5 DEF CommitVersion, DocInv, DocTyped
  <2> QED BY <1>1, <1>5, <2>1 DEF CommitVersion
<1>6. \/ docs' = docs \/ \E t \in Savers, e \in Live : delete_config(t, e)
      \/ \E t \in Savers : create_config(t) \/ CommitVersion(t)
  BY DEF DocNext, docVars, save_version, revert, invalidate, FirstVersion, LoadBodies,
         get_cached_active_bodies, modify_hosts,
         CommitBinding, RefreshHosts, RefillHosts, ClearHosts, LoadHosts, StoreHosts, Restart
<1> QED BY <1>2, <1>3, <1>4, <1>5, <1>6

\* So what was a document's history is the beginning of it afterwards.
LEMMA HistoryGrows == ASSUME ~ReuseIds PROVE DocInv /\ [DocNext]_docVars => HistoryStep
<1> SUFFICES ASSUME DocInv, [DocNext]_docVars, NEW d \in Live, docs'[d] # NoDoc
             PROVE IsPrefix(docs[d], docs'[d])
  BY DEF HistoryStep
<1>1. docs[d] \in Seq(Int)
  BY DEF DocInv, DocTyped, Live
<1>2. CASE docs'[d] = docs[d]
  BY <1>1, <1>2, LenProperties DEF IsPrefix
<1>3. ASSUME NEW body \in Int, docs'[d] = Append(docs[d], body) PROVE IsPrefix(docs[d], docs'[d])
  <2>1. Len(docs'[d]) = Len(docs[d]) + 1 /\ \A i \in 1 .. Len(docs[d]) : docs'[d][i] = docs[d][i]
    BY <1>1, <1>3, AppendProperties
  <2> QED BY <1>1, <2>1, LenProperties DEF IsPrefix
<1> QED BY <1>2, <1>3, VersionsStay

\* Subscriptions get the documents that the database names, as they were saved
\* last, and no save loses another one, for any number of threads and documents,
\* if the database does not give freed ids again (_append_version, invalidate).
THEOREM DocumentsServed == ASSUME ~ReuseIds PROVE DocSpec => DocumentsSound
BY InitDocs, NextDocs, DocsRead, HistoryGrows, PTL DEF DocSpec, DocumentsSound

(***************************************************************************)
(* Addresses do not jump inside an epoch, for any hash, weights and hosts: *)
(* a request depends on the day only by its epoch.                         *)
(***************************************************************************)

\* The first day of the epoch, and the epoch.
StartDay == EpochStartDay(Day, AddressSubset.days)
Epoch == EpochFor(Day, AddressSubset.days, offset)

\* Requests are answered from the state as it is.
AddrInv == now \in Nat /\ DOMAIN weight = Days /\ addresses = Issued

\* What a request gets, without the choice.
LEMMA IssuedIsPick ==
  Issued = Pick(attached, ActivePin, AddressSubset, WeightsOn(StartDay), cached, Epoch)
<1>1. \A p : (CHOOSE N \in {p} : TRUE) = p
  OBVIOUS
<1> QED BY <1>1 DEF Issued, WeightsForRequest, StartDay, Epoch

\* Days with the same first day are in the same epoch.
LEMMA SameStartSameEpoch ==
  ASSUME NEW d \in Int, NEW e \in Int, NEW o,
         EpochStartDay(d, AddressSubset.days) = EpochStartDay(e, AddressSubset.days)
  PROVE EpochFor(d, AddressSubset.days, o) = EpochFor(e, AddressSubset.days, o)
<1> DEFINE p == Period(AddressSubset.days)
           q(x) == (x + Smear(p)) \div p
<1>1. p \in Int /\ p >= 1 /\ Smear(p) \in Int
  BY AddressAssumption DEF Period
<1>2. q(d) \in Int /\ q(e) \in Int
  BY <1>1
<1>3. q(d) * p - Smear(p) = q(e) * p - Smear(p)
  BY DEF EpochStartDay
<1> HIDE DEF p, q
<1>4. q(d) * p = q(e) * p
  BY <1>1, <1>2, <1>3
<1>5. q(d) = q(e)
  BY <1>1, <1>2, <1>4
<1> QED BY <1>5 DEF EpochFor, p, q

\* A step writes the weights of its own day, if any.
LEMMA StepWrites ==
  ASSUME AddrNext
  PROVE /\ addresses' = Issued'
        /\ now' = now \/ now' = now + 1
        /\ weight' = weight \/ \E w : weight' = [weight EXCEPT ![Day] = w]
BY DEF AddrNext, Move, Traffic, RefreshExhausted, WriteWeights, SnapshotComposition, Rotate,
       CreatePin, DeletePin, AddrTick, Record

\* The invariant holds throughout.
LEMMA AddrInvHolds == AddrSpec => []AddrInv
<1>1. AddrInit => AddrInv
  BY DEF AddrInit, AddrInv
<1>2. AddrInv /\ [AddrNext]_addrVars => AddrInv'
  <2>1. CASE UNCHANGED addrVars
    BY <2>1 DEF addrVars, AddrInv, Issued, ActivePin, WeightsForRequest, WeightsOn, Day
  <2>2. CASE AddrNext
    BY <2>2, StepWrites DEF AddrInv
  <2> QED BY <2>1, <2>2
<1> QED BY <1>1, <1>2, PTL DEF AddrSpec

\* A step inside an epoch gives what was given before.
LEMMA StepIsStable == AddrInv /\ AddrInv' /\ [AddrNext]_addrVars => StableStep
<1> SUFFICES ASSUME AddrInv, AddrInv', AddrNext,
                    UNCHANGED <<attached, cached, offset>>, ActivePin' = ActivePin,
                    StartDay' = StartDay, Day > StartDay
             PROVE Issued' = Issued
  BY DEF AddrInv, StableStep, addrVars, StartDay
<1>1. Day \in Int /\ Day' \in Int /\ StartDay \in Int
  BY AddressAssumption DEF AddrInv, Day, StartDay, EpochStartDay, Period
<1>2. Epoch' = Epoch
  BY <1>1, SameStartSameEpoch DEF StartDay, Epoch
<1>3. ASSUME NEW d \in Days, d <= StartDay PROVE weight'[d] = weight[d]
  BY <1>1, <1>3, StepWrites DEF AddrInv
<1>4. WeightsOn(StartDay)' = WeightsOn(StartDay)
  <2> DEFINE known(w) == {e \in Days : w[e] # NoWeights /\ e <= StartDay
                                        /\ StartDay - e <= MaxAgeDays}
             latest(K) == CHOOSE e \in K : \A f \in K : f <= e
  <2>1. known(weight') = known(weight)
    BY <1>3
  <2>2. /\ WeightsOn(StartDay) = IF known(weight) = {} THEN NoWeights ELSE weight[latest(known(weight))]
        /\ WeightsOn(StartDay)' = IF known(weight') = {} THEN NoWeights ELSE weight'[latest(known(weight'))]
    BY DEF WeightsOn
  <2>3. \A e \in known(weight) : e \in Days /\ e \in {StartDay - 2, StartDay - 1, StartDay}
    BY <1>1 DEF MaxAgeDays, Days
  <2> DEFINE K == known(weight)
  <2>4. ASSUME K # {} PROVE latest(K) \in K
    <3> HIDE DEF K
    <3> SUFFICES \E e \in K : \A f \in K : f <= e
      OBVIOUS
    <3>1. CASE StartDay \in K
      BY <1>1, <2>3, <3>1 DEF K
    <3>2. CASE StartDay \notin K /\ StartDay - 1 \in K
      BY <1>1, <2>3, <3>2 DEF K
    <3>3. CASE StartDay \notin K /\ StartDay - 1 \notin K
      BY <1>1, <2>3, <2>4, <3>3 DEF K
    <3> QED BY <3>1, <3>2, <3>3
  <2>5. K # {} => weight'[latest(K)] = weight[latest(K)]
    BY <1>3, <2>3, <2>4
  <2> QED BY <2>1, <2>2, <2>5
<1>5. (Issued = Pick(attached, ActivePin, AddressSubset, WeightsOn(StartDay), cached, Epoch))'
  BY IssuedIsPick, PTL
<1> QED BY <1>2, <1>4, <1>5, IssuedIsPick

\* Inside an epoch the addresses of a user do not jump, while nodes, pins,
\* exhaustion and offset stay, whatever the hash, the weights and the settings of
\* the host (build_address_context, epoch_for).
THEOREM AddressesStable == AddrSpec => StableWithinEpoch
BY AddrInvHolds, StepIsStable, PTL DEF AddrSpec, StableWithinEpoch

(***************************************************************************)
(* What a user is given is sound, and the journal honest about it.  For    *)
(* the choice of nodes: in a finite set that is ordered strictly, someone  *)
(* is the best, and those with fewer than L better ones are at most L.     *)
(*                                                                         *)
(* JournalHonest is not inductive.  JournalInv adds what the journal will  *)
(* read of the day under way (Today), and that the weights which a steady  *)
(* day is read from name the nodes that are exhausted (Weighed); then the  *)
(* day is honest when it ends, and no later step disturbs its records.     *)
(***************************************************************************)

\* R orders A strictly, from the best to the last.
Ranks(R, A) ==
  /\ \A a \in A : <<a, a>> \notin R
  /\ \A a, b \in A : a # b => <<a, b>> \in R \/ <<b, a>> \in R
  /\ \A a, b, c \in A : <<a, b>> \in R /\ <<b, c>> \in R => <<a, c>> \in R

Better(A, R, i) == {j \in A : <<j, i>> \in R}

\* Who is better than a better one is better.
LEMMA BetterIsLess ==
  ASSUME NEW A, NEW R, Ranks(R, A), NEW i \in A, NEW k \in A, <<i, k>> \in R
  PROVE Better(A, R, i) \subseteq Better(A, R, k) /\ Better(A, R, i) # Better(A, R, k)
<1>1. i \in Better(A, R, k) /\ i \notin Better(A, R, i)
  BY DEF Better, Ranks
<1>2. \A j \in Better(A, R, i) : j \in Better(A, R, k)
  BY DEF Better, Ranks
<1> QED BY <1>1, <1>2

\* Of a finite set, those with fewer than L better ones are at most L.
LEMMA BestFew ==
  ASSUME NEW A, IsFiniteSet(A), NEW R, Ranks(R, A), NEW L \in Nat
  PROVE LET S == {i \in A : Cardinality(Better(A, R, i)) < L}
        IN  IsFiniteSet(S) /\ Cardinality(S) <= L
<1> DEFINE S == {i \in A : Cardinality(Better(A, R, i)) < L}
           f == [i \in S |-> Cardinality(Better(A, R, i))]
<1>1. ASSUME NEW i \in A
      PROVE  IsFiniteSet(Better(A, R, i)) /\ Cardinality(Better(A, R, i)) \in Nat
  <2>1. Better(A, R, i) \in SUBSET A
    BY DEF Better
  <2>2. IsFiniteSet(Better(A, R, i))
    BY <2>1, FS_Subset
  <2> QED BY <2>2, FS_CardinalityType
<1>2. ASSUME NEW i \in A, NEW k \in A, <<i, k>> \in R
      PROVE  Cardinality(Better(A, R, i)) # Cardinality(Better(A, R, k))
  <2>1. Better(A, R, i) \in SUBSET Better(A, R, k) /\ Better(A, R, i) # Better(A, R, k)
    BY <1>2, BetterIsLess
  <2> QED BY <1>1, <2>1, FS_Subset
<1>3. f \in [S -> 0..(L - 1)]
  <2>1. ASSUME NEW i \in S PROVE Cardinality(Better(A, R, i)) \in 0..(L - 1)
    BY <1>1
  <2> HIDE DEF S
  <2> QED BY <2>1
<1>4. ASSUME NEW i \in S, NEW k \in S, f[i] = f[k] PROVE i = k
  <2>1. i \in A /\ k \in A /\ Cardinality(Better(A, R, i)) = Cardinality(Better(A, R, k))
    BY <1>4
  <2> HIDE DEF S, f
  <2> QED BY <1>2, <2>1 DEF Ranks
<1>5. f \in Injection(S, 0..(L - 1))
  <2> HIDE DEF f, S
  <2> QED BY <1>3, <1>4 DEF Injection, IsInjective
<1>6. IsFiniteSet(0..(L - 1)) /\ Cardinality(0..(L - 1)) = L
  BY FS_Interval
<1>7. IsFiniteSet(S) /\ Cardinality(S) <= L
  <2> HIDE DEF f, S
  <2> QED BY <1>5, <1>6, FS_Injection
<1> QED BY <1>7

\* A finite set that is not empty has a best member.
LEMMA BestExists ==
  ASSUME NEW A, IsFiniteSet(A), A # {}, NEW R, Ranks(R, A)
  PROVE \E i \in A : Better(A, R, i) = {}
<1> DEFINE T == {Better(A, R, i) : i \in A}
<1>1. T \subseteq FiniteSubsetsOf(A) /\ T # {}
  <2>1. ASSUME NEW i \in A PROVE Better(A, R, i) \in FiniteSubsetsOf(A)
    <3>1. Better(A, R, i) \in SUBSET A
      BY DEF Better
    <3>2. IsFiniteSet(Better(A, R, i))
      BY <3>1, FS_Subset
    <3> QED BY <3>1, <3>2 DEF FiniteSubsetsOf
  <2> HIDE DEF FiniteSubsetsOf
  <2> QED BY <2>1
<1>2. PICK M \in T : \A U \in T : <<U, M>> \notin StrictSubsetOrdering(A)
  <2> HIDE DEF FiniteSubsetsOf, T
  <2> QED BY <1>1, FS_StrictSubsetOrderingWellFounded, WFMin
<1>3. PICK i \in A : M = Better(A, R, i)
  OBVIOUS
<1>4. ASSUME NEW j \in Better(A, R, i) PROVE FALSE
  <2>1. j \in A /\ <<j, i>> \in R
    BY DEF Better
  <2>2. Better(A, R, j) \subseteq M /\ Better(A, R, j) # M /\ M \subseteq A
    BY <1>3, <2>1, BetterIsLess DEF Better
  <2> QED BY <1>2, <2>1, <2>2 DEF StrictSubsetOrdering
<1> QED BY <1>4

\* Of a finite set of numbers one is the largest.
LEMMA LargestExists ==
  ASSUME NEW K, K \subseteq Nat, IsFiniteSet(K), K # {}
  PROVE \E i \in K : \A j \in K : j <= i
<1> DEFINE R == {p \in K \X K : p[1] > p[2]}
<1>1. \A a, b \in K : <<a, b>> \in R <=> a > b
  OBVIOUS
<1>2. Ranks(R, K)
  <2> HIDE DEF R
  <2>1. \A a \in K : a \in Nat
    OBVIOUS
  <2> QED BY <1>1, <2>1 DEF Ranks
<1>3. PICK i \in K : Better(K, R, i) = {}
  <2> HIDE DEF R
  <2> QED BY <1>2, BestExists
<1>4. ASSUME NEW j \in K PROVE j <= i
  <2>1. ~(j > i)
    BY <1>1, <1>3 DEF Better
  <2> QED BY <2>1
<1> QED BY <1>4

-----------------------------------------------------------------------------
\* The weights that the bot has written for a day, or none.
WeightTables == {NoWeights} \cup [HostNodes -> Int]

\* pick_keys picks at least one and at most as many as it is asked for.
LEMMA KeysPicked ==
  ASSUME NEW S, IsFiniteSet(S), S # {}, S \subseteq Nat, NEW c \in [S -> Int],
         NEW size \in Nat \ {0}, NEW epoch, \A n \in S : Hash(n, epoch) \in Nat
  PROVE LET K == PickKeys(c, size, epoch)
        IN  K \subseteq S /\ K # {} /\ Cardinality(K) <= size
<1> DEFINE score == [n \in S |-> Score(n, epoch, c[n])]
           R == {p \in S \X S : score[p[1]] > score[p[2]]
                                \/ (score[p[1]] = score[p[2]] /\ p[1] < p[2])}
           K == {n \in S : Cardinality(Better(S, R, n)) < size}
<1>1. ASSUME NEW n \in S PROVE score[n] \in Int
  <2> DEFINE m == IF c[n] > ExhaustedWeight THEN c[n] ELSE ExhaustedWeight
  <2>1. m \in Int /\ Hash(n, epoch) \in Int
    BY DEF ExhaustedWeight
  <2>2. score[n] = m * Hash(n, epoch)
    BY DEF Score
  <2> HIDE DEF m, score
  <2> QED BY <2>1, <2>2
<1>2. \A a, b \in S : <<a, b>> \in R <=> score[a] > score[b] \/ (score[a] = score[b] /\ a < b)
  OBVIOUS
<1>3. Ranks(R, S)
  <2> HIDE DEF R, score
  <2>1. \A a \in S : a \in Nat
    OBVIOUS
  <2> QED BY <1>1, <1>2, <2>1 DEF Ranks
<1>4. PickKeys(c, size, epoch) = K
  <2>1. DOMAIN c = S
    OBVIOUS
  <2>2. \A n \in S : Better(S, R, n) = {m \in S : score[m] > score[n] \/ (score[m] = score[n] /\ m < n)}
    <3> HIDE DEF R, score
    <3> QED BY <1>2 DEF Better
  <2>3. PickKeys(c, size, epoch) = {n \in S : Cardinality({m \in S :
            score[m] > score[n] \/ (score[m] = score[n] /\ m < n)}) < size}
    BY <2>1 DEF PickKeys
  <2> HIDE DEF R, score
  <2> QED BY <2>2, <2>3
<1> HIDE DEF R
<1>5. Cardinality(K) <= size
  BY <1>3, BestFew
<1>6. K # {}
  <2>1. PICK n \in S : Better(S, R, n) = {}
    BY <1>3, BestExists
  <2>2. Cardinality(Better(S, R, n)) < size
    BY <2>1, FS_EmptySet
  <2> QED BY <2>2
<1> QED BY <1>4, <1>5, <1>6

\* choose_nodes leaves a host with nodes at least one of them and no more than its
\* size.
LEMMA NodesChosen ==
  ASSUME NEW S, S \subseteq HostNodes, S # {}, NEW w \in WeightTables, NEW ex,
         NEW size \in Nat \ {0}, NEW epoch, \A n \in HostNodes : Hash(n, epoch) \in Nat
  PROVE LET C == ChooseNodes(S, w, ex, size, epoch)
        IN  C \subseteq S /\ C # {} /\ Cardinality(C) <= size
<1> DEFINE alive == IF S \ ex = {} THEN S ELSE S \ ex
           c == WeightedCandidates(w, alive)
<1>1. alive \subseteq S /\ alive # {} /\ IsFiniteSet(alive) /\ alive \subseteq Nat /\ alive \subseteq HostNodes
  <2>1. alive \subseteq S /\ alive # {}
    OBVIOUS
  <2> HIDE DEF alive
  <2> QED BY <2>1, AddressAssumption, FS_Subset
<1>2. ChooseNodes(S, w, ex, size, epoch) =
        IF Cardinality(alive) <= size THEN alive ELSE PickKeys(c, size, epoch)
  BY DEF ChooseNodes
<1> HIDE DEF alive
<1>3. c \in [alive -> Int]
  <2>1. CASE w = NoWeights
    <3>1. alive \cap DOMAIN w = {}
      BY <2>1 DEF NoWeights
    <3> QED BY <3>1 DEF WeightedCandidates
  <2>2. CASE w \in [HostNodes -> Int]
    <3>1. alive \cap DOMAIN w = alive /\ \A n \in alive : w[n] \in Int
      BY <1>1, <2>2
    <3> QED BY <3>1 DEF WeightedCandidates
  <2> QED BY <2>1, <2>2 DEF WeightTables
<1> HIDE DEF c
<1>4. CASE Cardinality(alive) <= size
  BY <1>1, <1>2, <1>4
<1>5. CASE ~(Cardinality(alive) <= size)
  <2>1. \A n \in alive : Hash(n, epoch) \in Nat
    BY <1>1
  <2> DEFINE K == PickKeys(c, size, epoch)
  <2>2. K \subseteq alive /\ K # {} /\ Cardinality(K) <= size
    BY <1>1, <1>3, <2>1, KeysPicked
  <2>3. ChooseNodes(S, w, ex, size, epoch) = K
    BY <1>2, <1>5
  <2> HIDE DEF K
  <2> QED BY <1>1, <2>2, <2>3
<1> QED BY <1>4, <1>5

-----------------------------------------------------------------------------
PinRows == [created : Nat, expires : Nat, nodes : SUBSET HostNodes]

AddrTyped ==
    /\ now \in Nat /\ now <= 2 * MaxDay
    /\ moves \in Nat /\ offset \in Nat /\ pins \in Seq(PinRows)
    /\ moves + offset + Len(pins) <= MaxChanges
    /\ attached \subseteq HostNodes
    /\ used \in [HostNodes -> Nat]
    /\ weight \in [Days -> WeightTables]
    /\ composition \in [Days -> (SUBSET HostNodes) \cup {NoSnapshot}]
    /\ DOMAIN given = Days
    /\ steady \subseteq Days
    /\ rotatedAt \in Int /\ rotatedAt <= now
    /\ \A i \in DOMAIN pins : pins[i].created <= now
    /\ \A e \in Days : e > Day => weight[e] = NoWeights /\ composition[e] = NoSnapshot

\* What is true of the day under way, if it is steady.
Today ==
    /\ addresses = Issued /\ Issued \in given[Day]
    /\ Day \in steady =>
         /\ cached = ExhaustedNow
         /\ composition[Day] \in {NoSnapshot, attached}
         /\ PinOnDay(Day) \cap attached # {} => PinOnDay(Day) \cap attached \in given[Day]

\* The weights that steady days are read from know the exhausted nodes.
Weighed ==
    \A d \in steady, e \in Days :
       (d >= Day /\ weight[e] # NoWeights /\ e <= EpochStartDay(d, AddressSubset.days)
        /\ EpochStartDay(d, AddressSubset.days) - e <= MaxAgeDays)
          => ExhaustedFromSnapshot(weight[e], NodeLimits, Cutoff) = ExhaustedNow

PastHonest == \A d \in Days : d < Day => HonestOn(d)

JournalInv == AddrTyped /\ Today /\ Weighed /\ PastHonest

\* Days are numbers, and finitely many.
LEMMA DaysAreNat == Days \subseteq Nat /\ IsFiniteSet(Days)
<1>1. MaxDay \in Nat
  BY AddressAssumption
<1> QED BY <1>1, FS_Interval DEF Days

\* The day of a tick.
LEMMA DayOfTick ==
  ASSUME AddrTyped
  PROVE  Day \in Days /\ Day \in Nat /\ 2 * Day <= now /\ now <= 2 * Day + 1
BY AddressAssumption DEF AddrTyped, Day, Days

\* An epoch does not begin after a day of it.
LEMMA StartsBefore ==
  ASSUME NEW d \in Int
  PROVE  EpochStartDay(d, AddressSubset.days) \in Int /\ EpochStartDay(d, AddressSubset.days) <= d
<1> DEFINE p == Period(AddressSubset.days)
           x == d + Smear(p)
<1>1. p \in Int /\ p >= 1 /\ Smear(p) \in Int
  BY AddressAssumption DEF Period
<1>2. x \in Int
  BY <1>1
<1>3. (x \div p) \in Int /\ (x \div p) * p <= x
  <2> HIDE DEF x, p
  <2> QED BY <1>1, <1>2
<1>4. EpochStartDay(d, AddressSubset.days) = (x \div p) * p - Smear(p)
  BY DEF EpochStartDay
<1> HIDE DEF p
<1> QED BY <1>1, <1>2, <1>3, <1>4

\* The epochs that there can be have hashes.
LEMMA Hashed ==
  ASSUME AddrTyped, NEW d \in Days
  PROVE  \A n \in HostNodes : Hash(n, EpochFor(d, AddressSubset.days, offset)) \in Nat
<1>1. offset \in 0..MaxChanges
  BY AddressAssumption DEF AddrTyped
<1> QED BY <1>1, AddressAssumption DEF Days

\* The weights that a day is read from are those of a day not after it, or none.
LEMMA WeightsRead ==
  ASSUME DOMAIN weight = Days, NEW d \in Int, WeightsOn(d) # NoWeights
  PROVE  \E e \in Days : /\ weight[e] # NoWeights /\ e <= d /\ d - e <= MaxAgeDays
                         /\ WeightsOn(d) = weight[e]
<1> DEFINE K == {e \in Days : weight[e] # NoWeights /\ e <= d /\ d - e <= MaxAgeDays}
<1>1. K # {} /\ WeightsOn(d) = weight[CHOOSE e \in K : \A f \in K : f <= e]
  BY DEF WeightsOn
<1>2. K \in SUBSET Days /\ IsFiniteSet(Days) /\ Days \subseteq Nat
  BY DaysAreNat
<1>3. IsFiniteSet(K) /\ K \subseteq Nat
  BY <1>2, FS_Subset
<1>4. \E e \in K : \A f \in K : f <= e
  <2> HIDE DEF K
  <2> QED BY <1>1, <1>3, LargestExists
<1>5. (CHOOSE e \in K : \A f \in K : f <= e) \in K
  BY <1>4
<1> QED BY <1>1, <1>5

\* They are typed.
LEMMA WeightsReadTyped ==
  ASSUME AddrTyped, NEW d \in Int PROVE WeightsOn(d) \in WeightTables
<1>1. weight \in [Days -> WeightTables] /\ NoWeights \in WeightTables
  BY DEF AddrTyped, WeightTables
<1> QED BY <1>1, WeightsRead

\* The newest of some rows is one of them.
LEMMA NewestRow ==
  ASSUME pins \in Seq(PinRows), NEW K, K \subseteq DOMAIN pins, K # {}
  PROVE  (CHOOSE i \in K : \A j \in K : j <= i) \in K
<1>1. DOMAIN pins = 1..Len(pins) /\ Len(pins) \in Nat
  OBVIOUS
<1>2. IsFiniteSet(1..Len(pins)) /\ K \in SUBSET (1..Len(pins))
  BY <1>1, FS_Interval
<1>3. IsFiniteSet(K) /\ K \subseteq Nat
  BY <1>1, <1>2, FS_Subset
<1> QED BY <1>3, LargestExists

\* And no other row is the newest.
LEMMA OneNewest ==
  ASSUME NEW K, K \subseteq Nat, NEW k \in K, \A j \in K : j <= k
  PROVE  (CHOOSE i \in K : \A j \in K : j <= i) = k
<1>1. \A i \in K : (\A j \in K : j <= i) => i = k
  OBVIOUS
<1> QED BY <1>1

\* A pin that is active meets the day.
LEMMA ActiveMeetsToday ==
  ASSUME AddrTyped
  PROVE  ActivePin = {} \/ \E i \in PinsMet(Day) : ActivePin = pins[i].nodes
<1> DEFINE live == {i \in DOMAIN pins : pins[i].expires > now}
<1>1. CASE live = {}
  BY <1>1 DEF ActivePin
<1>2. CASE live # {}
  <2>1. PICK i \in live : ActivePin = pins[i].nodes
    <3>1. (CHOOSE i \in live : \A j \in live : j <= i) \in live
      BY <1>2, NewestRow DEF AddrTyped
    <3> QED BY <1>2, <3>1 DEF ActivePin
  <2>2. pins[i] \in PinRows /\ pins[i].created <= now
    BY DEF AddrTyped
  <2>3. i \in PinsMet(Day)
    BY <2>2, DayOfTick DEF PinsMet, PinRows, AddrTyped
  <2> QED BY <2>1, <2>3
<1> QED BY <1>1, <1>2

\* What is given is never nothing, and never too much.
LEMMA IssuedSound == AddrTyped /\ addresses = Issued => NeverWithoutAddresses
<1> SUFFICES ASSUME AddrTyped, addresses = Issued PROVE NeverWithoutAddresses
  OBVIOUS
<1> DEFINE w == WeightsOn(StartDay)
           C == ChooseNodes(attached, w, cached, AddressSubset.size, Epoch)
<1>1. addresses = IF ActivePin \cap attached # {} THEN ActivePin \cap attached
                  ELSE IF ~Narrows(AddressSubset) \/ attached = {} THEN attached ELSE C
  BY IssuedIsPick DEF Pick
<1>2. ASSUME Narrows(AddressSubset), attached # {}
      PROVE  C \subseteq attached /\ C # {} /\ Cardinality(C) <= AddressSubset.size
  <2>1. AddressSubset.size \in Nat \ {0}
    BY <1>2, AddressAssumption DEF Narrows
  <2>2. w \in WeightTables
    BY DayOfTick, StartsBefore, WeightsReadTyped DEF StartDay
  <2>3. \A n \in HostNodes : Hash(n, Epoch) \in Nat
    BY DayOfTick, Hashed DEF Epoch
  <2> QED BY <1>2, <2>1, <2>2, <2>3, NodesChosen DEF AddrTyped
<1> HIDE DEF C
<1> QED BY <1>1, <1>2 DEF NeverWithoutAddresses

-----------------------------------------------------------------------------
\* What the journal says of the day under way is honest.
LEMMA TodayHonest ==
  ASSUME AddrTyped, Today, Weighed PROVE HonestOn(Day)
<1> DEFINE S == composition[Day]
           P == PinOnDay(Day)
           w == WeightsOn(StartDay)
           C == ChooseNodes(S, w, ExhaustedFromSnapshot(w, NodeLimits, Cutoff),
                            AddressSubset.size, Epoch)
<1> SUFFICES ASSUME Day \in steady, Journal(Day).source # "unknown", ~PinHidden(Day)
             PROVE  IF NamesAll(Day) THEN \E N \in given[Day] : N \subseteq Journal(Day).nodes
                    ELSE Journal(Day).nodes \in given[Day]
  BY DEF HonestOn
<1>1. S # NoSnapshot
  BY DEF Journal
<1>2. S = attached /\ cached = ExhaustedNow /\ addresses = Issued /\ Issued \in given[Day]
  BY <1>1 DEF Today
<1>3. CASE P \cap S # {}
  <2>1. Journal(Day).nodes = P \cap S /\ ~NamesAll(Day)
    BY <1>1, <1>3 DEF Journal, NamesAll
  <2>2. P \cap S \in given[Day]
    BY <1>2, <1>3 DEF Today
  <2> QED BY <2>1, <2>2
<1>4. CASE P \cap S = {}
  <2>1. ActivePin \cap attached = {}
    BY <1>2, <1>4, ActiveMeetsToday DEF PinHidden
  <2>2. Issued = IF ~Narrows(AddressSubset) \/ S = {} THEN S
                 ELSE ChooseNodes(S, w, cached, AddressSubset.size, Epoch)
    BY <1>2, <2>1, IssuedIsPick DEF Pick
  <2>3. CASE ~Narrows(AddressSubset)
    <3>1. Journal(Day).nodes = S /\ ~NamesAll(Day)
      BY <1>1, <1>4, <2>3 DEF Journal, NamesAll
    <3> QED BY <1>2, <2>2, <2>3, <3>1
  <2>4. CASE Narrows(AddressSubset) /\ Cardinality(S) <= AddressSubset.size
    <3>1. Journal(Day).nodes = S /\ NamesAll(Day)
      BY <1>1, <1>4, <2>4 DEF Journal, NamesAll
    <3>2. Issued \subseteq S
      BY <1>2, IssuedSound DEF NeverWithoutAddresses
    <3> QED BY <1>2, <3>1, <3>2
  <2>5. CASE Narrows(AddressSubset) /\ ~(Cardinality(S) <= AddressSubset.size)
    <3>1. ~NamesAll(Day) /\ S # {}
      <4>1. Cardinality({}) = 0 /\ AddressSubset.size > 0 /\ AddressSubset.size \in Int
        BY <2>5, FS_EmptySet, AddressAssumption DEF Narrows
      <4> QED BY <2>5, <4>1 DEF NamesAll
    <3>2. w # NoWeights /\ Journal(Day).nodes = C
      <4> HIDE DEF C
      <4>1. C = ChooseNodes(S, w, ExhaustedFromSnapshot(w, NodeLimits, Cutoff),
                            AddressSubset.size, Epoch)
        BY DEF C
      <4> QED BY <1>1, <1>4, <2>5, <4>1 DEF Journal, StartDay, Epoch
    <3>3. ExhaustedFromSnapshot(w, NodeLimits, Cutoff) = ExhaustedNow
      <4>1. StartDay \in Int
        BY DayOfTick, StartsBefore DEF StartDay
      <4>2. PICK e \in Days : /\ weight[e] # NoWeights /\ e <= StartDay
                              /\ StartDay - e <= MaxAgeDays /\ w = weight[e]
        BY <3>2, <4>1, WeightsRead DEF AddrTyped
      <4> QED BY <4>2, DayOfTick DEF Weighed, StartDay
    <3> QED BY <1>2, <2>2, <2>5, <3>1, <3>2, <3>3
  <2> QED BY <2>3, <2>4, <2>5
<1> QED BY <1>3, <1>4

-----------------------------------------------------------------------------
\* Two tables of weights that agree up to a day are read the same on it.
LEMMA WeightsReadSame ==
  ASSUME NEW d \in Int, \A e \in Days : e <= d => weight'[e] = weight[e], DOMAIN weight = Days
  PROVE  WeightsOn(d)' = WeightsOn(d)
<1> DEFINE known(t) == {e \in Days : t[e] # NoWeights /\ e <= d /\ d - e <= MaxAgeDays}
           latest(K) == CHOOSE e \in K : \A f \in K : f <= e
<1>1. known(weight') = known(weight)
  OBVIOUS
<1>2. /\ WeightsOn(d) = IF known(weight) = {} THEN NoWeights ELSE weight[latest(known(weight))]
      /\ WeightsOn(d)' = IF known(weight') = {} THEN NoWeights ELSE weight'[latest(known(weight'))]
  BY DEF WeightsOn
<1> DEFINE K == known(weight)
<1>3. K # {} => latest(K) \in K
  <2>1. K \in SUBSET Days /\ IsFiniteSet(Days) /\ Days \subseteq Nat
    BY DaysAreNat
  <2>2. IsFiniteSet(K) /\ K \subseteq Nat
    BY <2>1, FS_Subset
  <2> HIDE DEF K
  <2>3. K # {} => \E e \in K : \A f \in K : f <= e
    BY <2>2, LargestExists
  <2> QED BY <2>3
<1>4. K # {} => weight'[latest(K)] = weight[latest(K)]
  BY <1>3
<1>5. known(weight') = K /\ known(weight) = K
  BY <1>1
<1> HIDE DEF K, known, latest
<1> QED BY <1>2, <1>4, <1>5

\* A day of which the pins, the snapshot and the weights stay, and whose offset
\* stays or is no longer known, stays honest.
LEMMA DayStays ==
  ASSUME NEW d \in Days, DOMAIN weight = Days, HonestOn(d),
         composition'[d] = composition[d],
         PinsMet(d)' = PinsMet(d),
         PinsMet(d) \subseteq DOMAIN pins, pins \in Seq(PinRows),
         \A i \in PinsMet(d) : pins'[i].nodes = pins[i].nodes,
         \A e \in Days : e <= d => weight'[e] = weight[e],
         UNCHANGED <<offset, rotatedAt>> \/ ~OffsetKnown(d)',
         given[d] \subseteq given'[d], steady' \subseteq steady
  PROVE  HonestOn(d)'
<1> DEFINE start == EpochStartDay(d, AddressSubset.days)
<1>1. d \in Int /\ start \in Int /\ start <= d
  BY StartsBefore, AddressAssumption DEF Days
<1>2. WeightsOn(start)' = WeightsOn(start)
  <2>1. \A e \in Days : e <= start => weight'[e] = weight[e]
    BY <1>1, AddressAssumption DEF Days
  <2> HIDE DEF start
  <2> QED BY <1>1, <2>1, WeightsReadSame
<1>3. PinOnDay(d)' = PinOnDay(d)
  <2>1. PinsMet(d) # {} =>
          (CHOOSE i \in PinsMet(d) : \A j \in PinsMet(d) : j <= i) \in PinsMet(d)
    BY NewestRow
  <2> QED BY <2>1 DEF PinOnDay
<1>4. NamesAll(d)' = NamesAll(d)
  BY <1>3 DEF NamesAll
<1>5. PinHidden(d)' = PinHidden(d)
  BY <1>3 DEF PinHidden
<1>6. Journal(d)' = Journal(d) \/ Journal(d)'.source = "unknown"
  <2>1. CASE UNCHANGED <<offset, rotatedAt>>
    <3>1. OffsetKnown(d)' = OffsetKnown(d)
      BY <2>1 DEF OffsetKnown
    <3> QED BY <1>2, <1>3, <2>1, <3>1 DEF Journal
  <2>2. CASE ~OffsetKnown(d)'
    BY <1>2, <1>3, <2>2 DEF Journal
  <2> QED BY <2>1, <2>2
<1>7. SUFFICES ASSUME d \in steady', Journal(d)'.source # "unknown", ~PinHidden(d)'
               PROVE  IF NamesAll(d)' THEN \E N \in given'[d] : N \subseteq Journal(d)'.nodes
                      ELSE Journal(d)'.nodes \in given'[d]
  BY DEF HonestOn
<1>8. IF NamesAll(d) THEN \E N \in given[d] : N \subseteq Journal(d).nodes
      ELSE Journal(d).nodes \in given[d]
  BY <1>5, <1>6, <1>7 DEF HonestOn
<1> QED BY <1>4, <1>6, <1>7, <1>8

-----------------------------------------------------------------------------
\* What a step leaves of the records of a day.
DayKept(d) ==
    /\ composition'[d] = composition[d]
    /\ PinsMet(d)' = PinsMet(d)
    /\ \A i \in PinsMet(d) : pins'[i].nodes = pins[i].nodes
    /\ \A e \in Days : e <= d => weight'[e] = weight[e]
    /\ UNCHANGED <<offset, rotatedAt>> \/ ~OffsetKnown(d)'

\* A step ends with what a request gets after it.
LEMMA Recorded ==
  ASSUME AddrTyped, Record, Day' \in Days
  PROVE  /\ addresses' = Issued' /\ Issued' \in given'[Day'] /\ DOMAIN given' = Days
         /\ \A d \in Days : given[d] \subseteq given'[d]
BY DEF Record, AddrTyped

\* A tick is at most one day on.
LEMMA NextDay ==
  ASSUME now \in Nat, now' \in {now, now + 1}
  PROVE  Day \in Nat /\ Day' \in Nat /\ Day <= Day' /\ Day' <= Day + 1
<1>1. CASE now' = now
  BY <1>1 DEF Day
<1>2. CASE now' = now + 1
  BY <1>2 DEF Day
<1> QED BY <1>1, <1>2

\* A step that keeps the records of past days keeps them honest.
LEMMA PastStays ==
  ASSUME JournalInv, now' \in {now, now + 1}, Day' \in Days, Record, steady' \subseteq steady,
         \A d \in Days : d < Day' => DayKept(d)
  PROVE  PastHonest'
<1> SUFFICES ASSUME NEW d \in Days, d < Day' PROVE HonestOn(d)'
  BY DEF PastHonest
<1>1. d <= Day /\ d \in Nat
  <2>1. now \in Nat /\ d \in Nat
    BY AddressAssumption DEF JournalInv, AddrTyped, Days
  <2> QED BY <2>1, NextDay
<1>2. HonestOn(d)
  BY <1>1, DayOfTick, TodayHonest DEF JournalInv, PastHonest
<1>3. given[d] \subseteq given'[d]
  BY Recorded DEF JournalInv
<1>4. PinsMet(d) \subseteq DOMAIN pins /\ pins \in Seq(PinRows) /\ DOMAIN weight = Days
  BY DEF PinsMet, JournalInv, AddrTyped
<1>5. DayKept(d)
  OBVIOUS
<1> QED BY <1>2, <1>3, <1>4, <1>5, DayStays DEF DayKept

\* So does a step of the same day that keeps the day's pins and the host's nodes.
LEMMA TodayStays ==
  ASSUME JournalInv, now' = now, Record, steady' \subseteq steady,
         Day \in steady' => /\ cached' = ExhaustedNow' /\ attached' = attached
                            /\ composition'[Day] \in {NoSnapshot, attached}
                            /\ PinOnDay(Day)' = PinOnDay(Day)
  PROVE  Today'
<1>1. Day' = Day /\ Day \in Days
  BY DayOfTick DEF Day, JournalInv
<1>2. addresses' = Issued' /\ Issued' \in given'[Day'] /\ given[Day] \subseteq given'[Day]
  BY <1>1, Recorded DEF JournalInv
<1>3. ASSUME Day \in steady'
      PROVE  /\ cached' = ExhaustedNow' /\ composition'[Day] \in {NoSnapshot, attached'}
             /\ PinOnDay(Day)' \cap attached' # {} => PinOnDay(Day)' \cap attached' \in given'[Day]
  BY <1>2, <1>3 DEF JournalInv, Today
<1> QED BY <1>1, <1>2, <1>3 DEF Today

\* Nobody has touched the weights or the counters.
LEMMA WeighedStays ==
  ASSUME JournalInv, now' \in {now, now + 1}, UNCHANGED <<weight, used>>, steady' \subseteq steady
  PROVE  Weighed'
<1>1. Day' >= Day /\ Day \in Int /\ Day' \in Int
  BY DayOfTick DEF JournalInv, AddrTyped, Day
<1>2. ExhaustedNow' = ExhaustedNow
  BY DEF ExhaustedNow
<1>3. ASSUME NEW d \in steady', d >= Day' PROVE d \in steady /\ d >= Day
  <2>1. d \in steady /\ d \in Nat
    BY DaysAreNat DEF JournalInv, AddrTyped
  <2> QED BY <1>1, <1>3, <2>1
<1> QED BY <1>2, <1>3 DEF JournalInv, Weighed

\* The pins stay.
LEMMA SamePins ==
  ASSUME pins' = pins, NEW d
  PROVE  /\ PinsMet(d)' = PinsMet(d) /\ PinOnDay(d)' = PinOnDay(d)
         /\ \A i \in PinsMet(d) : pins'[i].nodes = pins[i].nodes
BY DEF PinsMet, PinOnDay

\* Nor does the pin of the day under way change.
LEMMA SamePinToday ==
  ASSUME now' = now, pins' = pins PROVE PinOnDay(Day)' = PinOnDay(Day)
BY DEF PinsMet, PinOnDay, Day

\* While the day lasts and the pins stay, so do the records of past days, if
\* composition and weights change today at most.
LEMMA PastKept ==
  ASSUME JournalInv, now' = now, pins' = pins,
         \A d \in Days : d < Day => composition'[d] = composition[d] /\ weight'[d] = weight[d],
         UNCHANGED <<offset, rotatedAt>> \/ (rotatedAt' = now)
  PROVE  \A d \in Days : d < Day' => DayKept(d)
<1> SUFFICES ASSUME NEW d \in Days, d < Day' PROVE DayKept(d)
  OBVIOUS
<1>1. Day' = Day /\ Day \in Nat /\ 2 * Day <= now /\ d \in Nat
  BY DayOfTick, AddressAssumption DEF Day, JournalInv, Days
<1>2. \A e \in Days : e <= d => weight'[e] = weight[e]
  BY <1>1, AddressAssumption DEF Days
<1>3. rotatedAt' = now => ~OffsetKnown(d)'
  BY <1>1 DEF OffsetKnown, Never, JournalInv, AddrTyped
<1> QED BY <1>1, <1>2, <1>3, SamePins DEF DayKept

\* A node joins or leaves the host: today is no longer steady.
LEMMA MoveKeeps ==
  ASSUME JournalInv, NEW n \in HostNodes, Move(n) PROVE JournalInv'
<1> USE DEF Move
<1>1. AddrTyped'
  <2>1. Day \in Days /\ Day \in Nat /\ Day' = Day
    BY DayOfTick DEF JournalInv, Day
  <2>2. attached' \subseteq HostNodes
    BY AddressAssumption DEF JournalInv, AddrTyped
  <2>3. DOMAIN given' = Days /\ steady' \subseteq Days
    BY <2>1, Recorded DEF JournalInv, AddrTyped
  <2> QED BY <2>1, <2>2, <2>3, AddressAssumption DEF MayChange, AddrTyped, JournalInv
<1>2. Today'
  BY TodayStays
<1>3. Weighed'
  BY WeighedStays
<1>4. PastHonest'
  <2>1. \A d \in Days : d < Day' => DayKept(d)
    BY PastKept
  <2> QED BY <2>1, PastStays, DayOfTick DEF JournalInv, Day
<1> QED BY <1>1, <1>2, <1>3, <1>4 DEF JournalInv

\* Traffic is counted: unless it exhausts a node, nobody sees it.
LEMMA TrafficKeeps ==
  ASSUME JournalInv, NEW n \in Busy, Traffic(n) PROVE JournalInv'
<1> USE DEF Traffic
<1>1. AddrTyped'
  <2>1. Day \in Days /\ Day \in Nat /\ Day' = Day
    BY DayOfTick DEF JournalInv, Day
  <2>2. used' \in [HostNodes -> Nat]
    <3>1. used \in [HostNodes -> Nat] /\ n \in HostNodes /\ used[n] + 1 \in Nat
      BY AddressAssumption DEF JournalInv, AddrTyped
    <3>2. used' = [used EXCEPT ![n] = used[n] + 1]
      OBVIOUS
    <3> HIDE DEF Traffic
    <3> QED BY <3>1, <3>2
  <2>3. DOMAIN given' = Days /\ steady' \subseteq Days
    BY <2>1, Recorded DEF JournalInv, AddrTyped
  <2> QED BY <2>1, <2>2, <2>3, AddressAssumption DEF AddrTyped, JournalInv
<1>2. steady' \subseteq steady /\ Day \in Days /\ Day \in Nat /\ Day' = Day
  BY DayOfTick DEF JournalInv, Day
<1>3. Today'
  <2>1. ASSUME Day \in steady' PROVE ExhaustedNow' = ExhaustedNow
    <3>1. EpochStartDay(Day, AddressSubset.days) <= Day + MaxAgeDays
      BY <1>2, StartsBefore DEF MaxAgeDays
    <3>2. Day \in ReadFromOlderWeights
      BY <1>2, <3>1 DEF ReadFromOlderWeights
    <3> QED BY <2>1, <3>2
  <2>2. Day \in steady' => cached' = ExhaustedNow' /\ composition'[Day] \in {NoSnapshot, attached}
    BY <1>2, <2>1 DEF JournalInv, Today
  <2> QED BY <1>2, <2>2, SamePinToday, TodayStays
<1>4. Weighed'
  <2>1. CASE ExhaustedNow' = ExhaustedNow
    BY <1>2, <2>1 DEF JournalInv, Weighed
  <2>2. CASE ExhaustedNow' # ExhaustedNow
    <3>1. SUFFICES ASSUME NEW d \in steady', NEW e \in Days, d >= Day, weight[e] # NoWeights,
                          EpochStartDay(d, AddressSubset.days) - e <= MaxAgeDays
                   PROVE  FALSE
      BY <1>2 DEF Weighed
    <3>2. d \in Days /\ d \notin ReadFromOlderWeights /\ d \in Int /\ e \in Int
      BY <1>2, <2>2, AddressAssumption DEF JournalInv, AddrTyped, Days
    <3>3. EpochStartDay(d, AddressSubset.days) > Day + MaxAgeDays
      BY <1>2, <3>1, <3>2, StartsBefore DEF ReadFromOlderWeights, MaxAgeDays
    <3>4. e > Day
      BY <1>2, <3>1, <3>2, <3>3, StartsBefore DEF MaxAgeDays
    <3> QED BY <3>1, <3>4 DEF JournalInv, AddrTyped
  <2> QED BY <2>1, <2>2
<1>5. PastHonest'
  <2>1. \A d \in Days : d < Day' => DayKept(d)
    BY PastKept
  <2> QED BY <1>2, <2>1, PastStays
<1> QED BY <1>1, <1>3, <1>4, <1>5 DEF JournalInv

\* The cache of exhausted nodes is read anew.
LEMMA RefreshKeeps ==
  ASSUME JournalInv, RefreshExhausted PROVE JournalInv'
<1> USE DEF RefreshExhausted
<1>1. AddrTyped'
  <2>1. AddrTyped /\ DOMAIN given' = Days /\ Day' = Day
    BY Recorded, DayOfTick DEF JournalInv, Day
  <2> QED BY <2>1 DEF AddrTyped
<1>2. Today'
  <2>1. Day \in steady' => cached' = ExhaustedNow' /\ composition'[Day] \in {NoSnapshot, attached}
    BY DEF JournalInv, Today, ExhaustedNow
  <2> QED BY <2>1, SamePinToday, TodayStays
<1>3. Weighed'
  BY WeighedStays
<1>4. PastHonest'
  <2>1. \A d \in Days : d < Day' => DayKept(d)
    BY PastKept
  <2> QED BY <2>1, PastStays, DayOfTick DEF JournalInv, Day
<1> QED BY <1>1, <1>2, <1>3, <1>4 DEF JournalInv

\* What the bot writes is what is left of the limits: it says which nodes are exhausted.
LEMMA WeightsKeep ==
  ASSUME JournalInv, WriteWeights PROVE JournalInv'
<1> USE DEF WriteWeights
<1> DEFINE remains == [n \in HostNodes |-> Limit - used[n]]
<1>1. Day \in Days /\ Day \in Nat /\ Day' = Day /\ ExhaustedNow' = ExhaustedNow
  BY DayOfTick DEF JournalInv, Day, ExhaustedNow
<1>2. remains \in [HostNodes -> Int] /\ remains \in WeightTables
  BY AddressAssumption DEF JournalInv, AddrTyped, WeightTables
<1>3. weight' = [weight EXCEPT ![Day] = remains] /\ DOMAIN weight = Days
  BY DEF JournalInv, AddrTyped
<1>4. AddrTyped'
  <2>1. AddrTyped /\ DOMAIN given' = Days
    BY <1>1, Recorded DEF JournalInv
  <2>2. weight' \in [Days -> WeightTables]
    BY <1>1, <1>2, <1>3, <2>1 DEF AddrTyped
  <2>3. \A e \in Days : e > Day => weight'[e] = NoWeights
    BY <1>1, <1>3, <2>1, DaysAreNat DEF AddrTyped
  <2> QED BY <1>1, <2>1, <2>2, <2>3 DEF AddrTyped
<1>5. ExhaustedFromSnapshot(remains, NodeLimits, Cutoff) = ExhaustedNow
  <2>1. ASSUME NEW n \in HostNodes
        PROVE  NodeLimits[n] = Limit /\ NodeLimits[n] - remains[n] = used[n]
    BY AddressAssumption DEF NodeLimits, JournalInv, AddrTyped
  <2>2. DOMAIN remains = HostNodes /\ DOMAIN NodeLimits = HostNodes
    BY DEF NodeLimits
  <2> HIDE DEF remains
  <2> QED BY <2>1, <2>2 DEF ExhaustedFromSnapshot, ExhaustedNow
<1> HIDE DEF remains
<1>6. Today'
  <2>1. Day \in steady' => cached' = ExhaustedNow' /\ composition'[Day] \in {NoSnapshot, attached}
    BY <1>1 DEF JournalInv, Today
  <2> QED BY <2>1, SamePinToday, TodayStays
<1>7. Weighed'
  <2> SUFFICES ASSUME NEW d \in steady, NEW e \in Days, d >= Day, weight'[e] # NoWeights,
                      e <= EpochStartDay(d, AddressSubset.days),
                      EpochStartDay(d, AddressSubset.days) - e <= MaxAgeDays
               PROVE  ExhaustedFromSnapshot(weight'[e], NodeLimits, Cutoff) = ExhaustedNow
    BY <1>1 DEF Weighed
  <2>1. CASE e = Day
    BY <1>1, <1>3, <1>5, <2>1
  <2>2. CASE e # Day
    BY <1>3, <2>2 DEF JournalInv, Weighed
  <2> QED BY <2>1, <2>2
<1>8. PastHonest'
  <2>1. \A d \in Days : d < Day' => DayKept(d)
    <3>1. \A d \in Days : d < Day => weight'[d] = weight[d]
      BY <1>1, <1>3, AddressAssumption DEF Days
    <3> QED BY <3>1, PastKept
  <2> QED BY <1>1, <2>1, PastStays
<1> QED BY <1>4, <1>6, <1>7, <1>8 DEF JournalInv

\* The first snapshot of the day is of the nodes that the host has.
LEMMA SnapshotKeeps ==
  ASSUME JournalInv, SnapshotComposition PROVE JournalInv'
<1> USE DEF SnapshotComposition
<1>1. Day \in Days /\ Day \in Nat /\ Day' = Day /\ ExhaustedNow' = ExhaustedNow
  BY DayOfTick DEF JournalInv, Day, ExhaustedNow
<1>2. /\ DOMAIN composition' = Days
      /\ \A d \in Days : composition'[d] = IF d = Day /\ composition[d] = NoSnapshot THEN attached
                                           ELSE composition[d]
  BY <1>1 DEF WithSnapshot, JournalInv, AddrTyped
<1>3. composition' \in [Days -> (SUBSET HostNodes) \cup {NoSnapshot}]
  BY <1>1 DEF WithSnapshot, JournalInv, AddrTyped
<1>4. AddrTyped'
  <2>1. AddrTyped /\ DOMAIN given' = Days
    BY <1>1, Recorded DEF JournalInv
  <2>2. \A e \in Days : e > Day => composition'[e] = NoSnapshot
    BY <1>1, <1>2, <2>1, DaysAreNat DEF AddrTyped
  <2> QED BY <1>1, <1>3, <2>1, <2>2 DEF AddrTyped
<1>5. Today'
  <2>1. Day \in steady' => cached' = ExhaustedNow' /\ composition'[Day] \in {NoSnapshot, attached}
    BY <1>1, <1>2 DEF JournalInv, Today
  <2> QED BY <2>1, SamePinToday, TodayStays
<1>6. Weighed'
  BY WeighedStays
<1>7. PastHonest'
  <2>1. \A d \in Days : d < Day' => DayKept(d)
    <3>1. \A d \in Days : d < Day => composition'[d] = composition[d]
      BY <1>1, <1>2
    <3> QED BY <3>1, PastKept
  <2> QED BY <1>1, <2>1, PastStays
<1> QED BY <1>4, <1>5, <1>6, <1>7 DEF JournalInv

\* A rotation makes the journal admit that it does not know the days before.
LEMMA RotateKeeps ==
  ASSUME JournalInv, Rotate PROVE JournalInv'
<1> USE DEF Rotate
<1>1. AddrTyped'
  <2>1. AddrTyped /\ DOMAIN given' = Days /\ Day' = Day
    BY Recorded, DayOfTick DEF JournalInv, Day
  <2>2. offset' \in Nat /\ moves + offset' + Len(pins) <= MaxChanges /\ rotatedAt' \in Int
    BY <2>1, AddressAssumption DEF MayChange, AddrTyped
  <2> QED BY <2>1, <2>2 DEF AddrTyped
<1>2. Today'
  <2>1. Day \in steady' => cached' = ExhaustedNow' /\ composition'[Day] \in {NoSnapshot, attached}
    BY DEF JournalInv, Today, ExhaustedNow
  <2> QED BY <2>1, SamePinToday, TodayStays
<1>3. Weighed'
  BY WeighedStays
<1>4. PastHonest'
  <2>1. \A d \in Days : d < Day' => DayKept(d)
    BY PastKept
  <2> QED BY <2>1, PastStays, DayOfTick DEF JournalInv, Day
<1> QED BY <1>1, <1>2, <1>3, <1>4 DEF JournalInv

\* A pin that is created is the newest of its day, and it lives on this day.
LEMMA CreatePinKeeps ==
  ASSUME JournalInv, NEW N \in PinChoices, NEW ttl \in Ttls, CreatePin(N, ttl)
  PROVE  JournalInv'
<1> USE DEF CreatePin
<1> DEFINE k == Len(pins) + 1
           new == PinRow(N, ttl)
<1>1. Day \in Days /\ Day \in Nat /\ Day' = Day /\ 2 * Day <= now /\ now <= 2 * Day + 1
  BY DayOfTick DEF JournalInv, Day
<1>11. now \in Nat /\ now' = now
  BY DEF JournalInv, AddrTyped
<1>2. new \in PinRows /\ new.created = now /\ new.expires > now /\ new.nodes = N
  <2>1. now \in Nat /\ ttl \in Nat /\ ttl > 0 /\ N \subseteq HostNodes
    BY AddressAssumption DEF JournalInv, AddrTyped
  <2> QED BY <2>1 DEF PinRow, PinRows
<1>3. /\ pins' = Append(pins, new) /\ pins \in Seq(PinRows) /\ pins' \in Seq(PinRows)
      /\ k \in Nat /\ Len(pins') = k /\ DOMAIN pins = 1..Len(pins) /\ DOMAIN pins' = 1..k
      /\ pins'[k] = new /\ \A i \in DOMAIN pins : pins'[i] = pins[i]
  <2> HIDE DEF new
  <2>1. pins' = Append(pins, new) /\ pins \in Seq(PinRows) /\ Len(pins) \in Nat
    BY DEF JournalInv, AddrTyped, new
  <2> HIDE DEF CreatePin
  <2> QED BY <1>2, <2>1, AppendProperties
<1> HIDE DEF new
<1>4. AddrTyped'
  <2>1. DOMAIN given' = Days
    BY <1>1, Recorded DEF JournalInv
  <2>2. \A i \in DOMAIN pins' : pins'[i].created <= now
    BY <1>2, <1>3 DEF JournalInv, AddrTyped
  <2>3. moves' + offset' + Len(pins') <= MaxChanges
    BY <1>3, AddressAssumption DEF MayChange, JournalInv, AddrTyped
  <2> QED BY <1>1, <1>3, <2>1, <2>2, <2>3 DEF AddrTyped, JournalInv
<1>5. PinOnDay(Day)' = N
  <2>1. k \in PinsMet(Day)' /\ \A j \in PinsMet(Day)' : j <= k
    <3>1. new.created < 2 * (Day + 1) /\ new.expires > 2 * Day
      BY <1>1, <1>11, <1>2 DEF PinRows
    <3> HIDE DEF CreatePin
    <3> QED BY <1>1, <1>3, <3>1 DEF PinsMet
  <2>2. PinsMet(Day)' \subseteq Nat
    BY <1>3 DEF PinsMet
  <2>3. (CHOOSE i \in PinsMet(Day)' : \A j \in PinsMet(Day)' : j <= i) = k
    BY <2>1, <2>2, OneNewest
  <2> QED BY <1>2, <1>3, <2>1, <2>3 DEF PinOnDay
<1>6. ActivePin' = N
  <2> DEFINE live == {i \in DOMAIN pins' : pins'[i].expires > now}
  <2>1. k \in live /\ live \subseteq Nat /\ \A j \in live : j <= k
    BY <1>2, <1>3
  <2>2. (CHOOSE i \in live : \A j \in live : j <= i) = k
    <3> HIDE DEF live
    <3> QED BY <2>1, OneNewest
  <2>3. ActivePin' = IF live = {} THEN {}
                     ELSE pins'[CHOOSE i \in live : \A j \in live : j <= i].nodes
    BY DEF ActivePin
  <2> HIDE DEF live
  <2> QED BY <1>2, <1>3, <2>1, <2>2, <2>3
<1>7. Issued' = N
  <2>1. (Issued = Pick(attached, ActivePin, AddressSubset, WeightsOn(StartDay), cached, Epoch))'
    BY IssuedIsPick, PTL
  <2> QED BY <1>6, <2>1 DEF Pick
<1>8. Today'
  <2>1. addresses' = Issued' /\ Issued' \in given'[Day']
    BY <1>1, Recorded DEF JournalInv
  <2>2. Day \in steady => cached = ExhaustedNow' /\ composition[Day] \in {NoSnapshot, attached}
    BY DEF JournalInv, Today, ExhaustedNow
  <2>3. PinOnDay(Day)' \cap attached' = Issued'
    BY <1>5, <1>7
  <2> QED BY <1>1, <2>1, <2>2, <2>3 DEF Today
<1>9. Weighed'
  BY WeighedStays
<1>10. PastHonest'
  <2>1. ASSUME NEW d \in Days, d < Day' PROVE DayKept(d)
    <3>1. d \in Nat /\ now >= 2 * (d + 1)
      <4>1. d \in Nat /\ d + 1 <= Day
        BY <1>1, <2>1, DaysAreNat
      <4> HIDE DEF CreatePin
      <4> QED BY <1>1, <1>11, <4>1
    <3>2. k \notin PinsMet(d)'
      <4> HIDE DEF CreatePin
      <4> QED BY <1>11, <1>2, <1>3, <3>1 DEF PinsMet
    <3>3. PinsMet(d)' = PinsMet(d)
      BY <1>3, <3>2 DEF PinsMet
    <3>4. \A i \in PinsMet(d) : pins'[i].nodes = pins[i].nodes
      BY <1>3 DEF PinsMet
    <3> QED BY <3>3, <3>4 DEF DayKept
  <2> QED BY <1>1, <2>1, PastStays
<1> QED BY <1>4, <1>8, <1>9, <1>10 DEF JournalInv

\* A pin that is ended met the days before as it did, and meets today if it was
\* alive in the morning.
LEMMA DeletePinKeeps ==
  ASSUME JournalInv, DeletePin PROVE JournalInv'
<1> USE DEF DeletePin
<1>1. Day \in Days /\ Day \in Nat /\ Day' = Day /\ 2 * Day <= now /\ now <= 2 * Day + 1
  BY DayOfTick DEF JournalInv, Day
<1>2. /\ pins \in Seq(PinRows) /\ now \in Nat
      /\ DOMAIN pins' = DOMAIN pins /\ DOMAIN pins = 1..Len(pins) /\ Len(pins) \in Nat
  BY DEF JournalInv, AddrTyped
<1>3. ASSUME NEW i \in DOMAIN pins
      PROVE  /\ pins[i] \in PinRows /\ pins'[i] \in PinRows
             /\ pins'[i].created = pins[i].created /\ pins'[i].nodes = pins[i].nodes
             /\ pins'[i].expires = IF pins[i].expires > now THEN now ELSE pins[i].expires
  <2>1. pins[i] \in PinRows
    BY <1>2
  <2>2. pins'[i] = IF pins[i].expires > now THEN [pins[i] EXCEPT !.expires = now] ELSE pins[i]
    OBVIOUS
  <2> QED BY <1>2, <2>1, <2>2 DEF PinRows
<1>4. pins' \in Seq(PinRows) /\ Len(pins') = Len(pins)
  <2>1. pins' \in [1..Len(pins) -> PinRows]
    BY <1>2, <1>3
  <2> QED BY <1>2, <2>1
<1>5. AddrTyped'
  <2>1. DOMAIN given' = Days
    BY <1>1, Recorded DEF JournalInv
  <2>2. \A i \in DOMAIN pins' : pins'[i].created <= now
    BY <1>2, <1>3 DEF JournalInv, AddrTyped
  <2> QED BY <1>1, <1>4, <2>1, <2>2 DEF AddrTyped, JournalInv
<1>6. ASSUME NEW d \in Days, 2 * d < now
      PROVE  /\ PinsMet(d)' = PinsMet(d) /\ PinOnDay(d)' = PinOnDay(d)
             /\ \A i \in PinsMet(d) : pins'[i].nodes = pins[i].nodes
  <2>1. d \in Nat
    BY AddressAssumption DEF Days
  <2>2. \A i \in DOMAIN pins : pins[i].expires \in Nat
    BY <1>3 DEF PinRows
  <2>3. PinsMet(d)' = PinsMet(d)
    BY <1>2, <1>3, <1>6, <2>1, <2>2 DEF PinsMet
  <2>4. \A i \in PinsMet(d) : pins'[i].nodes = pins[i].nodes
    BY <1>3 DEF PinsMet
  <2>5. PinsMet(d) # {} =>
          (CHOOSE i \in PinsMet(d) : \A j \in PinsMet(d) : j <= i) \in PinsMet(d)
    BY <1>2, NewestRow DEF PinsMet
  <2> QED BY <2>3, <2>4, <2>5 DEF PinOnDay
<1>7. Today'
  <2>1. addresses' = Issued' /\ Issued' \in given'[Day'] /\ given[Day] \subseteq given'[Day]
    BY <1>1, Recorded DEF JournalInv
  <2>2. Day \in steady => cached = ExhaustedNow' /\ composition[Day] \in {NoSnapshot, attached}
    BY DEF JournalInv, Today, ExhaustedNow
  <2>3. ASSUME Day \in steady, PinOnDay(Day)' \cap attached # {}
        PROVE  PinOnDay(Day)' \cap attached \in given'[Day]
    <3>1. CASE now = 2 * Day
      <4>1. \A i \in DOMAIN pins' : pins'[i].expires <= 2 * Day
        <5> HIDE DEF DeletePin
        <5>1. \A i \in DOMAIN pins : pins[i].expires \in Nat
          BY <1>3 DEF PinRows
        <5> QED BY <1>1, <1>2, <1>3, <3>1, <5>1
      <4>2. \A i \in DOMAIN pins' : pins'[i].expires \in Nat
        BY <1>2, <1>3 DEF PinRows
      <4>3. PinsMet(Day)' = {}
        BY <1>1, <4>1, <4>2 DEF PinsMet
      <4> QED BY <2>3, <4>3 DEF PinOnDay
    <3>2. CASE 2 * Day < now
      <4>1. \A d \in Days : 2 * d < now => PinOnDay(d)' = PinOnDay(d)
        BY <1>6
      <4>2. PinOnDay(Day)' = PinOnDay(Day)
        <5> HIDE DEF DeletePin
        <5>1. PICK d \in Days : d = Day
          BY <1>1
        <5>2. PinOnDay(Day)' = PinOnDay(d)'
          BY <1>1, <5>1 DEF PinOnDay, PinsMet
        <5> QED BY <3>2, <4>1, <5>1, <5>2
      <4> QED BY <2>1, <2>3, <4>2 DEF JournalInv, Today
    <3>3. now = 2 * Day \/ 2 * Day < now
      BY <1>1, <1>2
    <3> HIDE DEF DeletePin
    <3> QED BY <3>1, <3>2, <3>3
  <2> QED BY <1>1, <2>1, <2>2, <2>3 DEF Today
<1>8. Weighed'
  BY WeighedStays
<1>9. PastHonest'
  <2>1. ASSUME NEW d \in Days, d < Day' PROVE DayKept(d)
    <3>1. 2 * d < now
      <4>1. d \in Nat /\ d + 1 <= Day
        BY <1>1, <2>1, DaysAreNat
      <4> HIDE DEF DeletePin
      <4> QED BY <1>1, <1>2, <4>1
    <3> QED BY <1>6, <3>1 DEF DayKept
  <2> QED BY <1>1, <2>1, PastStays
<1> QED BY <1>5, <1>7, <1>8, <1>9 DEF JournalInv

\* Half a day passes: of a new day nothing is recorded yet, and its pin is the
\* active one.
LEMMA TickKeeps ==
  ASSUME JournalInv, AddrTick PROVE JournalInv'
<1> USE DEF AddrTick
<1>1. now \in Nat /\ now' = now + 1 /\ now' <= 2 * MaxDay
  BY AddressAssumption DEF JournalInv, AddrTyped
<1>2. Day \in Days /\ Day \in Nat /\ Day' \in Nat /\ Day <= Day' /\ Day' <= Day + 1
  BY <1>1, DayOfTick, NextDay DEF JournalInv
<1>3. Day' \in Days /\ 2 * Day' <= now' /\ now' <= 2 * Day' + 1
  BY <1>1, AddressAssumption DEF Day, Days
<1>8. \A i \in DOMAIN pins : pins[i].created \in Nat /\ pins[i].created <= now
  <2>1. pins \in Seq(PinRows) /\ \A i \in DOMAIN pins : pins[i].created <= now
    BY DEF JournalInv, AddrTyped
  <2>2. \A i \in DOMAIN pins : pins[i] \in PinRows
    BY <2>1
  <2> QED BY <2>1, <2>2 DEF PinRows
<1>4. AddrTyped'
  <2>1. DOMAIN given' = Days
    BY <1>3, Recorded DEF JournalInv
  <2>2. \A e \in Days : e > Day' => weight[e] = NoWeights /\ composition[e] = NoSnapshot
    BY <1>2, AddressAssumption DEF JournalInv, AddrTyped, Days
  <2>3. rotatedAt <= now' /\ \A i \in DOMAIN pins : pins[i].created <= now'
    <3>1. \A i \in DOMAIN pins : pins[i].created \in Nat
      BY <1>8
    <3> QED BY <1>1, <3>1 DEF JournalInv, AddrTyped
  <2> QED BY <1>1, <2>1, <2>2, <2>3 DEF AddrTyped, JournalInv
<1>5. Today'
  <2>1. /\ addresses' = Issued' /\ Issued' \in given'[Day']
        /\ \A d \in Days : given[d] \subseteq given'[d]
    BY <1>3, Recorded DEF JournalInv
  <2>2. cached' = ExhaustedNow'
    BY DEF ExhaustedNow
  <2>3. CASE Day' = Day
    <3>1. PinOnDay(Day)' = PinOnDay(Day)
      BY <2>3 DEF PinOnDay, PinsMet
    <3> QED BY <1>2, <2>1, <2>2, <2>3, <3>1 DEF Today, JournalInv
  <2>4. CASE Day' = Day + 1
    <3>1. composition[Day'] = NoSnapshot
      BY <1>2, <1>3, <2>4 DEF JournalInv, AddrTyped
    <3>2. now' = 2 * Day'
      BY <1>1, <1>2, <1>3, <2>4, DayOfTick DEF JournalInv
    <3>3. \A i \in DOMAIN pins : pins[i].created < 2 * (Day' + 1)
      <4> SUFFICES ASSUME NEW i \in DOMAIN pins PROVE pins[i].created < 2 * (Day' + 1)
        OBVIOUS
      <4> HIDE DEF AddrTick
      <4>1. pins[i].created \in Nat /\ pins[i].created <= now
        BY <1>8
      <4>2. \A D \in Nat, t \in Nat, c \in Nat : c <= t /\ t + 1 = 2 * D => c < 2 * (D + 1)
        OBVIOUS
      <4>3. now + 1 = 2 * Day'
        BY <1>1, <3>2
      <4> QED BY <1>1, <1>2, <4>1, <4>2, <4>3
    <3>4. PinsMet(Day)' = {i \in DOMAIN pins : pins[i].expires > now'}
      BY <3>2, <3>3 DEF PinsMet
    <3>5. PinOnDay(Day)' = ActivePin'
      BY <3>4 DEF PinOnDay, ActivePin
    <3>6. (Issued = Pick(attached, ActivePin, AddressSubset, WeightsOn(StartDay), cached, Epoch))'
      BY IssuedIsPick, PTL
    <3>7. PinOnDay(Day)' \cap attached' # {} => Issued' = PinOnDay(Day)' \cap attached'
      BY <3>5, <3>6 DEF Pick
    <3> QED BY <2>1, <2>2, <3>1, <3>7 DEF Today
  <2> QED BY <1>2, <2>3, <2>4
<1>6. Weighed'
  BY WeighedStays
<1>7. PastHonest'
  <2>1. ASSUME NEW d \in Days PROVE DayKept(d)
    BY SamePins DEF DayKept
  <2> QED BY <1>3, <2>1, PastStays
<1> QED BY <1>4, <1>5, <1>6, <1>7 DEF JournalInv

\* The first day begins without pins, snapshots and weights.
LEMMA JournalInit == AddrInit => JournalInv
<1> SUFFICES ASSUME AddrInit PROVE JournalInv
  OBVIOUS
<1> USE DEF AddrInit
<1>1. Day = 0 /\ 0 \in Days /\ Days \subseteq Nat
  BY AddressAssumption DEF Day, Days
<1>2. AddrTyped
  <2>1. used \in [HostNodes -> Nat]
    BY AddressAssumption
  <2>2. weight \in [Days -> WeightTables]
        /\ composition \in [Days -> (SUBSET HostNodes) \cup {NoSnapshot}]
    BY DEF WeightTables
  <2>3. pins \in Seq(PinRows) /\ Len(pins) = 0 /\ DOMAIN pins = {}
    OBVIOUS
  <2>4. DOMAIN given = Days
    OBVIOUS
  <2> QED BY <1>1, <2>1, <2>2, <2>3, <2>4, AddressAssumption DEF AddrTyped, Never
<1>3. Today
  <2>1. PinOnDay(Day) = {}
    BY DEF PinOnDay, PinsMet
  <2>2. addresses = Issued /\ Issued \in given[Day]
    BY <1>1
  <2> QED BY <1>1, <2>1, <2>2 DEF Today
<1>4. Weighed
  <2>1. \A e \in Days : weight[e] = NoWeights
    OBVIOUS
  <2> QED BY <2>1 DEF Weighed
<1>5. PastHonest
  BY <1>1 DEF PastHonest
<1> QED BY <1>2, <1>3, <1>4, <1>5 DEF JournalInv

\* The steps together.
LEMMA JournalNext == JournalInv /\ [AddrNext]_addrVars => JournalInv'
<1> SUFFICES ASSUME JournalInv, [AddrNext]_addrVars PROVE JournalInv'
  OBVIOUS
<1>1. CASE UNCHANGED addrVars
  <2>1. AddrTyped'
    BY <1>1 DEF addrVars, JournalInv, AddrTyped, Day
  <2>2. Today'
    <3>1. Issued' = Issued
      BY <1>1 DEF addrVars, Issued, ActivePin, WeightsForRequest, WeightsOn, Day
    <3> QED BY <1>1, <3>1 DEF addrVars, JournalInv, Today, Day, ExhaustedNow, PinOnDay, PinsMet
  <2>3. Weighed'
    BY <1>1 DEF addrVars, JournalInv, Weighed, Day, ExhaustedNow
  <2>4. PastHonest'
    <3> SUFFICES ASSUME NEW d \in Days, d < Day' PROVE HonestOn(d)'
      BY DEF PastHonest
    <3>1. HonestOn(d)
      BY <1>1 DEF addrVars, Day, JournalInv, PastHonest
    <3>2. /\ UNCHANGED <<composition, weight, offset, rotatedAt, given, steady, pins>>
          /\ DOMAIN weight = Days /\ pins \in Seq(PinRows) /\ PinsMet(d) \subseteq DOMAIN pins
      BY <1>1 DEF addrVars, JournalInv, AddrTyped, PinsMet
    <3> QED BY <3>1, <3>2, SamePins, DayStays
  <2> QED BY <2>1, <2>2, <2>3, <2>4 DEF JournalInv
<1>2. CASE AddrNext
  BY <1>2, MoveKeeps, TrafficKeeps, RefreshKeeps, WeightsKeep, SnapshotKeeps, RotateKeeps,
     CreatePinKeeps, DeletePinKeeps, TickKeeps DEF AddrNext
<1> QED BY <1>1, <1>2

\* A host with nodes gives at least one of them and no more than its size
\* (build_address_context, choose_nodes), and what the journal calls restorable of a
\* day is what a request of that day got (_reconstruct_day), for any hash, nodes,
\* weights, pins and rotations.
THEOREM AddressesAreSound == AddrSpec => []AddressesSound
<1>1. JournalInv => AddressesSound
  <2> SUFFICES ASSUME JournalInv PROVE AddressesSound
    OBVIOUS
  <2>1. NeverWithoutAddresses
    BY IssuedSound DEF JournalInv, Today
  <2>2. JournalHonest
    <3> SUFFICES ASSUME NEW d \in Days, d <= Day PROVE HonestOn(d)
      BY DEF JournalHonest
    <3>1. CASE d = Day
      BY <3>1, TodayHonest DEF JournalInv
    <3>2. CASE d < Day
      BY <3>2 DEF JournalInv, PastHonest
    <3> QED BY <3>1, <3>2, DayOfTick, AddressAssumption DEF JournalInv, Days
  <2> QED BY <2>1, <2>2 DEF AddressesSound
<1> QED BY <1>1, JournalInit, JournalNext, PTL DEF AddrSpec

=============================================================================
