----------------------------- MODULE HostCache -----------------------------
(***************************************************************************)
(* xray.hosts (xray/__init__.py, utils/store.py): the hosts of every       *)
(* inbound, kept in memory for the subscriptions.  update() clears it and  *)
(* fills it inbound by inbound from the database; the endpoints that       *)
(* change hosts, nodes, bots or the catalog of inbounds call it after      *)
(* their commit, and a reader that finds it empty calls it too.  There is  *)
(* no lock.                                                                *)
(*                                                                         *)
(* The hosts of the database are the number of the last commit.            *)
(***************************************************************************)
EXTENDS Integers, Sequences, FiniteSets

CONSTANTS
    Callers,    \* threads that serve requests
    Catalogs,   \* the catalogs of inbounds an admin may save: sequences of tags
    MaxCommits  \* bound on the commits

\* A catalog is a sequence of tags, and not empty: without an inbound there is no
\* configuration (XRayConfig).
ASSUME CacheAssumption ==
    \A c \in Catalogs : c \in Seq({c[i] : i \in DOMAIN c}) /\ c # <<>>

VARIABLES
    db,        \* number of commits
    inbounds,  \* config.inbounds_by_tag
    hosts,     \* the dictionary: tag -> the commit its hosts are from
    pc,        \* what a thread does
    left,      \* the inbounds a refresh has yet to fill
    todo,      \* the inbounds a subscription has yet to read
    snap,      \* the commit its database session saw first
    got,       \* what a subscription has read: tag -> commit, -1 for nothing
    crossed    \* history: a refresh met another thread's call

cacheVars == <<db, inbounds, hosts, pc, left, todo, snap, got, crossed>>

InCatalog == {inbounds[i] : i \in DOMAIN inbounds}
Nothing == [t \in {} |-> 0]

CacheInit ==
    /\ db = 0 /\ inbounds \in Catalogs /\ hosts = Nothing
    /\ pc = [t \in Callers |-> "idle"] /\ left = [t \in Callers |-> <<>>]
    /\ todo = [t \in Callers |-> <<>>]
    /\ snap = [t \in Callers |-> 0] /\ got = [t \in Callers |-> Nothing]
    /\ crossed = FALSE

CallGoes(t, l) == pc' = [pc EXCEPT ![t] = l]
Meets(t) == crossed' = (crossed \/ \E o \in Callers \ {t} : pc[o] # "idle")

\* PUT /hosts, POST, PUT and DELETE /node, PATCH and DELETE /bots: the commit.
CommitHosts(t) ==
    /\ pc[t] = "idle" /\ db < MaxCommits
    /\ db' = db + 1
    /\ CallGoes(t, "update") /\ Meets(t)
    /\ UNCHANGED <<inbounds, hosts, left, todo, snap, got>>

\* PUT /core/config (modify_core_config): xray.config first, the hosts last.
SaveCoreConfig(t) ==
    /\ pc[t] = "idle"
    /\ inbounds' \in Catalogs \ {inbounds}
    /\ db < MaxCommits /\ db' = db + 1
    /\ CallGoes(t, "update") /\ Meets(t)
    /\ UNCHANGED <<hosts, left, todo, snap, got>>

\* A refresh that keeps what is there.
update_startsUncleared(t) ==
    /\ hosts' = hosts
    /\ left' = [left EXCEPT ![t] = inbounds]
    /\ snap' = [snap EXCEPT ![t] = db]

\* hosts(storage): clear, then the loop over the catalog.
update_starts(t) ==
    /\ hosts' = Nothing
    /\ left' = [left EXCEPT ![t] = inbounds]
    /\ snap' = [snap EXCEPT ![t] = db]

Clear(t) ==
    /\ pc[t] = "update"
    /\ update_starts(t)
    /\ CallGoes(t, "fill")
    /\ UNCHANGED <<db, inbounds, todo, got, crossed>>

\* The hosts of one inbound.  What the session sees is the first commit it saw
\* or the last one: the isolation of the database decides.
FillOne(t) ==
    \E v \in {snap[t], db} :
        /\ hosts' = [u \in DOMAIN hosts \cup {left[t][1]} |->
                        IF u = left[t][1] THEN v ELSE hosts[u]]
        /\ left' = [left EXCEPT ![t] = Tail(@)]

\* A refresh that an edit has asked for, and one that a reader has.
Fill(t) ==
    /\ pc[t] \in {"fill", "refill"} /\ left[t] # <<>>
    /\ FillOne(t)
    /\ UNCHANGED <<db, inbounds, pc, todo, snap, got, crossed>>

\* The refresh ends; a reader takes up where it found nothing.
Filled(t) ==
    /\ pc[t] \in {"fill", "refill"} /\ left[t] = <<>>
    /\ CallGoes(t, IF pc[t] = "fill" THEN "idle" ELSE "found")
    /\ UNCHANGED <<db, inbounds, hosts, left, todo, snap, got, crossed>>

\* A subscription reads the hosts of every inbound of the user.
Subscribe(t) ==
    /\ pc[t] = "idle"
    /\ CallGoes(t, "read") /\ Meets(t)
    /\ todo' = [todo EXCEPT ![t] = inbounds]
    /\ got' = [got EXCEPT ![t] = Nothing]
    /\ UNCHANGED <<db, inbounds, hosts, left, snap>>

Found(u) == IF u \in DOMAIN hosts THEN hosts[u] ELSE -1

\* dict.get, whatever is there.
TakeHosts(t) ==
    /\ got' = [got EXCEPT ![t] = [u \in DOMAIN @ \cup {todo[t][1]} |->
                                     IF u = todo[t][1] THEN Found(u) ELSE @[u]]]
    /\ todo' = [todo EXCEPT ![t] = Tail(@)]
    /\ CallGoes(t, IF Len(todo[t]) = 1 THEN "idle" ELSE "read")
    /\ UNCHANGED <<hosts, left, snap>>

\* An empty storage is as good as any.
get_hostsAnyway(t) == TakeHosts(t)

\* DictStorage.get: an empty storage is filled first, and then read.
get_hosts(t) ==
    IF pc[t] = "read" /\ hosts = Nothing
    THEN /\ update_starts(t)
         /\ CallGoes(t, "refill")
         /\ UNCHANGED <<todo, got>>
    ELSE TakeHosts(t)

ReadHosts(t) ==
    /\ pc[t] \in {"read", "found"}
    /\ get_hosts(t)
    /\ UNCHANGED <<db, inbounds, crossed>>

CacheNext ==
    \E t \in Callers :
        \/ CommitHosts(t)    \/ SaveCoreConfig(t)
        \/ Clear(t)     \/ Fill(t)   \/ Filled(t)
        \/ Subscribe(t) \/ ReadHosts(t)

CacheSpec == CacheInit /\ [][CacheNext]_cacheVars

----------------------------------------------------------------------------
Quiet == \A t \in Callers : pc[t] = "idle"

\* Once every call has ended the cache is empty, or it holds exactly the
\* inbounds of the catalog with the hosts of the last commit, unless calls
\* crossed.
CacheIsFresh ==
    (Quiet /\ ~crossed /\ hosts # Nothing)
        => hosts = [u \in InCatalog |-> db]

\* A subscription that no other call crossed was given the hosts of every
\* inbound, the first one after a start of the panel included.
ReadersSeeAll ==
    ~crossed => \A t \in Callers : \A u \in DOMAIN got[t] : got[t][u] # -1

\* What the subscriptions read is complete and fresh, unless calls crossed.
CacheSound == CacheIsFresh /\ ReadersSeeAll

\* The same for subscriptions that a refresh may cross.
ReadersSeeAllAlways ==
    \A t \in Callers : \A u \in DOMAIN got[t] : got[t][u] # -1

\* The same for refreshes that may cross each other.
CacheIsFreshAlways ==
    (Quiet /\ hosts # Nothing) => hosts = [u \in InCatalog |-> db]
=============================================================================
