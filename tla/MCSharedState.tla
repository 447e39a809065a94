---------------------------- MODULE MCSharedState ----------------------------
(***************************************************************************)
(* What threads of the panel share without a database transaction, or edit *)
(* in the database while others have read it: one run for all of it.  The  *)
(* part is chosen in the initial state and moves alone; the others stand   *)
(* still where they begin.                                                 *)
(*   slot       the slot of a connect                                      *)
(*   hosts      PUT /hosts and what hosts refer to                         *)
(*   cache      the cache of hosts that subscriptions read                 *)
(*   documents  the documents of client configurations and their cache     *)
(*   addresses  the addresses of a host and their journal                  *)
(***************************************************************************)
EXTENDS ConnectSlot, HostCache, ClientConfigs, AddressJournal

VARIABLES
    part,
    hostRows, knownNodes, knownBots, seq, day, ops, put    \* of HostCatalog

hostVars == <<hostRows, knownNodes, knownBots, seq, day, ops, put>>

\* The catalogs of a refresh: two inbounds, or one of them.
TwoCatalogs == {<<"A", "B">>, <<"B">>}

\* A hash that prefers different nodes in different epochs.
TwoNodeHash(n, e) == IF (n + e) % 2 = 0 THEN 3 ELSE 2
ShiftedByOne(p) == 1 % p
OneOfTwo == [enabled |-> TRUE, size |-> 1, days |-> 2]
FirstPinned == {{1}}

\* A payload of PUT /hosts lists inbounds and, for each of them, hosts: two
\* here, of which one has a field set.  The hosts of the first inbound come
\* first.
HostTags == <<"A", "B">>
EntryNodes == {"n1"}
HostBots == {"b1"}
HostEntry(t, id) ==
    [tag |-> t, id |-> id, order |-> -1, bots |-> {}, rented |-> {},
     refs |-> {}, source |-> {}, entry |-> {}]
HostEdits(e) ==
    {[e EXCEPT !.order = 0]}
    \cup {[e EXCEPT !.refs = {{j}}] : j \in 2 .. 3}
    \cup {[e EXCEPT !.bots = HostBots, !.rented = r] : r \in {{}, HostBots}}
    \cup {[e EXCEPT !.source = {"selected"}, !.entry = {s}] : s \in {{}, EntryNodes}}
PlainEntries == {HostEntry(t, id) : t \in {"A", "B"}, id \in 0 .. 3}
SomeEntries == PlainEntries \cup UNION {HostEdits(e) : e \in PlainEntries}
HostLists ==
    {<<>>} \cup {<<e>> : e \in SomeEntries}
    \cup {l \in {<<e, f>> : e \in SomeEntries, f \in PlainEntries}
                \cup {<<f, e>> : e \in SomeEntries, f \in PlainEntries} :
             l[1].tag = "A" \/ l[2].tag = "B"}
HostPayloads ==
    {p \in [tags : {{"A"}, {"B"}, {"A", "B"}}, list : HostLists] :
        \A i \in DOMAIN p.list : p.list[i].tag \in p.tags}

Hosts == INSTANCE HostCatalog WITH
    rows <- hostRows, nodes <- knownNodes, bots <- knownBots,
    TagOrder <- HostTags, Nodes <- EntryNodes, Bots <- HostBots,
    Payloads <- HostPayloads, MaxId <- 4, MaxOps <- 2, ReuseIds <- FALSE

SharedInit ==
    /\ part \in {"slot", "hosts", "cache", "documents", "addresses"}
    /\ Init /\ Hosts!Init
    /\ DocInit /\ (part # "documents" => lastDoc = 1)
    /\ AddrInit /\ (part # "addresses" => used[1] = 0)
    /\ CacheInit /\ (part # "cache" => inbounds = <<"B">>)

SharedNext ==
    /\ UNCHANGED part
    /\ IF part = "slot" THEN Next ELSE UNCHANGED vars
    /\ IF part = "hosts" THEN Hosts!Next ELSE UNCHANGED hostVars
    /\ IF part = "cache" THEN CacheNext ELSE UNCHANGED cacheVars
    /\ IF part = "documents" THEN DocNext ELSE UNCHANGED docVars
    /\ IF part = "addresses" THEN AddrNext ELSE UNCHANGED addrVars

SharedSpec ==
    SharedInit /\ [][SharedNext]_<<part, vars, hostVars, cacheVars, docVars, addrVars>>

\* PUT /hosts keeps the hosts it carries and deletes the others of the inbounds
\* it lists and nothing else; it adds no reference to a host that is gone in the
\* end, keeps the day a bot began to rent, and empties no selection of nodes.
HostsSavedWhole ==
    [][part = "hosts" => /\ Hosts!CarriedStep /\ Hosts!ReferenceStep
                         /\ Hosts!RentStep /\ Hosts!EntryStep]_hostVars
=============================================================================
