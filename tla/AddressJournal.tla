---------------------------- MODULE AddressJournal ----------------------------
(***************************************************************************)
(* The nodes of one host that one user is given day after day, and the     *)
(* journal that support reads later: app/services/address_history.py       *)
(* recomputes a past day from daily snapshots instead of recording it.     *)
(* Time is counted in ticks, two to a day.                                 *)
(***************************************************************************)
EXTENDS AddressPolicy, Sequences

CONSTANTS
    HostNodes,      \* node ids
    AddressSubset,  \* [enabled, size, days]: the host's address_subset_* fields
    Limit,          \* hosting_traffic_limit_bytes of every node
    Cutoff,         \* HOSTING_USAGE_CUTOFF_PERCENT
    Busy,           \* bound: nodes whose counters move
    MaxUsed,        \* bound: hosting_used_bytes of a node
    PinChoices,     \* bound: sets of nodes that support pins
    Ttls,           \* bound: ttl_days of a pin
    MaxDay,         \* bound: the last day, of which one tick is looked at
    MaxChanges      \* bound: pins, rotations and changes of the host's nodes together

\* Nodes have ids from 1 on, and a pin lives a day at least; the shift of a user's
\* epochs is a number of days within the period, and the hash a number for every
\* epoch there can be.
ASSUME AddressAssumption ==
    /\ HostNodes \subseteq Nat \ {0} /\ IsFiniteSet(HostNodes)
    /\ AddressSubset \in [enabled : BOOLEAN, size : Int, days : Int]
    /\ Limit \in Int /\ Cutoff \in Int
    /\ MaxUsed \in Nat /\ Busy \subseteq HostNodes /\ Ttls \subseteq Nat \ {0}
    /\ MaxDay \in Nat /\ MaxChanges \in Nat
    /\ Smear(Period(AddressSubset.days)) \in 0 .. Period(AddressSubset.days) - 1
    /\ \A n \in HostNodes, d \in 0..MaxDay, o \in 0..MaxChanges :
          Hash(n, EpochFor(d, AddressSubset.days, o)) \in Nat

VARIABLES
    now,          \* the tick: its day is now \div 2
    attached,     \* nodes behind the host (visible_nodes)
    moves,
    used,         \* nodes.hosting_used_bytes
    composition,  \* HostCompositionSnapshot: day -> set of nodes, or NoSnapshot
    weight,       \* NodeWeightSnapshot: day -> weights, or the empty function
    cached,       \* _exhausted_cache of the process
    offset,       \* users.address_rotation_offset
    rotatedAt,    \* users.address_rotation_offset_at
    pins,         \* UserNodePin rows of the user and host, oldest first
    addresses,    \* the nodes that a request gets now
    given,        \* history: day -> sets of nodes that a request of that day got
    steady        \* history: days on which the host's nodes stayed, and whose weights
                  \* know which nodes were exhausted

addrVars ==
    <<now, attached, moves, used, composition, weight, cached, offset, rotatedAt, pins,
      addresses, given, steady>>

Days == 0..MaxDay
Day == now \div 2
Never == -1
NoSnapshot == {0}
NoWeights == [n \in {} |-> 0]
NodeLimits == [n \in HostNodes |-> Limit]

(***************************************************************************)
(* What a request gets now.                                                *)
(***************************************************************************)

\* get_weight_snapshot: the latest snapshot not after the day, unless too old
WeightsOn(d) ==
    LET known == {e \in Days : weight[e] # NoWeights /\ e <= d /\ d - e <= MaxAgeDays}
    IN IF known = {} THEN NoWeights
       ELSE weight[CHOOSE e \in known : \A f \in known : f <= e]

\* crud.get_exhausted_node_ids
ExhaustedNow == {n \in HostNodes : IsExhausted(used[n], Limit, Cutoff)}

\* get_active_pins: of the rows not expired, the newest
ActivePin ==
    LET live == {i \in DOMAIN pins : pins[i].expires > now} IN
    IF live = {} THEN {} ELSE pins[CHOOSE i \in live : \A j \in live : j <= i].nodes

WeightsForRequestDaily(d) == WeightsOn(d)

\* AddressContext._weights: the snapshot of the day the epoch began
WeightsForRequest(d) == WeightsOn(EpochStartDay(d, AddressSubset.days))

\* build_address_context and AddressContext.pick
Issued ==
    CHOOSE N \in {Pick(S, pin, host, w, exhausted, epoch) :
                     S \in {attached}, pin \in {ActivePin}, host \in {AddressSubset},
                     w \in {WeightsForRequest(Day)}, exhausted \in {cached},
                     epoch \in {EpochFor(Day, AddressSubset.days, offset)}} : TRUE

(***************************************************************************)
(* What the journal says of a day.                                         *)
(***************************************************************************)

\* _HistoryScope.pins_on_day: the rows whose life meets the day, and the newest
PinsMet(d) == {i \in DOMAIN pins : pins[i].created < 2 * (d + 1) /\ pins[i].expires > 2 * d}
PinOnDay(d) ==
    IF PinsMet(d) = {} THEN {}
    ELSE pins[CHOOSE i \in PinsMet(d) : \A j \in PinsMet(d) : j <= i].nodes

OffsetAlwaysKnown(d) == TRUE

\* day_offset_known: only the last rotation is recorded
OffsetKnown(d) == rotatedAt = Never \/ 2 * d >= rotatedAt

\* _reconstruct_day for the host
Journal(d) ==
    LET S       == composition[d]
        unknown == [source |-> "unknown", nodes |-> {}]
        w       == WeightsOn(EpochStartDay(d, AddressSubset.days))
        auto(N) == [source |-> "auto", nodes |-> N]
    IN CASE S = NoSnapshot -> unknown
         [] S # NoSnapshot /\ PinOnDay(d) \cap S # {} ->
              [source |-> "pin", nodes |-> PinOnDay(d) \cap S]
         [] OTHER ->
              IF ~Narrows(AddressSubset) \/ Cardinality(S) <= AddressSubset.size THEN auto(S)
              ELSE IF w = NoWeights \/ ~OffsetKnown(d) THEN unknown
              ELSE auto(ChooseNodes(S, w, ExhaustedFromSnapshot(w, NodeLimits, Cutoff),
                                    AddressSubset.size, EpochFor(d, AddressSubset.days, offset)))

(***************************************************************************)
(* Actions.  Every step ends with what a request gets after it.            *)
(***************************************************************************)

MayChange == moves + offset + Len(pins) < MaxChanges

Record ==
    /\ addresses' = Issued'
    /\ given' = [given EXCEPT ![Day'] = @ \cup {addresses'}]

\* A node is attached to the host, detached, enabled or disabled.
Move(n) ==
    /\ MayChange
    /\ moves' = moves + 1
    /\ attached' = IF n \in attached THEN attached \ {n} ELSE attached \cup {n}
    /\ steady' = steady \ {Day}
    /\ UNCHANGED <<now, used, composition, weight, cached, offset, rotatedAt, pins>>
    /\ Record

\* The days that may be read from weights which do not know what happens today.
ReadFromOlderWeights ==
    {d \in Days : d >= Day /\ EpochStartDay(d, AddressSubset.days) <= Day + MaxAgeDays}

\* The script that reads the hosters' counters reports more traffic.
Traffic(n) ==
    /\ used[n] < MaxUsed
    /\ used' = [used EXCEPT ![n] = @ + 1]
    /\ steady' = IF ExhaustedNow' = ExhaustedNow THEN steady ELSE steady \ ReadFromOlderWeights
    /\ UNCHANGED <<now, attached, moves, composition, weight, cached, offset, rotatedAt, pins>>
    /\ Record

\* get_exhausted_nodes finds its cache older than the TTL.
RefreshExhausted ==
    /\ cached # ExhaustedNow
    /\ cached' = ExhaustedNow
    /\ UNCHANGED <<now, attached, moves, used, composition, weight, offset, rotatedAt,
                   pins, steady>>
    /\ Record

\* The bot writes the weights of the day once: what is left of the limits.
WriteWeights ==
    /\ weight[Day] = NoWeights
    /\ weight' = [weight EXCEPT ![Day] = [n \in HostNodes |-> Limit - used[n]]]
    /\ UNCHANGED <<now, attached, moves, used, composition, cached, offset, rotatedAt,
                   pins, steady>>
    /\ Record

\* write_host_composition_snapshot: the first write of a day wins
WithSnapshot(d, N) ==
    IF composition[d] = NoSnapshot THEN [composition EXCEPT ![d] = N] ELSE composition

\* snapshot_host_composition, every hour
SnapshotComposition ==
    /\ composition' = WithSnapshot(Day, attached)
    /\ UNCHANGED <<now, attached, moves, used, weight, cached, offset, rotatedAt, pins, steady>>
    /\ Record

\* rotate_user_addresses
Rotate ==
    /\ MayChange
    /\ offset' = offset + 1 /\ rotatedAt' = now
    /\ UNCHANGED <<now, attached, moves, used, composition, weight, cached, pins, steady>>
    /\ Record

\* create_user_node_pin: earlier rows stay as history
PinRow(N, ttl) == [created |-> now, expires |-> now + 2 * ttl, nodes |-> N]

\* create_user_pin_endpoint: only nodes that the host has now
CreatePin(N, ttl) ==
    /\ MayChange
    /\ N # {} /\ N \subseteq attached
    /\ pins' = Append(pins, PinRow(N, ttl))
    /\ UNCHANGED <<now, attached, moves, used, composition, weight, cached, offset,
                   rotatedAt, steady>>
    /\ Record

DeletePinErases ==
    /\ \E i \in DOMAIN pins : pins[i].expires > now
    /\ pins' = SelectSeq(pins, LAMBDA p : ~(p.expires > now))
    /\ UNCHANGED <<now, attached, moves, used, composition, weight, cached, offset,
                   rotatedAt, steady>>
    /\ Record

\* delete_user_node_pin: the rows stay and expire now
DeletePin ==
    /\ \E i \in DOMAIN pins : pins[i].expires > now
    /\ pins' = [i \in DOMAIN pins |->
                  IF pins[i].expires > now THEN [pins[i] EXCEPT !.expires = now] ELSE pins[i]]
    /\ UNCHANGED <<now, attached, moves, used, composition, weight, cached, offset,
                   rotatedAt, steady>>
    /\ Record

\* Half a day passes: no cache of exhausted nodes is that old.
AddrTick ==
    /\ now < 2 * MaxDay
    /\ now' = now + 1
    /\ cached' = ExhaustedNow
    /\ UNCHANGED <<attached, moves, used, composition, weight, offset, rotatedAt,
                   pins, steady>>
    /\ Record

AddrInit ==
    /\ now = 0 /\ moves = 0
    /\ attached = HostNodes
    /\ \E N \in SUBSET Busy : used = [n \in HostNodes |-> IF n \in N THEN MaxUsed ELSE 0]
    /\ composition = [d \in Days |-> NoSnapshot]
    /\ weight = [d \in Days |-> NoWeights]
    /\ cached = ExhaustedNow /\ offset = 0 /\ rotatedAt = Never /\ pins = <<>>
    /\ addresses = Issued
    /\ given = [d \in Days |-> IF d = 0 THEN {addresses} ELSE {}]
    /\ steady = Days

AddrNext ==
    \/ \E n \in HostNodes : Move(n)
    \/ \E n \in Busy : Traffic(n)
    \/ RefreshExhausted \/ WriteWeights \/ SnapshotComposition
    \/ Rotate
    \/ \E N \in PinChoices, ttl \in Ttls : CreatePin(N, ttl)
    \/ DeletePin
    \/ AddrTick

AddrSpec == AddrInit /\ [][AddrNext]_addrVars

(***************************************************************************)
(* Properties.                                                             *)
(***************************************************************************)

\* A subscription is never left without addresses: whatever is pinned, exhausted,
\* detached or narrowed, a host with nodes gives at least one of them, only its
\* own ones, and no more than its size unless nodes are pinned or it is not
\* narrowed.
NeverWithoutAddresses ==
    /\ addresses \subseteq attached
    /\ attached # {} => addresses # {}
    /\ Narrows(AddressSubset) /\ ActivePin \cap attached = {} /\ attached \ cached # {}
         => Cardinality(addresses) <= AddressSubset.size

\* The host has no more nodes than its size: the journal names them all, a request
\* leaves the exhausted ones out.
NamesAll(d) ==
    /\ Narrows(AddressSubset) /\ PinOnDay(d) \cap composition[d] = {}
    /\ Cardinality(composition[d]) <= AddressSubset.size

\* The newest pin of the day names no node that the host still has, so that it does
\* nothing while it lives; but it hides from the journal an older one that does.
PinHidden(d) ==
    /\ PinOnDay(d) \cap composition[d] = {}
    /\ \E i \in PinsMet(d) : pins[i].nodes \cap composition[d] # {}

\* The journal's own rule, honesty before completeness: of a day on which the
\* host's nodes did not change, nor the exhausted nodes since its weights were
\* written, what the journal calls restorable is what a request of that day got.
JournalHonestAlways ==
    \A d \in Days : (d <= Day /\ d \in steady /\ Journal(d).source # "unknown")
                       => Journal(d).nodes \in given[d]

\* The same but for hidden pins; where the journal names all nodes, a request of
\* that day got some of them.
HonestOn(d) ==
    (d \in steady /\ Journal(d).source # "unknown" /\ ~PinHidden(d)) =>
        IF NamesAll(d) THEN \E N \in given[d] : N \subseteq Journal(d).nodes
        ELSE Journal(d).nodes \in given[d]
JournalHonest == \A d \in Days : d <= Day => HonestOn(d)

\* A host with nodes gives at least one of them and no more than its size, and
\* what the journal calls restorable of a day is what a request of that day got.
AddressesSound == NeverWithoutAddresses /\ JournalHonest

\* Inside an epoch the addresses of a user do not jump: while nodes, pins,
\* exhaustion and offset stay, only the arrival of the weights of the epoch's
\* first day may change them.
StableStep ==
    ( /\ UNCHANGED <<attached, cached, offset>> /\ ActivePin' = ActivePin
      /\ EpochStartDay(Day', AddressSubset.days) = EpochStartDay(Day, AddressSubset.days)
      /\ Day > EpochStartDay(Day, AddressSubset.days)) => addresses' = addresses
StableWithinEpoch == [][StableStep]_addrVars

===============================================================================
