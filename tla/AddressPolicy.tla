---------------------------- MODULE AddressPolicy ----------------------------
(***************************************************************************)
(* Which nodes of a host one user is given: app/xray/address_policy.py and *)
(* the pure part of app/subscription/address_context.py.  Nodes are their  *)
(* ids.  The rendezvous hash of (user, node, epoch) is a constant; the     *)
(* factor -1/ln(u) that it contributes to a score is a positive number,    *)
(* here a positive integer.  Weights are doubled, so that the median of an *)
(* even number of weights stays an integer.                                *)
(***************************************************************************)
EXTENDS Integers, FiniteSets

CONSTANTS
    Hash(_, _),   \* Hash(node, epoch): the user's factor, a positive integer
    Smear(_)      \* Smear(period): the user's shift, 0 .. period - 1

MaxAgeDays == 2        \* WEIGHT_SNAPSHOT_MAX_AGE_DAYS
ExhaustedWeight == 2   \* EXHAUSTED_WEIGHT, doubled

\* cutoff_ratio, as a percentage: a value outside 1..100 counts as 100
CutoffPercent(percent) == IF percent \in 1..100 THEN percent ELSE 100

\* is_exhausted: the limit is reached, not passed; no limit is never exhausted
IsExhausted(used, limit, percent) ==
    limit > 0 /\ used * 100 >= limit * CutoffPercent(percent)

\* statistics.median of the weights w[n], n \in S, doubled
DoubledMedian(w, S) ==
    LET pos(n) == Cardinality({m \in S : w[m] < w[n] \/ (w[m] = w[n] /\ m < n)})
        at(i)  == w[CHOOSE n \in S : pos(n) = i]
        k      == Cardinality(S)
    IN at((k - 1) \div 2) + at(k \div 2)

\* weighted_candidates: a node without a weight gets the median of the others,
\* and every node gets zero when no weight is known
WeightedCandidates(w, S) ==
    LET known == S \cap DOMAIN w IN
    [n \in S |-> IF n \in known THEN 2 * w[n]
                 ELSE IF known = {} THEN 0 ELSE DoubledMedian(w, known)]

\* _score
Score(n, epoch, weight) ==
    (IF weight > ExhaustedWeight THEN weight ELSE ExhaustedWeight) * Hash(n, epoch)

\* pick_keys: the `size` best scores, ties broken by the key
PickKeys(c, size, epoch) ==
    LET score == [n \in DOMAIN c |-> Score(n, epoch, c[n])] IN
    {n \in DOMAIN c : Cardinality({m \in DOMAIN c :
        score[m] > score[n] \/ (score[m] = score[n] /\ m < n)}) < size}

\* choose_nodes: exhausted nodes leave first, unless that leaves none
ChooseNodes(S, w, exhausted, size, epoch) ==
    LET alive == IF S \ exhausted = {} THEN S ELSE S \ exhausted IN
    IF Cardinality(alive) <= size THEN alive
    ELSE PickKeys(WeightedCandidates(w, alive), size, epoch)

\* exhausted_from_snapshot: a weight is what is left of the limit
ExhaustedFromSnapshot(w, limits, percent) ==
    {n \in DOMAIN w \cap DOMAIN limits : IsExhausted(limits[n] - w[n], limits[n], percent)}

Period(days) == IF days > 1 THEN days ELSE 1

\* epoch_for and epoch_start_day
EpochFor(day, days, offset) == (day + Smear(Period(days))) \div Period(days) + offset
EpochStartDay(day, days) ==
    ((day + Smear(Period(days))) \div Period(days)) * Period(days) - Smear(Period(days))

\* settings_from_host: narrowing needs the switch and a positive size
Narrows(host) == host.enabled /\ host.size > 0

PickPinVerbatim(S, pinned, host, w, exhausted, epoch) ==
    IF pinned # {} THEN pinned \cap S
    ELSE IF ~Narrows(host) \/ S = {} THEN S
    ELSE ChooseNodes(S, w, exhausted, host.size, epoch)

\* AddressContext.pick for a host whose addresses come from its nodes: a pin that
\* meets the host's nodes replaces everything else
Pick(S, pinned, host, w, exhausted, epoch) ==
    IF pinned \cap S # {} THEN pinned \cap S
    ELSE IF ~Narrows(host) \/ S = {} THEN S
    ELSE ChooseNodes(S, w, exhausted, host.size, epoch)

=============================================================================
