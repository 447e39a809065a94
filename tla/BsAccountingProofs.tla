------------------------- MODULE BsAccountingProofs -------------------------
(***************************************************************************)
(* As long as no transaction runs over midnight of the month, the counters *)
(* are never ahead of the pool, for any number of nodes, months and bytes. *)
(* The review job always blocks by the very usage the API shows.  And      *)
(* closing the books whenever somebody comes along is closing them at the  *)
(* end of every month: BsAccounting implements BsPool.                     *)
(*                                                                         *)
(* RowsBehindPool is not inductive: a tick or a request writes the month   *)
(* it took when it started, so the invariant also says that this is still  *)
(* the current month, and that nothing is dated after it.                  *)
(* ReviewAgreesWithApi and the refinement compare sums of counters: the    *)
(* invariant types the state, and the lemmas on SumIn say what such a sum  *)
(* is and how it changes with one counter, by the smallest set of nodes of *)
(* which they would be wrong.                                              *)
(***************************************************************************)
EXTENDS BsAccounting, FiniteSetTheorems, TLAPS

\* Every date is a month, and none lies in the future.
Dated ==
    /\ month \in Nat \ {0}
    /\ period \in Nat /\ period <= month
    /\ row \in [Nodes -> [used : Int, period : Nat]]
    /\ \A n \in Nodes : row[n].period <= month

\* Whoever is at work took the current month.
Current ==
    /\ tick # NoTick => tick.n \in Nodes /\ tick.ym = month /\ tick.old \in [used : Int, period : Nat]
    /\ tx # NoTx => tx.ym = month

IInv == Dated /\ Current /\ RowsBehindPool

-----------------------------------------------------------------------------
\* Nothing is counted in the beginning.
LEMMA InitIInv == Init => IInv
BY BsAssumption DEF Init, IInv, Dated, Current, RowsBehindPool, NoRow

\* A tick starts in the current month.
LEMMA TickReadsIInv ==
  ASSUME NEW n \in Nodes, IInv, TickReads(n) PROVE IInv'
<1>1. Dated'
  BY DEF IInv, Dated, TickReads
<1>2. Current'
  BY DEF IInv, Dated, Current, TickReads
<1>3. RowsBehindPool'
  BY DEF IInv, RowsBehindPool, TickReads
<1> QED BY <1>1, <1>2, <1>3 DEF IInv

\* What a counter step writes is a counter of the tick's month.
LEMMA CounterStepTyped ==
  ASSUME NEW old \in [used : Int, period : Nat], NEW delta \in Int, NEW ym \in Nat
  PROVE  CounterStep(old, delta, ym) \in [used : Int, period : Nat] /\ CounterStep(old, delta, ym).period = ym
BY DEF CounterStep

\* It carries the pool over to its month before the counter is written.
LEMMA TickWritesIInv ==
  ASSUME NEW delta \in 1..MaxUsed, IInv, TickWrites(delta) PROVE IInv'
<1> DEFINE new == CounterStep(tick.old, delta, tick.ym)
<1>1. tick.n \in Nodes /\ tick.ym = month /\ tick.old \in [used : Int, period : Nat]
  BY DEF IInv, Current, TickWrites
<1>2. new \in [used : Int, period : Nat] /\ new.period = month
  BY <1>1, CounterStepTyped, BsAssumption DEF IInv, Dated
<1>3. row' = row \/ row' = [row EXCEPT ![tick.n] = new]
  BY DEF TickWrites
<1>4. period' \in {period, month} /\ (period # 0 => period' = month)
  BY <1>1 DEF IInv, Dated, TickWrites
<1>5. month' = month /\ tick' = NoTick /\ tx' = tx
  BY DEF TickWrites
<1> HIDE DEF new
<1>6. Dated'
  BY <1>1, <1>2, <1>3, <1>4, <1>5 DEF IInv, Dated
<1>7. Current'
  BY <1>5 DEF IInv, Current
<1>8. RowsBehindPool'
  <2>1. CASE period # 0
    BY <1>6, <1>4, <1>5, <2>1 DEF Dated, RowsBehindPool
  <2>2. CASE period = 0
    BY <1>6, <1>4, <1>5, <2>2 DEF Dated, RowsBehindPool
  <2> QED BY <2>1, <2>2
<1> QED BY <1>6, <1>7, <1>8 DEF IInv

\* A request starts in the current month, and moves the pool to it.
LEMMA RequestIInv ==
  ASSUME IInv,
         (\E op \in Ops, arg \in 0..MaxPool : RequestStarts(op, arg)) \/ RequestEnds
  PROVE  IInv'
<1>1. CASE \E op \in Ops, arg \in 0..MaxPool : RequestStarts(op, arg)
  BY <1>1 DEF IInv, Dated, Current, RowsBehindPool, RequestStarts
<1>2. CASE ResetDataUsage
  BY <1>2 DEF IInv, Dated, Current, RowsBehindPool, ResetDataUsage, NoRow
<1>3. CASE Refused
  BY <1>3 DEF IInv, Dated, Current, RowsBehindPool, Refused
<1>4. ASSUME NEW p, tx.op # "none", WritePool(p) PROVE IInv'
  <2>1. tx.ym = month
    BY <1>4 DEF IInv, Current, NoTx
  <2> QED BY <1>4, <2>1 DEF IInv, Dated, Current, RowsBehindPool, WritePool
<1> QED
  BY <1>1, <1>2, <1>3, <1>4
     DEF RequestEnds, ModifyBsExtra, ResetBsExtraPool, SetBsExtraAmount, SetBsLimitTotal

\* The review touches neither counters nor pool.
LEMMA ReviewIInv ==
  ASSUME IInv, ReviewReads \/ ReviewWrites PROVE IInv'
<1>1. UNCHANGED <<month, row, period, tick, tx>>
  BY DEF ReviewReads, ReviewWrites
<1> QED BY <1>1 DEF IInv, Dated, Current, RowsBehindPool

\* A month begins only when nobody is at work.
LEMMA CalendarIInv ==
  ASSUME ~Straddle, IInv, NewMonth \/ SetLimit \/ \E n \in Nodes : SetIsBs(n) PROVE IInv'
<1>1. CASE NewMonth
  BY <1>1 DEF IInv, Dated, Current, RowsBehindPool, NewMonth
<1>2. CASE SetLimit \/ \E n \in Nodes : SetIsBs(n)
  <2>1. UNCHANGED <<month, row, period, tick, tx>>
    BY <1>2 DEF SetLimit, SetIsBs
  <2> QED BY <2>1 DEF IInv, Dated, Current, RowsBehindPool
<1> QED BY <1>1, <1>2

\* The steps together.
LEMMA NextIInv ==
  ASSUME ~Straddle, IInv, [Next]_bsVars PROVE IInv'
<1>1. CASE UNCHANGED bsVars
  BY <1>1 DEF bsVars, IInv, Dated, Current, RowsBehindPool
<1>2. CASE Next
  BY <1>2, TickReadsIInv, TickWritesIInv, RequestIInv, ReviewIInv, CalendarIInv DEF Next, Step
<1> QED BY <1>1, <1>2

\* The counters are never ahead of the pool, whatever the nodes, months and
\* bytes, unless a transaction runs over midnight.
THEOREM CountersBehindPool == ASSUME ~Straddle PROVE Spec => []RowsBehindPool
<1>1. IInv /\ [Next]_bsVars => IInv'
  BY NextIInv
<1>2. IInv => RowsBehindPool
  BY DEF IInv
<1> QED BY InitIInv, <1>1, <1>2, PTL DEF Spec

-----------------------------------------------------------------------------
\* Tables of counters: numbers of bytes, each with its month.
Tables == [Nodes -> [used : Nat, period : Nat]]

\* The sum of the counters of S in the table r.
SumIn(r, S) == MapThenSumSet(LAMBDA n : r[n].used, S)

\* f sums up the counters of every subset of S.
Sums(r, f, S) ==
  f = [s \in SUBSET S |->
         IF s = {} THEN 0 ELSE r[CHOOSE x \in s : TRUE].used + f[s \ {CHOOSE x \in s : TRUE}]]

\* SumIn picks one such f: what it is, and that there is one, is for the lemmas
\* below to say.
LEMMA SumChosen == ASSUME NEW r, NEW S PROVE SumIn(r, S) = (CHOOSE f : Sums(r, f, S))[S]
BY DEF SumIn, MapThenSumSet, MapThenFoldSet, Sums

\* Among sets of nodes some set has no other one of them below it.
LEMMA SmallestSet ==
  ASSUME NEW T, T \subseteq SUBSET Nodes, T # {}
  PROVE \E m \in T : \A u \in T : u \subseteq m => u = m
<1>1. T \subseteq FiniteSubsetsOf(Nodes)
  BY BsAssumption, FS_Subset DEF FiniteSubsetsOf
<1>2. PICK m \in T : \A u \in T : <<u, m>> \notin StrictSubsetOrdering(Nodes)
  <2> HIDE DEF FiniteSubsetsOf
  <2> QED BY <1>1, FS_StrictSubsetOrderingWellFounded, WFMin
<1>3. ASSUME NEW u \in T, u \subseteq m, u # m PROVE FALSE
  BY <1>2, <1>3 DEF StrictSubsetOrdering
<1> QED BY <1>3

\* Taking one node away from a set of nodes.
LEMMA OneLess ==
  ASSUME NEW s, s # {}
  PROVE LET x == CHOOSE x \in s : TRUE
        IN  x \in s /\ s \ {x} \subseteq s /\ s \ {x} # s
OBVIOUS

\* Sums of the same set are the same, in tables that agree on it.
LEMMA SumsAgree ==
  ASSUME NEW r, NEW q, NEW S \in SUBSET Nodes, NEW T \in SUBSET Nodes,
         \A n \in S \cap T : r[n].used = q[n].used,
         NEW f, NEW g, Sums(r, f, S), Sums(q, g, T)
  PROVE \A s \in SUBSET (S \cap T) : f[s] = g[s]
<1> DEFINE Bad == {s \in SUBSET (S \cap T) : f[s] # g[s]}
<1> SUFFICES ASSUME Bad # {} PROVE FALSE
  OBVIOUS
<1>1. PICK s \in Bad : \A u \in Bad : u \subseteq s => u = s
  <2>1. Bad \subseteq SUBSET Nodes
    OBVIOUS
  <2> HIDE DEF Bad
  <2> QED BY <2>1, SmallestSet
<1> DEFINE x == CHOOSE x \in s : TRUE
<1>2. s \in SUBSET S /\ s \in SUBSET T /\ f[s] # g[s]
  BY <1>1
<1>3. f[s] = IF s = {} THEN 0 ELSE r[x].used + f[s \ {x}]
  BY <1>2 DEF Sums
<1>4. g[s] = IF s = {} THEN 0 ELSE q[x].used + g[s \ {x}]
  BY <1>2 DEF Sums
<1>5. s # {}
  BY <1>2, <1>3, <1>4
<1>6. x \in s /\ s \ {x} \subseteq s /\ s \ {x} # s
  BY <1>5, OneLess
<1>7. s \ {x} \notin Bad
  BY <1>1, <1>6
<1>8. f[s \ {x}] = g[s \ {x}]
  BY <1>1, <1>6, <1>7
<1>9. r[x].used = q[x].used
  BY <1>2, <1>6
<1> QED BY <1>2, <1>3, <1>4, <1>8, <1>9

\* Every set of nodes has its sums: a smallest set without them would get them
\* from the sums of its own subsets.
LEMMA SumsExist ==
  ASSUME NEW r \in Tables, NEW S \in SUBSET Nodes
  PROVE \E f \in [SUBSET S -> Nat] : Sums(r, f, S)
<1> DEFINE Good(S_) == \E f \in [SUBSET S_ -> Nat] : Sums(r, f, S_)
           Bad == {u \in SUBSET Nodes : ~Good(u)}
<1> SUFFICES ASSUME Bad # {} PROVE FALSE
  OBVIOUS
<1>1. PICK m \in Bad : \A u \in Bad : u \subseteq m => u = m
  <2>1. Bad \subseteq SUBSET Nodes
    OBVIOUS
  <2> HIDE DEF Bad
  <2> QED BY <2>1, SmallestSet
<1> DEFINE g == [u \in SUBSET m |-> CHOOSE f : f \in [SUBSET u -> Nat] /\ Sums(r, f, u)]
<1>2. ASSUME NEW u \in SUBSET m, u # m PROVE g[u] \in [SUBSET u -> Nat] /\ Sums(r, g[u], u)
  <2>1. Good(u)
    BY <1>1, <1>2
  <2> QED BY <2>1
<1> DEFINE part(s) == LET x == CHOOSE x \in s : TRUE IN r[x].used + g[s \ {x}][s \ {x}]
           f == [s \in SUBSET m |-> IF s = {} THEN 0 ELSE part(s)]
<1>3. ASSUME NEW s \in SUBSET m, s # {} PROVE part(s) \in Nat
  <2> DEFINE x == CHOOSE x \in s : TRUE
             u == s \ {x}
  <2>1. x \in s /\ u \in SUBSET m /\ u # m /\ x \in Nodes
    BY <1>1, <1>3, OneLess
  <2>2. g[u][u] \in Nat
    BY <1>2, <2>1
  <2>3. r[x].used \in Nat
    BY <2>1 DEF Tables
  <2> QED BY <2>2, <2>3
<1>4. f \in [SUBSET m -> Nat]
  BY <1>3
<1>5. ASSUME NEW u \in SUBSET m, u # m PROVE f[u] = g[u][u]
  <2>1. g[u][u] = IF u = {} THEN 0
                  ELSE LET x == CHOOSE x \in u : TRUE IN r[x].used + g[u][u \ {x}]
    <3>1. Sums(r, g[u], u)
      BY <1>2, <1>5
    <3> DEFINE h == g[u]
    <3> HIDE DEF h
    <3>2. Sums(r, h, u)
      BY <3>1 DEF h
    <3> QED BY <3>2 DEF Sums, h
  <2>2. CASE u = {}
    BY <2>1, <2>2
  <2>3. CASE u # {}
    <3> DEFINE x == CHOOSE x \in u : TRUE
               v == u \ {x}
    <3>1. v \in SUBSET m /\ v # m /\ v \subseteq u
      BY <1>5, <2>3, OneLess
    <3>2. Sums(r, g[u], u) /\ Sums(r, g[v], v)
      BY <1>2, <1>5, <3>1
    <3>3. g[u][v] = g[v][v]
      BY <1>1, <1>5, <3>1, <3>2, SumsAgree
    <3> QED BY <2>1, <2>3, <3>3
  <2> QED BY <2>2, <2>3
<1>6. Sums(r, f, m)
  <2>1. ASSUME NEW s \in SUBSET m, s # {}
        PROVE part(s) = r[CHOOSE x \in s : TRUE].used + f[s \ {CHOOSE x \in s : TRUE}]
    <3> DEFINE x == CHOOSE x \in s : TRUE
               u == s \ {x}
    <3>1. u \in SUBSET m /\ u # m
      BY <2>1, OneLess
    <3>2. f[u] = g[u][u]
      BY <1>5, <3>1
    <3> QED BY <3>2
  <2> HIDE DEF part
  <2>2. f = [s \in SUBSET m |-> IF s = {} THEN 0
             ELSE r[CHOOSE x \in s : TRUE].used + f[s \ {CHOOSE x \in s : TRUE}]]
    BY <2>1
  <2> HIDE DEF f
  <2> QED BY <2>2 DEF Sums
<1>7. Good(m)
  BY <1>4, <1>6
<1> QED BY <1>1, <1>7

\* The sum of counters is a number of bytes, and zero without any.
LEMMA SumTyped ==
  ASSUME NEW r \in Tables, NEW S \in SUBSET Nodes
  PROVE SumIn(r, S) \in Nat /\ SumIn(r, {}) = 0
<1>1. ASSUME NEW T \in SUBSET Nodes PROVE SumIn(r, T) \in Nat /\ (T = {} => SumIn(r, T) = 0)
  <2> DEFINE f == CHOOSE f : Sums(r, f, T)
  <2>1. PICK g \in [SUBSET T -> Nat] : Sums(r, g, T)
    BY SumsExist
  <2>2. Sums(r, f, T)
    BY <2>1
  <2> HIDE DEF f
  <2>3. f[T] = g[T]
    BY <2>1, <2>2, SumsAgree
  <2>4. T = {} => g[T] = 0
    BY <2>1 DEF Sums
  <2> QED BY <2>1, <2>3, <2>4, SumChosen DEF f
<1> QED BY <1>1

\* It depends on the counters of its nodes alone.
LEMMA SumSame ==
  ASSUME NEW r \in Tables, NEW q \in Tables, NEW S \in SUBSET Nodes,
         \A n \in S : r[n].used = q[n].used
  PROVE SumIn(r, S) = SumIn(q, S)
<1> DEFINE f == CHOOSE f : Sums(r, f, S)
           g == CHOOSE g : Sums(q, g, S)
<1>1. Sums(r, f, S) /\ Sums(q, g, S)
  BY SumsExist
<1> HIDE DEF f, g
<1>2. f[S] = g[S]
  BY <1>1, SumsAgree
<1> QED BY <1>2, SumChosen DEF f, g

\* The node that a sum takes first does not matter.
LEMMA SumFirst ==
  ASSUME NEW r \in Tables, NEW S \in SUBSET Nodes, S # {}
  PROVE LET c == CHOOSE x \in S : TRUE IN SumIn(r, S) = r[c].used + SumIn(r, S \ {c})
<1> DEFINE f == CHOOSE f : Sums(r, f, S)
           c == CHOOSE x \in S : TRUE
           R == S \ {c}
           g == CHOOSE g : Sums(r, g, R)
<1>1. R \in SUBSET Nodes /\ R \subseteq S
  OBVIOUS
<1>2. Sums(r, f, S) /\ Sums(r, g, R)
  BY <1>1, SumsExist
<1> HIDE DEF f, g
<1>3. f[R] = g[R]
  <2>1. R \in SUBSET (S \cap R) /\ \A n \in S \cap R : r[n].used = r[n].used
    OBVIOUS
  <2> HIDE DEF R
  <2>2. \A s \in SUBSET (S \cap R) : f[s] = g[s]
    BY <1>1, <1>2, SumsAgree
  <2> QED BY <2>1, <2>2
<1>4. f[S] = r[c].used + f[R]
  BY <1>2 DEF Sums
<1> QED BY <1>3, <1>4, SumChosen DEF f, g

\* A sum takes its nodes one by one, in any order.
LEMMA SumAny ==
  ASSUME NEW r \in Tables
  PROVE \A S \in SUBSET Nodes : \A x \in S : SumIn(r, S) = r[x].used + SumIn(r, S \ {x})
<1> DEFINE Good(S) == \A x \in S : SumIn(r, S) = r[x].used + SumIn(r, S \ {x})
           Bad == {S \in SUBSET Nodes : ~Good(S)}
<1> SUFFICES ASSUME Bad # {} PROVE FALSE
  OBVIOUS
<1>1. PICK m \in Bad : \A u \in Bad : u \subseteq m => u = m
  <2>1. Bad \subseteq SUBSET Nodes
    OBVIOUS
  <2> HIDE DEF Bad
  <2> QED BY <2>1, SmallestSet
<1>2. PICK x \in m : SumIn(r, m) # r[x].used + SumIn(r, m \ {x})
  BY <1>1
<1> DEFINE c == CHOOSE y \in m : TRUE
<1>3. c \in m /\ m # {} /\ m \in SUBSET Nodes
  BY <1>1, <1>2
<1>4. SumIn(r, m) = r[c].used + SumIn(r, m \ {c})
  BY <1>3, SumFirst
<1> HIDE DEF c
<1>5. x # c
  BY <1>2, <1>4
<1>6. Good(m \ {c}) /\ Good(m \ {x})
  BY <1>1, <1>2, <1>3
<1>7. /\ SumIn(r, m \ {c}) = r[x].used + SumIn(r, (m \ {c}) \ {x})
      /\ SumIn(r, m \ {x}) = r[c].used + SumIn(r, (m \ {x}) \ {c})
  BY <1>2, <1>3, <1>5, <1>6
<1>8. (m \ {c}) \ {x} = (m \ {x}) \ {c}
  OBVIOUS
<1>9. SumIn(r, (m \ {x}) \ {c}) \in Nat /\ r[x].used \in Nat /\ r[c].used \in Nat
  BY <1>2, <1>3, SumTyped DEF Tables
<1>10. SumIn(r, m \ {c}) = r[x].used + SumIn(r, (m \ {x}) \ {c})
  BY <1>7, <1>8
<1> QED BY <1>2, <1>4, <1>7, <1>9, <1>10

\* The types of what the review and the API read; no transaction has to keep to
\* its month for them.
Typed ==
  /\ row \in Tables
  /\ month \in Nat /\ limit \in Nat /\ pool \in Nat /\ period \in Nat
  /\ bs \subseteq Nodes
  /\ tick \in [n : Nodes \cup {None}, ym : Nat, old : [used : Nat, period : Nat]]
  /\ tick # NoTick => tick.n \in Nodes
  /\ tx.arg \in Nat /\ tx.ym \in Nat

\* A pool that is carried over is not below zero.
LEMMA PoolTyped == ASSUME Typed, NEW ym \in Nat PROVE NormalizedPool(ym) \in Nat
<1> DEFINE S == {n \in bs : row[n].period \notin {0, ym} /\ row[n].period >= period}
<1>1. S \in SUBSET Nodes
  BY DEF Typed
<1> HIDE DEF S
<1>2. SumIn(row, S) \in Nat
  BY <1>1, SumTyped DEF Typed
<1>3. \A u \in Nat : CarryOver(pool, u, limit) \in Nat
  BY DEF Typed, CarryOver, Max0
<1>4. UsageTotalsStale(ym, period) = SumIn(row, S)
  BY DEF UsageTotalsStale, SumUsed, SumIn, S
<1> QED BY <1>2, <1>3, <1>4 DEF NormalizedPool, Typed

\* The panel starts with typed settings and counters.
LEMMA TypedInit == Init => Typed
BY BsAssumption DEF Init, Typed, Tables, NoRow, NoTick, NoTx

\* A tick keeps the types: what it writes is what it read and what it carried over.
LEMMA TypedTick ==
  ASSUME Typed, (\E n \in Nodes : TickReads(n)) \/ (\E delta \in 1..MaxUsed : TickWrites(delta))
  PROVE Typed'
<1>1. CASE \E n \in Nodes : TickReads(n)
  BY <1>1 DEF TickReads, Typed, Tables
<1>2. ASSUME NEW delta \in 1..MaxUsed, TickWrites(delta) PROVE Typed'
  <2> DEFINE new == CounterStep(tick.old, delta, tick.ym)
  <2>1. tick.n \in Nodes /\ tick.ym \in Nat /\ tick.old \in [used : Nat, period : Nat] /\ delta \in Nat
    BY <1>2, BsAssumption DEF TickWrites, Typed
  <2>2. new \in [used : Nat, period : Nat]
    BY <2>1 DEF CounterStep
  <2>3. row' = row \/ row' = [row EXCEPT ![tick.n] = new]
    BY <1>2 DEF TickWrites
  <2>4. pool' \in Nat /\ period' \in Nat
    BY <1>2, <2>1, PoolTyped DEF TickWrites, Typed
  <2>5. tick' = NoTick /\ UNCHANGED <<month, limit, bs, tx>>
    BY <1>2 DEF TickWrites
  <2>6. NoTick \in [n : Nodes \cup {None}, ym : Nat, old : [used : Nat, period : Nat]]
    BY DEF NoTick, NoRow
  <2> HIDE DEF new
  <2>7. row' \in Tables
    BY <2>1, <2>2, <2>3 DEF Typed, Tables
  <2> QED BY <2>4, <2>5, <2>6, <2>7 DEF Typed
<1> QED BY <1>1, <1>2

\* Every request of an admin keeps the types, refused ones included.
LEMMA TypedRequest ==
  ASSUME Typed, (\E op \in Ops, arg \in 0..MaxPool : RequestStarts(op, arg)) \/ RequestEnds
  PROVE Typed'
<1>1. CASE \E op \in Ops, arg \in 0..MaxPool : RequestStarts(op, arg)
  BY <1>1, BsAssumption DEF RequestStarts, Typed, Tables
<1>2. CASE ResetDataUsage
  BY <1>2 DEF ResetDataUsage, Typed, Tables, NoRow, NoTx
<1>3. CASE Refused
  BY <1>3 DEF Refused, Typed, Tables, NoTx
<1>4. ASSUME NEW p \in Nat, WritePool(p) PROVE Typed'
  BY <1>4 DEF WritePool, Typed, Tables, NoTx
<1>5. NormalizedPool(tx.ym) + tx.arg \in Nat /\ tx.arg \in Nat
  BY PoolTyped DEF Typed
<1>6. tx.arg >= limit => tx.arg - limit \in Nat
  BY DEF Typed
<1>7. CASE ModifyBsExtra
  BY <1>4, <1>5, <1>7 DEF ModifyBsExtra
<1>8. CASE ResetBsExtraPool
  BY <1>3, <1>4, <1>8 DEF ResetBsExtraPool
<1>9. CASE SetBsExtraAmount
  BY <1>3, <1>4, <1>5, <1>9 DEF SetBsExtraAmount
<1>10. CASE SetBsLimitTotal
  <2>1. CASE tx.arg < limit \/ (limit = 0 /\ tx.arg > 0)
    BY <1>3, <1>10, <2>1 DEF SetBsLimitTotal
  <2>2. CASE ~(tx.arg < limit \/ (limit = 0 /\ tx.arg > 0))
    <3>1. tx.arg - limit \in Nat /\ WritePool(tx.arg - limit)
      BY <1>6, <1>10, <2>2 DEF SetBsLimitTotal, Typed
    <3> QED BY <1>4, <3>1
  <2> QED BY <2>1, <2>2
<1> QED BY <1>1, <1>2, <1>7, <1>8, <1>9, <1>10 DEF RequestEnds

\* So do all the steps.
LEMMA TypedNext == Typed /\ [Next]_bsVars => Typed'
<1> SUFFICES ASSUME Typed, [Next]_bsVars PROVE Typed'
  OBVIOUS
<1>1. CASE UNCHANGED bsVars
  BY <1>1 DEF bsVars, Typed, Tables
<1>2. CASE ReviewReads \/ ReviewWrites
  BY <1>2 DEF ReviewReads, ReviewWrites, Typed, Tables
<1>3. CASE NewMonth
  BY <1>3 DEF NewMonth, Typed, Tables
<1>4. CASE SetLimit \/ \E n \in Nodes : SetIsBs(n)
  BY <1>4, BsAssumption DEF SetLimit, SetIsBs, Typed, Tables
<1> QED BY <1>1, <1>2, <1>3, <1>4, TypedTick, TypedRequest DEF Next, Step

\* The review job and the API compute the same pool, each on its own.
LEMMA SamePool == ASSUME NEW ym PROVE EffectivePool(ym) = NormalizedPool(ym)
BY DEF EffectivePool, NormalizedPool, UsageTotalsStale

\* Where the types are right, the review and the API agree.
LEMMA Agreement == Typed => ReviewAgreesWithApi
<1> SUFFICES ASSUME Typed PROVE ReviewAgreesWithApi
  OBVIOUS
<1> DEFINE p == NormalizedPool(month)
           u == UsageTotals(month)
           total == EffectiveLimit(limit, p)
<1>1. p \in Nat /\ EffectivePool(month) = p /\ limit \in Nat
  BY PoolTyped, SamePool DEF Typed
<1>2. u \in Nat /\ ((\A n \in bs : row[n].period # month) => u = 0)
  <2> DEFINE S == {n \in bs : row[n].period = month}
  <2>1. S \in SUBSET Nodes
    BY DEF Typed
  <2> HIDE DEF S
  <2>2. SumIn(row, S) \in Nat /\ SumIn(row, {}) = 0
    BY <2>1, SumTyped DEF Typed
  <2>3. u = SumIn(row, S)
    BY DEF UsageTotals, SumUsed, SumIn, S
  <2>4. (\A n \in bs : row[n].period # month) => S = {}
    BY DEF S
  <2> QED BY <2>2, <2>3, <2>4
<1>3. BsState.used = u /\ BsState.limitTotal = total
  BY DEF BsState
<1> HIDE DEF p, u
<1>4. total > 0 <=> limit # 0
  BY <1>1 DEF EffectiveLimit
<1>5. OverLimit(month) <=> (\E n \in bs : row[n].period = month) /\ limit # 0 /\ u >= total
  BY <1>1 DEF OverLimit, OverLimitMonthlyPool, u
<1>6. total > 0 /\ u >= total => \E n \in bs : row[n].period = month
  <2>1. total \in Nat
    BY <1>1 DEF EffectiveLimit
  <2> HIDE DEF total
  <2> QED BY <1>2, <2>1
<1> QED BY <1>3, <1>4, <1>5, <1>6 DEF ReviewAgreesWithApi

\* The review job blocks exactly the users to whom the API shows a used-up limit
\* (_effective_pool and get_bs_state), whatever the nodes, the bytes and the
\* months, and even when a transaction runs over midnight.
THEOREM ReviewAgrees == Spec => []ReviewAgreesWithApi
BY TypedInit, TypedNext, Agreement, PTL DEF Spec
(***************************************************************************)
(* The refinement: closing the books lazily comes to the same as closing   *)
(* them at midnight of every month.                                        *)
(***************************************************************************)

\* A pool is written with its month.  While a tick is on its way, what it has read
\* of the counter stands, unless the counter was deleted.
LazyOK ==
  /\ period = 0 => pool = 0
  /\ tick # NoTick => row[tick.n] \in {tick.old, NoRow}
  /\ tx.op \in Ops \cup {"none"} /\ (tx # NoTx => tx.op \in Ops)

RInv == IInv /\ Typed /\ LazyOK

\* In the beginning nothing is purchased and nothing under way.
LEMMA LazyInit == Init => LazyOK
BY DEF Init, LazyOK, NoTx

\* Every step keeps this: only one tick is at work, and rows change by it and by a
\* usage reset.
LEMMA LazyNext ==
  ASSUME ~Straddle, RInv, [Next]_bsVars
  PROVE  LazyOK'
<1> USE DEF RInv
<1>1. CASE UNCHANGED bsVars
  BY <1>1 DEF bsVars, LazyOK
<1>2. CASE ReviewReads \/ ReviewWrites
  BY <1>2 DEF ReviewReads, ReviewWrites, LazyOK
<1>3. CASE NewMonth \/ SetLimit \/ \E n \in Nodes : SetIsBs(n)
  BY <1>3 DEF NewMonth, SetLimit, SetIsBs, LazyOK
<1>4. CASE \E n \in Nodes : TickReads(n)
  BY <1>4 DEF TickReads, LazyOK
<1>5. ASSUME NEW delta \in 1..MaxUsed, TickWrites(delta) PROVE LazyOK'
  <2>1. tick' = NoTick /\ tx' = tx
    BY <1>5 DEF TickWrites
  <2>2. period' = 0 => pool' = 0
    BY <1>5 DEF TickWrites, LazyOK, Typed
  <2> QED BY <2>1, <2>2 DEF LazyOK
<1>6. CASE \E op \in Ops, arg \in 0..MaxPool : RequestStarts(op, arg)
  BY <1>6 DEF RequestStarts, LazyOK
<1>7. CASE RequestEnds
  <2>1. ASSUME NEW p, tx # NoTx, WritePool(p) PROVE LazyOK'
    <3>1. period' # 0
      BY <2>1 DEF WritePool, IInv, Current, Dated
    <3> QED BY <2>1, <3>1 DEF WritePool, LazyOK, NoTx
  <2>2. CASE Refused
    BY <2>2 DEF Refused, LazyOK, NoTx
  <2>3. CASE ResetDataUsage
    <3>1. tx' = NoTx /\ UNCHANGED <<pool, period, tick>> /\ \A n \in Nodes : row'[n] = NoRow
      BY <2>3 DEF ResetDataUsage
    <3>2. tick # NoTick => tick.n \in Nodes
      BY DEF Typed
    <3> QED BY <3>1, <3>2 DEF LazyOK, NoTx
  <2>4. CASE ~Refused /\ ~ResetDataUsage
    <3>1. tx # NoTx
      BY <1>7, <2>4 DEF RequestEnds, ModifyBsExtra, ResetBsExtraPool, SetBsExtraAmount,
                   SetBsLimitTotal, NoTx
    <3>2. \E p : WritePool(p)
      BY <1>7, <2>4 DEF RequestEnds, ModifyBsExtra, ResetBsExtraPool, SetBsExtraAmount,
                   SetBsLimitTotal
    <3> QED BY <2>1, <3>1, <3>2
  <2> QED BY <2>2, <2>3, <2>4
<1> QED BY <1>1, <1>2, <1>3, <1>4, <1>5, <1>6, <1>7 DEF Next, Step

-----------------------------------------------------------------------------
\* The counters of the month, and those that a carry-over from the month since sums.
Fresh(r, B, ym) == {n \in B : r[n].period = ym}
Old(r, B, ym, since) == {n \in B : r[n].period \notin {0, ym} /\ r[n].period >= since}

\* What the API reads, in terms of SumIn, now and after a step.
LEMMA Books ==
  /\ UsageTotals(month) = SumIn(row, Fresh(row, bs, month))
  /\ UsageTotals(month)' = SumIn(row', Fresh(row', bs', month'))
  /\ NormalizedPool(month) =
       IF period = 0 \/ period >= month THEN pool
       ELSE CarryOver(pool, SumIn(row, Old(row, bs, month, period)), limit)
  /\ NormalizedPool(month)' =
       IF period' = 0 \/ period' >= month' THEN pool'
       ELSE CarryOver(pool', SumIn(row', Old(row', bs', month', period')), limit')
<1>1. /\ UsageTotals(month) = SumIn(row, Fresh(row, bs, month))
      /\ UsageTotals(month)' = SumIn(row', Fresh(row', bs', month'))
  BY DEF UsageTotals, SumUsed, SumIn, Fresh, MapThenSumSet, MapThenFoldSet
<1>2. /\ UsageTotalsStale(month, period) = SumIn(row, Old(row, bs, month, period))
      /\ UsageTotalsStale(month, period)' = SumIn(row', Old(row', bs', month', period'))
  BY DEF UsageTotalsStale, SumUsed, SumIn, Old, MapThenSumSet, MapThenFoldSet
<1> QED BY <1>1, <1>2 DEF NormalizedPool

\* A counter that is written only grows the sum of the month.
LEMMA SumGrows ==
  ASSUME NEW r \in Tables, NEW q \in Tables, NEW B \in SUBSET Nodes, NEW n \in Nodes,
         NEW ym \in Nat, NEW c \in [used : Nat, period : Nat],
         q = [r EXCEPT ![n] = c], c.period = ym,
         r[n].period = ym => r[n].used <= c.used
  PROVE SumIn(q, Fresh(q, B, ym)) >= SumIn(r, Fresh(r, B, ym))
<1> DEFINE S == Fresh(r, B, ym)
           T == Fresh(q, B, ym)
           R == S \ {n}
<1>1. S \in SUBSET Nodes /\ T \in SUBSET Nodes /\ R \in SUBSET Nodes
  BY DEF Fresh
<1>2. T = (IF n \in B THEN R \cup {n} ELSE S) /\ (n \notin B => R = S)
  BY DEF Fresh, Tables
<1>3. SumIn(q, R) = SumIn(r, R) /\ SumIn(r, R) \in Nat
  <2>1. \A m \in R : r[m].used = q[m].used
    BY <1>1 DEF Tables
  <2> HIDE DEF R
  <2> QED BY <1>1, <2>1, SumSame, SumTyped
<1>4. CASE n \notin B
  BY <1>2, <1>3, <1>4
<1>5. CASE n \in B
  <2>1. T \ {n} = R /\ n \in T
    BY <1>2, <1>5
  <2>2. SumIn(q, T) = q[n].used + SumIn(q, R)
    <3> HIDE DEF T, R
    <3>1. SumIn(q, T) = q[n].used + SumIn(q, T \ {n})
      BY <1>1, <2>1, SumAny
    <3> QED BY <2>1, <3>1
  <2>3. SumIn(r, S) = IF n \in S THEN r[n].used + SumIn(r, R) ELSE SumIn(r, R)
    <3>1. CASE n \in S
      BY <1>1, <3>1, SumAny
    <3>2. CASE n \notin S
      BY <3>2
    <3> QED BY <3>1, <3>2
  <2>4. q[n].used = c.used /\ c.used \in Nat /\ r[n].used \in Nat /\ (n \in S => r[n].used <= c.used)
    BY DEF Tables, Fresh
  <2> HIDE DEF S, T, R
  <2>5. SumIn(q, T) >= SumIn(r, S)
    BY <1>3, <2>2, <2>3, <2>4
  <2> QED BY <2>5 DEF S, T
<1> QED BY <1>4, <1>5

\* Traffic: the books are carried over first, and the counter of the month grows.
LEMMA TickIsUse ==
  ASSUME RInv, NEW delta \in 1..MaxUsed, TickWrites(delta)
  PROVE Eager!Use
<1> DEFINE n == tick.n
           new == CounterStep(tick.old, delta, tick.ym)
<1>1. /\ n \in Nodes /\ tick.ym = month /\ tick.old \in [used : Nat, period : Nat]
      /\ delta \in Nat /\ month \in Nat \ {0} /\ row \in Tables /\ bs \in SUBSET Nodes
      /\ row[n] \in {tick.old, NoRow}
  BY BsAssumption DEF RInv, IInv, Dated, Current, Typed, LazyOK, TickWrites
<1>2. new \in [used : Nat, period : Nat] /\ new.period = month
      /\ (tick.old.period = month => new.used >= tick.old.used)
  BY <1>1 DEF CounterStep
<1>3. row' = row \/ row' = [row EXCEPT ![n] = new]
  BY DEF TickWrites
<1>4. UNCHANGED <<month, limit, bs, tx>>
  BY DEF TickWrites
<1>5. UsageTotals(month)' >= UsageTotals(month)
  <2> DEFINE s == SumIn(row, Fresh(row, bs, month))
             t == SumIn(row', Fresh(row', bs, month))
  <2>1. t >= s
    <3>1. CASE row' = row
      <4>1. Fresh(row, bs, month) \in SUBSET Nodes
        BY <1>1 DEF Fresh
      <4>2. s \in Nat
        BY <1>1, <4>1, SumTyped
      <4> HIDE DEF s
      <4>3. t = s
        BY <3>1 DEF s
      <4> QED BY <4>2, <4>3
    <3>2. CASE row' = [row EXCEPT ![n] = new]
      <4> HIDE DEF new
      <4>1. row' \in Tables
        BY <1>1, <1>2, <3>2 DEF Tables
      <4>2. row[n].period = month => row[n].used <= new.used
        BY <1>1, <1>2 DEF NoRow
      <4> QED BY <1>1, <1>2, <3>2, <4>1, <4>2, SumGrows
    <3> QED BY <1>3, <3>1, <3>2
  <2> QED BY <1>4, <2>1, Books
<1>6. pool' = NormalizedPool(month) /\ NormalizedPool(month)' = NormalizedPool(month)
  <2>1. CASE period # 0 /\ period < month
    <3>1. pool' = NormalizedPool(month) /\ period' = month
      BY <1>1, <2>1 DEF TickWrites
    <3> QED BY <1>1, <1>4, <3>1, Books
  <2>2. CASE ~(period # 0 /\ period < month)
    <3>1. pool' = pool /\ period' = period /\ (period = 0 \/ period >= month)
      BY <1>1, <2>2 DEF TickWrites, RInv, Typed
    <3> QED BY <1>4, <3>1, Books
  <2> QED BY <2>1, <2>2
<1> QED BY <1>4, <1>5, <1>6 DEF Eager!Use

\* A change of the pool is a request served.
LEMMA WriteIsServe ==
  ASSUME RInv, ~Straddle, tx # NoTx, NEW p, WritePool(p), p \in Eager!Granted
  PROVE Eager!Serve
<1>1. tx.ym = month /\ month \in Nat \ {0}
  BY DEF RInv, IInv, Current, Dated
<1>2. pool' = p /\ period' = month /\ tx' = NoTx /\ UNCHANGED <<month, limit, bs, row>>
  BY <1>1 DEF WritePool
<1>3. NormalizedPool(month)' = p
  BY <1>1, <1>2, Books
<1>4. UsageTotals(month)' = UsageTotals(month)
  BY <1>2, Books
<1> QED BY <1>2, <1>3, <1>4 DEF Eager!Serve, Eager!NoReq, NoTx

\* What a request that is refused leaves.
LEMMA RefusedChangesNothing ==
  ASSUME Refused
  PROVE tx' = NoTx /\ limit' = limit /\ pool' = pool
        /\ UsageTotals(month)' = UsageTotals(month)
        /\ NormalizedPool(month)' = NormalizedPool(month)
<1>1. UNCHANGED <<month, limit, bs, row, pool, period>> /\ tx' = NoTx
  BY DEF Refused
<1> QED BY <1>1, Books

\* Every request that ends is served, refused or a usage reset.
LEMMA RequestRefines ==
  ASSUME RInv, ~Straddle, RequestEnds
  PROVE Eager!Serve \/ Eager!Refuse \/ Eager!Forgive
<1> DEFINE balance == NormalizedPool(month)
<1>1. tx # NoTx /\ tx.ym = month /\ month \in Nat \ {0} /\ limit \in Nat /\ tx.arg \in Nat
  <2>1. tx # NoTx
    BY DEF RequestEnds, ModifyBsExtra, ResetBsExtraPool, SetBsExtraAmount, SetBsLimitTotal,
           ResetDataUsage, NoTx
  <2> QED BY <2>1 DEF RInv, IInv, Current, Dated, Typed
<1>2. ASSUME NEW p, WritePool(p), p \in Eager!Granted PROVE Eager!Serve
  BY <1>1, <1>2, WriteIsServe
<1>3. ASSUME Refused, tx.op = "clear" \/ (Eager!Granted = {} /\ tx.op \notin {"none", "forgive"})
      PROVE Eager!Refuse
  BY <1>3, RefusedChangesNothing DEF Eager!Refuse, Eager!NoReq, NoTx
<1>4. CASE ModifyBsExtra
  <2>1. Eager!Granted = {balance + tx.arg} /\ WritePool(balance + tx.arg)
    BY <1>1, <1>4 DEF ModifyBsExtra, Eager!Granted
  <2> QED BY <1>2, <2>1
<1>5. CASE ResetBsExtraPool
  <2>1. Eager!Granted = {0}
    BY <1>5 DEF ResetBsExtraPool, Eager!Granted
  <2> QED BY <1>2, <1>3, <1>5, <2>1 DEF ResetBsExtraPool
<1>6. CASE SetBsExtraAmount
  <2>1. Eager!Granted = IF limit > 0 THEN {tx.arg} ELSE {tx.arg} \cap {0}
    BY <1>6 DEF SetBsExtraAmount, Eager!Granted
  <2>2. CASE limit = 0 /\ tx.arg > 0
    <3>1. Refused /\ Eager!Granted = {} /\ tx.op = "extra"
      BY <1>6, <2>1, <2>2 DEF SetBsExtraAmount
    <3> QED BY <1>3, <3>1
  <2>3. CASE ~(limit = 0 /\ tx.arg > 0)
    <3>1. WritePool(tx.arg)
      BY <1>6, <2>3 DEF SetBsExtraAmount
    <3>2. tx.arg \in Eager!Granted
      <4>1. limit > 0 \/ tx.arg = 0
        BY <1>1, <2>3
      <4> QED BY <2>1, <4>1
    <3> QED BY <1>2, <3>1, <3>2
  <2> QED BY <2>2, <2>3
<1>7. CASE SetBsLimitTotal
  <2>1. Eager!Granted = IF limit > 0
                          THEN IF tx.arg >= limit THEN {tx.arg - limit} ELSE {}
                          ELSE {tx.arg} \cap {0}
    BY <1>7 DEF SetBsLimitTotal, Eager!Granted
  <2>2. CASE tx.arg < limit \/ (limit = 0 /\ tx.arg > 0)
    <3>1. Refused /\ Eager!Granted = {} /\ tx.op = "total"
      BY <1>1, <1>7, <2>1, <2>2 DEF SetBsLimitTotal
    <3> QED BY <1>3, <3>1
  <2>3. CASE ~(tx.arg < limit \/ (limit = 0 /\ tx.arg > 0))
    <3>1. WritePool(tx.arg - limit)
      BY <1>7, <2>3 DEF SetBsLimitTotal
    <3>2. tx.arg - limit \in Eager!Granted
      <4>1. CASE limit > 0
        BY <1>1, <2>1, <2>3, <4>1
      <4>2. CASE ~(limit > 0)
        <5>1. tx.arg = 0 /\ tx.arg - limit = 0
          BY <1>1, <2>3, <4>2
        <5> QED BY <2>1, <4>2, <5>1
      <4> QED BY <4>1, <4>2
    <3> QED BY <1>2, <3>1, <3>2
  <2> QED BY <2>2, <2>3
<1>8. CASE ResetDataUsage
  <2>1. /\ tx.op = "forgive" /\ tx' = NoTx /\ UNCHANGED <<month, limit, bs, pool, period>>
        /\ row' = [n \in Nodes |-> NoRow]
    BY <1>8 DEF ResetDataUsage
  <2>2. bs \subseteq Nodes /\ row' \in Tables /\ pool \in Nat
    BY <2>1 DEF RInv, Typed, Tables, NoRow
  <2>3. Fresh(row', bs, month) = {} /\ Old(row', bs, month, period) = {}
    BY <1>1, <2>1, <2>2 DEF Fresh, Old, NoRow
  <2>4. SumIn(row', {}) = 0
    BY <2>2, SumTyped
  <2>5. UsageTotals(month)' = 0
    BY <2>1, <2>3, <2>4, Books
  <2>6. CarryOver(pool, 0, limit) = pool
    BY <1>1, <2>2 DEF CarryOver, Max0
  <2>7. NormalizedPool(month)' = pool
    BY <2>1, <2>3, <2>4, <2>6, Books
  <2> QED BY <2>1, <2>5, <2>7 DEF Eager!Forgive, Eager!NoReq, NoTx
<1> QED BY <1>4, <1>5, <1>6, <1>7, <1>8 DEF RequestEnds

\* At midnight of the month the books close, and nobody has to write it down.
LEMMA MonthRefines ==
  ASSUME RInv, ~Straddle, NewMonth
  PROVE Eager!NewMonth
<1> DEFINE spent == UsageTotals(month)
           balance == NormalizedPool(month)
<1>1. /\ month \in Nat \ {0} /\ period \in Nat /\ period <= month /\ pool \in Nat /\ limit \in Nat
      /\ row \in Tables /\ bs \in SUBSET Nodes
      /\ \A n \in Nodes : row[n].period \in Nat /\ row[n].period <= month
  BY DEF RInv, IInv, Dated, Typed, Tables
<1>2. UNCHANGED <<limit, bs, row, pool, period, tx>> /\ month' = month + 1
  BY DEF NewMonth
<1>3. Fresh(row, bs, month + 1) = {}
  BY <1>1 DEF Fresh
<1>4. UsageTotals(month)' = 0
  BY <1>1, <1>2, <1>3, Books, SumTyped
<1>5. NormalizedPool(month)' = CarryOver(balance, spent, limit)
  <2>1. spent = SumIn(row, Fresh(row, bs, month)) /\ spent \in Nat
    <3>1. Fresh(row, bs, month) \in SUBSET Nodes
      BY <1>1 DEF Fresh
    <3> QED BY <1>1, <3>1, SumTyped, Books
  <2> HIDE DEF spent
  <2>2. CASE period = 0
    <3>1. pool = 0 /\ balance = pool /\ NormalizedPool(month)' = pool
      BY <1>2, <2>2, Books DEF RInv, LazyOK
    <3> HIDE DEF balance
    <3> QED BY <1>1, <2>1, <3>1 DEF CarryOver, Max0
  <2>3. CASE period = month
    <3>1. balance = pool
      BY <1>1, <2>3, Books
    <3>2. Old(row, bs, month + 1, month) = Fresh(row, bs, month)
      BY <1>1 DEF Old, Fresh
    <3>3. NormalizedPool(month)' = CarryOver(pool, SumIn(row, Old(row, bs, month + 1, month)), limit)
      BY <1>1, <1>2, <2>3, Books
    <3> QED BY <2>1, <3>1, <3>2, <3>3
  <2>4. CASE period # 0 /\ period < month
    <3>1. \A n \in bs : row[n].period <= period
      BY <1>1, <2>4 DEF RInv, IInv, RowsBehindPool
    <3>2. Fresh(row, bs, month) = {} /\ Old(row, bs, month + 1, period) = Old(row, bs, month, period)
      BY <1>1, <2>4, <3>1 DEF Fresh, Old
    <3>3. spent = 0
      BY <1>1, <2>1, <3>2, SumTyped
    <3>4. NormalizedPool(month)' = balance
      BY <1>1, <1>2, <2>4, <3>2, Books
    <3>5. balance \in Nat
      BY <1>1, PoolTyped DEF RInv
    <3> HIDE DEF balance
    <3> QED BY <1>1, <3>3, <3>4, <3>5 DEF CarryOver, Max0
  <2> QED BY <1>1, <2>2, <2>3, <2>4
<1> QED BY <1>2, <1>4, <1>5
        DEF Eager!NewMonth, Eager!CarryOver, Eager!Max0, CarryOver, Max0

-----------------------------------------------------------------------------
\* The panel starts with an empty pool.
LEMMA InitRefines == Init => Eager!PoolInit
<1> SUFFICES ASSUME Init PROVE Eager!PoolInit
  OBVIOUS
<1>1. /\ month = 1 /\ period = 0 /\ pool = 0 /\ tx = NoTx /\ limit \in Nat /\ row \in Tables
      /\ \A n \in bs : row[n].period = 0
  BY BsAssumption DEF Init, Tables, NoRow
<1>2. Fresh(row, bs, month) = {}
  BY <1>1 DEF Fresh
<1>3. UsageTotals(month) = 0 /\ NormalizedPool(month) = 0
  BY <1>1, <1>2, Books, SumTyped
<1> QED BY <1>1, <1>3 DEF Eager!PoolInit, Eager!NoReq, NoTx

\* Every step is a step of the pool with closed books, or changes nothing of it.
LEMMA StepRefines ==
  ASSUME RInv, ~Straddle, [Step]_bsVars
  PROVE [Eager!PoolNext]_(Eager!poolVars)
<1>1. ASSUME UNCHANGED <<month, limit, bs, row, pool, period, tx>>
      PROVE UNCHANGED Eager!poolVars
  <2>1. UsageTotals(month)' = UsageTotals(month) /\ NormalizedPool(month)' = NormalizedPool(month)
    BY <1>1, Books
  <2> QED BY <1>1, <2>1 DEF Eager!poolVars
<1>2. CASE UNCHANGED bsVars \/ ReviewReads \/ ReviewWrites \/ \E n \in Nodes : TickReads(n)
  <2>1. UNCHANGED <<month, limit, bs, row, pool, period, tx>>
    BY <1>2 DEF bsVars, ReviewReads, ReviewWrites, TickReads
  <2> QED BY <1>1, <2>1
<1>3. CASE \E delta \in 1..MaxUsed : TickWrites(delta)
  BY <1>3, TickIsUse DEF Eager!PoolNext
<1>4. ASSUME NEW op \in Ops, NEW arg \in 0..MaxPool, RequestStarts(op, arg) PROVE Eager!Ask
  <2>1. UNCHANGED <<month, limit, bs, row, pool, period>> /\ tx = NoTx
        /\ tx' = [op |-> op, arg |-> arg, ym |-> month] /\ arg \in Nat
    BY <1>4, BsAssumption DEF RequestStarts
  <2>2. UsageTotals(month)' = UsageTotals(month) /\ NormalizedPool(month)' = NormalizedPool(month)
    BY <2>1, Books
  <2> QED BY <2>1, <2>2 DEF Eager!Ask, Eager!NoReq, Eager!Ops, Ops, NoTx
<1>5. CASE RequestEnds
  BY <1>5, RequestRefines DEF Eager!PoolNext
<1>6. CASE NewMonth
  BY <1>6, MonthRefines DEF Eager!PoolNext
<1> QED BY <1>2, <1>3, <1>4, <1>5, <1>6 DEF Step, Eager!PoolNext

\* Closing the books lazily, whenever a tick or a request next touches the user
\* (normalize_bs_extra_period), is closing them at the end of every month, for any
\* nodes, months and bytes, while the limit and the BS nodes stay as they are and no
\* transaction runs over midnight.
THEOREM LazyIsEager == ASSUME ~Straddle PROVE SettledSpec => ImplementsEagerPool
<1>1. Init => RInv
  BY InitIInv, TypedInit, LazyInit DEF RInv
<1>2. RInv /\ [Step]_bsVars => RInv'
  <2> SUFFICES ASSUME RInv, [Step]_bsVars PROVE RInv'
    OBVIOUS
  <2>1. [Next]_bsVars
    BY DEF Next
  <2> QED BY <2>1, NextIInv, TypedNext, LazyNext DEF RInv
<1>3. RInv /\ [Step]_bsVars => [Eager!PoolNext]_(Eager!poolVars)
  BY StepRefines
<1> QED BY <1>1, <1>2, <1>3, InitRefines, PTL DEF SettledSpec, ImplementsEagerPool, Eager!PoolSpec
=============================================================================
