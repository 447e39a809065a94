---------------------------- MODULE BsAccounting ----------------------------
(***************************************************************************)
(* Accounting and limiting of BS traffic for one user (users do not        *)
(* interact here): the per-node counters that restart lazily in a new      *)
(* month and the purchased pool that is carried over lazily                *)
(* (record_bs_user_stats, normalize_bs_extra_period), the API requests     *)
(* that change the pool, and the job that blocks the user on BS nodes      *)
(* (review_bs_nodes).                                                      *)
(*                                                                         *)
(* A transaction takes its month (period_keys) before it locks the user's  *)
(* row.  Months are numbered, 0 stands for NULL.                           *)
(***************************************************************************)
EXTENDS BsLimit, FiniteSetsExt

CONSTANTS
    Nodes, None,    \* nodes that are or may become BS nodes
    Limits,         \* values the panel's bs_monthly_limit takes, 0 = not set
    MaxMonth,       \* bound on the calendar
    MaxUsed,        \* bound on a counter
    MaxPool,        \* bound on the pool
    MaxSettings,    \* bound on changes of the limit and of is_bs
    Straddle        \* may a transaction run over midnight of the month?

ASSUME BsAssumption ==
    /\ None \notin Nodes /\ IsFiniteSet(Nodes)
    /\ Limits \subseteq Nat
    /\ MaxMonth \in Nat \ {0}
    /\ MaxUsed \in Nat
    /\ MaxPool \in Nat
    /\ MaxSettings \in Nat
    /\ Straddle \in BOOLEAN

VARIABLES
    month,          \* the UTC month
    limit,          \* panel setting bs_monthly_limit
    bs,             \* nodes with is_bs
    row,            \* node_user_bs_usage: row[n].period = 0 means no row
    pool,           \* users.bs_extra
    period,         \* users.bs_extra_period, 0 for NULL
    tick,           \* the running record_bs_user_stats, or NoTick
    tx,             \* the API request being served, or NoTx
    blocks,         \* node_user_blocks
    rev,            \* the running review_bs_nodes, or NoReview
    settings        \* changes of settings so far

bsVars == <<month, limit, bs, row, pool, period, tick, tx, blocks, rev, settings>>

Months == 1..MaxMonth
NoRow == [used |-> 0, period |-> 0]
NoTick == [n |-> None, ym |-> 0, old |-> NoRow]
NoTx == [op |-> "none", arg |-> 0, ym |-> 0]
NoReview == [running |-> FALSE, block |-> {}, unblock |-> {}]

Ops == {"buy", "extra", "total", "clear", "forgive"}

Rows == [used : 0..MaxUsed, period : 0..MaxMonth]

\* The type invariant; the pool never goes below zero.
TypeOK ==
    /\ month \in Months
    /\ limit \in Limits
    /\ bs \subseteq Nodes
    /\ row \in [Nodes -> Rows]
    /\ pool \in 0..MaxPool
    /\ period \in 0..MaxMonth
    /\ tick \in [n : Nodes \cup {None}, ym : 0..MaxMonth, old : Rows]
    /\ tx \in [op : Ops \cup {"none"}, arg : 0..MaxPool, ym : 0..MaxMonth]
    /\ blocks \subseteq Nodes
    /\ rev \in [running : BOOLEAN, block : SUBSET Nodes, unblock : SUBSET Nodes]
    /\ settings \in 0..MaxSettings

Init ==
    /\ month = 1
    /\ limit \in Limits
    /\ bs = Nodes
    /\ row = [n \in Nodes |-> NoRow]
    /\ pool = 0
    /\ period = 0
    /\ tick = NoTick
    /\ tx = NoTx
    /\ blocks = {}
    /\ rev = NoReview
    /\ settings = 0

-----------------------------------------------------------------------------
SumUsed(S) == MapThenSumSet(LAMBDA n : row[n].used, S)

\* aggregate_bs_usage, get_bs_usage_totals: traffic of month ym on BS nodes.
UsageTotals(ym) == SumUsed({n \in bs : row[n].period = ym})

\* (variant: no lower bound)
UsageTotalsStaleUnbounded(ym, since) ==
    SumUsed({n \in bs : row[n].period \notin {0, ym}})

\* get_bs_usage_totals_stale: counters not restarted since month "since".
UsageTotalsStale(ym, since) ==
    SumUsed({n \in bs : row[n].period \notin {0, ym} /\ row[n].period >= since})

\* normalize_bs_extra_period without persist: the pool as of month ym.
NormalizedPool(ym) ==
    IF period = 0 \/ period >= ym
      THEN pool
      ELSE CarryOver(pool, UsageTotalsStale(ym, period), limit)

\* get_bs_state: the API's view of the user.
BsState ==
    [used |-> UsageTotals(month), limitTotal |-> EffectiveLimit(limit, NormalizedPool(month))]

\* _effective_pool of the review job.
EffectivePool(ym) ==
    IF period = 0 \/ period >= ym
      THEN pool
      ELSE CarryOver(pool,
                          SumUsed({n \in bs : row[n].period \notin {0, ym} /\ row[n].period >= period}),
                          limit)

\* (variant: the purchased pool is not added to the limit)
OverBaseLimit(ym) ==
    /\ \E n \in bs : row[n].period = ym
    /\ OverLimitMonthlyPool(UsageTotals(ym), limit, 0)

\* The user is over_limit_monthly_pool; only users with a counter of this
\* month are looked at.
OverLimit(ym) ==
    /\ \E n \in bs : row[n].period = ym
    /\ OverLimitMonthlyPool(UsageTotals(ym), limit, EffectivePool(ym))

-----------------------------------------------------------------------------
\* record_bs_user_stats for one node: the month and the counter are read first.
TickReads(n) ==
    /\ tick = NoTick
    /\ n \in bs
    /\ tick' = [n |-> n, ym |-> month, old |-> row[n]]
    /\ UNCHANGED <<month, limit, bs, row, pool, period, tx, blocks, rev, settings>>

\* (variant: the pool is not normalized before the counters are overwritten)
TickWritesLate(delta) ==
    LET n == tick.n  ym == tick.ym
        new == CounterStep(tick.old, delta, ym)
    IN
    /\ tick # NoTick
    /\ new.used <= MaxUsed
    /\ row' = IF tick.old.period # 0 /\ row[n].period = 0 THEN row ELSE [row EXCEPT ![n] = new]
    /\ tick' = NoTick
    /\ UNCHANGED <<month, limit, bs, pool, period, tx, blocks, rev, settings>>

\* ... then, in one transaction, the pool is carried over into the new month
\* and the counter is written.  A counter that was read but deleted meanwhile
\* is not written: the UPDATE finds no row.
TickWrites(delta) ==
    LET n == tick.n  ym == tick.ym
        new == CounterStep(tick.old, delta, ym)
    IN
    /\ tick # NoTick
    /\ new.used <= MaxUsed
    /\ IF period # 0 /\ period < ym
         THEN pool' = NormalizedPool(ym) /\ period' = ym
         ELSE UNCHANGED <<pool, period>>
    /\ row' = IF tick.old.period # 0 /\ row[n].period = 0 THEN row ELSE [row EXCEPT ![n] = new]
    /\ tick' = NoTick
    /\ UNCHANGED <<month, limit, bs, tx, blocks, rev, settings>>

-----------------------------------------------------------------------------
\* API requests: the month is taken first.
RequestStarts(op, arg) ==
    /\ tx = NoTx
    /\ op = "buy" => pool + arg <= MaxPool
    /\ op \in {"clear", "forgive"} => arg = 0
    /\ tx' = [op |-> op, arg |-> arg, ym |-> month]
    /\ UNCHANGED <<month, limit, bs, row, pool, period, tick, blocks, rev, settings>>

\* The request is over; the pool is p as of the request's month.
WritePool(p) ==
    /\ pool' = p
    /\ period' = tx.ym
    /\ tx' = NoTx
    /\ UNCHANGED <<month, limit, bs, row, tick, blocks, rev, settings>>

Refused ==
    /\ tx' = NoTx
    /\ UNCHANGED <<month, limit, bs, row, pool, period, tick, blocks, rev, settings>>

\* (variant: the purchase lands on the pool of the month before)
BuyWithoutCarryOver == tx.op = "buy" /\ WritePool(pool + tx.arg)

\* modify_user_bs_extra with delta_bytes
ModifyBsExtra == tx.op = "buy" /\ WritePool(NormalizedPool(tx.ym) + tx.arg)

\* modify_user_bs_extra with reset: does nothing unless the bot's settings ask for it.
ResetBsExtraPool == tx.op = "clear" /\ (WritePool(0) \/ Refused)

\* set_user_bs_extra_amount
SetBsExtraAmount ==
    /\ tx.op = "extra"
    /\ IF limit = 0 /\ tx.arg > 0 THEN Refused ELSE WritePool(tx.arg)

\* (variant: a total below the base limit is not refused)
SetBsTotalUnchecked ==
    /\ tx.op = "total"
    /\ IF limit = 0 /\ tx.arg > 0 THEN Refused ELSE WritePool(tx.arg - limit)

\* set_user_bs_limit_total
SetBsLimitTotal ==
    /\ tx.op = "total"
    /\ IF tx.arg < limit \/ (limit = 0 /\ tx.arg > 0)
         THEN Refused
         ELSE WritePool(tx.arg - limit)

\* reset_user_data_usage, reset_all_users_data_usage: the counters are deleted.
ResetDataUsage ==
    /\ tx.op = "forgive"
    /\ row' = [n \in Nodes |-> NoRow]
    /\ tx' = NoTx
    /\ UNCHANGED <<month, limit, bs, pool, period, tick, blocks, rev, settings>>

RequestEnds ==
    ModifyBsExtra \/ ResetBsExtraPool \/ SetBsExtraAmount \/ SetBsLimitTotal \/ ResetDataUsage

-----------------------------------------------------------------------------
\* review_bs_nodes: without BS nodes there is nothing to do; otherwise the
\* blocks wanted are compared with the blocks there are.
ReviewReads ==
    /\ rev = NoReview
    /\ bs # {}
    /\ LET desired == IF OverLimit(month) THEN bs ELSE {} IN
         rev' = [running |-> TRUE, block |-> desired \ blocks, unblock |-> blocks \ desired]
    /\ UNCHANGED <<month, limit, bs, row, pool, period, tick, tx, blocks, settings>>

\* (variant: the blocks are only ever added)
ReviewWritesNoUnblock ==
    /\ rev.running
    /\ rev' = NoReview
    /\ blocks' = blocks \cup rev.block
    /\ UNCHANGED <<month, limit, bs, row, pool, period, tick, tx, settings>>

\* ... and brought in line, one commit per node.
ReviewWrites ==
    /\ rev.running
    /\ \/ \E n \in rev.block :
             /\ blocks' = blocks \cup {n}
             /\ rev' = [rev EXCEPT !.block = @ \ {n}]
       \/ \E n \in rev.unblock :
             /\ rev.block = {}
             /\ blocks' = blocks \ {n}
             /\ rev' = [rev EXCEPT !.unblock = @ \ {n}]
       \/ /\ rev.block = {} /\ rev.unblock = {}
          /\ rev' = NoReview
          /\ UNCHANGED blocks
    /\ UNCHANGED <<month, limit, bs, row, pool, period, tick, tx, settings>>

-----------------------------------------------------------------------------
NewMonth ==
    /\ month < MaxMonth
    /\ Straddle \/ (tick = NoTick /\ tx = NoTx)
    /\ month' = month + 1
    /\ UNCHANGED <<limit, bs, row, pool, period, tick, tx, blocks, rev, settings>>

\* save_panel_settings
SetLimit ==
    /\ settings < MaxSettings
    /\ limit' \in Limits \ {limit}
    /\ settings' = settings + 1
    /\ UNCHANGED <<month, bs, row, pool, period, tick, tx, blocks, rev>>

\* update_node: is_bs is switched.
SetIsBs(n) ==
    /\ settings < MaxSettings
    /\ bs' = IF n \in bs THEN bs \ {n} ELSE bs \cup {n}
    /\ settings' = settings + 1
    /\ UNCHANGED <<month, limit, row, pool, period, tick, tx, blocks, rev>>

\* Everything but a change of the settings.
Step ==
    \/ \E n \in Nodes : TickReads(n)
    \/ \E delta \in 1..MaxUsed : TickWrites(delta)
    \/ \E op \in Ops, arg \in 0..MaxPool : RequestStarts(op, arg)
    \/ RequestEnds
    \/ ReviewReads \/ ReviewWrites
    \/ NewMonth

Next == Step \/ SetLimit \/ \E n \in Nodes : SetIsBs(n)

Spec == Init /\ [][Next]_bsVars

\* While the limit and the is_bs flags stay as they are.
SettledSpec == Init /\ [][Step]_bsVars

\* The review job runs every JOB_REVIEW_BS_NODES_INTERVAL seconds.
FairSpec == Spec /\ WF_bsVars(ReviewReads) /\ WF_bsVars(ReviewWrites)

-----------------------------------------------------------------------------
\* No counter is ahead of the pool: traffic of a new month first carries the
\* pool over, so that the stale counters of record are those of one month and
\* the base limit is deducted exactly once.
RowsBehindPool == period # 0 => \A n \in Nodes : row[n].period <= period

\* Closing the books lazily, whenever traffic or a request next touches the
\* user, comes to the same as closing them at the end of every month.
Eager == INSTANCE BsPool WITH
    balance <- NormalizedPool(month), booked <- pool,
    spent <- UsageTotals(month), req <- [op |-> tx.op, arg |-> tx.arg]
ImplementsEagerPool == Eager!PoolSpec

\* The review job blocks exactly the users to whom the API shows a used-up
\* limit, although it computes the pool on its own.
ReviewAgreesWithApi ==
    OverLimit(month) <=> BsState.limitTotal > 0 /\ BsState.used >= BsState.limitTotal

\* The carry-over never moves a pool back to an earlier month, which would
\* charge the overdraft a second time.
PeriodNeverGoesBack == [][period' >= period]_bsVars

\* A block that is no longer due is lifted by the review job.
BlockIsLifted ==
    \A n \in Nodes : (n \in blocks /\ ~OverLimit(month)) ~> (n \notin blocks \/ OverLimit(month))

\* The user's blocks follow the limit: a user over it is blocked on every BS
\* node by the review job, and a block that is no longer due is lifted.
BlocksFollowLimit ==
    /\ \A n \in Nodes : (n \in bs /\ OverLimit(month)) ~> (n \notin bs \/ ~OverLimit(month) \/ n \in blocks)
    /\ BlockIsLifted
=============================================================================
