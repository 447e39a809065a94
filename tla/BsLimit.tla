------------------------------ MODULE BsLimit ------------------------------
(***************************************************************************)
(* The pure functions of app/xray/bs_limit.py.  A limit of 0 is not set; a *)
(* counter of period 0 does not exist.                                     *)
(***************************************************************************)
EXTENDS Integers

Max0(x) == IF x > 0 THEN x ELSE 0

\* bs_counter_step: the counter restarts in a new month.
CounterStep(old, delta, ym) ==
    [used |-> (IF old.period = ym THEN old.used ELSE 0) + delta, period |-> ym]

\* carry_over_pool: only what was used beyond the base burns the pool.
CarryOver(pool, used, limit) ==
    IF limit = 0 THEN pool ELSE Max0(pool - Max0(used - limit))

\* monthly_effective_limit
EffectiveLimit(limit, extra) == IF limit = 0 THEN 0 ELSE limit + extra

\* over_limit_monthly_pool
OverLimitMonthlyPool(used, limit, extra) == limit # 0 /\ used >= EffectiveLimit(limit, extra)
=============================================================================
