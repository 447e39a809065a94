------------------------------- MODULE BsPool -------------------------------
(***************************************************************************)
(* What the BS traffic pool of one user promises, as if the books were     *)
(* closed at midnight of every month: the overdraft of a month beyond the  *)
(* base limit is paid out of the purchased pool, what is left lives on.    *)
(***************************************************************************)
EXTENDS BsLimit

VARIABLES
    limit,                  \* bs_monthly_limit of the panel settings, 0 = not set
    balance,                \* the purchased pool, closed months accounted for
    booked,                 \* the pool as last written: what a usage reset restores
    spent,                  \* BS traffic of the current month
    req                     \* the API request being served

poolVars == <<limit, balance, booked, spent, req>>

Ops == {"none", "buy", "extra", "total", "clear", "forgive"}
NoReq == [op |-> "none", arg |-> 0]

PoolInit == limit \in Nat /\ balance = 0 /\ booked = 0 /\ spent = 0 /\ req = NoReq

Ask ==
    /\ req = NoReq
    /\ req' \in [op : Ops \ {"none"}, arg : Nat]
    /\ UNCHANGED <<limit, balance, booked, spent>>

\* The new pool asked for by the request, or the empty set if it is refused.
Granted ==
    CASE req.op = "buy"   -> {balance + req.arg}
      [] req.op = "extra" -> IF limit > 0 THEN {req.arg} ELSE {req.arg} \cap {0}
      [] req.op = "total" -> IF limit > 0
                               THEN IF req.arg >= limit THEN {req.arg - limit} ELSE {}
                               ELSE {req.arg} \cap {0}
      [] req.op = "clear" -> {0}
      [] OTHER            -> {}

Serve ==
    /\ \E p \in Granted : balance' = p /\ booked' = p
    /\ req' = NoReq
    /\ UNCHANGED <<limit, spent>>

\* A refusal changes nothing; the bot's settings may veto a clear.
Refuse ==
    /\ req.op = "clear" \/ (Granted = {} /\ req.op \notin {"none", "forgive"})
    /\ req' = NoReq
    /\ UNCHANGED <<limit, balance, booked, spent>>

\* A usage reset forgives the overdraft not booked yet.
Forgive ==
    /\ req.op = "forgive"
    /\ spent' = 0
    /\ balance' = booked
    /\ req' = NoReq
    /\ UNCHANGED <<limit, booked>>

Use ==
    /\ spent' >= spent
    /\ booked' = balance
    /\ UNCHANGED <<limit, balance, req>>

NewMonth ==
    /\ balance' = CarryOver(balance, spent, limit)
    /\ spent' = 0
    /\ UNCHANGED <<limit, booked, req>>

PoolNext == Ask \/ Serve \/ Refuse \/ Forgive \/ Use \/ NewMonth

PoolSpec == PoolInit /\ [][PoolNext]_poolVars
=============================================================================
