----------------------------- MODULE MCServices -----------------------------
(***************************************************************************)
(* The background services of the panel that must keep going.  One of them *)
(* is chosen in the initial state and runs; the others stand still where   *)
(* they begin, so that the properties of each can be stated as they are.   *)
(*   bs     review_bs_nodes against requests, traffic and the month        *)
(*   queue  send_notifications, its retries and the stop of the panel      *)
(*   core   the panel's own Xray, its restarts and core_health_check       *)
(***************************************************************************)
EXTENDS WebhookQueue, MasterCore

CONSTANTS BsNodes, None    \* of bs

VARIABLES
    part,
    month, limit, bs, counters, pool, period, tick, tx, blocks, rev, settings

Bs == INSTANCE BsAccounting WITH
    row <- counters, Nodes <- BsNodes, Limits <- {0, 1}, MaxMonth <- 2, MaxUsed <- 1,
    MaxPool <- 1, MaxSettings <- 1, Straddle <- FALSE

bsVars == <<month, limit, bs, counters, pool, period, tick, tx, blocks, rev, settings>>

ServicesInit ==
    /\ part \in {"bs", "queue", "core"}
    /\ Init /\ Bs!Init /\ CoreInit
    /\ part # "bs" => limit = 1

ServicesNext ==
    /\ UNCHANGED part
    /\ \/ part = "bs" /\ Bs!Next /\ UNCHANGED <<vars, coreVars>>
       \/ part = "queue" /\ Next /\ UNCHANGED <<bsVars, coreVars>>
       \/ part = "core" /\ CoreNext /\ UNCHANGED <<vars, bsVars>>

\* The fairness of each service, for the one that runs: Bs!FairSpec, Fairness
\* and CoreFairness.
ServicesFairness ==
    /\ WF_bsVars(part = "bs" /\ Bs!ReviewReads)
    /\ WF_bsVars(part = "bs" /\ Bs!ReviewWrites)
    /\ WF_vars(part = "queue" /\ Tick)
    /\ WF_vars(part = "queue" /\ on_shutdown)
    /\ WF_vars(part = "queue" /\ Restart)
    /\ \A i \in Runs :
          /\ WF_vars(part = "queue" /\ send_notifications(i))
          /\ \A w \in Webhooks :
                WF_vars(part = "queue" /\ (send_req(i, w, "ok") \/ send_req(i, w, "error")))
    /\ WF_coreVars(part = "core" /\ core_health_check)
    /\ \A t \in Threads : WF_coreVars(part = "core" /\ Steps(t))

ServicesSpec ==
    ServicesInit /\ [][ServicesNext]_<<part, vars, bsVars, coreVars>> /\ ServicesFairness

\* review_bs_nodes eventually blocks an over-limit user on every BS node and
\* lifts every block that is no longer due, with the limit, is_bs and the month
\* changing under it.  (The queue's and the core's properties are their own.)
BlocksFollowLimit == Bs!BlocksFollowLimit
=============================================================================
