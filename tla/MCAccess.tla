------------------------------ MODULE MCAccess ------------------------------
(***************************************************************************)
(* Users whom operations, jobs and failures must leave in order.  What     *)
(* happens is chosen in the initial state and stays.                       *)
(*   sync    every operation that tells the cores, nodes and panel failing *)
(*   blocks  the blocks of a BS node, with restarts of everything          *)
(*   review  the rows that review_users has to settle, while requests      *)
(*           change and delete them under it                               *)
(***************************************************************************)
EXTENDS UserAccess

CONSTANTS
  BsNode,      \* the BS node of blocks
  BlockOps,    \* the operations of blocks
  Null         \* SQL NULL in review

VARIABLES
  part,
  rows, created, txn, review, reply, aged, edits    \* of review

BlockNodes == {BsNode}
Blocks == INSTANCE UserAccess WITH
  BsNodes <- BlockNodes, Ops <- BlockOps, MaxOps <- 6, MaxKey <- 1

\* Two users with a data limit, of which one may have a next plan.
Limited == [status |-> "active", used |-> 0, limit |-> 1, expire |-> "future", hold |-> Null,
            timeout |-> Null, online |-> "never", plan |-> Null, changed |-> "recent"]
Planned == [Limited EXCEPT !.expire = Null,
                           !.plan = [limit |-> 1, expire |-> Null, rem |-> FALSE, either |-> TRUE]]
MoreTraffic == [status |-> Null, limit |-> 2, expire |-> Null, hold |-> Null, timeout |-> Null,
                replan |-> FALSE, plan |-> Null]
TwoUsers == {1, 2}
OneSession == {"s1"}
TwoNewcomers == {Limited, Planned}
OneModification == {MoreTraffic}
LifeOps == {"create", "modify", "delete"}
Life == INSTANCE UserLifecycle WITH
  nops <- edits, None <- Null, Users <- TwoUsers, Sessions <- OneSession,
  Newcomers <- TwoNewcomers, Modifications <- OneModification,
  Ops <- LifeOps, IncludeLimited <- FALSE, Overlap <- TRUE,
  MaxOps <- 3, MaxUsed <- 1

lifeVars == <<rows, created, txn, review, reply, aged, edits>>

ASSUME PartsAssumption ==
  AccessAssumption /\ Orderly /\ Blocks!AccessAssumption /\ Blocks!Orderly

AccessInit ==
  /\ part \in {"sync", "blocks", "review"}
  /\ Init /\ Life!Init

AccessNext ==
  /\ UNCHANGED part
  /\ \/ part = "sync" /\ Next /\ UNCHANGED lifeVars
     \/ part = "blocks" /\ Blocks!Next /\ UNCHANGED lifeVars
     \/ part = "review" /\ Life!Next /\ UNCHANGED vars

\* The fairness of UserAccess and of UserLifecycle, for the part that moves.
AccessSpec ==
  /\ AccessInit /\ [][AccessNext]_<<part, vars, lifeVars>>
  /\ WF_vars(part = "sync" /\ Pool)
  /\ \A n \in Nodes : WF_vars(part = "sync" /\ Reconnect(n))
  /\ WF_lifeVars(part = "review" /\ Life!Review)
  /\ WF_lifeVars(part = "review" /\ Life!Answer("s1"))

\* A user that is no longer entitled is eventually off every core, or entitled
\* again.
SyncCutsOff ==
  (part = "sync" /\ ~Entitled(status))
    ~> (Entitled(status) \/ \A c \in Cores : serving[c] = 0)

\* An active user that is over its limit or past its expire does not stay so,
\* although requests abort single runs of the review job.
OverdueIsSettled == Life!OverdueIsSettled
=============================================================================
