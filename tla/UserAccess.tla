----------------------------- MODULE UserAccess -----------------------------
(***************************************************************************)
(* One user between the database and the cores: the panel's own core       *)
(* (Master) and the cores of the nodes.  A request handler or a job        *)
(* commits the user's row and leaves the cores to a task (a Starlette      *)
(* background task, or a job's own call of app/xray/operations.py).  The   *)
(* task looks at the cached flags of the nodes and puts one call per core  *)
(* into the xray thread pool; the calls run in any order, concurrently,    *)
(* and a call that fails is logged and forgotten.                          *)
(*                                                                         *)
(* Keys stand for the proxy settings of the user; key 0 on a core means    *)
(* that the core does not know the user.  All inbounds of a core are one.  *)
(* A core refuses to add a user it already has, and its configuration is   *)
(* replaced as a whole when it is (re)started.                             *)
(***************************************************************************)
EXTENDS Naturals, FiniteSets

CONSTANTS
  Nodes,    \* the nodes
  BsNodes,  \* those marked is_bs
  Master,   \* the panel's own core
  Ops,      \* the operations that may happen
  Overlap,  \* what an operation may overtake: "calls" and tasks, "pushes", neither
  MaxOps,   \* bound: operations
  MaxKey,   \* bound: keys
  MaxLost,  \* bound: calls that fail on a node that is up
  MaxDrops  \* bound: losses of a node, crashes of the panel

Cores == {Master} \cup Nodes
Keys == 0..MaxKey
Statuses == {"active", "on_hold", "disabled", "limited", "expired"}
Served == {"active", "on_hold"}

\* What the constants have to be.
AccessAssumption ==
  /\ Master \notin Nodes /\ BsNodes \subseteq Nodes
  /\ Overlap \subseteq {"calls", "pushes"}
  /\ {MaxOps, MaxKey, MaxLost, MaxDrops} \subseteq Nat

\* An operation waits for the pushes and the calls of the one before; the calls
\* on a core that is up succeed; every operation tells the cores; and nothing
\* adds a user to a node on which it is blocked.
Orderly ==
  /\ Overlap = {} /\ MaxLost = 0
  /\ Ops \cap {"job_reset", "active_next", "soft"} = {}
  /\ BsNodes = {} \/ Ops \cap {"modify", "reset", "revoke", "next_plan", "sync"} = {}

VARIABLES
  status,   \* the status column; "absent" without a row
  key,      \* the keys of the user's proxies; 0 before it exists
  blocks,   \* nodes with a row in node_user_blocks
  link,     \* node -> "ready" (started, with a session), "lost" (not started,
            \* session kept) or "gone" (no session)
  serving,  \* core -> the key it accepts
  tasks,    \* tasks scheduled and not begun
  calls,    \* calls in the xray pool
  pushes,   \* node -> the configuration on its way to it
  nops, lost, drops

vars == <<status, key, blocks, link, serving, tasks, calls, pushes, nops, lost, drops>>
db == <<status, key, blocks>>
bounds == <<nops, lost, drops>>

\* A push under way: the key in its configuration and whether the user is
\* blocked, each once it has been read.
NoKey == MaxKey + 1
YesNo(b) == IF b THEN "yes" ELSE "no"
NoPush == [on |-> FALSE, key |-> NoKey, blocked |-> "unread"]
Ready == {n \in Nodes : link[n] = "ready"}
Entitled(st) == st \in Served

\* include_db_users: what a configuration built now says of the user.
ConfigKey(st, k) == IF Entitled(st) THEN k ELSE 0
\* What the core should accept: the user's key if it is entitled and not blocked.
Wanted(c) == IF c \in blocks THEN 0 ELSE ConfigKey(status, key)

NoCalls == tasks = {} /\ calls = {}
NoPushes == \A n \in Nodes : ~pushes[n].on
Settled == NoCalls /\ NoPushes /\ Ready = Nodes

Init ==
  /\ status = "absent" /\ key = 0 /\ blocks = {}
  /\ link = [n \in Nodes |-> "ready"]
  /\ serving = [c \in Cores |-> 0]
  /\ tasks = {} /\ calls = {}
  /\ pushes = [n \in Nodes |-> NoPush]
  /\ nops = 0 /\ lost = 0 /\ drops = 0

-----------------------------------------------------------------------------
(* Operations: a commit, and the task it leaves *)

Start(op) ==
  /\ op \in Ops /\ nops < MaxOps /\ nops' = nops + 1
  /\ "calls" \in Overlap \/ NoCalls
  /\ "pushes" \in Overlap \/ NoPushes

Schedule(todo, k) == tasks' = tasks \cup {[id |-> nops, todo |-> todo, key |-> k]}

\* POST /api/user
CreateUser ==
  /\ Start("create") /\ status = "absent" /\ key = 0
  /\ status' \in Served /\ key' = 1
  /\ Schedule("add", 1)
  /\ UNCHANGED <<blocks, link, serving, calls, pushes, lost, drops>>

\* PUT /api/user/{username}: any status crud.update_user can leave, and new
\* keys when the body has proxies.
ModifyUser ==
  /\ Start("modify") /\ status # "absent"
  /\ status' \in Statuses /\ key' \in {key, key + 1} \cap Keys
  /\ Schedule(IF Entitled(status') THEN "update" ELSE "remove", key')
  /\ UNCHANGED <<blocks, link, serving, calls, pushes, lost, drops>>

\* DELETE /api/user/{username}; the blocks go with the row.
DeleteUser ==
  /\ Start("delete") /\ status # "absent"
  /\ status' = "absent" /\ blocks' = {}
  /\ Schedule("remove", key)
  /\ UNCHANGED <<key, link, serving, calls, pushes, lost, drops>>

\* DELETE /api/users/expired and the auto-delete job do not call the cores.
DeleteExpired ==
  /\ Start("delete_expired") /\ status \in {"expired", "limited"}
  /\ status' = "absent" /\ blocks' = {}
  /\ UNCHANGED <<key, link, serving, tasks, calls, pushes, lost, drops>>

\* POST /api/user/{username}/reset
ResetUsage ==
  /\ Start("reset") /\ status # "absent"
  /\ status' = IF status = "expired" THEN status ELSE "active"
  /\ IF Entitled(status') THEN Schedule("add", key) ELSE UNCHANGED tasks
  /\ UNCHANGED <<key, blocks, link, serving, calls, pushes, lost, drops>>

\* The usage-reset job asks for status limited after the reset has made it active.
JobReset ==
  /\ Start("job_reset") /\ status \in {"active", "limited"}
  /\ status' = "active"
  /\ IF status' = "limited" THEN Schedule("add", key) ELSE UNCHANGED tasks
  /\ UNCHANGED <<key, blocks, link, serving, calls, pushes, lost, drops>>

\* POST /api/user/{username}/revoke_sub
RevokeSub ==
  /\ Start("revoke") /\ status # "absent" /\ key < MaxKey
  /\ key' = key + 1
  /\ IF Entitled(status) THEN Schedule("update", key') ELSE UNCHANGED tasks
  /\ UNCHANGED <<status, blocks, link, serving, calls, pushes, lost, drops>>

\* The review job starts the next plan of a user that is over its limits.
StartNextPlan ==
  /\ Start("next_plan") /\ status = "active"
  /\ Schedule("update", key)
  /\ UNCHANGED <<status, key, blocks, link, serving, calls, pushes, lost, drops>>

\* POST /api/user/{username}/active-next: the plan is gone when the handler looks
\* for it, so it answers 404 and the cores are not told.
ActiveNext ==
  /\ Start("active_next") /\ status # "absent"
  /\ status' = "active"
  /\ UNCHANGED <<key, blocks, link, serving, tasks, calls, pushes, lost, drops>>

\* POST /api/users/sync-inbounds, for a user that is active when it looks.
SyncInbounds ==
  /\ Start("sync") /\ status = "active"
  /\ Schedule("sync", key)
  /\ UNCHANGED <<status, key, blocks, link, serving, calls, pushes, lost, drops>>

\* The review job limits or expires a user and takes it off the cores.
Review ==
  /\ Start("review") /\ status = "active"
  /\ status' \in {"limited", "expired"}
  /\ Schedule("remove", key)
  /\ UNCHANGED <<key, blocks, link, serving, calls, pushes, lost, drops>>

\* The review job wakes a user on hold; the cores know it already.
WakeOnHold ==
  /\ Start("review") /\ status = "on_hold"
  /\ status' = "active"
  /\ UNCHANGED <<key, blocks, link, serving, tasks, calls, pushes, lost, drops>>

DisableAll == Start("disable_all") /\ status' = IF status \in Served THEN "disabled" ELSE status
ActivateAll ==
  /\ Start("activate_all")
  /\ status' \in IF status = "disabled" THEN Served ELSE {status}
ResetAll ==
  /\ Start("reset_all")
  /\ status' = IF status = "limited" THEN "active" ELSE status

\* The tail of the three: a configuration built now restarts the panel's core at
\* once and, in the background, the nodes that answer.
RestartAll ==
  /\ \A n \in Ready : ~pushes[n].on  \* bound: one push per node at a time
  /\ serving' = [serving EXCEPT ![Master] = ConfigKey(status', key)]
  /\ pushes' = [n \in Nodes |-> IF n \in Ready
                                THEN [on |-> TRUE, key |-> ConfigKey(status', key), blocked |-> "unread"]
                                ELSE pushes[n]]
  /\ UNCHANGED <<key, blocks, link, tasks, calls, lost, drops>>

MassChange == (DisableAll \/ ActivateAll \/ ResetAll) /\ RestartAll

\* One call on one node, dropped when there is no API to call.
OneCall(n, todo) ==
  calls \cup {[id |-> nops, todo |-> todo, core |-> m, key |-> key] : m \in {n} \cap Ready}

\* Variant: the nodes are not filtered by is_bs.
BlockOnAnyNode(n) ==
  /\ Start("block") /\ status # "absent" /\ n \in Nodes \ blocks
  /\ blocks' = blocks \cup {n}
  /\ calls' = OneCall(n, "remove")
  /\ UNCHANGED <<status, key, link, serving, tasks, pushes, lost, drops>>

\* review_bs_nodes: the row, then the node.
BlockOnNode(n) ==
  /\ Start("block") /\ status # "absent" /\ n \in BsNodes \ blocks
  /\ blocks' = blocks \cup {n}
  /\ calls' = OneCall(n, "remove")
  /\ UNCHANGED <<status, key, link, serving, tasks, pushes, lost, drops>>

UnblockOnNode(n) ==
  /\ Start("unblock") /\ n \in blocks
  /\ blocks' = blocks \ {n}
  /\ calls' = IF Entitled(status) THEN OneCall(n, "add") ELSE calls
  /\ UNCHANGED <<status, key, link, serving, tasks, pushes, lost, drops>>

-----------------------------------------------------------------------------
(* operations.add_user, remove_user, update_user, and the calls of the pool *)

\* What a task does to a core; a sync task reads the user again, its status aside.
CallsOf(t, cores) ==
  {[id |-> t.id, todo |-> IF t.todo = "sync" THEN "update" ELSE t.todo, core |-> c,
    key |-> IF t.todo = "sync" THEN key ELSE t.key] : c \in cores}

\* Variant: the panel's own core is left out.
RunTaskOnNodes(t) ==
  /\ t \in tasks
  /\ tasks' = tasks \ {t}
  /\ calls' = IF t.todo = "sync" /\ status = "absent" THEN calls ELSE calls \cup CallsOf(t, Ready)
  /\ UNCHANGED <<db, link, serving, pushes, bounds>>

\* The nodes are the ones ready now, not those ready when the row was committed.
RunTask(t) ==
  /\ t \in tasks
  /\ tasks' = tasks \ {t}
  /\ calls' = IF t.todo = "sync" /\ status = "absent" THEN calls
              ELSE calls \cup CallsOf(t, {Master} \cup Ready)
  /\ UNCHANGED <<db, link, serving, pushes, bounds>>

Reachable(c) == c = Master \/ c \in Ready

\* The second half of _alter_inbound_user adds the user again, whatever the
\* first half met.
Rest(c) == (calls \ {c}) \cup (IF c.todo = "update" THEN {[c EXCEPT !.todo = "add"]} ELSE {})

\* The core refuses to add a user it has.
RunCall(c) ==
  /\ c \in calls /\ Reachable(c.core)
  /\ serving' = [serving EXCEPT ![c.core] =
                   IF c.todo # "add" THEN 0 ELSE IF @ = 0 THEN c.key ELSE @]
  /\ calls' = Rest(c)
  /\ UNCHANGED <<db, link, tasks, pushes, bounds>>

\* A call to a node that is gone fails, and one to a core that is up may; the
\* error is logged.
FailCall(c) ==
  /\ c \in calls
  /\ \/ ~Reachable(c.core) /\ UNCHANGED lost
     \/ Reachable(c.core) /\ lost < MaxLost /\ lost' = lost + 1
  /\ calls' = Rest(c)
  /\ UNCHANGED <<db, link, serving, tasks, pushes, nops, drops>>

-----------------------------------------------------------------------------
(* Nodes come and go *)

\* The panel loses the node, and a push under way fails; the core on the node
\* goes on as it is.
NodeDrops(n) ==
  /\ drops < MaxDrops /\ drops' = drops + 1
  /\ n \in Ready
  /\ link' \in {[link EXCEPT ![n] = l] : l \in {"lost", "gone"}}
  /\ pushes' = [pushes EXCEPT ![n] = NoPush]
  /\ UNCHANGED <<db, serving, tasks, calls, nops, lost>>

\* Variant: a node whose object remembers a session is left alone.
ConnectHardWithoutSession(n) ==
  /\ link[n] = "gone" /\ ~pushes[n].on
  /\ pushes' = [pushes EXCEPT ![n] = [on |-> TRUE, key |-> NoKey, blocked |-> YesNo(n \in blocks)]]
  /\ UNCHANGED <<db, link, serving, tasks, calls, bounds>>

\* A connect that will push: it reads the node's blocks first.
ConnectHard(n) ==
  /\ n \notin Ready /\ ~pushes[n].on
  /\ pushes' = [pushes EXCEPT ![n] = [on |-> TRUE, key |-> NoKey, blocked |-> YesNo(n \in blocks)]]
  /\ UNCHANGED <<db, link, serving, tasks, calls, bounds>>

\* restart_node reads the blocks when the configuration is there already.
ReadBlocks(n) ==
  /\ pushes[n].on /\ pushes[n].blocked = "unread"
  /\ pushes' = [pushes EXCEPT ![n].blocked = YesNo(n \in blocks)]
  /\ UNCHANGED <<db, link, serving, tasks, calls, bounds>>

ReadUsers(n) ==
  /\ pushes[n].on /\ pushes[n].key = NoKey
  /\ pushes' = [pushes EXCEPT ![n].key = ConfigKey(status, key)]
  /\ UNCHANGED <<db, link, serving, tasks, calls, bounds>>

\* Variant: the blocks are not taken out of the configuration.
PushUnfiltered(n) ==
  /\ pushes[n].on /\ pushes[n].key # NoKey /\ pushes[n].blocked # "unread"
  /\ serving' = [serving EXCEPT ![n] = pushes[n].key]
  /\ link' = [link EXCEPT ![n] = "ready"]
  /\ pushes' = [pushes EXCEPT ![n] = NoPush]
  /\ UNCHANGED <<db, tasks, calls, bounds>>

\* The node's core restarts with the configuration, less the users blocked on it.
PushConfig(n) ==
  /\ pushes[n].on /\ pushes[n].key # NoKey /\ pushes[n].blocked # "unread"
  /\ serving' = [serving EXCEPT ![n] = IF pushes[n].blocked = "yes" THEN 0 ELSE pushes[n].key]
  /\ link' = [link EXCEPT ![n] = "ready"]
  /\ pushes' = [pushes EXCEPT ![n] = NoPush]
  /\ UNCHANGED <<db, tasks, calls, bounds>>

\* A SOFT reconnect with a session reattaches to the running core, pushing nothing.
ConnectSoft(n) ==
  /\ "soft" \in Ops /\ link[n] = "lost" /\ ~pushes[n].on
  /\ link' = [link EXCEPT ![n] = "ready"]
  /\ UNCHANGED <<db, serving, tasks, calls, pushes, bounds>>

\* The panel dies with its queues and its core, and starts its core again from
\* the database; the nodes have to be connected anew.
PanelCrashes ==
  /\ "crash" \in Ops /\ drops < MaxDrops
  /\ drops' = drops + 1
  /\ tasks' = {} /\ calls' = {}
  /\ pushes' = [n \in Nodes |-> NoPush]
  /\ link' = [n \in Nodes |-> "gone"]
  /\ serving' = [serving EXCEPT ![Master] = ConfigKey(status, key)]
  /\ UNCHANGED <<db, nops, lost>>

-----------------------------------------------------------------------------
Operation ==
  \/ CreateUser \/ ModifyUser \/ DeleteUser \/ DeleteExpired
  \/ ResetUsage \/ JobReset \/ RevokeSub \/ StartNextPlan
  \/ ActiveNext \/ SyncInbounds
  \/ Review \/ WakeOnHold \/ MassChange
  \/ \E n \in Nodes : BlockOnNode(n) \/ UnblockOnNode(n)

Pool == (\E t \in tasks : RunTask(t)) \/ (\E c \in calls : RunCall(c) \/ FailCall(c))

Reconnect(n) == ConnectHard(n) \/ ReadBlocks(n) \/ ReadUsers(n) \/ PushConfig(n)

Next ==
  \/ Operation \/ Pool \/ PanelCrashes
  \/ \E n \in Nodes : NodeDrops(n) \/ Reconnect(n) \/ ConnectSoft(n)

Spec == Init /\ [][Next]_vars

\* The pool works its queue off, and the health check reconnects a lost node.
FairSpec == Spec /\ WF_vars(Pool) /\ \A n \in Nodes : WF_vars(Reconnect(n))

-----------------------------------------------------------------------------
(* Properties *)

\* The type invariant.
TypeOK ==
  /\ status \in Statuses \cup {"absent"} /\ key \in Keys /\ blocks \subseteq BsNodes
  /\ link \in [Nodes -> {"ready", "lost", "gone"}] /\ serving \in [Cores -> Keys]
  /\ tasks \subseteq [id : Nat, todo : {"add", "remove", "update", "sync"}, key : Keys]
  /\ calls \subseteq [id : Nat, todo : {"add", "remove", "update"}, core : Cores, key : Keys]
  /\ pushes \in [Nodes -> [on : BOOLEAN, key : Keys \cup {NoKey}, blocked : {"yes", "no", "unread"}]]
  /\ nops \in 0..MaxOps /\ lost \in 0..MaxLost /\ drops \in 0..MaxDrops

\* Once the queues are empty and all nodes are back, every core accepts exactly
\* the user's current key, or nothing when it is not entitled or blocked there.
CoresInSync == Settled => \A c \in Cores : serving[c] = Wanted(c)

\* Once things are settled, no BS node serves a user blocked on it.
BlockedIsOff == Settled => \A n \in blocks : serving[n] = 0

\* Once things are settled, no core accepts a key that has been revoked.
RevokedKeyIsDead == Settled => \A c \in Cores : serving[c] \in {0, key}

\* Whatever lost calls, soft reconnects and forgetful operations have left on a
\* node, a configuration pushed to it with no call outstanding puts it right.
RightAfterPush ==
  \A n \in Nodes :
    (pushes[n].on /\ ~pushes'[n].on /\ link'[n] = "ready" /\ NoCalls)
      => serving'[n] = Wanted(n)
PushRepairs == [][RightAfterPush]_vars

\* A user that is no longer entitled is eventually taken off every core, or
\* becomes entitled again; lost nodes and a crash of the panel included.
CutOffEverywhere ==
  ~Entitled(status) ~> (Entitled(status) \/ \A c \in Cores : serving[c] = 0)
=============================================================================
