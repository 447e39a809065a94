-------------------------- MODULE UserAccessProofs --------------------------
(***************************************************************************)
(* One user on the cores, for any number of nodes, keys and operations:    *)
(* when operations come one after the other and no call is lost on a core  *)
(* that is up, every core ends up with what the database says, whatever    *)
(* nodes or the panel fail in between; and a configuration pushed to a     *)
(* node puts right whatever lost calls and forgetful operations left there.*)
(*                                                                         *)
(* CoresInSync speaks of the settled states only.  The invariant behind it *)
(* says of every other state why it will be right: what is queued is in    *)
(* line with the row as it is now, and a core that can be reached and has  *)
(* nothing outstanding is right already.                                   *)
(***************************************************************************)
EXTENDS UserAccess, TLAPS

Typed ==
  /\ status \in Statuses \cup {"absent"} /\ key \in Nat /\ nops \in Nat /\ lost \in Nat
  /\ link \in [Nodes -> {"ready", "lost", "gone"}] /\ serving \in [Cores -> Nat]
  /\ tasks \subseteq [id : Nat, todo : {"add", "remove", "update", "sync"}, key : Nat]
  /\ calls \subseteq [id : Nat, todo : {"add", "remove", "update"}, core : Cores, key : Nat]
  /\ pushes \in [Nodes -> [on : BOOLEAN, key : Nat, blocked : {"yes", "no", "unread"}]]

BlocksOK == blocks \subseteq BsNodes /\ (status = "absent" => blocks = {})

\* What a push has read is what the database says.
PushesOK ==
  \A n \in Nodes : pushes[n].on =>
    /\ pushes[n].key # NoKey => pushes[n].key = ConfigKey(status, key)
    /\ pushes[n].blocked # "unread" => pushes[n].blocked = YesNo(n \in blocks)

\* A task takes off the cores who is not entitled, or gives them the current key
\* of who is entitled and blocked nowhere.  A task or a call that only adds
\* meets no other key, which the core would keep.
TasksOK ==
  \A t \in tasks :
    IF t.todo = "remove"
    THEN ~Entitled(status)
    ELSE /\ Entitled(status) /\ t.key = key /\ blocks = {}
         /\ t.todo = "add" => \A c \in Cores : Reachable(c) => serving[c] \in {0, key}

CallsOK ==
  \A d \in calls :
    /\ Wanted(d.core) = IF d.todo = "remove" THEN 0 ELSE d.key
    /\ d.todo = "add" /\ Reachable(d.core) => serving[d.core] \in {0, d.key}

\* Something is on its way to core c.
Awaits(c) == tasks # {} \/ (\E d \in calls : d.core = c) \/ (c \in Nodes /\ pushes[c].on)

CoresOK == \A c \in Cores : Reachable(c) => Awaits(c) \/ serving[c] = Wanted(c)

QueueInv == BlocksOK /\ TasksOK /\ CallsOK /\ CoresOK

-----------------------------------------------------------------------------
\* Types.

LEMMA NoKeyIsNoKey == ASSUME AccessAssumption PROVE NoKey \in Nat /\ \A k \in Keys : k # NoKey /\ k \in Nat
  BY DEF AccessAssumption, NoKey, Keys

LEMMA ConfigTyped == ASSUME NEW st, NEW k \in Nat PROVE ConfigKey(st, k) \in Nat
  BY DEF ConfigKey

LEMMA TypedInit == ASSUME AccessAssumption, Init PROVE Typed /\ BlocksOK
<1>1. NoPush \in [on : BOOLEAN, key : Nat, blocked : {"yes", "no", "unread"}]
  BY NoKeyIsNoKey DEF NoPush
<1> QED BY <1>1 DEF Init, Typed, BlocksOK

\* What an operation does besides its commit and the restart of everything.
LEMMA ScheduleTyped ==
  ASSUME Typed, NEW todo \in {"add", "remove", "update", "sync"}, NEW k \in Nat, Schedule(todo, k)
  PROVE  tasks' \subseteq [id : Nat, todo : {"add", "remove", "update", "sync"}, key : Nat]
  BY DEF Typed, Schedule

LEMMA OperationTyped == ASSUME AccessAssumption, Typed, Operation PROVE Typed'
<1> USE DEF Start
<1>0. nops + 1 \in Nat /\ key \in Nat /\ status \in Statuses \cup {"absent"}
  BY DEF Typed
<1>1. CASE CreateUser \/ ModifyUser \/ DeleteUser \/ DeleteExpired \/ ResetUsage \/ JobReset
           \/ RevokeSub \/ StartNextPlan \/ ActiveNext \/ SyncInbounds \/ Review \/ WakeOnHold
  <2>1. status' \in Statuses \cup {"absent"} /\ key' \in Nat /\ nops' \in Nat
    BY <1>0, <1>1 DEF CreateUser, ModifyUser, DeleteUser, DeleteExpired, ResetUsage, JobReset,
       RevokeSub, StartNextPlan, ActiveNext, SyncInbounds, Review, WakeOnHold,
       Statuses, Served, Keys, AccessAssumption
  <2>2. \/ UNCHANGED tasks
        \/ \E todo \in {"add", "remove", "update", "sync"}, k \in Nat : Schedule(todo, k)
    BY <1>0, <1>1, <2>1 DEF CreateUser, ModifyUser, DeleteUser, DeleteExpired, ResetUsage, JobReset,
       RevokeSub, StartNextPlan, ActiveNext, SyncInbounds, Review, WakeOnHold
  <2>3. tasks' \subseteq [id : Nat, todo : {"add", "remove", "update", "sync"}, key : Nat]
    BY <2>2, ScheduleTyped DEF Typed
  <2>4. UNCHANGED <<link, serving, calls, pushes, lost>>
    BY <1>1 DEF CreateUser, ModifyUser, DeleteUser, DeleteExpired, ResetUsage, JobReset,
       RevokeSub, StartNextPlan, ActiveNext, SyncInbounds, Review, WakeOnHold
  <2> QED BY <2>1, <2>3, <2>4 DEF Typed
<1>2. CASE MassChange
  <2>1. status' \in Statuses \cup {"absent"} /\ nops' \in Nat /\ RestartAll
    BY <1>0, <1>2 DEF MassChange, DisableAll, ActivateAll, ResetAll, Statuses, Served
  <2>2. ConfigKey(status', key) \in Nat
    BY <1>0, ConfigTyped
  <2>3. serving' \in [Cores -> Nat]
    BY <2>1, <2>2 DEF Typed, RestartAll
  <2>4. pushes' \in [Nodes -> [on : BOOLEAN, key : Nat, blocked : {"yes", "no", "unread"}]]
    BY <2>1, <2>2 DEF Typed, RestartAll
  <2> QED BY <2>1, <2>3, <2>4 DEF Typed, RestartAll
<1>3. ASSUME NEW n \in Nodes, BlockOnNode(n) \/ UnblockOnNode(n) PROVE Typed'
  <2>1. calls' \subseteq [id : Nat, todo : {"add", "remove", "update"}, core : Cores, key : Nat]
    BY <1>3 DEF BlockOnNode, UnblockOnNode, OneCall, Typed, Cores
  <2> QED BY <1>0, <1>3, <2>1 DEF BlockOnNode, UnblockOnNode, Typed
<1> QED BY <1>1, <1>2, <1>3 DEF Operation

LEMMA PoolTyped == ASSUME Typed, Pool PROVE Typed'
<1> DEFINE Call == [id : Nat, todo : {"add", "remove", "update"}, core : Cores, key : Nat]
<1>1. ASSUME NEW t \in tasks, RunTask(t) PROVE Typed'
  <2>1. CallsOf(t, {Master} \cup Ready) \subseteq Call
    BY DEF Typed, CallsOf, Cores, Ready
  <2>2. calls' \subseteq Call /\ tasks' \subseteq tasks
    BY <1>1, <2>1 DEF RunTask, Typed
  <2> QED BY <1>1, <2>2 DEF RunTask, Typed, db, bounds
<1>2. ASSUME NEW c \in calls PROVE Rest(c) \subseteq Call
  BY DEF Rest, Typed
<1>3. ASSUME NEW c \in calls, RunCall(c) PROVE Typed'
  <2>1. serving' \in [Cores -> Nat]
    BY <1>3 DEF RunCall, Typed
  <2> QED BY <1>2, <1>3, <2>1 DEF RunCall, Typed, db, bounds
<1>4. ASSUME NEW c \in calls, FailCall(c) PROVE Typed'
  BY <1>2, <1>4 DEF FailCall, Typed, db
<1> QED BY <1>1, <1>3, <1>4 DEF Pool

LEMMA NodeTyped ==
  ASSUME AccessAssumption, Typed,
         PanelCrashes \/ \E n \in Nodes : NodeDrops(n) \/ Reconnect(n) \/ ConnectSoft(n)
  PROVE  Typed'
<1> DEFINE Push == [on : BOOLEAN, key : Nat, blocked : {"yes", "no", "unread"}]
<1>0. NoPush \in Push /\ ConfigKey(status, key) \in Nat
  BY NoKeyIsNoKey, ConfigTyped DEF NoPush, Typed
<1>1. CASE PanelCrashes
  <2>1. pushes' \in [Nodes -> Push] /\ serving' \in [Cores -> Nat]
    BY <1>0, <1>1 DEF PanelCrashes, Typed
  <2> QED BY <1>1, <2>1 DEF PanelCrashes, Typed, db
<1>2. ASSUME NEW n \in Nodes, NodeDrops(n) PROVE Typed'
  BY <1>0, <1>2 DEF NodeDrops, Typed, db
<1>3. ASSUME NEW n \in Nodes, ConnectHard(n) PROVE Typed'
  <2>1. [on |-> TRUE, key |-> NoKey, blocked |-> YesNo(n \in blocks)] \in Push
    BY NoKeyIsNoKey DEF YesNo
  <2> QED BY <1>3, <2>1 DEF ConnectHard, Typed, db, bounds
<1>4. ASSUME NEW n \in Nodes, ReadBlocks(n) PROVE Typed'
  <2>1. YesNo(n \in blocks) \in {"yes", "no", "unread"}
    BY DEF YesNo
  <2>2. [pushes[n] EXCEPT !.blocked = YesNo(n \in blocks)] \in Push
    BY <2>1 DEF Typed
  <2> QED BY <1>4, <2>2 DEF ReadBlocks, Typed, db, bounds
<1>5. ASSUME NEW n \in Nodes, ReadUsers(n) PROVE Typed'
  <2>1. [pushes[n] EXCEPT !.key = ConfigKey(status, key)] \in Push
    BY <1>0 DEF Typed
  <2> QED BY <1>5, <2>1 DEF ReadUsers, Typed, db, bounds
<1>6. ASSUME NEW n \in Nodes, PushConfig(n) PROVE Typed'
  <2>1. serving' \in [Cores -> Nat]
    BY <1>6 DEF PushConfig, Typed
  <2> QED BY <1>0, <1>6, <2>1 DEF PushConfig, Typed, db, bounds
<1>7. ASSUME NEW n \in Nodes, ConnectSoft(n) PROVE Typed'
  BY <1>7 DEF ConnectSoft, Typed, db, bounds
<1> QED BY <1>1, <1>2, <1>3, <1>4, <1>5, <1>6, <1>7 DEF Reconnect

LEMMA TypedNext == ASSUME AccessAssumption, Typed, [Next]_vars PROVE Typed'
<1>1. CASE UNCHANGED vars
  BY <1>1 DEF vars, Typed
<1> QED BY <1>1, OperationTyped, PoolTyped, NodeTyped DEF Next

-----------------------------------------------------------------------------
\* Pushes: the row does not change while one is under way.

\* The steps that do not touch what PushesOK speaks of.
LEMMA PushesSame ==
  ASSUME PushesOK, UNCHANGED <<db, pushes>> PROVE PushesOK'
  BY DEF PushesOK, ConfigKey, Entitled, db

\* An operation but a mass change leaves the pushes alone, and there are none.
LEMMA OperationPushes ==
  ASSUME "pushes" \notin Overlap, Operation
  PROVE  NoPushes /\ (UNCHANGED pushes \/ MassChange)
<1>1. CASE MassChange
  BY <1>1 DEF MassChange, DisableAll, ActivateAll, ResetAll, Start
<1>2. ASSUME NEW n \in Nodes, BlockOnNode(n) \/ UnblockOnNode(n)
      PROVE  NoPushes /\ UNCHANGED pushes
  BY <1>2 DEF BlockOnNode, UnblockOnNode, Start
<1>3. CASE CreateUser \/ ModifyUser \/ DeleteUser \/ DeleteExpired \/ ResetUsage \/ JobReset
           \/ RevokeSub \/ StartNextPlan \/ ActiveNext \/ SyncInbounds \/ Review \/ WakeOnHold
  BY <1>3 DEF CreateUser, ModifyUser, DeleteUser, DeleteExpired, ResetUsage, JobReset,
     RevokeSub, StartNextPlan, ActiveNext, SyncInbounds, Review, WakeOnHold, Start
<1> QED BY <1>1, <1>2, <1>3 DEF Operation

LEMMA PushesNext ==
  ASSUME AccessAssumption, "pushes" \notin Overlap, Typed, PushesOK, [Next]_vars
  PROVE  PushesOK'
<1>1. CASE Operation
  <2>1. NoPushes /\ (UNCHANGED pushes \/ MassChange)
    BY <1>1, OperationPushes
  <2>2. CASE UNCHANGED pushes
    BY <2>1, <2>2 DEF NoPushes, PushesOK
  <2>3. CASE MassChange
    <3>1. /\ key' = key /\ \A n \in Nodes : ~pushes[n].on
          /\ pushes' = [n \in Nodes |-> IF n \in Ready
                          THEN [on |-> TRUE, key |-> ConfigKey(status', key), blocked |-> "unread"]
                          ELSE pushes[n]]
      BY <2>1, <2>3 DEF MassChange, RestartAll, NoPushes
    <3> SUFFICES ASSUME NEW n \in Nodes, pushes'[n].on
                 PROVE  pushes'[n].key = ConfigKey(status', key') /\ pushes'[n].blocked = "unread"
      BY DEF PushesOK
    <3>2. pushes'[n] = [on |-> TRUE, key |-> ConfigKey(status', key), blocked |-> "unread"]
      BY <3>1
    <3> QED BY <3>1, <3>2
  <2> QED BY <2>1, <2>2, <2>3
<1>2. CASE Pool
  <2>1. UNCHANGED <<db, pushes>>
    BY <1>2 DEF Pool, RunTask, RunCall, FailCall
  <2> QED BY <2>1, PushesSame
<1>3. CASE PanelCrashes
  BY <1>3 DEF PanelCrashes, PushesOK, NoPush
<1>4. ASSUME NEW n \in Nodes, NodeDrops(n) \/ Reconnect(n) \/ ConnectSoft(n) PROVE PushesOK'
  <2>1. UNCHANGED <<status, key, blocks>> /\ \A m \in Nodes \ {n} : pushes'[m] = pushes[m]
    BY <1>4 DEF NodeDrops, Reconnect, ConnectSoft, ConnectHard, ReadBlocks, ReadUsers,
                PushConfig, Typed, db
  <2>2. pushes[n].on =>
          /\ pushes[n].key # NoKey => pushes[n].key = ConfigKey(status, key)
          /\ pushes[n].blocked # "unread" => pushes[n].blocked = YesNo(n \in blocks)
    BY DEF PushesOK
  <2>3. pushes'[n].on =>
          /\ pushes'[n].key # NoKey => pushes'[n].key = ConfigKey(status, key)
          /\ pushes'[n].blocked # "unread" => pushes'[n].blocked = YesNo(n \in blocks)
    <3>1. CASE NodeDrops(n) \/ PushConfig(n)
      BY <3>1 DEF NodeDrops, PushConfig, Typed, NoPush
    <3>2. CASE ConnectSoft(n)
      BY <2>2, <3>2 DEF ConnectSoft
    <3>3. CASE ConnectHard(n)
      BY <3>3 DEF ConnectHard, Typed
    <3>4. CASE ReadBlocks(n)
      <4>1. /\ pushes'[n].blocked = YesNo(n \in blocks) /\ pushes'[n].key = pushes[n].key
            /\ pushes[n].on
        BY <3>4 DEF ReadBlocks, Typed
      <4> QED BY <2>2, <4>1
    <3>5. CASE ReadUsers(n)
      <4>1. /\ pushes'[n].key = ConfigKey(status, key) /\ pushes'[n].blocked = pushes[n].blocked
            /\ pushes[n].on
        BY <3>5 DEF ReadUsers, Typed
      <4> QED BY <2>2, <4>1
    <3> QED BY <1>4, <3>1, <3>2, <3>3, <3>4, <3>5 DEF Reconnect
  <2> QED BY <2>1, <2>3 DEF PushesOK
<1>5. CASE UNCHANGED vars
  BY <1>5, PushesSame DEF vars, db
<1> QED BY <1>1, <1>2, <1>3, <1>4, <1>5 DEF Next

\* What a push leaves on the node is what the database says.
LEMMA PushIsRight ==
  ASSUME AccessAssumption, Typed, PushesOK, NEW n \in Nodes, PushConfig(n)
  PROVE  serving'[n] = Wanted(n) /\ \A c \in Cores \ {n} : serving'[c] = serving[c]
<1>1. /\ pushes[n].key = ConfigKey(status, key)
      /\ pushes[n].blocked = YesNo(n \in blocks)
  BY DEF PushConfig, PushesOK
<1>2. serving' = [serving EXCEPT ![n] = IF pushes[n].blocked = "yes" THEN 0 ELSE pushes[n].key]
  BY DEF PushConfig
<1>3. CASE n \in blocks
  BY <1>1, <1>2, <1>3 DEF YesNo, Wanted, Typed, Cores
<1>4. CASE n \notin blocks
  BY <1>1, <1>2, <1>4 DEF YesNo, Wanted, Typed, Cores
<1> QED BY <1>3, <1>4

\* A push that comes through is a PushConfig.
LEMMA PushEnds ==
  ASSUME AccessAssumption, "pushes" \notin Overlap, Typed, PushesOK, [Next]_vars
  PROVE  RightAfterPush
<1> SUFFICES ASSUME NEW n \in Nodes, pushes[n].on, ~pushes'[n].on, link'[n] = "ready"
             PROVE  serving'[n] = Wanted(n)
  BY DEF RightAfterPush
<1>1. ~Operation
  BY OperationPushes DEF NoPushes
<1>2. ~Pool /\ ~UNCHANGED vars
  BY DEF Pool, RunTask, RunCall, FailCall, vars
<1>3. ~PanelCrashes
  BY DEF PanelCrashes
<1>4. PICK m \in Nodes : NodeDrops(m) \/ Reconnect(m) \/ ConnectSoft(m)
  BY <1>1, <1>2, <1>3 DEF Next
<1>5. m = n
  BY <1>4 DEF NodeDrops, Reconnect, ConnectSoft, ConnectHard, ReadBlocks, ReadUsers,
              PushConfig, Typed
<1>6. PushConfig(n)
  BY <1>4, <1>5 DEF NodeDrops, Reconnect, ConnectSoft, ConnectHard, ReadBlocks, ReadUsers,
                    Typed, Ready
<1> QED BY <1>6, PushIsRight

\* A configuration pushed to a node with no call outstanding puts it right,
\* whatever was lost, overtaken or forgotten before: as long as no operation
\* commits while a push is under way, every push is built from the row and the
\* blocks as they are when it arrives.
THEOREM PushPutsRight ==
  ASSUME AccessAssumption, "pushes" \notin Overlap PROVE Spec => PushRepairs
<1> DEFINE PushInv == Typed /\ PushesOK
<1>1. Init => PushInv
  BY TypedInit DEF Init, PushesOK, NoPush
<1>2. PushInv /\ [Next]_vars => PushInv'
  BY TypedNext, PushesNext
<1>3. PushInv /\ [Next]_vars => [RightAfterPush]_vars
  BY PushEnds
<1> QED BY <1>1, <1>2, <1>3, PTL DEF Spec, PushRepairs

-----------------------------------------------------------------------------
\* The cores, when operations are orderly.

LEMMA WantedIs ==
  ASSUME AccessAssumption, BlocksOK
  PROVE  /\ \A c \in Cores : Wanted(c) \in {0, ConfigKey(status, key)}
         /\ \A c \in Cores : c \notin blocks => Wanted(c) = ConfigKey(status, key)
         /\ ~Entitled(status) => \A c \in Cores : Wanted(c) = 0
         /\ Entitled(status) => ConfigKey(status, key) = key
         /\ Master \notin blocks /\ Master \in Cores /\ Nodes \subseteq Cores
  BY DEF AccessAssumption, BlocksOK, Wanted, ConfigKey, Cores

LEMMA OrderlyStart ==
  ASSUME Orderly, Operation
  PROVE  NoCalls /\ NoPushes
<1>1. NoPushes
  BY OperationPushes DEF Orderly
<1>2. NoCalls
  <2>1. ASSUME NEW op, Start(op) PROVE NoCalls
    BY <2>1 DEF Start, Orderly
  <2>2. \E op : Start(op)
    <3>1. CASE MassChange
      BY <3>1 DEF MassChange, DisableAll, ActivateAll, ResetAll
    <3>2. ASSUME NEW n \in Nodes, BlockOnNode(n) \/ UnblockOnNode(n) PROVE \E op : Start(op)
      BY <3>2 DEF BlockOnNode, UnblockOnNode
    <3>3. CASE CreateUser \/ ModifyUser \/ DeleteUser \/ DeleteExpired \/ ResetUsage \/ JobReset
               \/ RevokeSub \/ StartNextPlan \/ ActiveNext \/ SyncInbounds \/ Review \/ WakeOnHold
      BY <3>3 DEF CreateUser, ModifyUser, DeleteUser, DeleteExpired, ResetUsage, JobReset,
         RevokeSub, StartNextPlan, ActiveNext, SyncInbounds, Review, WakeOnHold
    <3> QED BY <3>1, <3>2, <3>3 DEF Operation
  <2> QED BY <2>1, <2>2
<1> QED BY <1>1, <1>2

\* With nothing on its way every core that can be reached is right.
LEMMA QuietIsRight ==
  ASSUME CoresOK, NoCalls, NoPushes
  PROVE  \A c \in Cores : Reachable(c) => serving[c] = Wanted(c)
  BY DEF CoresOK, Awaits, NoCalls, NoPushes

\* An operation that leaves a task.
LEMMA TaskKeeps ==
  ASSUME NoCalls, NEW todo, NEW k, Schedule(todo, k), UNCHANGED calls,
         IF todo = "remove"
         THEN ~Entitled(status')
         ELSE /\ Entitled(status') /\ k = key' /\ blocks' = {}
              /\ todo = "add" => \A c \in Cores : Reachable(c)' => serving'[c] \in {0, key'}
  PROVE  TasksOK' /\ CallsOK' /\ CoresOK'
<1> DEFINE t == [id |-> nops, todo |-> todo, key |-> k]
<1>1. tasks' = {t} /\ t.todo = todo /\ t.key = k /\ calls' = {}
  BY DEF NoCalls, Schedule
<1> HIDE DEF t
<1>2. TasksOK'
  BY <1>1 DEF TasksOK
<1>3. CallsOK' /\ CoresOK'
  BY <1>1 DEF CallsOK, CoresOK, Awaits
<1> QED BY <1>2, <1>3

\* An operation that has nothing to tell the cores.
LEMMA SilentKeeps ==
  ASSUME CoresOK, NoCalls, NoPushes, UNCHANGED <<link, serving, tasks, calls>>,
         \A c \in Cores : Wanted(c)' = Wanted(c)
  PROVE  TasksOK' /\ CallsOK' /\ CoresOK'
<1>1. \A c \in Cores : Reachable(c)' => serving'[c] = Wanted(c)'
  BY QuietIsRight DEF Reachable, Ready
<1>2. tasks' = {} /\ calls' = {}
  BY DEF NoCalls
<1> QED BY <1>1, <1>2 DEF TasksOK, CallsOK, CoresOK

\* Operations that leave a task at most.
LEMMA CommitKeeps ==
  ASSUME AccessAssumption, Orderly, Typed, QueueInv, NoCalls, NoPushes,
         \/ CreateUser \/ ModifyUser \/ DeleteUser \/ DeleteExpired \/ ResetUsage \/ JobReset
         \/ RevokeSub \/ StartNextPlan \/ ActiveNext \/ SyncInbounds \/ Review \/ WakeOnHold
  PROVE  QueueInv'
<1>1. /\ UNCHANGED <<link, serving, calls, pushes>> /\ BlocksOK /\ CoresOK
      /\ \A c \in Cores : Reachable(c)' <=> Reachable(c)
  BY DEF CreateUser, ModifyUser, DeleteUser, DeleteExpired, ResetUsage, JobReset, RevokeSub,
     StartNextPlan, ActiveNext, SyncInbounds, Review, WakeOnHold, QueueInv, Reachable, Ready
<1>2. \A c \in Cores : Reachable(c) => serving[c] = Wanted(c)
  BY <1>1, QuietIsRight
<1>3. "modify" \in Ops \/ "reset" \in Ops \/ "revoke" \in Ops \/ "next_plan" \in Ops \/ "sync" \in Ops
        => blocks = {}
  BY <1>1 DEF Orderly, BlocksOK
<1>4. BlocksOK'
  BY <1>1 DEF BlocksOK, CreateUser, ModifyUser, DeleteUser, DeleteExpired, ResetUsage, JobReset,
     RevokeSub, StartNextPlan, ActiveNext, SyncInbounds, Review, WakeOnHold, Served, Statuses
<1>5. \A c \in Cores : Wanted(c) \in {0, key}
  BY <1>1, WantedIs DEF ConfigKey
<1>6. TasksOK' /\ CallsOK' /\ CoresOK'
  <2>1. CASE CreateUser
    <3>1. /\ status = "absent" /\ blocks' = {} /\ Entitled(status') /\ key' = 1
          /\ Schedule("add", 1)
      BY <1>1, <2>1 DEF CreateUser, BlocksOK, Entitled
    <3>2. \A c \in Cores : Reachable(c)' => serving'[c] = 0
      BY <1>1, <1>2, <3>1, WantedIs DEF Entitled, Served
    <3> QED BY <1>1, <3>1, <3>2, TaskKeeps
  <2>2. CASE ModifyUser
    <3>1. blocks' = {}
      BY <1>3, <2>2 DEF ModifyUser, Start
    <3>2. CASE Entitled(status')
      <4>1. Schedule("update", key')
        BY <2>2, <3>2 DEF ModifyUser
      <4> QED BY <1>1, <3>1, <3>2, <4>1, TaskKeeps
    <3>3. CASE ~Entitled(status')
      <4>1. Schedule("remove", key')
        BY <2>2, <3>3 DEF ModifyUser
      <4> QED BY <1>1, <3>3, <4>1, TaskKeeps
    <3> QED BY <3>2, <3>3
  <2>3. CASE DeleteUser \/ Review
    <3>1. ~Entitled(status') /\ Schedule("remove", key)
      BY <2>3 DEF DeleteUser, Review, Entitled, Served
    <3> QED BY <1>1, <3>1, TaskKeeps
  <2>4. CASE DeleteExpired
    <3>1. ~Entitled(status) /\ ~Entitled(status') /\ UNCHANGED tasks
      BY <2>4 DEF DeleteExpired, Entitled, Served
    <3>2. \A c \in Cores : Wanted(c)' = 0
      BY <3>1 DEF Wanted, ConfigKey
    <3>3. \A c \in Cores : Wanted(c) = 0
      BY <3>1 DEF Wanted, ConfigKey
    <3> QED BY <1>1, <3>1, <3>2, <3>3, SilentKeeps
  <2>5. CASE ResetUsage
    <3>1. blocks' = {} /\ blocks = {} /\ key' = key
      BY <1>3, <2>5 DEF ResetUsage, Start
    <3>2. CASE Entitled(status')
      <4>1. Schedule("add", key)
        BY <2>5, <3>2 DEF ResetUsage
      <4>2. \A c \in Cores : Reachable(c)' => serving'[c] \in {0, key'}
        BY <1>1, <1>2, <1>5, <3>1
      <4> QED BY <1>1, <3>1, <3>2, <4>1, <4>2, TaskKeeps
    <3>3. CASE ~Entitled(status')
      <4>1. UNCHANGED <<tasks, status, key, blocks>>
        BY <2>5, <3>3 DEF ResetUsage, Entitled, Served
      <4>2. \A c \in Cores : Wanted(c)' = Wanted(c)
        BY <4>1 DEF Wanted, ConfigKey, Entitled
      <4> QED BY <1>1, <4>1, <4>2, SilentKeeps
    <3> QED BY <3>2, <3>3
  <2>6. CASE RevokeSub
    <3>1. blocks' = {} /\ blocks = {} /\ status' = status
      BY <1>3, <2>6 DEF RevokeSub, Start
    <3>2. CASE Entitled(status)
      <4>1. Schedule("update", key')
        BY <2>6, <3>2 DEF RevokeSub
      <4> QED BY <1>1, <3>1, <3>2, <4>1, TaskKeeps
    <3>3. CASE ~Entitled(status)
      <4>1. UNCHANGED tasks
        BY <2>6, <3>3 DEF RevokeSub
      <4>2. \A c \in Cores : Wanted(c)' = Wanted(c)
        BY <3>1, <3>3 DEF Wanted, ConfigKey
      <4> QED BY <1>1, <4>1, <4>2, SilentKeeps
    <3> QED BY <3>2, <3>3
  <2>7. CASE StartNextPlan \/ SyncInbounds
    <3>1. /\ blocks' = {} /\ key' = key /\ Entitled(status')
          /\ Schedule("update", key) \/ Schedule("sync", key)
      BY <1>3, <2>7 DEF StartNextPlan, SyncInbounds, Start, Entitled, Served
    <3> QED BY <1>1, <3>1, TaskKeeps
  <2>8. CASE WakeOnHold
    <3>1. UNCHANGED <<tasks, key, blocks>> /\ Entitled(status) /\ Entitled(status')
      BY <2>8 DEF WakeOnHold, Entitled, Served
    <3>2. \A c \in Cores : Wanted(c)' = Wanted(c)
      BY <3>1 DEF Wanted, ConfigKey
    <3> QED BY <1>1, <3>1, <3>2, SilentKeeps
  <2>9. ~JobReset /\ ~ActiveNext
    BY DEF JobReset, ActiveNext, Start, Orderly
  <2> QED BY <2>1, <2>2, <2>3, <2>4, <2>5, <2>6, <2>7, <2>8, <2>9
<1> QED BY <1>4, <1>6 DEF QueueInv

\* The panel's core is right at once, the nodes that answer await their push.
LEMMA MassChangeKeeps ==
  ASSUME AccessAssumption, QueueInv, Typed, NoCalls, NoPushes, MassChange PROVE QueueInv'
<1>1. /\ RestartAll /\ UNCHANGED <<key, blocks, link, tasks, calls>>
      /\ status' = "absent" <=> status = "absent"
  BY DEF MassChange, RestartAll, DisableAll, ActivateAll, ResetAll, Served
<1>2. BlocksOK'
  BY <1>1 DEF BlocksOK, QueueInv
<1>3. tasks' = {} /\ calls' = {}
  BY <1>1 DEF NoCalls
<1>4. CoresOK'
  <2> SUFFICES ASSUME NEW c \in Cores, Reachable(c)' PROVE Awaits(c)' \/ serving'[c] = Wanted(c)'
    BY DEF CoresOK
  <2>1. CASE c = Master
    <3>1. Master \notin blocks'
      BY <1>2 DEF BlocksOK, AccessAssumption
    <3>2. serving'[Master] = ConfigKey(status', key)
      BY <1>1, <2>1 DEF RestartAll, Typed
    <3> QED BY <1>1, <2>1, <3>1, <3>2 DEF Wanted
  <2>2. CASE c # Master
    <3>1. c \in Nodes /\ c \in Ready
      BY <1>1, <2>2 DEF Cores, Reachable, Ready
    <3>2. pushes'[c].on
      BY <1>1, <3>1 DEF RestartAll
    <3> QED BY <3>1, <3>2 DEF Awaits
  <2> QED BY <2>1, <2>2
<1> QED BY <1>2, <1>3, <1>4 DEF QueueInv, TasksOK, CallsOK

\* review_bs_nodes: one node is told at most.
LEMMA BlockKeeps ==
  ASSUME AccessAssumption, Typed, QueueInv, NoCalls, NoPushes,
         NEW n \in Nodes, BlockOnNode(n) \/ UnblockOnNode(n)
  PROVE  QueueInv'
<1>1. /\ UNCHANGED <<status, key, link, serving, tasks, pushes>>
      /\ \A c \in Cores : Reachable(c)' <=> Reachable(c)
  BY DEF BlockOnNode, UnblockOnNode, Reachable, Ready
<1>2. \A c \in Cores : Reachable(c) => serving[c] = Wanted(c)
  BY QuietIsRight DEF QueueInv
<1>3. BlocksOK'
  BY DEF BlockOnNode, UnblockOnNode, BlocksOK, QueueInv
<1>4. /\ n \in Cores /\ \A c \in Cores \ {n} : Wanted(c)' = Wanted(c)
  BY DEF BlockOnNode, UnblockOnNode, Wanted, ConfigKey, Entitled, Cores
<1>5. ASSUME NEW todo,
             calls' = {[id |-> nops, todo |-> todo, core |-> m, key |-> key] : m \in {n} \cap Ready},
             Wanted(n)' = IF todo = "remove" THEN 0 ELSE key,
             todo = "add" /\ Reachable(n) => serving[n] = 0
      PROVE  CallsOK' /\ CoresOK'
  <2> DEFINE d == [id |-> nops, todo |-> todo, core |-> n, key |-> key]
  <2>1. d.todo = todo /\ d.core = n /\ d.key = key
    OBVIOUS
  <2>2. calls' = IF n \in Ready THEN {d} ELSE {}
    BY <1>5
  <2> HIDE DEF d
  <2>3. CallsOK'
    <3> SUFFICES ASSUME NEW e \in calls'
                 PROVE  /\ Wanted(e.core)' = IF e.todo = "remove" THEN 0 ELSE e.key
                        /\ e.todo = "add" /\ Reachable(e.core)' => serving'[e.core] \in {0, e.key}
      BY DEF CallsOK
    <3>1. e = d
      BY <2>2
    <3> QED BY <1>1, <1>4, <1>5, <2>1, <3>1
  <2>4. CoresOK'
    <3> SUFFICES ASSUME NEW c \in Cores, Reachable(c)' PROVE Awaits(c)' \/ serving'[c] = Wanted(c)'
      BY DEF CoresOK
    <3>1. CASE c = n
      <4>1. n \in Ready
        BY <1>1, <3>1 DEF Reachable, AccessAssumption
      <4> QED BY <2>1, <2>2, <3>1, <4>1 DEF Awaits
    <3>2. CASE c # n
      BY <1>1, <1>2, <1>4, <3>2
    <3> QED BY <3>1, <3>2
  <2> QED BY <2>3, <2>4
<1>6. CallsOK' /\ CoresOK'
  <2>1. CASE BlockOnNode(n)
    <3>1. /\ calls' = {[id |-> nops, todo |-> "remove", core |-> m, key |-> key] : m \in {n} \cap Ready}
          /\ Wanted(n)' = 0
      BY <2>1 DEF BlockOnNode, OneCall, NoCalls, Wanted
    <3> QED BY <1>5, <3>1
  <2>2. CASE UnblockOnNode(n) /\ Entitled(status)
    <3>1. /\ calls' = {[id |-> nops, todo |-> "add", core |-> m, key |-> key] : m \in {n} \cap Ready}
          /\ Wanted(n)' = key /\ Wanted(n) = 0
      BY <2>2 DEF UnblockOnNode, OneCall, NoCalls, Wanted, ConfigKey, Entitled
    <3> QED BY <1>2, <1>4, <1>5, <3>1
  <2>3. CASE UnblockOnNode(n) /\ ~Entitled(status)
    <3>1. calls' = calls /\ \A c \in Cores : Wanted(c)' = Wanted(c)
      BY <1>1, <2>3 DEF UnblockOnNode, Wanted, ConfigKey, Entitled
    <3> QED BY <1>1, <3>1, SilentKeeps DEF QueueInv
  <2> QED BY <2>1, <2>2, <2>3
<1>7. TasksOK'
  BY <1>1 DEF NoCalls, TasksOK
<1> QED BY <1>3, <1>6, <1>7 DEF QueueInv

-----------------------------------------------------------------------------
\* The steps of the pool and of the nodes leave the row alone.

LEMMA SameRow ==
  ASSUME UNCHANGED db
  PROVE  /\ UNCHANGED <<status, key, blocks>> /\ \A c \in Cores : Wanted(c)' = Wanted(c)
         /\ Entitled(status') <=> Entitled(status)
         /\ BlocksOK => BlocksOK'
  BY DEF db, Wanted, ConfigKey, Entitled, BlocksOK

LEMMA RunTaskKeeps ==
  ASSUME AccessAssumption, Typed, QueueInv, NEW t \in tasks, RunTask(t) PROVE QueueInv'
<1>1. /\ UNCHANGED <<db, link, serving, pushes>> /\ tasks' = tasks \ {t}
      /\ \A c \in Cores : Reachable(c)' <=> Reachable(c)
  BY DEF RunTask, Reachable, Ready
<1>2. /\ UNCHANGED <<status, key, blocks>> /\ \A c \in Cores : Wanted(c)' = Wanted(c)
      /\ Entitled(status') <=> Entitled(status)
      /\ BlocksOK /\ BlocksOK'
  BY <1>1, SameRow DEF QueueInv
<1>3. IF t.todo = "remove"
      THEN ~Entitled(status)
      ELSE /\ Entitled(status) /\ t.key = key /\ blocks = {}
           /\ t.todo = "add" => \A c \in Cores : Reachable(c) => serving[c] \in {0, key}
  BY DEF QueueInv, TasksOK
<1>4. calls' = calls \cup CallsOf(t, {Master} \cup Ready)
  BY <1>3 DEF RunTask, Entitled, Served
<1>5. TasksOK'
  BY <1>1, <1>2 DEF QueueInv, TasksOK
<1>6. CallsOK'
  <2> SUFFICES ASSUME NEW d \in calls'
               PROVE  /\ Wanted(d.core)' = IF d.todo = "remove" THEN 0 ELSE d.key
                      /\ d.todo = "add" /\ Reachable(d.core)' => serving'[d.core] \in {0, d.key}
    BY DEF CallsOK
  <2>1. CASE d \in calls
    <3>1. d.core \in Cores
      BY <2>1 DEF Typed
    <3> QED BY <1>1, <1>2, <2>1, <3>1 DEF QueueInv, CallsOK
  <2>2. CASE d \in CallsOf(t, {Master} \cup Ready)
    <3>1. /\ d.core \in Cores
          /\ d.todo = IF t.todo = "sync" THEN "update" ELSE t.todo
          /\ d.key = IF t.todo = "sync" THEN key ELSE t.key
      BY <2>2 DEF CallsOf, Cores, Ready
    <3>2. CASE t.todo = "remove"
      BY <1>2, <1>3, <3>1, <3>2, WantedIs
    <3>3. CASE t.todo # "remove"
      <4>1. Wanted(d.core) = key /\ d.key = key /\ d.todo # "remove"
        BY <1>2, <1>3, <3>1, <3>3, WantedIs
      <4> QED BY <1>1, <1>2, <1>3, <3>1, <3>3, <4>1
    <3> QED BY <3>2, <3>3
  <2> QED BY <1>4, <2>1, <2>2
<1>7. CoresOK'
  <2> SUFFICES ASSUME NEW c \in Cores, Reachable(c)' PROVE \E d \in calls' : d.core = c
    BY DEF CoresOK, Awaits
  <2>1. c \in {Master} \cup Ready
    BY <1>1 DEF Reachable
  <2> DEFINE d == [id |-> t.id, todo |-> IF t.todo = "sync" THEN "update" ELSE t.todo,
                   core |-> c, key |-> IF t.todo = "sync" THEN key ELSE t.key]
  <2>2. d \in calls'
    BY <1>4, <2>1 DEF CallsOf
  <2>3. d.core = c
    OBVIOUS
  <2> HIDE DEF d
  <2> QED BY <2>2, <2>3
<1> QED BY <1>2, <1>5, <1>6, <1>7 DEF QueueInv

\* What is left of a call: nothing, or the second half of an update.
LEMMA RestIs ==
  ASSUME Typed, NEW d \in calls, NEW e \in Rest(d)
  PROVE  \/ e \in calls
         \/ d.todo = "update" /\ e.todo = "add" /\ e.core = d.core /\ e.key = d.key
  BY DEF Rest, Typed

LEMMA RestKeepsOthers ==
  ASSUME Typed, NEW d \in calls, NEW c \in Cores, c # d.core \/ d.todo = "update",
         \E e \in calls : e.core = c
  PROVE  \E e \in Rest(d) : e.core = c
<1>1. CASE c # d.core
  BY <1>1 DEF Rest
<1>2. CASE c = d.core /\ d.todo = "update"
  <2>1. [d EXCEPT !.todo = "add"] \in Rest(d) /\ [d EXCEPT !.todo = "add"].core = c
    BY <1>2 DEF Rest, Typed
  <2> QED BY <2>1
<1> QED BY <1>1, <1>2

LEMMA RunCallKeeps ==
  ASSUME AccessAssumption, Typed, QueueInv, NEW d \in calls, RunCall(d) PROVE QueueInv'
<1> DEFINE new == IF d.todo # "add" THEN 0 ELSE IF serving[d.core] = 0 THEN d.key ELSE serving[d.core]
<1>1. /\ UNCHANGED <<db, link, tasks, pushes>> /\ calls' = Rest(d) /\ Reachable(d.core)
      /\ \A c \in Cores : Reachable(c)' <=> Reachable(c)
  BY DEF RunCall, Reachable, Ready
<1>2. /\ UNCHANGED <<status, key, blocks>> /\ \A c \in Cores : Wanted(c)' = Wanted(c)
      /\ Entitled(status') <=> Entitled(status)
      /\ BlocksOK /\ BlocksOK'
  BY <1>1, SameRow DEF QueueInv
<1>3. /\ d.core \in Cores /\ d.todo \in {"add", "remove", "update"}
      /\ Wanted(d.core) = IF d.todo = "remove" THEN 0 ELSE d.key
      /\ d.todo = "add" => serving[d.core] \in {0, d.key}
  BY <1>1 DEF Typed, QueueInv, CallsOK
<1>4. \A c \in Cores : serving'[c] = IF c = d.core THEN new ELSE serving[c]
  BY <1>3 DEF RunCall, Typed
<1>5. new \in {0, Wanted(d.core)} /\ (d.todo # "update" => new = Wanted(d.core))
  BY <1>3
<1> HIDE DEF new
<1>6. TasksOK'
  <2>1. ASSUME NEW t \in tasks, t.todo = "add", NEW c \in Cores, Reachable(c)
        PROVE  serving'[c] \in {0, key}
    <3>1. serving[c] \in {0, key} /\ Entitled(status)
      BY <2>1 DEF QueueInv, TasksOK
    <3>2. Wanted(d.core) \in {0, key}
      BY <1>2, <1>3, <3>1, WantedIs
    <3> QED BY <1>4, <1>5, <3>1, <3>2
  <2> QED BY <1>1, <1>2, <2>1 DEF QueueInv, TasksOK
<1>7. CallsOK'
  <2> SUFFICES ASSUME NEW e \in Rest(d)
               PROVE  /\ Wanted(e.core)' = IF e.todo = "remove" THEN 0 ELSE e.key
                      /\ e.todo = "add" /\ Reachable(e.core)' => serving'[e.core] \in {0, e.key}
    BY <1>1 DEF CallsOK
  <2>1. CASE e \in calls
    <3>1. /\ e.core \in Cores /\ Wanted(e.core) = IF e.todo = "remove" THEN 0 ELSE e.key
          /\ e.todo = "add" /\ Reachable(e.core) => serving[e.core] \in {0, e.key}
      BY <2>1 DEF Typed, QueueInv, CallsOK
    <3> QED BY <1>1, <1>2, <1>4, <1>5, <3>1
  <2>2. CASE d.todo = "update" /\ e.todo = "add" /\ e.core = d.core /\ e.key = d.key
    BY <1>2, <1>3, <1>4, <1>5, <2>2
  <2> QED BY <2>1, <2>2, RestIs
<1>8. CoresOK'
  <2> SUFFICES ASSUME NEW c \in Cores, Reachable(c)' PROVE Awaits(c)' \/ serving'[c] = Wanted(c)'
    BY DEF CoresOK
  <2>1. CASE c = d.core /\ d.todo # "update"
    BY <1>2, <1>3, <1>4, <1>5, <2>1
  <2>2. CASE c = d.core /\ d.todo = "update"
    <3>1. \E e \in Rest(d) : e.core = c
      BY <2>2, RestKeepsOthers
    <3> QED BY <1>1, <3>1 DEF Awaits
  <2>3. CASE c # d.core
    <3>1. Awaits(c) \/ serving[c] = Wanted(c)
      BY <1>1 DEF QueueInv, CoresOK
    <3>2. Awaits(c) => Awaits(c)'
      BY <1>1, <2>3, RestKeepsOthers DEF Awaits
    <3> QED BY <1>2, <1>4, <2>3, <3>1, <3>2
  <2> QED BY <2>1, <2>2, <2>3
<1> QED BY <1>2, <1>6, <1>7, <1>8 DEF QueueInv

\* A call fails on a node that is gone only.
LEMMA FailCallKeeps ==
  ASSUME AccessAssumption, Orderly, Typed, QueueInv, NEW d \in calls, FailCall(d) PROVE QueueInv'
<1>1. /\ UNCHANGED <<db, link, serving, tasks, pushes>> /\ calls' = Rest(d)
      /\ \A c \in Cores : Reachable(c)' <=> Reachable(c)
  BY DEF FailCall, Reachable, Ready
<1>2. /\ UNCHANGED <<status, key, blocks>> /\ \A c \in Cores : Wanted(c)' = Wanted(c)
      /\ Entitled(status') <=> Entitled(status)
      /\ BlocksOK /\ BlocksOK'
  BY <1>1, SameRow DEF QueueInv
<1>3. ~Reachable(d.core) /\ d.core \in Cores
  BY DEF FailCall, Orderly, Typed
<1>4. TasksOK'
  BY <1>1, <1>2 DEF QueueInv, TasksOK
<1>5. CallsOK'
  <2> SUFFICES ASSUME NEW e \in Rest(d)
               PROVE  /\ Wanted(e.core)' = IF e.todo = "remove" THEN 0 ELSE e.key
                      /\ e.todo = "add" /\ Reachable(e.core)' => serving'[e.core] \in {0, e.key}
    BY <1>1 DEF CallsOK
  <2>1. CASE e \in calls
    <3>1. e.core \in Cores
      BY <2>1 DEF Typed
    <3> QED BY <1>1, <1>2, <2>1, <3>1 DEF QueueInv, CallsOK
  <2>2. CASE d.todo = "update" /\ e.todo = "add" /\ e.core = d.core /\ e.key = d.key
    BY <1>1, <1>2, <1>3, <2>2 DEF QueueInv, CallsOK
  <2> QED BY <2>1, <2>2, RestIs
<1>6. CoresOK'
  <2> SUFFICES ASSUME NEW c \in Cores, Reachable(c)' PROVE Awaits(c)' \/ serving'[c] = Wanted(c)'
    BY DEF CoresOK
  <2>1. c # d.core /\ (Awaits(c) \/ serving[c] = Wanted(c))
    BY <1>1, <1>3 DEF QueueInv, CoresOK
  <2>2. Awaits(c) => Awaits(c)'
    BY <1>1, <2>1, RestKeepsOthers DEF Awaits
  <2> QED BY <1>1, <1>2, <2>1, <2>2
<1> QED BY <1>2, <1>4, <1>5, <1>6 DEF QueueInv

\* A node that becomes ready again has just been given the configuration.
LEMMA NodeKeeps ==
  ASSUME AccessAssumption, Orderly, Typed, PushesOK, QueueInv,
         NEW n \in Nodes, NodeDrops(n) \/ Reconnect(n) \/ ConnectSoft(n)
  PROVE  QueueInv'
<1>1. UNCHANGED <<db, tasks, calls>> /\ n \in Cores
  BY DEF NodeDrops, Reconnect, ConnectSoft, ConnectHard, ReadBlocks, ReadUsers, PushConfig, Cores
<1>2. /\ UNCHANGED <<status, key, blocks>> /\ \A c \in Cores : Wanted(c)' = Wanted(c)
      /\ Entitled(status') <=> Entitled(status)
      /\ BlocksOK /\ BlocksOK'
  BY <1>1, SameRow DEF QueueInv
<1>3. ASSUME \A c \in Cores : Reachable(c)' =>
                \/ /\ Reachable(c) /\ serving'[c] = serving[c]
                   /\ c \in Nodes /\ pushes[c].on => pushes'[c].on
                \/ serving'[c] = Wanted(c)
      PROVE  QueueInv'
  <2>1. TasksOK'
    <3>1. ASSUME NEW t \in tasks, t.todo = "add", NEW c \in Cores, Reachable(c)'
          PROVE  serving'[c] \in {0, key}
      <4>1. Entitled(status) /\ (Reachable(c) => serving[c] \in {0, key})
        BY <3>1 DEF QueueInv, TasksOK
      <4>2. Wanted(c) \in {0, key}
        BY <1>2, <4>1, WantedIs
      <4> QED BY <1>3, <3>1, <4>1, <4>2
    <3> QED BY <1>1, <1>2, <3>1 DEF QueueInv, TasksOK
  <2>2. CallsOK'
    <3>1. ASSUME NEW d \in calls
          PROVE  /\ Wanted(d.core)' = IF d.todo = "remove" THEN 0 ELSE d.key
                 /\ d.todo = "add" /\ Reachable(d.core)' => serving'[d.core] \in {0, d.key}
      <4>1. d.core \in Cores
        BY DEF Typed
      <4>2. /\ Wanted(d.core) = IF d.todo = "remove" THEN 0 ELSE d.key
            /\ d.todo = "add" /\ Reachable(d.core) => serving[d.core] \in {0, d.key}
        BY DEF QueueInv, CallsOK
      <4> QED BY <1>2, <1>3, <4>1, <4>2
    <3> QED BY <1>1, <3>1 DEF CallsOK
  <2>3. CoresOK'
    <3> SUFFICES ASSUME NEW c \in Cores, Reachable(c)', serving'[c] # Wanted(c)' PROVE Awaits(c)'
      BY DEF CoresOK
    <3>1. /\ Reachable(c) /\ serving'[c] = serving[c]
          /\ c \in Nodes /\ pushes[c].on => pushes'[c].on
      BY <1>2, <1>3
    <3>2. Awaits(c)
      BY <1>2, <3>1 DEF QueueInv, CoresOK
    <3> QED BY <1>1, <3>1, <3>2 DEF Awaits
  <2> QED BY <1>2, <2>1, <2>2, <2>3 DEF QueueInv
<1>4. CASE NodeDrops(n)
  <2>1. serving' = serving /\ link'[n] # "ready" /\ \A m \in Nodes \ {n} : link'[m] = link[m] /\ pushes'[m] = pushes[m]
    BY <1>4 DEF NodeDrops, Typed
  <2>2. n # Master
    BY DEF AccessAssumption
  <2> QED BY <1>3, <2>1, <2>2 DEF Reachable, Ready
<1>5. CASE ConnectHard(n) \/ ReadBlocks(n) \/ ReadUsers(n)
  <2>1. serving' = serving /\ link' = link /\ \A m \in Nodes : pushes[m].on => pushes'[m].on
    BY <1>5 DEF ConnectHard, ReadBlocks, ReadUsers, Typed
  <2> QED BY <1>3, <2>1 DEF Reachable, Ready
<1>6. CASE PushConfig(n)
  <2>1. serving'[n] = Wanted(n) /\ \A c \in Cores \ {n} : serving'[c] = serving[c]
    BY <1>6, PushIsRight
  <2>2. \A m \in Nodes \ {n} : link'[m] = link[m] /\ pushes'[m] = pushes[m]
    BY <1>6 DEF PushConfig, Typed
  <2> QED BY <1>3, <2>1, <2>2 DEF Reachable, Ready
<1>7. ~ConnectSoft(n)
  BY DEF ConnectSoft, Orderly
<1> QED BY <1>4, <1>5, <1>6, <1>7 DEF Reconnect

LEMMA CrashKeeps ==
  ASSUME AccessAssumption, Typed, QueueInv, PanelCrashes PROVE QueueInv'
<1>1. /\ UNCHANGED db /\ tasks' = {} /\ calls' = {} /\ \A m \in Nodes : link'[m] # "ready"
      /\ serving'[Master] = ConfigKey(status, key)
  BY DEF PanelCrashes, Typed, Cores
<1>2. /\ \A c \in Cores : Wanted(c)' = Wanted(c)
      /\ BlocksOK /\ BlocksOK'
  BY <1>1, SameRow DEF QueueInv
<1>3. CoresOK'
  BY <1>1, <1>2, WantedIs DEF CoresOK, Reachable, Ready
<1> QED BY <1>1, <1>2, <1>3 DEF QueueInv, TasksOK, CallsOK

LEMMA QueueInvNext ==
  ASSUME AccessAssumption, Orderly, Typed, PushesOK, QueueInv, [Next]_vars PROVE QueueInv'
<1>1. CASE Operation
  BY <1>1, OrderlyStart, CommitKeeps, MassChangeKeeps, BlockKeeps DEF Operation
<1>2. CASE Pool
  BY <1>2, RunTaskKeeps, RunCallKeeps, FailCallKeeps DEF Pool
<1>3. CASE PanelCrashes
  BY <1>3, CrashKeeps
<1>4. CASE \E n \in Nodes : NodeDrops(n) \/ Reconnect(n) \/ ConnectSoft(n)
  BY <1>4, NodeKeeps
<1>5. CASE UNCHANGED vars
  BY <1>5 DEF vars, QueueInv, BlocksOK, TasksOK, CallsOK, CoresOK, Awaits, Wanted, ConfigKey,
              Entitled, Reachable, Ready
<1> QED BY <1>1, <1>2, <1>3, <1>4, <1>5 DEF Next

LEMMA QueueInvInit == ASSUME AccessAssumption, Init PROVE QueueInv
<1>1. BlocksOK /\ TasksOK /\ CallsOK
  BY TypedInit DEF Init, TasksOK, CallsOK
<1>2. CoresOK
  BY DEF Init, CoresOK, Wanted, ConfigKey, Entitled, Served
<1> QED BY <1>1, <1>2 DEF QueueInv

\* Once the queues are empty and the nodes are back, every core accepts exactly
\* the current key of an entitled user that is not blocked there and nobody
\* else, whatever nodes or the panel have failed in whatever order: for any
\* number of nodes, keys, operations and failures, provided that operations do
\* not overtake each other's calls and pushes, that no call is lost on a core
\* that is up, that every operation tells the cores, and that nothing adds a
\* blocked user (access_readd shows what happens otherwise).
THEOREM CoresFollowDatabase ==
  ASSUME AccessAssumption, Orderly PROVE Spec => []CoresInSync
<1> DEFINE IInv == Typed /\ PushesOK /\ QueueInv
<1>0. "pushes" \notin Overlap
  BY DEF Orderly
<1>1. Init => IInv
  BY TypedInit, QueueInvInit DEF Init, PushesOK, NoPush
<1>2. IInv /\ [Next]_vars => IInv'
  BY <1>0, TypedNext, PushesNext, QueueInvNext
<1>3. IInv => CoresInSync
  BY QuietIsRight DEF QueueInv, CoresInSync, Settled, Reachable, Cores
<1> QED BY <1>1, <1>2, <1>3, PTL DEF Spec

=============================================================================
