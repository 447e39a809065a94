---------------------------- MODULE NodeConnect ----------------------------
(***************************************************************************)
(* The life of a VPN node as the panel sees it: app/xray/operations.py     *)
(* (connect_node, restart_node, remove_node, add_node), the REST node      *)
(* client of app/xray/node.py, the health check of app/jobs/0_xray_core.py *)
(* and the node endpoints of app/routers/node.py.                          *)
(*                                                                         *)
(* Jobs of the xray thread pool, one admin request and the health check    *)
(* interleave; each step is one database transaction, one REST call or one *)
(* critical section.  The connect slot is the revocable lock of SlotLock,  *)
(* which ConnectSlot implements.  Requests to the node may fail, with or   *)
(* without having taken effect.                                            *)
(***************************************************************************)
EXTENDS SlotLock, Naturals, FiniteSets

CONSTANTS
    Objects,        \* identities of XRayNode objects
    Permits,        \* XRAY_NODE_CONNECT_CONCURRENCY
    Retries,        \* XRAY_NODE_CONNECT_RETRIES
    MaxReconnects,  \* XRAY_NODE_MAX_CONCURRENT_CONNECTS
    MaxAdmin,       \* bound on admin requests
    MaxBoots,       \* bound on panel restarts
    MaxFaults,      \* bound on failures of the network, a node, the database, or delays
    MaxTrouble      \* bound on all of them: a restart counts as two failures, an admin
                    \* request as three

ASSUME NodeAssumption ==
    /\ None \notin Objects
    /\ Permits \in Nat \ {0}
    /\ Retries \in Nat \ {0}
    /\ MaxReconnects \in Nat \ {0}
    /\ MaxAdmin \in Nat
    /\ MaxBoots \in Nat
    /\ MaxFaults \in Nat
    /\ MaxTrouble \in Nat

VARIABLES
    \* database: table nodes
    row,        \* status of the row, or "absent"
    version,    \* nodes whose xray_version is not NULL
    aged,       \* nodes whose last_status_change is older than the stale timeout
    \* panel memory
    nodes,      \* xray.nodes: the object registered for a node, or None
    sid,        \* objects that remember a REST session id
    job,        \* job[t]: the pool job t, queued or running
    sem,        \* jobs that hold a permit of _connect_semaphore
    todo,       \* nodes the running health check has still to visit
    seen,       \* seen[n]: status of n when that health check read the table
    scheduled,  \* reconnects_scheduled of that health check
    admin,      \* the admin request in progress
    adminOps,   \* admin requests made so far
    boots,      \* panel restarts made so far
    \* the remote node service
    holder,     \* holder[n]: object whose session id the node accepts, or None
    core,       \* nodes on which Xray is running
    up,         \* nodes that can be reached
    faults      \* failures so far

dbVars     == <<row, version, aged>>
healthVars == <<todo, seen, scheduled>>
adminVars  == <<admin, adminOps, boots>>
remoteVars == <<holder, core>>
envVars    == <<up, faults>>
vars == <<slotVars, dbVars, nodes, sid, job, sem, healthVars, adminVars, remoteVars, envVars>>

Status == {"connecting", "connected", "error", "disabled"}

PCs == {"idle", "start", "read", "getobj", "sem", "attempt", "ensure", "conn", "push",
        "version", "stRead", "stWrite", "rmInval", "rmDisc", "rmDel", "release",
        "rping", "rdisc"}

Idle == [pc |-> "idle", kind |-> "connect", n |-> None, force |-> FALSE,
         obj |-> None, att |-> 0, goal |-> "error"]

ConnectJob(n, force) == [Idle EXCEPT !.pc = "start", !.n = n, !.force = force]
RestartJob(n) == [Idle EXCEPT !.pc = "start", !.kind = "restart", !.n = n]

NoRequest == [pc |-> "idle", n |-> None, then |-> "done"]

\* The type invariant.
TypeOK ==
    /\ SlotTypeOK
    /\ row \in [Nodes -> Status \cup {"absent"}]
    /\ version \in SUBSET Nodes
    /\ aged \in SUBSET Nodes
    /\ nodes \in [Nodes -> Objects \cup {None}]
    /\ sid \in SUBSET Objects
    /\ job \in [Threads -> [pc : PCs, kind : {"connect", "restart"}, n : Nodes \cup {None},
                            force : BOOLEAN, obj : Objects \cup {None},
                            att : 0..Retries, goal : Status]]
    /\ sem \in SUBSET Threads
    /\ todo \in SUBSET Nodes
    /\ seen \in [Nodes -> Status \cup {"absent"}]
    /\ scheduled \in 0..MaxReconnects
    /\ admin \in [pc : {"idle", "rmInval", "rmDisc", "rmDel", "revoke", "submit"},
                  n : Nodes \cup {None}, then : {"done", "hard", "soft"}]
    /\ adminOps \in 0..MaxAdmin
    /\ boots \in 0..MaxBoots
    /\ holder \in [Nodes -> Objects \cup {None}]
    /\ core \in SUBSET Nodes
    /\ up \in SUBSET Nodes
    /\ faults \in 0..MaxFaults

Enabled(n) == row[n] \notin {"disabled", "absent"}

\* start_core: the panel's memory is empty; every enabled node is set to
\* connecting and a soft connect is queued for it.
BootNodes(r) == {n \in Nodes : r[n] \notin {"disabled", "absent"}}
BootRow(r) == [n \in Nodes |-> IF n \in BootNodes(r) THEN "connecting" ELSE r[n]]
BootJobs(r) ==
    {j \in [Threads -> {Idle} \cup {ConnectJob(n, FALSE) : n \in BootNodes(r)}] :
        \A n \in BootNodes(r) : Cardinality({t \in Threads : j[t].n = n}) = 1}

Unseen == [n \in Nodes |-> "absent"]

EmptyMemory ==
    /\ SlotInit
    /\ version = {}
    /\ nodes = [n \in Nodes |-> None]
    /\ sid = {}
    /\ sem = {}
    /\ todo = {}
    /\ seen = Unseen
    /\ scheduled = 0
    /\ admin = NoRequest

Init ==
    /\ row \in {BootRow(r) : r \in [Nodes -> Status \cup {"absent"}]}
    /\ job \in BootJobs(row)
    /\ EmptyMemory
    /\ aged = {}
    /\ adminOps = 0
    /\ boots = 0
    /\ holder = [n \in Nodes |-> None]
    /\ core \in SUBSET BootNodes(row)
    /\ up = Nodes
    /\ faults = 0

-----------------------------------------------------------------------------
\* Helpers of the job steps.

Obj(t)  == job[t].obj
Node(t) == job[t].n
At(t, pc) == job[t].pc = pc
Goto(t, pc) == job' = [job EXCEPT ![t].pc = pc]
Finish(t, pc) == job' = [job EXCEPT ![t].pc = pc, ![t].att = 0, ![t].goal = "error"]

\* The node accepts the session id that object o remembers (POST /ping = 200).
Valid(o, n) == o \in sid /\ holder[n] = o

Referenced == {nodes[n] : n \in Nodes} \cup {job[t].obj : t \in Threads}

\* XRayNode(...): an object nobody refers to, without a session.
NewObject(n, o) ==
    /\ o \in Objects \ Referenced
    /\ nodes' = [nodes EXCEPT ![n] = o]
    /\ sid' = sid \ {o}

\* Objects nobody refers to any more are garbage; a session id only they
\* knew is one no object of the panel can present again.
Collect ==
    LET alive == {nodes'[n] : n \in Nodes} \cup {job'[t].obj : t \in Threads}
    IN  /\ sid' = sid \cap alive
        /\ holder' = [n \in Nodes |-> IF holder[n] \in alive THEN holder[n] ELSE None]

\* Something goes wrong.
Room(k) == faults + 2 * boots + 3 * adminOps + k <= MaxTrouble
Fault == faults < MaxFaults /\ Room(1) /\ faults' = faults + 1
NoFault == UNCHANGED faults

MaxAttempts(t) == IF job[t].force THEN Retries ELSE 1

\* An exception out of one attempt: the permit is returned; the next attempt
\* follows, or the node is marked error.
AttemptFails(t) ==
    /\ sem' = sem \ {t}
    /\ job' = [job EXCEPT ![t] =
                 IF job[t].kind = "connect" /\ job[t].att < MaxAttempts(t)
                   THEN [@ EXCEPT !.pc = "sem", !.att = job[t].att + 1]
                   ELSE [@ EXCEPT !.pc = "stRead", !.att = 0, !.goal = "error"]]

\* An exception while talking to the node.  On the soft path, as long as the
\* object still remembers a session, the connect is only deferred.
Raise(t, remembers) ==
    IF job[t].kind = "connect" /\ ~job[t].force /\ remembers
      THEN Finish(t, "release") /\ UNCHANGED sem
      ELSE AttemptFails(t)

-----------------------------------------------------------------------------
\* _connect_node_impl.

\* The job ends at once when another connect holds a live slot.
ConnectStart(t) ==
    /\ At(t, "start") /\ job[t].kind = "connect"
    /\ IF Available(Node(t))
         THEN Take(t, Node(t)) /\ Goto(t, "read")
         ELSE UNCHANGED slotVars /\ job' = [job EXCEPT ![t] = Idle]
    /\ UNCHANGED <<dbVars, nodes, sid, sem, healthVars, adminVars, remoteVars, envVars>>

ReadNode(t) ==
    /\ At(t, "read")
    /\ job' = [job EXCEPT ![t] =
                 CASE row[@.n] = "absent"     -> [@ EXCEPT !.pc = "release"]
                   [] row[@.n] = "disabled"   -> [@ EXCEPT !.pc = "rmInval"]
                   [] row[@.n] = "connecting" -> [@ EXCEPT !.pc = "getobj"]
                   [] OTHER -> [@ EXCEPT !.pc = "stRead", !.goal = "connecting"]]
    /\ UNCHANGED <<slotVars, dbVars, nodes, sid, sem, healthVars, adminVars, remoteVars, envVars>>

\* xray.nodes[n], or add_node when nothing is registered.
GetObject(t) ==
    LET next == IF job[t].kind = "connect" THEN "sem" ELSE "rping" IN
    /\ At(t, "getobj")
    /\ \/ /\ nodes[Node(t)] # None
          /\ job' = [job EXCEPT ![t].pc = next, ![t].att = 1, ![t].obj = nodes[Node(t)]]
          /\ UNCHANGED <<nodes, sid>>
       \/ /\ nodes[Node(t)] = None
          /\ \E o \in Objects :
                /\ NewObject(Node(t), o)
                /\ job' = [job EXCEPT ![t].pc = next, ![t].att = 1, ![t].obj = o]
    /\ UNCHANGED <<slotVars, dbVars, sem, healthVars, adminVars, remoteVars, envVars>>

AcquirePermit(t) ==
    /\ At(t, "sem")
    /\ Cardinality(sem) < Permits
    /\ sem' = sem \cup {t}
    /\ Goto(t, "attempt")
    /\ UNCHANGED <<slotVars, dbVars, nodes, sid, healthVars, adminVars, remoteVars, envVars>>

\* HARD: the first attempt drops the local session and opens a new one; a
\* later attempt that still has a session only restarts.
HardAttempt(t) ==
    /\ At(t, "attempt") /\ job[t].force
    /\ IF Obj(t) \in sid /\ job[t].att > 1
         THEN Goto(t, "ensure") /\ UNCHANGED sid
         ELSE Goto(t, "conn") /\ sid' = sid \ {Obj(t)}
    /\ UNCHANGED <<slotVars, dbVars, nodes, sem, healthVars, adminVars, remoteVars, envVars>>

\* SOFT: try_restore reattaches to a live session and a running core.
TryRestore(t) ==
    LET o == Obj(t)  n == Node(t) IN
    /\ At(t, "attempt") /\ ~job[t].force
    /\ \/ /\ o \notin sid
          /\ Goto(t, "ensure") /\ UNCHANGED <<sid, sem>>
       \/ /\ o \in sid /\ n \notin up
          /\ Raise(t, TRUE) /\ UNCHANGED sid
       \/ /\ o \in sid /\ n \in up /\ ~Valid(o, n)
          /\ sid' = sid \ {o} /\ Goto(t, "ensure") /\ UNCHANGED sem
       \/ /\ n \in up /\ Valid(o, n) /\ n \notin core
          /\ Goto(t, "ensure") /\ UNCHANGED <<sid, sem>>
       \/ /\ n \in up /\ Valid(o, n) /\ n \in core
          /\ Goto(t, "version") /\ UNCHANGED <<sid, sem>>
    /\ UNCHANGED <<slotVars, dbVars, nodes, healthVars, adminVars, remoteVars, envVars>>

\* (variant: a failed ping drops the session whatever the reason)
EnsureDropsSession(t) ==
    LET o == Obj(t)  n == Node(t) IN
    /\ At(t, "ensure")
    /\ IF n \in up /\ Valid(o, n)
         THEN Goto(t, "push") /\ UNCHANGED sid
         ELSE Goto(t, "conn") /\ sid' = sid \ {o}
    /\ UNCHANGED <<slotVars, dbVars, nodes, sem, healthVars, adminVars, remoteVars, envVars>>

\* _ensure_control_session: ping; only a rejected session is dropped.
EnsureControlSession(t) ==
    LET o == Obj(t)  n == Node(t) IN
    /\ At(t, "ensure")
    /\ \/ /\ o \notin sid
          /\ Goto(t, "conn") /\ UNCHANGED <<sid, sem>>
       \/ /\ o \in sid /\ n \notin up
          /\ Raise(t, TRUE) /\ UNCHANGED sid
       \/ /\ o \in sid /\ n \in up /\ ~Valid(o, n)
          /\ sid' = sid \ {o} /\ Goto(t, "conn") /\ UNCHANGED sem
       \/ /\ n \in up /\ Valid(o, n)
          /\ Goto(t, "push") /\ UNCHANGED <<sid, sem>>
    /\ UNCHANGED <<slotVars, dbVars, nodes, healthVars, adminVars, remoteVars, envVars>>

\* connect(): a session the object got meanwhile is closed, then /connect
\* takes the node over, which stops Xray.  A lost reply leaves the node with
\* a session nobody knows.
NodeOpensSession(t) ==
    LET o == Obj(t)  n == Node(t) IN
    /\ At(t, "conn")
    /\ \/ /\ n \in up
          /\ sid' = sid \cup {o}
          /\ holder' = [holder EXCEPT ![n] = o]
          /\ core' = core \ {n}
          /\ Goto(t, "push") /\ UNCHANGED sem
       \/ /\ n \notin up
          /\ sid' = sid \ {o}
          /\ \/ UNCHANGED remoteVars
             \/ holder' = [holder EXCEPT ![n] = None] /\ core' = core \ {n}
          /\ Raise(t, FALSE)
    /\ UNCHANGED <<slotVars, dbVars, nodes, healthVars, adminVars, envVars>>

AfterPush(t) == IF job[t].kind = "connect" THEN Goto(t, "version") ELSE Finish(t, "release")

\* /restart, or on the soft path GET / and /start.  A core that already runs
\* is reattached without a new configuration, whoever's session it is.
PushConfig(t) ==
    LET o == Obj(t)  n == Node(t)
        hard == job[t].force \/ job[t].kind = "restart"
    IN
    /\ At(t, "push")
    /\ \/ /\ n \in up /\ Valid(o, n) /\ (hard \/ n \notin core)
          /\ core' = core \cup {n}
          /\ \/ AfterPush(t) /\ UNCHANGED sem /\ NoFault
             \/ Raise(t, TRUE) /\ Fault      \* wait_for_grpc_ready gives up
       \/ /\ n \in up /\ ~hard /\ n \in core
          /\ Goto(t, "version") /\ UNCHANGED <<core, sem>> /\ NoFault
       \/ /\ n \in up /\ ~Valid(o, n) /\ (hard \/ n \notin core)
          /\ Raise(t, o \in sid) /\ UNCHANGED core /\ NoFault
       \/ /\ n \notin up /\ NoFault
          /\ core' \in {core} \cup {core \cup {m} : m \in {n} \cap {k \in Nodes : Valid(o, k)}}
          /\ Raise(t, o \in sid)
    /\ UNCHANGED <<slotVars, dbVars, nodes, sid, healthVars, adminVars, holder, up>>

-----------------------------------------------------------------------------
\* _change_node_status: one session that reads the row and then commits it.

\* Where a job goes when its status update returned False or raised.
AfterRefusal(t) == IF job[t].kind = "connect" THEN "release" ELSE "rdisc"

ReadStatus(t, goal) ==
    CASE row[Node(t)] = "absent"   -> Finish(t, AfterRefusal(t))
      [] row[Node(t)] = "disabled" -> Finish(t, "rmInval")
      [] OTHER -> job' = [job EXCEPT ![t].pc = "stWrite", ![t].goal = goal]

StatusRead(t) ==
    /\ At(t, "stRead")
    /\ ReadStatus(t, job[t].goal)
    /\ UNCHANGED <<slotVars, dbVars, nodes, sid, sem, healthVars, adminVars, remoteVars, envVars>>

\* The end of a successful attempt: inbound_tags are recorded, get_version()
\* asks the node once more, and the status update to connected begins.
GetVersion(t) ==
    /\ At(t, "version")
    /\ \/ /\ Node(t) \in up
          /\ ReadStatus(t, "connected")
          /\ UNCHANGED sem
       \/ Node(t) \notin up /\ AttemptFails(t)
    /\ UNCHANGED <<slotVars, dbVars, nodes, sid, healthVars, adminVars, remoteVars, envVars>>

\* (variant: the status is written without the version)
StatusWriteKeepsVersion(t) ==
    LET goal == job[t].goal IN
    /\ At(t, "stWrite")
    /\ row[Node(t)] # "absent"
    /\ row' = [row EXCEPT ![Node(t)] = goal]
    /\ aged' = aged \ {Node(t)}
    /\ Finish(t, CASE goal = "connecting" -> "getobj"
                   [] goal = "connected"  -> "release"
                   [] OTHER               -> AfterRefusal(t))
    /\ UNCHANGED <<version, slotVars, nodes, sid, sem, healthVars, adminVars, remoteVars, envVars>>

\* crud.update_node_status; the commit fails when the row is gone or the
\* database refuses it.
StatusWrite(t) ==
    LET n == Node(t)  goal == job[t].goal IN
    /\ At(t, "stWrite")
    /\ \/ /\ row[n] # "absent" /\ NoFault
          /\ row' = [row EXCEPT ![n] = goal]
          /\ version' = IF goal = "connected" THEN version \cup {n} ELSE version \ {n}
          /\ aged' = aged \ {n}
          /\ Finish(t, CASE goal = "connecting" -> "getobj"
                         [] goal = "connected"  -> "release"
                         [] OTHER               -> AfterRefusal(t))
          /\ UNCHANGED sem
       \/ /\ IF row[n] = "absent" THEN NoFault ELSE Fault
          /\ UNCHANGED dbVars
          /\ CASE goal = "connected"  -> AttemptFails(t)
               [] goal = "connecting" -> /\ job' = [job EXCEPT ![t].pc = "stRead", ![t].goal = "error"]
                                         /\ UNCHANGED sem
               [] OTHER -> Finish(t, AfterRefusal(t)) /\ UNCHANGED sem
    /\ UNCHANGED <<slotVars, nodes, sid, healthVars, adminVars, remoteVars, up>>

-----------------------------------------------------------------------------
\* remove_node, called by a job or by the admin request: invalidate the slot,
\* disconnect the registered object, delete whatever is registered by then.

\* disconnect(): /disconnect ends the session on the node and stops Xray.
Disconnect(o, n) ==
    /\ sid' = sid \ {o}
    /\ \/ /\ o \in sid
          /\ holder' = [holder EXCEPT ![n] = None]
          /\ core' = core \ {n}
       \/ /\ o \notin sid \/ n \notin up
          /\ UNCHANGED remoteVars

DisconnectRegistered(n) ==
    IF nodes[n] = None THEN UNCHANGED <<sid, remoteVars>> ELSE Disconnect(nodes[n], n)

JobRemoveNode(t) ==
    LET n == Node(t) IN
    /\ \/ /\ At(t, "rmInval")
          /\ Revoke(n)
          /\ Goto(t, IF nodes[n] = None THEN AfterRefusal(t) ELSE "rmDisc")
          /\ UNCHANGED <<nodes, sid, remoteVars>>
       \/ /\ At(t, "rmDisc")
          /\ DisconnectRegistered(n)
          /\ Goto(t, "rmDel")
          /\ UNCHANGED <<slotVars, nodes>>
       \/ /\ At(t, "rmDel")
          /\ nodes' = [nodes EXCEPT ![n] = None]
          /\ Goto(t, AfterRefusal(t))
          /\ Collect
          /\ UNCHANGED <<slotVars, core>>
    /\ UNCHANGED <<dbVars, sem, healthVars, adminVars, envVars>>

\* (variant: an early return skips the finally block)
EndJobWithoutRelease(t) ==
    /\ At(t, "release")
    /\ job' = [job EXCEPT ![t] = Idle]
    /\ work' = [work EXCEPT ![t] = None]
    /\ nodes' = nodes
    /\ Collect
    /\ UNCHANGED <<owner, expired, dbVars, sem, healthVars, adminVars, core, envVars>>

\* The end of a job; a connect returns its permit and its slot.
EndJob(t) ==
    /\ At(t, "release")
    /\ IF work[t] = None THEN UNCHANGED slotVars ELSE Drop(t)
    /\ sem' = sem \ {t}
    /\ job' = [job EXCEPT ![t] = Idle]
    /\ nodes' = nodes
    /\ Collect
    /\ UNCHANGED <<dbVars, healthVars, adminVars, core, envVars>>

-----------------------------------------------------------------------------
\* restart_node takes no slot and does not look at the status.
RestartStart(t) ==
    /\ At(t, "start") /\ job[t].kind = "restart"
    /\ Goto(t, IF row[Node(t)] = "absent" THEN "release" ELSE "getobj")
    /\ UNCHANGED <<slotVars, dbVars, nodes, sid, sem, healthVars, adminVars, remoteVars, envVars>>

\* node.connected: GET /ping; only an explicit rejection drops the session.
PingDropsSession(o, n) == o \in sid /\ n \in up /\ ~Valid(o, n)

\* A node that does not answer is softly connected instead.
RestartPing(t) ==
    LET o == Obj(t)  n == Node(t) IN
    /\ At(t, "rping")
    /\ IF n \in up /\ Valid(o, n)
         THEN Goto(t, "ensure")
         ELSE job' = [job EXCEPT ![t] = ConnectJob(n, FALSE)]
    /\ sid' = IF PingDropsSession(o, n) THEN sid \ {o} ELSE sid
    /\ UNCHANGED <<slotVars, dbVars, nodes, sem, healthVars, adminVars, remoteVars, envVars>>

\* After a failed restart the node is marked error and disconnected.
RestartDisconnect(t) ==
    /\ At(t, "rdisc")
    /\ Disconnect(Obj(t), Node(t))
    /\ Goto(t, "release")
    /\ UNCHANGED <<slotVars, dbVars, nodes, sem, healthVars, adminVars, envVars>>

JobStep(t) ==
    \/ ConnectStart(t) \/ ReadNode(t) \/ GetObject(t) \/ AcquirePermit(t)
    \/ HardAttempt(t) \/ TryRestore(t) \/ EnsureControlSession(t) \/ NodeOpensSession(t)
    \/ PushConfig(t) \/ GetVersion(t) \/ StatusRead(t) \/ StatusWrite(t)
    \/ JobRemoveNode(t) \/ EndJob(t)
    \/ RestartStart(t) \/ RestartPing(t) \/ RestartDisconnect(t)

-----------------------------------------------------------------------------
\* core_health_check: one instance at a time; it reads the table once and
\* then visits the enabled nodes one after the other.

InProgress(n) == owner[n] # None                       \* is_connect_in_progress
IsStale(n) == owner[n] # None /\ n \in expired         \* is_connect_stale

\* _should_force_reconnect; whether the interval between two HARD attempts
\* on an errored node has passed is left open.
ShouldForce(n) ==
    CASE seen[n] = "connecting" -> {IsStale(n) \/ (row[n] = "connecting" /\ n \in aged)}
      [] seen[n] = "error"      -> BOOLEAN

\* The loop goes on with the next node; k connects are scheduled by now.
Visited(n, k) ==
    /\ todo' = todo \ {n}
    /\ seen' = [seen EXCEPT ![n] = "absent"]
    /\ scheduled' = IF todo' = {} THEN 0 ELSE k

Submit(j) == \E t \in Threads : job[t] = Idle /\ job' = [job EXCEPT ![t] = j]

HealthTick ==
    /\ todo = {}
    /\ todo' = BootNodes(row)
    /\ seen' = [n \in Nodes |-> IF n \in todo' THEN row[n] ELSE "absent"]
    /\ scheduled' = 0
    /\ UNCHANGED <<slotVars, dbVars, nodes, sid, job, sem, adminVars, remoteVars, envVars>>

\* A node without a registered object gets one before anything else.
HealthAddNode(n) ==
    /\ n \in todo
    /\ nodes[n] = None
    /\ \E o \in Objects : NewObject(n, o)
    /\ UNCHANGED <<slotVars, dbVars, job, sem, healthVars, adminVars, remoteVars, envVars>>

HealthConnected(n) ==
    LET o == nodes[n]  pings == n \in up /\ Valid(o, n) IN
    /\ n \in todo /\ o # None /\ seen[n] = "connected"
    /\ \/ /\ ~pings /\ scheduled < MaxReconnects /\ ~InProgress(n) /\ NoFault
          /\ Submit(ConnectJob(n, FALSE))
          /\ Visited(n, scheduled + 1)
       \/ /\ ~pings /\ (scheduled >= MaxReconnects \/ InProgress(n)) /\ NoFault
          /\ UNCHANGED job
          /\ Visited(n, scheduled)
       \/ /\ pings                                     \* core or its gRPC API unhealthy
          /\ IF n \in core THEN Fault ELSE NoFault
          /\ Submit(RestartJob(n))
          /\ Visited(n, scheduled)
       \/ /\ pings /\ n \in core /\ NoFault
          /\ UNCHANGED job
          /\ Visited(n, scheduled)
    /\ sid' = IF PingDropsSession(o, n) THEN sid \ {o} ELSE sid
    /\ UNCHANGED <<slotVars, dbVars, nodes, sem, adminVars, remoteVars, up>>

\* A live connect is never doubled; a stale one is when HARD is called for.
HealthReconnect(n) ==
    /\ n \in todo /\ nodes[n] # None /\ seen[n] \in {"error", "connecting"}
    /\ \/ /\ scheduled >= MaxReconnects
          /\ todo' = {}
          /\ seen' = Unseen
          /\ scheduled' = 0
          /\ UNCHANGED job
       \/ /\ scheduled < MaxReconnects
          /\ \E force \in ShouldForce(n) :
                IF InProgress(n) /\ ~(force /\ IsStale(n))
                  THEN Visited(n, scheduled) /\ UNCHANGED job
                  ELSE Visited(n, scheduled + 1) /\ Submit(ConnectJob(n, force))
    /\ UNCHANGED <<slotVars, dbVars, nodes, sid, sem, adminVars, remoteVars, envVars>>

HealthStep == HealthTick \/ \E n \in Nodes : HealthAddNode(n) \/ HealthConnected(n) \/ HealthReconnect(n)

-----------------------------------------------------------------------------
\* Endpoints of app/routers/node.py; one admin request at a time.

Request(n, pc, then) ==
    /\ admin = NoRequest
    /\ adminOps < MaxAdmin /\ Room(3)
    /\ adminOps' = adminOps + 1
    /\ admin' = [pc |-> pc, n |-> n, then |-> then]
    /\ UNCHANGED <<slotVars, nodes, sid, job, sem, healthVars, boots, remoteVars, envVars>>

\* PUT /node with status disabled
AdminDisable(n) ==
    /\ row[n] # "absent"
    /\ Request(n, "rmInval", "done")
    /\ row' = [row EXCEPT ![n] = "disabled"]
    /\ version' = version \ {n}
    /\ UNCHANGED aged

\* PUT /node with anything else: the status becomes connecting, its age and
\* the version stay; a HARD connect follows.
AdminEdit(n) ==
    /\ row[n] # "absent"
    /\ Request(n, "rmInval", "hard")
    /\ row' = [row EXCEPT ![n] = "connecting"]
    /\ UNCHANGED <<version, aged>>

AdminDelete(n) ==
    /\ row[n] # "absent"
    /\ Request(n, "rmInval", "done")
    /\ row' = [row EXCEPT ![n] = "absent"]
    /\ version' = version \ {n}
    /\ aged' = aged \ {n}

AdminCreate(n) ==
    /\ row[n] = "absent"
    /\ Request(n, "submit", "soft")
    /\ row' = [row EXCEPT ![n] = "connecting"]
    /\ version' = version \ {n}
    /\ aged' = aged \ {n}

\* POST /node/{id}/reconnect
AdminReconnect(n) ==
    /\ row[n] # "absent"
    /\ Request(n, "revoke", "hard")
    /\ UNCHANGED dbVars

\* The rest of the request: remove_node or invalidate_connect_slot, then the
\* background task.
AdminContinue ==
    LET n == admin.n
        next == IF admin.then = "done" THEN NoRequest ELSE [admin EXCEPT !.pc = "submit"]
    IN
    /\ \/ /\ admin.pc = "rmInval"
          /\ Revoke(n)
          /\ admin' = IF nodes[n] = None THEN next ELSE [admin EXCEPT !.pc = "rmDisc"]
          /\ UNCHANGED <<nodes, sid, job, remoteVars>>
       \/ /\ admin.pc = "rmDisc"
          /\ DisconnectRegistered(n)
          /\ admin' = [admin EXCEPT !.pc = "rmDel"]
          /\ UNCHANGED <<slotVars, nodes, job>>
       \/ /\ admin.pc = "rmDel"
          /\ nodes' = [nodes EXCEPT ![n] = None]
          /\ admin' = next
          /\ job' = job
          /\ Collect
          /\ UNCHANGED <<slotVars, core>>
       \/ /\ admin.pc = "revoke"
          /\ Revoke(n)
          /\ admin' = next
          /\ UNCHANGED <<nodes, sid, job, remoteVars>>
       \/ /\ admin.pc = "submit"
          /\ Submit(ConnectJob(n, admin.then = "hard"))
          /\ admin' = NoRequest
          /\ UNCHANGED <<slotVars, nodes, sid, remoteVars>>
    /\ UNCHANGED <<dbVars, sem, healthVars, adminOps, boots, envVars>>

\* POST /core/restart: every node that answers the ping is restarted.
AdminRestartCore(n) ==
    LET o == nodes[n] IN
    /\ adminOps < MaxAdmin /\ Room(3)
    /\ n \in up /\ o # None /\ Valid(o, n)
    /\ Submit(RestartJob(n))
    /\ adminOps' = adminOps + 1
    /\ UNCHANGED <<slotVars, dbVars, nodes, sid, sem, healthVars, admin, boots, remoteVars, envVars>>

AdminStart(n) ==
    \/ AdminDisable(n) \/ AdminEdit(n) \/ AdminDelete(n) \/ AdminCreate(n)
    \/ AdminReconnect(n) \/ AdminRestartCore(n)

-----------------------------------------------------------------------------
\* Time, the network, the remote node and the panel process.

\* A slot can only get stale while something delays its owner.
SlotAges(n) ==
    /\ Fault
    /\ Expire(n)
    /\ UNCHANGED <<dbVars, nodes, sid, job, sem, healthVars, adminVars, remoteVars, up>>

StatusAges(n) ==
    /\ n \notin aged /\ row[n] = "connecting"
    /\ aged' = aged \cup {n}
    /\ UNCHANGED <<slotVars, row, version, nodes, sid, job, sem, healthVars, adminVars, remoteVars, envVars>>

NetworkFails(n) ==
    /\ Fault
    /\ n \in up
    /\ up' = up \ {n}
    /\ UNCHANGED <<slotVars, dbVars, nodes, sid, job, sem, healthVars, adminVars, remoteVars>>

NetworkHeals(n) ==
    /\ n \notin up
    /\ up' = up \cup {n}
    /\ UNCHANGED <<slotVars, dbVars, nodes, sid, job, sem, healthVars, adminVars, remoteVars, faults>>

\* Xray dies on the node, or the node service restarts and forgets its session.
CoreDies(n) ==
    /\ Fault
    /\ n \in core
    /\ core' = core \ {n}
    /\ \/ UNCHANGED holder
       \/ holder' = [holder EXCEPT ![n] = None]
    /\ UNCHANGED <<slotVars, dbVars, nodes, sid, job, sem, healthVars, adminVars, up>>

\* The panel stops (app_shutdown disconnects the registered nodes) or crashes
\* (they keep running), and starts again.
PanelRestarts ==
    /\ boots < MaxBoots /\ Room(2)
    /\ boots' = boots + 1
    /\ row' = BootRow(row)
    /\ job' \in BootJobs(row)
    /\ owner' = [n \in Nodes |-> None] /\ expired' = {} /\ work' = [t \in Threads |-> None]
    /\ nodes' = [n \in Nodes |-> None] /\ sid' = {} /\ sem' = {} /\ version' = {}
    /\ todo' = {} /\ seen' = Unseen /\ scheduled' = 0
    /\ admin' = NoRequest
    /\ aged' = aged \ BootNodes(row)
    /\ holder' = [n \in Nodes |-> None]
    /\ core' \in {core, core \ {n \in Nodes : nodes[n] \in sid}}
    /\ UNCHANGED <<adminOps, envVars>>

-----------------------------------------------------------------------------
Next ==
    \/ \E t \in Threads : JobStep(t)
    \/ HealthStep
    \/ \E n \in Nodes : AdminStart(n)
    \/ AdminContinue
    \/ \E n \in Nodes : SlotAges(n) \/ StatusAges(n)
    \/ \E n \in Nodes : NetworkFails(n) \/ NetworkHeals(n) \/ CoreDies(n)
    \/ PanelRestarts

Spec == Init /\ [][Next]_vars

\* Pool threads and the scheduler keep running, requests time out, and a
\* request that was started is finished.
Fairness ==
    /\ \A t \in Threads : WF_vars(JobStep(t))
    /\ WF_vars(HealthStep)
    /\ WF_vars(AdminContinue)
    /\ \A n \in Nodes : WF_vars(NetworkHeals(n))

FairSpec == Spec /\ Fairness

-----------------------------------------------------------------------------
\* Nobody is working on node n.
AtRest(n) ==
    /\ admin.n # n
    /\ \A t \in Threads : job[t].n # n
    /\ n \notin todo

\* A node shown as connected has reported its Xray version: a soft connect
\* that was deferred never leaves a "connected" behind that the health check
\* would believe.
ConnectedHasVersion == \A n \in Nodes : row[n] = "connected" => n \in version

\* Neither the slot nor a permit is leaked on any path out of a connect: a
\* slot's owner is a connect of that node still under way, and only a job in
\* the middle of an attempt has a permit.
NothingLeaked ==
    /\ \A n \in Nodes : owner[n] # None => work[owner[n]] = n /\ job[owner[n]].n = n
    /\ \A t \in Threads : work[t] # None => job[t].n = work[t] /\ job[t].kind = "connect"
    /\ Cardinality(sem) <= Permits
    /\ \A t \in sem : job[t].pc \notin {"idle", "start", "read", "getobj", "sem"}

\* No step of a soft connect costs the panel a session the node still
\* accepts, whatever request fails in it: only connect() itself, reached once
\* the session is gone, opens a new one.  (A disabled node is disconnected.)
SoftKeepsSession ==
    [][\A t \in Threads, n \in Nodes, o \in Objects :
        /\ JobStep(t)
        /\ job[t].n = n /\ job[t].obj = o
        /\ job[t].kind = "connect" /\ ~job[t].force /\ job[t].pc \notin {"conn", "rmDisc"}
        /\ nodes[n] = o /\ Valid(o, n)
        => Valid(o, n)' \/ nodes'[n] = None]_vars

\* The panel can work with node n: a session the node accepts, Xray running.
Serving(n) == nodes[n] # None /\ Valid(nodes[n], n) /\ n \in core
Good(n) == Serving(n) /\ row[n] = "connected"

\* No enabled node is ever given up: outages end, and from any tangle of
\* connects, restarts and admin requests it comes back to connected, with a
\* session the node accepts and Xray running.  (Not for good: restart_node
\* takes no slot, so that a restart and a HARD connect of the same node may
\* go on stopping each other's Xray for as long as their timing is unlucky.)
NeverGivenUp == \A n \in Nodes : []<>(Enabled(n) => Good(n))

\* Deleting a node removes it from the panel: no session to it is left in
\* xray.nodes once everybody is done with it.
DeletedIsForgotten == \A n \in Nodes : row[n] = "absent" /\ AtRest(n) => nodes[n] \notin sid

\* Disabling a node that was enabled stops Xray on it.
DisabledIsStopped == \A n \in Nodes : row[n] = "disabled" /\ AtRest(n) => n \notin core

\* A status update never overwrites disabled; only an admin request does.
DisabledStaysDisabled ==
    [][\A n \in Nodes : row[n] = "disabled" /\ row'[n] # "disabled" => admin' # admin]_vars

\* The panel when nothing but the network fails and no timeout passes.
BlipSpec ==
    /\ Init
    /\ [][Next /\ (faults' # faults => up' # up) /\ aged' \subseteq aged]_vars
    /\ Fairness

\* A transient network error never makes the panel open a new session, which
\* would stop Xray on a node that worked.
BlipKeepsCore == \A n \in Nodes : [](Good(n) => [](n \in core))
=============================================================================
