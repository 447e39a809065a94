---------------------------- MODULE CascadeNodes ----------------------------
(***************************************************************************)
(* Cascades between nodes: an entry node forwards the traffic of its       *)
(* inbounds to exit nodes over the REALITY inbounds of the catalog.  Both  *)
(* halves of a cascade are made from the same rows, but each node gets its *)
(* half only when its configuration is pushed, and that is at other        *)
(* moments: routers/node.py, routers/core.py, db/crud.py and               *)
(* xray/operations.py (_cascade_kwargs).                                   *)
(*                                                                         *)
(* The inbound at the entry and the balancing between exits are in         *)
(* XrayConfig; the slot and the sessions of a connect in NodeConnect.      *)
(***************************************************************************)
EXTENDS Integers, FiniteSets

CONSTANTS
    NodeIds,    \* ids of nodes
    FirstExit,  \* the node that was created as an exit, if it is one of them
    Tags,       \* tags of the catalog's REALITY inbounds; it has others
    MaxRoutes,  \* bound on the routes of a node
    MaxEdits,   \* bound on edits of nodes and of the catalog
    MaxPushes,  \* bound on reconnects, restarts and failures
    MaxTasks    \* bound on threads under way at a time

\* Without a REALITY inbound in the catalog there is no route and no cascade.
ASSUME CascadeAssumption == Tags # {}

VARIABLES
    nodeRows,  \* nodes table: <<>>, or the row of a node
    catalog,   \* xray.config: the REALITY key of each inbound, 0 for none
    uuids,     \* how many service uuids were made
    nodeRuns,  \* what the Xray of a node runs: <<>> when stopped
    up,        \* nodes the panel has a connection to
    tasks,     \* connect_node and restart_node threads under way
    edits, pushes,
    healed,    \* a restart of everything began, and nothing came between
    reset      \* nodes last pushed by an admin's reconnect, after their last change

cascadeVars ==
    <<nodeRows, catalog, uuids, nodeRuns, up, tasks, edits, pushes, healed, reset>>

Roles == {"direct", "exit", "entry"}
Route == [exit : NodeIds, inb : Tags]
Other == "an inbound that is not for cascades"
Exists(n) == nodeRows[n] # <<>>

\* Room for the threads that an operation starts.
Room(more) == Cardinality(tasks \cup more) <= MaxTasks

\* create_node: the row of a node that was created without inbounds and routes.
FirstRow(n) ==
    [on |-> TRUE, role |-> IF n = FirstExit THEN "exit" ELSE "direct",
     uuid |-> IF n = FirstExit THEN 1 ELSE 0, allowed |-> {}, routes |-> {}]

CascadeInit ==
    /\ nodeRows = [n \in NodeIds |-> FirstRow(n)]
    /\ catalog = [t \in Tags |-> 1]
    /\ uuids = IF FirstExit \in NodeIds THEN 1 ELSE 0
    /\ nodeRuns = [n \in NodeIds |-> [keys |-> catalog, clients |-> {}, outs |-> {}]]
    /\ up = NodeIds
    /\ tasks = {}
    /\ edits = 0 /\ pushes = 0
    /\ healed = FALSE
    /\ reset = {}

----------------------------------------------------------------------------
\* The routes of an entry: without an exit's uuid or a REALITY key of the
\* inbound, a route is left out.
EntryRoutes(n) ==
    {[exit |-> r.exit, inb |-> r.inb, uuid |-> nodeRows[r.exit].uuid, key |-> catalog[r.inb]] :
        r \in {q \in nodeRows[n].routes :
                  Exists(q.exit) /\ nodeRows[q.exit].uuid # 0 /\ catalog[q.inb] # 0}}

\* An exit looks at its own routes.
ExitClientsOwn(n) == {<<r.inb, nodeRows[n].uuid>> : r \in nodeRows[n].routes}

\* The service clients of an exit: the inbounds that the routes of entries
\* name, of every role they may have now.
ExitClients(n) ==
    LET all == UNION {nodeRows[m].routes : m \in {k \in NodeIds : Exists(k)}}
    IN  {<<r.inb, nodeRows[n].uuid>> : r \in {q \in all : q.exit = n}}

\* _cascade_kwargs, and the inbounds of the node.
_cascade_kwargs(n) ==
    [allowed |-> nodeRows[n].allowed,
     clients |-> IF nodeRows[n].role = "exit" /\ nodeRows[n].uuid # 0
                 THEN ExitClients(n) ELSE {},
     outs |-> IF nodeRows[n].role = "entry" THEN EntryRoutes(n) ELSE {}]

\* node_config_json: no inbounds means all of the catalog.
node_config_json(base, kw) ==
    LET inbs == IF kw.allowed = {} THEN Tags ELSE kw.allowed \cap Tags
    IN  [keys |-> [t \in inbs |-> base[t]],
         clients |-> {c \in kw.clients : c[1] \in inbs},
         outs |-> kw.outs]

\* What a node would run if it were built now.
Current(n) == node_config_json(catalog, _cascade_kwargs(n))

----------------------------------------------------------------------------
Task(n, base, admin) == [node |-> n, base |-> base, kw |-> <<>>, admin |-> admin]

\* The role decides about the uuid every time it is set.
_apply_node_roleAnew(row, role) ==
    [row EXCEPT !.role = role, !.uuid = IF role = "exit" THEN uuids + 1 ELSE row.uuid]

\* _apply_node_role: an exit gets a uuid once, and keeps it in other roles.
_apply_node_role(row, role) ==
    [row EXCEPT !.role = role,
                !.uuid = IF role = "exit" /\ row.uuid = 0 THEN uuids + 1 ELSE row.uuid]

\* update_node: one field of the row, the routes as a whole
\* (_sync_cascade_routes).  Any status but disabled means connecting.
Modified(n) ==
    IF ~Exists(n) THEN {}
    ELSE LET on == [nodeRows[n] EXCEPT !.on = TRUE]
         IN  {_apply_node_role(on, role) : role \in Roles}
             \cup {[on EXCEPT !.allowed = a] : a \in {{}, Tags, {Other}}}
             \cup {[on EXCEPT !.routes = s] :
                       s \in {q \in SUBSET Route : /\ Cardinality(q) <= MaxRoutes
                                                   /\ \A r \in q : r.exit # n /\ Exists(r.exit)}}
             \cup {[on EXCEPT !.on = FALSE]}

\* modify_node: the node's Xray is stopped, and connected again from the new
\* row.
modify_node(n, new) ==
    /\ edits < MaxEdits /\ new # nodeRows[n]
    /\ Room({Task(n, <<>>, FALSE)})
    /\ nodeRows' = [nodeRows EXCEPT ![n] = new]
    /\ uuids' = IF new.uuid # nodeRows[n].uuid THEN uuids + 1 ELSE uuids
    /\ nodeRuns' = [nodeRuns EXCEPT ![n] = <<>>]
    /\ up' = up \ {n}
    /\ tasks' = {[t EXCEPT !.admin = @ /\ t.node # n] : t \in tasks}
                \cup (IF new.on THEN {Task(n, <<>>, FALSE)} ELSE {})
    /\ edits' = edits + 1
    /\ healed' = FALSE
    /\ reset' = reset \ {n}
    /\ UNCHANGED <<catalog, pushes>>

\* remove_node: the routes of the node and to it go with it.
remove_node(n) ==
    /\ edits < MaxEdits /\ Exists(n)
    /\ nodeRows' = [m \in NodeIds |->
                       IF m = n THEN <<>> ELSE IF ~Exists(m) THEN nodeRows[m]
                       ELSE [nodeRows[m] EXCEPT !.routes = {r \in @ : r.exit # n}]]
    /\ nodeRuns' = [nodeRuns EXCEPT ![n] = <<>>]
    /\ up' = up \ {n}
    /\ edits' = edits + 1
    /\ healed' = FALSE
    /\ reset' = reset \ {n}
    /\ UNCHANGED <<catalog, uuids, tasks, pushes>>

\* A restart of every connected node, with the base of this moment.
Wave(base) == {Task(n, base, FALSE) : n \in up}

\* modify_core_config: the key of an inbound is changed.
modify_core_config(t, key) ==
    /\ edits < MaxEdits /\ key # catalog[t]
    /\ Room(Wave(<<>>))
    /\ catalog' = [catalog EXCEPT ![t] = key]
    /\ tasks' = tasks \cup Wave(catalog')
    /\ edits' = edits + 1
    /\ healed' = (tasks = {})
    /\ UNCHANGED <<nodeRows, uuids, nodeRuns, up, pushes, reset>>

\* restart_core.
restart_core ==
    /\ pushes < MaxPushes
    /\ Room(Wave(catalog))
    /\ tasks' = tasks \cup Wave(catalog)
    /\ pushes' = pushes + 1
    /\ healed' = (tasks = {})
    /\ UNCHANGED <<nodeRows, catalog, uuids, nodeRuns, up, edits, reset>>

\* reconnect_node.
reconnect_node(n) ==
    /\ pushes < MaxPushes /\ Exists(n)
    /\ Room({Task(n, <<>>, TRUE)})
    /\ tasks' = tasks \cup {Task(n, <<>>, TRUE)}
    /\ pushes' = pushes + 1
    /\ UNCHANGED <<nodeRows, catalog, uuids, nodeRuns, up, edits, healed, reset>>

\* The connection to a node is lost; its Xray goes on.
Blip(n) ==
    /\ pushes < MaxPushes /\ n \in up
    /\ up' = up \ {n}
    /\ pushes' = pushes + 1
    /\ healed' = FALSE
    /\ UNCHANGED <<nodeRows, catalog, uuids, nodeRuns, tasks, edits, reset>>

\* core_health_check: a node that is not connected gets a soft connect.  It
\* takes the node back as it runs (try_restore)...
Restores(n) ==
    /\ Exists(n) /\ nodeRows[n].on /\ n \notin up /\ nodeRuns[n] # <<>>
    /\ \A t \in tasks : t.node # n
    /\ up' = up \cup {n}
    /\ healed' = FALSE
    /\ UNCHANGED <<nodeRows, catalog, uuids, nodeRuns, tasks, edits, pushes, reset>>

\* ... or starts it anew, when its core is down or the session is lost.
core_health_check(n) ==
    /\ Exists(n) /\ nodeRows[n].on /\ n \notin up
    /\ \A t \in tasks : t.node # n
    /\ Room({Task(n, <<>>, FALSE)})
    /\ tasks' = tasks \cup {Task(n, <<>>, FALSE)}
    /\ UNCHANGED <<nodeRows, catalog, uuids, nodeRuns, up, edits, pushes, healed, reset>>

\* The wave forgets the cascade of a node it restarts.
ReadRowForgetful(t) ==
    IF t.base = <<>> THEN _cascade_kwargs(t.node)
    ELSE [allowed |-> nodeRows[t.node].allowed, clients |-> {}, outs |-> {}]

\* What connect_node and restart_node read in their session.
ReadRow(t) == _cascade_kwargs(t.node)

\* A thread reads the row; without one, or when a connect finds the node
\* disabled, it stops.  A restart that finds it not connected leaves it to a
\* soft connect.  The cascade's key comes from xray.config here.
Reads(t) ==
    /\ t.kw = <<>>
    /\ tasks' = (tasks \ {t}) \cup
                (IF /\ Exists(t.node)
                    /\ IF t.base = <<>> THEN nodeRows[t.node].on ELSE t.node \in up
                 THEN {[t EXCEPT !.kw = ReadRow(t)]} ELSE {})
    /\ UNCHANGED <<nodeRows, catalog, uuids, nodeRuns, up, edits, pushes, healed, reset>>

\* A connect takes the base from xray.config only after that.
Takes(t) ==
    /\ t.kw # <<>> /\ t.base = <<>>
    /\ tasks' = (tasks \ {t}) \cup {[t EXCEPT !.base = catalog]}
    /\ UNCHANGED <<nodeRows, catalog, uuids, nodeRuns, up, edits, pushes, healed, reset>>

\* After waiting for its turn it builds and pushes.
Pushes(t) ==
    /\ t.kw # <<>> /\ t.base # <<>>
    /\ nodeRuns' = [nodeRuns EXCEPT ![t.node] = node_config_json(t.base, t.kw)]
    /\ up' = up \cup {t.node}
    /\ reset' = IF t.admin THEN reset \cup {t.node} ELSE reset \ {t.node}
    /\ tasks' = tasks \ {t}
    /\ UNCHANGED <<nodeRows, catalog, uuids, edits, pushes, healed>>

\* It cannot reach the node: the panel lets go of it, and the old
\* configuration runs on or its Xray is stopped.
Fails(t, stopped) ==
    /\ pushes < MaxPushes /\ t.kw # <<>> /\ t.base # <<>>
    /\ tasks' = tasks \ {t}
    /\ up' = up \ {t.node}
    /\ nodeRuns' = IF stopped THEN [nodeRuns EXCEPT ![t.node] = <<>>] ELSE nodeRuns
    /\ pushes' = pushes + 1
    /\ healed' = FALSE
    /\ UNCHANGED <<nodeRows, catalog, uuids, edits, reset>>

CascadeNext ==
    \/ \E n \in NodeIds : \/ remove_node(n) \/ reconnect_node(n) \/ core_health_check(n)
                        \/ Blip(n) \/ Restores(n)
                        \/ \E new \in Modified(n) : modify_node(n, new)
    \/ \E t \in Tags, key \in 0 .. 2 : modify_core_config(t, key)
    \/ restart_core
    \/ \E t \in tasks : Reads(t) \/ Takes(t) \/ Pushes(t)
                       \/ \E stopped \in BOOLEAN : Fails(t, stopped)

CascadeSpec == CascadeInit /\ [][CascadeNext]_cascadeVars

----------------------------------------------------------------------------
\* The exit takes what the entry sends: the inbound runs there with the key
\* the entry was told, and knows the uuid.
Accepts(o) ==
    /\ nodeRuns[o.exit] # <<>>
    /\ o.inb \in DOMAIN nodeRuns[o.exit].keys
    /\ nodeRuns[o.exit].keys[o.inb] = o.key
    /\ <<o.inb, o.uuid>> \in nodeRuns[o.exit].clients

Has(x, inb) == nodeRows[x].allowed = {} \/ inb \in nodeRows[x].allowed

\* Once both ends of a route run what their rows say now, the exit accepts the
\* entry's traffic, if it still is an exit and still has the inbound: the two
\* halves, built apart from one another, fit.
CascadeAccepted ==
    \A n \in NodeIds : Exists(n) /\ nodeRuns[n] # <<>> /\ nodeRuns[n] = Current(n) =>
        \A o \in nodeRuns[n].outs :
           (/\ nodeRuns[o.exit] = Current(o.exit) /\ nodeRows[o.exit].role = "exit"
            /\ Has(o.exit, o.inb)) => Accepts(o)

\* The uuid that an entry runs with is the exit's for as long as the exit is
\* there, through any change of its role: an entry that nobody reconnects is
\* never locked out by a new uuid.
UuidStays ==
    \A n \in NodeIds : nodeRuns[n] # <<>> =>
        \A o \in nodeRuns[n].outs : Exists(o.exit) => o.uuid = nodeRows[o.exit].uuid

\* A restart of everything heals what single edits left stale: when its
\* threads are done and nothing was edited or failed meanwhile, every node
\* the panel is connected to runs what its row says.
RestartHeals ==
    (healed /\ tasks = {}) =>
        \A n \in up : Exists(n) => nodeRuns[n] = Current(n)

\* The halves of a cascade fit, its uuid outlives every change of the exit's
\* role, and a restart of everything leaves nothing stale: whatever was edited,
\* pushed, lost or restored in between.
CascadeSound == CascadeAccepted /\ UuidStays /\ RestartHeals

\* The guide of cascades: make the exit, reconnect it ("the cascade client is
\* added to the inbound"), then make the entry with its route, reconnect it,
\* and the traffic comes out at the exit.  The exit was pushed before there
\* was a route, so it has no client to accept.
ReconnectSuffices ==
    \A n \in reset :
      Exists(n) /\ nodeRows[n].role = "entry" /\ tasks = {} /\ nodeRuns[n] # <<>> =>
        \A r \in nodeRows[n].routes :
           (/\ r.exit \in reset \ {n} /\ nodeRows[r.exit].role = "exit"
            /\ nodeRuns[r.exit] # <<>>
            /\ Has(r.exit, r.inb) /\ catalog[r.inb] = 1) =>
               \E o \in nodeRuns[n].outs : o.exit = r.exit /\ o.inb = r.inb /\ Accepts(o)

\* A catalog that was saved runs on every connected node in the end.  The wave
\* of modify_core_config passes over a node that is just being connected, whose
\* thread may already have taken the old one, and over a node that is lost for
\* a moment and then taken back as it runs.
CatalogReaches ==
    tasks = {} =>
        \A n \in up : \A t \in DOMAIN nodeRuns[n].keys : nodeRuns[n].keys[t] = catalog[t]

\* An exit that an entry sends to is still an exit, and still has the inbound.
ExitsStayExits ==
    (tasks = {} /\ healed) =>
        \A n \in NodeIds : nodeRuns[n] # <<>> => \A o \in nodeRuns[n].outs : Accepts(o)
=============================================================================
