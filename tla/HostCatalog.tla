---------------------------- MODULE HostCatalog ----------------------------
(***************************************************************************)
(* The table of hosts: PUT /hosts (routers/system.py) with                 *)
(* update_hosts_batch and update_hosts (db/crud.py), the hosts added with  *)
(* a node, and the rows that vanish from under a host: nodes and bots.     *)
(*                                                                         *)
(* PUT /hosts replaces the hosts of the inbounds it lists, in one          *)
(* transaction: a host it carries keeps its row, and may move to another   *)
(* inbound; a host of a listed inbound it does not carry is deleted; an    *)
(* error rolls everything back.  Other tables point at hosts.id, and       *)
(* hosts point at each other (host_injection, by id), at their entry nodes *)
(* and at their bots, with the day a bot began to rent the host.           *)
(***************************************************************************)
EXTENDS Integers, Sequences, FiniteSets, SequencesExt, FiniteSetsExt

CONSTANTS
    TagOrder,    \* the inbound tags, in the order a payload lists them
    Nodes, Bots, \* ids of nodes and bots
    Payloads,    \* the bodies of PUT /hosts: [tags, list], the list in TagOrder
    MaxId,       \* bound on hosts.id
    MaxOps,      \* bound on the operations
    ReuseIds     \* the database gives a freed highest id again (SQLite)

VARIABLES
    rows,     \* hosts: id -> [tag, order, bots, refs, source, entry]
    nodes,    \* rows of nodes: id -> disabled?
    bots,     \* rows of bots
    seq,      \* the highest id given so far
    day,      \* the clock
    ops,
    put       \* history: the payload this step accepted, or NoPut

vars == <<rows, nodes, bots, seq, day, ops, put>>

Keep == {}                   \* a field the client did not send
Sent(v) == {v}               \* one it did
NoPut == [tags |-> {}, list |-> <<>>]

\* A ProxyHostModify for inbound t; id 0 and order -1 stand for None.
Entry(t, id) ==
    [tag |-> t, id |-> id, order |-> -1, bots |-> {}, rented |-> {},
     refs |-> Keep, source |-> Keep, entry |-> Keep]

----------------------------------------------------------------------------
\* _max_host_order: over the inbounds other than t.
MaxOrder(hs, t) == Max({-1} \cup {hs[h].order : h \in {g \in DOMAIN hs : hs[g].tag # t}})

\* _resolve_host_orders: None is the next one after all seen so far.
_resolve_host_orders(hs, t, list) ==
    FoldLeft(LAMBDA acc, e :
                LET o == IF e.order = -1 THEN acc.next + 1 ELSE e.order
                IN  [next |-> Max({acc.next, o}), out |-> Append(acc.out, [e EXCEPT !.order = o])],
             [next |-> MaxOrder(hs, t), out |-> <<>>], list).out

\* _prepare_host_balancing and _prepare_host_injection: a field not sent
\* keeps the value of the row.
Field(hs, e, f, default) ==
    IF e[f] # Keep THEN CHOOSE v \in e[f] : TRUE
    ELSE IF e.id # 0 THEN hs[e.id][f] ELSE default

OldEntries(hs, e) ==
    IF e.id # 0 /\ hs[e.id].source = "selected" THEN hs[e.id].entry ELSE {}

EntryNodesOkUnchecked(hs, e) ==
    LET entry == Field(hs, e, "entry", {})
    IN  /\ entry \subseteq DOMAIN nodes
        /\ Field(hs, e, "source", "host") = "selected"
              => \A n \in entry : nodes[n] => n \in OldEntries(hs, e)

\* Selected entry nodes exist, are not disabled when they are new, and may be
\* none only where none was left already.
EntryNodesOk(hs, e) ==
    LET entry == Field(hs, e, "entry", {})
    IN  /\ entry \subseteq DOMAIN nodes
        /\ Field(hs, e, "source", "host") = "selected"
              => /\ entry = {} => (e.id # 0 /\ hs[e.id].source = "selected" /\ hs[e.id].entry = {})
                 /\ \A n \in entry : nodes[n] => n \in OldEntries(hs, e)

\* References that the edit adds are to hosts there will be.
RefsOk(hs, e, sources) ==
    Field(hs, e, "refs", {}) \ (IF e.id # 0 THEN hs[e.id].refs ELSE {}) \subseteq sources

\* _get_bots_by_usernames and the first lines of _apply_rental_marks.
BotsOk(e) == e.bots \subseteq bots /\ e.rented \subseteq e.bots

\* Every save marks the bots anew.
MarksAnew(hs, e) ==
    [b \in e.bots |-> IF b \in e.rented THEN day ELSE 0]

\* _apply_rental_marks: a mark that is there keeps its day; 0 for no mark.
_apply_rental_marks(hs, e) ==
    [b \in e.bots |->
        IF b \notin e.rented THEN 0
        ELSE IF e.id # 0 /\ b \in DOMAIN hs[e.id].bots /\ hs[e.id].bots[b] # 0
             THEN hs[e.id].bots[b] ELSE day]

\* The row an entry becomes.
Row(hs, e) ==
    [tag |-> e.tag, order |-> e.order, bots |-> _apply_rental_marks(hs, e),
     refs |-> Field(hs, e, "refs", {}), source |-> Field(hs, e, "source", "host"),
     entry |-> Field(hs, e, "entry", {})]

NextId(st) == IF ReuseIds THEN Max({0} \cup DOMAIN st.rows) + 1 ELSE st.seq + 1

\* Every save makes every host anew.
WriteAnew(st, e) ==
    LET id == NextId(st)
    IN  [st EXCEPT !.rows = [h \in (DOMAIN st.rows \cup {id}) \ {e.id} |->
                                IF h = id THEN Row(st.rows, e) ELSE st.rows[h]],
                   !.seq = Max({@, id})]

\* An entry is written into its row, or into a new one.
Write(st, e) ==
    LET id == IF e.id # 0 THEN e.id ELSE NextId(st)
    IN  [st EXCEPT !.rows = [h \in DOMAIN st.rows \cup {id} |->
                                IF h = id THEN Row(st.rows, e) ELSE st.rows[h]],
                   !.seq = Max({@, id})]

\* update_hosts: the hosts of one inbound become those of the list.
update_hosts(st, t, list, sources) ==
    LET here == {h \in DOMAIN st.rows : st.rows[h].tag = t}
        incoming == {list[i].id : i \in DOMAIN list} \ {0}
        ok == /\ incoming \subseteq here
              /\ \A i \in DOMAIN list : /\ EntryNodesOk(st.rows, list[i])
                                        /\ RefsOk(st.rows, list[i], sources)
                                        /\ BotsOk(list[i])
        written == FoldLeft(Write, st, _resolve_host_orders(st.rows, t, list))
    IN  IF st.ok /\ ok
        THEN [written EXCEPT !.rows = Restrict(@, DOMAIN @ \ (here \ incoming))]
        ELSE [st EXCEPT !.ok = FALSE]

\* The hosts that a new reference may name: all there are when the request
\* begins, the ones it is about to delete included.
SourcesBefore(hs, p) == DOMAIN hs

\* The hosts there will be when the whole payload is written.
Sources(hs, p) ==
    {h \in DOMAIN hs : hs[h].tag \notin p.tags \/ \E i \in DOMAIN p.list : p.list[i].id = h}

\* Hosts move to their new inbound before any list is written.
Moved(hs, p) ==
    [h \in DOMAIN hs |->
        IF \E i \in DOMAIN p.list : p.list[i].id = h
        THEN [hs[h] EXCEPT !.tag = p.list[CHOOSE i \in DOMAIN p.list : p.list[i].id = h].tag]
        ELSE hs[h]]

\* update_hosts_batch: [ok, rows, seq]; a host that is carried without an
\* order keeps the one it has.
update_hosts_batch(hs, n, p) ==
    LET carried == SelectSeq([i \in DOMAIN p.list |-> p.list[i].id], LAMBDA x : x # 0)
        fine == Cardinality(Range(carried)) = Len(carried) /\ Range(carried) \subseteq DOMAIN hs
        prepared(t) ==
            LET mine == SelectSeq(p.list, LAMBDA e : e.tag = t)
            IN  [i \in DOMAIN mine |->
                    IF mine[i].order = -1 /\ mine[i].id # 0
                    THEN [mine[i] EXCEPT !.order = hs[mine[i].id].order] ELSE mine[i]]
        one(st, t) == IF t \in p.tags THEN update_hosts(st, t, prepared(t), Sources(hs, p)) ELSE st
    IN  IF fine
        THEN FoldLeft(one, [ok |-> TRUE, rows |-> Moved(hs, p), seq |-> n], TagOrder)
        ELSE [ok |-> FALSE, rows |-> hs, seq |-> n]

----------------------------------------------------------------------------
\* One host for every inbound, the first of them edited: rented since day 1,
\* with a selected entry node and a reference to the last one.
Fresh(h) == [tag |-> TagOrder[h], order |-> h, bots |-> [b \in {} |-> 0], refs |-> {},
             source |-> "host", entry |-> {}]
Edited(h) == [Fresh(h) EXCEPT !.bots = [b \in Bots |-> 1], !.refs = {Len(TagOrder)},
                              !.source = "selected", !.entry = Nodes]
Init ==
    /\ rows = [h \in DOMAIN TagOrder |-> IF h = 1 THEN Edited(1) ELSE Fresh(h)]
    /\ nodes = [n \in Nodes |-> FALSE] /\ bots = Bots
    /\ seq = Len(TagOrder) /\ day = 2 /\ ops = 0 /\ put = NoPut

\* Every operation happens on a day of its own.
Op == ops < MaxOps /\ ops' = ops + 1 /\ day' = day + 1

\* PUT /hosts: a ValueError leaves everything as it was.
modify_hosts ==
    /\ Op
    /\ \E p \in Payloads :
          LET r == update_hosts_batch(rows, seq, p)
          IN  /\ r.ok /\ r.seq <= MaxId
              /\ rows' = r.rows /\ seq' = r.seq /\ put' = p
              /\ UNCHANGED <<nodes, bots>>

\* POST /node with add_as_new_host: one host more for every inbound, behind
\* all the others (add_host).
add_host_if_needed ==
    LET add(st, t) == Write(st, [Entry(t, 0) EXCEPT !.order = MaxOrder(st.rows, "") + 1])
        r == FoldLeft(add, [rows |-> rows, seq |-> seq, ok |-> TRUE], TagOrder)
    IN  /\ Op /\ r.seq <= MaxId
        /\ rows' = r.rows /\ seq' = r.seq /\ put' = NoPut
        /\ UNCHANGED <<nodes, bots>>

\* A node is deleted: its associations go with it (ON DELETE CASCADE).
remove_node ==
    \E n \in DOMAIN nodes :
        /\ Op
        /\ nodes' = Restrict(nodes, DOMAIN nodes \ {n})
        /\ rows' = [h \in DOMAIN rows |-> [rows[h] EXCEPT !.entry = @ \ {n}]]
        /\ put' = NoPut
        /\ UNCHANGED <<bots, seq>>

\* A node is disabled or enabled; hosts that selected it keep it.
disable_node ==
    \E n \in DOMAIN nodes :
        /\ Op
        /\ nodes' = [nodes EXCEPT ![n] = ~@]
        /\ put' = NoPut
        /\ UNCHANGED <<rows, bots, seq>>

delete_bot ==
    \E b \in bots :
        /\ Op
        /\ bots' = bots \ {b}
        /\ rows' = [h \in DOMAIN rows |->
                       [rows[h] EXCEPT !.bots = Restrict(@, DOMAIN @ \ {b})]]
        /\ put' = NoPut
        /\ UNCHANGED <<nodes, seq>>

Next == modify_hosts \/ add_host_if_needed \/ remove_node \/ disable_node \/ delete_bot

Spec == Init /\ [][Next]_vars

----------------------------------------------------------------------------
\* After PUT /hosts a host the payload carries is there, in the inbound it is
\* listed under, and a host it does not carry is there exactly when its
\* inbound is not listed: what points at hosts.id survives a move.
CarriedStep ==
    put' # NoPut =>
      \A h \in DOMAIN rows :
         LET at == {i \in DOMAIN put'.list : put'.list[i].id = h}
         IN  IF at # {}
             THEN h \in DOMAIN rows' /\ \A i \in at : rows'[h].tag = put'.list[i].tag
             ELSE h \in DOMAIN rows' <=> rows[h].tag \notin put'.tags
CarriedSurvive == [][CarriedStep]_vars

\* A reference that PUT /hosts adds names a host that is still there when the
\* whole payload has been written.
ReferenceStep ==
    \A h \in DOMAIN rows' :
       rows'[h].refs \ (IF h \in DOMAIN rows THEN rows[h].refs ELSE {}) \subseteq DOMAIN rows'
NoNewDangling == [][ReferenceStep]_vars

\* A bot that goes on renting a host keeps the day it began, through saves,
\* moves and other operations.
RentStep ==
    \A h \in DOMAIN rows \cap DOMAIN rows' :
       \A b \in DOMAIN rows[h].bots \cap DOMAIN rows'[h].bots :
          (rows[h].bots[b] # 0 /\ rows'[h].bots[b] # 0) => rows'[h].bots[b] = rows[h].bots[b]
RentKept == [][RentStep]_vars

\* No save leaves a host with selected entry nodes, but none of them: only
\* the deletion of the last node does, and the host is then left out.
EntryStep ==
    \A h \in DOMAIN rows' :
       (rows'[h].source = "selected" /\ rows'[h].entry = {})
          => /\ h \in DOMAIN rows /\ rows[h].source = "selected"
             /\ rows[h].entry # {} => DOMAIN nodes' # DOMAIN nodes
NeverEmptied == [][EntryStep]_vars

\* "Fill missing order values by appending after the current global max."
AppendedIsLast ==
    [][\A h \in DOMAIN rows' \ DOMAIN rows :
          (put' # NoPut /\ \A i \in DOMAIN put'.list : put'.list[i].id = 0 => put'.list[i].order = -1)
             => \A g \in DOMAIN rows \cap DOMAIN rows' : rows'[h].order > rows'[g].order]_vars

\* A reference to a deleted host does not come to life again.
DeletedStayDeleted ==
    [][\A h \in DOMAIN rows \cap DOMAIN rows' :
          (rows[h].refs \cap rows'[h].refs) \cap DOMAIN rows' \subseteq DOMAIN rows]_vars
=============================================================================
