---------------------------- MODULE XrayConfig ----------------------------
(***************************************************************************)
(* How the configuration of an Xray core is made: XRayConfig from the      *)
(* catalog an admin saves (xray/config.py), the users put into it, and     *)
(* what one node gets of it (xray/node_config.py): its inbounds, the       *)
(* cascade part of its role, and without its blocked users.  Pure rules.   *)
(*                                                                         *)
(* Tags, ids of nodes and ids of users are sequences of characters,        *)
(* because the code and Xray match them by prefix.  An inbound of the      *)
(* catalog is a record of what the rules look at:                          *)
(*   tag, proxy (its protocol is one the panel manages), port (given),     *)
(*   stream (streamSettings are given and not empty; without them the      *)
(*   following fields have their defaults, as in the code: "tcp", "none",  *)
(*   "" and "none"), net, security, secset (the settings of the security   *)
(*   are there), key, sids (of REALITY), header ("" or "http"), host (how  *)
(*   the host of the transport is given: "none", "list" or "str")          *)
(***************************************************************************)
EXTENDS Integers, Sequences, FiniteSets, SequencesExt

API_INBOUND == <<"API_INBOUND">>

\* XRayConfig._validate: an error, or "".
_validate(c) ==
    CASE c.inbounds = <<>> \/ c.outbounds = <<>> -> "ValueError"
      [] \E i \in DOMAIN c.inbounds : c.inbounds[i].tag = <<>> \/ Contains(c.inbounds[i].tag, ",") -> "ValueError"
      [] \E i \in DOMAIN c.outbounds : c.outbounds[i] = <<>> -> "ValueError"
      [] OTHER -> ""

\* get_inbound: the first one with the tag.
IndexOf(inbounds, tag) ==
    LET at == {i \in DOMAIN inbounds : inbounds[i].tag = tag}
    IN  IF at = {} THEN 0 ELSE CHOOSE i \in at : \A j \in at : i <= j

Fallback(c) == IndexOf(c.inbounds, c.fallback)

\* No port of its own: TLS ends at the fallbacks inbound.
IsFallback(c, ib) == ~ib.port /\ Fallback(c) # 0

\* The inbound's own security, whoever terminates it.
SecurityOwn(c, ib) == [sec |-> ib.security, set |-> ib.secset, from |-> ib]

\* Whose security settings count: [sec, set, from].  The settings of the
\* fallbacks inbound default to an empty object, the inbound's own do not.  An
\* inbound without streamSettings is not asked for either: it has no security.
Security(c, ib) ==
    CASE ~ib.stream -> [sec |-> "none", set |-> FALSE, from |-> ib]
      [] ib.stream /\ IsFallback(c, ib) ->
             LET f == c.inbounds[Fallback(c)] IN [sec |-> f.security, set |-> TRUE, from |-> f]
      [] OTHER -> [sec |-> ib.security, set |-> ib.secset, from |-> ib]

\* _resolve_inbounds, port and security: "" or the exception.
SecurityError(c, ib) ==
    LET s == Security(c, ib)
        f == s.from
    IN  CASE IsFallback(c, ib) /\ ~c.inbounds[Fallback(c)].port -> "ValueError"
          [] s.sec = "none" -> ""
          [] ~s.set -> "AttributeError"
          [] s.sec = "reality" /\ ~(f.secset /\ f.key /\ f.sids) -> "ValueError"
          [] OTHER -> ""

Raw == {"tcp", "raw"}

\* _resolve_inbounds, transport: "" or the exception.
TransportError(ib) ==
    CASE ib.net \in Raw /\ ib.host = "str" -> "ValueError"
      [] ib.net = "ws" /\ ib.host = "list" -> "ValueError"
      [] OTHER -> ""

\* What the host of the settings is: subscriptions choose one of a list.
HostForm(ib) ==
    CASE ib.net \in Raw -> "list"
      [] ib.net \in {"ws", "grpc", "quic", "httpupgrade", "xhttp"} -> "list"
      [] ib.net = "kcp" -> "str"
      [] ib.net = "http" -> IF ib.host = "none" THEN "str" ELSE ib.host
      [] OTHER -> IF ib.host = "none" THEN "list" ELSE "str"

\* The settings of a managed inbound.
Settings(c, ib) ==
    [tag |-> ib.tag, net |-> ib.net, tls |-> Security(c, ib).sec,
     header |-> IF ib.net \in Raw \cup {"kcp", "quic"} THEN ib.header ELSE "",
     host |-> HostForm(ib)]

Managed(c, i) == c.inbounds[i].proxy /\ c.inbounds[i].tag \notin c.excluded

\* The exceptions of _resolve_inbounds, in the order of the inbounds.
ResolveError(c) ==
    LET bad(i) == IF SecurityError(c, c.inbounds[i]) # "" THEN SecurityError(c, c.inbounds[i])
                  ELSE TransportError(c.inbounds[i])
        at == {i \in DOMAIN c.inbounds : Managed(c, i) /\ bad(i) # ""}
    IN  IF at = {} THEN "" ELSE bad(CHOOSE i \in at : \A j \in at : i <= j)

ApiInbound == [tag |-> API_INBOUND, proxy |-> FALSE]
ApiRule == [from |-> API_INBOUND, to |-> <<"API">>]

\* The API's rule goes behind the others.
ApiRulesBehind(c) == Append(IF c.routing = "none" THEN <<>> ELSE c.rules, ApiRule)

\* _apply_api: its rule goes first.  A routing section without rules is
\* replaced as a whole, so what else it holds is lost.
ApiRules(c) == <<ApiRule>> \o (IF c.routing = "none" THEN <<>> ELSE c.rules)

\* XRayConfig(c): [err, ...].
XRayConfig(c) ==
    LET has == IndexOf(c.inbounds, API_INBOUND) # 0
        err == IF _validate(c) # "" THEN _validate(c)
               ELSE IF ResolveError(c) # "" THEN ResolveError(c)
               ELSE IF has THEN "TypeError" ELSE ""
        tags == [i \in DOMAIN c.inbounds |-> c.inbounds[i].tag]
    IN  IF err # "" THEN [err |-> err]
        ELSE [err |-> "",
              tags |-> <<API_INBOUND>> \o tags,
              rules |-> ApiRules(c),
              managed |-> {tags[i] : i \in {j \in DOMAIN tags : Managed(c, j)}},
              resolved |-> [i \in {j \in DOMAIN tags : Managed(c, j)} |-> Settings(c, c.inbounds[i])],
              outs |-> [i \in DOMAIN c.outbounds |-> [tag |-> c.outbounds[i], exit |-> <<>>]]]

----------------------------------------------------------------------------
FlowCarriers == {"tcp", "raw", "kcp"}

\* Any transport keeps the flow.
FlowInConfigAnywhere(s) == s.tls \in {"tls", "reality"}

\* include_db_users: whether a client of the start configuration keeps its flow.
FlowInConfig(s) ==
    s.net \in FlowCarriers /\ s.tls \in {"tls", "reality"} /\ s.header # "http"

\* add_user, update_user and add_user_to_node: whether an account added over
\* the API does.
FlowByApi(s) ==
    s.net \in FlowCarriers \ {"raw"} /\ s.tls \in {"tls", "reality"} /\ s.header # "http"

Live == {"active", "on_hold"}

\* The users that include_db_users puts into an inbound.
Wants(u, tag) == u.status \in Live /\ tag \notin u.excluded

\* include_db_users: how often each user is a client of each inbound.  The
\* clients of a managed inbound go to the first inbound with its tag.
include_db_users(cfg, users) ==
    [tags |-> cfg.tags, managed |-> cfg.managed, rules |-> cfg.rules, outs |-> cfg.outs,
     balancers |-> <<>>, cascade |-> [i \in DOMAIN cfg.tags |-> {}],
     clients |-> [i \in DOMAIN cfg.tags |->
        [u \in users |->
            IF i = CHOOSE k \in DOMAIN cfg.tags :
                      cfg.tags[k] = cfg.tags[i] /\ \A l \in 1 .. k - 1 : cfg.tags[l] # cfg.tags[i]
            THEN Cardinality({j \in DOMAIN cfg.resolved :
                                 cfg.resolved[j].tag = cfg.tags[i] /\ Wants(u, cfg.tags[i])})
            ELSE 0]]]

----------------------------------------------------------------------------
\* Keeps the inbounds at the positions in `keep'.
Select(cfg, keep) ==
    LET idx == SetToSortSeq(keep, <)
    IN  [cfg EXCEPT !.tags = [k \in DOMAIN idx |-> cfg.tags[idx[k]]],
                    !.clients = [k \in DOMAIN idx |-> cfg.clients[idx[k]]],
                    !.cascade = [k \in DOMAIN idx |-> cfg.cascade[idx[k]]]]

\* apply_inbound_filter: no tags means every inbound.
apply_inbound_filter(cfg, allowed) ==
    IF allowed = {} THEN cfg
    ELSE Select(cfg, {i \in DOMAIN cfg.tags : cfg.tags[i] \notin cfg.managed \/ cfg.tags[i] \in allowed})

\* The inbound before the node.
cascade_outbound_tagReversed(exit, inb) == <<"CASCADE_OUT_">> \o inb \o <<"_">> \o exit

cascade_outbound_tag(exit, inb) == <<"CASCADE_OUT_">> \o exit \o <<"_">> \o inb

build_cascade_outbound(r) == [tag |-> cascade_outbound_tag(r.exit, r.inb), exit |-> r.exit, inb |-> r.inb]

\* The outbounds of routes, once each, in order.
Outbounds(routes) ==
    FoldLeft(LAMBDA acc, r : IF \E i \in DOMAIN acc : acc[i] = build_cascade_outbound(r) THEN acc
                             ELSE Append(acc, build_cascade_outbound(r)), <<>>, routes)

\* The entry inbounds of routes, once each, in order.
EntryTags(routes) ==
    FoldLeft(LAMBDA acc, r : IF Contains(acc, r.entry) THEN acc ELSE Append(acc, r.entry), <<>>, routes)

Selector(routes, e) ==
    LET outs == Outbounds(SelectSeq(routes, LAMBDA r : r.entry = e))
    IN  [i \in DOMAIN outs |-> outs[i].tag]

\* cascade_config for an entry: one rule per entry inbound, behind the rules
\* of the catalog; a balancer when it has several exits.
WithEntries(cfg, routes) ==
    LET one(c, e) ==
            LET s == Selector(routes, e)
            IN  IF Len(s) > 1
                THEN [c EXCEPT !.balancers = Append(@, [tag |-> e, selector |-> s]),
                               !.rules = Append(@, [from |-> e, balancer |-> e])]
                ELSE [c EXCEPT !.rules = Append(@, [from |-> e, to |-> s[1]])]
    IN  FoldLeft(one, [cfg EXCEPT !.outs = @ \o Outbounds(routes)], EntryTags(routes))

\* cascade_config for an exit: the service client goes into the inbounds that
\* routes of entries name (_inject_cascade_client).
WithClients(cfg, inbs) ==
    [cfg EXCEPT !.cascade = [i \in DOMAIN cfg.tags |-> IF cfg.tags[i] \in inbs THEN {"uuid"} ELSE {}]]

\* kw: [role, inbs (of an exit), routes (of an entry)].
cascade_config(cfg, kw) ==
    CASE kw.role = "exit" /\ kw.inbs # {} -> WithClients(cfg, kw.inbs)
      [] kw.role = "entry" /\ kw.routes # <<>> -> WithEntries(cfg, kw.routes)
      [] OTHER -> cfg

\* The id of the user is matched without its dot.
strip_blocked_clientsPrefix(cfg, blocked) ==
    [cfg EXCEPT !.clients = [i \in DOMAIN cfg.clients |->
        [u \in DOMAIN cfg.clients[i] |->
            IF \E b \in blocked : IsPrefix(b, u.id) THEN 0 ELSE cfg.clients[i][u]]]]

\* strip_blocked_clients: emails that begin with "<id>.".
strip_blocked_clients(cfg, blocked) ==
    [cfg EXCEPT !.clients = [i \in DOMAIN cfg.clients |->
        [u \in DOMAIN cfg.clients[i] |->
            IF \E b \in blocked : IsPrefix(b \o <<".">>, u.id \o <<".">>) THEN 0 ELSE cfg.clients[i][u]]]]

\* build_node_config_json, without the serialization.
build_node_config_json(cfg, allowed, kw, blocked) ==
    strip_blocked_clients(cascade_config(apply_inbound_filter(cfg, allowed), kw), blocked)

\* A key that forgets the blocked users.
node_signatureNoBlocks(allowed, kw, blocked) == <<allowed, kw>>

\* node_signature: the key of _NodeJsonCache within one wave.
node_signature(allowed, kw, blocked) == <<allowed, kw, blocked>>

\* _NodeJsonCache.get: the first node with a key builds, the rest share.
CacheGet(cache, cfg, allowed, kw, blocked) ==
    LET key == node_signature(allowed, kw, blocked)
        hit == {i \in DOMAIN cache : cache[i].key = key}
    IN  IF hit # {} THEN cache[CHOOSE i \in hit : TRUE].json
        ELSE build_node_config_json(cfg, allowed, kw, blocked)

----------------------------------------------------------------------------
\* Xray, external: the first rule that matches decides, <<>> for none.
RuleFor(rules, tag) ==
    LET m == {i \in DOMAIN rules : rules[i].from \in {tag, <<"*">>}}
    IN  IF m = {} THEN <<>> ELSE rules[CHOOSE i \in m : \A j \in m : i <= j]

\* Xray, external: where traffic from an inbound goes.  A balancer takes the
\* outbounds whose tag begins with an element of its selector; without a rule
\* the first outbound is used.
Goes(cfg, tag) ==
    LET r == RuleFor(cfg.rules, tag)
        bal == CHOOSE b \in Range(cfg.balancers) : b.tag = r.balancer
    IN  CASE r = <<>> -> {cfg.outs[1]}
          [] r # <<>> /\ "to" \in DOMAIN r -> {o \in Range(cfg.outs) : o.tag = r.to}
          [] OTHER -> {o \in Range(cfg.outs) :
                          \E i \in DOMAIN bal.selector : IsPrefix(bal.selector[i], o.tag)}
=============================================================================
