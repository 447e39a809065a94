---------------------------- MODULE MCConfigRules ----------------------------
(***************************************************************************)
(* The rules of XrayConfig and Reports, checked over all inputs of a       *)
(* bounded set: a state is one input and what the code makes of it, one    *)
(* action per group of rules.                                              *)
(***************************************************************************)
EXTENDS XrayConfig, Reports

VARIABLE case     \* <<>>, or <<group of rules, input>>

Is(group) == case # <<>> /\ case[1] = group
In == case[2]

A == <<"a">>
B == <<"b">>
AB == <<"a", "b">>

Plain == [tag |-> A, proxy |-> TRUE, port |-> TRUE, stream |-> TRUE, net |-> "tcp", security |-> "none",
          secset |-> TRUE, key |-> TRUE, sids |-> TRUE, header |-> "", host |-> "none"]
Catalog(inbounds) ==
    [inbounds |-> inbounds, outbounds |-> <<<<"DIRECT">>>>, fallback |-> B, excluded |-> {},
     routing |-> "rules", rules |-> <<[from |-> <<"*">>, to |-> <<"DIRECT">>]>>]

(***************************************************************************)
(* One inbound and, perhaps, the fallbacks inbound.                        *)
(***************************************************************************)

Nets == {"tcp", "raw", "ws", "grpc", "quic", "httpupgrade", "xhttp", "kcp", "http", "other"}
AnInbound ==
    \E ib \in [tag : {A, <<>>, API_INBOUND}, proxy : BOOLEAN, port : BOOLEAN, stream : BOOLEAN, net : Nets,
               security : {"none", "tls", "reality"}, secset : BOOLEAN, key : {TRUE}, sids : BOOLEAN,
               header : {"", "http"}, host : {"none", "list", "str"}],
       fb \in {<<>>} \cup {<<[Plain EXCEPT !.tag = B, !.security = s, !.port = p]>> :
                              s \in {"none", "tls", "reality"}, p \in BOOLEAN},
       routing \in {"none", "empty", "rules"} :
       \* fields that nothing reads have one value
       /\ ~ib.stream => ib.net = "tcp" /\ ib.security = "none" /\ ib.header = "" /\ ib.host = "none"
       /\ ib.security = "none" => ib.secset
       /\ ib.security # "reality" => ib.sids
       /\ ib.net \notin Raw \cup {"kcp", "quic"} => ib.header = ""
       /\ LET c == [Catalog(<<ib>> \o fb) EXCEPT !.routing = routing,
                                                 !.rules = IF routing = "rules" THEN @ ELSE <<>>]
          IN  case' = <<"inbound", [inbounds |-> c.inbounds, rules |-> c.rules, made |-> XRayConfig(c)]>>
Accepted == In.made.err = ""

\* A user added over the API has the same flow as the same user in the
\* configuration a core starts with, so a restart changes nothing for them.
AccountsAgree ==
    (Is("inbound") /\ Accepted) =>
        \A s \in Range(In.made.resolved) : s.net # "raw" => FlowInConfig(s) = FlowByApi(s)
\* The same for the transport "raw": include_db_users knows it, the API calls
\* do not.
AccountsAgreeAlways ==
    (Is("inbound") /\ Accepted) =>
        \A s \in Range(In.made.resolved) : FlowInConfig(s) = FlowByApi(s)

\* An accepted catalog tells clients the security of the inbound where TLS
\* really ends, with a key and a short id when that is REALITY.  An inbound
\* behind the fallbacks inbound has to have streamSettings for it.
ToldWhereTlsEnds(i) ==
    LET ib == In.inbounds[i]
        at == IF ib.port \/ Len(In.inbounds) = 1 THEN ib ELSE In.inbounds[2]
    IN  /\ In.made.resolved[i].tls = at.security
        /\ at.security = "reality" => at.secset /\ at.key /\ at.sids
SecurityIsServed ==
    (Is("inbound") /\ Accepted) =>
        \A i \in DOMAIN In.made.resolved :
           In.inbounds[i].port \/ In.inbounds[i].stream => ToldWhereTlsEnds(i)
\* The same for inbounds that _resolve_inbounds finds without streamSettings:
\* it tells clients that there is no security.
SecurityIsServedAlways ==
    (Is("inbound") /\ Accepted) => \A i \in DOMAIN In.made.resolved : ToldWhereTlsEnds(i)

\* The panel reaches the API of every core it starts, whatever rules the
\* catalog has, and those rules are kept behind the API's.
ApiReachable ==
    (Is("inbound") /\ Accepted) =>
        /\ RuleFor(In.made.rules, API_INBOUND) = ApiRule
        /\ In.made.tags[1] = API_INBOUND
        /\ SelectSeq(In.made.rules, LAMBDA r : r # ApiRule) = In.rules
\* A catalog is refused with a ValueError, which the endpoint answers with 400.
OnlyValueErrors == Is("inbound") => In.made.err \in {"", "ValueError"}
\* The host of an inbound is a list, from which subscriptions choose.
HostsAreLists ==
    (Is("inbound") /\ Accepted) => \A s \in Range(In.made.resolved) : s.host = "list"

(***************************************************************************)
(* Users, nodes and blocks.                                                *)
(***************************************************************************)

Users == [id : {<<"1">>, <<"1", "2">>}, status : {"active", "on_hold", "disabled"}, excluded : {{}, {A}}]
ANode ==
    \E tags \in {<<A, B>>, <<A, A>>, <<B, A, AB>>}, proxy \in BOOLEAN, us \in SUBSET Users,
       allowed \in {{}, {A}, {B, AB}}, blocked \in SUBSET {<<"1">>, <<"1", "2">>},
       kw \in {[role |-> "direct", inbs |-> {}, routes |-> <<>>], [role |-> "exit", inbs |-> {A}, routes |-> <<>>]} :
       /\ \A u, v \in us : u.id = v.id => u = v
       /\ case' = <<"node",
            [tags |-> tags, users |-> us, allowed |-> allowed, blocked |-> blocked, kw |-> kw,
             base |-> include_db_users(
                         XRayConfig(Catalog([i \in DOMAIN tags |->
                                                [Plain EXCEPT !.tag = tags[i], !.proxy = (i = 1 \/ proxy)]])),
                         us)]>>
Built(c) == build_node_config_json(In.base, c.allowed, c.kw, c.blocked)
Once == \A i, j \in DOMAIN In.tags : In.tags[i] = In.tags[j] => i = j

Served(cfg) ==
    \A i \in DOMAIN cfg.tags : \A u \in In.users :
        cfg.clients[i][u] =
            IF /\ cfg.tags[i] \in In.base.managed /\ u.status \in {"active", "on_hold"}
               /\ cfg.tags[i] \notin u.excluded /\ u.id \notin In.blocked
            THEN 1 ELSE 0

\* A node serves a user once on each inbound it has, unless the user may not
\* use the inbound, is blocked there or is not active; nobody else is touched
\* by the block.
ServedWhereAllowed == (Is("node") /\ Once) => Served(Built(In))
\* The same for a catalog with two inbounds of one tag: "all inbounds must
\* have a unique tag", but nothing checks that they do.
ServedWhereAllowedAlways == Is("node") => Served(Built(In))

ACachePair ==
    \E blocked1, blocked2 \in SUBSET {<<"1">>, <<"1", "2">>}, allowed1, allowed2 \in {{}, {A}},
       kw1, kw2 \in {[role |-> "direct", inbs |-> {}, routes |-> <<>>], [role |-> "exit", inbs |-> {A}, routes |-> <<>>]} :
       case' = <<"wave",
            [base |-> include_db_users(XRayConfig(Catalog(<<Plain, [Plain EXCEPT !.tag = AB]>>)),
                                       {u \in Users : u.status = "active" /\ u.excluded = {}}),
             first |-> [allowed |-> allowed1, kw |-> kw1, blocked |-> blocked1],
             allowed |-> allowed2, kw |-> kw2, blocked |-> blocked2]>>
\* What the cache gives a node of a wave is what would have been built for it,
\* even when another node of the wave built it.
CacheServesOwn ==
    Is("wave") =>
        LET f == In.first
            entry == [key |-> node_signature(f.allowed, f.kw, f.blocked),
                      json |-> Built(f)]
        IN  CacheGet(<<entry>>, In.base, In.allowed, In.kw, In.blocked) = Built(In)

(***************************************************************************)
(* Cascades.                                                               *)
(***************************************************************************)

Routes == [entry : {A, B}, exit : {<<"1">>, <<"1", "2">>, <<"3">>}, inb : {A, AB}]
ACascade ==
    \E n \in 1 .. 3 : \E routes \in [1 .. n -> Routes] :
       case' = <<"cascade",
            [routes |-> routes,
             made |-> cascade_config(
                include_db_users(XRayConfig([Catalog(<<Plain, [Plain EXCEPT !.tag = B]>>) EXCEPT !.rules = <<>>]), {}),
                [role |-> "entry", inbs |-> {}, routes |-> routes])]>>
RoutesOf(e) == {r \in Range(In.routes) : r.entry = e}
\* Traffic from an entry inbound leaves through the exit nodes its routes
\* name, all of them and no others; an inbound without routes is not touched.
ExitsAsRouted ==
    Is("cascade") =>
        \A e \in {A, B} :
           LET outs == Goes(In.made, e)
           IN  IF RoutesOf(e) = {} THEN outs = {In.made.outs[1]}
               ELSE {o.exit : o \in outs} = {r.exit : r \in RoutesOf(e)}
\* The same for the inbounds of the exits: a selector also takes outbounds
\* whose tag only begins like one of its own.
OutboundsAsRouted ==
    Is("cascade") =>
        \A e \in {A, B} : RoutesOf(e) # {} =>
           {<<o.exit, o.inb>> : o \in Goes(In.made, e)} = {<<r.exit, r.inb>> : r \in RoutesOf(e)}

(***************************************************************************)
(* Reports.                                                                *)
(***************************************************************************)

Answers == {"ok", "refused", "unreachable"}
Addresses == {LogChannel, PanelHook, "t1", "t2", "owner", "owner's webhook"}
AnEvent ==
    \E kind \in {"status", "updated", "login"}, st \in Worded \cup {"on_hold"}, bot, log, hook \in BOOLEAN,
       admins \in {<<>>, <<"t1", "t2">>}, chat \in {"", "owner"}, ownhook \in {"", "owner's webhook"},
       answer \in [Addresses -> Answers] :
       /\ st # "active" => kind = "status"
       \* an address that is not set up answers nothing
       /\ \A a \in Addresses : answer[a] # "ok" =>
             \/ a = LogChannel /\ bot /\ log
             \/ a = PanelHook /\ hook
             \/ a \in ToSet(admins) /\ bot /\ ~log
             \/ a \in {chat, ownhook}
       /\ case' = <<"report",
            [event |-> [kind |-> kind, status |-> st],
             panel |-> [bot |-> bot, log |-> log, admins |-> admins, hook |-> hook, on |-> TRUE],
             owner |-> [chat |-> chat, hook |-> ownhook], answer |-> answer]>>
Told == report(In.event, In.panel, In.owner, In.answer)

\* Telegram's failures cost nobody else their news: the panel's webhook is
\* told, and the event queued, exactly as if Telegram had answered.
ChannelsIndependent ==
    Is("report") =>
        LET fine == [a \in Addresses |-> IF a \in {PanelHook, "owner's webhook"} THEN In.answer[a] ELSE "ok"]
            best == report(In.event, In.panel, In.owner, fine)
            hooks == {PanelHook, "owner's webhook"}
        IN  Told.queued = best.queued /\ Told.told \cap hooks = best.told \cap hooks
\* The owner of a user is told whenever the owner's own chat answers: one of
\* the admins who has blocked the bot is enough to prevent it.
OwnerIsTold ==
    (Is("report") /\ In.owner.chat # "" /\ In.answer["owner"] = "ok" /\ In.panel.bot /\ In.panel.admins # <<>>
     /\ In.event.kind # "login" /\ In.event.status # "on_hold") => "owner" \in Told.told
\* Every change of a status is reported: one to on_hold raises KeyError in
\* both services.
StatusIsTold ==
    (Is("report") /\ In.event.kind = "status" /\ In.panel.hook /\ In.answer[PanelHook] = "ok") =>
        PanelHook \in Told.told

\* A core serves what the catalog and the rows say, however it got there: the
\* same accounts over the API and from the configuration, the security clients
\* are told, the API reachable, every allowed user and no blocked one, the
\* node's own configuration out of the cache of a wave, and the exits of its
\* routes.
CoresServeRight ==
    /\ AccountsAgree /\ SecurityIsServed /\ ApiReachable
    /\ ServedWhereAllowed /\ CacheServesOwn /\ ExitsAsRouted

Init == case = <<>>
Inputs == AnInbound \/ ANode \/ ACachePair \/ ACascade \/ AnEvent
Next == case = <<>> /\ Inputs
Spec == Init /\ [][Next]_case
=============================================================================
