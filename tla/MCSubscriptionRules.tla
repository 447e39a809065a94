------------------------- MODULE MCSubscriptionRules -------------------------
(***************************************************************************)
(* The pure rules of the subscription, checked over all inputs of a        *)
(* bounded set.  A state is one input: Next moves from the start to any of *)
(* them, one action per group of rules, and each invariant speaks of the   *)
(* inputs of its own group.                                                *)
(***************************************************************************)
EXTENDS SubscriptionRender, ServerFormats

VARIABLE case     \* <<>>, or <<group of rules, input>>

Is(group) == case # <<>> /\ case[1] = group
In == case[2]

(***************************************************************************)
(* One server in every format.                                             *)
(***************************************************************************)

Inbounds ==
    [protocol : Protocols, network : Networks, tls : {"none", "tls", "reality"},
     header : {"none", "http"}, path : Paths, host : {Unset, "h"}, multi : BOOLEAN,
     agent : BOOLEAN, flow : {Unset, "vision"}, sni : {"s"}, fp : {"f"}, alpn : {"a"},
     pbk : {"k"}, mode : {"auto"}]

AnInbound == \E e \in Inbounds : case' = <<"inbound", e>>

\* V2rayShareLink and V2rayJsonConfig tell a client the same of every inbound.
LinksLikeJson == Is("inbound") => LinkLikeJson(In)
\* Links, JSON documents and Clash Meta ask for the same flow, where Xray has one.
FlowWhereAllowed == Is("inbound") => FlowsAgree(In)
\* So does sing-box.  It does not: its condition on tls is always true.
FlowWhereAllowedEverywhere == Is("inbound") => FlowsAgreeEverywhere(In)
\* No inbound breaks a subscription.  Some do: the Clash classes look for a key
\* `header` they never made, a gRPC multi path may have no second stream.
NothingRaises == Is("inbound") => NeverRaises(In)
\* A server is shown with the security it has.  Clash shows reality without any.
SecurityIsKept == Is("inbound") => SecurityKept(In)

\* Two servers of one subscription.
APair ==
    \E n1, n2 \in {"http", "h2", "ws"}, p1, p2 \in {"plain", Unset} :
       LET e(n, p) == [protocol |-> "vless", network |-> n, tls |-> "tls", header |-> "none",
                       path |-> p, host |-> "h", multi |-> FALSE, agent |-> FALSE, flow |-> Unset,
                       sni |-> "s", fp |-> "f", alpn |-> "a", pbk |-> "k", mode |-> "auto"]
       IN  case' = <<"pair", <<e(n1, p1), e(n2, p2)>>>>
\* The servers of a JSON subscription do not share their settings.  Those with
\* the network http do (http_config copies nothing).
ServersKeepTheirOwn == Is("pair") => ServersIndependent(In)

(***************************************************************************)
(* Routing of a document under managed balancing, and composed documents.  *)
(***************************************************************************)

Traffic == {"lan", "web"}
Direct == <<"direct">>
Own == <<"own">>
Targets == {[out |-> Proxy, bal |-> NoName], [out |-> Direct, bal |-> NoName], [out |-> NoName, bal |-> Own]}
Rules == {Rule(m, t.out, t.bal, FALSE) : m \in SUBSET Traffic \ {{}}, t \in Targets}
           \cup {Rule(Traffic, t.out, t.bal, TRUE) : t \in Targets}
OwnBalancer == [tag |-> Own, selector |-> <<Proxy>>, fallback |-> NoName]
Document(outbounds, balancers, rules) ==
    [outbounds |-> outbounds, balancers |-> balancers, rules |-> rules, observer |-> "none",
     traffic |-> Traffic]
Out(t) == [tag |-> t, via |-> NoName]

Balancings == {HostBalancing("leastPing", "none"), HostBalancing("random", "none"), NotManaged}

ARouting ==
    \E n \in 0..3 : \E rules \in [1..n -> Rules], b \in Balancings :
       case' = <<"routing", [doc |-> Document(<<Out(Direct)>>, <<OwnBalancer>>, rules), balancing |-> b]>>
\* Managed balancing leaves blocked and direct traffic where the document sent it.
RoutesKept == Is("routing") => RouteKept(In.doc, In.balancing)

AStrategy ==
    \E s \in {"random", "roundRobin", "leastPing", "leastLoad"}, p \in {"none", "ping", "burst"} :
       case' = <<"strategy", [strategy |-> s, probe |-> p]>>
\* apply_host_balancer finds the probe in every balancing a host may be saved with.
BalancingsApply == Is("strategy") => AcceptedBalancingApplies(In.strategy, In.probe)

\* "ab" starts with "a"; the document's outbounds may be named like connections.
Names == {Proxy, <<"a">>, <<"a", "b">>, <<"proxy", "-2">>, Direct}
Lists(S, n) == UNION {[1..k -> S] : k \in 0..n}
AComposition ==
    \E tags \in Lists(Names, 2), dialer \in BOOLEAN, others \in Lists(Names, 2),
       b \in {NotManaged, HostBalancing("leastPing", "none")}, bals \in {<<>>, <<OwnBalancer>>},
       rules \in Lists({Rule(Traffic, Proxy, NoName, FALSE), Rule(Traffic, NoName, Own, FALSE)}, 1) :
       /\ tags # <<>>
       /\ case' = <<"composition",
                    [endpoints |-> [k \in DOMAIN tags |-> [tag |-> tags[k], addr |-> k, src |-> k, dialer |-> dialer]],
                     doc |-> Document([k \in DOMAIN others |-> Out(others[k])], bals, rules), balancing |-> b]>>
\* A composed document that is handed out resolves, and its balancer chooses
\* among the collected connections only.
CompositionsSound == Is("composition") => ComposedIsSound(In.endpoints, In.doc, In.balancing)

(***************************************************************************)
(* Injection: a recipient (host 1) and two possible sources.               *)
(***************************************************************************)

ByPrefix(p) == [naming |-> [m \in {"prefix", "remark", "tag"} |-> m = "prefix"], prefix |-> p]
ByTag == [naming |-> [m \in {"prefix", "remark", "tag"} |-> m = "tag"], prefix |-> NoName]
Group(sel, ids, from, naming) ==
    [sel |-> sel, ids |-> ids, pattern |-> {<<"r2">>, <<"r3">>}, from |-> from,
     naming |-> naming.naming, prefix |-> naming.prefix]
Groups == {Group("ids", <<3, 2>>, "ALL", ByPrefix(Proxy)), Group("same", <<>>, "HIDDEN", ByTag),
           Group("remark", <<>>, "NOT_HIDDEN", ByPrefix(<<"a">>))}
Off == Directive("off", FALSE, <<>>)
On(own, groups) == Validated(Directive("on", own, groups))
Directives == {NoDirective, BadDirective, On(TRUE, <<>>), On(FALSE, <<Group("same", <<>>, "ALL", ByTag)>>)}

Source(i, order, gtag, hidden, disabled, active, inj, blocked, endpoints) ==
    [id |-> i, order |-> order, gtag |-> gtag, remark |-> IF i = 2 THEN <<"r2">> ELSE <<"r3">>,
     hidden |-> hidden, disabled |-> disabled, active |-> active, inj |-> inj, blocked |-> blocked,
     is_bs |-> FALSE, dialer |-> FALSE, endpoints |-> endpoints]

AnInjection ==
    \E g1 \in Groups, more \in Lists(Groups, 1), own \in BOOLEAN,
       o \in {1, 3}, h2, h3, d2, a2 \in BOOLEAN, i2, i3 \in Directives, b2 \in BOOLEAN, e3 \in {<<31>>, <<31, 32>>} :
       case' = <<"injection",
          [recipient |-> Source(1, 1, <<"g">>, FALSE, FALSE, TRUE, On(own, <<g1>> \o more), FALSE, <<11>>),
           hosts |-> {Source(2, o, <<"g">>, h2, d2, a2, i2, b2, <<21>>),
                      Source(3, 2, <<"g">>, h3, FALSE, TRUE, i3, FALSE, e3)}]>>
\* The preview of an injection (diagnose_injection) and the composed document
\* name the same sources in the same order.
FormToldTheTruth ==
    Is("injection") /\ (\A h \in In.hosts : ~h.blocked) => PreviewTold(In.recipient, In.hosts \cup {In.recipient})

(***************************************************************************)
(* Which document a host gets, and what its directive comes to.            *)
(***************************************************************************)

Docs == {Template(d, e, b) : d \in {NoDirective, Off, BadDirective, On(TRUE, <<>>)},
                             e \in {NoDirective, On(TRUE, <<>>)}, b \in {"full", "empty", "broken"}}
FileDoc == Template(NoDirective, NoDirective, "full")
ADocument ==
    \E own, def \in Docs, id, default \in 0..2, d \in {NoDirective, Off, BadDirective, On(TRUE, <<>>)} :
       case' = <<"document", [configs |-> <<own, def>>, id |-> id, default |-> default, override |-> d]>>

\* A broken document is never taken for an ordinary one, and a directive in
\* force has sources: it switches the host off (malformed) or says where to look.
DirectiveMeansSomething ==
    Is("document") =>
      LET doc == select_config(In.configs, In.default, In.id, FileDoc)
          inj == resolve_host_injection(In.override, doc)
      IN  /\ doc.body # "empty"
          /\ doc.body = "broken" => inj.kind = "bad"
          /\ inj.kind = "on" => inj.own \/ inj.groups # <<>>

(***************************************************************************)
(* A whole subscription.                                                   *)
(***************************************************************************)

Host(id, source, static, nodes, pool, hidden, inj) ==
    [id |-> id, order |-> id, source |-> source, static |-> static, nodes |-> nodes, pool |-> pool,
     hidden |-> hidden, disabled |-> FALSE, inj |-> inj, gtag |-> <<"g">>,
     remark |-> <<"r">>, bots |-> {"bot"}, inbound |-> "in", dialer |-> FALSE, balancing |-> NotManaged]
Context(disabled, blocked) ==
    [bot |-> "bot", disabled |-> disabled, bsnodes |-> {1, 2}, blocked |-> blocked, keys |-> TRUE,
     inbounds |-> {"in"}, active |-> {"in"}]
PlainDoc == Document(<<Out(Direct)>>, <<>>, <<>>)

Injecting == {NoDirective, On(TRUE, <<Group("same", <<>>, "ALL", ByPrefix(<<"a">>))>>),
              On(FALSE, <<Group("same", <<>>, "HIDDEN", ByPrefix(<<"a">>))>>)}
ASubscription ==
    \E i1 \in Injecting, s1, s2 \in {"host", "selected"}, t1 \in {<<>>, <<101>>}, t2 \in {<<>>, <<102>>},
       n1, n2 \in {{}, {1}, {1, 2}}, p1 \in {{2}}, p2 \in {{}, {1}}, h2 \in BOOLEAN,
       disabled \in {{}, {1}, {2}}, blocked \in {{}, {1}, {2}} :
       case' = <<"subscription",
                 [hosts |-> {Host(1, s1, t1, n1, p1, FALSE, i1), Host(2, s2, t2, n2, p2, h2, NoDirective)},
                  ctx |-> Context(disabled, blocked)]>>
\* Addresses of BS nodes on which the user has used up the limit reach nobody,
\* whether the policy leaves all addresses of a host or one.
BlockedAddressesHidden ==
    Is("subscription") => \A size \in 0..1 : BlockedAddressHidden(In.hosts, In.ctx, PlainDoc, size)
\* No host is lost on the way to the answer and their order is kept.
HostsAllServed == Is("subscription") => EveryHostServed(In.hosts, In.ctx, PlainDoc, 0)

RequestStates == [revoked : BOOLEAN, expired : BOOLEAN, unsupported : BOOLEAN, within : BOOLEAN, hard_mode : BOOLEAN]
ARequest ==
    \E r \in RequestStates, texts \in {{}, {"revoked", "expired", "device", "unsupported", "bs"}},
       j \in BOOLEAN, blocked \in {{}, {1}}, h2 \in BOOLEAN :
       case' = <<"request",
                 [r |-> r, texts |-> texts, json |-> j, ctx |-> Context({}, blocked),
                  hosts |-> {Host(1, "host", <<>>, {1, 2}, {}, FALSE, NoDirective),
                             Host(2, "host", <<102>>, {}, {}, h2, NoDirective)}]>>
\* A dead request learns no server in any format.
DeadLearnNothing ==
    Is("request") => DeadLearnsNothing(In.r, In.texts, In.hosts, In.ctx, PlainDoc, In.json, 0)
\* The announcement and the placeholder servers name the same reason.
ReasonsGivenAgree ==
    Is("request") => ReasonsAgree(In.r, In.hosts, In.ctx, PlainDoc, In.json, 0)

(***************************************************************************)
(* Plans, support, unknown tokens.                                         *)
(***************************************************************************)

ClientApps == {"clash-meta", "clash", "sing-box", "outline", "v2rayN", "v2rayNG", "streisand", "Happ", "INCY", "other"}
APlan ==
    \E j \in BOOLEAN :
       \/ \E c \in ClientApps, v1, v2 \in BOOLEAN, for \in SUBSET {"v2rayN", "v2rayNG", "streisand", "Happ"} :
             case' = <<"plan", [plan |-> resolve_subscription_plan_by_user_agent(c, v1, v2, j, for), json |-> j]>>
       \/ \E t \in Formats :
             case' = <<"plan", [plan |-> resolve_subscription_plan_by_client_type(t, j), json |-> j]>>
\* Format, encoding and media type of an answer fit for every client.
PlansConsistent == Is("plan") => PlanIsConsistent(In.plan, In.json)

ASupport ==
    \E s \in SUBSET {"chat", "telegram"}, hasbot, revoked \in BOOLEAN :
       case' = <<"support", [s |-> s, hasbot |-> hasbot, revoked |-> revoked]>>
\* A client sent to the page for the chat finds it there (a user with a bot).
ChatIsThere == Is("support") => SupportPageHasChat(In.s, In.hasbot, In.revoked)
\* So does a user without a bot.  It does not: the page asks for the bot, the
\* header only for the settings.
ChatIsThereAlways == Is("support") => SupportPageHasChatAlways(In.s, In.hasbot, In.revoked)

AnUnknownToken ==
    \E bots \in SUBSET {"b1", "b2"} : \E owner \in bots \cup {""}, settled \in SUBSET bots :
       case' = <<"unknown", [owner |-> owner, bots |-> bots, settled |-> settled]>>
\* The page of an unknown token shows no link of somebody else's bot.
NeverForeignBot == Is("unknown") => NoForeignBot(In.owner, In.bots, In.settled)

(***************************************************************************)

\* Whichever format a client is given, it dials the same server: links like the
\* JSON document, and the same flow, where Xray has one.
FormatsAgree == LinksLikeJson /\ FlowWhereAllowed

\* A composed document is what the admin was shown and the directive meant: its
\* sources are the previewed ones, its tags and references are sound, the
\* admin's routes are kept and an accepted balancing takes effect.
InjectionSound ==
    /\ RoutesKept /\ BalancingsApply /\ CompositionsSound
    /\ FormToldTheTruth /\ DirectiveMeansSomething

\* An answer tells a client everything it may know and nothing else: every
\* visible host, no address the user is blocked on, no server when dead, one
\* and the same reason, a format that fits its type, a chat that is there, and
\* nobody else's bot.
AnswersSound ==
    /\ BlockedAddressesHidden /\ HostsAllServed
    /\ DeadLearnNothing /\ ReasonsGivenAgree
    /\ PlansConsistent /\ ChatIsThere /\ NeverForeignBot

Init == case = <<>>
Next == /\ case = <<>>
        /\ \/ AnInbound \/ APair \/ ARouting \/ AStrategy \/ AComposition \/ AnInjection
           \/ ADocument \/ ASubscription \/ ARequest \/ APlan \/ ASupport \/ AnUnknownToken
Spec == Init /\ [][Next]_case
=============================================================================
