---------------------------- MODULE HostInjection ----------------------------
(***************************************************************************)
(* Composition of one Xray document out of several hosts: the directive a  *)
(* host or its client document carries, the hosts its groups select, the   *)
(* tags the collected connections get, the balancer over them and the      *)
(* check of the references in the finished document.                       *)
(*                                                                         *)
(* A name (an outbound tag, a remark, a group tag) is a sequence of        *)
(* pieces, so that one name may start with another: a balancer selects     *)
(* outbounds by the beginning of their tag.  NoName is Python's None or "".*)
(* A regular expression is the set of the names it finds.                  *)
(***************************************************************************)
EXTENDS Naturals, Sequences, FiniteSets, SequencesExt

CONSTANT MaxEndpoints      \* MAX_ENDPOINTS

NoName == <<>>
Proxy == <<"proxy">>                       \* PROXY_OUTBOUND_TAG
HostBalancer == <<"proxy", "-balancer">>   \* HOST_BALANCER_TAG
Number == <<"-1", "-2", "-3", "-4", "-5", "-6">>

(***************************************************************************)
(* Directives.  A directive is "absent", "bad" (not an object, or refused  *)
(* by the model), "off" (enabled: false) or "on".                          *)
(***************************************************************************)

Directive(kind, own, groups) == [kind |-> kind, own |-> own, groups |-> groups]
NoDirective == Directive("absent", FALSE, <<>>)
BadDirective == Directive("bad", FALSE, <<>>)

\* InjectionGroup: exactly one way of naming the outbounds, ids without repeats.
ValidGroup(g) ==
    /\ Cardinality({m \in {"prefix", "remark", "tag"} : g.naming[m]}) = 1
    /\ g.naming["prefix"] = (g.prefix # NoName)
    /\ g.sel = "ids" => Len(g.ids) > 0 /\ Cardinality(ToSet(g.ids)) = Len(g.ids)

\* HostInjection.model_validate
Validated(d) ==
    IF \/ d.kind = "bad"
       \/ d.kind = "on" /\ d.groups = <<>> /\ ~d.own
       \/ d.kind = "off" /\ (d.groups # <<>> \/ d.own)
       \/ \E k \in DOMAIN d.groups : ~ValidGroup(d.groups[k])
    THEN BadDirective ELSE d

\* The document speaks under one of two keys, and always to switch on.
template_injection(template) ==
    CASE template.npvpn.kind # "absent" /\ template.remnawave.kind # "absent" -> BadDirective
      [] template.npvpn.kind # "absent" ->
            IF template.npvpn.kind = "off" THEN BadDirective ELSE Validated(template.npvpn)
      [] template.remnawave.kind # "absent" ->
            IF template.remnawave.kind = "off" THEN BadDirective ELSE Validated(template.remnawave)
      [] OTHER -> NoDirective

\* A malformed document is an error even when the host overrides it.
resolve_host_injection(override, template) ==
    LET inherited == template_injection(template)
        value == IF override.kind # "absent" THEN Validated(override) ELSE inherited
    IN  CASE inherited.kind = "bad" \/ value.kind = "bad" -> BadDirective
          [] value.kind = "on"                            -> value
          [] OTHER                                        -> NoDirective

(***************************************************************************)
(* Client documents.  A body is "empty", "broken" or a parsed document;    *)
(* a broken one reads as a document with a malformed directive.            *)
(***************************************************************************)

Template(npvpn, remnawave, body) == [npvpn |-> npvpn, remnawave |-> remnawave, body |-> body]
BrokenTemplate == Template(BadDirective, NoDirective, "broken")

ParsedLenient(doc) == IF doc.body = "broken" THEN Template(NoDirective, NoDirective, "broken") ELSE doc

\* parse_json_object and _safe_json
Parsed(doc) == IF doc.body = "broken" THEN BrokenTemplate ELSE doc

\* configs maps the ids of the documents to their bodies; 0 is no id.
select_config(configs, default, id, file) ==
    LET Filled(i) == i \in DOMAIN configs /\ configs[i].body # "empty"
    IN  CASE id # 0 /\ Filled(id)           -> Parsed(configs[id])
          [] default # 0 /\ Filled(default) -> Parsed(configs[default])
          [] OTHER                          -> Parsed(file)

(***************************************************************************)
(* Selection.                                                              *)
(***************************************************************************)

InOrder(a, b) == a.order < b.order \/ (a.order = b.order /\ a.id < b.id)
IdIn(hosts, i) == CHOOSE h \in hosts : h.id = i

select_injected_hosts(group, recipient, hosts) ==
    LET candidates == {h \in hosts :
                         /\ h.id # recipient.id
                         /\ ~h.disabled
                         /\ group.from = "ALL" \/ h.hidden = (group.from = "HIDDEN")}
        known(i) == \E h \in candidates : h.id = i
        found == CASE group.sel = "same"   -> {h \in candidates : recipient.gtag # NoName /\ h.gtag = recipient.gtag}
                   [] group.sel = "remark" -> {h \in candidates : h.remark \in group.pattern}
                   [] group.sel = "tag"    -> {h \in candidates : h.gtag \in group.pattern}
                   [] OTHER                -> {}
    IN  IF group.sel = "ids"
        THEN LET ids == SelectSeq(group.ids, known)
             IN  [k \in 1..Len(ids) |-> IdIn(candidates, ids[k])]
        ELSE SetToSortSeq(found, InOrder)

(***************************************************************************)
(* compose_endpoints.  A candidate is a host with its directive resolved,  *)
(* the addresses it may hand out and whether the user is blocked on it.    *)
(***************************************************************************)

Start == [err |-> "", selected |-> <<>>, counts |-> [n \in {} |-> 0], used |-> {},
          bs |-> FALSE, blocked |-> FALSE, unavailable |-> FALSE]
Count(st, p) == IF p \in DOMAIN st.counts THEN st.counts[p] ELSE 0

TagFor(st, index, prefix, name) ==
    IF prefix # NoName
    THEN IF Count(st, prefix) = 0 THEN prefix ELSE Append(prefix, Number[Count(st, prefix) + 1])
    ELSE IF index = 1 \/ name = NoName THEN name ELSE Append(name, Number[index])

AddEndpoint(st, item, index, prefix, name) ==
    LET tag == TagFor(st, index, prefix, name)
    IN  IF st.err # "" THEN st
        ELSE IF tag = NoName \/ tag \in st.used THEN [st EXCEPT !.err = "outbound_tag_collision"]
        ELSE [st EXCEPT !.counts = [p \in DOMAIN st.counts \cup {prefix} |->
                                       IF p = prefix THEN Count(st, p) + 1 ELSE st.counts[p]],
                        !.used = @ \cup {tag},
                        !.selected = Append(@, [tag |-> tag, addr |-> item.endpoints[index],
                                                src |-> item.id, dialer |-> item.dialer]),
                        !.err = IF Len(st.selected) + 1 > MaxEndpoints THEN "too_many_endpoints" ELSE ""]

add_source(st, item, prefix, name) ==
    IF st.err # "" THEN st
    ELSE IF item.blocked THEN [st EXCEPT !.blocked = TRUE]
    ELSE IF item.endpoints = <<>> THEN [st EXCEPT !.unavailable = TRUE]
    ELSE FoldLeftDomain(LAMBDA s, k : AddEndpoint(s, item, k, prefix, name),
                        [st EXCEPT !.bs = @ \/ item.is_bs], item.endpoints)

\* A virtual source lends its connection only when it uses it itself.
LendsItselfAlways(item) == TRUE
LendsItself(item) == item.inj.kind # "on" \/ item.inj.own

SourceName(group, host) ==
    IF group.naming["tag"] /\ host.gtag # NoName THEN host.gtag ELSE host.remark

\* late is the group at which the time for selecting has run out; 0 is never.
AddGroup(st, recipient, candidates, index, late) ==
    LET group == recipient.inj.groups[index]
        hosts == SelectSeq(select_injected_hosts(group, recipient, candidates), LendsItself)
    IN  IF st.err # "" THEN st
        ELSE IF \E k \in 1..(index - 1) : group.prefix # NoName /\ recipient.inj.groups[k].prefix = group.prefix
             THEN [st EXCEPT !.err = "duplicate_group_prefix"]
        ELSE IF late # 0 /\ index >= late THEN [st EXCEPT !.err = "selector_timeout"]
        ELSE FoldLeft(LAMBDA s, h : add_source(s, h, group.prefix, SourceName(group, h)), st, hosts)

compose_endpoints(recipient, candidates, late) ==
    LET own == IF recipient.inj.own THEN add_source(Start, recipient, Proxy, NoName) ELSE Start
        st == FoldLeftDomain(LAMBDA s, k : AddGroup(s, recipient, candidates, k, late),
                             own, recipient.inj.groups)
    IN  [err |-> st.err, endpoints |-> st.selected, bs |-> st.bs,
         all_blocked |-> st.blocked /\ ~st.unavailable]

\* diagnose_injection: what the form shows as the sources of group k.
Preview(recipient, hosts, k) ==
    SelectSeq(select_injected_hosts(recipient.inj.groups[k], recipient, {h \in hosts : h.active}),
              LAMBDA h : h.inj.kind = "absent" \/ (h.inj.kind = "on" /\ h.inj.own))

PreviewError(recipient) ==
    \/ recipient.inj.kind = "bad"
    \/ \E j, k \in DOMAIN recipient.inj.groups :
          /\ j < k /\ recipient.inj.groups[j].prefix = recipient.inj.groups[k].prefix
          /\ recipient.inj.groups[j].prefix # NoName

(***************************************************************************)
(* The finished document: outbounds (tags), balancers, rules.  A rule      *)
(* matches a set of traffic and sends it to an outbound or to a balancer;  *)
(* a plain rule has no condition but both networks.                        *)
(***************************************************************************)

Rule(match, outbound, balancer, plain) ==
    [match |-> match, outbound |-> outbound, balancer |-> balancer, plain |-> plain]

\* build_balancer_rule, _catch_all
build_balancer_rule(traffic) == Rule(traffic, NoName, HostBalancer, TRUE)
_catch_all(rule) == rule.balancer = HostBalancer /\ rule.plain

Rewritten(rule) ==
    IF rule.balancer # NoName \/ rule.outbound = Proxy
    THEN [rule EXCEPT !.outbound = NoName, !.balancer = HostBalancer] ELSE rule

\* One rule after the other: a second catch-all is dropped, a missing one added.
ManagedRules(rules, traffic) ==
    LET kept == FoldLeft(LAMBDA acc, r : IF /\ _catch_all(Rewritten(r))
                                            /\ \E k \in DOMAIN acc : _catch_all(acc[k])
                                         THEN acc ELSE Append(acc, Rewritten(r)), <<>>, rules)
    IN  IF \E k \in DOMAIN kept : _catch_all(kept[k]) THEN kept
        ELSE Append(kept, build_balancer_rule(traffic))

\* The observer goes with the strategy; a strategy that needs a probe reads its
\* settings, which the model of the host has filled in.
Observer(strategy) ==
    CASE strategy = "leastPing" -> "observatory"
      [] strategy = "leastLoad" -> "burstObservatory"
      [] OTHER                  -> "none"

\* HostBalancing: the probe belongs to the strategy, absent ones get defaults.
HostBalancingNoDefault(strategy, probe) == [strategy |-> strategy, probe |-> probe]

HostBalancing(strategy, probe) ==
    CASE strategy = "leastLoad" /\ probe \in {"none", "burst"} -> [strategy |-> strategy, probe |-> "burst"]
      [] strategy = "leastPing" /\ probe \in {"none", "ping"}  -> [strategy |-> strategy, probe |-> "ping"]
      [] strategy \in {"random", "roundRobin"} /\ probe = "none" -> [strategy |-> strategy, probe |-> "none"]
      [] OTHER -> [strategy |-> "refused", probe |-> "none"]

\* probe["url"], probe["timeout"]: a KeyError when the probe is not the strategy's.
ProbeMissing(balancing) ==
    \/ balancing.strategy = "leastPing" /\ balancing.probe # "ping"
    \/ balancing.strategy = "leastLoad" /\ balancing.probe # "burst"

NotManaged == [strategy |-> "none", probe |-> "none"]

apply_host_balancerCatchAllFirst(config, balancing, participants) ==
    [config EXCEPT !.balancers = <<[tag |-> HostBalancer, selector |-> participants, fallback |-> NoName]>>,
                   !.rules = <<build_balancer_rule(config.traffic)>> \o config.rules,
                   !.observer = Observer(balancing.strategy)]

apply_host_balancer(config, balancing, participants) ==
    IF balancing = NotManaged
    THEN IF config.balancers # <<>> THEN config
         ELSE [config EXCEPT !.balancers = <<[tag |-> HostBalancer, selector |-> <<Proxy>>, fallback |-> NoName]>>,
                             !.rules = Append(@, build_balancer_rule(config.traffic)),
                             !.observer = IF @ = "none" THEN "observatory" ELSE @]
    ELSE [config EXCEPT !.balancers = <<[tag |-> HostBalancer, selector |-> participants, fallback |-> NoName]>>,
                        !.rules = ManagedRules(config.rules, config.traffic),
                        !.observer = Observer(balancing.strategy)]

TagsOf(config) == {config.outbounds[k].tag : k \in DOMAIN config.outbounds}
SelectedBy(balancer, config) ==
    {t \in TagsOf(config) : \E k \in DOMAIN balancer.selector : IsPrefix(balancer.selector[k], t)}

\* validate_composed_tag_graph: "" or the error raised.
validate_composed_tag_graph(config) ==
    LET tags == TagsOf(config)
        named == {config.balancers[k].tag : k \in DOMAIN config.balancers}
        Unresolved(t) == t # NoName /\ t \notin tags
    IN  CASE Cardinality(named) # Len(config.balancers) -> "duplicate_balancer_tag"
          [] \E k \in DOMAIN config.rules : Unresolved(config.rules[k].outbound) -> "unresolved_outbound_tag"
          [] \E k \in DOMAIN config.rules :
                config.rules[k].balancer # NoName /\ config.rules[k].balancer \notin named -> "unresolved_balancer_tag"
          [] \E k \in DOMAIN config.balancers : Unresolved(config.balancers[k].fallback) -> "unresolved_outbound_tag"
          [] \E k \in DOMAIN config.balancers : SelectedBy(config.balancers[k], config) = {} -> "empty_balancer_selector"
          [] \E k \in DOMAIN config.outbounds : Unresolved(config.outbounds[k].via) -> "unresolved_outbound_tag"
          [] OTHER -> ""

\* build_endpoint_outbounds: a connection with a dialer goes through one of its own.
Outbounds(endpoints) ==
    FoldLeftDomain(LAMBDA acc, k :
        LET e == endpoints[k]
            helper == <<"__npvpn_dialer_", Number[k]>>
        IN  IF e.dialer THEN acc \o <<[tag |-> e.tag, via |-> helper], [tag |-> helper, via |-> NoName]>>
            ELSE Append(acc, [tag |-> e.tag, via |-> NoName]), <<>>, endpoints)

\* _assemble_config: the connections before what the document has.
AssembleConfig(outbounds, doc) == [doc EXCEPT !.outbounds = outbounds \o @]

Managed(doc, balancing) == balancing # NotManaged \/ doc.balancers = <<>>

add_composedPrefixUnchecked(endpoints, doc, balancing) ==
    LET participants == [k \in DOMAIN endpoints |-> endpoints[k].tag]
        config == AssembleConfig(Outbounds(endpoints), doc)
        done == apply_host_balancer(config, IF balancing = NotManaged THEN HostBalancing("leastPing", "none")
                                            ELSE balancing, participants)
    IN  IF ~Managed(doc, balancing) THEN [err |-> validate_composed_tag_graph(config), config |-> config]
        ELSE [err |-> validate_composed_tag_graph(done), config |-> done]

add_composed(endpoints, doc, balancing) ==
    LET participants == [k \in DOMAIN endpoints |-> endpoints[k].tag]
        config == AssembleConfig(Outbounds(endpoints), doc)
        others == TagsOf(config) \ ToSet(participants)
        managed == Managed(doc, balancing)
        done == IF managed
                THEN apply_host_balancer(config, IF balancing = NotManaged THEN HostBalancing("leastPing", "none")
                                                 ELSE balancing, participants)
                ELSE config
    IN  CASE Cardinality(TagsOf(config)) # Len(config.outbounds) ->
               [err |-> "outbound_tag_collision", config |-> config]
          [] managed /\ \E o \in others, k \in DOMAIN participants : IsPrefix(participants[k], o) ->
               [err |-> "outbound_prefix_collision", config |-> config]
          [] OTHER -> [err |-> validate_composed_tag_graph(done), config |-> done]

\* proxy_outbound_tag and add_balanced: a host of several addresses.
proxy_outbound_tag(index) == IF index = 1 THEN Proxy ELSE Append(Proxy, Number[index - 1])

add_balanced(addresses, doc, balancing) ==
    apply_host_balancer(
       AssembleConfig([k \in DOMAIN addresses |-> [tag |-> proxy_outbound_tag(k), via |-> NoName]], doc),
       balancing, <<Proxy>>)

(***************************************************************************)
(* Properties.                                                             *)
(***************************************************************************)

\* Where traffic t goes: the first rule that matches it, else the first
\* outbound of the document, which is a proxy connection.
Route(rules, t) ==
    LET hits == {k \in DOMAIN rules : t \in rules[k].match}
        first == CHOOSE k \in hits : \A j \in hits : k <= j
    IN  IF hits = {} THEN Rule({}, Proxy, NoName, FALSE) ELSE rules[first]

\* A document that is handed out has tags of its own for every outbound, its
\* references resolve, and the balancer the panel put in chooses between the
\* collected connections and nothing else, although it selects by prefix.
ComposedIsSound(endpoints, doc, balancing) ==
    LET r == add_composed(endpoints, doc, balancing)
        c == r.config
    IN  r.err = "" =>
          /\ Cardinality(TagsOf(c)) = Len(c.outbounds)
          /\ \A k \in DOMAIN c.rules :
               /\ c.rules[k].outbound # NoName => c.rules[k].outbound \in TagsOf(c)
               /\ c.rules[k].balancer # NoName =>
                    \E j \in DOMAIN c.balancers : c.balancers[j].tag = c.rules[k].balancer
          /\ Managed(doc, balancing) =>
               SelectedBy(c.balancers[1], c) = {endpoints[k].tag : k \in DOMAIN endpoints}

\* Managed balancing sends every kind of traffic where the document sent it,
\* with the balancer in the place of the proxy and of the document's own
\* balancers: what was blocked or sent direct still is.
RouteKept(doc, balancing) ==
    balancing # NotManaged =>
      \A t \in doc.traffic :
         LET new == Route(apply_host_balancer(doc, balancing, <<Proxy>>).rules, t)
             old == Rewritten(Route(doc.rules, t))
         IN  new.outbound = old.outbound /\ new.balancer = old.balancer

\* A balancing the model of a host accepts has the probe its strategy reads.
AcceptedBalancingApplies(strategy, probe) == ~ProbeMissing(HostBalancing(strategy, probe))

\* For a user who is blocked nowhere the sources in the composed document are
\* those the form has shown, in the order shown, when it showed no error.
PreviewTold(recipient, hosts) ==
    LET candidates == {h \in hosts : h.active /\ ~h.disabled /\ h.inj.kind # "bad"}
        composed == compose_endpoints(recipient, candidates, 0)
        shown == FlattenSeq([k \in DOMAIN recipient.inj.groups |-> Preview(recipient, hosts, k)])
        Of(h) == [k \in DOMAIN h.endpoints |-> h.id]
        sources == (IF recipient.inj.own THEN Of(recipient) ELSE <<>>)
                     \o FlattenSeq([k \in DOMAIN shown |-> Of(shown[k])])
    IN  ~PreviewError(recipient) /\ composed.err = "" =>
          [k \in DOMAIN composed.endpoints |-> composed.endpoints[k].src] = sources
=============================================================================
