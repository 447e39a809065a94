-------------------------- MODULE SubscriptionRender --------------------------
(***************************************************************************)
(* What one subscription request gets to see: the context of the request   *)
(* (revoked, expired, over the device limit, unsupported client, blocked   *)
(* BS nodes), the format of the answer, the hosts the user may see and the *)
(* servers written into the answer, alive or as placeholders.              *)
(*                                                                         *)
(* A node is its own address.  A server in the answer is a record          *)
(*   [kind, host, addresses]   kind "live" or "stub"                       *)
(* whose addresses are those of the panel's nodes or hosts; a stub has     *)
(* none of them.                                                           *)
(***************************************************************************)
EXTENDS HostInjection

Formats == {"v2ray", "v2ray-json", "clash", "clash-meta", "sing-box", "outline", "incy"}

(***************************************************************************)
(* app/xray/host_addresses.py                                              *)
(***************************************************************************)

addresses_from_nodes(h) == h.source = "selected" \/ h.static = <<>>

visible_nodes(h, disabled) ==
    CASE h.source = "selected" -> h.pool \ disabled
      [] h.static # <<>>       -> h.nodes
      [] OTHER                 -> h.nodes \ disabled

NodeOrder(a, b) == a < b

resolve_host_addresses(h, disabled) ==
    IF addresses_from_nodes(h) THEN SetToSortSeq(visible_nodes(h, disabled), NodeOrder) ELSE h.static

resolve_host_node_idsLive(h, disabled) == visible_nodes(h, disabled) \ disabled
resolve_host_node_ids(h, disabled) == visible_nodes(h, disabled)

host_has_bs_node(h, disabled, bsnodes) == visible_nodes(h, disabled) \cap bsnodes # {}

host_allowed_for_bot(h, bot) == bot # "" /\ bot \in h.bots

(***************************************************************************)
(* The request's context.                                                  *)
(***************************************************************************)

\* resolve_device_limit_subscription_state: the device is looked at only for a
\* live token, and whoever gets nothing has the keys and inbounds taken out.
resolve_device_limit_subscription_stateKeysLeft(r) ==
    LET looked == ~r.revoked /\ ~r.expired
        over == looked /\ ~r.unsupported /\ ~r.within
    IN  [limited |-> over, hard |-> over /\ r.hard_mode, unsupported |-> looked /\ r.unsupported,
         keys |-> ~(r.revoked \/ r.expired \/ (over /\ r.hard_mode))]

resolve_device_limit_subscription_state(r) ==
    LET looked == ~r.revoked /\ ~r.expired
        over == looked /\ ~r.unsupported /\ ~r.within
    IN  [limited |-> over, hard |-> over /\ r.hard_mode, unsupported |-> looked /\ r.unsupported,
         keys |-> ~(r.revoked \/ r.expired \/ (looked /\ r.unsupported) \/ (over /\ r.hard_mode))]

\* build_bs_context
build_bs_context(r, blocked) == IF r.revoked \/ r.expired THEN {} ELSE blocked

\* resolve_announce_text: texts are the ones that have been filled in.
resolve_announce_text(r, st, bs, texts) ==
    CASE r.revoked /\ "revoked" \in texts          -> "revoked"
      [] r.expired /\ "expired" \in texts          -> "expired"
      [] st.limited /\ "device" \in texts          -> "device"
      [] st.unsupported /\ "unsupported" \in texts -> "unsupported"
      [] bs # {} /\ "bs" \in texts                 -> "bs"
      [] OTHER                                     -> "note"

\* pick_status_stub_text_list
pick_status_stub_text_listSwapped(r, st, texts) ==
    LET why == CASE r.expired      -> "expired"
                 [] r.revoked      -> "revoked"
                 [] st.hard        -> "device"
                 [] st.unsupported -> "unsupported"
                 [] OTHER          -> ""
    IN  IF why \in texts THEN why ELSE ""

pick_status_stub_text_list(r, st, texts) ==
    LET why == CASE r.revoked      -> "revoked"
                 [] r.expired      -> "expired"
                 [] st.hard        -> "device"
                 [] st.unsupported -> "unsupported"
                 [] OTHER          -> ""
    IN  IF why \in texts THEN why ELSE ""

(***************************************************************************)
(* prepare_candidates.  ctx: bot, disabled, bsnodes, blocked, keys (the    *)
(* protocols the user has), active (the inbounds of the core).  size is    *)
(* how many of a host's addresses the policy leaves, 0 for all of them;    *)
(* which ones it leaves is in AddressPolicy.                               *)
(***************************************************************************)

Left(addresses, size) ==
    IF size \in 1..Len(addresses) THEN SubSeq(addresses, 1, size) ELSE addresses

Candidate(h, ctx, size) ==
    LET all == resolve_host_addresses(h, ctx.disabled)
    IN  [id |-> h.id, order |-> h.order, hidden |-> h.hidden, disabled |-> h.disabled,
         gtag |-> h.gtag, remark |-> h.remark, inj |-> h.inj, dialer |-> h.dialer,
         is_bs |-> host_has_bs_node(h, ctx.disabled, ctx.bsnodes),
         blocked |-> resolve_host_node_ids(h, ctx.disabled) \cap ctx.blocked # {},
         balancing |-> h.balancing,
         endpoints |-> IF h.inj.kind = "on" \/ all = <<>> THEN all ELSE Left(all, size)]

\* The hosts that are left out: of an inbound without keys or that the core does
\* not have, of another bot, disabled, with a malformed directive, or living off
\* an empty pool of selected nodes.
Offered(h, ctx) ==
    /\ ctx.keys
    /\ h.inbound \in ctx.inbounds \cap ctx.active
    /\ host_allowed_for_bot(h, ctx.bot)
    /\ ~h.disabled
    /\ h.inj.kind # "bad"
    /\ h.inj.kind = "on" \/ h.source # "selected" \/ resolve_host_addresses(h, ctx.disabled) # <<>>

prepare_candidates(hosts, ctx, size) ==
    {Candidate(h, ctx, size) : h \in {x \in hosts : Offered(x, ctx)}}

(***************************************************************************)
(* process_inbounds_and_tags: one server per candidate that is not hidden, *)
(* in the order of the hosts.  Hosts of the same order come as their       *)
(* inbounds do; here, by id.                                               *)
(***************************************************************************)

Server(kind, c, addresses) == [kind |-> kind, host |-> c.id, addresses |-> addresses]

\* An injecting host exists in the JSON format only; what it composes may turn
\* out empty or refused, and then the host is left out.
Composed(c, r, doc) ==
    CASE r.err # "" -> <<>>
      [] r.endpoints = <<>> -> IF r.all_blocked THEN <<Server("stub", c, {})>> ELSE <<>>
      [] add_composed(r.endpoints, doc, c.balancing).err # "" -> <<>>
      [] OTHER -> <<Server("live", c, {r.endpoints[k].addr : k \in DOMAIN r.endpoints})>>
ComposedServer(c, candidates, doc) == Composed(c, compose_endpoints(c, candidates, 0), doc)

OneServerBlockedDropped(c, candidates, json, doc) ==
    CASE c.hidden \/ c.blocked \/ c.inj.kind = "on" -> <<>>
      [] OTHER -> <<Server("live", c, ToSet(c.endpoints))>>

\* Outside the JSON format, and for a single address without balancing, one
\* address is drawn from the list.
OneServer(c, candidates, json, doc) ==
    CASE c.hidden -> <<>>
      [] c.inj.kind = "on" /\ ~json -> <<>>
      [] c.inj.kind = "on" -> ComposedServer(c, candidates, doc)
      [] c.blocked -> <<Server("stub", c, {})>>
      [] json /\ (Len(c.endpoints) > 1 \/ c.balancing # NotManaged) -> <<Server("live", c, ToSet(c.endpoints))>>
      [] c.endpoints = <<>> -> <<Server("live", c, {})>>
      [] OTHER -> <<Server("live", c, {CHOOSE a \in ToSet(c.endpoints) : TRUE})>>

process_inbounds_and_tags(candidates, json, doc) ==
    LET sorted == SetToSortSeq(candidates, InOrder)
    IN  FlattenSeq([k \in DOMAIN sorted |-> OneServer(sorted[k], candidates, json, doc)])

(***************************************************************************)
(* generate_subscription.                                                  *)
(***************************************************************************)

RenderFormat(format, json_default) ==
    IF format = "incy" THEN IF json_default THEN "v2ray-json" ELSE "v2ray" ELSE format

Placeholder(why) == [kind |-> "stub", host |-> why, addresses |-> {}]

\* why names the placeholder servers put before (or in the place of) the others.
generate_subscription(format, r, st, texts, hosts, ctx, doc, json_default, size) ==
    LET rendered == RenderFormat(format, json_default)
        links == rendered \in {"v2ray", "v2ray-json"}
        dead == r.revoked \/ r.expired \/ st.unsupported \/ st.hard
        bs == build_bs_context(r, ctx.blocked)
        ctx2 == [ctx EXCEPT !.keys = st.keys, !.blocked = bs]
        servers == process_inbounds_and_tags(prepare_candidates(hosts, ctx2, size),
                                             rendered = "v2ray-json", doc)
    IN  [why |-> CASE links /\ dead -> pick_status_stub_text_list(r, st, texts)
                   [] links /\ st.limited /\ "device" \in texts -> "device"
                   [] OTHER -> "",
         servers |-> IF links /\ dead THEN <<>> ELSE servers]

(***************************************************************************)
(* The plan of the answer.                                                 *)
(***************************************************************************)

Plan(format, as_base64, reverse, media) ==
    [format |-> format, base64 |-> as_base64, reverse |-> reverse, media |-> media]

resolve_incy_media_typeText(json_default) == "text/plain"
resolve_incy_media_type(json_default) == IF json_default THEN "application/json" ELSE "text/plain"

\* A client is the name its user agent carries and whether its version reaches
\* the first and the second mark.  json is what config.py switches on.
resolve_subscription_plan_by_user_agent(client, v1, v2, json_default, json_for) ==
    LET asked(c) == json_default \/ c \in json_for
        Json(reverse) == Plan("v2ray-json", FALSE, reverse, "application/json")
        Links == Plan("v2ray", TRUE, FALSE, "text/plain")
    IN  CASE client = "clash-meta" -> Plan("clash-meta", FALSE, FALSE, "text/yaml")
          [] client = "clash"      -> Plan("clash", FALSE, FALSE, "text/yaml")
          [] client = "sing-box"   -> Plan("sing-box", FALSE, FALSE, "application/json")
          [] client = "outline"    -> Plan("outline", FALSE, FALSE, "application/json")
          [] client \in {"v2rayN", "Happ"} /\ asked(client) -> IF v1 THEN Json(FALSE) ELSE Links
          [] client = "v2rayNG" /\ asked(client) ->
                IF v2 THEN Json(FALSE) ELSE IF v1 THEN Json(TRUE) ELSE Links
          [] client = "streisand"  -> IF asked(client) THEN Json(FALSE) ELSE Links
          [] client = "INCY"       -> Plan("incy", FALSE, FALSE, resolve_incy_media_type(json_default))
          [] OTHER                 -> Links

resolve_subscription_plan_by_client_type(type, json_default) ==
    Plan(type, type = "v2ray", FALSE,
         CASE type \in {"clash", "clash-meta"} -> "text/yaml"
           [] type = "v2ray"                   -> "text/plain"
           [] type = "incy"                    -> resolve_incy_media_type(json_default)
           [] OTHER                            -> "application/json")

\* generate_subscription: what the plan's base64 becomes for INCY.
Encoded(plan, json_default) ==
    IF plan.format = "incy" THEN RenderFormat(plan.format, json_default) = "v2ray" ELSE plan.base64

(***************************************************************************)
(* Support and the page of an unknown token.                               *)
(***************************************************************************)

\* build_support_context; s is the set of what the bot's settings have filled in.
resolve_support_chat(s, hasbot) == hasbot /\ "chat" \in s
build_support_context(s, hasbot, allow_chat) ==
    LET chat == allow_chat /\ resolve_support_chat(s, hasbot)
    IN  CASE chat /\ "telegram" \in s -> "menu"
          [] chat                     -> "chat"
          [] "telegram" \in s         -> "telegram"
          [] OTHER                    -> "none"

\* The page of the same user, or the telegram link.
resolve_support_url_headerRevokedToo(s, revoked) == IF "chat" \notin s THEN "telegram" ELSE "page"
resolve_support_url_header(s, revoked) == IF revoked \/ "chat" \notin s THEN "telegram" ELSE "page"

\* _resolve_bot_settings_for_token: whose settings the 404 page uses ("env" are
\* the panel's own defaults, "" none).  owner is the bot of the user the token
\* names: "" for a user without one and for no user at all.
_resolve_bot_settings_for_tokenAlwaysEnv(owner, bots, settled) ==
    IF owner # "" /\ owner \in settled THEN owner ELSE "env"

_resolve_bot_settings_for_token(owner, bots, settled) ==
    IF owner # "" /\ owner \in settled THEN owner
    ELSE IF Cardinality(bots) > 1 THEN ""
    ELSE IF bots \cap settled # {} THEN CHOOSE b \in bots \cap settled : TRUE
    ELSE "env"

(***************************************************************************)
(* Properties.                                                             *)
(***************************************************************************)

\* A request that is not to be served (revoked, expired, unsupported client,
\* over the limit in hard mode) learns no address in any of the seven formats.
DeadLearnsNothing(r, texts, hosts, ctx, doc, json_default, size) ==
    LET st == resolve_device_limit_subscription_state(r)
    IN  (r.revoked \/ r.expired \/ st.unsupported \/ st.hard) =>
          \A f \in Formats :
             generate_subscription(f, r, st, texts, hosts, ctx, doc, json_default, size).servers = <<>>

\* The announcement over the servers and the placeholder among them give the
\* same reason, when the texts of all reasons are filled in.
ReasonsAgree(r, hosts, ctx, doc, json_default, size) ==
    LET st == resolve_device_limit_subscription_state(r)
        texts == {"revoked", "expired", "device", "unsupported", "bs"}
        told == resolve_announce_text(r, st, build_bs_context(r, ctx.blocked), texts)
    IN  \A f \in {"v2ray", "v2ray-json", "incy"} :
          generate_subscription(f, r, st, texts, hosts, ctx, doc, json_default, size).why
             = IF told \in {"bs", "note"} THEN "" ELSE told

\* The address of a node the user is blocked on, and the address of a host such
\* a node stands behind, is in no server of no format: neither at its own place
\* nor lent to another host.
BlockedAddressHidden(hosts, ctx, doc, size) ==
    \A json \in BOOLEAN :
      \A s \in ToSet(process_inbounds_and_tags(prepare_candidates(hosts, ctx, size), json, doc)) :
        \A a \in s.addresses :
           /\ a \notin ctx.blocked
           /\ \A h \in hosts : a \in ToSet(h.static) /\ ~addresses_from_nodes(h) =>
                                  h.nodes \cap ctx.blocked = {}

\* Everybody else is served: each host of the user's bot that is neither hidden
\* nor disabled nor an injecting one has its place in every format, and the
\* places are in the order of the hosts.
EveryHostServed(hosts, ctx, doc, size) ==
    \A json \in BOOLEAN :
      \A servers \in {process_inbounds_and_tags(prepare_candidates(hosts, ctx, size), json, doc)} :
        LET At(i) == CHOOSE h \in hosts : h.id = i
        IN  /\ \A h \in hosts :
                 /\ Offered(h, ctx) /\ ~h.hidden /\ h.inj.kind # "on"
                 => \E k \in DOMAIN servers : servers[k].host = h.id
            /\ \A j, k \in DOMAIN servers :
                 j < k => At(servers[j].host).order <= At(servers[k].host).order

\* The media type, the encoding and the rendered format of an answer go together
\* for every client and every setting, whichever endpoint is asked.
PlanIsConsistent(plan, json_default) ==
    LET rendered == RenderFormat(plan.format, json_default)
    IN  /\ Encoded(plan, json_default) = (rendered = "v2ray")
        /\ plan.media = CASE rendered = "v2ray"                    -> "text/plain"
                          [] rendered \in {"clash", "clash-meta"}  -> "text/yaml"
                          [] OTHER                                 -> "application/json"

\* The header that sends a client to the page for its chat is set only when the
\* page has one.
SupportPageHasChat(s, hasbot, revoked) ==
    hasbot /\ resolve_support_url_header(s, revoked) = "page" =>
       build_support_context(s, hasbot, ~revoked) \in {"menu", "chat"}

\* The same for a user without a bot.
SupportPageHasChatAlways(s, hasbot, revoked) ==
    resolve_support_url_header(s, revoked) = "page" =>
       build_support_context(s, hasbot, ~revoked) \in {"menu", "chat"}

\* The page of an unknown token never leads to somebody else's bot: with several
\* bots only the owner's link is shown, and the panel's default only without bots
\* that have settings.
NoForeignBot(owner, bots, settled) ==
    LET from == _resolve_bot_settings_for_token(owner, bots, settled)
    IN  Cardinality(bots) > 1 => from \in {owner, ""}
=============================================================================
