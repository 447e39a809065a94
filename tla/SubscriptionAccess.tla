-------------------------- MODULE SubscriptionAccess --------------------------
(***************************************************************************)
(* Requests to /sub/<token> of one user: which token is alive, which       *)
(* device is registered, who gets the servers and who gets dead stubs.     *)
(* Requests run in threads, each with its own database session; a step     *)
(* below ends where the code commits, or where it has read what a later    *)
(* commit relies on.  What a session has read between two commits is one   *)
(* snapshot (repeatable read); after a commit the row is read again,       *)
(* because sessions expire their objects on commit.                        *)
(*                                                                         *)
(* Time is counted in ticks, two to a second: created_at of a token is a   *)
(* whole second rounded up, sub_revoked_at is the exact instant.           *)
(***************************************************************************)
EXTENDS Naturals, FiniteSets

CONSTANTS
    Requests,          \* threads that serve requests
    Hwids,             \* hardware ids that admins enter
    Clients,           \* thread -> the <<hwid, user agent>> pairs it is sent
    MaxDevices,        \* bound: device rows ever inserted
    MaxClock,          \* bound: the last tick
    Limits,            \* values of users.device_limit, 0 = no limit
    HardMode,          \* sub_device_limit_hard_mode of the bot
    RevokeCrossesToken \* may revoke_sub commit while a request stores a token?

Unknown == "unknown"    \* UNKNOWN_DEVICE_HWID, the row of clients without a hwid
NoUA    == "noua"       \* an empty or placeholder user agent
None    == MaxClock + 9 \* no token, no revocation
NoDev   == 0            \* no device row
CreatedAt == 1          \* users.created_at

\* What the constants have to be.
SubAssumption == MaxDevices \in Nat /\ MaxClock \in Nat \ {0} /\ Limits \subseteq Nat

VARIABLES
    clock,
    limit,      \* users.device_limit
    revokedAt,  \* users.sub_revoked_at
    token,      \* created_at of users.subscription_token, or None
    keys,       \* when the user's proxy credentials were made
    issued,     \* created_at of every token ever handed out
    device,     \* row id -> [hwid, ua, status]
    lastId,     \* the last row id: ids and first_seen grow together
    req,        \* thread -> its request
    told        \* row id -> the last answer, forgotten when rows or limit change

vars == <<clock, limit, revokedAt, token, keys, issued, device, lastId, req, told>>
user == <<limit, revokedAt, token, keys, issued>>
rows == <<device, lastId>>

Ids == 1..MaxDevices
Live == {i \in Ids : device[i].status # "absent"}
NoRow == [hwid |-> Unknown, ua |-> NoUA, status |-> "absent"]
Idle == [pc |-> "idle", tok |-> 0, hwid |-> Unknown, ua |-> NoUA,
         keys |-> 0, made |-> None, dev |-> NoDev, wake |-> FALSE]

(***************************************************************************)
(* Helpers.                                                                *)
(***************************************************************************)

\* create_subscription_token: username + "," + ceil(time.time())
TokenMadeAt(t) == ((t + 1) \div 2) * 2

IsRevokedLenient(t) == revokedAt # None /\ revokedAt > t + 2
IsRevokedAtOnce(t) == revokedAt # None /\ revokedAt >= t

\* sub_revoked_at > created_at, a revocation that is not there revokes nothing
IsRevoked(t) == revokedAt # None /\ revokedAt > t

\* unknown_user_agents_match
UserAgentsMatch(stored, incoming) ==
    stored = NoUA \/ (incoming # NoUA /\ stored = incoming)

\* get_user_device_by_hwid: (user_id, hwid) is unique
ByHwid(h) == {i \in Live : device[i].hwid = h}

Active == {i \in Live : device[i].status = "active"}

\* count_user_devices
CountDevices == Cardinality({i \in Live : device[i].status # "revoked"})

\* _hard_mode_blocks_new_device
HardModeBlocks == HardMode /\ limit # 0 /\ CountDevices >= limit

RankAt(i) == Cardinality({j \in Active : j < i})

IsWithinLimitOffByOne(i) == limit = 0 \/ (i \in Active /\ RankAt(i) <= limit)

IsWithinLimitNewestFirst(i) ==
    limit = 0 \/ (i \in Active /\ Cardinality({j \in Active : j > i}) < limit)

\* is_device_within_limit: among the first N active by first_seen, then id
IsWithinLimit(i) == limit = 0 \/ (i \in Active /\ RankAt(i) < limit)

Forget == told' = [i \in Ids |-> "none"]

(***************************************************************************)
(* A request of a client.                                                  *)
(***************************************************************************)

\* resolve_subscription_context reads the user and compares its times with the
\* token's; a token older than the user is not found, a revoked one ends with
\* stubs and registers no device.  With no stored token
\* ensure_subscription_token makes one (Ensure commits it) in both cases.
Resolve(r, t, h, ua) ==
    /\ req[r].pc = "idle" /\ t \in issued /\ ~(CreatedAt > t)
    /\ token = None \/ ~IsRevoked(t)
    /\ req' = [req EXCEPT ![r] =
         [Idle EXCEPT !.tok = t, !.hwid = h, !.ua = ua, !.keys = keys,
            !.made = IF token = None THEN TokenMadeAt(clock) ELSE None,
            !.pc = IF token # None THEN "register"
                   ELSE IF IsRevoked(t) THEN "ensure_revoked" ELSE "ensure"]]
    /\ UNCHANGED <<clock, user, rows, told>>

\* ensure_subscription_token: commit and refresh, which reads the user again
\* while is_revoked keeps its value.
Ensure(r) ==
    /\ req[r].pc \in {"ensure", "ensure_revoked"}
    /\ token' = req[r].made
    /\ issued' = issued \cup {req[r].made}
    /\ req' = [req EXCEPT ![r] = IF @.pc = "ensure_revoked" THEN Idle
                                 ELSE [@ EXCEPT !.keys = keys, !.made = None, !.pc = "register"]]
    /\ UNCHANGED <<clock, limit, revokedAt, keys, rows, told>>

\* register_user_device up to its write: the lookup by hwid, the user agent of
\* a client without one, and in hard mode the count of the devices.
Register(r) ==
    /\ req[r].pc = "register"
    /\ LET known == ByHwid(req[r].hwid)
           matches(i) == req[r].hwid # Unknown \/ UserAgentsMatch(device[i].ua, req[r].ua)
       IN
       \/ \E i \in known : ~matches(i) /\ req' = [req EXCEPT ![r] = Idle]
       \/ \E i \in known :
            /\ matches(i)
            /\ req' = [req EXCEPT ![r].pc = "touch", ![r].dev = i,
                                  ![r].wake = (device[i].status = "revoked")]
       \/ known = {} /\ HardModeBlocks /\ req' = [req EXCEPT ![r] = Idle]
       \/ known = {} /\ ~HardModeBlocks /\ req' = [req EXCEPT ![r].pc = "insert"]
    /\ UNCHANGED <<clock, user, rows, told>>

\* _update_device_metadata and its commit.  Only attributes that changed are
\* written, so the status only when the row was read as revoked.  A row deleted
\* in between fails the update and the request.
Touch(r) ==
    /\ req[r].pc = "touch"
    /\ LET i == req[r].dev IN
       \/ /\ i \in Live
          /\ device' = [device EXCEPT
               ![i].ua = IF req[r].ua = NoUA THEN @ ELSE req[r].ua,
               ![i].status = IF req[r].wake THEN "active" ELSE @]
          /\ IF device' = device THEN UNCHANGED told ELSE Forget
          /\ req' = [req EXCEPT ![r].pc = "decide", ![r].dev = NoDev, ![r].wake = FALSE]
       \/ /\ i \notin Live
          /\ req' = [req EXCEPT ![r] = Idle]
          /\ UNCHANGED <<device, told>>
    /\ UNCHANGED <<clock, user, lastId>>

\* The insert of a new row; the unique key turns a second insert of the hwid
\* into an IntegrityError that the request takes for success.
Insert(r) ==
    /\ req[r].pc = "insert"
    /\ \/ /\ ByHwid(req[r].hwid) = {} /\ lastId < MaxDevices
          /\ lastId' = lastId + 1
          /\ device' = [device EXCEPT ![lastId + 1] =
                [hwid |-> req[r].hwid, ua |-> req[r].ua, status |-> "active"]]
          /\ Forget
       \/ /\ ByHwid(req[r].hwid) # {}
          /\ UNCHANGED <<rows, told>>
    /\ req' = [req EXCEPT ![r].pc = "decide"]
    /\ UNCHANGED <<clock, user>>

\* resolve_device_limit_subscription_state after the registration: the row is
\* read again by hwid, and hard mode turns "over the limit" into stubs.
Decide(r) ==
    /\ req[r].pc = "decide"
    /\ LET known  == ByHwid(req[r].hwid)
           within == limit = 0 \/ \E i \in known : IsWithinLimit(i)
           answer == IF within THEN "full" ELSE IF HardMode THEN "stub" ELSE "warned"
       IN told' = [i \in Ids |-> IF i \in known THEN answer ELSE told[i]]
    /\ req' = [req EXCEPT ![r] = [Idle EXCEPT !.pc = "background"]]
    /\ UNCHANGED <<clock, user, rows>>

\* _update_user_sub_bg after the answer: stores a token when there is none.
Background(r) ==
    /\ req[r].pc = "background"
    /\ token' = IF token = None THEN TokenMadeAt(clock) ELSE token
    /\ issued' = issued \cup {token'}
    /\ req' = [req EXCEPT ![r] = Idle]
    /\ UNCHANGED <<clock, limit, revokedAt, keys, rows, told>>

(***************************************************************************)
(* The panel's API and the user's own page.                                *)
(***************************************************************************)

\* add_user_device: in hard mode the limit is checked first.
AddDevice(h) ==
    /\ ~HardModeBlocks /\ ByHwid(h) = {} /\ lastId < MaxDevices
    /\ lastId' = lastId + 1
    /\ device' = [device EXCEPT ![lastId + 1] = [hwid |-> h, ua |-> NoUA, status |-> "active"]]
    /\ Forget
    /\ UNCHANGED <<clock, user, req>>

\* update_user_device: 409 when another row has the hwid
UpdateDevice(i, h) ==
    /\ i \in Live /\ ByHwid(h) \subseteq {i} /\ device[i].hwid # h
    /\ device' = [device EXCEPT ![i].hwid = h]
    /\ Forget
    /\ UNCHANGED <<clock, user, lastId, req>>

DeleteDevice(i) ==
    /\ i \in Live
    /\ device' = [device EXCEPT ![i] = NoRow]
    /\ Forget
    /\ UNCHANGED <<clock, user, lastId, req>>

\* revoke_subscription_device, from the user's page: only with a live token and
\* only an active device
RevokeDevice(i, t) ==
    /\ t \in issued /\ ~(CreatedAt > t) /\ ~IsRevoked(t)
    /\ i \in Active
    /\ device' = [device EXCEPT ![i].status = "revoked"]
    /\ Forget
    /\ UNCHANGED <<clock, user, lastId, req>>

\* update_user with a new device_limit
SetLimit(n) ==
    /\ n # limit
    /\ limit' = n
    /\ Forget
    /\ UNCHANGED <<clock, revokedAt, token, keys, issued, rows, req>>

\* revoke_user_sub: every device is revoked, the stored token is cleared and the
\* credentials are made anew
RevokeSub ==
    /\ RevokeCrossesToken \/ \A r \in Requests : req[r].pc \notin {"ensure", "ensure_revoked"}
    /\ revokedAt' = clock /\ token' = None /\ keys' = clock
    /\ device' = [i \in Ids |-> IF i \in Live THEN [device[i] EXCEPT !.status = "revoked"]
                                ELSE device[i]]
    /\ Forget
    /\ UNCHANGED <<clock, limit, issued, lastId, req>>

Tick ==
    /\ clock < MaxClock
    /\ clock' = clock + 1
    /\ UNCHANGED <<user, rows, req, told>>

(***************************************************************************)
(* The specification.                                                      *)
(***************************************************************************)

Init ==
    /\ clock = CreatedAt /\ limit \in Limits
    /\ revokedAt = None /\ token = TokenMadeAt(CreatedAt) /\ keys = CreatedAt
    /\ issued = {0, TokenMadeAt(CreatedAt)}
    /\ device = [i \in Ids |-> NoRow] /\ lastId = 0
    /\ req = [r \in Requests |-> Idle]
    /\ told = [i \in Ids |-> "none"]

Request(r) ==
    \/ \E t \in issued, c \in Clients[r] : Resolve(r, t, c[1], c[2])
    \/ Ensure(r) \/ Register(r) \/ Touch(r) \/ Insert(r) \/ Decide(r) \/ Background(r)

Next ==
    \/ \E r \in Requests : Request(r)
    \/ \E h \in Hwids : AddDevice(h)
    \/ \E i \in Ids, h \in Hwids : UpdateDevice(i, h)
    \/ \E i \in Ids : DeleteDevice(i)
    \/ \E i \in Ids, t \in issued : RevokeDevice(i, t)
    \/ \E n \in Limits : SetLimit(n)
    \/ RevokeSub
    \/ Tick

Spec == Init /\ [][Next]_vars

(***************************************************************************)
(* Properties.                                                             *)
(***************************************************************************)

\* However requests, registrations and revocations interleave, the devices that
\* have all asked since the rows last changed and were given the plain servers
\* are never more than users.device_limit (is_device_within_limit).
ServedWithinLimit ==
    limit = 0 \/ Cardinality({i \in Ids : told[i] = "full"}) <= limit

\* The order by first_seen protects who was there first: a device inside the
\* limit leaves it only by its own row's change, by another limit, or because an
\* older revoked device came back.  No new device takes its place.
NoNewcomerStep ==
    \A i \in Active :
      (IsWithinLimit(i) /\ limit' = limit /\ i \in Active' /\ ~IsWithinLimit(i)')
         => \E j \in Ids : j < i /\ device[j].status = "revoked" /\ j \in Active'
NoNewcomerDisplaces == [][NoNewcomerStep]_vars

\* A request whose token a revocation has killed never leaves with credentials
\* made by that revocation: is_revoked and the proxies come from one read.
RevokedTokenGetsOldKeys ==
    \A r \in Requests :
        req[r].pc \in {"register", "touch", "insert", "decide"}
            => (req[r].keys > CreatedAt => ~(req[r].keys > req[r].tok))

\* The link that the panel stores and shows is alive: rounding up in
\* create_subscription_token puts it after the user's creation and after a
\* revocation of the same second.
StoredTokenAlive == token # None => ~(CreatedAt > token) /\ ~IsRevoked(token)

\* The two together: what a revocation does to tokens.
TokensAlive == StoredTokenAlive /\ RevokedTokenGetsOldKeys

===============================================================================
