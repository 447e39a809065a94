----------------------------- MODULE PanelProofs -----------------------------
(***************************************************************************)
(* Theorems of three parts of MCPanel, each about its own variables alone: *)
(*   SubscriptionAccess  for any number of concurrent requests, devices,   *)
(*                       limits and seconds, no more devices are served    *)
(*                       than the limit allows, no new device takes the    *)
(*                       place of an older one, and a revocation kills the *)
(*                       tokens made before it and no other;               *)
(*   Reminders           for any thresholds, traffic and days, a reminder  *)
(*                       is sent once while its threshold stays reached,   *)
(*                       and none is forgotten;                            *)
(*   ManagedBots         for any bots and sources, what a push set stands  *)
(*                       and the panel's forms keep to what is theirs.     *)
(***************************************************************************)
EXTENDS SubscriptionAccess, Reminders, ManagedBots, FiniteSetTheorems, TLAPS

(***************************************************************************)
(* Requests to /sub/<token> of one user.                                   *)
(***************************************************************************)

Sent == UNION {Clients[r] : r \in Requests}
AllHwids == Hwids \cup {Unknown} \cup {c[1] : c \in Sent}
AllAgents == {NoUA} \cup {c[2] : c \in Sent}

Row == [hwid : AllHwids, ua : AllAgents, status : {"absent", "active", "revoked"}]

ReqPCs == {"idle", "ensure", "ensure_revoked", "register", "touch", "insert", "decide", "background"}

Req == [pc : ReqPCs, tok : Nat, hwid : AllHwids, ua : AllAgents, keys : Nat, made : Nat,
        dev : Nat, wake : BOOLEAN]

\* The rows: ids are given in order, and a hardware id has one row.
RowsOK ==
    /\ limit \in Nat /\ device \in [Ids -> Row] /\ lastId \in 0..MaxDevices
    /\ req \in [Requests -> Req]
    /\ \A i \in Live : i <= lastId
    /\ \A i, j \in Live : device[i].hwid = device[j].hwid => i = j

\* Who was given the servers is still inside the limit.
ToldOK ==
    /\ told \in [Ids -> {"none", "full", "stub", "warned"}]
    /\ \A i \in Ids : told[i] = "full" => IsWithinLimit(i)

\* The clock: nothing is made in the future, and None is no time.
TimesOK ==
    /\ clock \in 1..MaxClock
    /\ revokedAt = None \/ revokedAt \in 1..clock
    /\ keys \in 1..clock /\ (keys > CreatedAt => revokedAt = keys)
    /\ token = None \/ token \in 1..(MaxClock + 1)
    /\ issued \subseteq Nat
    /\ \A r \in Requests :
         req[r].pc \in {"ensure", "ensure_revoked"} => req[r].made \in 1..(MaxClock + 1)

\* The stored token, or one about to be stored, is as young as the last
\* revocation; a request under way holds keys that its token may have.
TokensOK ==
    /\ token # None => ~IsRevoked(token)
    /\ \A r \in Requests :
         /\ req[r].pc \in {"ensure", "ensure_revoked"} => ~IsRevoked(req[r].made)
         /\ req[r].pc = "ensure" => ~IsRevoked(req[r].tok)
    /\ RevokedTokenGetsOldKeys

-----------------------------------------------------------------------------
\* Facts about the operators.

\* ceil(time.time()) is not before the instant, and at most one tick after it.
LEMMA MadeAt ==
  ASSUME NEW t \in Nat PROVE TokenMadeAt(t) \in Nat /\ TokenMadeAt(t) >= t /\ TokenMadeAt(t) <= t + 1
  BY DEF TokenMadeAt

\* Of the members of A, those with fewer than L smaller ones are at most L.
LEMMA RankedFew ==
  ASSUME NEW A, A \subseteq Nat, IsFiniteSet(A), NEW L \in Nat
  PROVE  LET S == {i \in A : Cardinality({j \in A : j < i}) < L}
         IN  IsFiniteSet(S) /\ Cardinality(S) <= L
<1> DEFINE Below(i) == {j \in A : j < i}
           S == {i \in A : Cardinality(Below(i)) < L}
           f == [i \in S |-> Cardinality(Below(i))]
<1>1. ASSUME NEW i \in A
      PROVE  IsFiniteSet(Below(i)) /\ Cardinality(Below(i)) \in Nat
  <2>1. Below(i) \in SUBSET A
    OBVIOUS
  <2>2. IsFiniteSet(Below(i))
    BY <2>1, FS_Subset
  <2> QED BY <2>2, FS_CardinalityType
<1>2. ASSUME NEW i \in A, NEW k \in A, i < k
      PROVE  Cardinality(Below(i)) # Cardinality(Below(k))
  <2>0. i \in Nat /\ k \in Nat
    OBVIOUS
  <2>1. Below(i) \in SUBSET Below(k) /\ i \in Below(k) /\ i \notin Below(i)
    <3>1. ASSUME NEW j \in Below(i) PROVE j \in Below(k)
      <4>1. j \in A /\ j \in Nat /\ j < i
        OBVIOUS
      <4> QED BY <1>2, <2>0, <4>1
    <3>2. i \in Below(k) /\ i \notin Below(i)
      BY <1>2, <2>0
    <3> HIDE DEF Below
    <3> QED BY <3>1, <3>2
  <2>2. Below(k) # Below(i)
    BY <2>1
  <2> HIDE DEF Below
  <2> QED BY <1>1, <2>1, <2>2, FS_Subset
<1>3. f \in [S -> 0..(L - 1)]
  <2>1. ASSUME NEW i \in S PROVE Cardinality(Below(i)) \in 0..(L - 1)
    <3>1. i \in A /\ Cardinality(Below(i)) < L
      OBVIOUS
    <3>2. Cardinality(Below(i)) \in Nat
      BY <1>1, <3>1
    <3> HIDE DEF Below, S
    <3> QED BY <3>1, <3>2
  <2> HIDE DEF Below, S
  <2> QED BY <2>1
<1>4. ASSUME NEW i \in S, NEW k \in S, f[i] = f[k] PROVE i = k
  <2>1. i \in A /\ k \in A /\ i \in Nat /\ k \in Nat
    OBVIOUS
  <2>2. Cardinality(Below(i)) = Cardinality(Below(k))
    BY <1>4
  <2> HIDE DEF S, f, Below
  <2> QED BY <1>2, <2>1, <2>2
<1>5. f \in Injection(S, 0..(L - 1))
  <2> HIDE DEF f, S
  <2> QED BY <1>3, <1>4 DEF Injection, IsInjective
<1>6. IsFiniteSet(0..(L - 1)) /\ Cardinality(0..(L - 1)) = L
  BY FS_Interval
<1>7. IsFiniteSet(S) /\ Cardinality(S) <= L
  <2> HIDE DEF f, S
  <2> QED BY <1>5, <1>6, FS_Injection
<1> QED BY <1>7

LEMMA IdsFinite ==
  ASSUME SubAssumption PROVE IsFiniteSet(Ids) /\ Ids \subseteq Nat
<1>1. IsFiniteSet(1..MaxDevices)
  BY FS_Interval DEF SubAssumption
<1> QED BY <1>1 DEF Ids

-----------------------------------------------------------------------------
\* Requests.

\* What a step of thread r leaves in its own request.
LEMMA RequestStep ==
  ASSUME SubAssumption, RowsOK, TimesOK, NEW r \in Requests, Request(r)
  PROVE  /\ req' \in [Requests -> Req]
         /\ \A s \in Requests : s # r => req'[s] = req[s]
         /\ req'[r].pc \in {"ensure", "ensure_revoked"} => req'[r].made \in 1..(MaxClock + 1)
<1> USE DEF SubAssumption
<1>0. req \in [Requests -> Req] /\ None \in Nat /\ NoDev \in Nat
  BY DEF RowsOK, None, NoDev
<1>1. Idle \in Req /\ Idle.pc = "idle"
  BY <1>0 DEF Idle, Req, ReqPCs, AllHwids, AllAgents
<1>2. req[r] \in Req
  BY <1>0
<1>3. ASSUME NEW x \in Req, req' = [req EXCEPT ![r] = x],
             x.pc \in {"ensure", "ensure_revoked"} => x.made \in 1..(MaxClock + 1)
      PROVE  /\ req' \in [Requests -> Req]
             /\ \A s \in Requests : s # r => req'[s] = req[s]
             /\ req'[r].pc \in {"ensure", "ensure_revoked"} => req'[r].made \in 1..(MaxClock + 1)
  BY <1>0, <1>3
<1>4. ASSUME NEW t \in issued, NEW c \in Clients[r], Resolve(r, t, c[1], c[2])
      PROVE  \E x \in Req : /\ req' = [req EXCEPT ![r] = x]
                            /\ x.pc \in {"ensure", "ensure_revoked"} => x.made \in 1..(MaxClock + 1)
  <2> DEFINE x == [Idle EXCEPT !.tok = t, !.hwid = c[1], !.ua = c[2], !.keys = keys,
                     !.made = IF token = None THEN TokenMadeAt(clock) ELSE None,
                     !.pc = IF token # None THEN "register"
                            ELSE IF IsRevoked(t) THEN "ensure_revoked" ELSE "ensure"]
  <2>1. req' = [req EXCEPT ![r] = x]
    BY <1>4 DEF Resolve
  <2>2. TokenMadeAt(clock) \in 1..(MaxClock + 1)
    <3>1. clock \in Nat /\ clock >= 1 /\ clock <= MaxClock
      BY DEF TimesOK
    <3>2. TokenMadeAt(clock) \in Nat /\ TokenMadeAt(clock) >= clock /\ TokenMadeAt(clock) <= clock + 1
      BY <3>1, MadeAt
    <3> QED BY <3>1, <3>2
  <2>3. c[1] \in AllHwids /\ c[2] \in AllAgents
    BY DEF AllHwids, AllAgents, Sent
  <2>4. t \in Nat /\ keys \in Nat
    BY DEF TimesOK
  <2>5. x.pc \in {"ensure", "ensure_revoked"} => x.made \in 1..(MaxClock + 1)
    BY <2>2 DEF Idle
  <2>6. x \in Req
    <3>1. (IF token = None THEN TokenMadeAt(clock) ELSE None) \in Nat
      BY <1>0, <2>2
    <3>2. (IF token # None THEN "register"
           ELSE IF IsRevoked(t) THEN "ensure_revoked" ELSE "ensure") \in ReqPCs
      BY DEF ReqPCs
    <3> QED BY <1>0, <1>1, <2>3, <2>4, <3>1, <3>2 DEF Idle, Req
  <2> HIDE DEF x
  <2> QED BY <2>1, <2>5, <2>6
<1>5. ASSUME Ensure(r)
      PROVE  \E x \in Req : /\ req' = [req EXCEPT ![r] = x]
                            /\ x.pc \in {"ensure", "ensure_revoked"} => x.made \in 1..(MaxClock + 1)
  <2>1. CASE req[r].pc = "ensure_revoked"
    BY <1>1, <1>5, <2>1 DEF Ensure
  <2>2. CASE req[r].pc # "ensure_revoked"
    <3> DEFINE x == [req[r] EXCEPT !.keys = keys, !.made = None, !.pc = "register"]
    <3>1. req' = [req EXCEPT ![r] = x]
      BY <1>5, <2>2 DEF Ensure
    <3>0. keys \in Nat
      BY DEF TimesOK
    <3>2. x \in Req /\ x.pc = "register"
      BY <1>0, <1>2, <3>0 DEF Req, ReqPCs
    <3> HIDE DEF x
    <3> QED BY <3>1, <3>2
  <2> QED BY <2>1, <2>2
<1>6. ASSUME Register(r) \/ Touch(r) \/ Insert(r) \/ Decide(r) \/ Background(r)
      PROVE  \E x \in Req : /\ req' = [req EXCEPT ![r] = x]
                            /\ x.pc \in {"ensure", "ensure_revoked"} => x.made \in 1..(MaxClock + 1)
  <2>2. CASE Register(r)
    <3>1. CASE req' = [req EXCEPT ![r] = Idle]
      BY <1>1, <3>1
    <3>2. ASSUME NEW i \in ByHwid(req[r].hwid),
                 req' = [req EXCEPT ![r].pc = "touch", ![r].dev = i,
                                    ![r].wake = (device[i].status = "revoked")]
          PROVE  \E x \in Req : /\ req' = [req EXCEPT ![r] = x] /\ x.pc = "touch"
      <4> DEFINE x == [req[r] EXCEPT !.pc = "touch", !.dev = i, !.wake = (device[i].status = "revoked")]
      <4>1. i \in Nat
        BY DEF ByHwid, Live, Ids
      <4>2. x \in Req /\ x.pc = "touch"
        BY <1>2, <4>1 DEF Req, ReqPCs
      <4>3. req' = [req EXCEPT ![r] = x]
        BY <1>0, <3>2
      <4> HIDE DEF x
      <4> QED BY <4>2, <4>3
    <3>3. CASE req' = [req EXCEPT ![r].pc = "insert"]
      <4>1. [req[r] EXCEPT !.pc = "insert"] \in Req
        BY <1>2 DEF Req, ReqPCs
      <4> QED BY <1>0, <1>2, <3>3, <4>1 DEF Req
    <3> QED BY <2>2, <3>1, <3>2, <3>3 DEF Register
  <2>3. CASE Touch(r)
    <3>1. CASE req' = [req EXCEPT ![r] = Idle]
      BY <1>1, <3>1
    <3>2. CASE req' = [req EXCEPT ![r].pc = "decide", ![r].dev = NoDev, ![r].wake = FALSE]
      <4> DEFINE x == [req[r] EXCEPT !.pc = "decide", !.dev = NoDev, !.wake = FALSE]
      <4>1. x \in Req /\ x.pc = "decide"
        BY <1>0, <1>2 DEF Req, ReqPCs
      <4>2. req' = [req EXCEPT ![r] = x]
        BY <1>0, <3>2
      <4> HIDE DEF x
      <4> QED BY <4>1, <4>2
    <3> QED BY <2>3, <3>1, <3>2 DEF Touch
  <2>4. CASE Insert(r)
    <3>1. req' = [req EXCEPT ![r].pc = "decide"]
      BY <2>4 DEF Insert
    <3>2. [req[r] EXCEPT !.pc = "decide"] \in Req
      BY <1>2 DEF Req, ReqPCs
    <3> QED BY <1>0, <1>2, <3>1, <3>2 DEF Req
  <2>5. CASE Decide(r)
    <3>1. req' = [req EXCEPT ![r] = [Idle EXCEPT !.pc = "background"]]
      BY <2>5 DEF Decide
    <3>2. [Idle EXCEPT !.pc = "background"] \in Req /\ [Idle EXCEPT !.pc = "background"].pc = "background"
      BY <1>1 DEF Req, ReqPCs, Idle
    <3> QED BY <3>1, <3>2
  <2>6. CASE Background(r)
    BY <1>1, <2>6 DEF Background
  <2> QED BY <1>6, <2>2, <2>3, <2>4, <2>5, <2>6
<1> QED BY <1>3, <1>4, <1>5, <1>6 DEF Request

-----------------------------------------------------------------------------
\* Times.

LEMMA TimesInit == ASSUME SubAssumption, Init PROVE TimesOK
<1>1. TokenMadeAt(CreatedAt) \in Nat /\ TokenMadeAt(CreatedAt) >= 1 /\ TokenMadeAt(CreatedAt) <= 2
  BY MadeAt DEF CreatedAt
<1> QED BY <1>1 DEF Init, TimesOK, CreatedAt, SubAssumption, Idle

LEMMA TimesNext == ASSUME SubAssumption, RowsOK, TimesOK, [Next]_vars PROVE TimesOK'
<1> USE DEF SubAssumption
<1> DEFINE ClockOK == /\ clock \in 1..MaxClock
                      /\ revokedAt = None \/ revokedAt \in 1..clock
                      /\ keys \in 1..clock /\ (keys > CreatedAt => revokedAt = keys)
                      /\ token = None \/ token \in 1..(MaxClock + 1)
                      /\ issued \subseteq Nat
           MadeOK == \A r \in Requests :
                       req[r].pc \in {"ensure", "ensure_revoked"} => req[r].made \in 1..(MaxClock + 1)
<1>a. TimesOK <=> ClockOK /\ MadeOK
  BY DEF TimesOK
<1>b. TimesOK' <=> ClockOK' /\ MadeOK'
  BY DEF TimesOK
<1>c. ClockOK /\ MadeOK
  BY <1>a
<1>0. clock \in Nat /\ clock >= 1 /\ clock <= MaxClock
  BY DEF TimesOK
<1>d. MadeOK'
  <2>1. CASE UNCHANGED req
    BY <1>c, <2>1
  <2>2. ASSUME NEW r \in Requests, Request(r) PROVE MadeOK'
    BY <1>c, <2>2, RequestStep
  <2> QED BY <2>1, <2>2 DEF Next, AddDevice, UpdateDevice, DeleteDevice, RevokeDevice, SetLimit,
             RevokeSub, Tick, vars
<1>e. ClockOK'
  <2>1. CASE UNCHANGED <<clock, revokedAt, token, keys, issued>>
    BY <1>c, <2>1
  <2>2. ASSUME NEW r \in Requests, Ensure(r) PROVE ClockOK'
    <3>1. req[r].made \in 1..(MaxClock + 1)
      BY <1>c, <2>2 DEF Ensure
    <3> QED BY <1>c, <2>2, <3>1 DEF Ensure
  <2>3. ASSUME NEW r \in Requests, Background(r) PROVE ClockOK'
    <3>1. TokenMadeAt(clock) \in 1..(MaxClock + 1)
      <4>1. TokenMadeAt(clock) \in Nat /\ TokenMadeAt(clock) >= clock /\ TokenMadeAt(clock) <= clock + 1
        BY <1>0, MadeAt
      <4> QED BY <1>0, <4>1
    <3>2. token' \in 1..(MaxClock + 1)
      BY <1>c, <2>3, <3>1 DEF Background
    <3>3. issued' = issued \cup {token'} /\ UNCHANGED <<clock, revokedAt, keys>>
      BY <2>3 DEF Background
    <3> QED BY <1>c, <3>2, <3>3
  <2>4. CASE RevokeSub
    BY <1>0, <1>c, <2>4 DEF RevokeSub, CreatedAt
  <2>5. CASE Tick
    BY <1>0, <1>c, <2>5 DEF Tick, user
  <2>6. ASSUME NEW r \in Requests, Request(r), ~Ensure(r), ~Background(r)
        PROVE  UNCHANGED <<clock, revokedAt, token, keys, issued>>
    BY <2>6 DEF Request, Resolve, Register, Touch, Insert, Decide, user
  <2>7. ASSUME \/ \E h \in Hwids : AddDevice(h)
               \/ \E j \in Ids, h \in Hwids : UpdateDevice(j, h)
               \/ \E j \in Ids : DeleteDevice(j)
               \/ \E j \in Ids, t \in issued : RevokeDevice(j, t)
               \/ \E n \in Limits : SetLimit(n)
               \/ UNCHANGED vars
        PROVE  UNCHANGED <<clock, revokedAt, token, keys, issued>>
    BY <2>7 DEF AddDevice, UpdateDevice, DeleteDevice, RevokeDevice, SetLimit, user, vars
  <2> HIDE DEF ClockOK, MadeOK
  <2> QED BY <2>1, <2>2, <2>3, <2>4, <2>5, <2>6, <2>7 DEF Next
<1> QED BY <1>b, <1>d, <1>e

-----------------------------------------------------------------------------
\* Rows.

LEMMA RowsInit == ASSUME SubAssumption, Init PROVE RowsOK
<1>1. limit \in Nat /\ None \in Nat
  BY DEF Init, SubAssumption, None
<1>2. NoRow \in Row /\ NoRow.status = "absent"
  BY DEF NoRow, Row, AllHwids, AllAgents
<1>3. Idle \in Req
  BY <1>1 DEF Idle, Req, ReqPCs, AllHwids, AllAgents, NoDev
<1>4. device \in [Ids -> Row] /\ \A i \in Ids : device[i].status = "absent"
  BY <1>2 DEF Init
<1>5. Live = {}
  BY <1>4 DEF Live
<1>6. req \in [Requests -> Req]
  BY <1>3 DEF Init
<1>7. lastId \in 0..MaxDevices
  BY DEF Init, SubAssumption
<1> QED BY <1>1, <1>4, <1>5, <1>6, <1>7 DEF RowsOK

\* What a step does to the rows: none, a new one behind all others, a change of
\* one that leaves its hardware id its own, or all revoked.
Grows ==
    \E x \in Row : /\ x.status = "active" /\ ByHwid(x.hwid) = {}
                   /\ lastId < MaxDevices /\ lastId' = lastId + 1
                   /\ device' = [device EXCEPT ![lastId + 1] = x]
Changes ==
    \E i \in Live, x \in Row :
        /\ x.status = "absent" \/ ByHwid(x.hwid) \subseteq {i}
        /\ device' = [device EXCEPT ![i] = x] /\ lastId' = lastId
Revokes ==
    /\ device' = [i \in Ids |-> IF i \in Live THEN [device[i] EXCEPT !.status = "revoked"] ELSE device[i]]
    /\ lastId' = lastId

LEMMA RowsStep ==
  ASSUME SubAssumption, RowsOK, [Next]_vars
  PROVE  UNCHANGED rows \/ Grows \/ Changes \/ Revokes
<1>0. device \in [Ids -> Row] /\ req \in [Requests -> Req] /\ Live \subseteq Ids
  BY DEF RowsOK, Live
<1>1. ASSUME NEW i \in Live PROVE device[i] \in Row /\ ByHwid(device[i].hwid) \subseteq {i}
  BY <1>0, <1>1 DEF RowsOK, ByHwid
<1>2. ASSUME NEW r \in Requests, Touch(r) PROVE UNCHANGED rows \/ Changes
  <2>1. CASE req[r].dev \notin Live
    BY <1>2, <2>1 DEF Touch, rows
  <2>2. CASE req[r].dev \in Live
    <3> DEFINE i == req[r].dev
               x == [device[i] EXCEPT !.ua = IF req[r].ua = NoUA THEN @ ELSE req[r].ua,
                                      !.status = IF req[r].wake THEN "active" ELSE @]
    <3>1. device' = [device EXCEPT ![i] = x] /\ lastId' = lastId
      BY <1>0, <1>2, <2>2 DEF Touch
    <3>2. req[r] \in Req /\ device[i] \in Row
      BY <1>0, <1>1, <2>2
    <3>3. x \in Row /\ x.hwid = device[i].hwid
      BY <3>2 DEF Row, Req
    <3>4. ByHwid(x.hwid) \subseteq {i}
      BY <1>1, <2>2, <3>3
    <3> HIDE DEF x
    <3> QED BY <2>2, <3>1, <3>3, <3>4 DEF Changes
  <2> QED BY <2>1, <2>2
<1>3. ASSUME NEW r \in Requests, Insert(r) PROVE UNCHANGED rows \/ Grows
  <2>1. CASE ByHwid(req[r].hwid) # {}
    BY <1>3, <2>1 DEF Insert
  <2>2. CASE ByHwid(req[r].hwid) = {}
    <3> DEFINE x == [hwid |-> req[r].hwid, ua |-> req[r].ua, status |-> "active"]
    <3>1. x \in Row /\ x.status = "active" /\ x.hwid = req[r].hwid
      BY <1>0 DEF Row, Req
    <3>2. lastId < MaxDevices /\ lastId' = lastId + 1 /\ device' = [device EXCEPT ![lastId + 1] = x]
      BY <1>3, <2>2 DEF Insert
    <3> HIDE DEF x
    <3> QED BY <2>2, <3>1, <3>2 DEF Grows
  <2> QED BY <2>1, <2>2
<1>4. ASSUME NEW r \in Requests, Request(r), ~Touch(r), ~Insert(r) PROVE UNCHANGED rows
  BY <1>4 DEF Request, Resolve, Ensure, Register, Decide, Background
<1>5. ASSUME NEW h \in Hwids, AddDevice(h) PROVE Grows
  <2> DEFINE x == [hwid |-> h, ua |-> NoUA, status |-> "active"]
  <2>1. x \in Row /\ x.status = "active" /\ x.hwid = h
    BY DEF Row, AllHwids, AllAgents
  <2>2. /\ lastId < MaxDevices /\ lastId' = lastId + 1 /\ ByHwid(h) = {}
        /\ device' = [device EXCEPT ![lastId + 1] = x]
    BY <1>5 DEF AddDevice
  <2> HIDE DEF x
  <2> QED BY <2>1, <2>2 DEF Grows
<1>6. ASSUME NEW i \in Ids, NEW h \in Hwids, UpdateDevice(i, h) PROVE Changes
  <2> DEFINE x == [device[i] EXCEPT !.hwid = h]
  <2>1. x \in Row /\ x.hwid = h
    BY <1>0 DEF Row, AllHwids
  <2>2. i \in Live /\ ByHwid(h) \subseteq {i} /\ device' = [device EXCEPT ![i] = x] /\ lastId' = lastId
    BY <1>0, <1>6 DEF UpdateDevice
  <2> HIDE DEF x
  <2> QED BY <2>1, <2>2 DEF Changes
<1>7. ASSUME NEW i \in Ids, DeleteDevice(i) PROVE Changes
  <2>1. NoRow \in Row /\ NoRow.status = "absent"
    BY DEF NoRow, Row, AllHwids, AllAgents
  <2> QED BY <1>7, <2>1 DEF DeleteDevice, Changes
<1>8. ASSUME NEW i \in Ids, NEW t \in issued, RevokeDevice(i, t) PROVE Changes
  <2> DEFINE x == [device[i] EXCEPT !.status = "revoked"]
  <2>1. i \in Live /\ device' = [device EXCEPT ![i] = x] /\ lastId' = lastId
    BY <1>0, <1>8 DEF RevokeDevice, Active
  <2>2. x \in Row /\ x.hwid = device[i].hwid
    BY <1>0 DEF Row
  <2>3. ByHwid(x.hwid) \subseteq {i}
    BY <1>1, <2>1, <2>2
  <2> HIDE DEF x
  <2> QED BY <2>1, <2>2, <2>3 DEF Changes
<1>9. ASSUME RevokeSub PROVE Revokes
  BY <1>9 DEF RevokeSub, Revokes
<1>10. ASSUME (\E n \in Limits : SetLimit(n)) \/ Tick \/ UNCHANGED vars PROVE UNCHANGED rows
  BY <1>10 DEF SetLimit, Tick, vars, rows
<1> QED BY <1>2, <1>3, <1>4, <1>5, <1>6, <1>7, <1>8, <1>9, <1>10 DEF Next

LEMMA RowsNext == ASSUME SubAssumption, RowsOK, TimesOK, [Next]_vars PROVE RowsOK'
<1>0. /\ device \in [Ids -> Row] /\ lastId \in 0..MaxDevices /\ MaxDevices \in Nat
      /\ Live = {i \in Ids : device[i].status # "absent"} /\ Ids = 1..MaxDevices
      /\ Live' = {i \in Ids : device'[i].status # "absent"}
  BY DEF RowsOK, Live, Ids, SubAssumption
<1>1. limit' \in Nat
  <2>1. CASE UNCHANGED limit
    BY <2>1 DEF RowsOK
  <2>2. ASSUME NEW n \in Limits, SetLimit(n) PROVE limit' \in Nat
    BY <2>2 DEF SetLimit, SubAssumption
  <2> QED BY <2>1, <2>2 DEF Next, Request, Resolve, Ensure, Register, Touch, Insert, Decide,
             Background, AddDevice, UpdateDevice, DeleteDevice, RevokeDevice, RevokeSub, Tick, user, vars
<1>2. req' \in [Requests -> Req]
  <2>1. CASE UNCHANGED req
    BY <2>1 DEF RowsOK
  <2>2. ASSUME NEW r \in Requests, Request(r) PROVE req' \in [Requests -> Req]
    BY <2>2, RequestStep
  <2> QED BY <2>1, <2>2 DEF Next, AddDevice, UpdateDevice, DeleteDevice, RevokeDevice, SetLimit,
             RevokeSub, Tick, vars
<1> DEFINE Own == /\ device \in [Ids -> Row] /\ lastId \in 0..MaxDevices
                  /\ \A i \in Live : i <= lastId
                  /\ \A i, j \in Live : device[i].hwid = device[j].hwid => i = j
<1>3. Own
  BY DEF RowsOK
<1>4. Own'
  <2>1. CASE UNCHANGED rows
    BY <1>3, <2>1 DEF rows, Live
  <2>2. CASE Grows
    <3>1. PICK x \in Row : /\ x.status = "active" /\ ByHwid(x.hwid) = {}
                           /\ lastId < MaxDevices /\ lastId' = lastId + 1
                           /\ device' = [device EXCEPT ![lastId + 1] = x]
      BY <2>2 DEF Grows
    <3>2. device' \in [Ids -> Row] /\ lastId' \in 0..MaxDevices /\ lastId + 1 \in Ids
      BY <1>0, <3>1
    <3>3. device'[lastId + 1] = x /\ \A i \in Ids : i # lastId + 1 => device'[i] = device[i]
      BY <1>0, <3>1
    <3>4. Live' \subseteq Live \cup {lastId + 1}
      BY <1>0, <3>3
    <3>5. \A i \in Live : i <= lastId /\ i \in Nat
      BY <1>0, <1>3
    <3>6. \A i \in Live : device[i].hwid # x.hwid /\ device'[i] = device[i]
      BY <1>0, <3>1, <3>3, <3>5 DEF ByHwid
    <3>7. \A i \in Live' : i <= lastId'
      BY <1>0, <3>1, <3>4, <3>5
    <3>8. ASSUME NEW i \in Live', NEW j \in Live', device'[i].hwid = device'[j].hwid PROVE i = j
      BY <1>3, <3>3, <3>4, <3>6, <3>8
    <3> QED BY <3>2, <3>7, <3>8
  <2>3. CASE Changes
    <3>1. PICK k \in Live, x \in Row :
             /\ x.status = "absent" \/ ByHwid(x.hwid) \subseteq {k}
             /\ device' = [device EXCEPT ![k] = x] /\ lastId' = lastId
      BY <2>3 DEF Changes
    <3>2. device' \in [Ids -> Row] /\ k \in Ids
      BY <1>0, <3>1
    <3>3. device'[k] = x /\ \A i \in Ids : i # k => device'[i] = device[i]
      BY <1>0, <3>1
    <3>4. Live' \subseteq Live /\ (x.status = "absent" => k \notin Live')
      BY <1>0, <3>3
    <3>5. ASSUME NEW i \in Live', NEW j \in Live', device'[i].hwid = device'[j].hwid PROVE i = j
      <4>1. i \in Ids /\ j \in Ids /\ i \in Live /\ j \in Live
        BY <1>0, <3>4
      <4>2. CASE i # k /\ j # k
        BY <1>3, <3>3, <3>5, <4>1, <4>2
      <4>3. ASSUME NEW m \in Live', m # k PROVE k \in Live' => device'[m].hwid # x.hwid
        BY <1>0, <3>1, <3>3, <3>4, <4>3 DEF ByHwid
      <4> QED BY <3>3, <3>5, <4>2, <4>3
    <3>6. \A i \in Live' : i <= lastId'
      BY <1>3, <3>1, <3>4
    <3>7. lastId' \in 0..MaxDevices
      BY <1>3, <3>1
    <3> QED BY <3>2, <3>5, <3>6, <3>7
  <2>4. CASE Revokes
    <3>1. ASSUME NEW i \in Ids
          PROVE  device'[i] \in Row /\ device'[i].hwid = device[i].hwid /\ (i \in Live' => i \in Live)
      <4>1. CASE i \in Live
        BY <1>0, <2>4, <4>1 DEF Revokes, Row
      <4>2. CASE i \notin Live
        BY <1>0, <2>4, <4>2 DEF Revokes
      <4> QED BY <4>1, <4>2
    <3>2. device' \in [Ids -> Row]
      BY <2>4, <3>1 DEF Revokes
    <3>3. Live' \subseteq Live
      BY <1>0, <3>1
    <3> QED BY <1>0, <1>3, <2>4, <3>1, <3>2, <3>3 DEF Revokes
  <2> QED BY <2>1, <2>2, <2>3, <2>4, RowsStep
<1> QED BY <1>1, <1>2, <1>4 DEF RowsOK

-----------------------------------------------------------------------------
\* Answers.

LEMMA ToldInit == ASSUME Init PROVE ToldOK
BY DEF Init, ToldOK

LEMMA ToldNext == ASSUME SubAssumption, RowsOK, ToldOK, [Next]_vars PROVE ToldOK'
<1>1. CASE Forget
  BY <1>1 DEF Forget, ToldOK
<1>2. CASE UNCHANGED <<device, limit, told>>
  BY <1>2 DEF ToldOK, IsWithinLimit, RankAt, Active, Live
<1>3. ASSUME NEW r \in Requests, Decide(r) PROVE ToldOK'
  <2> DEFINE known  == ByHwid(req[r].hwid)
             within == limit = 0 \/ \E i \in known : IsWithinLimit(i)
             answer == IF within THEN "full" ELSE IF HardMode THEN "stub" ELSE "warned"
  <2>1. told' = [i \in Ids |-> IF i \in known THEN answer ELSE told[i]] /\ UNCHANGED <<device, limit>>
    BY <1>3 DEF Decide, user, rows
  <2>2. ASSUME NEW i \in known, NEW k \in known PROVE i = k
    BY <2>2 DEF RowsOK, ByHwid
  <2>3. answer \in {"full", "stub", "warned"} /\ (answer = "full" => within)
    OBVIOUS
  <2>4. ASSUME NEW i \in known, within PROVE IsWithinLimit(i)
    <3>1. CASE limit = 0
      BY <3>1 DEF IsWithinLimit
    <3>2. CASE limit # 0
      <4>1. PICK k \in known : IsWithinLimit(k)
        BY <2>4, <3>2
      <4>2. i = k
        BY <2>2
      <4> QED BY <4>1, <4>2
    <3> QED BY <3>1, <3>2
  <2> HIDE DEF known, within, answer
  <2>5. told' \in [Ids -> {"none", "full", "stub", "warned"}]
    BY <2>1, <2>3 DEF ToldOK
  <2>6. ASSUME NEW i \in Ids, told'[i] = "full" PROVE IsWithinLimit(i)
    <3>1. CASE i \in known
      BY <2>1, <2>3, <2>4, <2>6, <3>1
    <3>2. CASE i \notin known
      BY <2>1, <2>6, <3>2 DEF ToldOK
    <3> QED BY <3>1, <3>2
  <2>7. ASSUME NEW i \in Ids PROVE IsWithinLimit(i)' = IsWithinLimit(i)
    BY <2>1 DEF IsWithinLimit, RankAt, Active, Live
  <2> QED BY <2>5, <2>6, <2>7 DEF ToldOK
<1>4. ASSUME NEW r \in Requests, Request(r), ~Decide(r)
      PROVE  Forget \/ UNCHANGED <<device, limit, told>>
  BY <1>4 DEF Request, Resolve, Ensure, Register, Touch, Insert, Background, user, rows
<1>5. ASSUME \/ \E h \in Hwids : AddDevice(h)
             \/ \E j \in Ids, h \in Hwids : UpdateDevice(j, h)
             \/ \E j \in Ids : DeleteDevice(j)
             \/ \E j \in Ids, t \in issued : RevokeDevice(j, t)
             \/ \E n \in Limits : SetLimit(n)
             \/ RevokeSub
      PROVE  Forget
  BY <1>5 DEF AddDevice, UpdateDevice, DeleteDevice, RevokeDevice, SetLimit, RevokeSub
<1>6. ASSUME Tick \/ UNCHANGED vars PROVE UNCHANGED <<device, limit, told>>
  BY <1>6 DEF Tick, user, rows, vars
<1> QED BY <1>1, <1>2, <1>3, <1>4, <1>5, <1>6 DEF Next

\* The devices that were given the servers are inside the limit, and of those
\* there are at most as many as the limit says.
LEMMA ToldFew == ASSUME SubAssumption, RowsOK, ToldOK PROVE ServedWithinLimit
<1> SUFFICES ASSUME limit # 0
             PROVE  Cardinality({i \in Ids : told[i] = "full"}) <= limit
  BY DEF ServedWithinLimit
<1> DEFINE S == {i \in Active : Cardinality({j \in Active : j < i}) < limit}
           T == {i \in Ids : told[i] = "full"}
<1>1. Active \in SUBSET Ids
  BY DEF Active, Live
<1>2. IsFiniteSet(Active) /\ Active \subseteq Nat
  BY <1>1, IdsFinite, FS_Subset
<1>3. limit \in Nat
  BY DEF RowsOK
<1>4. IsFiniteSet(S) /\ Cardinality(S) <= limit
  BY <1>2, <1>3, RankedFew
<1>5. T \in SUBSET S
  BY DEF ToldOK, IsWithinLimit, RankAt
<1> HIDE DEF S, T
<1>6. IsFiniteSet(T) /\ Cardinality(T) <= Cardinality(S)
  BY <1>4, <1>5, FS_Subset
<1>7. Cardinality(S) \in Nat /\ Cardinality(T) \in Nat
  BY <1>4, <1>6, FS_CardinalityType
<1>8. Cardinality(T) <= limit
  BY <1>3, <1>4, <1>6, <1>7
<1> QED BY <1>8 DEF T

\* However requests, registrations, revocations and changes of the limit
\* interleave, the devices that have asked since the rows last changed and were
\* given the servers are never more than users.device_limit: for any number of
\* threads, rows and hardware ids, in hard mode and without it.
THEOREM LimitHolds == ASSUME SubAssumption PROVE Spec => []ServedWithinLimit
<1>1. Init => RowsOK /\ TimesOK /\ ToldOK
  BY RowsInit, TimesInit, ToldInit
<1>2. (RowsOK /\ TimesOK /\ ToldOK) /\ [Next]_vars => (RowsOK /\ TimesOK /\ ToldOK)'
  BY RowsNext, TimesNext, ToldNext
<1>3. (RowsOK /\ TimesOK /\ ToldOK) => ServedWithinLimit
  BY ToldFew
<1> QED BY <1>1, <1>2, <1>3, PTL DEF Spec

-----------------------------------------------------------------------------
\* The order of the devices.

\* An older row that counts after a step counted before it or was revoked.
LEMMA OlderWasThere ==
  ASSUME SubAssumption, RowsOK, [Next]_vars, NEW i \in Live, NEW j \in Active', j < i
  PROVE  j \in Active \/ device[j].status = "revoked"
<1>0. /\ device \in [Ids -> Row] /\ lastId \in Nat /\ i <= lastId /\ i \in Nat /\ j \in Ids /\ j \in Nat
      /\ device'[j].status = "active"
  BY DEF RowsOK, Live, Active, Ids, SubAssumption
<1>1. device[j].status # "absent" => j \in Active \/ device[j].status = "revoked"
  BY <1>0 DEF Row, Active, Live
<1>2. CASE UNCHANGED rows
  BY <1>0, <1>1, <1>2 DEF rows
<1>3. CASE Grows
  <2>1. PICK x \in Row : device' = [device EXCEPT ![lastId + 1] = x]
    BY <1>3 DEF Grows
  <2>2. j # lastId + 1
    BY <1>0
  <2>3. device'[j] = device[j]
    BY <1>0, <2>1, <2>2
  <2> QED BY <1>0, <1>1, <2>3
<1>4. CASE Changes
  <2>1. PICK k \in Live, x \in Row : device' = [device EXCEPT ![k] = x]
    BY <1>4 DEF Changes
  <2>2. CASE j = k
    BY <1>1, <2>1, <2>2 DEF Live
  <2>3. CASE j # k
    BY <1>0, <1>1, <2>1, <2>3
  <2> QED BY <2>2, <2>3
<1>5. CASE Revokes
  <2>1. CASE j \in Live
    BY <1>1, <2>1 DEF Live
  <2>2. CASE j \notin Live
    BY <1>0, <1>1, <1>5, <2>2 DEF Revokes
  <2> QED BY <2>1, <2>2
<1> QED BY <1>2, <1>3, <1>4, <1>5, RowsStep

LEMMA NewcomersWait == ASSUME SubAssumption, RowsOK, RowsOK', [Next]_vars PROVE NoNewcomerStep
<1> SUFFICES ASSUME NEW i \in Active, IsWithinLimit(i), limit' = limit, i \in Active', ~IsWithinLimit(i)',
                    ~ \E j \in Ids : j < i /\ device[j].status = "revoked" /\ j \in Active'
             PROVE  FALSE
  BY DEF NoNewcomerStep
<1> DEFINE B == {j \in Active : j < i}
           C == {j \in Active' : j < i}
<1>1. limit # 0 /\ limit \in Nat /\ Cardinality(B) < limit
  BY DEF IsWithinLimit, RankAt, RowsOK
<1>2. ~(Cardinality(C) < limit)
  BY <1>1 DEF IsWithinLimit, RankAt
<1>3. B \in SUBSET Ids /\ Active' \in SUBSET Ids /\ i \in Live
  BY DEF Active, Live
<1>4. C \in SUBSET B
  <2>1. ASSUME NEW j \in C PROVE j \in Active
    BY <1>3, OlderWasThere
  <2> QED BY <2>1
<1> HIDE DEF B, C
<1>5. IsFiniteSet(B)
  BY <1>3, IdsFinite, FS_Subset
<1>6. IsFiniteSet(C) /\ Cardinality(C) <= Cardinality(B)
  BY <1>4, <1>5, FS_Subset
<1>7. Cardinality(B) \in Nat /\ Cardinality(C) \in Nat
  BY <1>5, <1>6, FS_CardinalityType
<1> QED BY <1>1, <1>2, <1>6, <1>7

\* A device inside the limit is never pushed out by a new one: it leaves by its
\* own row's change, by another limit, or because an older revoked device came
\* back.  The step alone does not give it: that a new row is behind every living
\* one is the invariant RowsOK.
THEOREM FirstComeFirstServed == ASSUME SubAssumption PROVE Spec => NoNewcomerDisplaces
<1>1. Init => RowsOK /\ TimesOK
  BY RowsInit, TimesInit
<1>2. (RowsOK /\ TimesOK) /\ [Next]_vars => (RowsOK /\ TimesOK)'
  BY RowsNext, TimesNext
<1>3. RowsOK /\ RowsOK' /\ [Next]_vars => [NoNewcomerStep]_vars
  BY NewcomersWait
<1> QED BY <1>1, <1>2, <1>3, PTL DEF Spec, NoNewcomerDisplaces

-----------------------------------------------------------------------------
\* Tokens and revocations.

\* Keys made by a revocation are as old as that revocation: a token that it did
\* not kill is not older than them.
LEMMA KeysOfLiveToken ==
  ASSUME SubAssumption, TimesOK, NEW t \in Nat, ~IsRevoked(t), keys > CreatedAt
  PROVE  ~(keys > t)
<1>1. revokedAt = keys /\ keys # None
  BY DEF TimesOK, None, SubAssumption
<1> QED BY <1>1 DEF IsRevoked

\* A token made now is not killed by any revocation there has been.
LEMMA MadeNowAlive ==
  ASSUME SubAssumption, TimesOK PROVE ~IsRevoked(TokenMadeAt(clock))
<1>1. clock \in Nat
  BY DEF TimesOK
<1>2. TokenMadeAt(clock) \in Nat /\ TokenMadeAt(clock) >= clock
  BY <1>1, MadeAt
<1>3. revokedAt = None \/ (revokedAt \in Nat /\ revokedAt <= clock)
  BY <1>1 DEF TimesOK
<1> QED BY <1>1, <1>2, <1>3 DEF IsRevoked

LEMMA TokensInit == ASSUME Init PROVE TokensOK
BY DEF Init, TokensOK, IsRevoked, RevokedTokenGetsOldKeys, Idle

LEMMA TokensNext ==
  ASSUME SubAssumption, ~RevokeCrossesToken, RowsOK, TimesOK, TokensOK, [Next]_vars
  PROVE  TokensOK'
<1> DEFINE Holds(q) == /\ q.pc \in {"ensure", "ensure_revoked"} => ~IsRevoked(q.made)
                       /\ q.pc = "ensure" => ~IsRevoked(q.tok)
                       /\ q.pc \in {"register", "touch", "insert", "decide"}
                            => (q.keys > CreatedAt => ~(q.keys > q.tok))
<1>a. TokensOK <=> (token # None => ~IsRevoked(token)) /\ \A r \in Requests : Holds(req[r])
  BY DEF TokensOK, RevokedTokenGetsOldKeys
<1>b. TokensOK' <=> (token # None => ~IsRevoked(token))' /\ \A r \in Requests : Holds(req[r])'
  BY DEF TokensOK, RevokedTokenGetsOldKeys
<1>c. (token # None => ~IsRevoked(token)) /\ \A r \in Requests : Holds(req[r])
  BY <1>a
<1>0. req \in [Requests -> Req]
  BY DEF RowsOK
<1>1. CASE RevokeSub
  <2>1. token' = None /\ req' = req /\ \A r \in Requests : req[r].pc \notin {"ensure", "ensure_revoked"}
    BY <1>1 DEF RevokeSub
  <2>2. \A r \in Requests : Holds(req[r])'
    BY <1>c, <2>1
  <2>3. None' = None
    BY DEF None
  <2> QED BY <1>b, <2>1, <2>2, <2>3
<1>2. ASSUME UNCHANGED revokedAt, (token # None => ~IsRevoked(token))',
             NEW r \in Requests, \A s \in Requests : s # r => req'[s] = req[s], Holds(req[r])'
      PROVE  TokensOK'
  <2>1. ASSUME NEW s \in Requests PROVE Holds(req[s])'
    <3>1. CASE s # r
      BY <1>c, <1>2, <3>1 DEF IsRevoked, None
    <3>2. CASE s = r
      BY <1>2, <3>2
    <3> QED BY <3>1, <3>2
  <2> QED BY <1>b, <1>2, <2>1
<1>3. CASE UNCHANGED <<revokedAt, token, req>>
  BY <1>3 DEF TokensOK, IsRevoked, RevokedTokenGetsOldKeys, None
<1>4. ASSUME NEW r \in Requests, Request(r) PROVE TokensOK'
  <2>0. \A s \in Requests : s # r => req'[s] = req[s]
    BY <1>4, RequestStep
  <2>1. UNCHANGED revokedAt
    BY <1>4 DEF Request, Resolve, Ensure, Register, Touch, Insert, Decide, Background, user
  <2>2. (token # None => ~IsRevoked(token))'
    <3>1. CASE UNCHANGED token
      BY <1>c, <2>1, <3>1 DEF IsRevoked, None
    <3>2. CASE Ensure(r)
      BY <1>c, <2>1, <3>2 DEF Ensure, IsRevoked, None
    <3>3. CASE Background(r)
      BY <1>c, <2>1, <3>3, MadeNowAlive DEF Background, IsRevoked, None
    <3> QED BY <1>4, <3>1, <3>2, <3>3 DEF Request, Resolve, Register, Touch, Insert, Decide, user
  <2>3. Holds(req[r])'
    <3>0. req[r] \in Req
      BY <1>0
    <3>1. CASE req'[r].pc \in {"idle", "background"}
      BY <3>1
    <3>2. ASSUME NEW t \in issued, NEW c \in Clients[r], Resolve(r, t, c[1], c[2]) PROVE Holds(req[r])'
      <4> DEFINE x == [Idle EXCEPT !.tok = t, !.hwid = c[1], !.ua = c[2], !.keys = keys,
                         !.made = IF token = None THEN TokenMadeAt(clock) ELSE None,
                         !.pc = IF token # None THEN "register"
                                ELSE IF IsRevoked(t) THEN "ensure_revoked" ELSE "ensure"]
      <4>1. req'[r] = x /\ (token = None \/ ~IsRevoked(t))
        BY <1>0, <3>2 DEF Resolve
      <4>2. /\ x.tok = t /\ x.keys = keys
            /\ x.made = (IF token = None THEN TokenMadeAt(clock) ELSE None)
            /\ x.pc = (IF token # None THEN "register"
                       ELSE IF IsRevoked(t) THEN "ensure_revoked" ELSE "ensure")
        BY DEF Idle
      <4> HIDE DEF x
      <4>3. t \in Nat
        BY DEF TimesOK
      <4>4. CASE token # None
        <5>1. x.pc = "register" /\ (keys > CreatedAt => ~(keys > t))
          BY <4>1, <4>2, <4>3, <4>4, KeysOfLiveToken
        <5> QED BY <4>1, <4>2, <5>1
      <4>5. CASE token = None
        <5>1. x.made = TokenMadeAt(clock) /\ ~IsRevoked(x.made)
          BY <4>2, <4>5, MadeNowAlive
        <5>2. x.pc \in {"ensure", "ensure_revoked"} /\ (x.pc = "ensure" => ~IsRevoked(t))
          BY <4>2, <4>5
        <5> QED BY <2>1, <4>1, <4>2, <5>1, <5>2 DEF IsRevoked, None
      <4> QED BY <4>4, <4>5
    <3>3. CASE Ensure(r)
      <4>1. CASE req[r].pc = "ensure_revoked"
        BY <1>0, <3>3, <4>1 DEF Ensure, Idle
      <4>2. CASE req[r].pc # "ensure_revoked"
        <5>1. req[r].pc = "ensure" /\ req'[r] = [req[r] EXCEPT !.keys = keys, !.made = None, !.pc = "register"]
          BY <1>0, <3>3, <4>2 DEF Ensure
        <5>2. req'[r].pc = "register" /\ req'[r].keys = keys /\ req'[r].tok = req[r].tok /\ req[r].tok \in Nat
          BY <3>0, <5>1 DEF Req
        <5>3. keys > CreatedAt => ~(keys > req[r].tok)
          BY <1>c, <5>1, <5>2, KeysOfLiveToken
        <5> QED BY <5>2, <5>3
      <4> QED BY <4>1, <4>2
    <3>4. CASE Register(r) \/ Touch(r) \/ Insert(r)
      <4>1. req[r].pc \in {"register", "touch", "insert"}
        BY <3>4 DEF Register, Touch, Insert
      <4>2. \/ req'[r].pc = "idle"
            \/ /\ req'[r].pc \in {"touch", "insert", "decide"}
               /\ req'[r].keys = req[r].keys /\ req'[r].tok = req[r].tok
        <5>1. CASE req' = [req EXCEPT ![r] = Idle]
          BY <1>0, <5>1 DEF Idle
        <5>2. CASE Insert(r)
          BY <1>0, <3>0, <5>2 DEF Insert, Req
        <5>3. CASE Touch(r) /\ req' # [req EXCEPT ![r] = Idle]
          <6>1. req' = [req EXCEPT ![r].pc = "decide", ![r].dev = NoDev, ![r].wake = FALSE]
            BY <5>3 DEF Touch
          <6> QED BY <1>0, <3>0, <6>1 DEF Req
        <5>4. ASSUME NEW i \in Live,
                     req' = [req EXCEPT ![r].pc = "touch", ![r].dev = i,
                                        ![r].wake = (device[i].status = "revoked")]
              PROVE  /\ req'[r].pc = "touch"
                     /\ req'[r].keys = req[r].keys /\ req'[r].tok = req[r].tok
          <6> DEFINE w == (device[i].status = "revoked")
          <6>1. req' = [req EXCEPT ![r].pc = "touch", ![r].dev = i, ![r].wake = w]
            BY <5>4
          <6> HIDE DEF w
          <6> QED BY <1>0, <3>0, <6>1 DEF Req
        <5>5. CASE req' = [req EXCEPT ![r].pc = "insert"]
          BY <1>0, <3>0, <5>5 DEF Req
        <5> QED BY <3>4, <5>1, <5>2, <5>3, <5>4, <5>5 DEF Register, ByHwid
      <4> QED BY <1>c, <4>1, <4>2
    <3>5. CASE Decide(r) \/ Background(r)
      BY <1>0, <3>1, <3>5 DEF Decide, Background, Idle
    <3> QED BY <1>4, <3>2, <3>3, <3>4, <3>5 DEF Request
  <2> HIDE DEF Holds
  <2> QED BY <1>2, <2>0, <2>1, <2>2, <2>3
<1>5. ASSUME \/ \E h \in Hwids : AddDevice(h)
             \/ \E j \in Ids, h \in Hwids : UpdateDevice(j, h)
             \/ \E j \in Ids : DeleteDevice(j)
             \/ \E j \in Ids, t \in issued : RevokeDevice(j, t)
             \/ \E n \in Limits : SetLimit(n)
             \/ Tick \/ UNCHANGED vars
      PROVE  UNCHANGED <<revokedAt, token, req>>
  BY <1>5 DEF AddDevice, UpdateDevice, DeleteDevice, RevokeDevice, SetLimit, Tick, user, vars
<1> QED BY <1>1, <1>3, <1>4, <1>5 DEF Next

\* The stored token is alive and a request whose token a revocation has killed
\* never leaves with keys made by that revocation, for any number of requests
\* and revocations at any instants.  The hypothesis is needed: a revocation that
\* commits while ensure_subscription_token holds a token it has not yet stored
\* leaves a stored token that is already dead.
THEOREM RevocationIsClean ==
  ASSUME SubAssumption, ~RevokeCrossesToken PROVE Spec => []TokensAlive
<1>1. Init => RowsOK /\ TimesOK /\ TokensOK
  BY RowsInit, TimesInit, TokensInit
<1>2. (RowsOK /\ TimesOK /\ TokensOK) /\ [Next]_vars => (RowsOK /\ TimesOK /\ TokensOK)'
  BY RowsNext, TimesNext, TokensNext
<1>3. (RowsOK /\ TimesOK /\ TokensOK) => TokensAlive
  <2> SUFFICES ASSUME TimesOK, TokensOK PROVE TokensAlive
    OBVIOUS
  <2>1. token # None => ~(CreatedAt > token)
    BY DEF TimesOK, CreatedAt, SubAssumption
  <2> QED BY <2>1 DEF TokensOK, TokensAlive, StoredTokenAlive
<1> QED BY <1>1, <1>2, <1>3, PTL DEF Spec

(***************************************************************************)
(* Reminders are neither repeated nor false nor forgotten.  A key is a     *)
(* kind of reminder with its threshold.                                    *)
(***************************************************************************)

Persons == [status : {"active", "limited", "expired", "disabled"}, used : Nat, limit : Nat,
            expire : Nat]
ReminderRows == [type : {"data_usage", "expiration_date"}, threshold : Int, expires : Nat]

\* The job between two steps: looking for reminders, or with one to write.
Looks == [pc : {"data_usage", "expiration_date"}, row : Persons, rows : SUBSET ReminderRows,
          day : Nat, crossed : BOOLEAN]
Writes == [pc : {"create"}, key : Keys, expires : Nat, day : Nat, crossed : BOOLEAN]

Edits ==
    [field : {"limit", "expire", "reset"}, value : Nat, row : Persons, rows : SUBSET ReminderRows]
      \cup [field : {"status"}, value : {"active", "disabled"}, row : Persons,
            rows : SUBSET ReminderRows]

ReminderTypes ==
    /\ person \in Persons /\ today \in Nat /\ reminders \subseteq ReminderRows
    /\ reviewing \in {NoReview} \cup Looks \cup Writes
    /\ editing \in [Editors -> {NoRequest} \cup Edits]
    /\ DOMAIN due = Keys /\ DOMAIN until = Keys
    /\ \A k \in Keys : until[k] \in Nat

\* A user who is past the limit or the expiry has reached the threshold.
Ordinary(k) == IF k[1] = "data_usage" THEN k[2] <= 100 ELSE k[2] >= 0

\* What was told is remembered by a row, until the expiry it was made with, or the
\* job is about to write the row.
Remembered(k) ==
    \/ \E r \in reminders : KeyOf(r) = k /\ r.expires = until[k]
    \/ until[k] > 0 /\ until[k] < today
    \/ reviewing.pc = "create" /\ reviewing.key = k

HistoryOK ==
    /\ \A k \in Keys : due[k] = "below" <=> ~Reached(person, today, k)
    /\ \A k \in Keys : due[k] = "told" /\ k \notin lost => Remembered(k)
    /\ \A k \in Keys, r \in reminders :
          Ordinary(k) /\ KeyOf(r) = k /\ due[k] # "told" => k \in kept

\* What the job holds of the tables, while no request has crossed it.
LookingOK ==
    reviewing \in Looks =>
      /\ reminders \subseteq reviewing.rows
      /\ ~reviewing.crossed =>
            /\ reviewing.row.limit = person.limit /\ reviewing.row.expire = person.expire
            /\ reviewing.row.used <= person.used
            /\ \A r \in reviewing.rows : r \notin reminders => Dead(r)

WritingOK ==
    reviewing \in Writes =>
      /\ until[reviewing.key] = reviewing.expires
      /\ ~reviewing.crossed => due[reviewing.key] = "told"

ReminderInv == ReminderTypes /\ HistoryOK /\ LookingOK /\ WritingOK

\* A key is the kind and the threshold it is made of.
LEMMA KeyParts ==
  ASSUME NEW k \in Keys
  PROVE  /\ k = <<k[1], k[2]>> /\ k[2] \in Int
         /\ k[1] \in {"data_usage", "expiration_date"}
<1>1. CASE k \in {"data_usage"} \X Percents
  <2>1. k = <<k[1], k[2]>> /\ k[1] = "data_usage" /\ k[2] \in Percents
    BY <1>1
  <2> QED BY <2>1, ReminderAssumption
<1>2. CASE k \in {"expiration_date"} \X DaysLeft
  <2>1. k = <<k[1], k[2]>> /\ k[1] = "expiration_date" /\ k[2] \in DaysLeft
    BY <1>2
  <2> QED BY <2>1, ReminderAssumption
<1> QED BY <1>1, <1>2 DEF Keys

\* The job is in one place.
LEMMA Pcs ==
  ASSUME ReminderTypes
  PROVE  /\ reviewing.pc = "idle" <=> reviewing = NoReview
         /\ reviewing.pc \in {"data_usage", "expiration_date"} <=> reviewing \in Looks
         /\ reviewing.pc = "create" <=> reviewing \in Writes
BY DEF ReminderTypes, NoReview, Looks, Writes

\* The history after a step, key by key.
LEMMA Watched ==
  ASSUME NEW made, made \subseteq Keys, NEW expires, NEW astray \in BOOLEAN,
         Watch(made, expires, astray), NEW k \in Keys
  PROVE  /\ sent' = made /\ DOMAIN due' = Keys /\ DOMAIN until' = Keys
         /\ due'[k] = IF ~Reached(person', today', k) THEN "below"
                      ELSE IF k \in made THEN "told"
                      ELSE IF due[k] = "below" THEN "new" ELSE due[k]
         /\ until'[k] = IF k \in made THEN expires ELSE until[k]
         /\ (due'[k] # "told" /\ (k \in kept \/ astray) /\ \E r \in reminders' : KeyOf(r) = k)
               => k \in kept'
         /\ (due'[k] = "told" /\ k \notin made
               /\ (k \in lost \/ (astray /\ \E r \in reminders \ reminders' : KeyOf(r) = k)))
               => k \in lost'
BY DEF Watch

\* Histories stay histories.
LEMMA WatchTypes ==
  ASSUME ReminderTypes, NEW made, made \subseteq Keys, NEW expires \in Nat, NEW astray,
         Watch(made, expires, astray),
         person' \in Persons, today' \in Nat, reminders' \subseteq ReminderRows,
         reviewing' \in {NoReview} \cup Looks \cup Writes,
         editing' \in [Editors -> {NoRequest} \cup Edits]
  PROVE  ReminderTypes'
<1>1. DOMAIN due' = Keys
  BY DEF Watch
<1>2. until' = [k \in Keys |-> IF k \in made THEN expires ELSE until[k]]
  BY DEF Watch
<1>3. DOMAIN until' = Keys /\ \A k \in Keys : until'[k] \in Nat
  BY <1>2 DEF ReminderTypes
<1> QED BY <1>1, <1>3 DEF ReminderTypes

\* A step that makes no reports keeps the history if it deletes a row only with the
\* end of its time or of its threshold, and drops a threshold only with its rows,
\* or says that it went astray.
LEMMA QuietKeeps ==
  ASSUME ReminderTypes, HistoryOK, NEW astray \in BOOLEAN, Watch({}, 0, astray),
         reminders' \subseteq reminders, today' \in Nat, today' >= today,
         reviewing.pc = "create" => reviewing'.pc = "create" /\ reviewing'.key = reviewing.key,
         \A r \in reminders : r \notin reminders' =>
            astray \/ Dead(r) \/ ~Reached(person', today', KeyOf(r)),
         \A k \in Keys : Ordinary(k) /\ Reached(person, today, k) /\ ~Reached(person', today', k)
            => astray \/ \A r \in reminders' : KeyOf(r) # k
  PROVE  HistoryOK'
<1>1. \A k \in Keys :
         /\ due'[k] = IF ~Reached(person', today', k) THEN "below"
                      ELSE IF due[k] = "below" THEN "new" ELSE due[k]
         /\ until'[k] = until[k]
         /\ (due'[k] # "told" /\ (k \in kept \/ astray) /\ \E r \in reminders' : KeyOf(r) = k)
               => k \in kept'
         /\ (due'[k] = "told"
               /\ (k \in lost \/ (astray /\ \E r \in reminders \ reminders' : KeyOf(r) = k)))
               => k \in lost'
  BY Watched
<1>2. ASSUME NEW k \in Keys PROVE due'[k] = "below" <=> ~Reached(person', today', k)
  BY <1>1
<1>3. ASSUME NEW k \in Keys, due'[k] = "told", k \notin lost' PROVE Remembered(k)'
  <2>1. /\ due[k] = "told" /\ Reached(person', today', k) /\ until'[k] = until[k]
        /\ k \notin lost
    BY <1>1, <1>3
  <2>2. Remembered(k)
    BY <2>1 DEF HistoryOK
  <2>3. ASSUME until[k] > 0 /\ until[k] < today PROVE Remembered(k)'
    <3>1. today \in Int /\ today' \in Int /\ until[k] \in Int
      BY DEF ReminderTypes
    <3> QED BY <2>1, <2>3, <3>1 DEF Remembered
  <2>4. CASE \E r \in reminders : KeyOf(r) = k /\ r.expires = until[k]
    <3>1. PICK r \in reminders : KeyOf(r) = k /\ r.expires = until[k]
      BY <2>4
    <3>2. CASE r \in reminders'
      BY <2>1, <3>1, <3>2 DEF Remembered, KeyOf
    <3>3. CASE r \notin reminders'
      <4>1. Dead(r)
        BY <1>1, <1>3, <2>1, <3>1, <3>3
      <4> QED BY <2>3, <3>1, <4>1 DEF Dead
    <3> QED BY <3>2, <3>3
  <2>5. CASE reviewing.pc = "create" /\ reviewing.key = k
    BY <2>5 DEF Remembered
  <2> QED BY <2>2, <2>3, <2>4, <2>5 DEF Remembered
<1>4. ASSUME NEW k \in Keys, NEW r \in reminders', Ordinary(k), KeyOf(r) = k, due'[k] # "told"
      PROVE  k \in kept'
  <2>1. CASE due[k] # "told"
    BY <1>1, <1>4, <2>1 DEF HistoryOK
  <2>2. CASE due[k] = "told"
    <3>1. Reached(person, today, k) /\ ~Reached(person', today', k)
      BY <1>1, <1>4, <2>2 DEF HistoryOK
    <3> QED BY <1>1, <1>4, <3>1
  <2> QED BY <2>1, <2>2
<1> QED
  <2>1. (\A k \in Keys : due[k] = "below" <=> ~Reached(person, today, k))'
    BY <1>2
  <2>2. (\A k \in Keys : due[k] = "told" /\ k \notin lost => Remembered(k))'
    BY <1>3
  <2>3. (\A k \in Keys, r \in reminders :
          Ordinary(k) /\ KeyOf(r) = k /\ due[k] # "told" => k \in kept)'
    BY <1>4 DEF Ordinary, KeyOf
  <2> QED BY <2>1, <2>2, <2>3 DEF HistoryOK

\* What does not depend on the status.
LEMMA SameReach ==
  ASSUME person'.used = person.used, person'.limit = person.limit,
         person'.expire = person.expire, today' = today, NEW k
  PROVE  Reached(person', today', k) <=> Reached(person, today, k)
BY DEF Reached

\* Traffic and days only come nearer to a threshold.
LEMMA NearerKeeps ==
  ASSUME NEW u \in Persons, NEW v \in Persons, NEW s \in Nat, NEW t \in Nat,
         u.limit = v.limit, u.expire = v.expire, u.used <= v.used, s <= t,
         NEW k \in Keys, Reached(u, s, k)
  PROVE  Reached(v, t, k)
<1>1. k[2] \in Int /\ k[1] \in {"data_usage", "expiration_date"}
  BY KeyParts
<1>2. CASE k[1] = "data_usage"
  <2> DEFINE x == k[2] * u.limit
  <2>1. x \in Int /\ u.used \in Nat /\ v.used \in Nat /\ u.used * 100 >= x /\ u.limit > 0
    BY <1>1, <1>2 DEF Reached, Persons
  <2>2. v.limit > 0 /\ k[2] * v.limit = x
    BY <2>1
  <2> HIDE DEF x
  <2>3. v.used * 100 >= x
    BY <2>1
  <2> QED BY <1>2, <2>2, <2>3 DEF Reached
<1>3. CASE k[1] # "data_usage"
  BY <1>1, <1>3 DEF Reached, Persons
<1> QED BY <1>2, <1>3

\* A step of the world that makes no reports and leaves rows alone or deletes dead
\* ones: it keeps the history, and what the job holds.
LEMMA WorldKeeps ==
  ASSUME ReminderInv, Watch({}, 0, FALSE), person' \in Persons, today' \in Nat,
         person'.limit = person.limit, person'.expire = person.expire,
         person.used <= person'.used, today <= today',
         reviewing' = reviewing, editing' \in [Editors -> {NoRequest} \cup Edits],
         reminders' \subseteq reminders,
         \A r \in reminders : r \notin reminders' => Dead(r)
  PROVE  ReminderInv'
<1>1. ReminderTypes /\ person \in Persons /\ today \in Nat /\ reminders \subseteq ReminderRows
  BY DEF ReminderInv, ReminderTypes
<1>2. ReminderTypes'
  BY <1>1, WatchTypes DEF ReminderTypes
<1>3. ASSUME NEW k \in Keys, Reached(person, today, k) PROVE Reached(person', today', k)
  BY <1>1, <1>3, NearerKeeps
<1>4. HistoryOK'
  BY <1>1, <1>3, QuietKeeps DEF ReminderInv
<1>5. \A r \in ReminderRows : Dead(r) => Dead(r)'
  BY <1>1 DEF Dead, ReminderRows
<1>6. LookingOK'
  <2> SUFFICES ASSUME reviewing \in Looks
               PROVE  /\ reminders' \subseteq reviewing.rows
                      /\ ~reviewing.crossed =>
                            /\ reviewing.row.limit = person'.limit
                            /\ reviewing.row.expire = person'.expire
                            /\ reviewing.row.used <= person'.used
                            /\ \A r \in reviewing.rows : r \notin reminders' => Dead(r)'
    BY DEF LookingOK
  <2>1. /\ reminders \subseteq reviewing.rows
        /\ ~reviewing.crossed =>
              /\ reviewing.row.limit = person.limit /\ reviewing.row.expire = person.expire
              /\ reviewing.row.used <= person.used
              /\ \A r \in reviewing.rows : r \notin reminders => Dead(r)
    BY DEF ReminderInv, LookingOK
  <2>2. reviewing.rows \subseteq ReminderRows /\ reviewing.row \in Persons
    BY DEF Looks
  <2>3. reviewing.row.used \in Nat /\ person.used \in Nat /\ person'.used \in Nat
    BY <1>1, <2>2 DEF Persons
  <2>4. reviewing.row.used <= person.used => reviewing.row.used <= person'.used
    BY <2>3
  <2> QED BY <1>5, <2>1, <2>2, <2>4
<1>7. WritingOK'
  <2> SUFFICES ASSUME reviewing \in Writes
               PROVE  /\ until'[reviewing.key] = reviewing.expires
                      /\ ~reviewing.crossed => due'[reviewing.key] = "told"
    BY DEF WritingOK
  <2> DEFINE k == reviewing.key
  <2>1. k \in Keys
    BY DEF Writes
  <2>2. until[k] = reviewing.expires /\ (~reviewing.crossed => due[k] = "told")
    BY DEF ReminderInv, WritingOK
  <2>3. due[k] = "told" => Reached(person, today, k)
    BY <2>1 DEF ReminderInv, HistoryOK
  <2>4. \A n \in Keys :
           /\ due'[n] = IF ~Reached(person', today', n) THEN "below"
                        ELSE IF due[n] = "below" THEN "new" ELSE due[n]
           /\ until'[n] = until[n]
    BY DEF Watch
  <2> HIDE DEF k
  <2>5. ~reviewing.crossed => due'[k] = "told"
    BY <1>3, <2>1, <2>2, <2>3, <2>4
  <2>6. until'[k] = reviewing.expires
    BY <2>1, <2>2, <2>4
  <2> QED BY <2>5, <2>6 DEF k
<1> QED BY <1>2, <1>4, <1>6, <1>7 DEF ReminderInv

LEMMA CleanupKeeps ==
  ASSUME ReminderInv, delete_expired_reminders PROVE ReminderInv'
<1>1. ReminderTypes /\ person \in Persons /\ person.used \in Nat /\ today \in Nat
  BY DEF ReminderInv, ReminderTypes, Persons
<1> QED BY <1>1, WorldKeeps DEF delete_expired_reminders, ReminderTypes

LEMMA UseKeeps ==
  ASSUME ReminderInv, Use PROVE ReminderInv'
<1>1. ReminderTypes /\ person \in Persons /\ person.used \in Nat /\ today \in Nat
  BY DEF ReminderInv, ReminderTypes, Persons
<1>2. /\ person' = [person EXCEPT !.used = person.used + 1] /\ today' = today
      /\ reminders' = reminders /\ reviewing' = reviewing /\ editing' = editing
      /\ Watch({}, 0, FALSE)
  BY DEF Use
<1>3. /\ person' \in Persons /\ person'.used = person.used + 1
      /\ person'.limit = person.limit /\ person'.expire = person.expire
  BY <1>1, <1>2 DEF Persons
<1>4. person.used <= person'.used
  BY <1>1, <1>3
<1> QED BY <1>1, <1>2, <1>3, <1>4, WorldKeeps DEF ReminderTypes

LEMMA DayKeeps ==
  ASSUME ReminderInv, NextDay PROVE ReminderInv'
<1>1. ReminderTypes /\ person \in Persons /\ person.used \in Nat /\ today \in Nat
  BY DEF ReminderInv, ReminderTypes, Persons
<1>2. today' \in Nat /\ today <= today'
  BY <1>1 DEF NextDay
<1> QED BY <1>1, <1>2, WorldKeeps DEF NextDay, ReminderTypes

\* A request that begins reads, and nothing else.
LEMMA RequestKeeps ==
  ASSUME ReminderInv, NEW e \in Editors, BeginEdit(e) PROVE ReminderInv'
<1>1. ReminderTypes /\ person \in Persons /\ person.used \in Nat /\ today \in Nat
  BY DEF ReminderInv, ReminderTypes, Persons
<1>2. PICK field \in {"limit", "expire", "status", "reset"} : \E value \in Values(field) :
         editing' = [editing EXCEPT ![e] =
                       [field |-> field, value |-> value, row |-> person, rows |-> reminders]]
  BY DEF BeginEdit
<1> PICK value \in Values(field) :
         editing' = [editing EXCEPT ![e] =
                       [field |-> field, value |-> value, row |-> person, rows |-> reminders]]
  BY <1>2
<1>3. [field |-> field, value |-> value, row |-> person, rows |-> reminders] \in Edits
  <2>1. /\ field = "status" => value \in {"active", "disabled"}
        /\ field # "status" => value \in Nat
    BY ReminderAssumption DEF Values
  <2> QED BY <1>1, <2>1 DEF Edits, ReminderTypes
<1>4. editing' \in [Editors -> {NoRequest} \cup Edits]
  BY <1>1, <1>3 DEF ReminderTypes
<1> QED BY <1>1, <1>4, WorldKeeps DEF BeginEdit

(***************************************************************************)
(* The job.                                                                *)
(***************************************************************************)

\* A read holds what is there.
LEMMA ReadKeeps ==
  ASSUME ReminderInv, NEW pc \in {"data_usage", "expiration_date"}, NEW day \in Nat,
         UNCHANGED <<person, today, reminders, editing>>, reviewing' = Read(pc, day),
         reviewing.pc # "create", Watch({}, 0, FALSE)
  PROVE  ReminderInv'
<1>1. ReminderTypes /\ person \in Persons /\ person.used \in Nat /\ today \in Nat
  BY DEF ReminderInv, ReminderTypes, Persons
<1>2. reviewing' = [pc |-> pc, row |-> person, rows |-> reminders, day |-> day,
                    crossed |-> FALSE]
  BY DEF Read
<1>3. reviewing' \in Looks /\ reviewing' \notin Writes
  BY <1>1, <1>2 DEF Looks, Writes, ReminderTypes
<1>4. ReminderTypes'
  BY <1>1, <1>3, WatchTypes DEF ReminderTypes
<1> today' \in Nat /\ today' >= today /\ reminders' \subseteq reminders
  BY <1>1
<1> \A k \in Keys : Reached(person', today', k) <=> Reached(person, today, k)
  BY SameReach
<1>5. HistoryOK'
  BY <1>1, QuietKeeps DEF ReminderInv
<1>6. LookingOK' /\ WritingOK'
  BY <1>1, <1>2, <1>3 DEF LookingOK, WritingOK
<1> QED BY <1>4, <1>5, <1>6 DEF ReminderInv

\* What a session writes is a user.
LEMMA WrittenTypes ==
  ASSUME person \in Persons, NEW read \in Persons, NEW new \in Persons,
         person' = ColumnsWritten(read, new)
  PROVE  /\ person' \in Persons
         /\ new.used = read.used => person'.used = person.used
         /\ new.limit = read.limit => person'.limit = person.limit
         /\ new.expire = read.expire => person'.expire = person.expire
         /\ read = person => /\ person'.used = new.used /\ person'.limit = new.limit
                             /\ person'.expire = new.expire
BY DEF ColumnsWritten, Persons

LEMMA StatusKeeps ==
  ASSUME ReminderInv, update_user_status PROVE ReminderInv'
<1>1. /\ ReminderTypes /\ person \in Persons /\ today \in Nat /\ reviewing \in Looks
      /\ reviewing.row \in Persons
  BY Pcs DEF ReminderInv, ReminderTypes, update_user_status, Looks
<1>2. PICK status \in {"limited", "expired"} :
         person' = ColumnsWritten(reviewing.row, [reviewing.row EXCEPT !.status = status])
  BY DEF update_user_status
<1> DEFINE new == [reviewing.row EXCEPT !.status = status]
<1>3. /\ new \in Persons /\ new.used = reviewing.row.used /\ new.limit = reviewing.row.limit
      /\ new.expire = reviewing.row.expire
  BY <1>1 DEF Persons
<1>4. /\ person' \in Persons /\ person'.used = person.used /\ person'.limit = person.limit
      /\ person'.expire = person.expire
  BY <1>1, <1>2, <1>3, WrittenTypes
<1>5. /\ today' = today /\ reminders' = reminders /\ editing' = editing
      /\ reviewing' = NoReview /\ Watch({}, 0, FALSE)
  BY DEF update_user_status
<1>6. ReminderTypes'
  BY <1>1, <1>4, <1>5, WatchTypes DEF ReminderTypes
<1>7. reviewing.pc # "create"
  BY DEF update_user_status
<1> today' \in Nat /\ today' >= today /\ reminders' \subseteq reminders
  BY <1>1, <1>5
<1> \A k \in Keys : Reached(person', today', k) <=> Reached(person, today, k)
  BY <1>4, <1>5, SameReach
<1>8. HistoryOK'
  BY <1>1, <1>5, <1>7, QuietKeeps DEF ReminderInv
<1>9. LookingOK' /\ WritingOK'
  BY <1>5 DEF LookingOK, WritingOK, NoReview, Looks, Writes
<1> QED BY <1>6, <1>8, <1>9 DEF ReminderInv

\* Of a type at most one threshold is the sharpest.
LEMMA OneSharpest ==
  ASSUME NEW u, NEW type \in {"data_usage", "expiration_date"},
         NEW k \in Sharpest(u, type), NEW n \in Sharpest(u, type)
  PROVE  k = n
<1>1. /\ k \in Keys /\ n \in Keys /\ k[1] = type /\ n[1] = type
      /\ Reached(u, today, k) /\ Reached(u, today, n)
  BY DEF Sharpest
<1>2. k[2] \in Int /\ n[2] \in Int /\ k = <<k[1], k[2]>> /\ n = <<n[1], n[2]>>
  BY <1>1, KeyParts
<1>3. k[2] <= n[2] /\ n[2] <= k[2]
  <2>1. CASE type = "data_usage"
    BY <1>1, <2>1 DEF Sharpest
  <2>2. CASE type = "expiration_date"
    BY <1>1, <2>2 DEF Sharpest
  <2> QED BY <2>1, <2>2
<1> QED BY <1>1, <1>2, <1>3

\* What one look reports and deletes among the rows it finds.
Missed(type, table) ==
    {k \in Sharpest(reviewing.row, type) : ~get_notification_reminder(k, table) /\ NotifyOf(k)}
Gone(type, table) ==
    UNION {{r \in Found(k, table) : Dead(r)} : k \in Sharpest(reviewing.row, type)}
Seen(gone) ==
    IF gone = {} THEN reviewing ELSE [reviewing EXCEPT !.row = person, !.rows = reminders']

LEMMA Looking ==
  ASSUME ReminderInv, NotifyDays, NEW type \in {"data_usage", "expiration_date"}, Remind(type)
  PROVE  \E table \in {reviewing.rows, reminders}, k \in Sharpest(reviewing.row, type) \cup {<<>>} :
           LET made == Missed(type, table)
               seen == Seen(Gone(type, table))
           IN  /\ reminders' = reminders \ Gone(type, table)
               /\ Watch(made, seen.row.expire, FALSE)
               /\ \/ made = {} /\ reviewing' \in {NoReview, [seen EXCEPT !.pc = "expiration_date"]}
                  \/ /\ made = {k} /\ k \in Keys
                     /\ reviewing' = [pc |-> "create", key |-> k, expires |-> seen.row.expire,
                                      day |-> seen.day, crossed |-> seen.crossed]
<1>1. PICK table \in {reviewing.rows, reminders} :
         LET gone == Gone(type, table)
             made == Missed(type, table)
             seen == Seen(gone)
         IN  /\ reminders' = reminders \ gone
             /\ reviewing' = IF \E k \in made : RememberOf(k)
                             THEN [pc |-> "create", key |-> CHOOSE k \in made : TRUE,
                                   expires |-> seen.row.expire,
                                   day |-> seen.day, crossed |-> seen.crossed]
                             ELSE IF After(type) = "idle" THEN NoReview
                             ELSE [seen EXCEPT !.pc = After(type)]
             /\ Watch(made, seen.row.expire, FALSE)
  BY DEF Remind, Gone, Missed, Seen
<1> DEFINE made == Missed(type, table)
<1>2. \A k \in made : RememberOf(k) /\ k \in Sharpest(reviewing.row, type) /\ k \in Keys
  BY DEF Missed, NotifyOf, RememberOf, Sharpest
<1>3. CASE made = {}
  BY <1>1, <1>3 DEF After
<1>4. CASE made # {}
  <2> DEFINE k == CHOOSE k \in made : TRUE
  <2>1. k \in made
    BY <1>4
  <2> HIDE DEF k
  <2>2. made = {k}
    BY <1>2, <2>1, OneSharpest
  <2> QED BY <1>1, <1>2, <2>1, <2>2 DEF k
<1> QED BY <1>3, <1>4

LEMMA RemindingKeeps ==
  ASSUME ReminderInv, NotifyDays, NEW type \in {"data_usage", "expiration_date"}, Remind(type)
  PROVE  ReminderInv'
<1>1. PICK table \in {reviewing.rows, reminders}, key \in Sharpest(reviewing.row, type) \cup {<<>>} :
         LET made == Missed(type, table)
             seen == Seen(Gone(type, table))
         IN  /\ reminders' = reminders \ Gone(type, table)
             /\ Watch(made, seen.row.expire, FALSE)
             /\ \/ made = {} /\ reviewing' \in {NoReview, [seen EXCEPT !.pc = "expiration_date"]}
                \/ /\ made = {key} /\ key \in Keys
                   /\ reviewing' = [pc |-> "create", key |-> key, expires |-> seen.row.expire,
                                    day |-> seen.day, crossed |-> seen.crossed]
  BY Looking
<1> DEFINE made == Missed(type, table)
           gone == Gone(type, table)
           seen == Seen(gone)
<1>2. /\ person' = person /\ today' = today /\ editing' = editing
      /\ ReminderTypes /\ reviewing \in Looks
  BY Pcs DEF Remind, ReminderInv
<1>3. /\ reviewing.row \in Persons /\ reviewing.rows \subseteq ReminderRows
      /\ reviewing.day \in Nat /\ reviewing.crossed \in BOOLEAN
      /\ person \in Persons /\ today \in Nat /\ reminders \subseteq ReminderRows
      /\ reminders \subseteq table
  BY <1>2 DEF Looks, ReminderTypes, ReminderInv, LookingOK
<1>4. /\ made \subseteq Sharpest(reviewing.row, type) /\ made \subseteq Keys
      /\ \A k \in made : Reached(reviewing.row, today, k) /\ ~get_notification_reminder(k, table)
  BY DEF Missed, Sharpest
<1>5. /\ reminders' = reminders \ gone /\ Watch(made, seen.row.expire, FALSE)
      /\ \/ made = {} /\ reviewing' \in {NoReview, [seen EXCEPT !.pc = "expiration_date"]}
         \/ /\ made = {key} /\ key \in Keys
            /\ reviewing' = [pc |-> "create", key |-> key, expires |-> seen.row.expire,
                             day |-> seen.day, crossed |-> seen.crossed]
  BY <1>1
<1>6. \A r \in gone : Dead(r)
  BY DEF Gone
<1>7. \A r \in reminders, k \in made : KeyOf(r) = k => r \in gone
  BY <1>3, <1>4 DEF Gone, get_notification_reminder, Found
<1>8. /\ seen \in Looks /\ seen.crossed = reviewing.crossed
      /\ seen.row \in {reviewing.row, person} /\ seen.rows \in {reviewing.rows, reminders'}
      /\ gone = {} => seen = reviewing
      /\ gone # {} => seen.row = person /\ seen.rows = reminders'
  <2>1. CASE gone = {}
    BY <1>2, <2>1 DEF Seen
  <2>2. CASE gone # {}
    <3>1. reminders' \in SUBSET ReminderRows
      BY <1>3, <1>5
    <3> QED BY <1>2, <1>3, <2>2, <3>1 DEF Seen, Looks
  <2> QED BY <2>1, <2>2
<1>9. seen.row.expire \in Nat /\ seen.day \in Nat /\ seen.crossed \in BOOLEAN
  BY <1>8 DEF Looks, Persons
<1> HIDE DEF made, gone, seen
<1>10. reviewing' \in {NoReview} \cup Looks \cup Writes
  BY <1>5, <1>8, <1>9 DEF Looks, Writes
<1>11. ReminderTypes'
  BY <1>2, <1>3, <1>4, <1>5, <1>9, <1>10, WatchTypes DEF ReminderTypes
<1>12. \A k : Reached(person', today', k) <=> Reached(person, today, k)
  BY <1>2
<1>13. \A k \in Keys :
         /\ due'[k] = IF ~Reached(person, today, k) THEN "below"
                      ELSE IF k \in made THEN "told"
                      ELSE IF due[k] = "below" THEN "new" ELSE due[k]
         /\ until'[k] = IF k \in made THEN seen.row.expire ELSE until[k]
         /\ (due'[k] # "told" /\ k \in kept /\ \E r \in reminders' : KeyOf(r) = k) => k \in kept'
         /\ (due'[k] = "told" /\ k \notin made /\ k \in lost) => k \in lost'
  BY <1>5, <1>12 DEF Watch
<1>14. HistoryOK'
  <2>1. ASSUME NEW k \in Keys PROVE due'[k] = "below" <=> ~Reached(person', today', k)
    BY <1>12, <1>13
  <2>2. ASSUME NEW k \in Keys, due'[k] = "told", k \notin lost' PROVE Remembered(k)'
    <3>1. CASE k \in made
      <4>1. reviewing'.pc = "create" /\ reviewing'.key = k
        BY <1>5, <3>1
      <4> QED BY <4>1 DEF Remembered
    <3>2. CASE k \notin made
      <4>1. due[k] = "told" /\ until'[k] = until[k] /\ k \notin lost
        BY <1>13, <2>2, <3>2
      <4>2. Remembered(k) /\ reviewing.pc # "create"
        BY <1>2, <4>1 DEF ReminderInv, HistoryOK, Looks
      <4>3. ASSUME NEW r \in reminders, KeyOf(r) = k, r.expires = until[k] PROVE Remembered(k)'
        <5>1. CASE r \in reminders'
          BY <4>1, <4>3, <5>1 DEF Remembered, KeyOf
        <5>2. CASE r \notin reminders'
          <6>1. until[k] > 0 /\ until[k] < today
            BY <1>5, <1>6, <4>3, <5>2 DEF Dead
          <6> QED BY <1>2, <4>1, <6>1 DEF Remembered
        <5> QED BY <5>1, <5>2
      <4> QED BY <1>2, <4>1, <4>2, <4>3 DEF Remembered
    <3> QED BY <3>1, <3>2
  <2>3. ASSUME NEW k \in Keys, NEW r \in reminders', Ordinary(k), KeyOf(r) = k, due'[k] # "told"
        PROVE  k \in kept'
    <3>1. r \in reminders /\ r \notin gone
      BY <1>5
    <3>2. k \notin made
      BY <1>7, <2>3, <3>1
    <3>3. due[k] # "told"
      BY <1>13, <2>3, <3>2 DEF ReminderInv, HistoryOK
    <3>4. k \in kept
      BY <2>3, <3>1, <3>3 DEF ReminderInv, HistoryOK
    <3> QED BY <1>13, <2>3, <3>4
  <2>4. (\A k \in Keys : due[k] = "below" <=> ~Reached(person, today, k))'
    BY <2>1
  <2>5. (\A k \in Keys : due[k] = "told" /\ k \notin lost => Remembered(k))'
    BY <2>2
  <2>6. (\A k \in Keys, r \in reminders :
            Ordinary(k) /\ KeyOf(r) = k /\ due[k] # "told" => k \in kept)'
    BY <2>3 DEF Ordinary, KeyOf
  <2> QED BY <2>4, <2>5, <2>6 DEF HistoryOK
<1>15. /\ reminders \subseteq reviewing.rows
       /\ ~reviewing.crossed =>
             /\ reviewing.row.limit = person.limit /\ reviewing.row.expire = person.expire
             /\ reviewing.row.used <= person.used
             /\ \A r \in reviewing.rows : r \notin reminders => Dead(r)
  BY <1>2 DEF ReminderInv, LookingOK
<1>16. LookingOK'
  <2> SUFFICES ASSUME reviewing' \in Looks
               PROVE  /\ reminders' \subseteq reviewing'.rows
                      /\ ~reviewing'.crossed =>
                            /\ reviewing'.row.limit = person.limit
                            /\ reviewing'.row.expire = person.expire
                            /\ reviewing'.row.used <= person.used
                            /\ \A r \in reviewing'.rows : r \notin reminders' => Dead(r)
    BY <1>2 DEF LookingOK, Dead
  <2>1. reviewing' = [seen EXCEPT !.pc = "expiration_date"]
    BY <1>5 DEF Looks, NoReview
  <2>2. /\ reviewing'.row = seen.row /\ reviewing'.rows = seen.rows
        /\ reviewing'.crossed = reviewing.crossed
    BY <1>8, <2>1 DEF Looks
  <2>3. CASE gone = {}
    BY <1>5, <1>8, <1>15, <2>2, <2>3
  <2>4. CASE gone # {}
    <3>1. person.used \in Nat
      BY <1>3 DEF Persons
    <3> QED BY <1>8, <2>2, <2>4, <3>1
  <2> QED BY <2>3, <2>4
<1>17. WritingOK'
  <2> SUFFICES ASSUME reviewing' \in Writes
               PROVE  /\ until'[reviewing'.key] = reviewing'.expires
                      /\ ~reviewing'.crossed => due'[reviewing'.key] = "told"
    BY DEF WritingOK
  <2>1. /\ made = {key} /\ key \in Keys
        /\ reviewing' = [pc |-> "create", key |-> key, expires |-> seen.row.expire,
                         day |-> seen.day, crossed |-> seen.crossed]
    <3>1. reviewing' \notin Looks /\ reviewing' # NoReview
      BY DEF Looks, Writes, NoReview
    <3>2. [seen EXCEPT !.pc = "expiration_date"] \in Looks
      BY <1>8 DEF Looks
    <3> QED BY <1>5, <3>1, <3>2
  <2>2. until'[key] = seen.row.expire
    BY <1>13, <2>1
  <2>3. ASSUME ~reviewing.crossed PROVE due'[key] = "told"
    <3>1. Reached(reviewing.row, today, key)
      BY <1>4, <2>1
    <3>2. today <= today
      BY <1>3
    <3>3. Reached(person, today, key)
      BY <1>3, <1>15, <2>1, <2>3, <3>1, <3>2, NearerKeeps
    <3> QED BY <1>13, <2>1, <3>3
  <2> QED BY <1>8, <2>1, <2>2, <2>3
<1> QED BY <1>11, <1>14, <1>16, <1>17 DEF ReminderInv

\* The row is the one the report promised; after a request has crossed the job, the
\* step says that it went astray.
LEMMA RememberingKeeps ==
  ASSUME ReminderInv, create_notification_reminder PROVE ReminderInv'
<1> DEFINE k == reviewing.key
           r == [type |-> k[1], threshold |-> k[2], expires |-> reviewing.expires]
<1>1. /\ ReminderTypes /\ reviewing \in Writes /\ person \in Persons /\ today \in Nat
      /\ reminders \subseteq ReminderRows
  BY Pcs DEF ReminderInv, ReminderTypes, create_notification_reminder
<1>2. /\ k \in Keys /\ reviewing.expires \in Nat /\ reviewing.day \in Nat
      /\ reviewing.crossed \in BOOLEAN
  BY <1>1 DEF Writes
<1>3. /\ person' = person /\ today' = today /\ editing' = editing
      /\ reminders' = reminders \cup {r} /\ Watch({}, 0, reviewing.crossed)
      /\ reviewing' = IF After(k[1]) = "idle" THEN NoReview ELSE Read(After(k[1]), reviewing.day)
  BY DEF create_notification_reminder
<1>4. r \in ReminderRows /\ KeyOf(r) = k /\ r.expires = reviewing.expires
  BY <1>2, KeyParts DEF ReminderRows, KeyOf
<1>5. until[k] = reviewing.expires /\ (~reviewing.crossed => due[k] = "told")
  BY <1>1 DEF ReminderInv, WritingOK
<1> HIDE DEF k, r
<1>6. reminders' \subseteq ReminderRows
  BY <1>1, <1>3, <1>4
<1>7. /\ reviewing' \in {NoReview} \cup Looks /\ reviewing' \notin Writes
      /\ reviewing' # NoReview =>
            /\ reviewing'.row = person' /\ reviewing'.rows = reminders'
  BY <1>1, <1>2, <1>3, <1>6 DEF Read, After, NoReview, Looks, Writes
<1>8. ReminderTypes'
  BY <1>1, <1>3, <1>6, <1>7, WatchTypes DEF ReminderTypes
<1>9. \A n \in Keys :
        /\ due'[n] = IF ~Reached(person', today', n) THEN "below"
                     ELSE IF due[n] = "below" THEN "new" ELSE due[n]
        /\ until'[n] = until[n]
        /\ (due'[n] # "told" /\ (n \in kept \/ reviewing.crossed)
              /\ \E q \in reminders' : KeyOf(q) = n) => n \in kept'
        /\ (due'[n] = "told" /\ n \in lost) => n \in lost'
  BY <1>3 DEF Watch
<1>10. \A n : Reached(person', today', n) <=> Reached(person, today, n)
  BY <1>3
<1>11. HistoryOK'
  <2>1. ASSUME NEW n \in Keys PROVE due'[n] = "below" <=> ~Reached(person', today', n)
    BY <1>9
  <2>2. ASSUME NEW n \in Keys, due'[n] = "told", n \notin lost' PROVE Remembered(n)'
    <3>1. due[n] = "told" /\ n \notin lost /\ until'[n] = until[n]
      BY <1>9, <2>2
    <3>2. Remembered(n)
      BY <3>1 DEF ReminderInv, HistoryOK
    <3>3. CASE \E q \in reminders : KeyOf(q) = n /\ q.expires = until[n]
      BY <1>3, <3>1, <3>3 DEF Remembered, KeyOf
    <3>4. CASE until[n] > 0 /\ until[n] < today
      BY <1>3, <3>1, <3>4 DEF Remembered
    <3>5. CASE n = k
      <4>1. r \in reminders' /\ KeyOf(r) = n /\ r.expires = until'[n]
        BY <1>3, <1>4, <1>5, <3>1, <3>5
      <4> QED BY <4>1 DEF Remembered, KeyOf
    <3> QED BY <3>2, <3>3, <3>4, <3>5 DEF Remembered, k
  <2>3. ASSUME NEW n \in Keys, NEW q \in reminders', Ordinary(n), KeyOf(q) = n, due'[n] # "told"
        PROVE  n \in kept'
    <3>1. due[n] # "told"
      BY <1>9, <1>10, <2>3 DEF ReminderInv, HistoryOK
    <3>2. CASE q \in reminders
      <4>1. n \in kept
        BY <2>3, <3>1, <3>2 DEF ReminderInv, HistoryOK
      <4> QED BY <1>9, <2>3, <4>1
    <3>3. CASE q = r
      <4>1. reviewing.crossed
        BY <1>4, <1>5, <2>3, <3>1, <3>3
      <4> QED BY <1>9, <2>3, <4>1
    <3> QED BY <1>3, <3>2, <3>3
  <2>4. (\A n \in Keys : due[n] = "below" <=> ~Reached(person, today, n))'
    BY <2>1
  <2>5. (\A n \in Keys : due[n] = "told" /\ n \notin lost => Remembered(n))'
    BY <2>2
  <2>6. (\A n \in Keys, q \in reminders :
            Ordinary(n) /\ KeyOf(q) = n /\ due[n] # "told" => n \in kept)'
    BY <2>3 DEF Ordinary, KeyOf
  <2> QED BY <2>4, <2>5, <2>6 DEF HistoryOK
<1>12. person'.used <= person'.used
  BY <1>1, <1>3 DEF Persons
<1>13. LookingOK' /\ WritingOK'
  BY <1>7, <1>12 DEF LookingOK, WritingOK, Looks, NoReview
<1> QED BY <1>8, <1>11, <1>13 DEF ReminderInv

(***************************************************************************)
(* Requests that commit.                                                   *)
(***************************************************************************)

\* The new row, and what of it the request judges.
LEMMA EditTypes ==
  ASSUME NEW r \in Edits, today \in Nat
  PROVE  /\ Edited(r) \in Persons
         /\ r.field # "reset" => Edited(r).used = r.row.used
         /\ r.field # "limit" => Edited(r).limit = r.row.limit
         /\ r.field # "expire" => Edited(r).expire = r.row.expire
         /\ r.field = "limit" => Edited(r).limit = r.value
         /\ r.field = "expire" => Edited(r).expire = r.value
         /\ r.row \in Persons /\ r.rows \subseteq ReminderRows
         /\ r.field \in {"limit", "expire", "reset", "status"}
<1>1. /\ r.row \in Persons /\ r.rows \subseteq ReminderRows
      /\ r.field \in {"limit", "expire", "reset", "status"}
      /\ r.field \in {"limit", "expire"} => r.value \in Nat
      /\ r.field = "status" => r.value \in {"active", "disabled"}
  BY DEF Edits
<1>2. CASE r.field = "limit"
  BY <1>1, <1>2 DEF Edited, Judged, Persons
<1>3. CASE r.field = "expire"
  BY <1>1, <1>3 DEF Edited, Judged, Persons
<1>4. CASE r.field = "status"
  BY <1>1, <1>4 DEF Edited, Persons
<1>5. CASE r.field = "reset"
  BY <1>1, <1>5 DEF Edited, Persons
<1> QED BY <1>1, <1>2, <1>3, <1>4, <1>5

\* A limit or an expiry that the request has judged on the tables as they are: it
\* deletes the rows it moves out of reach, and who is past it stays past every
\* threshold of its kind.
LEMMA JudgedKeeps ==
  ASSUME ReminderTypes, NEW r \in Edits, Open(r), r.row = person,
         person' = ColumnsWritten(r.row, Edited(r)), today' = today,
         reminders' = reminders \ Withdrawn(r, reminders)
  PROVE  /\ \A q \in reminders : q \notin reminders' => ~Reached(person', today', KeyOf(q))
         /\ \A k \in Keys : Ordinary(k) /\ Reached(person, today, k) /\ ~Reached(person', today', k)
               => \A q \in reminders' : KeyOf(q) # k
<1>1. person \in Persons /\ today \in Nat /\ reminders \subseteq ReminderRows
  BY DEF ReminderTypes
<1> DEFINE u == Edited(r)
<1>2. /\ u \in Persons /\ r.field \in {"limit", "expire"} /\ u.used = person.used
      /\ r.field = "limit" => u.expire = person.expire
      /\ r.field = "expire" => u.limit = person.limit
  BY <1>1, EditTypes DEF Open
<1>3. /\ person' \in Persons
      /\ person'.used = u.used /\ person'.limit = u.limit /\ person'.expire = u.expire
  BY <1>1, <1>2, WrittenTypes
<1> HIDE DEF u
<1>4. \A k : Reached(person', today', k) <=> Reached(u, today, k)
  BY <1>3 DEF Reached
<1>5. CASE r.field = "limit"
  <2>1. \A k \in Keys : k[1] # "data_usage" /\ Reached(person, today, k) => Reached(u, today, k)
    BY <1>2, <1>5 DEF Reached
  <2>2. CASE Limited(u)
    <3>1. reminders' = reminders
      BY <1>5, <2>2 DEF Withdrawn, u
    <3>2. \A p \in Int, m \in Nat, n \in Nat : p <= 100 /\ n >= m => n * 100 >= p * m
      <4> SUFFICES ASSUME NEW p \in Int, NEW m \in Nat, NEW n \in Nat, p <= 100, n >= m
                   PROVE  n * 100 >= p * m
        OBVIOUS
      <4>1. n * 100 >= m * 100 /\ m * 100 \in Int /\ p * m \in Int
        OBVIOUS
      <4>2. (100 - p) * m >= 0 /\ (100 - p) * m = m * 100 - p * m
        OBVIOUS
      <4> QED BY <4>1, <4>2
    <3>3. ASSUME NEW k \in Keys, Ordinary(k), k[1] = "data_usage" PROVE Reached(u, today, k)
      <4>1. k[2] \in Int /\ k[2] <= 100
        BY <3>3, KeyParts DEF Ordinary
      <4>2. u.limit \in Nat /\ u.used \in Nat /\ u.limit > 0 /\ u.used >= u.limit
        BY <1>2, <2>2 DEF Limited, Persons
      <4> QED BY <3>2, <3>3, <4>1, <4>2 DEF Reached
    <3> QED BY <1>4, <2>1, <3>1, <3>3
  <2>3. CASE ~Limited(u)
    <3>1. reminders' = reminders \ OutOfReach(u, "data_usage", reminders)
      BY <1>5, <2>3 DEF Withdrawn, u
    <3>2. \A q \in reminders : q \notin reminders' => ~Reached(u, today, KeyOf(q))
      BY <3>1 DEF OutOfReach, KeyOf
    <3>3. ASSUME NEW k \in Keys, k[1] = "data_usage", ~Reached(u, today, k),
                 NEW q \in reminders', KeyOf(q) = k
          PROVE  FALSE
      <4>1. q.type = "data_usage" /\ k = <<"data_usage", q.threshold>>
        BY <3>3 DEF KeyOf
      <4> QED BY <3>1, <3>3, <4>1 DEF OutOfReach
    <3> QED BY <1>4, <2>1, <3>2, <3>3
  <2> QED BY <2>2, <2>3
<1>6. CASE r.field = "expire"
  <2>1. \A k \in Keys : k[1] = "data_usage" /\ Reached(person, today, k) => Reached(u, today, k)
    BY <1>2, <1>6 DEF Reached
  <2>2. CASE Expired(u, today)
    <3>1. reminders' = reminders
      BY <1>6, <2>2 DEF Withdrawn, u
    <3>2. ASSUME NEW k \in Keys, Ordinary(k), k[1] # "data_usage" PROVE Reached(u, today, k)
      <4>1. k[2] \in Int /\ k[2] >= 0
        BY <3>2, KeyParts DEF Ordinary
      <4>2. u.expire \in Nat /\ u.expire > 0 /\ u.expire <= today
        BY <1>2, <2>2 DEF Expired, Persons
      <4> QED BY <1>1, <3>2, <4>1, <4>2 DEF Reached
    <3> QED BY <1>4, <2>1, <3>1, <3>2
  <2>3. CASE ~Expired(u, today)
    <3>1. reminders' = reminders \ OutOfReach(u, "expiration_date", reminders)
      BY <1>6, <2>3 DEF Withdrawn, u
    <3>2. \A q \in reminders : q \notin reminders' => ~Reached(u, today, KeyOf(q))
      BY <3>1 DEF OutOfReach, KeyOf
    <3>3. ASSUME NEW k \in Keys, k[1] # "data_usage", ~Reached(u, today, k),
                 NEW q \in reminders', KeyOf(q) = k
          PROVE  FALSE
      <4>1. q.type = "expiration_date" /\ k = <<"expiration_date", q.threshold>>
        BY <3>3, KeyParts DEF KeyOf
      <4> QED BY <3>1, <3>3, <4>1 DEF OutOfReach
    <3> QED BY <1>4, <2>1, <3>2, <3>3
  <2> QED BY <2>2, <2>3
<1> QED BY <1>2, <1>5, <1>6

LEMMA CommitEditKeeps ==
  ASSUME ReminderInv, NEW e \in Editors, CommitEdit(e) PROVE ReminderInv'
<1> DEFINE r == editing[e]
           astray == r.field # "status" /\ (~Open(r) \/ Overtaken(r))
<1>1. /\ ReminderTypes /\ person \in Persons /\ today \in Nat
      /\ reminders \subseteq ReminderRows
      /\ reviewing \in {NoReview} \cup Looks \cup Writes
      /\ editing \in [Editors -> {NoRequest} \cup Edits]
  BY DEF ReminderInv, ReminderTypes
<1>2. r \in Edits
  BY <1>1 DEF CommitEdit, NoRequest
<1>3. /\ editing' = [editing EXCEPT ![e] = NoRequest] /\ today' = today
      /\ person' = ColumnsWritten(r.row, Edited(r))
      /\ \E table \in {r.rows, reminders} : reminders' = reminders \ Withdrawn(r, table)
      /\ reviewing' = IF reviewing.pc = "idle" THEN reviewing
                      ELSE [reviewing EXCEPT !.crossed = TRUE]
      /\ Watch({}, 0, astray)
  BY DEF CommitEdit
<1>4. editing' \in [Editors -> {NoRequest} \cup Edits]
  BY <1>1, <1>3
<1>5. /\ reminders' \subseteq reminders /\ today' \in Nat /\ today' >= today
      /\ person' \in Persons
  BY <1>1, <1>2, <1>3, EditTypes, WrittenTypes
<1>6. /\ reviewing' \in {NoReview} \cup Looks \cup Writes /\ reviewing'.pc = reviewing.pc
      /\ reviewing' \in Looks => reviewing \in Looks /\ reviewing'.rows = reviewing.rows
                                   /\ reviewing'.crossed
      /\ reviewing \in Writes => reviewing'.key = reviewing.key
      /\ reviewing' \in Writes => /\ reviewing \in Writes /\ reviewing'.key = reviewing.key
                                  /\ reviewing'.expires = reviewing.expires /\ reviewing'.crossed
  BY <1>1, <1>3 DEF NoReview, Looks, Writes
<1>7. ReminderTypes'
  BY <1>1, <1>3, <1>4, <1>5, <1>6, WatchTypes
<1>8. /\ \A q \in reminders : q \notin reminders' => astray \/ ~Reached(person', today', KeyOf(q))
      /\ \A k \in Keys : Ordinary(k) /\ Reached(person, today, k) /\ ~Reached(person', today', k)
            => astray \/ \A q \in reminders' : KeyOf(q) # k
  <2>1. CASE astray
    BY <2>1
  <2>2. CASE r.field = "status"
    <3>1. Withdrawn(r, r.rows) = {} /\ Withdrawn(r, reminders) = {}
      BY <2>2 DEF Withdrawn, Open
    <3>2. reminders' = reminders
      BY <1>3, <3>1
    <3>3. /\ person'.used = person.used /\ person'.limit = person.limit
          /\ person'.expire = person.expire
      BY <1>1, <1>2, <1>3, <2>2, EditTypes, WrittenTypes
    <3> QED BY <1>3, <3>2, <3>3, SameReach
  <2>3. CASE Open(r) /\ ~Overtaken(r)
    <3>1. r.row = person /\ r.rows = reminders
      BY <2>3 DEF Overtaken
    <3>2. reminders' = reminders \ Withdrawn(r, reminders)
      BY <1>3, <3>1
    <3> HIDE DEF r
    <3> QED BY <1>1, <1>2, <1>3, <2>3, <3>1, <3>2, JudgedKeeps
  <2> QED BY <2>1, <2>2, <2>3
<1>9. astray \in BOOLEAN
  OBVIOUS
<1>10. reviewing.pc = "create" => reviewing'.pc = "create" /\ reviewing'.key = reviewing.key
  BY <1>1, <1>6, Pcs
<1> HIDE DEF astray, r
<1>11. HistoryOK'
  BY <1>1, <1>3, <1>5, <1>8, <1>9, <1>10, QuietKeeps DEF ReminderInv
<1>12. LookingOK'
  BY <1>5, <1>6 DEF ReminderInv, LookingOK
<1>13. WritingOK'
  <2> SUFFICES ASSUME reviewing' \in Writes PROVE until'[reviewing'.key] = reviewing'.expires
    BY <1>6 DEF WritingOK
  <2>1. reviewing.key \in Keys /\ until[reviewing.key] = reviewing.expires
    BY <1>6 DEF ReminderInv, WritingOK, Writes
  <2>2. \A k \in Keys : until'[k] = until[k]
    BY <1>3 DEF Watch
  <2> QED BY <1>6, <2>1, <2>2
<1> QED BY <1>7, <1>11, <1>12, <1>13 DEF ReminderInv

\* Nothing is told when nothing is reached, and nothing is remembered.
LEMMA RemindersBegin == ReminderInit => ReminderInv
<1> SUFFICES ASSUME ReminderInit PROVE ReminderInv
  OBVIOUS
<1>1. person \in Persons
  <2>1. person \in [status : {"active"}, used : {0}, limit : DataLimits, expire : Expiries]
    BY DEF ReminderInit
  <2>2. DataLimits \subseteq Nat /\ Expiries \subseteq Nat
    BY ReminderAssumption
  <2>3. person.limit \in Nat /\ person.expire \in Nat /\ person.status = "active" /\ person.used = 0
    BY <2>1, <2>2
  <2> QED BY <2>1, <2>3 DEF Persons
<1>2. /\ today = 1 /\ reminders = {} /\ reviewing = NoReview
      /\ editing \in [Editors -> {NoRequest}]
      /\ due = [k \in Keys |-> IF Reached(person, 1, k) THEN "new" ELSE "below"]
      /\ until = [k \in Keys |-> 0]
  BY DEF ReminderInit
<1>3. ReminderTypes
  BY <1>1, <1>2 DEF ReminderTypes
<1>4. HistoryOK
  BY <1>2 DEF HistoryOK
<1>5. LookingOK /\ WritingOK
  BY <1>2 DEF LookingOK, WritingOK, NoReview, Looks, Writes
<1> QED BY <1>3, <1>4, <1>5 DEF ReminderInv

LEMMA ReviewKeeps ==
  ASSUME NotifyDays, ReminderInv, review PROVE ReminderInv'
<1>1. today \in Nat /\ (reviewing \in Looks => reviewing.day \in Nat)
  BY DEF ReminderInv, ReminderTypes, Looks
<1>2. CASE get_users
  BY <1>1, <1>2, ReadKeeps DEF get_users
<1>3. CASE ReadAgain
  <2>1. reviewing \in Looks
    BY <1>3, Pcs DEF ReadAgain, ReminderInv
  <2> QED BY <1>1, <1>3, <2>1, ReadKeeps DEF ReadAgain
<1> QED BY <1>2, <1>3, StatusKeeps, RemindingKeeps, RememberingKeeps DEF review

LEMMA RemindersKeep ==
  ASSUME NotifyDays, ReminderInv, [ReminderNext]_reminderVars PROVE ReminderInv'
<1>1. CASE UNCHANGED reminderVars
  BY <1>1 DEF reminderVars, ReminderInv, ReminderTypes, HistoryOK, LookingOK, WritingOK,
              Remembered, Reached, Ordinary, KeyOf, Dead
<1>2. CASE \E e \in Editors : BeginEdit(e) \/ CommitEdit(e)
  BY <1>2, RequestKeeps, CommitEditKeeps
<1> QED BY <1>1, <1>2, ReviewKeeps, CleanupKeeps, UseKeeps, DayKeeps DEF ReminderNext

\* A job that no request has crossed and that has found the user neither limited nor
\* expired sees ordinary thresholds.
LEMMA InReachIsOrdinary ==
  ASSUME ReminderTypes, reviewing \in Looks, DaysLeft \subseteq Nat,
         NEW type \in {"data_usage", "expiration_date"}, Remind(type),
         NEW k \in Sharpest(reviewing.row, type)
  PROVE  Ordinary(k)
<1>1. k \in Keys /\ k[1] = type /\ k[2] \in Int /\ Reached(reviewing.row, today, k)
  BY KeyParts DEF Sharpest
<1>2. /\ reviewing.row.used \in Nat /\ reviewing.row.limit \in Nat
  BY DEF Looks, Persons
<1>3. CASE type = "data_usage"
  <2> ~Limited(reviewing.row)
    BY <1>3 DEF Remind
  <2>1. /\ reviewing.row.limit > 0 /\ reviewing.row.used * 100 >= k[2] * reviewing.row.limit
        /\ reviewing.row.used < reviewing.row.limit
    BY <1>1, <1>2, <1>3 DEF Reached, Limited
  <2>2. \A p \in Int, m \in Nat, n \in Nat : n < m /\ n * 100 >= p * m => p <= 100
    <3> SUFFICES ASSUME NEW p \in Int, NEW m \in Nat, NEW n \in Nat, n < m, p > 100
                 PROVE  n * 100 < p * m
      OBVIOUS
    <3>1. n * 100 < m * 100 /\ m * 100 \in Int /\ p * m \in Int /\ n * 100 \in Int
      OBVIOUS
    <3>2. (p - 100) * m >= 0 /\ (p - 100) * m = p * m - m * 100
      OBVIOUS
    <3> QED BY <3>1, <3>2
  <2> QED BY <1>1, <1>2, <1>3, <2>1, <2>2 DEF Ordinary
<1>4. CASE type = "expiration_date"
  <2>1. k \in {"expiration_date"} \X DaysLeft
    BY <1>1, <1>4 DEF Keys
  <2> QED BY <1>1, <1>4, <2>1 DEF Ordinary
<1> QED BY <1>3, <1>4

\* What one look reports.
LEMMA RemindingReports ==
  ASSUME ReminderInv, NotifyDays, DaysLeft \subseteq Nat,
         NEW type \in {"data_usage", "expiration_date"}, Remind(type)
  PROVE  /\ \A k \in sent' : /\ due[k] = "told" => k \in lost \/ (until[k] > 0 /\ until[k] < today)
                             /\ Reached(person, today, k) \/ reviewing.crossed
         /\ ~reviewing.crossed =>
              \A k \in Sharpest(reviewing.row, type) : NotifyOf(k) => due'[k] = "told" \/ k \in kept
<1>1. PICK table \in {reviewing.rows, reminders} :
         \E expires : Watch(Missed(type, table), expires, FALSE)
  BY Looking
<1> DEFINE made == Missed(type, table)
<1>2. /\ ReminderTypes /\ reviewing \in Looks /\ person' = person /\ today' = today
      /\ reviewing.row \in Persons /\ person \in Persons /\ today \in Nat /\ today <= today
      /\ reminders \subseteq table
  <2>1. reviewing.pc = type /\ person' = person /\ today' = today
    BY DEF Remind
  <2>2. ReminderTypes /\ reviewing \in Looks
    BY <2>1, Pcs DEF ReminderInv
  <2>3. reviewing.row \in Persons /\ person \in Persons /\ today \in Nat /\ today <= today
    BY <2>2 DEF ReminderTypes, Looks
  <2>4. reminders \subseteq table
    BY <2>2 DEF ReminderInv, LookingOK
  <2> QED BY <2>1, <2>2, <2>3, <2>4
<1>3. /\ sent' = made /\ made \subseteq Keys
      /\ \A k \in Keys : due'[k] = IF ~Reached(person, today, k) THEN "below"
                                   ELSE IF k \in made THEN "told"
                                   ELSE IF due[k] = "below" THEN "new" ELSE due[k]
  BY <1>1, <1>2 DEF Watch, Missed, Sharpest, Reached
<1>4. ~reviewing.crossed =>
         /\ reviewing.row.limit = person.limit /\ reviewing.row.expire = person.expire
         /\ reviewing.row.used <= person.used
         /\ \A r \in reviewing.rows : r \notin reminders => Dead(r)
  BY <1>2 DEF ReminderInv, LookingOK
<1>5. ASSUME NEW k \in Sharpest(reviewing.row, type), ~reviewing.crossed
      PROVE  k \in Keys /\ Reached(person, today, k)
  <2>1. k \in Keys /\ Reached(reviewing.row, today, k)
    BY DEF Sharpest
  <2> QED BY <1>2, <1>4, <1>5, <2>1, NearerKeeps
<1>6. ASSUME NEW k \in made
      PROVE  /\ due[k] = "told" => k \in lost \/ (until[k] > 0 /\ until[k] < today)
             /\ Reached(person, today, k) \/ reviewing.crossed
  <2>1. k \in Sharpest(reviewing.row, type) /\ ~get_notification_reminder(k, table) /\ k \in Keys
    BY DEF Missed, Sharpest
  <2>2. ASSUME due[k] = "told", k \notin lost PROVE until[k] > 0 /\ until[k] < today
    <3>1. Remembered(k) /\ reviewing.pc # "create"
      BY <1>2, <2>1, <2>2 DEF ReminderInv, HistoryOK, Looks
    <3>2. ASSUME NEW r \in reminders, KeyOf(r) = k, r.expires = until[k]
          PROVE  until[k] > 0 /\ until[k] < today
      BY <1>2, <2>1, <3>2 DEF get_notification_reminder, Found, Dead
    <3> QED BY <3>1, <3>2 DEF Remembered
  <2> QED BY <1>5, <2>1, <2>2
<1>7. ASSUME NEW k \in Sharpest(reviewing.row, type), ~reviewing.crossed, NotifyOf(k)
      PROVE  due'[k] = "told" \/ k \in kept
  <2>1. k \in Keys /\ Reached(person, today, k)
    BY <1>5, <1>7
  <2>2. CASE k \in made
    BY <1>3, <2>1, <2>2
  <2>3. CASE k \notin made
    <3>1. PICK r \in Found(k, table) : ~Dead(r)
      BY <1>7, <2>3 DEF Missed, get_notification_reminder
    <3>2. r \in reminders /\ KeyOf(r) = k
      BY <1>4, <1>7, <3>1 DEF Found
    <3>3. due[k] = "told" \/ k \in kept
      BY <1>2, <2>1, <3>2, InReachIsOrdinary DEF ReminderInv, HistoryOK
    <3> QED BY <1>3, <2>1, <3>3
  <2> QED BY <2>2, <2>3
<1> HIDE DEF made
<1> QED BY <1>3, <1>6, <1>7

\* What a step reports.
LEMMA StepsRemind ==
  ASSUME NotifyDays, DaysLeft \subseteq Nat, ReminderInv, [ReminderNext]_reminderVars
  PROVE  [OnceStep /\ ReportStep /\ ReviewStep]_reminderVars
<1> SUFFICES ASSUME ReminderNext PROVE OnceStep /\ ReportStep /\ ReviewStep
  OBVIOUS
<1>1. ReviewStep
  BY RemindingReports DEF ReviewStep
<1>2. CASE \E type \in {"data_usage", "expiration_date"} : Remind(type)
  BY <1>1, <1>2, RemindingReports DEF OnceStep, ReportStep
<1>3. CASE ~\E type \in {"data_usage", "expiration_date"} : Remind(type)
  <2>1. sent' = {}
    BY <1>3 DEF ReminderNext, review, get_users, ReadAgain, update_user_status,
                create_notification_reminder, delete_expired_reminders, Use, NextDay,
                BeginEdit, CommitEdit, Watch
  <2> QED BY <1>1, <2>1 DEF OnceStep, ReportStep
<1> QED BY <1>2, <1>3

\* Reminders are neither repeated nor false nor forgotten, for any thresholds, limits,
\* traffic, and any number of requests that cross the job and one another: while a
\* threshold stays reached it is reported once, what is reported is reached, and the
\* job reports every threshold reached anew, except where the tables are those of a
\* crossing or of a row that outlived the drop.  The days switch has to be on: without
\* it the report goes out and no row is made.
THEOREM NeitherRepeatedNorForgotten ==
  ASSUME NotifyDays, DaysLeft \subseteq Nat PROVE ReminderSpec => RemindersSound
BY RemindersBegin, RemindersKeep, StepsRemind, PTL DEF ReminderSpec, RemindersSound

(***************************************************************************)
(* Bots that another panel pushes: while calls do not cross, what a call   *)
(* has read is still so when it commits.                                   *)
(***************************************************************************)

BotRow(b) ==
    /\ DOMAIN b = {"username", "source", "sync", "data", "agreed"}
    /\ b.source \in Sources \cup {Nil} /\ b.sync \in BOOLEAN

\* The rows, with what is promised of them.
BotsOK ==
    /\ DOMAIN bots = BotIds /\ managed \subseteq Sources \cup {"apps"}
    /\ \A i \in Rows : BotRow(bots[i])
    /\ SyncOffIsFree /\ PushedValuesShown

\* What a call has read and checked still holds.
CallFits(c) ==
    /\ c.op = "push" =>
         /\ c.source \in Sources
         /\ c.bot = Nil => c.read = Nil
         /\ c.bot # Nil => /\ c.bot \in Rows /\ c.read = bots[c.bot] /\ bots[c.bot].sync
                           /\ bots[c.bot].source \in {c.source, Nil}
    /\ c.op \in {"identity", "settings", "sync"} => c.bot \in Rows /\ c.read = bots[c.bot]
    /\ c.op = "identity" => IdentityAllowed(c.bot, c.username, c.web)
    /\ c.op = "settings" => SettingsAllowed(c.bot, c.form)
    /\ c.op = "sync" => c.enabled \in BOOLEAN
    /\ c.op = "apps" => "apps" \notin managed
    /\ c.op = "apps row" => apps = "push"

BotCallsOK ==
    /\ DOMAIN call = Threads
    /\ \A t, u \in Threads : call[t] # NoCall /\ call[u] # NoCall => t = u
    /\ \A t \in Threads : call[t] # NoCall => CallFits(call[t])

\* The invariant, for as long as calls have not crossed.
ManagedInv == ~crossed => BotsOK /\ BotCallsOK

LEMMA NilIsNoName ==
  /\ Nil \notin BotIds /\ Nil \notin Sources /\ Nil # "" /\ Nil # "https" /\ Nil # "apps"
  /\ "apps" \notin Sources
BY ManagedAssumption

\* Nothing of the rows moves when a call begins.
LEMMA CallBegins ==
  ASSUME ManagedInv, ~crossed', NEW t \in Threads, NEW c, Begin(t, c),
         BotsOK /\ BotCallsOK => CallFits(c)
  PROVE  ManagedInv'
<1>1. /\ ~crossed /\ (\A u \in Threads : call[u] = NoCall)
      /\ call' = [call EXCEPT ![t] = c] /\ UNCHANGED <<bots, managed, apps>>
  BY DEF Begin, Counted
<1>2. BotsOK /\ BotCallsOK /\ CallFits(c)
  BY <1>1 DEF ManagedInv
<1>3. BotsOK'
  BY <1>1, <1>2 DEF BotsOK, Rows, SyncOffIsFree, PushedValuesShown, IsManaged
<1>4. CallFits(c)'
  BY <1>1, <1>2 DEF CallFits, Rows, IdentityAllowed, SettingsAllowed, IsManaged, Named
<1>5. DOMAIN call' = Threads /\ \A u \in Threads : call'[u] = IF u = t THEN c ELSE NoCall
  BY <1>1, <1>2 DEF BotCallsOK
<1>6. BotCallsOK'
  <2>1. \A u \in Threads : call'[u] # NoCall => call'[u] = c /\ u = t
    BY <1>5
  <2> QED BY <1>4, <1>5, <2>1 DEF BotCallsOK
<1> QED BY <1>3, <1>6 DEF ManagedInv

\* What ends had begun.
LEMMA CallWas ==
  ASSUME NEW t, NEW op, End(t, op), ~crossed' PROVE ~crossed /\ call[t] # NoCall
BY DEF End

\* Once a call has ended none is left.
LEMMA CallEnds ==
  ASSUME ManagedInv, ~crossed', NEW t \in Threads, NEW op, End(t, op)
  PROVE  BotsOK /\ call[t].op = op /\ CallFits(call[t]) /\ BotCallsOK'
<1>1. ~crossed /\ call[t] # NoCall /\ call[t].op = op /\ call' = [call EXCEPT ![t] = NoCall]
  BY DEF End
<1>2. BotsOK /\ BotCallsOK
  BY <1>1 DEF ManagedInv
<1>3. DOMAIN call' = Threads /\ \A u \in Threads : call'[u] = NoCall
  BY <1>1, <1>2 DEF BotCallsOK
<1>4. BotCallsOK'
  BY <1>3 DEF BotCallsOK
<1> QED BY <1>1, <1>2, <1>4 DEF BotCallsOK

\* One row is written, and no other bot becomes managed by it.
LEMMA RowWritten ==
  ASSUME BotsOK, NEW i \in BotIds, NEW b, BotRow(b), bots' = [bots EXCEPT ![i] = b],
         managed' \subseteq Sources \cup {"apps"}, "apps" \in managed' => apps' = "push",
         ~b.sync => b.source \notin managed',
         b.source \in managed' => Owned(b) = b.agreed,
         \A j \in Rows \ {i} : bots[j].source \in managed' => bots[j].source \in managed
  PROVE  BotsOK'
<1>1. DOMAIN bots' = BotIds /\ bots'[i] = b /\ \A j \in BotIds \ {i} : bots'[j] = bots[j]
  BY DEF BotsOK
<1>2. \A j \in Rows' : j = i \/ (j \in Rows \ {i} /\ bots'[j] = bots[j])
  BY <1>1 DEF Rows
<1>3. \A j \in Rows' : BotRow(bots'[j])
  BY <1>1, <1>2 DEF BotsOK
<1>4. SyncOffIsFree'
  BY <1>1, <1>2 DEF BotsOK, SyncOffIsFree, IsManaged
<1>5. PushedValuesShown'
  <2>1. ASSUME NEW j \in Rows', bots'[j].source \in managed' PROVE Owned(bots'[j]) = bots'[j].agreed
    BY <1>1, <1>2, <2>1 DEF BotsOK, PushedValuesShown, IsManaged
  <2> QED BY <2>1 DEF PushedValuesShown, IsManaged, Owned
<1>6. (\A j \in Rows : BotRow(bots[j]))'
  BY <1>3 DEF BotRow
<1> QED BY <1>1, <1>4, <1>5, <1>6 DEF BotsOK

\* A push writes its source and its values, keeps the title, and goes only to bots
\* whose sync is on.
LEMMA PushedRow ==
  ASSUME BotsOK, NEW c, c.op = "push", CallFits(c)
  PROVE  /\ BotRow(Pushed(c)) /\ Pushed(c).source = c.source /\ Pushed(c).sync
         /\ Owned(Pushed(c)) = Pushed(c).agreed
         /\ c.bot # Nil => Pushed(c).data.own = bots[c.bot].data.own
<1> DEFINE merged == Merged(c, IF c.read = Nil THEN NoData ELSE c.read.data)
           b == IF c.read = Nil
                THEN [username |-> c.username, source |-> c.source, sync |-> TRUE, data |-> merged]
                ELSE [username |-> Written(c.username, c.read.username, bots[c.bot].username),
                      source |-> Written(c.source, c.read.source, bots[c.bot].source),
                      sync |-> bots[c.bot].sync,
                      data |-> Written(merged, c.read.data, bots[c.bot].data)]
<1>1. Pushed(c) = [username |-> b.username, source |-> b.source, sync |-> b.sync, data |-> b.data,
                   agreed |-> Owned(b)]
  BY DEF Pushed
<1>2. c.source \in Sources
  BY DEF CallFits
<1>3. CASE c.read = Nil
  <2>1. c.bot = Nil
    BY <1>3 DEF CallFits, Rows
  <2>2. b.source = c.source /\ b.sync = TRUE
    BY <1>3
  <2> HIDE DEF b, merged
  <2>3. BotRow(Pushed(c)) /\ Pushed(c).source = c.source /\ Pushed(c).sync = TRUE
    <3>1. DOMAIN Pushed(c) = {"username", "source", "sync", "data", "agreed"}
      BY <1>1
    <3>2. Pushed(c).source = b.source /\ Pushed(c).sync = b.sync
      BY <1>1
    <3>3. Pushed(c).sync = TRUE
      BY <2>2, <3>2, Zenon
    <3>4. Pushed(c).sync \in BOOLEAN
      BY <3>3, Zenon
    <3> QED BY <1>2, <2>2, <3>1, <3>2, <3>3, <3>4, Zenon DEF BotRow
  <2>4. Owned(Pushed(c)) = Pushed(c).agreed
    BY <1>1 DEF Owned
  <2> QED BY <2>1, <2>3, <2>4
<1>4. CASE c.read # Nil
  <2>1. c.bot # Nil /\ c.read = bots[c.bot] /\ bots[c.bot].sync /\ BotRow(bots[c.bot])
    BY <1>4 DEF CallFits, BotsOK
  <2>2. /\ b.source = c.source /\ b.sync = bots[c.bot].sync
        /\ b.data = merged
    BY <1>4, <2>1 DEF Written
  <2>3. merged.own = bots[c.bot].data.own
    BY <1>4, <2>1 DEF Merged
  <2> HIDE DEF b, merged
  <2> QED BY <1>1, <1>2, <2>1, <2>2, <2>3 DEF BotRow, Owned
<1> QED BY <1>3, <1>4

\* The title of a bot depends on the stored title alone.
LEMMA TitleShown ==
  ASSUME NEW d, NEW e, d.own = e.own PROVE Fallback(d).own = Fallback(e).own
BY DEF Fallback, Fields

LEMMA PushKeeps ==
  ASSUME ManagedInv, ~crossed', NEW t \in Threads, CommitPush(t)
  PROVE  ManagedInv' /\ BindingStep /\ TitleStep
<1> DEFINE c == call[t]
<1>1. BotsOK /\ c.op = "push" /\ CallFits(c) /\ BotCallsOK' /\ apps' = apps
  BY CallEnds DEF CommitPush
<1>2. CASE UNCHANGED <<bots, managed>>
  BY <1>1, <1>2 DEF ManagedInv, BotsOK, Rows, SyncOffIsFree, PushedValuesShown, IsManaged,
                    BindingStep, TitleStep
<1>3. CASE ~UNCHANGED <<bots, managed>>
  <2>1. PICK i \in IF c.bot = Nil THEN BotIds \ Rows ELSE {c.bot} \cap Rows :
          /\ Unique(i, Pushed(c))
          /\ bots' = [bots EXCEPT ![i] = Pushed(c)]
          /\ managed' = managed \cup {c.source}
    BY <1>3 DEF CommitPush
  <2>2. i \in BotIds /\ (c.bot = Nil => i \notin Rows) /\ (c.bot # Nil => i = c.bot)
    BY <2>1 DEF Rows
  <2>3. PICK b : b = Pushed(c)
    OBVIOUS
  <2>4. /\ BotRow(b) /\ b.source = c.source /\ b.sync /\ Owned(b) = b.agreed
        /\ c.bot # Nil => b.data.own = bots[c.bot].data.own
    BY <1>1, <2>3, PushedRow
  <2>5. bots' = [bots EXCEPT ![i] = b] /\ c.source \in Sources
    BY <1>1, <2>1, <2>3 DEF CallFits
  <2>6. ASSUME NEW j \in Rows \ {i}, bots[j].source \in managed'
        PROVE  bots[j].source \in managed
    BY <2>1, <2>3, <2>4, <2>5, <2>6, NilIsNoName DEF Unique
  <2>7. managed' \subseteq Sources \cup {"apps"} /\ ("apps" \in managed' => apps' = "push")
    BY <1>1, <2>1, <2>5, NilIsNoName DEF BotsOK, PushedValuesShown
  <2> HIDE DEF c
  <2>8. BotsOK'
    BY <1>1, <2>2, <2>4, <2>5, <2>6, <2>7, RowWritten
  <2>9. DOMAIN bots = BotIds
    BY <1>1 DEF BotsOK
  <2>10. BindingStep
    BY <1>1, <2>2, <2>4, <2>5, <2>9 DEF BindingStep, CallFits
  <2>11. TitleStep
    <3>1. ASSUME NEW j \in Rows
          PROVE  bots'[j] = bots[j] \/ bots'[j].data.own = bots[j].data.own
      <4>1. j \in BotIds /\ (j = i => c.bot # Nil)
        BY <2>2 DEF Rows
      <4>2. CASE j = i
        BY <2>2, <2>4, <2>5, <2>9, <4>1, <4>2
      <4>3. CASE j # i
        BY <2>5, <2>9, <4>1, <4>3
      <4> QED BY <4>2, <4>3
    <3> QED BY <3>1, TitleShown DEF TitleStep
  <2> QED BY <1>1, <2>8, <2>10, <2>11 DEF ManagedInv
<1> QED BY <1>2, <1>3

\* The client apps.
LEMMA AppsKeep ==
  ASSUME ManagedInv, ~crossed', NEW t \in Threads,
         CommitAppsValue(t) \/ CommitAppsRow(t) \/ CommitApps(t)
  PROVE  ManagedInv' /\ BindingStep /\ TitleStep
<1>1. bots' = bots
  BY DEF CommitAppsValue, CommitAppsRow, CommitApps
<1>2. BotsOK /\ BotCallsOK /\ call[t] # NoCall
  <2>1. CASE CommitAppsValue(t)
    <3>1. ~crossed /\ call[t] # NoCall
      BY <2>1 DEF CommitAppsValue
    <3> QED BY <3>1 DEF ManagedInv
  <2>2. CASE End(t, "apps row") \/ End(t, "apps")
    <3>1. ~crossed /\ call[t] # NoCall
      BY <2>2, CallWas
    <3> QED BY <3>1 DEF ManagedInv
  <2> QED BY <2>1, <2>2 DEF CommitAppsRow, CommitApps
<1>3. BindingStep /\ TitleStep
  BY <1>1 DEF BindingStep, TitleStep
<1>4. BotsOK'
  <2>1. CASE CommitAppsValue(t)
    BY <1>1, <1>2, <2>1 DEF CommitAppsValue, BotsOK, Rows, SyncOffIsFree, PushedValuesShown, IsManaged
  <2>2. CASE CommitAppsRow(t)
    <3>1. apps = "push" /\ apps' = apps /\ managed' = managed \cup {"apps"}
      BY <2>2, CallEnds DEF CommitAppsRow, CallFits
    <3>2. \A i \in Rows : bots[i].source # "apps"
      BY <1>2, NilIsNoName DEF BotsOK, BotRow
    <3> QED BY <1>1, <1>2, <3>1, <3>2 DEF BotsOK, Rows, SyncOffIsFree, PushedValuesShown, IsManaged
  <2>3. CASE CommitApps(t)
    <3>1. "apps" \notin managed /\ managed' = managed
      BY <2>3, CallEnds DEF CommitApps, CallFits
    <3> QED BY <1>1, <1>2, <3>1 DEF BotsOK, Rows, SyncOffIsFree, PushedValuesShown, IsManaged
  <2> QED BY <2>1, <2>2, <2>3
<1>5. BotCallsOK'
  <2>1. CASE CommitAppsValue(t)
    <3>1. apps' = "push" /\ call' = [call EXCEPT ![t] = [op |-> "apps row"]]
      BY <2>1 DEF CommitAppsValue
    <3>2. DOMAIN call' = Threads /\ \A u \in Threads : call'[u] = IF u = t THEN [op |-> "apps row"] ELSE NoCall
      BY <1>2, <3>1 DEF BotCallsOK
    <3>3. CallFits([op |-> "apps row"])'
      BY <3>1 DEF CallFits
    <3> QED BY <3>2, <3>3 DEF BotCallsOK
  <2>2. CASE CommitAppsRow(t) \/ CommitApps(t)
    BY <2>2, CallEnds DEF CommitAppsRow, CommitApps
  <2> QED BY <2>1, <2>2
<1> QED BY <1>3, <1>4, <1>5 DEF ManagedInv

\* The identity form leaves what the push owns as it is, and the title.
LEMMA AddressShown ==
  ASSUME NEW data, NEW web
  PROVE  /\ Fallback(WithWeb(data, web)).pay = Fallback(data).pay
         /\ Fallback(WithWeb(data, web)).own = Fallback(data).own
         /\ Normal(Fallback(WithWeb(data, web)).web) =
              IF web = Nil THEN Normal(Fallback(data).web) ELSE Normal(web)
<1>1. CASE web = Nil
  BY <1>1 DEF WithWeb
<1>2. CASE web # Nil
  <2>1. WithWeb(data, web) = [Fallback(data) EXCEPT !.web = Normal(web)]
    BY <1>2 DEF WithWeb
  <2>2. Fallback(data) = [f \in Fields |-> IF data[f] = Nil THEN "" ELSE data[f]]
    BY DEF Fallback
  <2> DEFINE d == Fallback(data)
             e == WithWeb(data, web)
  <2>3. DOMAIN d = {"web", "pay", "own"} /\ \A f \in {"web", "pay", "own"} : d[f] # Nil
    BY <2>2, NilIsNoName DEF Fields
  <2>4. e["web"] = Normal(web) /\ e["pay"] = d["pay"] /\ e["own"] = d["own"]
    BY <2>1, <2>3
  <2>5. Normal(web) \in {"", "https"} /\ Normal(web) # Nil /\ Normal(Normal(web)) = Normal(web)
    BY NilIsNoName DEF Normal
  <2> HIDE DEF d, e
  <2>6. \A f \in {"web", "pay", "own"} : Fallback(e)[f] = e[f]
    BY <2>3, <2>4, <2>5 DEF Fallback, Fields
  <2>7. Fallback(e).web = Normal(web) /\ Fallback(e).pay = d.pay /\ Fallback(e).own = d.own
    BY <2>4, <2>6
  <2> QED BY <1>2, <2>5, <2>7 DEF d, e
<1> QED BY <1>1, <1>2

LEMMA IdentityKeeps ==
  ASSUME ManagedInv, ~crossed', NEW t \in Threads, CommitIdentity(t)
  PROVE  ManagedInv' /\ BindingStep /\ TitleStep
<1> DEFINE c == call[t]
           i == c.bot
<1>1. BotsOK /\ c.op = "identity" /\ CallFits(c) /\ BotCallsOK' /\ UNCHANGED <<managed, apps>>
  BY CallEnds DEF CommitIdentity
<1>2. /\ i \in Rows /\ i \in BotIds /\ c.read = bots[i] /\ BotRow(bots[i])
      /\ IsManaged(i) => /\ c.username = bots[i].username
                         /\ c.web # Nil => Normal(c.web) = Owned(bots[i]).web
      /\ DOMAIN bots = BotIds
  BY <1>1 DEF CallFits, IdentityAllowed, BotsOK, Rows
<1>3. CASE UNCHANGED bots
  BY <1>1, <1>3 DEF ManagedInv, BotsOK, Rows, SyncOffIsFree, PushedValuesShown, IsManaged,
                    BindingStep, TitleStep
<1>4. CASE ~UNCHANGED bots
  <2>1. PICK b : /\ b = [bots[i] EXCEPT !.username = Written(c.username, c.read.username, bots[i].username),
                                        !.data = WithWeb(bots[i].data, c.web)]
                 /\ bots' = [bots EXCEPT ![i] = b]
    BY <1>4 DEF CommitIdentity
  <2>2. /\ BotRow(b) /\ b.source = bots[i].source /\ b.sync = bots[i].sync
        /\ b.username = c.username /\ b.agreed = bots[i].agreed
        /\ b.data = WithWeb(bots[i].data, c.web)
    BY <1>2, <2>1 DEF BotRow, Written
  <2>3. IsManaged(i) => Owned(b) = Owned(bots[i])
    BY <1>2, <2>2, AddressShown DEF Owned
  <2> HIDE DEF i, c
  <2>4. ~b.sync => b.source \notin managed'
    BY <1>1, <1>2, <2>2 DEF BotsOK, SyncOffIsFree, IsManaged
  <2>5. b.source \in managed' => Owned(b) = b.agreed
    BY <1>1, <1>2, <2>2, <2>3 DEF BotsOK, PushedValuesShown, IsManaged
  <2>6. managed' \subseteq Sources \cup {"apps"} /\ ("apps" \in managed' => apps' = "push")
    BY <1>1 DEF BotsOK, PushedValuesShown
  <2>7. BotsOK'
    BY <1>1, <1>2, <2>1, <2>2, <2>4, <2>5, <2>6, RowWritten
  <2>8. BindingStep
    BY <1>2, <2>1, <2>2 DEF BindingStep, Rows
  <2>9. TitleStep
    <3>1. Fallback(b.data).own = Fallback(bots[i].data).own
      BY <2>2, AddressShown
    <3> QED BY <1>2, <2>1, <3>1 DEF TitleStep, Rows
  <2> QED BY <1>1, <2>7, <2>8, <2>9 DEF ManagedInv
<1> QED BY <1>3, <1>4

LEMMA SettingsKeep ==
  ASSUME ManagedInv, ~crossed', NEW t \in Threads, CommitSettings(t)
  PROVE  ManagedInv' /\ BindingStep /\ TitleStep
<1> DEFINE c == call[t]
           i == c.bot
<1>1. BotsOK /\ c.op = "settings" /\ CallFits(c) /\ BotCallsOK' /\ UNCHANGED <<managed, apps>>
  BY CallEnds DEF CommitSettings
<1>2. /\ i \in Rows /\ i \in BotIds /\ c.read = bots[i] /\ BotRow(bots[i])
      /\ IsManaged(i) => Owned([bots[i] EXCEPT !.data = c.form]) = Owned(bots[i])
      /\ DOMAIN bots = BotIds
  BY <1>1 DEF CallFits, SettingsAllowed, BotsOK, Rows
<1>3. PICK b : /\ b = [bots[i] EXCEPT !.data = Written(c.form, c.read.data, bots[i].data)]
               /\ bots' = [bots EXCEPT ![i] = b]
  BY <1>2 DEF CommitSettings
<1>4. b = [bots[i] EXCEPT !.data = c.form]
  BY <1>2, <1>3 DEF Written
<1>5. BotRow(b) /\ b.source = bots[i].source /\ b.sync = bots[i].sync /\ b.agreed = bots[i].agreed
  BY <1>2, <1>4 DEF BotRow
<1>6. IsManaged(i) => Owned(b) = Owned(bots[i])
  BY <1>2, <1>4
<1>7. TitleStep
  BY CallWas DEF TitleStep, CommitSettings, End
<1> HIDE DEF i, c
<1>8. ~b.sync => b.source \notin managed'
  BY <1>1, <1>2, <1>5 DEF BotsOK, SyncOffIsFree, IsManaged
<1>9. b.source \in managed' => Owned(b) = b.agreed
  BY <1>1, <1>2, <1>5, <1>6 DEF BotsOK, PushedValuesShown, IsManaged
<1>10. managed' \subseteq Sources \cup {"apps"} /\ ("apps" \in managed' => apps' = "push")
  BY <1>1 DEF BotsOK, PushedValuesShown
<1>11. BotsOK'
  BY <1>1, <1>2, <1>3, <1>5, <1>8, <1>9, <1>10, RowWritten
<1>12. BindingStep
  BY <1>2, <1>3, <1>5 DEF BindingStep, Rows
<1> QED BY <1>1, <1>7, <1>11, <1>12 DEF ManagedInv

\* Switching sync off removes the row.
LEMMA SyncKeeps ==
  ASSUME ManagedInv, ~crossed', NEW t \in Threads, CommitSync(t)
  PROVE  ManagedInv' /\ BindingStep /\ TitleStep
<1> DEFINE c == call[t]
           i == c.bot
<1>1. BotsOK /\ c.op = "sync" /\ CallFits(c) /\ BotCallsOK' /\ UNCHANGED apps
  BY CallEnds DEF CommitSync
<1>2. /\ i \in Rows /\ i \in BotIds /\ c.read = bots[i] /\ BotRow(bots[i])
      /\ DOMAIN bots = BotIds /\ c.enabled \in BOOLEAN
  BY <1>1 DEF CallFits, BotsOK, Rows
<1>3. PICK b : /\ b = [bots[i] EXCEPT !.sync = Written(c.enabled, c.read.sync, bots[i].sync)]
               /\ bots' = [bots EXCEPT ![i] = b]
               /\ managed' = IF c.enabled THEN managed ELSE managed \ {c.read.source}
  BY <1>2 DEF CommitSync
<1>4. b = [bots[i] EXCEPT !.sync = c.enabled]
  BY <1>2, <1>3 DEF Written
<1>5. BotRow(b) /\ b.source = bots[i].source /\ b.sync = c.enabled /\ b.agreed = bots[i].agreed
      /\ b.data = bots[i].data /\ Owned(b) = Owned(bots[i])
  <2>1. /\ DOMAIN b = {"username", "source", "sync", "data", "agreed"} /\ b.source = bots[i].source
        /\ b.sync = c.enabled /\ b.agreed = bots[i].agreed /\ b.data = bots[i].data
        /\ b.username = bots[i].username
    BY <1>2, <1>4 DEF BotRow
  <2> QED BY <1>2, <2>1 DEF BotRow, Owned
<1> HIDE DEF i, c
<1>6. managed' \subseteq managed /\ (~b.sync => b.source \notin managed')
  BY <1>2, <1>3, <1>5
<1>7. b.source \in managed' => Owned(b) = b.agreed
  BY <1>1, <1>2, <1>5, <1>6 DEF BotsOK, PushedValuesShown, IsManaged
<1>8. managed' \subseteq Sources \cup {"apps"} /\ ("apps" \in managed' => apps' = "push")
  BY <1>1, <1>6 DEF BotsOK, PushedValuesShown
<1>9. BotsOK'
  BY <1>1, <1>2, <1>3, <1>5, <1>6, <1>7, <1>8, RowWritten
<1>10. BindingStep /\ TitleStep
  BY <1>2, <1>3, <1>5 DEF BindingStep, TitleStep, Rows
<1> QED BY <1>1, <1>9, <1>10 DEF ManagedInv

\* What is one step begins while nobody is at work.
LEMMA NobodyAtWork ==
  ASSUME ManagedInv, ~crossed', Counted
  PROVE  BotsOK /\ BotCallsOK /\ \A t \in Threads : call[t] = NoCall
BY DEF Counted, ManagedInv

LEMMA CreateKeeps ==
  ASSUME ManagedInv, ~crossed', NEW u, NEW web, create_bot(u, web)
  PROVE  ManagedInv' /\ BindingStep /\ TitleStep
<1>1. BotsOK /\ BotCallsOK /\ (\A t \in Threads : call[t] = NoCall) /\ UNCHANGED <<managed, apps, call>>
  BY NobodyAtWork DEF create_bot
<1> DEFINE b0 == [username |-> u, source |-> Nil, sync |-> TRUE, data |-> WithWeb(NoData, web)]
<1>0. PICK i \in BotIds \ Rows :
         bots' = [bots EXCEPT ![i] = [username |-> u, source |-> Nil, sync |-> TRUE,
                                      data |-> b0.data, agreed |-> Owned(b0)]]
  BY DEF create_bot
<1>2. PICK b : /\ b = [username |-> u, source |-> Nil, sync |-> TRUE,
                       data |-> b0.data, agreed |-> Owned(b0)]
               /\ bots' = [bots EXCEPT ![i] = b]
  BY <1>0
<1>3. BotRow(b) /\ b.source = Nil
  BY <1>2 DEF BotRow
<1>4. Nil \notin managed'
  BY <1>1, NilIsNoName DEF BotsOK
<1>5. managed' \subseteq Sources \cup {"apps"} /\ ("apps" \in managed' => apps' = "push")
  BY <1>1 DEF BotsOK, PushedValuesShown
<1> HIDE DEF b0
<1>6. BotsOK'
  BY <1>1, <1>2, <1>3, <1>4, <1>5, RowWritten
<1>7. BindingStep /\ TitleStep
  <2>1. \A j \in Rows : bots'[j] = bots[j]
    BY <1>1, <1>2 DEF BotsOK, Rows
  <2> QED BY <2>1 DEF BindingStep, TitleStep
<1>8. BotCallsOK'
  BY <1>1 DEF BotCallsOK
<1> QED BY <1>6, <1>7, <1>8 DEF ManagedInv

LEMMA DeleteKeeps ==
  ASSUME ManagedInv, ~crossed', NEW i \in Rows, delete_bot(i)
  PROVE  ManagedInv' /\ BindingStep /\ TitleStep
<1>1. BotsOK /\ BotCallsOK /\ (\A t \in Threads : call[t] = NoCall) /\ UNCHANGED <<managed, apps, call>>
  BY NobodyAtWork DEF delete_bot
<1>2. DOMAIN bots' = BotIds /\ bots'[i] = Nil /\ \A j \in BotIds \ {i} : bots'[j] = bots[j]
  BY <1>1 DEF delete_bot, BotsOK, Rows
<1>3. \A j \in Rows' : j \in Rows /\ bots'[j] = bots[j]
  BY <1>2 DEF Rows
<1>4. BotsOK'
  <2>1. (\A j \in Rows : BotRow(bots[j]))'
    BY <1>1, <1>3 DEF BotsOK, BotRow
  <2>2. SyncOffIsFree' /\ PushedValuesShown'
    BY <1>1, <1>3 DEF BotsOK, SyncOffIsFree, PushedValuesShown, IsManaged, Owned
  <2> QED BY <1>1, <1>2, <2>1, <2>2 DEF BotsOK
<1>5. BindingStep /\ TitleStep
  BY <1>2, <1>3 DEF BindingStep, TitleStep, Rows
<1>6. BotCallsOK'
  BY <1>1 DEF BotCallsOK
<1> QED BY <1>4, <1>5, <1>6 DEF ManagedInv

LEMMA UnlinkKeeps ==
  ASSUME ManagedInv, ~crossed', NEW key, unlink_managed(key)
  PROVE  ManagedInv' /\ BindingStep /\ TitleStep
<1>1. BotsOK /\ BotCallsOK /\ (\A t \in Threads : call[t] = NoCall) /\ UNCHANGED <<bots, apps, call>>
      /\ managed' \subseteq managed
  BY NobodyAtWork DEF unlink_managed
<1>2. BotsOK' /\ BotCallsOK'
  BY <1>1 DEF BotsOK, BotCallsOK, Rows, SyncOffIsFree, PushedValuesShown, IsManaged
<1>3. BindingStep /\ TitleStep
  BY <1>1 DEF BindingStep, TitleStep
<1> QED BY <1>2, <1>3 DEF ManagedInv

\* A push goes to a bot whose sync is on, and that no other source has.
LEMMA PushFits ==
  ASSUME NEW t \in Threads, NEW s \in Sources, NEW u, apply_managed_bot_push(t, s, u)
  PROVE  \E c : Begin(t, c) /\ CallFits(c)
<1>1. PICK web \in {"", "https"}, pay \in {"absent", Nil, "p"},
           i \in IF Target(s, u) = {} THEN {Nil} ELSE Target(s, u) :
             Begin(t, [op |-> "push", source |-> s, username |-> u, web |-> web, pay |-> pay,
                       bot |-> i, read |-> IF i = Nil THEN Nil ELSE bots[i],
                       row |-> s \in managed])
  BY DEF apply_managed_bot_push
<1>2. PICK c : c = [op |-> "push", source |-> s, username |-> u, web |-> web, pay |-> pay,
                    bot |-> i, read |-> IF i = Nil THEN Nil ELSE bots[i],
                    row |-> s \in managed]
  OBVIOUS
<1>3. c.op = "push" /\ c.source = s /\ c.bot = i /\ c.read = IF i = Nil THEN Nil ELSE bots[i]
  BY <1>2
<1>4. ASSUME i # Nil
      PROVE  i \in Rows /\ bots[i].sync /\ bots[i].source \in {s, Nil}
  <2>1. i \in Target(s, u) /\ i \in Bound(s) \cup Named(u)
    BY <1>4 DEF Target
  <2>2. PushAllowed(s, u)
    BY DEF apply_managed_bot_push
  <2>3. i \in Rows /\ bots[i].sync
    BY <2>1, <2>2 DEF PushAllowed, Bound, Named
  <2>4. CASE Bound(s) = {}
    <3>1. i \in Named(u)
      BY <2>1, <2>4
    <3>2. bots[i].source = Nil
      BY <2>2, <2>4, <3>1 DEF PushAllowed
    <3> QED BY <2>3, <3>2
  <2>5. CASE Bound(s) # {}
    <3>1. i \in Bound(s)
      BY <2>1, <2>5 DEF Target
    <3>2. bots[i].source = s
      BY <3>1 DEF Bound
    <3> QED BY <2>3, <3>2
  <2> QED BY <2>3, <2>4, <2>5
<1>5. CallFits(c)
  BY <1>3, <1>4 DEF CallFits
<1> QED BY <1>1, <1>2, <1>5

\* Every other call reads what it will need.
LEMMA FormFits ==
  ASSUME NEW t \in Threads,
         \/ apply_managed_push(t) \/ update_client_apps(t)
         \/ \E i \in Rows, u \in Usernames, web \in Webs \cup {Nil} : update_bot(t, i, u, web)
         \/ \E i \in Rows : \E form : update_bot_settings(t, i, form)
         \/ \E i \in Rows, enabled \in BOOLEAN : set_bot_admin_sync(t, i, enabled)
  PROVE  \E c : Begin(t, c) /\ CallFits(c)
<1>1. CASE apply_managed_push(t)
  <2>1. CallFits([op |-> "apps push"])
    BY DEF CallFits
  <2> QED BY <1>1, <2>1 DEF apply_managed_push
<1>2. CASE update_client_apps(t)
  <2>1. CallFits([op |-> "apps"])
    BY <1>2 DEF CallFits, update_client_apps
  <2> QED BY <1>2, <2>1 DEF update_client_apps
<1>3. ASSUME NEW i \in Rows, NEW u, NEW web, update_bot(t, i, u, web)
      PROVE  \E c : Begin(t, c) /\ CallFits(c)
  <2> DEFINE c == [op |-> "identity", bot |-> i, read |-> bots[i], username |-> u, web |-> web]
  <2>1. CallFits(c) /\ Begin(t, c)
    BY <1>3 DEF CallFits, update_bot
  <2> QED BY <2>1
<1>4. ASSUME NEW i \in Rows, NEW form, update_bot_settings(t, i, form)
      PROVE  \E c : Begin(t, c) /\ CallFits(c)
  <2> DEFINE c == [op |-> "settings", bot |-> i, read |-> bots[i], form |-> form]
  <2>1. CallFits(c) /\ Begin(t, c)
    BY <1>4 DEF CallFits, update_bot_settings
  <2> QED BY <2>1
<1>5. ASSUME NEW i \in Rows, NEW enabled \in BOOLEAN, set_bot_admin_sync(t, i, enabled)
      PROVE  \E c : Begin(t, c) /\ CallFits(c)
  <2> DEFINE c == [op |-> "sync", bot |-> i, read |-> bots[i], enabled |-> enabled]
  <2>1. CallFits(c) /\ Begin(t, c)
    BY <1>5 DEF CallFits, set_bot_admin_sync
  <2> QED BY <2>1
<1> QED BY <1>1, <1>2, <1>3, <1>4, <1>5

LEMMA BeginKeeps ==
  ASSUME ManagedInv, ~crossed', NEW t \in Threads, \E c : Begin(t, c) /\ CallFits(c)
  PROVE  ManagedInv' /\ BindingStep /\ TitleStep
<1>1. PICK c : Begin(t, c) /\ CallFits(c)
  OBVIOUS
<1>2. bots' = bots
  BY <1>1 DEF Begin
<1> QED BY <1>1, <1>2, CallBegins DEF BindingStep, TitleStep

LEMMA ManagedBegin == ManagedInit => ManagedInv
<1> SUFFICES ASSUME ManagedInit PROVE ManagedInv
  OBVIOUS
<1>1. Rows = {} /\ managed = {} /\ DOMAIN bots = BotIds
  BY DEF ManagedInit, Rows
<1>2. BotsOK
  BY <1>1 DEF BotsOK, SyncOffIsFree, PushedValuesShown
<1>3. BotCallsOK
  BY DEF ManagedInit, BotCallsOK
<1> QED BY <1>2, <1>3 DEF ManagedInv

LEMMA ManagedKeep ==
  ASSUME ManagedInv, [ManagedNext]_managedVars
  PROVE  ManagedInv' /\ [crossed' \/ (BindingStep /\ TitleStep)]_managedVars
<1>1. CASE UNCHANGED managedVars
  <2>1. UNCHANGED <<bots, managed, apps, call, crossed>> /\ Rows' = Rows
    BY <1>1 DEF managedVars, Rows
  <2>2. ASSUME BotsOK
        PROVE  BotsOK'
    <3>1. \A i \in Rows : BotRow(bots[i])'
      BY <2>1, <2>2 DEF BotsOK, BotRow
    <3>2. SyncOffIsFree' /\ PushedValuesShown'
      BY <2>1, <2>2 DEF BotsOK, SyncOffIsFree, PushedValuesShown, IsManaged, Owned
    <3> QED BY <2>1, <2>2, <3>1, <3>2 DEF BotsOK
  <2>3. ASSUME NEW t \in Threads, CallFits(call[t])
        PROVE  CallFits(call[t])'
    <3>1. call'[t] = call[t]
      BY <2>1
    <3>2. /\ call[t].op = "identity" => IdentityAllowed(call[t].bot, call[t].username, call[t].web)'
          /\ call[t].op = "settings" => SettingsAllowed(call[t].bot, call[t].form)'
      BY <2>1, <2>3 DEF CallFits, IsManaged, IdentityAllowed, SettingsAllowed, Named, Owned
    <3> QED BY <2>1, <2>3, <3>1, <3>2 DEF CallFits
  <2> QED BY <1>1, <2>1, <2>2, <2>3 DEF ManagedInv, BotCallsOK, managedVars
<1>2. CASE crossed'
  BY <1>2 DEF ManagedInv
<1>3. CASE ManagedNext /\ ~crossed'
  <2>1. ASSUME NEW t \in Threads, NEW s \in Sources, NEW u \in Usernames, apply_managed_bot_push(t, s, u)
        PROVE  ManagedInv' /\ BindingStep /\ TitleStep
    BY <1>3, <2>1, PushFits, BeginKeeps
  <2>2. ASSUME NEW t \in Threads,
               \/ apply_managed_push(t) \/ update_client_apps(t)
               \/ \E i \in Rows, u \in Usernames, web \in Webs \cup {Nil} : update_bot(t, i, u, web)
               \/ \E i \in Rows : \E form : update_bot_settings(t, i, form)
               \/ \E i \in Rows, enabled \in BOOLEAN : set_bot_admin_sync(t, i, enabled)
        PROVE  ManagedInv' /\ BindingStep /\ TitleStep
    <3>1. \E c : Begin(t, c) /\ CallFits(c)
      BY <2>2, FormFits
    <3> QED BY <1>3, <3>1, BeginKeeps
  <2>3. ASSUME NEW t \in Threads,
               CommitPush(t) \/ CommitAppsValue(t) \/ CommitAppsRow(t) \/ CommitApps(t)
        PROVE  ManagedInv' /\ BindingStep /\ TitleStep
    BY <1>3, <2>3, PushKeeps, AppsKeep
  <2>4. ASSUME NEW t \in Threads, CommitIdentity(t) \/ CommitSettings(t) \/ CommitSync(t)
        PROVE  ManagedInv' /\ BindingStep /\ TitleStep
    BY <1>3, <2>4, IdentityKeeps, SettingsKeep, SyncKeeps
  <2> QED BY <1>3, <2>1, <2>2, <2>3, <2>4, CreateKeeps, DeleteKeeps, UnlinkKeeps DEF ManagedNext
<1> QED BY <1>1, <1>2, <1>3

\* Unless calls crossed, for any bots, sources and calls: a bot whose admin sync is
\* off has no managed row, a managed bot shows what the last push left, it is never
\* bound to a second source, and its title changes by the panel's own form alone.
THEOREM PushesAndFormsApart == ManagedSpec => ManagedSound
<1>1. ManagedInv => NeverStuck /\ PushedValuesStand
  BY DEF ManagedInv, BotsOK, NeverStuck, PushedValuesStand
<1> QED BY <1>1, ManagedBegin, ManagedKeep, PTL DEF ManagedSpec, ManagedSound

==============================================================================
