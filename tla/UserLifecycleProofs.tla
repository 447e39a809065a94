------------------------ MODULE UserLifecycleProofs ------------------------
(***************************************************************************)
(* When transactions do not overlap, the row a transaction read still      *)
(* carries the status, the limit, the hold duration and the plan of the    *)
(* row it writes; only traffic and the clock have moved.                   *)
(***************************************************************************)
EXTENDS UserLifecycle, TLAPS

\* What may have happened to a row between the read and the write.
Agrees(seen, row) ==
  /\ seen \in Row /\ row \in Row
  /\ seen.status = row.status /\ seen.hold = row.hold
  /\ seen.limit = row.limit /\ seen.plan = row.plan
  /\ seen.used <= row.used
  /\ seen.expire = "past" => row.expire = "past"

RowOK(r) ==
  /\ r \in Row
  /\ r.status = "on_hold" => r.hold # None
  /\ r.status = "limited" => IsLimited(r)
  /\ r.status = "expired" => IsExpired(r)

\* A transaction's rows were sound when read and have not been written since.
Current(seen) ==
  \A u \in Users : seen[u] # None => rows[u] # None /\ Agrees(seen[u], rows[u]) /\ RowOK(seen[u])

LEMMA FlushFields ==
  ASSUME NEW row, NEW seen, NEW new, NEW touched \in SUBSET {"edit_at", "expire"},
         Agrees(seen, row), new \in Row
  PROVE  LET r == Flush(row, seen, new, touched)
         IN  /\ r \in Row
             /\ r.status = new.status /\ r.hold = new.hold /\ r.limit = new.limit
             /\ r.used = new.used \/ (new.used = seen.used /\ r.used = row.used)
             /\ r.expire = new.expire \/ (new.expire = seen.expire /\ r.expire = row.expire)
<1> DEFINE written == [f \in DOMAIN row |->
                         IF /\ new[f] # seen[f] \/ f \in touched
                            /\ ~(f = "plan" /\ new[f] = None /\ row[f] # seen[f])
                         THEN new[f] ELSE row[f]]
<1>1. /\ row \in Row /\ seen \in Row
      /\ DOMAIN row = {"status", "used", "limit", "expire", "hold", "timeout", "online", "plan", "changed"}
  BY DEF Agrees, Row
<1>2. written \in Row
  BY <1>1 DEF Row
<1>3. /\ written.status = new.status /\ written.hold = new.hold /\ written.limit = new.limit
      /\ written.used = new.used \/ (new.used = seen.used /\ written.used = row.used)
      /\ written.expire = new.expire \/ (new.expire = seen.expire /\ written.expire = row.expire)
  BY <1>1 DEF Agrees
<1>4. CASE "edit_at" \in touched /\ row.online = "since"
  <2> HIDE DEF written
  <2>1. Flush(row, seen, new, touched) = [written EXCEPT !.online = "before"]
    BY <1>4 DEF Flush, written
  <2> QED BY <1>2, <1>3, <2>1 DEF Row
<1>5. CASE ~("edit_at" \in touched /\ row.online = "since")
  <2> HIDE DEF written
  <2>1. Flush(row, seen, new, touched) = written
    BY <1>5 DEF Flush, written
  <2> QED BY <1>2, <1>3, <2>1
<1> QED BY <1>4, <1>5

LEMMA UpdateSafe ==
  ASSUME NEW row, NEW seen, NEW m \in Modification, ValidModification(m),
         Agrees(seen, row), RowOK(seen), RowOK(row),
         NEW touched \in SUBSET {"edit_at", "expire"}, m.expire # None => "expire" \in touched
  PROVE  RowOK(Flush(row, seen, UpdateUser(seen, m), touched))
<1> DEFINE r1 == WithStatus(seen, m)
           r2 == WithLimit(r1, m)
           r3 == WithExpire(r2, m)
           r4 == WithHold(r3, m)
           r5 == WithPlan(r4, m)
<1> USE LifecycleAssumption
<1>1. /\ r1 \in Row /\ r1.hold = seen.hold /\ r1.limit = seen.limit /\ r1.used = seen.used /\ r1.expire = seen.expire
      /\ r1.status = "on_hold" => seen.status = "on_hold" \/ m.status = "on_hold"
      /\ r1.status \in {"limited", "expired"} => r1.status = seen.status
  BY DEF WithStatus, Row, RowOK, Modification, Statuses
<1> HIDE DEF r1
<1>2. /\ r2 \in Row /\ r2.hold = r1.hold /\ r2.used = r1.used /\ r2.expire = r1.expire
      /\ r2.status = "on_hold" => r1.status = "on_hold"
      /\ r2.status = "expired" => r1.status = "expired"
      /\ r2.status = "limited" => \/ r2.limit = r1.limit /\ r1.status = "limited"
                                  \/ r2.limit # None /\ r2.limit # 0 /\ r2.limit <= r2.used
  <2>1. CASE m.limit = None
    BY <1>1, <2>1 DEF WithLimit
  <2>2. CASE m.limit # None
    <3> DEFINE limit  == IF m.limit = 0 THEN None ELSE m.limit
               status == IF r1.status \in {"expired", "disabled"} THEN r1.status
                         ELSE IF limit = None \/ r1.used < limit
                              THEN IF r1.status = "on_hold" THEN "on_hold" ELSE "active"
                              ELSE "limited"
    <3>1. r2 = [r1 EXCEPT !.limit = limit, !.status = status]
      BY <2>2 DEF WithLimit
    <3>2. limit \in Int \cup {None} /\ (limit # None => limit \in Nat /\ limit # 0) /\ r1.used \in Nat
      BY <1>1, <2>2 DEF Modification, Row
    <3>3. /\ status \in Statuses
          /\ status = "on_hold" => r1.status = "on_hold"
          /\ status = "expired" => r1.status = "expired"
          /\ status = "limited" => limit # None /\ ~(r1.used < limit)
      BY <1>1, <3>2 DEF Statuses, Row
    <3> HIDE DEF limit, status
    <3>4. r2 \in Row /\ r2.hold = r1.hold /\ r2.used = r1.used /\ r2.expire = r1.expire
          /\ r2.status = status /\ r2.limit = limit
      BY <1>1, <3>1, <3>2, <3>3 DEF Row
    <3> HIDE DEF r2
    <3> QED BY <3>2, <3>3, <3>4
  <2> QED BY <2>1, <2>2
<1> HIDE DEF r2
<1>3. /\ r3 \in Row /\ r3.hold = r2.hold /\ r3.used = r2.used /\ r3.limit = r2.limit
      /\ r3.status = "on_hold" => r2.status = "on_hold"
      /\ r3.status = "limited" => r2.status = "limited"
      /\ r3.status = "expired" => \/ m.expire # None /\ r3.expire = "past"
                                  \/ m.expire = None /\ r3.expire = r2.expire /\ r2.status = "expired"
  <2>1. CASE m.expire = None
    BY <1>2, <2>1 DEF WithExpire
  <2>2. CASE m.expire # None
    <3> DEFINE expire == IF m.expire = "unlimited" THEN None ELSE m.expire
               status == IF r2.status \in {"active", "expired"}
                         THEN IF expire = "past" THEN "expired" ELSE "active" ELSE r2.status
    <3>1. r3 = [r2 EXCEPT !.expire = expire, !.status = status]
      BY <2>2 DEF WithExpire
    <3>2. expire \in Moments
      BY <2>2 DEF Modification, Moments
    <3>3. /\ status \in Statuses
          /\ status \in {"on_hold", "limited"} => r2.status = status
          /\ status = "expired" => expire = "past"
      BY <1>2 DEF Statuses, Row
    <3> HIDE DEF expire, status
    <3>4. r3 \in Row /\ r3.hold = r2.hold /\ r3.used = r2.used /\ r3.limit = r2.limit
          /\ r3.status = status /\ r3.expire = expire
      BY <1>2, <3>1, <3>2, <3>3, ZenonT(60) DEF Row
    <3> HIDE DEF r3
    <3> QED BY <2>2, <3>2, <3>3, <3>4
  <2> QED BY <2>1, <2>2
<1> HIDE DEF r3
<1>4. /\ r4 \in Row /\ r4.status = r3.status /\ r4.used = r3.used /\ r4.limit = r3.limit /\ r4.expire = r3.expire
      /\ r4.hold = IF m.hold = None THEN r3.hold ELSE m.hold
  BY <1>3, ZenonT(60) DEF WithHold, Row, Modification
<1> HIDE DEF r4
<1>5. /\ r5 \in Row /\ r5.status = r4.status /\ r5.used = r4.used /\ r5.limit = r4.limit /\ r5.expire = r4.expire
      /\ r5.hold = r4.hold
  BY <1>4 DEF WithPlan, Row, Modification
<1> HIDE DEF r5
<1>6. UpdateUser(seen, m) = r5
  BY DEF UpdateUser, r1, r2, r3, r4, r5
<1> DEFINE r == Flush(row, seen, r5, touched)
<1>7. /\ r \in Row
      /\ r.status = r5.status /\ r.hold = r5.hold /\ r.limit = r5.limit
      /\ r.used = r5.used \/ (r5.used = seen.used /\ r.used = row.used)
      /\ r.expire = r5.expire \/ (r5.expire = seen.expire /\ r.expire = row.expire)
  BY <1>5, FlushFields
<1>8. "expire" \in touched => r.expire = r5.expire
  BY <1>5 DEF Flush, Agrees, Row
<1> HIDE DEF r
<1>9. r.status = "on_hold" => r.hold # None
  BY <1>1, <1>2, <1>3, <1>4, <1>5, <1>7 DEF RowOK, ValidModification
<1>10. r.status = "limited" => IsLimited(r)
  <2> SUFFICES ASSUME r.status = "limited" PROVE IsLimited(r)
    OBVIOUS
  <2>1. r.used >= seen.used /\ r.used \in Nat /\ seen.used \in Nat
    BY <1>1, <1>2, <1>3, <1>4, <1>5, <1>7 DEF Agrees, Row
  <2>2. r2.status = "limited" /\ r.limit = r2.limit /\ r2.used = seen.used
    BY <1>1, <1>2, <1>3, <1>4, <1>5, <1>7
  <2>3. r.limit # None /\ r.limit # 0 /\ r.limit \in Int /\ r.limit <= seen.used
    BY <1>1, <1>2, <2>2, <1>7 DEF RowOK, IsLimited, Row
  <2> QED BY <2>1, <2>3 DEF IsLimited
<1>11. r.status = "expired" => IsExpired(r)
  BY <1>1, <1>2, <1>3, <1>4, <1>5, <1>7, <1>8 DEF RowOK, IsExpired, Agrees
<1> QED BY <1>6, <1>7, <1>9, <1>10, <1>11 DEF RowOK, r

LEMMA ResetSafe ==
  ASSUME NEW row, NEW seen, Agrees(seen, row), RowOK(seen), RowOK(row)
  PROVE  /\ RowOK(Flush(row, seen, ResetDataUsage(seen), {}))
         /\ RowOK(Flush(row, seen, ResetInBulk(seen), {}))
<1> USE LifecycleAssumption
<1>1. /\ ResetDataUsage(seen) \in Row
      /\ ResetDataUsage(seen).hold = seen.hold /\ ResetDataUsage(seen).expire = seen.expire
      /\ ResetDataUsage(seen).status \in {"active", "expired"}
      /\ ResetDataUsage(seen).status = "expired" => seen.status = "expired"
  BY DEF ResetDataUsage, RowOK, Row, Statuses
<1>2. /\ ResetInBulk(seen) \in Row
      /\ ResetInBulk(seen).hold = seen.hold /\ ResetInBulk(seen).expire = seen.expire
      /\ ResetInBulk(seen).status \in {"active", "expired", "on_hold", "disabled"}
      /\ ResetInBulk(seen).status \in {"on_hold", "expired"} => ResetInBulk(seen).status = seen.status
  BY DEF ResetInBulk, RowOK, Row, Statuses
<1>3. ASSUME NEW new \in Row, new.hold = seen.hold, new.expire = seen.expire,
             new.status \in {"active", "expired", "on_hold", "disabled"},
             new.status \in {"on_hold", "expired"} => new.status = seen.status
      PROVE  RowOK(Flush(row, seen, new, {}))
  <2> DEFINE r == Flush(row, seen, new, {})
  <2>1. /\ r \in Row /\ r.status = new.status /\ r.hold = new.hold
        /\ r.expire = new.expire \/ (new.expire = seen.expire /\ r.expire = row.expire)
    BY <1>3, FlushFields
  <2> HIDE DEF r
  <2>2. RowOK(r)
    BY <1>3, <2>1 DEF RowOK, IsExpired, Agrees
  <2> QED BY <2>2 DEF r
<1> QED BY <1>1, <1>2, <1>3

LEMMA NextPlanSafe ==
  ASSUME NEW row, NEW seen, Agrees(seen, row), seen.plan # None, ~PlanRaises(seen)
  PROVE  RowOK(Flush(row, seen, ResetByNext(seen), {}))
<1> USE LifecycleAssumption
<1>1. seen \in Row /\ seen.plan \in Plan /\ (~seen.plan.rem => seen.limit \in Int)
  BY DEF Agrees, Row, PlanRaises
<1>2. seen.plan.limit + (IF seen.plan.rem THEN 0 ELSE seen.limit - seen.used) \in Int
  BY <1>1 DEF Plan, Row
<1>3. ResetByNext(seen) \in Row /\ ResetByNext(seen).status = "active"
  BY <1>1, <1>2 DEF ResetByNext, Row, Plan, Statuses
<1> QED BY <1>3, FlushFields DEF RowOK

LEMMA VerdictSafe ==
  ASSUME NEW row, NEW seen, Agrees(seen, row), RowOK(seen), seen.status = "active",
         ~(PlanFires(seen) /\ PlanRaises(seen))
  PROVE  RowOK(Flush(row, seen, Verdict(seen), {}))
<1> USE LifecycleAssumption
<1>1. CASE PlanFires(seen)
  BY <1>1, NextPlanSafe DEF Verdict, PlanFires
<1>2. CASE ~PlanFires(seen) /\ IsLimited(seen)
  <2> DEFINE new == [seen EXCEPT !.status = "limited", !.changed = "recent"]
             r   == Flush(row, seen, new, {})
  <2>1. /\ new \in Row /\ new.status = "limited" /\ new.limit = seen.limit /\ new.used = seen.used
    BY DEF RowOK, Row, Statuses, Ages
  <2>2. Verdict(seen) = new
    BY <1>2 DEF Verdict
  <2> HIDE DEF new
  <2>a. /\ r \in Row /\ r.status = new.status /\ r.limit = new.limit
        /\ r.used = new.used \/ (new.used = seen.used /\ r.used = row.used)
    BY <2>1, FlushFields
  <2> HIDE DEF r
  <2>3. /\ r \in Row /\ r.status = "limited" /\ r.limit = seen.limit /\ r.used >= seen.used
    BY <2>1, <2>a DEF Agrees, Row
  <2>4. RowOK(r)
    BY <1>2, <2>3 DEF RowOK, IsLimited, Row
  <2> QED BY <2>2, <2>4 DEF r
<1>3. CASE ~PlanFires(seen) /\ ~IsLimited(seen) /\ IsExpired(seen)
  <2> DEFINE new == [seen EXCEPT !.status = "expired", !.changed = "recent"]
             r   == Flush(row, seen, new, {})
  <2>1. /\ new \in Row /\ new.status = "expired" /\ new.expire = seen.expire
    BY DEF RowOK, Row, Statuses, Ages
  <2>2. Verdict(seen) = new
    BY <1>3 DEF Verdict
  <2> HIDE DEF new
  <2>a. /\ r \in Row /\ r.status = new.status
        /\ r.expire = new.expire \/ (new.expire = seen.expire /\ r.expire = row.expire)
    BY <2>1, FlushFields
  <2> HIDE DEF r
  <2>3. /\ r \in Row /\ r.status = "expired" /\ r.expire = "past"
    BY <1>3, <2>1, <2>a DEF Agrees, IsExpired
  <2>4. RowOK(r)
    BY <2>3 DEF RowOK, IsExpired
  <2> QED BY <2>2, <2>4 DEF r
<1>4. CASE ~PlanFires(seen) /\ ~IsLimited(seen) /\ ~IsExpired(seen)
  <2>1. Verdict(seen) = seen /\ seen \in Row
    BY <1>4 DEF Verdict, RowOK
  <2> QED BY <2>1, FlushFields DEF RowOK
<1> QED BY <1>1, <1>2, <1>3, <1>4

LEMMA StartExpireSafe ==
  ASSUME NEW row, NEW seen, Agrees(seen, row)
  PROVE  RowOK(Flush(row, seen, StartExpire(seen), {}))
<1> USE LifecycleAssumption
<1>1. StartExpire(seen) \in Row /\ StartExpire(seen).status = "active"
  BY DEF StartExpire, Agrees, Row, Statuses, Ages, Moments
<1> QED BY <1>1, FlushFields DEF RowOK

LEMMA UnchangedSafe ==
  ASSUME NEW row, NEW seen, Agrees(seen, row), RowOK(row)
  PROVE  RowOK(Flush(row, seen, seen, {}))
<1>1. Flush(row, seen, seen, {}) = [f \in DOMAIN row |-> row[f]]
  BY DEF Flush
<1>2. [f \in DOMAIN row |-> row[f]] = row
  BY DEF RowOK, Row
<1> QED BY <1>1, <1>2

-----------------------------------------------------------------------------
Txns == [op : Ops, us : SUBSET Users, seen : [Users -> Row \cup {None}], m : Modifications \cup {None}]

RowsOK == rows \in [Users -> Row \cup {None}] /\ \A u \in Users : rows[u] # None => RowOK(rows[u])

TxnsOK ==
  /\ txn \in [Sessions -> Txns \cup {None}]
  /\ \A s \in Sessions : txn[s] # None =>
       /\ Current(txn[s].seen)
       /\ txn[s].op = "modify" => txn[s].m \in Modifications
       /\ review.phase = "idle"
       /\ \A t \in Sessions : txn[t] # None => t = s

ReviewOK ==
  /\ review \in [phase : {"idle", "active", "removed", "hold"}, seen : [Users -> Row \cup {None}]]
  /\ Current(review.seen)
  /\ review.phase \in {"idle", "removed"} => review.seen = NothingSeen
  /\ review.phase = "active" => \A u \in Users : review.seen[u] # None => review.seen[u].status = "active"

\* The inductive invariant: sound rows, and open transactions whose rows are
\* current because there is at most one of them.
IInv == RowsOK /\ TxnsOK /\ ReviewOK

LEMMA NoneIsNoRow == None \notin Row
BY LifecycleAssumption

LEMMA AgreesReflexive ==
  ASSUME NEW r \in Row
  PROVE  Agrees(r, r)
BY DEF Agrees, Row

LEMMA AgreesTransitive ==
  ASSUME NEW a, NEW b, NEW c, Agrees(a, b), Agrees(b, c)
  PROVE  Agrees(a, c)
BY DEF Agrees, Row

LEMMA NothingIsCurrent == Current(NothingSeen)
BY DEF Current, NothingSeen

\* Traffic and time keep every read row current.
LEMMA DriftKeepsCurrent ==
  ASSUME NEW seen, Current(seen),
         \A u \in Users : rows[u] # None => rows'[u] # None /\ Agrees(rows[u], rows'[u])
  PROVE  Current(seen)'
<1> SUFFICES ASSUME NEW u \in Users, seen[u] # None
             PROVE  rows'[u] # None /\ Agrees(seen[u], rows'[u]) /\ RowOK(seen[u])
  BY DEF Current
<1>1. rows[u] # None /\ Agrees(seen[u], rows[u]) /\ RowOK(seen[u])
  BY DEF Current
<1> QED BY <1>1, AgreesTransitive

LEMMA CommitKeepsRows ==
  ASSUME RowsOK, NEW seen, NEW new, NEW touched \in SUBSET {"edit_at", "expire"},
         \A u \in Users : new[u] # None /\ rows[u] # None => RowOK(Flush(rows[u], seen[u], new[u], touched)),
         Commit(seen, new, touched)
  PROVE  RowsOK'
<1>1. CASE Stale(seen, new)
  BY <1>1 DEF Commit, Write, RowsOK
<1>2. CASE ~Stale(seen, new)
  <2> DEFINE next == [u \in Users |-> IF new[u] = None \/ rows[u] = None THEN rows[u]
                                      ELSE Flush(rows[u], seen[u], new[u], touched)]
  <2>1. rows' = next
    BY <1>2 DEF Commit, Write
  <2>2. ASSUME NEW u \in Users
        PROVE  next[u] \in Row \cup {None} /\ (next[u] # None => RowOK(next[u]))
    BY DEF RowsOK, RowOK
  <2> HIDE DEF next
  <2>3. next = [u \in Users |-> next[u]]
    BY DEF next
  <2> QED BY <2>1, <2>2, <2>3 DEF RowsOK
<1> QED BY <1>1, <1>2

\* When its only open transaction ends, nothing is open any more.
LEMMA EndClosesAll ==
  ASSUME IInv, NEW s \in Sessions, NEW op, NEW code, End(s, op, code)
  PROVE  TxnsOK' /\ ReviewOK' /\ txn[s] \in Txns /\ txn[s].op = op /\ Current(txn[s].seen)
<1>1. txn[s] \in Txns /\ txn[s].op = op /\ Current(txn[s].seen) /\ review.phase = "idle"
  BY DEF End, IInv, TxnsOK
<1>2. txn' \in [Sessions -> Txns \cup {None}] /\ \A t \in Sessions : txn'[t] = None
  BY DEF End, IInv, TxnsOK
<1>3. review' = review /\ review.seen = NothingSeen
  BY <1>1 DEF End, IInv, ReviewOK
<1>4. Current(NothingSeen)'
  BY DEF Current, NothingSeen
<1>5. ReviewOK'
  BY <1>1, <1>3, <1>4 DEF IInv, ReviewOK
<1> QED BY <1>1, <1>2, <1>5 DEF TxnsOK

LEMMA BeginKeeps ==
  ASSUME IInv, ~Overlap, NEW s \in Sessions, NEW op, NEW us \in SUBSET Existing,
         NEW m \in Modifications \cup {None}, op = "modify" => m \in Modifications,
         Begin(s, op, us, m)
  PROVE  IInv'
<1>1. review.phase = "idle" /\ \A t \in Sessions : txn[t] = None
  BY DEF Begin, MayOpen
<1>2. rows' = rows /\ review' = review
  BY DEF Begin
<1>3. RowsOK' /\ ReviewOK'
  BY <1>2 DEF IInv, RowsOK, ReviewOK, Current
<1>a. PICK seen : seen = [u \in Users |-> IF u \in us THEN rows[u] ELSE None]
  OBVIOUS
<1>4. Txn(op, us, m) = [op |-> op, us |-> us, seen |-> seen, m |-> m] /\ op \in Ops
  BY <1>a DEF Txn, Begin
<1>5. seen \in [Users -> Row \cup {None}] /\ us \in SUBSET Users
  BY <1>a DEF IInv, RowsOK, Existing
<1>6. Current(seen)'
  BY <1>2, <1>a, AgreesReflexive DEF Current, IInv, RowsOK
<1>7. Txn(op, us, m) \in Txns /\ Txn(op, us, m).seen = seen /\ Txn(op, us, m).m = m /\ Txn(op, us, m).op = op
  BY <1>4, <1>5 DEF Txns
<1>8. txn' \in [Sessions -> Txns \cup {None}] /\ txn'[s] = Txn(op, us, m)
      /\ \A t \in Sessions : t # s => txn'[t] = None
  BY <1>1, <1>7 DEF Begin, IInv, TxnsOK
<1>9. TxnsOK'
  BY <1>1, <1>2, <1>6, <1>7, <1>8 DEF TxnsOK, Current
<1> QED BY <1>3, <1>9 DEF IInv

\* A row on its own step, with nothing open.
LEMMA ClosedKeeps ==
  ASSUME IInv, ~Overlap, MayOpen, RowsOK', txn' = txn, review' = review
  PROVE  IInv'
<1>1. review.phase = "idle" /\ \A t \in Sessions : txn[t] = None
  BY DEF MayOpen
<1>2. Current(NothingSeen)'
  BY DEF Current, NothingSeen
<1>3. ReviewOK'
  BY <1>1, <1>2 DEF IInv, ReviewOK
<1>4. TxnsOK'
  BY <1>1 DEF IInv, TxnsOK
<1> QED BY <1>3, <1>4 DEF IInv

\* Traffic and time move rows only along Agrees.
LEMMA DriftKeeps ==
  ASSUME IInv, RowsOK', txn' = txn, review' = review,
         \A u \in Users : rows[u] # None => rows'[u] # None /\ Agrees(rows[u], rows'[u])
  PROVE  IInv'
<1>1. ASSUME NEW s \in Sessions, txn[s] # None
      PROVE  Current(txn[s].seen)'
  <2>1. Current(txn[s].seen)
    BY <1>1 DEF IInv, TxnsOK
  <2>2. PICK seen : seen = txn[s].seen
    OBVIOUS
  <2>3. Current(seen)'
    BY <2>1, <2>2, DriftKeepsCurrent
  <2> QED BY <2>2, <2>3 DEF Current
<1>2. TxnsOK'
  BY <1>1 DEF IInv, TxnsOK
<1>3. Current(review.seen)'
  <2>1. PICK seen : seen = review.seen
    OBVIOUS
  <2>2. Current(seen)'
    BY <2>1, DriftKeepsCurrent DEF IInv, ReviewOK
  <2> QED BY <2>1, <2>2 DEF Current
<1>4. ReviewOK'
  BY <1>3 DEF IInv, ReviewOK, NothingSeen
<1> QED BY <1>2, <1>4 DEF IInv

LEMMA DriftRow ==
  ASSUME RowsOK, NEW u \in Users, rows[u] # None, NEW r, RowOK(r), Agrees(rows[u], r),
         rows' = [rows EXCEPT ![u] = r]
  PROVE  /\ RowsOK'
         /\ \A v \in Users : rows[v] # None => rows'[v] # None /\ Agrees(rows[v], rows'[v])
<1>1. r \in Row /\ r # None
  BY NoneIsNoRow DEF RowOK
<1>2. rows' \in [Users -> Row \cup {None}] /\ rows'[u] = r
  BY <1>1 DEF RowsOK
<1>3. \A v \in Users : v # u => rows'[v] = rows[v]
  BY DEF RowsOK
<1>4. \A v \in Users : rows[v] # None => rows[v] \in Row
  BY DEF RowsOK
<1> QED BY <1>1, <1>2, <1>3, <1>4, AgreesReflexive DEF RowsOK

LEMMA EnvironmentKeeps ==
  ASSUME IInv, ~Overlap, Environment
  PROVE  IInv'
<1> USE DEF IInv
<1>1. ASSUME NEW u \in Users, RecordUsage(u)
      PROVE  IInv'
  <2> DEFINE r == [rows[u] EXCEPT !.used = @ + 1, !.online = "since"]
  <2>1. rows' = [rows EXCEPT ![u] = r] /\ rows[u] # None
    BY <1>1 DEF RecordUsage, Write, Existing
  <2>2. RowOK(rows[u]) /\ rows[u] \in Row
    BY <2>1 DEF RowsOK, RowOK
  <2>a. rows[u].used \in Nat /\ rows[u].used + 1 \in Nat
    BY <2>2 DEF Row
  <2>3. r \in Row /\ r.used = rows[u].used + 1 /\ r.status = rows[u].status /\ r.limit = rows[u].limit
        /\ r.hold = rows[u].hold /\ r.plan = rows[u].plan /\ r.expire = rows[u].expire /\ rows[u].used \in Nat
    BY <2>2, <2>a DEF Row
  <2>4. rows[u].limit \in Int \cup {None}
    BY <2>2 DEF Row
  <2> HIDE DEF r
  <2>5. Agrees(rows[u], r)
    BY <2>2, <2>3 DEF Agrees
  <2>6. RowOK(r)
    BY <2>2, <2>3, <2>4 DEF RowOK, IsLimited, IsExpired
  <2> QED BY <1>1, <2>1, <2>5, <2>6, DriftRow, DriftKeeps DEF RecordUsage
<1>2. ASSUME NEW u \in Users, ExpireComes(u)
      PROVE  IInv'
  <2> DEFINE r == [rows[u] EXCEPT !.expire = "past"]
  <2>1. rows' = [rows EXCEPT ![u] = r] /\ rows[u] # None /\ rows[u].expire = "future"
    BY <1>2 DEF ExpireComes, Write, Existing
  <2>2. RowOK(rows[u]) /\ rows[u] \in Row
    BY <2>1 DEF RowsOK, RowOK
  <2>3. r \in Row /\ r.used = rows[u].used /\ r.status = rows[u].status /\ r.limit = rows[u].limit
        /\ r.hold = rows[u].hold /\ r.plan = rows[u].plan /\ r.expire = "past" /\ rows[u].used \in Nat
    BY <2>2 DEF Row, Moments
  <2> HIDE DEF r
  <2>5. Agrees(rows[u], r)
    BY <2>1, <2>2, <2>3 DEF Agrees
  <2>6. RowOK(r)
    BY <2>2, <2>3 DEF RowOK, IsLimited, IsExpired
  <2> QED BY <1>2, <2>1, <2>5, <2>6, DriftRow, DriftKeeps DEF ExpireComes
<1>3. ASSUME NEW u \in Users, HoldTimesOut(u)
      PROVE  IInv'
  <2> DEFINE r == [rows[u] EXCEPT !.timeout = "past"]
  <2>1. rows' = [rows EXCEPT ![u] = r] /\ rows[u] # None
    BY <1>3 DEF HoldTimesOut, Write, Existing
  <2>2. RowOK(rows[u]) /\ rows[u] \in Row
    BY <2>1 DEF RowsOK, RowOK
  <2>3. r \in Row /\ r.used = rows[u].used /\ r.status = rows[u].status /\ r.limit = rows[u].limit
        /\ r.hold = rows[u].hold /\ r.plan = rows[u].plan /\ r.expire = rows[u].expire /\ rows[u].used \in Nat
    BY <2>2 DEF Row, Moments
  <2> HIDE DEF r
  <2>5. Agrees(rows[u], r)
    BY <2>2, <2>3 DEF Agrees
  <2>6. RowOK(r)
    BY <2>2, <2>3 DEF RowOK, IsLimited, IsExpired
  <2> QED BY <1>3, <2>1, <2>5, <2>6, DriftRow, DriftKeeps DEF HoldTimesOut
<1>4. ASSUME DaysPass
      PROVE  IInv'
  <2> DEFINE old(r) == [r EXCEPT !.changed = "old"]
  <2>1. rows' = [u \in Users |-> IF rows[u] = None THEN None ELSE old(rows[u])]
    BY <1>4 DEF DaysPass
  <2>2. ASSUME NEW r, RowOK(r)
        PROVE  old(r) \in Row /\ RowOK(old(r))
    <3>1. r \in Row
      BY <2>2 DEF RowOK
    <3>2. old(r) \in Row /\ old(r).used = r.used /\ old(r).status = r.status /\ old(r).limit = r.limit
          /\ old(r).hold = r.hold /\ old(r).expire = r.expire
      BY <3>1 DEF Row, Ages
    <3> HIDE DEF old
    <3> QED BY <2>2, <3>2 DEF RowOK, IsLimited, IsExpired
  <2> HIDE DEF old
  <2>3. RowsOK'
    BY <2>1, <2>2 DEF RowsOK
  <2>4. MayOpen
    BY <1>4 DEF DaysPass, MayOpen
  <2> QED BY <1>4, <2>3, <2>4, ClosedKeeps DEF DaysPass
<1> QED BY <1>1, <1>2, <1>3, <1>4 DEF Environment

LEMMA RequestKeeps ==
  ASSUME IInv, ~Overlap, NEW s \in Sessions, Request(s)
  PROVE  IInv'
<1>1. ASSUME NEW u \in Users, NEW m \in Modifications, ModifyRead(s, u, m)
      PROVE  IInv'
  <2>1. Begin(s, "modify", {u}, m) /\ {u} \in SUBSET Existing
    BY <1>1 DEF ModifyRead
  <2> QED BY <2>1, BeginKeeps
<1>2. ASSUME NEW op \in {"delete", "reset", "job_reset", "active_next"}, NEW u \in Existing,
             Begin(s, op, {u}, None)
      PROVE  IInv'
  <2>1. {u} \in SUBSET Existing /\ op # "modify"
    BY <1>2
  <2> QED BY <1>2, <2>1, BeginKeeps
<1>3. ASSUME NEW op \in {"delete_expired", "autodelete", "reset_all"}, NEW us \in SUBSET Existing,
             Begin(s, op, us, None)
      PROVE  IInv'
  BY <1>3, BeginKeeps
<1>4. ASSUME NEW u \in Users, DeleteRead(s, u) \/ ResetRead(s, u) \/ JobResetRead(s, u) \/ ActiveNextRead(s, u)
      PROVE  IInv'
  BY <1>2, <1>4 DEF DeleteRead, ResetRead, JobResetRead, ActiveNextRead
<1>5. DeleteExpiredRead(s) \/ AutodeleteRead(s) \/ ResetAllRead(s) => IInv'
  BY <1>3 DEF DeleteExpiredRead, AutodeleteRead, ResetAllRead
<1> QED BY <1>1, <1>4, <1>5 DEF Request

LEMMA AnswerKeeps ==
  ASSUME IInv, NEW s \in Sessions, Answer(s)
  PROVE  IInv'
<1> DEFINE seen == txn[s].seen
<1>0. RowsOK /\ \A u \in Users : rows[u] # None => RowOK(rows[u])
  BY DEF IInv, RowsOK
<1>a. ASSUME NEW u \in Users, Current(seen), seen[u] # None
      PROVE  Agrees(seen[u], rows[u]) /\ RowOK(seen[u]) /\ RowOK(rows[u])
  BY <1>0, <1>a DEF Current
<1>1. CASE ModifyWrite(s)
  <2> DEFINE m       == txn[s].m
             new     == [u \in Users |-> IF seen[u] = None THEN None ELSE UpdateUser(seen[u], m)]
             touched == {"edit_at"} \cup (IF m.expire = None THEN {} ELSE {"expire"})
  <2>1. (\E code : End(s, "modify", code)) /\ Commit(seen, new, touched)
    BY <1>1 DEF ModifyWrite, Save
  <2>2. TxnsOK' /\ ReviewOK' /\ Current(seen) /\ txn[s] # None /\ txn[s].op = "modify"
    BY <2>1, EndClosesAll DEF End
  <2>3. m \in Modification /\ ValidModification(m)
    BY <2>2, LifecycleAssumption DEF IInv, TxnsOK
  <2>4. touched \in SUBSET {"edit_at", "expire"} /\ (m.expire # None => "expire" \in touched)
    OBVIOUS
  <2> HIDE DEF m, touched
  <2>5. ASSUME NEW u \in Users, new[u] # None, rows[u] # None
        PROVE  RowOK(Flush(rows[u], seen[u], new[u], touched))
    BY <1>a, <2>2, <2>3, <2>4, <2>5, UpdateSafe
  <2> HIDE DEF new
  <2> QED BY <1>0, <2>1, <2>2, <2>4, <2>5, CommitKeepsRows DEF IInv
<1>2. CASE DeleteWrite(s)
  <2>1. PICK op : End(s, op, 200) /\ Delete(txn[s].us)
    BY <1>2 DEF DeleteWrite
  <2>2. RowsOK'
    BY <1>0, <2>1 DEF Delete, Write, RowsOK
  <2> QED BY <2>1, <2>2, EndClosesAll DEF IInv
<1>3. CASE ResetWrite(s)
  <2> DEFINE new == [u \in Users |-> IF seen[u] = None THEN None ELSE ResetDataUsage(seen[u])]
  <2>1. (\E op, code : End(s, op, code)) /\ Commit(seen, new, {})
    BY <1>3 DEF ResetWrite, Save
  <2>2. TxnsOK' /\ ReviewOK' /\ Current(seen)
    BY <2>1, EndClosesAll
  <2>3. ASSUME NEW u \in Users, new[u] # None, rows[u] # None
        PROVE  RowOK(Flush(rows[u], seen[u], new[u], {}))
    BY <1>a, <2>2, <2>3, ResetSafe
  <2> HIDE DEF new
  <2> QED BY <1>0, <2>1, <2>2, <2>3, CommitKeepsRows DEF IInv
<1>4. CASE ResetAllWrite(s)
  <2> DEFINE new == [u \in Users |-> IF seen[u] = None THEN None ELSE ResetInBulk(seen[u])]
  <2>1. (\E code : End(s, "reset_all", code)) /\ Commit(seen, new, {})
    BY <1>4 DEF ResetAllWrite, Save
  <2>2. TxnsOK' /\ ReviewOK' /\ Current(seen)
    BY <2>1, EndClosesAll
  <2>3. ASSUME NEW u \in Users, new[u] # None, rows[u] # None
        PROVE  RowOK(Flush(rows[u], seen[u], new[u], {}))
    BY <1>a, <2>2, <2>3, ResetSafe
  <2> HIDE DEF new
  <2> QED BY <1>0, <2>1, <2>2, <2>3, CommitKeepsRows DEF IInv
<1>5. CASE ActiveNextWrite(s)
  <2> DEFINE raises == \E u \in Users : seen[u] # None /\ seen[u].plan # None /\ PlanRaises(seen[u])
             new    == [u \in Users |-> IF seen[u] = None \/ seen[u].plan = None
                                        THEN seen[u] ELSE ResetByNext(seen[u])]
  <2>1. /\ \E code : End(s, "active_next", code)
        /\ raises => Write(rows)
        /\ ~raises => Commit(seen, new, {})
    BY <1>5 DEF ActiveNextWrite
  <2>2. TxnsOK' /\ ReviewOK' /\ Current(seen)
    BY <2>1, EndClosesAll
  <2>3. CASE raises
    BY <1>0, <2>1, <2>2, <2>3 DEF Write, RowsOK, IInv
  <2>4. CASE ~raises
    <3>1. ASSUME NEW u \in Users, new[u] # None, rows[u] # None
          PROVE  RowOK(Flush(rows[u], seen[u], new[u], {}))
      <4>1. CASE seen[u] = None
        BY <3>1, <4>1
      <4>2. CASE seen[u] # None /\ seen[u].plan = None
        BY <1>a, <2>2, <4>2, UnchangedSafe
      <4>3. CASE seen[u] # None /\ seen[u].plan # None
        BY <1>a, <2>2, <2>4, <4>3, NextPlanSafe
      <4> QED BY <4>1, <4>2, <4>3
    <3> HIDE DEF new, raises
    <3> QED BY <1>0, <2>1, <2>2, <2>4, <3>1, CommitKeepsRows DEF IInv
  <2> QED BY <2>3, <2>4
<1> QED BY <1>1, <1>2, <1>3, <1>4, <1>5 DEF Answer

\* Nothing is open while the review job runs.
LEMMA ReviewAlone ==
  ASSUME IInv, review.phase # "idle", txn' = txn
  PROVE  TxnsOK'
BY DEF IInv, TxnsOK

LEMMA ReviewKeeps ==
  ASSUME IInv, ~Overlap, Review
  PROVE  IInv'
<1> DEFINE seen == review.seen
           idle == [phase |-> "idle", seen |-> NothingSeen]
<1>0. RowsOK /\ Current(seen) /\ \A u \in Users : rows[u] # None => RowOK(rows[u])
  BY DEF IInv, RowsOK, ReviewOK
<1>a. ASSUME NEW u \in Users, seen[u] # None
      PROVE  Agrees(seen[u], rows[u]) /\ RowOK(seen[u]) /\ RowOK(rows[u])
  BY <1>0, <1>a DEF Current
<1>b. ASSUME NEW p \in {"idle", "removed"}, review' = [phase |-> p, seen |-> NothingSeen]
      PROVE  ReviewOK'
  <2>1. Current(NothingSeen)'
    BY DEF Current, NothingSeen
  <2>2. NothingSeen \in [Users -> Row \cup {None}]
    BY DEF NothingSeen
  <2> QED BY <1>b, <2>1, <2>2 DEF ReviewOK, Current, NothingSeen
<1>c. ASSUME NEW from, NEW to \in {"active", "hold"}, NEW status, to = "active" => status = "active",
             ReviewReads(from, to, status)
      PROVE  RowsOK' /\ ReviewOK'
  <2>1. PICK read : read = [u \in Users |-> IF u \in Existing /\ rows[u].status = status THEN rows[u] ELSE None]
    OBVIOUS
  <2>2. rows' = rows /\ review' = [phase |-> to, seen |-> read]
    BY <1>c, <2>1 DEF ReviewReads
  <2>3. read \in [Users -> Row \cup {None}]
    BY <1>0, <2>1 DEF RowsOK
  <2>4. \A u \in Users : read[u] # None => read[u] = rows[u] /\ rows[u] # None /\ rows[u].status = status
    BY <2>1
  <2>5. Current(read)'
    BY <1>0, <2>2, <2>4, AgreesReflexive DEF Current, RowsOK
  <2>6. ReviewOK'
    BY <1>c, <2>2, <2>3, <2>4, <2>5 DEF ReviewOK, Current
  <2> QED BY <1>0, <2>2, <2>6 DEF RowsOK
<1>1. CASE ReviewActiveRead
  <2>1. RowsOK' /\ ReviewOK'
    BY <1>1, <1>c DEF ReviewActiveRead
  <2>2. TxnsOK'
    BY <1>1 DEF ReviewActiveRead, ReviewReads, MayOpen, IInv, TxnsOK
  <2> QED BY <2>1, <2>2 DEF IInv
<1>2. CASE ReviewHoldRead
  <2>1. RowsOK' /\ ReviewOK'
    BY <1>2, <1>c DEF ReviewHoldRead
  <2>2. TxnsOK'
    BY <1>2, ReviewAlone DEF ReviewHoldRead, ReviewReads
  <2> QED BY <2>1, <2>2 DEF IInv
<1>3. CASE ReviewActiveCommit
  <2> DEFINE new    == [u \in Users |-> IF seen[u] = None THEN None ELSE Verdict(seen[u])]
             raises == \E u \in Users : seen[u] # None /\ PlanFires(seen[u]) /\ PlanRaises(seen[u])
  <2>1. /\ review.phase = "active" /\ txn' = txn
        /\ raises \/ Stale(seen, new) => rows' = rows /\ review' = idle
        /\ ~(raises \/ Stale(seen, new)) =>
             Commit(seen, new, {}) /\ review' = [phase |-> "removed", seen |-> NothingSeen]
    BY <1>3 DEF ReviewActiveCommit, Write
  <2>2. TxnsOK'
    BY <2>1, ReviewAlone
  <2>3. CASE raises \/ Stale(seen, new)
    BY <1>0, <1>b, <2>1, <2>2, <2>3 DEF IInv, RowsOK
  <2>4. CASE ~(raises \/ Stale(seen, new))
    <3>1. ASSUME NEW u \in Users, new[u] # None, rows[u] # None
          PROVE  RowOK(Flush(rows[u], seen[u], new[u], {}))
      <4>1. seen[u] # None /\ new[u] = Verdict(seen[u]) /\ ~(PlanFires(seen[u]) /\ PlanRaises(seen[u]))
        BY <2>4, <3>1
      <4>2. seen[u].status = "active"
        BY <2>1, <4>1 DEF IInv, ReviewOK
      <4> QED BY <1>a, <4>1, <4>2, VerdictSafe
    <3> HIDE DEF new, raises
    <3>2. RowsOK'
      BY <1>0, <2>1, <2>4, <3>1, CommitKeepsRows
    <3> QED BY <1>b, <2>1, <2>2, <2>4, <3>2 DEF IInv
  <2> QED BY <2>3, <2>4
<1>4. CASE ReviewHoldCommit
  <2> DEFINE new    == [u \in Users |-> IF seen[u] # None /\ IsWoken(seen[u]) THEN StartExpire(seen[u]) ELSE seen[u]]
             raises == \E u \in Users : seen[u] # None /\ IsWoken(seen[u]) /\ seen[u].hold = None
  <2>1. /\ review.phase = "hold" /\ txn' = txn /\ review' = idle
        /\ raises => rows' = rows
        /\ ~raises => Commit(seen, new, {})
    BY <1>4 DEF ReviewHoldCommit, Write
  <2>2. TxnsOK' /\ ReviewOK'
    BY <1>b, <2>1, ReviewAlone
  <2>3. ASSUME NEW u \in Users, new[u] # None, rows[u] # None
        PROVE  RowOK(Flush(rows[u], seen[u], new[u], {}))
    <3>1. CASE seen[u] = None
      BY <2>3, <3>1
    <3>2. CASE seen[u] # None /\ IsWoken(seen[u])
      BY <1>a, <3>2, StartExpireSafe
    <3>3. CASE seen[u] # None /\ ~IsWoken(seen[u])
      BY <1>a, <3>3, UnchangedSafe
    <3> QED BY <3>1, <3>2, <3>3
  <2> HIDE DEF new, raises
  <2>4. RowsOK'
    <3>1. CASE raises
      BY <1>0, <2>1, <3>1 DEF RowsOK
    <3>2. CASE ~raises
      BY <1>0, <2>1, <2>3, <3>2, CommitKeepsRows
    <3> QED BY <3>1, <3>2
  <2> QED BY <2>2, <2>4 DEF IInv
<1> QED BY <1>1, <1>2, <1>3, <1>4 DEF Review

LEMMA BulkKeeps ==
  ASSUME IInv, ~Overlap, DisableAll \/ ActivateAll
  PROVE  IInv'
<1> USE LifecycleAssumption
<1>1. ASSUME NEW r, RowOK(r)
      PROVE  RowOK(DisabledRow(r)) /\ RowOK(ActivatedRow(r))
  <2>1. r \in Row
    BY <1>1 DEF RowOK
  <2>2. ASSUME NEW st \in {"disabled", "on_hold", "active"}, st = "on_hold" => r.hold # None
        PROVE  RowOK([r EXCEPT !.status = st, !.changed = "recent"])
    <3> DEFINE q == [r EXCEPT !.status = st, !.changed = "recent"]
    <3>1. q \in Row /\ q.status = st /\ q.hold = r.hold
      BY <2>1 DEF Row, Statuses, Ages
    <3> HIDE DEF q
    <3>2. RowOK(q)
      BY <2>2, <3>1 DEF RowOK
    <3> QED BY <3>2 DEF q
  <2>3. RowOK(DisabledRow(r))
    BY <1>1, <2>2 DEF DisabledRow
  <2>4. CASE r.status = "disabled"
    <3> DEFINE st == IF r.expire = None /\ r.hold # None /\ r.online = "never" THEN "on_hold" ELSE "active"
    <3>1. ActivatedRow(r) = [r EXCEPT !.changed = "recent", !.status = st]
      BY <2>4 DEF ActivatedRow
    <3>2. [r EXCEPT !.changed = "recent", !.status = st] = [r EXCEPT !.status = st, !.changed = "recent"]
      BY <2>1 DEF Row
    <3> QED BY <2>2, <2>3, <3>1, <3>2
  <2>5. CASE r.status # "disabled"
    BY <1>1, <2>3, <2>5 DEF ActivatedRow
  <2> QED BY <2>4, <2>5
<1>2. /\ MayOpen /\ txn' = txn /\ review' = review
      /\ \/ rows' = [u \in Users |-> IF rows[u] = None THEN None ELSE DisabledRow(rows[u])]
         \/ rows' = [u \in Users |-> IF rows[u] = None THEN None ELSE ActivatedRow(rows[u])]
  BY DEF DisableAll, ActivateAll, InBulk, Write
<1>3. \A r : RowOK(r) => r \in Row
  BY DEF RowOK
<1>4. RowsOK'
  BY <1>1, <1>2, <1>3 DEF IInv, RowsOK
<1> QED BY <1>2, <1>4, ClosedKeeps

LEMMA CreateKeeps ==
  ASSUME IInv, ~Overlap, NEW u \in Users, NEW r \in Newcomers, CreateUser(u, r)
  PROVE  IInv'
<1>1. r \in Row /\ ValidNewcomer(r)
  BY LifecycleAssumption
<1>2. RowOK(r)
  BY <1>1 DEF ValidNewcomer, RowOK
<1>3. MayOpen /\ txn' = txn /\ review' = review /\ rows' = [rows EXCEPT ![u] = r]
  BY DEF CreateUser, Write
<1>4. RowsOK'
  BY <1>1, <1>2, <1>3 DEF IInv, RowsOK
<1> QED BY <1>3, <1>4, ClosedKeeps

LEMMA InitOK == Init => IInv
<1> SUFFICES ASSUME Init PROVE IInv
  OBVIOUS
<1>1. RowsOK
  BY DEF Init, RowsOK
<1>2. TxnsOK
  BY DEF Init, TxnsOK
<1>3. ReviewOK
  BY NothingIsCurrent DEF Init, ReviewOK, NothingSeen
<1> QED BY <1>1, <1>2, <1>3 DEF IInv

LEMMA StepOK ==
  ASSUME IInv, ~Overlap, [Next]_vars
  PROVE  IInv'
<1>1. CASE UNCHANGED vars
  BY <1>1 DEF vars, IInv, RowsOK, TxnsOK, ReviewOK, Current
<1>2. ASSUME NEW u \in Users, NEW r \in Newcomers, CreateUser(u, r)
      PROVE  IInv'
  BY <1>2, CreateKeeps
<1>3. CASE DisableAll \/ ActivateAll
  BY <1>3, BulkKeeps
<1>4. ASSUME NEW s \in Sessions, Request(s) \/ Answer(s)
      PROVE  IInv'
  BY <1>4, RequestKeeps, AnswerKeeps
<1>5. CASE Review
  BY <1>5, ReviewKeeps
<1>6. CASE Environment
  BY <1>6, EnvironmentKeeps
<1> QED BY <1>1, <1>2, <1>3, <1>4, <1>5, <1>6 DEF Next

\* For any users, sessions, requests and limits: as long as no two transactions
\* overlap, every user on hold has the duration start_user_expire needs.
THEOREM HoldNeverPoisonsReview ==
  ASSUME ~Overlap
  PROVE  Spec => []OnHoldHasDuration
<1>1. Init => IInv
  BY InitOK
<1>2. IInv /\ [Next]_vars => IInv'
  BY StepOK
<1>3. IInv => OnHoldHasDuration
  BY DEF IInv, RowsOK, RowOK, OnHoldHasDuration, Existing
<1> QED BY <1>1, <1>2, <1>3, PTL DEF Spec

\* Under the same assumption, a user is limited only over its limit and expired
\* only past its expire, whatever handlers, jobs, traffic and time did.
THEOREM StatusIsJustified ==
  ASSUME ~Overlap
  PROVE  Spec => []StatusMatchesData
<1>1. Init => IInv
  BY InitOK
<1>2. IInv /\ [Next]_vars => IInv'
  BY StepOK
<1>3. IInv => StatusMatchesData
  BY DEF IInv, RowsOK, RowOK, StatusMatchesData, Existing
<1> QED BY <1>1, <1>2, <1>3, PTL DEF Spec
=============================================================================
