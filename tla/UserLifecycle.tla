--------------------------- MODULE UserLifecycle ---------------------------
(***************************************************************************)
(* The rows of the table users, and everybody who writes them: the request *)
(* handlers of app/routers/user.py and app/routers/admin.py, the review    *)
(* job, the usage-reset job, the auto-delete job and the usage recorder.   *)
(*                                                                         *)
(* A handler works on an ORM object: the row is read when the session      *)
(* first touches it, changed in memory, and written back by one UPDATE     *)
(* that names only the columns whose value differs from the value read     *)
(* (SessionLocal: autoflush off).  So every transaction here has a reading *)
(* step and a writing step, and Flush is what the writing step does to a   *)
(* row that other transactions may have changed in between.                *)
(*                                                                         *)
(* Timestamps are kept as what the code asks of them: expire and           *)
(* on_hold_timeout are absent, in the future or in the past; online_at is  *)
(* null, before edit_at or since; last_status_change is recent or, at      *)
(* least the auto-delete period ago, old.  The batches of 500 users of the *)
(* review job are one batch.                                               *)
(***************************************************************************)
EXTENDS Integers, FiniteSets

CONSTANTS
  Users,          \* the ids of the users the panel will ever have
  Sessions,       \* database sessions of concurrent requests and small jobs
  None,           \* SQL NULL, Python None
  Newcomers,      \* rows the requests create
  Modifications,  \* bodies of PUT /api/user/{username}
  Ops,            \* the operations requests may perform
  IncludeLimited, \* USER_AUTODELETE_INCLUDE_LIMITED_ACCOUNTS
  Overlap,        \* may a transaction start while another one is open?
  MaxOps,         \* bound: number of operations
  MaxUsed         \* bound: used_traffic

Statuses == {"active", "disabled", "limited", "expired", "on_hold"}
Moments == {None, "future", "past"}
Ages == {"recent", "old"}

\* A row of next_plans; its data_limit column is NOT NULL.
Plan == [limit : Nat, expire : Moments, rem : BOOLEAN, either : BOOLEAN]

Row == [status : Statuses, used : Nat, limit : Int \cup {None}, expire : Moments,
        hold : (Nat \ {0}) \cup {None}, timeout : Moments, online : {"never", "before", "since"},
        plan : Plan \cup {None}, changed : Ages]

\* Absent fields of a body are None; limit 0 and expire "unlimited" stand for
\* the 0 that lifts the limit; replan says that next_plan is in the body, where
\* None is an explicit null.
Modification ==
  [status : {None, "active", "disabled", "on_hold"}, limit : Nat \cup {None},
   expire : Moments \cup {"unlimited"}, hold : (Nat \ {0}) \cup {None}, timeout : Moments,
   replan : BOOLEAN, plan : Plan \cup {None}]

\* UserModify.validate_status: without a duration, or with an expire, a user
\* cannot be put on hold (the request is refused with 422).
ValidModification(m) ==
  m.status = "on_hold" => m.hold # None /\ m.expire \in {None, "unlimited"}

\* UserCreate.validate_status and the defaults of create_user.
ValidNewcomer(r) ==
  /\ r.status \in {"active", "on_hold"}
  /\ r.status = "on_hold" => r.hold # None /\ r.expire = None
  /\ r.used = 0 /\ r.online = "never" /\ r.changed = "recent"
  /\ r.limit # None => r.limit > 0

ASSUME LifecycleAssumption ==
  /\ None \notin Int \cup STRING \cup Plan \cup Row
  /\ Newcomers \subseteq {r \in Row : ValidNewcomer(r)}
  /\ Modifications \subseteq {m \in Modification : ValidModification(m)}
  /\ IncludeLimited \in BOOLEAN /\ Overlap \in BOOLEAN
  /\ MaxOps \in Nat /\ MaxUsed \in Nat

VARIABLES
  rows,     \* user -> its row, None when it does not exist
  created,  \* the ids already given out; they are never given out again
  txn,      \* session -> the open transaction, None when there is none
  review,   \* the review job: its phase and the rows it has read
  reply,    \* the HTTP status of the last finished request, None before
  aged,     \* history: how long ago the status last changed
  nops      \* operations so far

vars == <<rows, created, txn, review, reply, aged, nops>>

Existing == {u \in Users : rows[u] # None}
NothingSeen == [u \in Users |-> None]
Txn(op, us, m) == [op |-> op, us |-> us, seen |-> [u \in Users |-> IF u \in us THEN rows[u] ELSE None], m |-> m]

\* Only an overlap of transactions makes a read row differ from the written one.
MayOpen == Overlap \/ (review.phase = "idle" /\ \A s \in Sessions : txn[s] = None)

Init ==
  /\ rows = [u \in Users |-> None]
  /\ created = {}
  /\ txn = [s \in Sessions |-> None]
  /\ review = [phase |-> "idle", seen |-> NothingSeen]
  /\ reply = None
  /\ aged = [u \in Users |-> "recent"]
  /\ nops = 0

-----------------------------------------------------------------------------
(* Writing rows *)

\* The UPDATE of a flush: the columns in touched, and those whose new value is
\* not the value read.  Deleting a plan deletes the plan row that was read.  A
\* new edit_at is later than any online_at.
Flush(row, seen, new, touched) ==
  LET written == [f \in DOMAIN row |->
                    IF /\ new[f] # seen[f] \/ f \in touched
                       /\ ~(f = "plan" /\ new[f] = None /\ row[f] # seen[f])
                    THEN new[f] ELSE row[f]]
  IN  IF "edit_at" \in touched /\ row.online = "since"
      THEN [written EXCEPT !.online = "before"] ELSE written

\* An UPDATE of a row that is gone matches no row: SQLAlchemy raises
\* StaleDataError and the whole transaction is rolled back.
Stale(seen, new) == \E u \in Users : new[u] # seen[u] /\ rows[u] = None

Write(new) ==
  /\ rows' = new
  /\ aged' = [u \in Users |->
                IF new[u] # None /\ (rows[u] = None \/ new[u].status # rows[u].status)
                THEN "recent" ELSE aged[u]]

\* Commits new for the rows read as seen, or nothing at all.
Commit(seen, new, touched) ==
  IF Stale(seen, new)
  THEN Write(rows)
  ELSE Write([u \in Users |-> IF new[u] = None \/ rows[u] = None THEN rows[u]
                              ELSE Flush(rows[u], seen[u], new[u], touched)])

Delete(us) == Write([u \in Users |-> IF u \in us THEN None ELSE rows[u]])

-----------------------------------------------------------------------------
(* crud: what an operation makes of a row *)

WithStatus(r, m) == IF m.status = None THEN r ELSE [r EXCEPT !.status = m.status]

\* Variant: the new limit is stored and the status left alone.
WithLimitOnly(r, m) ==
  IF m.limit = None THEN r ELSE [r EXCEPT !.limit = IF m.limit = 0 THEN None ELSE m.limit]

WithLimit(r, m) ==
  LET limit == IF m.limit = 0 THEN None ELSE m.limit
      fits  == limit = None \/ r.used < limit
      given == IF r.status = "on_hold" THEN "on_hold" ELSE "active"
  IN  IF m.limit = None THEN r
      ELSE [r EXCEPT !.limit = limit,
                     !.status = IF @ \in {"expired", "disabled"} THEN @
                                ELSE IF fits THEN given ELSE "limited"]

WithExpire(r, m) ==
  LET expire == IF m.expire = "unlimited" THEN None ELSE m.expire
      given  == IF expire = "past" THEN "expired" ELSE "active"
  IN  IF m.expire = None THEN r
      ELSE [r EXCEPT !.expire = expire,
                     !.status = IF @ \in {"active", "expired"} THEN given ELSE @]

WithHold(r, m) ==
  [r EXCEPT !.hold = IF m.hold = None THEN @ ELSE m.hold,
            !.timeout = IF m.timeout = None THEN @ ELSE m.timeout]
WithPlan(r, m) == IF m.replan THEN [r EXCEPT !.plan = m.plan] ELSE r

UpdateUser(r, m) == WithPlan(WithHold(WithExpire(WithLimit(WithStatus(r, m), m), m), m), m)

\* `status not in (UserStatus.expired or UserStatus.disabled)` compares with
\* "expired" alone.
ResetDataUsage(r) ==
  [r EXCEPT !.used = 0, !.plan = None,
            !.status = IF @ = "expired" THEN @ ELSE "active"]

ResetInBulk(r) ==
  [r EXCEPT !.used = 0, !.plan = None,
            !.status = IF @ \in {"on_hold", "expired", "disabled"} THEN @ ELSE "active"]

\* None - int is a TypeError.
PlanRaises(r) == ~r.plan.rem /\ r.limit = None

ResetByNext(r) ==
  [r EXCEPT !.status = "active",
            !.limit = r.plan.limit + (IF r.plan.rem THEN 0 ELSE r.limit - r.used),
            !.expire = r.plan.expire, !.used = 0, !.plan = None]

\* Variant: the timer starts, the user stays on hold.
StartExpireOnHold(r) ==
  [r EXCEPT !.changed = "recent", !.expire = "future", !.hold = None, !.timeout = None]

StartExpire(r) ==
  [r EXCEPT !.status = "active", !.changed = "recent",
            !.expire = "future", !.hold = None, !.timeout = None]

-----------------------------------------------------------------------------
(* Requests and the small jobs *)

\* The read of a transaction: op on the users us, with the request body m.
Begin(s, op, us, m) ==
  /\ op \in Ops /\ nops < MaxOps /\ txn[s] = None /\ MayOpen
  /\ txn' = [txn EXCEPT ![s] = Txn(op, us, m)]
  /\ nops' = nops + 1 /\ reply' = None
  /\ UNCHANGED <<rows, created, review, aged>>

\* The write of an open transaction of kind op, and its answer.
End(s, op, code) ==
  /\ txn[s] # None /\ txn[s].op = op
  /\ txn' = [txn EXCEPT ![s] = None]
  /\ reply' = code
  /\ UNCHANGED <<created, review, nops>>

\* A write that goes through, or fails with StaleDataError.
Save(s, op, new, touched) ==
  /\ End(s, op, IF Stale(txn[s].seen, new) THEN 500 ELSE 200)
  /\ Commit(txn[s].seen, new, touched)

\* Variant: the id of a deleted user may be given out again.
CreateUserReusingId(u, r) ==
  /\ "create" \in Ops /\ nops < MaxOps /\ MayOpen /\ u \notin Existing
  /\ Write([rows EXCEPT ![u] = r])
  /\ nops' = nops + 1 /\ reply' = 200
  /\ UNCHANGED <<created, txn, review>>

\* POST /api/user inserts a row; nothing is read that matters.
CreateUser(u, r) ==
  /\ "create" \in Ops /\ nops < MaxOps /\ MayOpen /\ u \notin created
  /\ created' = created \cup {u}
  /\ Write([rows EXCEPT ![u] = r])
  /\ nops' = nops + 1 /\ reply' = 200
  /\ UNCHANGED <<txn, review>>

\* PUT /api/user/{username}
ModifyRead(s, u, m) == u \in Existing /\ Begin(s, "modify", {u}, m)
ModifyWrite(s) ==
  LET seen == txn[s].seen
      m    == txn[s].m
  IN  Save(s, "modify", [u \in Users |-> IF seen[u] = None THEN None ELSE UpdateUser(seen[u], m)],
           {"edit_at"} \cup (IF m.expire = None THEN {} ELSE {"expire"}))

\* DELETE /api/user/{username}, DELETE /api/users/expired and the auto-delete
\* job.  Deleting a row that is gone only draws a warning.
DeleteRead(s, u) == u \in Existing /\ Begin(s, "delete", {u}, None)
DeleteExpiredRead(s) ==
  LET us == {u \in Existing : rows[u].status \in {"expired", "limited"} /\ rows[u].expire = "past"}
  IN  us # {} /\ Begin(s, "delete_expired", us, None)
AutodeleteRead(s) ==
  LET us == {u \in Existing : /\ rows[u].status \in {"expired"} \cup (IF IncludeLimited THEN {"limited"} ELSE {})
                              /\ rows[u].changed = "old"}
  IN  us # {} /\ Begin(s, "autodelete", us, None)
DeleteWrite(s) ==
  \E op \in {"delete", "delete_expired", "autodelete"} :
    End(s, op, 200) /\ Delete(txn[s].us)

\* POST /api/user/{username}/reset
ResetRead(s, u) == u \in Existing /\ Begin(s, "reset", {u}, None)
\* The reset job takes active and limited users whose period is over.
JobResetRead(s, u) ==
  u \in Existing /\ rows[u].status \in {"active", "limited"} /\ Begin(s, "job_reset", {u}, None)
ResetWrite(s) ==
  LET seen == txn[s].seen
  IN  \E op \in {"reset", "job_reset"} :
        Save(s, op, [u \in Users |-> IF seen[u] = None THEN None ELSE ResetDataUsage(seen[u])], {})

\* POST /api/users/reset
ResetAllRead(s) == Begin(s, "reset_all", Existing, None)
ResetAllWrite(s) ==
  LET seen == txn[s].seen
  IN  Save(s, "reset_all", [u \in Users |-> IF seen[u] = None THEN None ELSE ResetInBulk(seen[u])], {})

\* POST /api/user/{username}/active-next.  The handler looks for the plan after
\* reset_user_by_next has used it up: it answers 404 in either case.
ActiveNextRead(s, u) == u \in Existing /\ Begin(s, "active_next", {u}, None)
ActiveNextWrite(s) ==
  LET seen   == txn[s].seen
      new    == [u \in Users |-> IF seen[u] = None \/ seen[u].plan = None
                                 THEN seen[u] ELSE ResetByNext(seen[u])]
      raises == \E u \in Users : seen[u] # None /\ seen[u].plan # None /\ PlanRaises(seen[u])
  IN  /\ End(s, "active_next", IF raises \/ Stale(seen, new) THEN 500 ELSE 404)
      /\ IF raises THEN Write(rows) ELSE Commit(seen, new, {})

\* POST /api/admin/{username}/users/disable and .../activate: one UPDATE each
\* (activate: two, in one transaction) that read nothing beforehand.
InBulk(op, F(_)) ==
  /\ op \in Ops /\ nops < MaxOps /\ MayOpen
  /\ Write([u \in Users |-> IF rows[u] = None THEN None ELSE F(rows[u])])
  /\ nops' = nops + 1 /\ reply' = 200
  /\ UNCHANGED <<created, txn, review>>

DisabledRow(r) ==
  IF r.status \in {"active", "on_hold"} THEN [r EXCEPT !.status = "disabled", !.changed = "recent"] ELSE r
DisableAll == InBulk("disable_all", DisabledRow)

ActivatedRow(r) ==
  IF r.status # "disabled" THEN r
  ELSE [r EXCEPT !.changed = "recent",
                 !.status = IF r.expire = None /\ r.hold # None /\ r.online = "never" THEN "on_hold" ELSE "active"]
ActivateAll == InBulk("activate_all", ActivatedRow)

-----------------------------------------------------------------------------
(* The review job *)

IsLimited(r) == r.limit # None /\ r.limit # 0 /\ r.used >= r.limit
IsExpired(r) == r.expire = "past"

PlanFires(r) ==
  /\ r.plan # None
  /\ IsLimited(r) \/ IsExpired(r)
  /\ r.plan.either \/ (IsLimited(r) /\ IsExpired(r))

\* Variant: the expire of a user with a data limit is not looked at.
VerdictOfLimit(r) ==
  IF PlanFires(r) THEN ResetByNext(r)
  ELSE IF IsLimited(r) THEN [r EXCEPT !.status = "limited", !.changed = "recent"]
  ELSE r

Verdict(r) ==
  IF PlanFires(r) THEN ResetByNext(r)
  ELSE IF IsLimited(r) THEN [r EXCEPT !.status = "limited", !.changed = "recent"]
  ELSE IF IsExpired(r) THEN [r EXCEPT !.status = "expired", !.changed = "recent"]
  ELSE r

ReviewReads(from, to, status) ==
  /\ review.phase = from
  /\ review' = [phase |-> to,
                seen  |-> [u \in Users |-> IF u \in Existing /\ rows[u].status = status THEN rows[u] ELSE None]]
  /\ UNCHANGED <<rows, created, txn, reply, aged, nops>>

ReviewActiveRead == MayOpen /\ ReviewReads("idle", "active", "active")

\* An exception, of reset_user_by_next or of the commit, ends the job: nothing
\* of what it had decided is written, for any user.
ReviewActiveCommit ==
  LET seen   == review.seen
      new    == [u \in Users |-> IF seen[u] = None THEN None ELSE Verdict(seen[u])]
      raises == \E u \in Users : seen[u] # None /\ PlanFires(seen[u]) /\ PlanRaises(seen[u])
  IN  /\ review.phase = "active"
      /\ IF raises \/ Stale(seen, new)
         THEN Write(rows) /\ review' = [phase |-> "idle", seen |-> NothingSeen]
         ELSE Commit(seen, new, {}) /\ review' = [phase |-> "removed", seen |-> NothingSeen]
      /\ UNCHANGED <<created, txn, reply, nops>>

\* The users just limited or expired have been taken off the cores; the users
\* on hold are read next.
ReviewHoldRead == ReviewReads("removed", "hold", "on_hold")

IsWoken(r) == r.online = "since" \/ r.timeout = "past"

\* start_user_expire adds the duration to now: None is a TypeError.
ReviewHoldCommit ==
  LET seen   == review.seen
      new    == [u \in Users |-> IF seen[u] # None /\ IsWoken(seen[u]) THEN StartExpire(seen[u]) ELSE seen[u]]
      raises == \E u \in Users : seen[u] # None /\ IsWoken(seen[u]) /\ seen[u].hold = None
  IN  /\ review.phase = "hold"
      /\ IF raises THEN Write(rows) ELSE Commit(seen, new, {})
      /\ review' = [phase |-> "idle", seen |-> NothingSeen]
      /\ UNCHANGED <<created, txn, reply, nops>>

-----------------------------------------------------------------------------
(* Traffic and time *)

\* record_user_usages: UPDATE users SET used_traffic = used_traffic + ...,
\* online_at = now.
RecordUsage(u) ==
  /\ u \in Existing /\ rows[u].used < MaxUsed
  /\ Write([rows EXCEPT ![u].used = @ + 1, ![u].online = "since"])
  /\ UNCHANGED <<created, txn, review, reply, nops>>

ExpireComes(u) ==
  /\ u \in Existing /\ rows[u].expire = "future"
  /\ Write([rows EXCEPT ![u].expire = "past"])
  /\ UNCHANGED <<created, txn, review, reply, nops>>

HoldTimesOut(u) ==
  /\ u \in Existing /\ rows[u].timeout = "future"
  /\ Write([rows EXCEPT ![u].timeout = "past"])
  /\ UNCHANGED <<created, txn, review, reply, nops>>

\* The auto-delete period, days, is longer than any transaction.
DaysPass ==
  /\ review.phase = "idle" /\ \A s \in Sessions : txn[s] = None
  /\ "autodelete" \in Ops /\ nops < MaxOps
  /\ rows' = [u \in Users |-> IF rows[u] = None THEN None ELSE [rows[u] EXCEPT !.changed = "old"]]
  /\ aged' = [u \in Users |-> "old"]
  /\ UNCHANGED <<created, txn, review, reply, nops>>

-----------------------------------------------------------------------------
Request(s) ==
  \/ \E u \in Users, m \in Modifications : ModifyRead(s, u, m)
  \/ \E u \in Users : DeleteRead(s, u)
  \/ \E u \in Users : ResetRead(s, u)
  \/ \E u \in Users : JobResetRead(s, u)
  \/ \E u \in Users : ActiveNextRead(s, u)
  \/ DeleteExpiredRead(s)
  \/ AutodeleteRead(s)
  \/ ResetAllRead(s)

Answer(s) ==
  ModifyWrite(s) \/ DeleteWrite(s) \/ ResetWrite(s) \/ ResetAllWrite(s) \/ ActiveNextWrite(s)

Review == ReviewActiveRead \/ ReviewActiveCommit \/ ReviewHoldRead \/ ReviewHoldCommit

Environment ==
  \/ \E u \in Users : RecordUsage(u) \/ ExpireComes(u) \/ HoldTimesOut(u)
  \/ DaysPass

Next ==
  \/ \E u \in Users, r \in Newcomers : CreateUser(u, r)
  \/ DisableAll
  \/ ActivateAll
  \/ \E s \in Sessions : Request(s) \/ Answer(s)
  \/ Review
  \/ Environment

Spec == Init /\ [][Next]_vars

\* An open transaction ends, and the scheduler runs the review job again and
\* again (an interval job with coalesce and max_instances = 1).
FairSpec ==
  Spec /\ WF_vars(Review) /\ \A s \in Sessions : WF_vars(Answer(s))

-----------------------------------------------------------------------------
(* Properties *)

\* The type invariant.
TypeOK ==
  /\ rows \in [Users -> Row \cup {None}]
  /\ created \subseteq Users /\ Existing \subseteq created
  /\ \A s \in Sessions : txn[s] # None =>
       txn[s].op \in Ops /\ txn[s].us \subseteq Users /\ txn[s].seen \in [Users -> Row \cup {None}]
  /\ review.phase \in {"idle", "active", "removed", "hold"}
  /\ review.seen \in [Users -> Row \cup {None}]
  /\ reply \in {None, 200, 404, 500}
  /\ aged \in [Users -> Ages] /\ nops \in 0..MaxOps

\* A user on hold has the duration that start_user_expire adds to now when the
\* review job wakes it; without one the job dies at this user on every run.
OnHoldHasDuration ==
  \A u \in Existing : rows[u].status = "on_hold" => rows[u].hold # None

\* A limited user has used up its limit and an expired one is past its expire:
\* the review job looks at active users only, so nobody else would correct it.
StatusMatchesData ==
  \A u \in Existing :
    /\ rows[u].status = "limited" => IsLimited(rows[u])
    /\ rows[u].status = "expired" => IsExpired(rows[u])

Overdue(u) == u \in Existing /\ rows[u].status = "active" /\ (IsLimited(rows[u]) \/ IsExpired(rows[u]))

\* An active user that is over its limit or past its expire does not stay so:
\* the review job limits it, expires it or starts its next plan.
OverdueIsSettled == \A u \in Users : Overdue(u) ~> ~Overdue(u)

\* A request answered 404 "User doesn't have next plan" has changed nothing.
NotFoundChangesNothing ==
  [][reply' = 404 /\ reply # 404 => rows' = rows]_vars

\* Resetting the usage of a disabled user leaves it disabled.
ResetKeepsDisabled ==
  [][\A s \in Sessions, u \in Users :
       ResetWrite(s) /\ u \in txn[s].us /\ rows[u] # None /\ rows'[u] # None
         => (rows[u].status = "disabled" => rows'[u].status = "disabled")]_vars

\* A plan that does not add the remaining traffic gives its own data_limit.
PlanGivesItsLimit ==
  [][\A u \in Users :
       /\ ReviewActiveCommit /\ rows[u] # None /\ rows'[u] # None
       /\ rows[u].plan # None /\ rows'[u].plan = None /\ ~rows[u].plan.rem
       => rows'[u].limit = rows[u].plan.limit]_vars

\* The auto-delete job deletes a user only when its status, expired or limited,
\* is as old as the auto-delete period.
AutodeleteWaits ==
  [][\A u \in Users :
       (rows[u] # None /\ rows'[u] = None /\ (\E s \in Sessions : txn[s] # None /\ txn[s].op = "autodelete" /\ txn'[s] = None))
         => aged[u] = "old"]_vars

=============================================================================
