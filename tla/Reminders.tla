----------------------------- MODULE Reminders -----------------------------
(***************************************************************************)
(* The reminders of one user: "80 % of the traffic is used", "3 days are   *)
(* left".  The review job sends each once and remembers it in a row of     *)
(* notification_reminders; update_user deletes the rows of thresholds that *)
(* an edit has moved out of reach; a row ends with the expiry the user had *)
(* when it was made.  Job and requests read the user first, and write      *)
(* later, without a lock.  Days are whole numbers.                         *)
(***************************************************************************)
EXTENDS Integers

CONSTANTS
    Percents,       \* NOTIFY_REACHED_USAGE_PERCENT
    DaysLeft,       \* NOTIFY_DAYS_LEFT
    NotifyDays,     \* NOTIFY_IF_DAYS_LEFT_REACHED
    NotifyUsage,    \* NOTIFY_IF_DATA_USAGE_PERCENT_REACHED
    DataLimits,     \* values of data_limit, 0 = unlimited
    Expiries,       \* values of expire, 0 = never
    Editors,        \* threads that serve requests about the user
    MaxUsed,        \* bound: traffic
    MaxDay,         \* bound: the last day
    MaxChanges      \* bound: requests

ASSUME ReminderAssumption ==
    /\ Percents \subseteq Int /\ DaysLeft \subseteq Int
    /\ DataLimits \subseteq Nat /\ Expiries \subseteq Nat
    /\ NotifyDays \in BOOLEAN /\ NotifyUsage \in BOOLEAN

VARIABLES
    person,     \* the row of the user: [status, used, limit, expire]
    today,
    reminders,  \* notification_reminders: [type, threshold, expires], 0 = never
    reviewing,  \* the job: pc and what it holds of the tables
    editing,    \* thread -> its request: field and value, and what it has read
    sent,       \* the last step's new reports
    due,        \* history: key -> "below", "new" (reached, not told) or "told"
    until,      \* history: key -> the expiry when it was told, 0 = never
    kept,       \* history: keys not told whose row may be of an earlier time
    lost,       \* history: keys told whose row a crossing request has deleted
    changes

reminderVars ==
    <<person, today, reminders, reviewing, editing, sent, due, until, kept, lost, changes>>

Keys == ({"data_usage"} \X Percents) \cup ({"expiration_date"} \X DaysLeft)
KeyOf(r) == <<r.type, r.threshold>>

Limited(u) == u.limit > 0 /\ u.used >= u.limit
Expired(u, t) == u.expire > 0 /\ u.expire <= t

\* calculate_usage_percent(...) >= percent, with the division multiplied out,
\* and calculate_expiration_days(...) <= days_left.
Reached(u, t, k) ==
    IF k[1] = "data_usage"
    THEN u.limit > 0 /\ u.used * 100 >= k[2] * u.limit
    ELSE u.expire > 0 /\ u.expire <= t + k[2]

NoReview == [pc |-> "idle"]
NoRequest == [field |-> "none"]

ReminderInit ==
    /\ person \in [status : {"active"}, used : {0}, limit : DataLimits, expire : Expiries]
    /\ today = 1 /\ reminders = {} /\ changes = 0
    /\ reviewing = NoReview /\ editing = [e \in Editors |-> NoRequest]
    /\ sent = {} /\ kept = {} /\ lost = {}
    /\ due = [k \in Keys |-> IF Reached(person, 1, k) THEN "new" ELSE "below"]
    /\ until = [k \in Keys |-> 0]

\* What a session writes of a row: the columns it has changed.
ColumnsWritten(read, new) ==
    [status |-> IF new.status = read.status THEN person.status ELSE new.status,
     used   |-> IF new.used = read.used THEN person.used ELSE new.used,
     limit  |-> IF new.limit = read.limit THEN person.limit ELSE new.limit,
     expire |-> IF new.expire = read.expire THEN person.expire ELSE new.expire]

\* The history after a step that made the reports `made`, for users who expire at
\* `expires`.  After a step that went astray the rows are not trusted: those of keys
\* not told may silence a report (kept), those it deleted may let one come twice (lost).
Watch(made, expires, astray) ==
    /\ sent' = made
    /\ due' = [k \in Keys |-> IF ~Reached(person', today', k) THEN "below"
                              ELSE IF k \in made THEN "told"
                              ELSE IF due[k] = "below" THEN "new" ELSE due[k]]
    /\ until' = [k \in Keys |-> IF k \in made THEN expires ELSE until[k]]
    /\ kept' = {k \in Keys : /\ due'[k] # "told" /\ (k \in kept \/ astray)
                             /\ \E r \in reminders' : KeyOf(r) = k}
    /\ lost' = {k \in Keys : /\ due'[k] = "told" /\ k \notin made
                             /\ \/ k \in lost
                                \/ astray /\ \E r \in reminders \ reminders' : KeyOf(r) = k}

(***************************************************************************)
(* The table.                                                              *)
(***************************************************************************)

Dead(r) == r.expires > 0 /\ r.expires < today

FoundAnyThreshold(k, rows) == {r \in rows : r.type = k[1]}

\* The rows get_notification_reminder looks at; it deletes one that has expired.
Found(k, rows) == {r \in rows : KeyOf(r) = k}

get_notification_reminder(k, rows) == \E r \in Found(k, rows) : ~Dead(r)

\* data_usage_percent_reached does nothing with the flag off;
\* expire_days_reached notifies in any case and then remembers nothing.
NotifyOf(k) == k[1] = "expiration_date" \/ NotifyUsage
RememberOf(k) == IF k[1] = "expiration_date" THEN NotifyDays ELSE NotifyUsage

\* delete_expired_reminders, every two hours.
delete_expired_reminders ==
    /\ \E r \in reminders : Dead(r)
    /\ reminders' = {r \in reminders : ~Dead(r)}
    /\ UNCHANGED <<person, today, reviewing, editing, changes>>
    /\ Watch({}, 0, FALSE)

(***************************************************************************)
(* The review job.  It reads all active users at once; the row of this one *)
(* is read again, when its turn comes, if a reminder of another user has   *)
(* been committed before.  What it finds in the tables is as of that read, *)
(* or as of now: that is the isolation of the database.                    *)
(***************************************************************************)

\* A read of the user; the expiry is compared with the start of the run.
Read(pc, day) ==
    [pc |-> pc, row |-> person', rows |-> reminders', day |-> day, crossed |-> FALSE]

get_users ==
    /\ reviewing.pc = "idle" /\ person.status = "active"
    /\ UNCHANGED <<person, today, reminders, editing, changes>>
    /\ reviewing' = Read("data_usage", today)
    /\ Watch({}, 0, FALSE)

ReadAgain ==
    /\ reviewing.pc = "data_usage"
    /\ UNCHANGED <<person, today, reminders, editing, changes>>
    /\ reviewing' = Read("data_usage", reviewing.day)
    /\ Watch({}, 0, FALSE)

\* The status of a user past the limit or the expiry, whatever it is by now.
update_user_status ==
    /\ reviewing.pc = "data_usage"
    /\ \/ Limited(reviewing.row)
       \/ Expired(reviewing.row, reviewing.day)
    /\ LET status == IF Limited(reviewing.row) THEN "limited" ELSE "expired"
       IN  person' = ColumnsWritten(reviewing.row, [reviewing.row EXCEPT !.status = status])
    /\ reviewing' = NoReview
    /\ UNCHANGED <<today, reminders, editing, changes>>
    /\ Watch({}, 0, FALSE)

\* Of every type only the sharpest threshold reached counts: the highest
\* percent, the fewest days.
Sharpest(u, type) ==
    {k \in Keys : /\ k[1] = type /\ Reached(u, today, k)
                  /\ \A o \in Keys : o[1] = type /\ Reached(u, today, o) =>
                        IF type = "data_usage" THEN o[2] <= k[2] ELSE o[2] >= k[2]}

After(type) == IF type = "data_usage" THEN "expiration_date" ELSE "idle"

\* One part of add_notification_reminders, up to the report: the row of the reminder
\* is made in a step of its own.  After a delete the session reads the user anew.
Remind(type) ==
    /\ reviewing.pc = type
    /\ type = "data_usage" => ~Limited(reviewing.row) /\ ~Expired(reviewing.row, reviewing.day)
    /\ UNCHANGED <<person, today, editing, changes>>
    /\ \E rows \in {reviewing.rows, reminders} :
         LET sharp == Sharpest(reviewing.row, type)
             gone  == UNION {{r \in Found(k, rows) : Dead(r)} : k \in sharp}
             made  == {k \in sharp : ~get_notification_reminder(k, rows) /\ NotifyOf(k)}
             seen  == IF gone = {} THEN reviewing
                      ELSE [reviewing EXCEPT !.row = person, !.rows = reminders']
         IN  /\ reminders' = reminders \ gone
             /\ reviewing' = IF \E k \in made : RememberOf(k)
                             THEN [pc |-> "create", key |-> CHOOSE k \in made : TRUE,
                                   expires |-> seen.row.expire,
                                   day |-> seen.day, crossed |-> seen.crossed]
                             ELSE IF After(type) = "idle" THEN NoReview
                             ELSE [seen EXCEPT !.pc = After(type)]
             /\ Watch(made, seen.row.expire, FALSE)

\* create_notification_reminder, called after notify; its commit has the user read anew.
create_notification_reminder ==
    /\ reviewing.pc = "create"
    /\ reminders' = reminders \cup {[type |-> reviewing.key[1], threshold |-> reviewing.key[2],
                                     expires |-> reviewing.expires]}
    /\ UNCHANGED <<person, today, editing, changes>>
    /\ reviewing' = IF After(reviewing.key[1]) = "idle" THEN NoReview
                    ELSE Read(After(reviewing.key[1]), reviewing.day)
    /\ Watch({}, 0, reviewing.crossed)

review ==
    \/ get_users \/ ReadAgain \/ update_user_status
    \/ Remind("data_usage") \/ Remind("expiration_date") \/ create_notification_reminder

(***************************************************************************)
(* Requests: they read the user, and write the columns they have changed.  *)
(***************************************************************************)

OutOfReachAll(u, type, rows) == {r \in rows : r.type = type}

\* The rows update_user removes for the user it has just changed.
OutOfReach(u, type, rows) ==
    {r \in rows : r.type = type /\ ~Reached(u, today, <<type, r.threshold>>)}

Values(field) ==
    CASE field = "limit"  -> DataLimits
      [] field = "expire" -> {x \in Expiries : x = 0 \/ x >= today}
      [] field = "status" -> {"active", "disabled"}
      [] field = "reset"  -> {0}

BeginEdit(e) ==
    /\ editing[e].field = "none"
    /\ changes < MaxChanges /\ changes' = changes + 1
    /\ \E field \in {"limit", "expire", "status", "reset"} : \E value \in Values(field) :
          editing' = [editing EXCEPT ![e] =
                        [field |-> field, value |-> value, row |-> person, rows |-> reminders]]
    /\ UNCHANGED <<person, today, reminders, reviewing>>
    /\ Watch({}, 0, FALSE)

\* update_user and reset_user_data_usage, on the row the request has read.
Judged(u, bad, status) == [u EXCEPT !.status = IF bad THEN status ELSE "active"]

\* Whether the new value is judged, which depends on the status.
Open(r) ==
    \/ r.field = "limit" /\ r.row.status \notin {"expired", "disabled"}
    \/ r.field = "expire" /\ r.row.status \in {"active", "expired"}

Edited(r) ==
    LET limited == [r.row EXCEPT !.limit = r.value]
        expires == [r.row EXCEPT !.expire = r.value]
    IN  CASE r.field = "limit" ->
               IF Open(r) THEN Judged(limited, Limited(limited), "limited") ELSE limited
          [] r.field = "expire" ->
               IF Open(r) THEN Judged(expires, Expired(expires, today), "expired") ELSE expires
          [] r.field = "status" -> [r.row EXCEPT !.status = r.value]
          [] r.field = "reset" ->
               [r.row EXCEPT !.used = 0, !.status = IF @ = "expired" THEN @ ELSE "active"]

\* The reminders it deletes, among those it finds.
Withdrawn(r, rows) ==
    LET u == Edited(r)
    IN  IF Open(r) /\ r.field = "limit" /\ ~Limited(u) THEN OutOfReach(u, "data_usage", rows)
        ELSE IF Open(r) /\ r.field = "expire" /\ ~Expired(u, today)
             THEN OutOfReach(u, "expiration_date", rows)
        ELSE {}

\* Whether the tables are no longer what the request has read.
Overtaken(r) == r.row # person \/ r.rows # reminders

\* Rows are not what they should be after a reset, which leaves the reminders alone,
\* a value that is not judged, and a request that another step has crossed.
CommitEdit(e) ==
    LET r == editing[e]
    IN  /\ r.field # "none"
        /\ editing' = [editing EXCEPT ![e] = NoRequest]
        /\ person' = ColumnsWritten(r.row, Edited(r))
        /\ \E rows \in {r.rows, reminders} : reminders' = reminders \ Withdrawn(r, rows)
        /\ reviewing' = IF reviewing.pc = "idle" THEN reviewing
                        ELSE [reviewing EXCEPT !.crossed = TRUE]
        /\ UNCHANGED <<today, changes>>
        /\ Watch({}, 0, r.field # "status" /\ (~Open(r) \/ Overtaken(r)))

Use ==
    /\ person.status = "active" /\ person.used < MaxUsed
    /\ person' = [person EXCEPT !.used = @ + 1]
    /\ UNCHANGED <<today, reminders, reviewing, editing, changes>>
    /\ Watch({}, 0, FALSE)

NextDay ==
    /\ today < MaxDay /\ today' = today + 1
    /\ UNCHANGED <<person, reminders, reviewing, editing, changes>>
    /\ Watch({}, 0, FALSE)

ReminderNext ==
    \/ review \/ delete_expired_reminders \/ Use \/ NextDay
    \/ \E e \in Editors : BeginEdit(e) \/ CommitEdit(e)

ReminderSpec == ReminderInit /\ [][ReminderNext]_reminderVars

(***************************************************************************)
(* Properties.                                                             *)
(***************************************************************************)

\* While a threshold stays reached it is reported once; a second time only
\* when the expiry the row was made with has passed, or a request that another
\* step has crossed deleted the row (Remind, CommitEdit, delete_expired_reminders).
OnceStep ==
    \A k \in sent' :
       due[k] = "told" => k \in lost \/ (until[k] > 0 /\ until[k] < today)

\* What the job reports is so, unless a request committed between the job's read
\* and its report.
ReportStep == \A k \in sent' : Reached(person, today, k) \/ reviewing.crossed

\* After the job has looked, a threshold that has been reached since it was last
\* out of reach has been reported, unless a row is left of the time before: of a
\* reset, of a user who is not active, of a job or a request that was crossed.
ReviewStep ==
    \A type \in {"data_usage", "expiration_date"} :
      Remind(type) /\ ~reviewing.crossed =>
         \A k \in Sharpest(reviewing.row, type) : NotifyOf(k) => due'[k] = "told" \/ k \in kept

\* Reminders are neither repeated nor false nor forgotten: while a threshold stays
\* reached it is reported once, what is reported is reached, and the job reports
\* every threshold reached anew; what crossing steps do to it is said above.
RemindersSound == [][OnceStep /\ ReportStep /\ ReviewStep]_reminderVars

\* The same without the excuses.
RemindedOnce ==
    [][\A k \in sent' : due[k] = "told" => until[k] > 0 /\ until[k] < today]_reminderVars
ReportsAreTrue == [][\A k \in sent' : Reached(person, today, k)]_reminderVars
ReviewAlwaysReminds ==
    [][\A type \in {"data_usage", "expiration_date"} :
         Remind(type) => \A k \in Sharpest(reviewing.row, type) :
            NotifyOf(k) /\ Reached(person, today, k) => due'[k] = "told"]_reminderVars
=============================================================================
