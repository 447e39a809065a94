---------------------------- MODULE TelegramAdmin ----------------------------
(***************************************************************************)
(* The admin's dialogue with the Telegram bot                              *)
(* (app/telegram/handlers/admin.py).  A dialogue lives in three places     *)
(* that nothing keeps together: mem_store, one set of keys per chat;       *)
(* telebot's pending step handlers of the chat; and the keyboards that are *)
(* still on the screen, each of which can be pressed at any time.  One     *)
(* chat is modelled.  Delivery to the cores is immediate here (UserAccess  *)
(* is about its failures).  A keyboard is what its buttons need: a kind, a *)
(* user name, an argument.  Texts are classes: more than 500 characters,   *)
(* "0", "2", "-2", "3d", or a user name.                                   *)
(***************************************************************************)
EXTENDS Integers, FiniteSets, Sequences, FiniteSetsExt

CONSTANTS
    None,       \* no value
    Order,      \* the user names, in the order get_users returns them
    Tags,       \* inbound tags
    ProtocolOf, \* tag -> protocol
    Templates,  \* template -> [limit, timed]
    FirstUsers, \* the tables of users that a dialogue may begin with
    MaxMenus,   \* bound: keyboards on the screen
    MaxLimit,   \* bound: data limit, in GB
    MaxTurns,   \* bound: presses and texts of an admin who is not hasty
    MaxHastyTurns, \* bound: the same for one who is
    Deletable   \* bound: templates that may be deleted meanwhile

VARIABLES
    users,    \* name -> row, or None
    cores,    \* name -> what the cores serve: [key, tags], or None
    templates,\* templates that exist
    mem,      \* mem_store of the chat
    steps,    \* step handlers registered for the chat
    running,  \* step handlers that telebot's workers are about to run
    menus,    \* keyboards on the screen
    trash,    \* messages_to_delete of the chat
    hasty,    \* does the admin press older keyboards, and without waiting for answers?
    last,     \* history: the operation that ran and the name its keyboard shows
    turns

data == <<users, cores>>
talk == <<mem, steps, running>>
vars == <<users, cores, templates, mem, steps, running, menus, trash, hasty, last, turns>>

Names == {Order[i] : i \in 1..Len(Order)}
Texts == {"long", "zero", "num", "minus", "span"} \cup Names
Never == [kind |-> "never", n |-> 0]
Past == [kind |-> "past", n |-> 0]
Future == [kind |-> "future", n |-> 0]
Duration(n) == [kind |-> "int", n |-> n]
IsInt(e) == e.kind = "int"
DaySeconds == 10
Protocols == {ProtocolOf[t] : t \in Tags}
TagsOf(p) == {t \in Tags : ProtocolOf[t] = p}

(***************************************************************************)
(* The database and the cores, as far as the bot uses them.                *)
(***************************************************************************)

\* crud.update_user: data_limit
WithLimit(r, l) ==
    [r EXCEPT !.limit = l,
              !.st = IF r.st \in {"expired", "disabled"} THEN r.st
                     ELSE IF l # 0 /\ r.used >= l THEN "limited"
                     ELSE IF r.st = "on_hold" THEN r.st ELSE "active"]
\* crud.update_user: expire
WithExpire(r, e) ==
    [r EXCEPT !.expire = e,
              !.st = IF r.st \notin {"active", "expired"} THEN r.st
                     ELSE IF e = Past THEN "expired" ELSE "active"]
\* crud.update_user: on_hold_expire_duration; UserModify turns 0 into "not given"
WithDuration(r, n) == IF n = 0 THEN r ELSE [r EXCEPT !.dur = n]
\* crud.update_user: proxies and inbounds, which it skips when they are empty
WithTags(r, ts) == IF ts = {} THEN r ELSE [r EXCEPT !.tags = ts]
\* crud.reset_user_data_usage
ResetUsage(r) == [r EXCEPT !.used = 0, !.st = IF r.st = "expired" THEN r.st ELSE "active"]

Served(r) == [key |-> r.key, tags |-> r.tags]
\* xray.operations.add_user: the core answers EmailExistsError to a user it has
Added(c, r) == IF c = None THEN Served(r) ELSE c

(***************************************************************************)
(* The screen.                                                             *)
(***************************************************************************)

\* name is in the message's text, to in the data of its buttons
Menu(kind, name, arg) == [kind |-> kind, name |-> name, to |-> name, arg |-> arg]
Main == Menu("main", None, None)
UserMenu(n, r) == Menu("user", n, IF r.st = "active" THEN "suspend" ELSE "activate")
EditMenu(n, to, e) == [kind |-> "edit", name |-> n, to |-> to, arg |-> IF IsInt(e) THEN "hold" ELSE "date"]
Confirm(action, n) == Menu("confirm", n, action)
Cancel(n) == Menu("cancel", n, None)
StatusMenu == Menu("status", None, None)
CreateMenu(kind) == Menu(kind, None, None)
AllMenu == Menu("all", None, None)
InboundsMenu(op) == Menu("inbounds", None, op)
TemplatesMenu(n) == Menu("templates", n, None)
RandomMenu(t) == Menu("random", None, t)
UsersMenu == Menu("users", None, None)
LinksMenu(n) == Menu("links", n, None)
ChargeMenu(n, t) == Menu("charge", n, t)

\* The messages in gone are deleted, the ones in new appear
Display(gone, new) ==
    /\ menus' = IF hasty \/ new = {} THEN (menus \ gone) \cup new ELSE new
    /\ Cardinality(menus') <= MaxMenus

\* A handler that leaves the screen and the list of messages to delete alone
Quiet == UNCHANGED <<menus, trash>>

\* schedule_delete_message for the messages ms
Scheduled(ms) == trash \cup ms

\* cleanup_messages after the handler has scheduled ms: the screen and the list
CleanUp(ms, new) == Display(Scheduled(ms), new) /\ trash' = {}

(***************************************************************************)
(* telebot (external): a step handler registered for a chat is added to    *)
(* the ones that wait; the next text is given to all of them, each in a    *)
(* worker thread; clear_step_handler_by_chat_id forgets them.              *)
(***************************************************************************)

Step(h, n, limit, status) == [h |-> h, name |-> n, limit |-> limit, status |-> status]
Plain(h) == Step(h, None, 0, None)
Ask(s) == steps' = steps \cup {s}
AskOnly(s) == steps' = {s}


NamedOps == {"delete", "suspend", "activate", "reset_usage", "revoke_sub", "charge"}
Turn == turns < (IF hasty THEN MaxHastyTurns ELSE MaxTurns) /\ (hasty \/ running = {}) /\ turns' = turns + 1
Press(m, kind) == Turn /\ m \in menus /\ m.kind = kind /\ UNCHANGED <<running, templates, hasty>>
\* The history keeps the operations that the properties speak of
Did(op, n) ==
    last' = IF op \in NamedOps \cup {"edit", "add_data"} THEN [op |-> op, shown |-> n]
            ELSE [op |-> "other", shown |-> None]
Reads == UNCHANGED <<users, cores>>

Receive(t) ==
    /\ Turn /\ steps # {} /\ running = {}
    /\ running' = {[s |-> s, t |-> t] : s \in steps} /\ steps' = {}
    /\ Did("text", None) /\ Reads /\ Quiet /\ UNCHANGED <<mem, templates, hasty>>

\* The handler of step h takes its text
Takes(r, h) ==
    /\ r \in running /\ r.s.h = h /\ running' = running \ {r}
    /\ UNCHANGED <<templates, hasty, turns>>

\* The text is refused and the same step asked for again
Again(r) == Ask(r.s) /\ Reads /\ Quiet /\ UNCHANGED mem /\ Did("again", None)
\* An exception leaves the handler: telebot logs it, nothing is shown
Raised == Did("raised", None) /\ Reads /\ Quiet

(***************************************************************************)
(* Commands.  A pending step takes the text before any command does.       *)
(***************************************************************************)

help_command ==
    /\ Turn /\ steps = {} /\ CleanUp({}, {Main}) /\ Did("help", None)
    /\ Reads /\ UNCHANGED <<mem, steps, running, templates, hasty>>

search_user(n) ==
    /\ Turn /\ steps = {} /\ users[n] # None
    /\ Display({}, {UserMenu(n, users[n])}) /\ Did("search", n)
    /\ Reads /\ UNCHANGED <<mem, steps, running, trash, templates, hasty>>

(***************************************************************************)
(* Buttons that only move between keyboards.                               *)
(***************************************************************************)

\* One keyboard is edited into another and nothing else happens
Goes(m, new) == Display({m}, {new}) /\ Did("move", m.name) /\ Reads /\ UNCHANGED <<mem, steps, trash>>

system_command(m) == Press(m, "main") /\ Goes(m, Main)
restart_command(m) == Press(m, "main") /\ Goes(m, Confirm("restart", None))
edit_all_command(m) == Press(m, "main") /\ Goes(m, AllMenu)
users_command(m) ==
    \/ Press(m, "main") /\ Goes(m, UsersMenu)
    \/ Press(m, "user") /\ Goes(m, UsersMenu)
delete_user_command(m) == Press(m, "user") /\ Goes(m, Confirm("delete", m.to))
suspend_user_command(m) == Press(m, "user") /\ m.arg = "suspend" /\ Goes(m, Confirm("suspend", m.to))
activate_user_command(m) == Press(m, "user") /\ m.arg = "activate" /\ Goes(m, Confirm("activate", m.to))
reset_usage_user_command(m) == Press(m, "user") /\ Goes(m, Confirm("reset_usage", m.to))
revoke_sub_command(m) == Press(m, "user") /\ Goes(m, Confirm("revoke_sub", m.to))
delete_expired_command(m) == Press(m, "all") /\ Goes(m, Confirm("delete_expired", None))
delete_limited_command(m) == Press(m, "all") /\ Goes(m, Confirm("delete_limited", None))
inbound_command(m, op) == Press(m, "all") /\ Goes(m, InboundsMenu(op))
confirm_inbound_command(m, t) == Press(m, "inbounds") /\ Goes(m, Confirm(m.arg, t))
links_command(m) == Press(m, "user") /\ users[m.to] # None /\ Goes(m, LinksMenu(m.to))
genqr_command(m) == Press(m, "links") /\ users[m.to] # None /\ Goes(m, m)
charge_command(m) ==
    Press(m, "user") /\ templates # {} /\ users[m.to] # None /\ Goes(m, TemplatesMenu(m.to))

\* Every keyboard whose last button is "cancel"
cancel_command(m) ==
    /\ \E k \in {"all", "inbounds", "templates", "random", "status", "confirm", "create", "create_t", "cancel", "users"} :
           Press(m, k)
    /\ m.kind \in {"templates", "cancel"} => m.to = None
    /\ steps' = {} /\ Display({m}, {Main}) /\ Did("cancel", None) /\ Reads /\ UNCHANGED <<mem, trash>>

\* The buttons with the data user:<name>
user_command(m, n) ==
    /\ \E k \in {"users", "edit", "templates", "links", "cancel", "charge"} : Press(m, k)
    /\ n = m.to \/ m.kind = "users"
    /\ n \in Names
    /\ steps' = {}
    /\ IF users[n] = None THEN Quiet ELSE Display({m}, {UserMenu(n, users[n])}) /\ UNCHANGED trash
    /\ Did("user", n) /\ Reads /\ UNCHANGED mem

(***************************************************************************)
(* Editing one user.                                                       *)
(***************************************************************************)

\* get_user's data_limit: None (here -1) for an unlimited user
StoredLimit(r) == IF r.limit = 0 THEN -1 ELSE r.limit
StoredExpiry(r) == IF r.st = "on_hold" THEN Duration(r.dur) ELSE r.expire

EditStoreNoName(n, r) ==
    [mem EXCEPT !.data_limit = StoredLimit(r), !.expire_date = StoredExpiry(r), !.protocols = r.tags]
EditStore(n, r) ==
    [mem EXCEPT !.username = n, !.data_limit = StoredLimit(r), !.expire_date = StoredExpiry(r), !.protocols = r.tags]

edit_command(m) ==
    /\ Press(m, "user") /\ steps' = {}
    /\ IF users[m.to] = None THEN Quiet /\ UNCHANGED mem
       ELSE LET r == users[m.to] IN
            /\ mem' = EditStore(m.to, r)
            /\ Display({m}, {EditMenu(m.to, m.to, StoredExpiry(r))}) /\ UNCHANGED trash
    /\ Did("open_edit", m.to) /\ Reads

edit_user_command(m, h) ==
    /\ Press(m, "edit")
    /\ h = "edit_timeout" => m.arg = "hold"
    /\ AskOnly(Step(h, m.to, 0, None))
    /\ Display(Scheduled({m}), {Cancel(m.to)}) /\ trash' = {Cancel(m.to)}
    /\ Did("ask", m.to) /\ Reads /\ UNCHANGED mem

edit_user_expire_on_hold_timeout_step(r) ==
    /\ Takes(r, "edit_timeout")
    /\ IF r.t \notin {"span", "zero"} THEN Again(r)
       ELSE /\ CleanUp({}, {EditMenu(r.s.name, r.s.name, mem.expire_date)})
            /\ Did("asked", r.s.name) /\ Reads /\ UNCHANGED <<mem, steps>>

\* The keyboard is drawn with expire_date.strftime, which an int does not have
edit_user_data_limit_step(r) ==
    /\ Takes(r, "edit_data")
    /\ IF r.t \notin {"zero", "num"} THEN Again(r)
       ELSE /\ mem' = [mem EXCEPT !.data_limit = IF r.t = "zero" THEN 0 ELSE 2]
            /\ UNCHANGED steps
            /\ IF IsInt(mem.expire_date) THEN Raised
               ELSE /\ CleanUp({}, {EditMenu(r.s.name, r.s.name, mem.expire_date)})
                    /\ Did("asked", r.s.name) /\ Reads

\* "3d" for an expire_date that was so far e
SpanForInDays(e) == IF IsInt(e) THEN Duration(3) ELSE Future
SpanFor(e) == IF IsInt(e) THEN Duration(3 * DaySeconds) ELSE Future

edit_user_expire_step(r) ==
    LET e == IF r.t = "zero" THEN Never ELSE SpanFor(mem.expire_date)
    IN /\ Takes(r, "edit_expire")
       /\ IF r.t \notin {"span", "zero"} THEN Again(r)
          ELSE /\ mem' = [mem EXCEPT !.expire_date = e]
               /\ CleanUp({}, {EditMenu(r.s.name, r.s.name, e)})
               /\ Did("asked", r.s.name) /\ Reads /\ UNCHANGED steps

edit_note_command(m) ==
    /\ Press(m, "user") /\ Did("open_note", m.to) /\ Reads
    /\ IF users[m.to] = None THEN Quiet /\ UNCHANGED <<mem, steps>>
       ELSE /\ mem' = [mem EXCEPT !.username = m.to]
            /\ Ask(Step("edit_note", m.to, 0, None))
            /\ Display(Scheduled({m}), {Cancel(m.to)}) /\ trash' = {Cancel(m.to)}

\* The name is read from mem_store when the text arrives
edit_note_step(r) ==
    /\ Takes(r, "edit_note")
    /\ IF r.t = "long" THEN Again(r)
       ELSE /\ UNCHANGED <<mem, steps>>
            /\ IF mem.username \notin {n \in Names : users[n] # None} THEN Raised
               ELSE /\ users' = [users EXCEPT ![mem.username].note = TRUE]
                    /\ Display({}, {UserMenu(mem.username, users[mem.username])})
                    /\ Did("note", r.s.name) /\ UNCHANGED <<cores, trash>>

\* select_protocols drawn again for "edit": the buttons name mem_store's user
Redraw(m) ==
    IF m.kind = "create" THEN Display({m}, {m}) /\ Did("toggle", m.name) /\ UNCHANGED <<trash, users, cores>>
    ELSE IF IsInt(mem.expire_date) THEN Raised
    ELSE Display({m}, {EditMenu(m.name, mem.username, mem.expire_date)})
         /\ Did("toggle", m.name) /\ UNCHANGED <<trash, users, cores>>

\* The keyboard has buttons for the tags of a protocol that was selected when
\* it was drawn; without the protocol in mem_store the handler raises KeyError
select_inbounds(m, t) ==
    /\ \E k \in {"edit", "create"} : Press(m, k)
    /\ UNCHANGED steps
    /\ IF mem.username = None \/ TagsOf(ProtocolOf[t]) \cap mem.protocols = {} THEN Raised /\ UNCHANGED mem
       ELSE /\ mem' = [mem EXCEPT !.protocols = IF t \in @ THEN @ \ {t} ELSE @ \cup {t}]
            /\ Redraw(m)

select_protocols(m, p) ==
    /\ \E k \in {"edit", "create"} : Press(m, k)
    /\ UNCHANGED steps
    /\ IF mem.username = None THEN Raised /\ UNCHANGED mem
       ELSE /\ mem' = [mem EXCEPT !.protocols = IF TagsOf(p) \cap @ # {} THEN @ \ TagsOf(p) ELSE @ \cup TagsOf(p)]
            /\ Redraw(m)

EditedRow(r) ==
    LET r1 == WithTags(r, mem.protocols)
        r2 == IF mem.data_limit = -1 THEN r1 ELSE WithLimit(r1, mem.data_limit)
    IN IF IsInt(mem.expire_date) THEN WithDuration(r2, mem.expire_date.n) ELSE WithExpire(r2, mem.expire_date)

\* The cores are told only of a user who is active afterwards
confirm_edit_user(m) ==
    LET n == mem.username IN
    /\ Press(m, "edit") /\ UNCHANGED <<mem, steps>> /\ Did("edit", m.name)
    /\ IF n = None THEN Display({m}, {Main}) /\ Reads /\ UNCHANGED trash
       ELSE IF mem.protocols = {} \/ users[n] = None THEN Quiet /\ Reads
       ELSE LET r == EditedRow(users[n]) IN
            /\ users' = [users EXCEPT ![n] = r]
            /\ cores' = IF r.st = "active" THEN [cores EXCEPT ![n] = Served(r)] ELSE cores
            /\ Display({m}, {UserMenu(n, r)}) /\ UNCHANGED trash

(***************************************************************************)
(* Creating users.                                                         *)
(***************************************************************************)

AskFor(h, n) == Step(h, n, 0, None)

add_user_command(m, bulk) ==
    LET new == RandomMenu(None) IN
    /\ Press(m, "main") /\ Reads /\ Did("open_add", None)
    /\ mem' = [mem EXCEPT !.is_bulk = bulk, !.from_template = FALSE]
    /\ Display({m}, {new}) /\ trash' = Scheduled({new}) /\ Ask(AskFor("username", None))

add_user_from_template_command(m, bulk) ==
    /\ Press(m, "main") /\ templates # {} /\ Reads /\ Did("open_add", None)
    /\ mem' = [mem EXCEPT !.is_bulk = bulk, !.from_template = bulk]
    /\ Display({m}, {TemplatesMenu(None)}) /\ UNCHANGED <<steps, trash>>

add_user_from_template(m, t) ==
    LET new == RandomMenu(t) IN
    /\ Press(m, "templates") /\ m.to = None /\ Reads /\ Did("template", None)
    /\ IF t \notin templates THEN Quiet /\ UNCHANGED <<mem, steps>>
       ELSE /\ mem' = [mem EXCEPT !.template_id = t]
            /\ Display({m}, {new}) /\ trash' = Scheduled({new})
            /\ Ask(AskFor("template_username", None))

\* Both ways to name a user of a template end here: what the template says is
\* stored, then the number, the status or the keyboard of protocols is asked for
UseTemplate(n, t, store, gone, left, wait) ==
    LET e == IF Templates[t].timed THEN Future ELSE Never
        done == ~mem.is_bulk /\ e = Never
        new == IF mem.is_bulk THEN Cancel(None) ELSE IF done THEN CreateMenu("create_t") ELSE StatusMenu
    IN /\ mem' = [store EXCEPT !.username = n, !.data_limit = Templates[t].limit, !.protocols = Tags,
                               !.expire_date = e, !.info = ~done, !.user_status = IF done THEN "active" ELSE @]
       /\ Display(gone, {new})
       /\ trash' = IF done THEN left ELSE left \cup {new}
       /\ steps' = IF mem.is_bulk THEN wait \cup {AskFor("bulk", n)} ELSE wait

random_username(m, n) ==
    LET store == [mem EXCEPT !.template_id = None]
        asked == IF mem.is_bulk /\ ~mem.from_template THEN "bulk" ELSE "data_limit"
    IN /\ Press(m, "random") /\ users[n] = None /\ Reads /\ Did("random", n)
       /\ IF m.arg = None \/ (mem.is_bulk /\ ~mem.from_template)
          THEN mem' = store /\ Display(Scheduled({m}), {Cancel(None)}) /\ trash' = {Cancel(None)} /\ AskOnly(AskFor(asked, n))
          ELSE IF m.arg \notin templates
          THEN mem' = store /\ steps' = {} /\ Display(Scheduled({m}), {}) /\ trash' = {}
          ELSE UseTemplate(n, m.arg, store, Scheduled({m}), {}, {})

add_user_from_template_username_step(r) ==
    /\ Takes(r, "template_username")
    /\ IF mem.template_id = None THEN Did("lost", None) /\ Reads /\ Quiet /\ UNCHANGED <<mem, steps>>
       ELSE IF mem.template_id \notin templates THEN Raised /\ UNCHANGED <<mem, steps>>
       ELSE IF r.t \notin Names THEN Again(r)
       ELSE IF users[r.t] # None THEN Again(r)
       ELSE UseTemplate(r.t, mem.template_id, mem, {}, trash, steps) /\ Did("asked", None) /\ Reads

add_user_username_step(r) ==
    /\ Takes(r, "username")
    /\ IF r.t \notin Names THEN Again(r)
       ELSE IF users[r.t] # None THEN Again(r)
       ELSE /\ Display(trash, {Cancel(None)}) /\ trash' = {Cancel(None)}
            /\ Ask(AskFor(IF mem.is_bulk THEN "bulk" ELSE "data_limit", r.t))
            /\ Did("asked", None) /\ Reads /\ UNCHANGED mem

add_user_bulk_number_step(r) ==
    LET timed == mem.expire_date # Never
        new == IF ~mem.from_template THEN Cancel(None) ELSE IF timed THEN StatusMenu ELSE CreateMenu("create_t")
    IN /\ Takes(r, "bulk")
       /\ IF r.t # "num" THEN Again(r)
          ELSE /\ mem' = IF mem.from_template /\ ~timed
                         THEN [mem EXCEPT !.number = 2, !.info = FALSE, !.user_status = "active"]
                         ELSE [mem EXCEPT !.number = 2]
               /\ Display(trash, {new}) /\ trash' = IF new.kind = "create_t" THEN {} ELSE {new}
               /\ IF mem.from_template THEN UNCHANGED steps ELSE Ask(AskFor("data_limit", r.s.name))
               /\ Did("asked", None) /\ Reads

add_user_data_limit_step(r) ==
    /\ Takes(r, "data_limit")
    /\ IF r.t \notin {"zero", "num"} THEN Again(r)
       ELSE /\ mem' = [mem EXCEPT !.data_limit = IF r.t = "zero" THEN 0 ELSE 2, !.username = r.s.name]
            /\ Display(trash, {StatusMenu}) /\ trash' = {StatusMenu}
            /\ Did("asked", None) /\ Reads /\ UNCHANGED steps

\* template_info_text tells a template's dialogue from one that asks for the date
add_user_status_step(m, s) ==
    /\ Press(m, "status") /\ Did("status", None) /\ Reads
    /\ IF mem.info
       THEN /\ mem' = [mem EXCEPT !.info = FALSE, !.user_status = s]
            /\ Display({m}, {CreateMenu("create_t")}) /\ UNCHANGED <<steps, trash>>
       ELSE /\ Display({m}, {Cancel(None)}) /\ trash' = Scheduled({Cancel(None)})
            /\ Ask(Step("expire", mem.username, mem.data_limit, s)) /\ UNCHANGED mem

add_user_expire_step(r) ==
    LET hold == r.s.status = "onhold"
        e == IF r.t = "zero" THEN Never ELSE IF hold THEN Duration(3) ELSE Future
    IN /\ Takes(r, "expire")
       /\ IF r.t \notin {"span", "zero"} \/ (hold /\ r.t = "zero") THEN Again(r)
          ELSE /\ mem' = [mem EXCEPT !.username = r.s.name, !.data_limit = r.s.limit,
                                     !.user_status = r.s.status, !.expire_date = e]
               /\ Display(trash, IF hold THEN {Cancel(None)} ELSE {CreateMenu("create")})
               /\ trash' = IF hold THEN {Cancel(None)} ELSE {}
               /\ IF hold THEN Ask(Plain("timeout")) ELSE UNCHANGED steps
               /\ Did("asked", None) /\ Reads

add_on_hold_timeout(r) ==
    /\ Takes(r, "timeout")
    /\ IF r.t \notin {"span", "zero"} THEN Again(r)
       ELSE CleanUp({}, {CreateMenu("create")}) /\ Did("asked", None) /\ Reads /\ UNCHANGED <<mem, steps>>

\* get_number_at_end: the i-th user of a bulk is the i-th name after the first
Place(n) == CHOOSE i \in 1..Len(Order) : Order[i] = n
BulkNames == SubSeq(Order, Place(mem.username), Place(mem.username) + (IF mem.is_bulk THEN mem.number ELSE 1) - 1)

\* UserCreate from mem_store; Raises when expire_date has the wrong type for it
Raises ==
    IF mem.user_status = "onhold" THEN mem.expire_date.kind \notin {"future", "int"} ELSE IsInt(mem.expire_date)
NewRow ==
    LET hold == mem.user_status = "onhold" IN
    [st |-> IF hold THEN "on_hold" ELSE "active", used |-> 0, key |-> 0, note |-> FALSE,
     limit |-> IF mem.data_limit = -1 THEN 0 ELSE mem.data_limit, tags |-> mem.protocols,
     expire |-> IF hold THEN Never ELSE mem.expire_date,
     dur |-> IF ~hold THEN 0 ELSE IF IsInt(mem.expire_date) THEN mem.expire_date.n * DaySeconds ELSE DaySeconds]

\* Users are committed one by one: a name that is taken stops the loop
confirm_add_user(m) ==
    LET taken == {i \in 1..Len(BulkNames) : users[BulkNames[i]] # None}
        made == {BulkNames[i] : i \in {j \in 1..Len(BulkNames) : \A k \in taken : j < k}}
        new == {UserMenu(n, NewRow) : n \in made}
    IN /\ \E k \in {"create", "create_t"} : Press(m, k)
       /\ UNCHANGED <<mem, steps>> /\ Did("add", None)
       /\ IF mem.username = None THEN Display({m}, {Main}) /\ Reads /\ UNCHANGED trash
          ELSE /\ mem.is_bulk => Place(mem.username) + mem.number - 1 <= Len(Order)
               /\ IF mem.protocols = {} \/ Raises \/ made = {} THEN Quiet /\ Reads
                  ELSE /\ users' = [n \in Names |-> IF n \in made THEN NewRow ELSE users[n]]
                       /\ cores' = [n \in Names |-> IF n \in made THEN Added(cores[n], NewRow) ELSE cores[n]]
                       /\ IF mem.is_bulk THEN Display(Scheduled({m}), new) /\ trash' = {}
                          ELSE Display({m}, new) /\ UNCHANGED trash

(***************************************************************************)
(* Charging a user from a template.                                        *)
(***************************************************************************)

\* The direct charge of a user who has run out; anyone else sees a preview,
\* written into the session's object and never committed
ChargedRow(r, t) ==
    WithExpire(WithLimit([ResetUsage(r) EXCEPT !.st = "active"], Templates[t].limit),
               IF Templates[t].timed THEN Future ELSE Never)
TemplateChargesPreview(r) ==
    IF r.limit = 0 /\ r.expire = Never THEN FALSE
    ELSE r.limit = 0 \/ r.expire = Never \/ ~(r.used > r.limit \/ r.expire = Past)

template_charge_command(m, t) ==
    LET n == m.to
        r == users[n]
    IN /\ Press(m, "templates") /\ n # None /\ UNCHANGED <<mem, steps>>
       /\ IF t \notin templates \/ r = None THEN Quiet /\ Reads /\ Did("move", n)
          ELSE IF TemplateChargesPreview(r)
          THEN /\ Reads /\ UNCHANGED trash /\ Did("move", n)
               /\ Display({m}, {ChargeMenu(n, t)})
          ELSE /\ users' = [users EXCEPT ![n] = ChargedRow(r, t)]
               /\ cores' = [cores EXCEPT ![n] = Added(@, ChargedRow(r, t))]
               /\ Display({m}, {UserMenu(n, ChargedRow(r, t))}) /\ Did("charge", n) /\ UNCHANGED trash

\* The usage is reset and committed first: a sum below zero is refused after that
confirm_charge(m, op) ==
    LET n == m.to
        r == users[n]
        t == m.arg
        sum == r.limit - r.used + Templates[t].limit
        e == IF Templates[t].timed THEN Future ELSE Never
        row == WithExpire(WithLimit([ResetUsage(r) EXCEPT !.st = "active"],
                                    IF op = "reset" THEN Templates[t].limit ELSE sum), e)
    IN /\ Press(m, "charge") /\ Did("charge", n) /\ UNCHANGED <<mem, steps>>
       /\ IF t \notin templates \/ r = None THEN Quiet /\ Reads
          ELSE IF op = "add" /\ sum < 0
          THEN users' = [users EXCEPT ![n] = ResetUsage(r)] /\ UNCHANGED cores /\ Quiet
          ELSE /\ row.limit <= MaxLimit
               /\ users' = [users EXCEPT ![n] = row] /\ cores' = [cores EXCEPT ![n] = Added(@, row)]
               /\ Display({m}, {UserMenu(n, r)}) /\ UNCHANGED trash

(***************************************************************************)
(* confirm_user_command: the operations that a "Yes" carries out.          *)
(***************************************************************************)

\* The name a confirmed operation works on is the one in the button's data
NamedFromStore(m) == IF mem.username = None THEN m.to ELSE mem.username
Named(m) == m.to

\* A missing user raises an exception in remove_user, update_user, reset
Confirmed(m, op) == Press(m, "confirm") /\ m.arg = op /\ UNCHANGED <<mem, steps>>
Missing(m) == users[Named(m)] = None /\ Did("raised", m.to) /\ Quiet /\ Reads

confirm_delete(m) ==
    /\ Confirmed(m, "delete")
    /\ \/ Missing(m)
       \/ /\ users[Named(m)] # None /\ Did("delete", m.to)
          /\ users' = [users EXCEPT ![Named(m)] = None] /\ cores' = [cores EXCEPT ![Named(m)] = None]
          /\ Display({m}, {Main}) /\ UNCHANGED trash

\* Rows and cores after a change of the row of the user named by m
Changed(m, op, row, served) ==
    /\ users' = [users EXCEPT ![Named(m)] = row] /\ cores' = [cores EXCEPT ![Named(m)] = served]
    /\ Display({m}, {UserMenu(Named(m), row)}) /\ Did(op, m.to) /\ UNCHANGED trash

SuspendedCoreKept(c) == c
SuspendedCore(c) == None

confirm_suspend(m) ==
    LET r == users[Named(m)] IN
    /\ Confirmed(m, "suspend")
    /\ Missing(m) \/ (r # None /\ Changed(m, "suspend", [r EXCEPT !.st = "disabled"], SuspendedCore(cores[Named(m)])))

confirm_activate(m) ==
    LET r == users[Named(m)]
        row == [r EXCEPT !.st = "active"]
    IN /\ Confirmed(m, "activate")
       /\ Missing(m) \/ (r # None /\ Changed(m, "activate", row, Added(cores[Named(m)], row)))

confirm_reset_usage(m) ==
    LET r == users[Named(m)]
        row == ResetUsage(r)
    IN /\ Confirmed(m, "reset_usage")
       /\ \/ Missing(m)
          \/ r # None /\ Changed(m, "reset_usage", row,
                                 IF row.st \in {"active", "on_hold"} THEN Added(cores[Named(m)], row) ELSE cores[Named(m)])

\* The credentials change in the database; the cores are not told
confirm_revoke_sub(m) ==
    LET r == users[Named(m)] IN
    /\ Confirmed(m, "revoke_sub")
    /\ IF r = None THEN Quiet /\ Reads /\ Did("move", m.to)
       ELSE Changed(m, "revoke_sub", [r EXCEPT !.key = 1 - @], cores[Named(m)])

confirm_restart(m) ==
    /\ Confirmed(m, "restart") /\ Did("restart", None) /\ Display({m}, {Main}) /\ UNCHANGED <<users, trash>>
    /\ cores' = [n \in Names |-> IF users[n] = None THEN None
                                 ELSE IF users[n].st \in {"active", "on_hold"} THEN Served(users[n]) ELSE None]

confirm_delete_depleted(m, st) ==
    LET gone == {n \in Names : users[n] # None /\ users[n].st = st} IN
    /\ Confirmed(m, IF st = "expired" THEN "delete_expired" ELSE "delete_limited")
    /\ users' = [n \in Names |-> IF n \in gone THEN None ELSE users[n]]
    /\ cores' = [n \in Names |-> IF n \in gone THEN None ELSE cores[n]]
    /\ Display({m}, {Main}) /\ Did("delete_all", None) /\ UNCHANGED trash

add_data_command(m) ==
    /\ Press(m, "all") /\ Display({m}, {Cancel(None)}) /\ trash' = Scheduled({m, Cancel(None)})
    /\ Ask(Plain("add_data")) /\ Did("ask", None) /\ Reads /\ UNCHANGED mem
add_data_step(r) ==
    LET new == Confirm("add_data", r.t) IN
    /\ Takes(r, "add_data")
    /\ IF r.t \notin {"num", "minus"} THEN Again(r)
       ELSE Display(trash, {new}) /\ trash' = {new} /\ Did("asked", None) /\ Reads /\ UNCHANGED <<mem, steps>>
add_time_command(m) ==
    /\ Press(m, "all") /\ Display({m}, {Cancel(None)}) /\ trash' = Scheduled({m, Cancel(None)})
    /\ Ask(Plain("add_time")) /\ Did("ask", None) /\ Reads /\ UNCHANGED mem
add_time_step(r) ==
    LET new == Confirm("add_time", r.t) IN
    /\ Takes(r, "add_time")
    /\ IF r.t \notin {"num", "minus"} THEN Again(r)
       ELSE Display(trash, {new}) /\ trash' = {new} /\ Did("asked", None) /\ Reads /\ UNCHANGED <<mem, steps>>

\* Users whose limit (or date) a change for all users touches
Touched(n, has) == users[n] # None /\ has /\ users[n].st \notin {"limited", "expired"}

\* The users whose limit UserModify refuses (ge=0)
RefusedNone(hit, delta) == {}
Refused(hit, delta) == {i \in hit : users[Order[i]].limit + delta < 0}

\* The exception of a refused limit ends the loop half way
confirm_add_data(m) ==
    LET delta == IF m.to = "num" THEN 2 ELSE -2
        hit == {i \in 1..Len(Order) : IF users[Order[i]] = None THEN FALSE ELSE Touched(Order[i], users[Order[i]].limit # 0)}
        bad == Refused(hit, delta)
        done == {Order[i] : i \in {j \in hit : \A k \in bad : j < k}}
    IN /\ Confirmed(m, "add_data") /\ Did("add_data", None) /\ UNCHANGED cores
       /\ \A n \in done : users[n].limit + delta <= MaxLimit
       /\ users' = [n \in Names |-> IF n \in done THEN WithLimit(users[n], users[n].limit + delta) ELSE users[n]]
       /\ IF bad # {} THEN Quiet ELSE CleanUp({}, {Main})

\* Later dates stay in the future; an earlier one may be in the past
confirm_add_time(m) ==
    /\ Confirmed(m, "add_time") /\ Did("add_time", None) /\ UNCHANGED cores
    /\ \E e \in IF m.to = "num" THEN {Future} ELSE {Future, Past} :
          users' = [n \in Names |-> IF users[n] = None THEN None
                                    ELSE IF Touched(n, users[n].expire # Never) THEN WithExpire(users[n], e) ELSE users[n]]
    /\ CleanUp({}, {Main})

\* A user's only inbound is not removed: update_user skips empty proxies and inbounds
confirm_inbound(m, op) ==
    LET t == m.to
        hit == {n \in Names : users[n] # None /\ (t \in users[n].tags) = (op = "inbound_remove")}
        row(n) == WithTags(users[n], IF op = "inbound_add" THEN users[n].tags \cup {t} ELSE users[n].tags \ {t})
    IN /\ Confirmed(m, op) /\ Did(op, None) /\ Display({m}, {Main}) /\ UNCHANGED trash
       /\ users' = [n \in Names |-> IF n \in hit THEN row(n) ELSE users[n]]
       /\ cores' = [n \in Names |-> IF n \notin hit THEN cores[n]
                                    ELSE IF row(n).st = "active" THEN Served(row(n)) ELSE cores[n]]

\* The panel's API deletes a template while the dialogue goes on
TemplateDeleted(t) ==
    /\ t \in templates /\ templates' = templates \ {t}
    /\ UNCHANGED <<users, cores, mem, steps, running, menus, trash, hasty, last, turns>>

EmptyStore == [username |-> None, data_limit |-> -1, expire_date |-> Never, protocols |-> {},
               is_bulk |-> FALSE, from_template |-> FALSE, template_id |-> None, info |-> FALSE,
               user_status |-> None, number |-> 1]

\* The panel restarts ("Bot reload detected"): mem_store and the pending steps are gone, the
\* keyboards are not
BotReload ==
    /\ Turn /\ mem' = EmptyStore /\ steps' = {} /\ running' = {} /\ trash' = {}
    /\ Did("reload", None) /\ Reads /\ UNCHANGED <<menus, templates, hasty>>

(***************************************************************************)
(* The specification.                                                      *)
(***************************************************************************)

Rows == [st : {"active", "disabled", "limited", "expired", "on_hold"}, limit : 0..MaxLimit, used : Nat,
         expire : {Never, Past, Future}, dur : Nat, tags : SUBSET Tags, key : {0, 1}, note : BOOLEAN]

Init ==
    /\ users \in FirstUsers
    /\ cores = [n \in Names |-> IF users[n] = None THEN None
                                ELSE IF users[n].st \in {"active", "on_hold"} THEN Served(users[n]) ELSE None]
    /\ templates = DOMAIN Templates /\ mem = EmptyStore
    /\ steps = {} /\ running = {} /\ menus = {Main} /\ trash = {}
    /\ hasty \in BOOLEAN /\ last = [op |-> "other", shown |-> None] /\ turns = 0

Navigate(m) ==
    \/ system_command(m) \/ restart_command(m) \/ edit_all_command(m) \/ users_command(m)
    \/ delete_user_command(m) \/ suspend_user_command(m) \/ activate_user_command(m)
    \/ reset_usage_user_command(m) \/ revoke_sub_command(m) \/ delete_expired_command(m)
    \/ delete_limited_command(m) \/ links_command(m) \/ genqr_command(m) \/ charge_command(m)
    \/ cancel_command(m)
    \/ \E op \in {"inbound_add", "inbound_remove"} : inbound_command(m, op)
    \/ \E t \in Tags : confirm_inbound_command(m, t)
    \/ \E n \in Names : user_command(m, n)
Edits(m) ==
    \/ edit_command(m) \/ edit_note_command(m) \/ confirm_edit_user(m)
    \/ \E h \in {"edit_data", "edit_expire", "edit_timeout"} : edit_user_command(m, h)
    \/ \E t \in Tags : select_inbounds(m, t)
    \/ \E p \in Protocols : select_protocols(m, p)
Creates(m) ==
    \/ \E bulk \in BOOLEAN : add_user_command(m, bulk) \/ add_user_from_template_command(m, bulk)
    \/ \E t \in DOMAIN Templates : add_user_from_template(m, t)
    \/ \E n \in Names : random_username(m, n)
    \/ \E s \in {"active", "onhold"} : add_user_status_step(m, s)
    \/ confirm_add_user(m)
confirm_user_command(m) ==
    \/ confirm_delete(m) \/ confirm_suspend(m) \/ confirm_activate(m) \/ confirm_reset_usage(m)
    \/ confirm_revoke_sub(m) \/ confirm_restart(m) \/ confirm_add_data(m) \/ confirm_add_time(m)
    \/ \E st \in {"expired", "limited"} : confirm_delete_depleted(m, st)
    \/ \E op \in {"inbound_add", "inbound_remove"} : confirm_inbound(m, op)
    \/ \E op \in {"add", "reset"} : confirm_charge(m, op)
    \/ \E t \in DOMAIN Templates : template_charge_command(m, t)
    \/ add_data_command(m) \/ add_time_command(m)
RunStep(r) ==
    \/ edit_user_expire_on_hold_timeout_step(r) \/ edit_user_data_limit_step(r) \/ edit_user_expire_step(r)
    \/ edit_note_step(r) \/ add_user_from_template_username_step(r) \/ add_user_username_step(r)
    \/ add_user_bulk_number_step(r) \/ add_user_data_limit_step(r) \/ add_user_expire_step(r)
    \/ add_on_hold_timeout(r) \/ add_data_step(r) \/ add_time_step(r)

Next ==
    \/ help_command \/ BotReload
    \/ \E n \in Names : search_user(n)
    \/ \E t \in Texts : Receive(t)
    \/ \E m \in menus : Navigate(m) \/ Edits(m) \/ Creates(m) \/ confirm_user_command(m)
    \/ \E r \in running : RunStep(r)
    \/ \E t \in Deletable : TemplateDeleted(t)

Spec == Init /\ [][Next]_vars

(***************************************************************************)
(* Properties.                                                             *)
(***************************************************************************)

TypeOK ==
    /\ users \in [Names -> Rows \cup {None}]
    /\ \A n \in Names : cores[n] = None \/ cores[n] \in [key : {0, 1}, tags : SUBSET Tags]
    /\ Cardinality(menus) <= MaxMenus /\ turns \in Nat

\* confirm_user_command: whatever else is open in the chat, the operation that
\* a "Yes" carries out touches the user that its own message names and no other
ConfirmStep ==
    \A n \in Names : users'[n] # users[n] /\ last'.op \in NamedOps => n = last'.shown
ConfirmHitsNamed == [][ConfirmStep]_vars

\* confirm_user_command: a user whom the bot has disabled or deleted is not on the
\* cores, whatever dialogues were interleaved with it
StoppedIsOffCores ==
    \A n \in Names : (IF users[n] = None THEN TRUE ELSE users[n].st = "disabled") => cores[n] = None

\* edit_command .. confirm edit_user: when the admin uses the latest keyboard only,
\* "Done" changes the user that the keyboard names
EditStep ==
    ~hasty /\ last'.op = "edit" => \A n \in Names : users'[n] # users[n] => n = last'.shown
EditHitsShown == [][EditStep]_vars

\* The same for an admin who also presses older keyboards (fails: mem_store holds one name)
EditHitsShownAlways ==
    [][last'.op = "edit" => \A n \in Names : users'[n] # users[n] => n = last'.shown]_vars

\* crud.start_user_expire adds on_hold_expire_duration, in seconds, to the time of
\* the first connection: an admin who is not hasty never leaves less than a day in it,
\* although the creating dialogue keeps days and the editing one seconds in one key
HoldIsInSeconds ==
    ~hasty => \A n \in Names : IF users[n] = None THEN TRUE
                               ELSE users[n].st = "on_hold" => users[n].dur >= DaySeconds

\* UserModify.validate_status: "User cannot be on hold with specified expire" (fails:
\* "0" as the duration makes the dialogue forget that it edits a duration)
HoldHasNoDate ==
    \A n \in Names : IF users[n] = None THEN TRUE ELSE users[n].st = "on_hold" => users[n].expire = Never

\* register_next_step_handler: one text is meant for one step (fails)
OneStepPending == Cardinality(steps) <= 1

\* A user who may not connect is not on the cores (fails: edit_user, add_time, add_data)
DepletedIsOffCores ==
    \A n \in Names : IF users[n] = None THEN TRUE
                     ELSE users[n].st \in {"expired", "limited"} => cores[n] = None

\* A smaller limit for all users gives no user more (fails at exactly zero)
DecreaseGivesNoMore ==
    [][last'.op = "add_data" => \A n \in Names : IF users[n] = None THEN TRUE
          ELSE users[n].limit # 0 /\ users'[n].limit = 0 => FALSE]_vars
=============================================================================
