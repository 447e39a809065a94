---------------------------- MODULE ManagedBots ----------------------------
(***************************************************************************)
(* Bots whose settings an outside admin panel pushes                       *)
(* (services/managed_settings.py, routers/managed.py) and that the admins  *)
(* of this panel edit too (routers/bot.py, the bots of crud.py), and the   *)
(* one global section that is pushed the same way, client_apps             *)
(* (routers/settings.py).                                                  *)
(*                                                                         *)
(* A push of source s binds a bot to s and leaves a managed_settings row   *)
(* "bot_settings:s"; while the row is there the panel refuses to change    *)
(* what the push owns.  Switching admin sync off removes the row, and the  *)
(* bot then refuses pushes.                                                *)
(*                                                                         *)
(* A handler reads and checks in one step and commits in another: the      *)
(* calls run in threads, with nothing locked between the two.  A refused   *)
(* call (400, 404, 409) changes nothing and is not a step.                 *)
(*                                                                         *)
(* Of a bot the model keeps its username (the title goes the same way) and *)
(* three settings: web_url, which a push always carries and both forms of  *)
(* the panel edit; sub_pay_url, for the fields a push may leave out or     *)
(* send as null; sub_profile_title, which belongs to the panel.            *)
(***************************************************************************)
EXTENDS Naturals

CONSTANTS
    Threads,     \* the calls that may run at once
    Usernames, Sources,
    BotIds,      \* numbers: the ids of the table bots
    MaxCalls,    \* bound: calls in one behaviour
    NoCall, Nil

ASSUME ManagedAssumption ==
    /\ Nil \notin BotIds /\ Nil \notin Sources /\ Nil \notin {"", "https", "apps"}
    /\ "apps" \notin Sources

VARIABLES
    bots,        \* the bots and their bot_settings, or Nil
    managed,     \* the keys of managed_settings
    apps,        \* who wrote the global setting client_apps
    call,        \* what each thread has read
    calls,       \* calls begun
    crossed      \* some call began while another was under way

managedVars == <<bots, managed, apps, call, calls, crossed>>

Fields == {"web", "pay", "own"}
Webs == {"", "domain", "https"}     \* empty, a bare domain, the same with its scheme
NoData == [f \in Fields |-> Nil]

\* _normalize_web_url
Normal(web) == IF web = "" THEN "" ELSE "https"

\* apply_bot_settings_fallback: a field that is absent or null is the default.
Fallback(data) == [f \in Fields |-> IF data[f] = Nil THEN "" ELSE data[f]]

\* What a push owns, as the comparisons of the two guards see it.
Owned(bot) == [username |-> bot.username, web |-> Normal(Fallback(bot.data).web),
               pay |-> Fallback(bot.data).pay]

Rows == {i \in BotIds : bots[i] # Nil}
Named(u) == {i \in Rows : bots[i].username = u}
Bound(s) == {i \in Rows : bots[i].source = s}
IsManaged(i) == bots[i].source \in managed

\* SQLAlchemy writes a column only when its value is not the one it read.
Written(new, read, current) == IF new # read THEN new ELSE current

ManagedInit ==
    /\ bots = [i \in BotIds |-> Nil]
    /\ managed = {}
    /\ apps = "panel"
    /\ call = [t \in Threads |-> NoCall]
    /\ calls = 0
    /\ crossed = FALSE

(***************************************************************************)
(* The course of a call.                                                   *)
(***************************************************************************)

Counted ==
    /\ calls < MaxCalls
    /\ calls' = calls + 1
    /\ crossed' = (crossed \/ \E t \in Threads : call[t] # NoCall)

Begin(t, c) ==
    /\ call[t] = NoCall
    /\ Counted
    /\ call' = [call EXCEPT ![t] = c]
    /\ UNCHANGED <<bots, managed, apps>>

\* The end of a call of kind op: its commit, or an error of the database that
\* rolls it back.
End(t, op) ==
    /\ call[t] # NoCall
    /\ call[t].op = op
    /\ call' = [call EXCEPT ![t] = NoCall]
    /\ UNCHANGED <<calls, crossed>>

\* The unique columns of bots, for a row i that becomes b.
Unique(i, b) ==
    \A j \in Rows \ {i} : /\ bots[j].username # b.username
                          /\ b.source # Nil => bots[j].source # b.source

(***************************************************************************)
(* The pushes.                                                             *)
(***************************************************************************)

\* The bot that a push goes to: the one bound to the source, else the one of
\* that name; none when the push has to create it.
Target(s, u) == IF Bound(s) # {} THEN Bound(s) ELSE Named(u)

\* A push takes over any bot of its name.
PushAllowedByName(s, u) ==
    /\ Bound(s) # {} => Named(u) \subseteq Bound(s)
    /\ \A i \in Target(s, u) : bots[i].sync

\* source_bot_id_conflict, bot_username_conflict and admin_sync_disabled.
PushAllowed(s, u) ==
    /\ Bound(s) = {} => \A i \in Named(u) : bots[i].source = Nil
    /\ Bound(s) # {} => Named(u) \subseteq Bound(s)
    /\ \A i \in Target(s, u) : bots[i].sync

apply_managed_bot_push(t, s, u) ==
    /\ PushAllowed(s, u)
    /\ \E web \in {"", "https"}, pay \in {"absent", Nil, "p"},
          i \in IF Target(s, u) = {} THEN {Nil} ELSE Target(s, u) :
          Begin(t, [op |-> "push", source |-> s, username |-> u, web |-> web, pay |-> pay,
                    bot |-> i, read |-> IF i = Nil THEN Nil ELSE bots[i],
                    row |-> s \in managed])

\* A push replaces the whole data.
MergedFromEmpty(c, data) == [web |-> c.web, own |-> Nil,
                             pay |-> IF c.pay = "absent" THEN data.pay ELSE c.pay]

\* The data of the bot with what the payload carries put over it.
Merged(c, data) == [web |-> c.web, own |-> data.own,
                    pay |-> IF c.pay = "absent" THEN data.pay ELSE c.pay]

\* The bot as the commit leaves it; `agreed` notes what the push left there.
Pushed(c) ==
    LET merged == Merged(c, IF c.read = Nil THEN NoData ELSE c.read.data)
        b == IF c.read = Nil
             THEN [username |-> c.username, source |-> c.source, sync |-> TRUE, data |-> merged]
             ELSE [username |-> Written(c.username, c.read.username, bots[c.bot].username),
                   source |-> Written(c.source, c.read.source, bots[c.bot].source),
                   sync |-> bots[c.bot].sync,
                   data |-> Written(merged, c.read.data, bots[c.bot].data)]
    IN [username |-> b.username, source |-> b.source, sync |-> b.sync, data |-> b.data,
        agreed |-> Owned(b)]

\* The commit.  A row that has gone or is already there fails it.
CommitPush(t) ==
    /\ End(t, "push")
    /\ LET c == call[t] IN
       \/ \E i \in IF c.bot = Nil THEN BotIds \ Rows ELSE {c.bot} \cap Rows :
            /\ c.bot = Nil => \A j \in BotIds \ Rows : i <= j
            /\ Unique(i, Pushed(c))
            /\ c.row = (c.source \in managed)
            /\ bots' = [bots EXCEPT ![i] = Pushed(c)]
            /\ managed' = managed \cup {c.source}
       \/ /\ \/ c.bot # Nil /\ c.bot \notin Rows
             \/ c.bot # Nil /\ c.bot \in Rows /\ ~Unique(c.bot, Pushed(c))
             \/ c.bot = Nil /\ (BotIds = Rows \/ ~Unique(Nil, Pushed(c)))
             \/ c.row # (c.source \in managed)
          /\ UNCHANGED <<bots, managed>>
    /\ UNCHANGED apps

\* A push of client_apps commits the value first and its row after it.
apply_managed_push(t) == Begin(t, [op |-> "apps push"])

CommitAppsValue(t) ==
    /\ call[t] # NoCall
    /\ call[t].op = "apps push"
    /\ apps' = "push"
    /\ call' = [call EXCEPT ![t] = [op |-> "apps row"]]
    /\ UNCHANGED <<bots, managed, calls, crossed>>

CommitAppsRow(t) ==
    /\ End(t, "apps row")
    /\ managed' = managed \cup {"apps"}
    /\ UNCHANGED <<bots, apps>>

\* DELETE /managed/{key}: any key, those of bots too.
unlink_managed(key) ==
    /\ key \in managed
    /\ Counted
    /\ managed' = managed \ {key}
    /\ UNCHANGED <<bots, apps, call>>

(***************************************************************************)
(* The panel's own edits.                                                  *)
(***************************************************************************)

update_client_apps(t) == "apps" \notin managed /\ Begin(t, [op |-> "apps"])

CommitApps(t) == End(t, "apps") /\ apps' = "panel" /\ UNCHANGED <<bots, managed>>

\* _set_bot_web_url: the data with its defaults filled in and the address put over
\* it; a form that leaves the address out changes nothing.
WithWeb(data, web) ==
    IF web = Nil THEN data ELSE [Fallback(data) EXCEPT !.web = Normal(web)]

create_bot(u, web) ==
    /\ Named(u) = {}
    /\ Counted
    /\ \E i \in BotIds \ Rows :
         /\ \A j \in BotIds \ Rows : i <= j
         /\ LET b == [username |-> u, source |-> Nil, sync |-> TRUE,
                      data |-> WithWeb(NoData, web)]
            IN bots' = [bots EXCEPT ![i] = [username |-> u, source |-> Nil, sync |-> TRUE,
                                            data |-> b.data, agreed |-> Owned(b)]]
    /\ UNCHANGED <<managed, apps, call>>

\* The settings go with the bot; the row of managed_settings stays.
delete_bot(i) ==
    /\ Counted
    /\ bots' = [bots EXCEPT ![i] = Nil]
    /\ UNCHANGED <<managed, apps, call>>

\* The identity form is not guarded.
IdentityFree(i, u, web) == Named(u) \subseteq {i}

\* ensure_bot_identity_update_allowed: while the row is there the form has to say
\* what the bot already has.  The name must be free in any case.
IdentityAllowed(i, u, web) ==
    /\ IsManaged(i) => /\ u = bots[i].username
                       /\ web # Nil => Normal(web) = Owned(bots[i]).web
    /\ Named(u) \subseteq {i}

\* PATCH /bots/{username}.
update_bot(t, i, u, web) ==
    /\ IdentityAllowed(i, u, web)
    /\ Begin(t, [op |-> "identity", bot |-> i, read |-> bots[i], username |-> u, web |-> web])

CommitIdentity(t) ==
    /\ End(t, "identity")
    /\ LET c == call[t]
           b == [bots[c.bot] EXCEPT
                    !.username = Written(c.username, c.read.username, @),
                    !.data = WithWeb(@, c.web)]
       IN bots' = IF c.bot \in Rows /\ Unique(c.bot, b) THEN [bots EXCEPT ![c.bot] = b] ELSE bots
    /\ UNCHANGED <<managed, apps>>

\* ensure_bot_settings_update_allowed compares normalised addresses ...
SettingsAllowed(i, form) ==
    IsManaged(i) => Owned([bots[i] EXCEPT !.data = form]) = Owned(bots[i])

\* ... and PUT /bots/{username}/settings stores the whole form as it came.
update_bot_settings(t, i, form) ==
    /\ SettingsAllowed(i, form)
    /\ Begin(t, [op |-> "settings", bot |-> i, read |-> bots[i], form |-> form])

CommitSettings(t) ==
    /\ End(t, "settings")
    /\ LET c == call[t] IN
       bots' = IF c.bot \in Rows
               THEN [bots EXCEPT ![c.bot].data = Written(c.form, c.read.data, @)] ELSE bots
    /\ UNCHANGED <<managed, apps>>

\* PATCH /bots/{username}/admin-sync.
set_bot_admin_sync(t, i, enabled) ==
    Begin(t, [op |-> "sync", bot |-> i, read |-> bots[i], enabled |-> enabled])

\* The row stays when sync is switched off.
CommitSyncKeepsRow(t) ==
    /\ End(t, "sync")
    /\ bots' = IF call[t].bot \in Rows
               THEN [bots EXCEPT ![call[t].bot].sync = call[t].enabled] ELSE bots
    /\ UNCHANGED <<managed, apps>>

CommitSync(t) ==
    /\ End(t, "sync")
    /\ LET c == call[t] IN
       IF c.bot \in Rows
       THEN /\ bots' = [bots EXCEPT ![c.bot].sync = Written(c.enabled, c.read.sync, @)]
            /\ managed' = IF c.enabled THEN managed ELSE managed \ {c.read.source}
       ELSE UNCHANGED <<bots, managed>>
    /\ UNCHANGED apps

ManagedNext ==
    \/ \E t \in Threads, s \in Sources, u \in Usernames : apply_managed_bot_push(t, s, u)
    \/ \E t \in Threads : apply_managed_push(t) \/ update_client_apps(t)
    \/ \E t \in Threads : CommitPush(t) \/ CommitAppsValue(t) \/ CommitAppsRow(t) \/ CommitApps(t)
    \/ \E t \in Threads : CommitIdentity(t) \/ CommitSettings(t) \/ CommitSync(t)
    \/ \E key \in Sources \cup {"apps"} : unlink_managed(key)
    \/ \E u \in Usernames, web \in {Nil, "domain"} : create_bot(u, web)
    \/ \E i \in Rows : delete_bot(i)
    \/ \E t \in Threads, i \in Rows, u \in Usernames, web \in Webs \cup {Nil} :
         update_bot(t, i, u, web)
    \/ \E t \in Threads, i \in Rows, web \in Webs, pay \in {"", "p"}, own \in {"", "t"} :
         update_bot_settings(t, i, [web |-> web, pay |-> pay, own |-> own])
    \/ \E t \in Threads, i \in Rows, enabled \in BOOLEAN : set_bot_admin_sync(t, i, enabled)

ManagedSpec == ManagedInit /\ [][ManagedNext]_managedVars

(***************************************************************************)
(* What is expected of it.                                                 *)
(***************************************************************************)

\* A bot whose admin sync is off has no managed row, so that the panel may edit
\* what no push may change any more (set_bot_admin_sync, the two guards).
SyncOffIsFree == \A i \in Rows : ~bots[i].sync => ~IsManaged(i)
NeverStuck == crossed \/ SyncOffIsFree

\* While its row is there a bot shows what the last push left, whichever forms of
\* the panel were saved since; so do the client apps.
PushedValuesShown ==
    /\ \A i \in Rows : IsManaged(i) => Owned(bots[i]) = bots[i].agreed
    /\ "apps" \in managed => apps = "push"
PushedValuesStand == crossed \/ PushedValuesShown

\* A bot that is bound to a source is never bound to another one.
BindingStep ==
    \A i \in Rows : /\ bots'[i] # Nil
                    /\ bots[i].source # Nil
                    => bots'[i].source = bots[i].source

\* The title that the panel owns changes by the panel's own form alone, however
\* many pushes and renames go by.
TitleStep ==
    \A i \in Rows : /\ bots'[i] # Nil
                    /\ Fallback(bots'[i].data).own # Fallback(bots[i].data).own
                    => \E t \in Threads : call[t] # NoCall /\ call[t].op = "settings"

\* Unless calls crossed: a bot whose admin sync is off has no managed row, so
\* that the panel may edit it; while its row is there it shows what the last
\* push left; it is never bound to a second source; and its title changes by the
\* panel's own form alone.
ManagedSound ==
    /\ [](NeverStuck /\ PushedValuesStand)
    /\ [][crossed' \/ (BindingStep /\ TitleStep)]_managedVars
=============================================================================
