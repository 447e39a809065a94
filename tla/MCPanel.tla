------------------------------ MODULE MCPanel ------------------------------
(***************************************************************************)
(* The parts of the panel that are checked for safety only, one run for    *)
(* all of them: the part is chosen in the initial state and moves alone;   *)
(* the others stand still where they begin.  Each keeps the properties of  *)
(* its own module.                                                         *)
(*   rules      the pure rules of subscriptions (MCSubscriptionRules)      *)
(*   config     the pure rules of configurations (MCConfigRules)           *)
(*   sub        requests to /sub/<token>, devices and revocations          *)
(*   bot        the telegram bot of the admins                             *)
(*   reminders  the reminders of review_users                              *)
(*   managed    bots whose settings another panel pushes, one call at a     *)
(*              time besides the ones that are a single step               *)
(*   cascade    entry and exit nodes                                       *)
(***************************************************************************)
EXTENDS SubscriptionAccess, Reminders, ManagedBots, CascadeNodes, Integers

CONSTANT MaxEndpoints  \* of rules

VARIABLES
    part,
    case, config,
    users, cores, templates, mem, steps, running, menus, trash, hasty, last, turns

botVars == <<users, cores, templates, mem, steps, running, menus, trash, hasty, last, turns>>

(***************************************************************************)
(* The instances.                                                          *)
(***************************************************************************)

Rules == INSTANCE MCSubscriptionRules
Config == INSTANCE MCConfigRules WITH case <- config

\* A client with a hardware id, and one that is known by its user agent.
TwoClients == [r1 |-> {<<"A", "noua">>}, r2 |-> {<<"unknown", "U">>}]

\* Tables of two users: one active or on hold, one absent or expired.
ActiveRow == [st |-> "active", limit |-> 1, used |-> 0, expire |-> [kind |-> "future", n |-> 0],
              dur |-> 0, tags |-> {"t"}, key |-> 0, note |-> FALSE]
HoldRow == [ActiveRow EXCEPT !.st = "on_hold", !.limit = 2, !.used = 1,
                             !.expire = [kind |-> "never", n |-> 0], !.dur = 10]
ExpiredRow == [ActiveRow EXCEPT !.st = "expired", !.limit = 0, !.used = 3,
                                !.expire = [kind |-> "past", n |-> 0]]
UserTables == {[ann |-> a, bob |-> b] : a \in {ActiveRow, HoldRow}, b \in {Nil, ExpiredRow}}
Bot == INSTANCE TelegramAdmin WITH
    None <- Nil, Order <- <<"ann", "bob">>, Tags <- {"t"}, ProtocolOf <- [t |-> "vless"],
    Templates <- [plain |-> [limit |-> 2, timed |-> FALSE], timed |-> [limit |-> 2, timed |-> TRUE]],
    FirstUsers <- UserTables, MaxMenus <- 3, MaxLimit <- 4, MaxTurns <- 6,
    MaxHastyTurns <- 4, Deletable <- {"plain"}

ASSUME PartsAssumption == SubAssumption /\ ~RevokeCrossesToken

(***************************************************************************)
(* The specification.                                                      *)
(***************************************************************************)

PanelInit ==
    /\ part \in {"rules", "config", "sub", "bot", "reminders", "managed", "cascade"}
    /\ Rules!Init /\ Config!Init /\ ManagedInit /\ CascadeInit
    /\ Init /\ (part # "sub" => limit = 1)
    /\ Bot!Init /\ (part # "bot" => ~hasty /\ users = [ann |-> ActiveRow, bob |-> Nil])
    /\ ReminderInit /\ (part # "reminders" => person.limit = 0 /\ person.expire = 0)

PanelNext ==
    /\ UNCHANGED part
    /\ IF part = "rules" THEN Rules!Next ELSE UNCHANGED case
    /\ IF part = "config" THEN Config!Next ELSE UNCHANGED config
    /\ IF part = "sub" THEN Next ELSE UNCHANGED vars
    /\ IF part = "bot" THEN Bot!Next ELSE UNCHANGED botVars
    /\ IF part = "reminders" THEN ReminderNext ELSE UNCHANGED reminderVars
    /\ IF part = "managed" THEN ManagedNext ELSE UNCHANGED managedVars
    /\ IF part = "cascade" THEN CascadeNext ELSE UNCHANGED cascadeVars

PanelSpec ==
    PanelInit /\ [][PanelNext]_<<part, case, config, vars, botVars, reminderVars, managedVars,
                                 cascadeVars>>

(***************************************************************************)
(* What is checked, besides the properties of SubscriptionAccess,          *)
(* RemindersSound, ManagedSound and CascadeSound.  The parts of each       *)
(* property are explained where they are defined.                          *)
(***************************************************************************)

\* Whichever format a client is given, it dials the same server: links like the
\* JSON document, and the same flow, where Xray has one.
FormatsAgree == Rules!FormatsAgree

\* A composed document is what the admin was shown and the directive meant: its
\* sources are the previewed ones, its tags and references are sound, the
\* admin's routes are kept and an accepted balancing takes effect.
InjectionSound == Rules!InjectionSound

\* An answer tells a client everything it may know and nothing else: every
\* visible host, no address the user is blocked on, no server when dead, one
\* and the same reason, a format that fits its type, a chat that is there, and
\* nobody else's bot.
AnswersSound == Rules!AnswersSound

\* A "Yes" touches the user that its own message names, "Done" the one that the
\* latest keyboard names; and whatever the dialogues do, rows stay valid, a
\* duration on hold is in seconds, and a user disabled or deleted is off the
\* cores.
DialoguesSound ==
    /\ [](part = "bot" => Bot!TypeOK /\ Bot!StoppedIsOffCores /\ Bot!HoldIsInSeconds)
    /\ [][part = "bot" => Bot!ConfirmStep /\ Bot!EditStep]_botVars

\* A core serves what the catalog and the rows say, however it got there.
CoresServeRight == Config!CoresServeRight

\* Telegram's failures cost nobody else their news.
ChannelsIndependent == Config!ChannelsIndependent
=============================================================================
