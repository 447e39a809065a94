------------------------------ MODULE Reports ------------------------------
(***************************************************************************)
(* Who is told of an event (utils/report.py): the Telegram chats, the      *)
(* queue of the webhooks and the Discord webhooks, in this order, when     *)
(* some of them cannot be reached.  Pure rules; the queue itself is in     *)
(* WebhookQueue, the reminders in Reminders.                               *)
(*                                                                         *)
(* An event is [kind, status], the panel a record of what is set up:       *)
(*   bot, log (a logger channel), admins (a sequence of chats),            *)
(*   hook (a Discord webhook), on (the NOTIFY flags).                      *)
(* The owner of the user is [chat, hook], "" when not given.  `answer'     *)
(* says what sending to each address does: "ok", "refused" (an error of    *)
(* the service) or "unreachable" (any other exception).                    *)
(***************************************************************************)
EXTENDS Sequences, SequencesExt

Kinds == {"status", "created", "updated", "deleted", "reset", "next", "revoked", "login"}
LogChannel == "the logger channel"
PanelHook == "the panel's webhook"

\* What both services have words for.
Worded == {"active", "disabled", "limited", "expired"}

\* The texts of Telegram: FALSE when making it raises.
TelegramText(e) == e.kind = "status" => e.status \in Worded

\* The payloads of Discord.
DiscordText(e) == e.kind = "status" => e.status \in Worded

\* The chats of telegram's report, in order: nobody without a bot and an
\* address of the panel, even if the owner has one.
Chats(panel, owner) ==
    IF ~panel.bot \/ ~(panel.log \/ panel.admins # <<>>) THEN <<>>
    ELSE (IF panel.log THEN <<LogChannel>> ELSE panel.admins)
         \o (IF owner.chat = "" THEN <<>> ELSE <<owner.chat>>)

\* Those before the first that does not answer "ok".
Before(chats, answer) ==
    LET bad == {i \in DOMAIN chats : answer[chats[i]] # "ok"}
    IN  IF bad = {} THEN chats
        ELSE SubSeq(chats, 1, (CHOOSE i \in bad : \A j \in bad : i <= j) - 1)

\* One message after the other: the first failure ends it.  An error of the
\* service is logged, any other one raises.
telegram_report(e, panel, owner, answer) ==
    LET chats == Chats(panel, owner)
        told == Before(chats, answer)
    IN  IF ~TelegramText(e) THEN [told |-> {}, raised |-> TRUE]
        ELSE [told |-> ToSet(told),
              raised |-> Len(told) < Len(chats) /\ answer[chats[Len(told) + 1]] = "unreachable"]

\* send_webhooks: an error of the service is logged and the next one is
\* tried, a failure to connect raises.
send_webhooks(e, panel, owner, answer) ==
    LET hooks == (IF panel.hook THEN <<PanelHook>> ELSE <<>>)
                 \o (IF owner.hook = "" THEN <<>> ELSE <<owner.hook>>)
        bad == {i \in DOMAIN hooks : answer[hooks[i]] = "unreachable"}
        tried == IF bad = {} THEN hooks ELSE SubSeq(hooks, 1, CHOOSE i \in bad : \A j \in bad : i <= j)
    IN  IF ~DiscordText(e) THEN {} ELSE {h \in ToSet(tried) : answer[h] = "ok"}

\* Whether notify queues a webhook: a status has one for each of four, a login
\* none.
Queues(e) == e.kind # "login" /\ (e.kind = "status" => e.status \in Worded)

\* The rest is lost when Telegram raises.
GuardedNot(raised) == ~raised

\* try/except around Telegram: what follows happens anyway.
Guarded(raised) == TRUE

\* The functions of utils/report.py: who was told, and whether a webhook was
\* queued.  A login has no owner.
report(e, panel, owner, answer) ==
    LET own == IF e.kind = "login" THEN [chat |-> "", hook |-> ""] ELSE owner
        t == telegram_report(e, panel, own, answer)
        on == Guarded(t.raised)
    IN  IF ~panel.on THEN [told |-> {}, queued |-> FALSE]
        ELSE [told |-> t.told \cup (IF on THEN send_webhooks(e, panel, own, answer) ELSE {}),
              queued |-> on /\ Queues(e)]
=============================================================================
