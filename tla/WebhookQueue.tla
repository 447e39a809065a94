---------------------------- MODULE WebhookQueue ----------------------------
(***************************************************************************)
(* The queue of webhook notifications (app/utils/notification.py) and the  *)
(* job that empties it (app/jobs/send_notifications.py).  The deque lives  *)
(* in memory; report functions append to it from request threads and jobs. *)
(* The scheduler lets several instances of the job run at the same time    *)
(* (job_defaults.max_instances), and app_shutdown runs the job once more   *)
(* while the scheduler is still going.                                     *)
(*                                                                         *)
(* send_at is modelled by what is left until it: `wait` ticks, 0 = due.  A *)
(* new notification is always due, its send_at being the time the class    *)
(* was imported.                                                           *)
(***************************************************************************)
EXTENDS Naturals, Sequences, FiniteSets

CONSTANTS
    Instances,      \* scheduler instances of send_notifications (max_instances)
    Final,          \* the call made by app_shutdown
    Webhooks,       \* WEBHOOK_ADDRESS
    Recurrent,      \* NUMBER_OF_RECURRENT_NOTIFICATIONS
    Timeout,        \* RECURRENT_NOTIFICATIONS_TIMEOUT, in ticks
    MayHang,        \* may a webhook take a request and never answer?
    MaxSent,        \* bound: notifications ever queued
    MaxStops        \* bound: crashes and shutdowns

ASSUME QueueAssumption ==
    /\ IsFiniteSet(Webhooks) /\ Webhooks # {}
    /\ Recurrent \in Nat /\ Timeout \in Nat \ {0}
    /\ Final \notin Instances
    /\ MaxSent \in Nat

VARIABLES
    queue,      \* notification.queue
    run,        \* instance -> [pc, batch, left, okay]
    life,       \* "up", "stopping" (app_shutdown runs) or "down"
    sent,       \* notifications ever queued; they are numbered in that order
    posts,      \* history: notification -> how often it was posted to all webhooks
    acked,      \* history: notification -> webhook -> accepted posts
    lost,       \* history: notifications a stop of the process took away
    stops

vars == <<queue, run, life, sent, posts, acked, lost, stops>>
hist == <<sent, lost, stops>>

Runs  == Instances \cup {Final}
Ids   == 1..MaxSent
Idle  == [pc |-> "idle", batch |-> <<>>, left |-> {}, okay |-> FALSE]

Init ==
    /\ queue = <<>>
    /\ run = [i \in Runs |-> Idle]
    /\ life = "up"
    /\ sent = 0
    /\ posts = [n \in Ids |-> 0]
    /\ acked = [n \in Ids |-> [w \in Webhooks |-> 0]]
    /\ lost = {}
    /\ stops = 0

\* notify: called by every report function when WEBHOOK_ADDRESS is set.
notify ==
    /\ life # "down"
    /\ sent < MaxSent
    /\ sent' = sent + 1
    /\ queue' = Append(queue, [id |-> sent + 1, wait |-> 0, tries |-> 0])
    /\ UNCHANGED <<run, life, posts, acked, lost, stops>>

(***************************************************************************)
(* One instance of send_notifications.                                     *)
(***************************************************************************)

FireInBatches(i) ==
    /\ life # "down" /\ i \in Instances
    /\ run[i].pc = "idle" /\ Len(queue) > 1
    /\ run' = [run EXCEPT ![i].pc = "popping"]
    /\ UNCHANGED <<queue, life, posts, acked, hist>>

\* The scheduler fires; with an empty queue the call returns at once.
Fire(i) ==
    /\ life # "down" /\ i \in Instances
    /\ run[i].pc = "idle" /\ queue # <<>>
    /\ run' = [run EXCEPT ![i].pc = "popping"]
    /\ UNCHANGED <<queue, life, posts, acked, hist>>

TakenNoPutBack(i, n) ==
    /\ queue' = Tail(queue)
    /\ run' = IF n.wait > 0 THEN run ELSE [run EXCEPT ![i].batch = Append(@, n)]

\* What the loop does with the notification it has popped: put back at the
\* other end of the queue the loop goes on reading, or collected.  The third
\* branch of the code (tries > NUMBER_OF_RECURRENT_NOTIFICATIONS) is never
\* taken: Again below puts nothing back with so many tries.
Taken(i, n) ==
    \/ /\ n.wait > 0
       /\ queue' = Append(Tail(queue), n) /\ UNCHANGED run
    \/ /\ n.wait = 0
       /\ queue' = Tail(queue)
       /\ run' = [run EXCEPT ![i].batch = Append(@, n)]

Pop(i) ==
    /\ run[i].pc = "popping" /\ queue # <<>>
    /\ Taken(i, Head(queue))
    /\ UNCHANGED <<life, posts, acked, hist>>

\* IndexError: the queue is empty.
PopNone(i) ==
    /\ run[i].pc = "popping" /\ queue = <<>>
    /\ run' = [run EXCEPT ![i] = IF @.batch = <<>> THEN Idle
                                 ELSE [@ EXCEPT !.pc = "posting", !.left = Webhooks]]
    /\ UNCHANGED <<queue, life, posts, acked, hist>>

OkayLastWins(okay, answer) == answer = "ok"

\* send: True as soon as one webhook has accepted.
Okay(okay, answer) == okay \/ answer = "ok"

\* send_req: one webhook accepts the batch, refuses it, takes it and loses the
\* answer (for the panel the same as a refusal), or never answers.
send_req(i, w, answer) ==
    /\ run[i].pc = "posting" /\ w \in run[i].left
    /\ answer = "hang" => MayHang
    /\ run' = [run EXCEPT ![i].left = @ \ {w},
                          ![i].okay = Okay(@, answer),
                          ![i].pc = IF answer = "hang" THEN "hung" ELSE @]
    /\ acked' = [n \in Ids |->
         IF answer = "ok" /\ \E k \in 1..Len(run[i].batch) : run[i].batch[k].id = n
         THEN [acked[n] EXCEPT ![w] = @ + 1] ELSE acked[n]]
    /\ UNCHANGED <<queue, life, posts, hist>>

\* send returns: the job is done, or it walks over the batch once more.
Posted(i) ==
    /\ run[i].pc = "posting" /\ run[i].left = {}
    /\ posts' = [n \in Ids |->
         IF \E k \in 1..Len(run[i].batch) : run[i].batch[k].id = n
         THEN posts[n] + 1 ELSE posts[n]]
    /\ run' = [run EXCEPT ![i] = IF @.okay THEN Idle ELSE [@ EXCEPT !.pc = "again"]]
    /\ UNCHANGED <<queue, life, acked, hist>>

\* The queue after that loop has dealt with notification n.
Again(q, n) ==
    IF n.tries + 1 > Recurrent THEN q
    ELSE Append(q, [n EXCEPT !.tries = @ + 1, !.wait = Timeout])

\* One turn of the loop; requests and other instances go on meanwhile.
PutBack(i) ==
    /\ run[i].pc = "again" /\ run[i].batch # <<>>
    /\ queue' = Again(queue, Head(run[i].batch))
    /\ run' = [run EXCEPT ![i] = IF Len(@.batch) = 1 THEN Idle
                                 ELSE [@ EXCEPT !.batch = Tail(run[i].batch)]]
    /\ UNCHANGED <<life, posts, acked, hist>>

send_notifications(i) == Fire(i) \/ Pop(i) \/ PopNone(i) \/ Posted(i) \/ PutBack(i)

\* Time passes for everything that waits.
Tick ==
    /\ \E k \in 1..Len(queue) : queue[k].wait > 0
    /\ queue' = [k \in 1..Len(queue) |->
                   [queue[k] EXCEPT !.wait = IF @ = 0 THEN 0 ELSE @ - 1]]
    /\ UNCHANGED <<run, life, posts, acked, hist>>

(***************************************************************************)
(* Stops of the process.                                                   *)
(***************************************************************************)

\* Everything the process held in memory and that had not been settled.
InMemory ==
    {queue[k].id : k \in 1..Len(queue)}
        \cup UNION {{run[i].batch[k].id : k \in 1..Len(run[i].batch)} : i \in Runs}

Down ==
    /\ life' = "down"
    /\ lost' = lost \cup InMemory
    /\ queue' = <<>>
    /\ run' = [i \in Runs |-> Idle]
    /\ UNCHANGED <<sent, posts, acked, stops>>

\* The shutdown handler of this job is registered before the scheduler's own.
app_shutdown ==
    /\ life = "up" /\ stops < MaxStops
    /\ life' = "stopping" /\ stops' = stops + 1
    /\ run' = [run EXCEPT ![Final].pc = IF queue = <<>> THEN "idle" ELSE "popping"]
    /\ UNCHANGED <<queue, sent, posts, acked, lost>>

\* on_shutdown: scheduler.shutdown() waits for the instances that run.
on_shutdown ==
    /\ life = "stopping" /\ \A i \in Runs : run[i].pc = "idle"
    /\ Down

Crash ==
    /\ life # "down" /\ stops < MaxStops
    /\ life' = "down" /\ stops' = stops + 1
    /\ lost' = lost \cup InMemory
    /\ queue' = <<>> /\ run' = [i \in Runs |-> Idle]
    /\ UNCHANGED <<sent, posts, acked>>

Restart ==
    /\ life = "down" /\ life' = "up"
    /\ UNCHANGED <<queue, run, posts, acked, hist>>

Next ==
    \/ notify \/ Tick \/ app_shutdown \/ on_shutdown \/ Crash \/ Restart
    \/ \E i \in Runs :
          \/ send_notifications(i)
          \/ \E w \in Webhooks, answer \in {"ok", "error", "hang"} : send_req(i, w, answer)

\* The scheduler fires every JOB_SEND_NOTIFICATIONS_INTERVAL seconds, a thread
\* that runs goes on running, a webhook's answer or the failure of the
\* connection arrives, time passes.
Fairness ==
    /\ WF_vars(Tick) /\ WF_vars(on_shutdown) /\ WF_vars(Restart)
    /\ \A i \in Runs :
          /\ WF_vars(send_notifications(i))
          /\ \A w \in Webhooks : WF_vars(send_req(i, w, "ok") \/ send_req(i, w, "error"))

Spec == Init /\ [][Next]_vars /\ Fairness

(***************************************************************************)
(* Properties.                                                             *)
(***************************************************************************)

\* No webhook accepts the same notification twice, although instances of the
\* job overlap, app_shutdown runs beside them and failed batches are posted
\* again (send, send_notifications).
AcceptedOnce == \A n \in Ids, w \in Webhooks : acked[n][w] <= 1

\* A notification is given up only after it has been posted as often as
\* NUMBER_OF_RECURRENT_NOTIFICATIONS allows, and never more often: what is
\* neither in memory nor lost with the process was accepted or used up.
GivenUpLast ==
    \A n \in 1..sent :
       /\ posts[n] <= Recurrent + 1
       /\ n \notin lost \cup InMemory =>
             (\E w \in Webhooks : acked[n][w] > 0) \/ posts[n] = Recurrent + 1

\* Whatever is put in the queue is accepted by some webhook, posted for the
\* last time, or lost with the process: nothing stays in the queue for ever.
Settled(n) ==
    \/ n \in lost \/ posts[n] = Recurrent + 1
    \/ \E w \in Webhooks : acked[n][w] > 0
EverySettles == \A n \in Ids : (sent >= n) ~> Settled(n)

\* The comment at the put-back says "add it to the queue again for the next
\* check": a notification that is not due waits for a later run of the job.
WaitsForNextCheck ==
    [][\A i \in Runs : Pop(i) => Len(queue') < Len(queue)]_vars
=============================================================================
