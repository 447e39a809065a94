------------------------ MODULE WebhookQueueProofs ------------------------
(***************************************************************************)
(* The queue of webhook notifications, for any number of notifications,    *)
(* webhooks and instances of the job: no webhook accepts a notification    *)
(* twice, and none is given up before its last post.  The argument is that *)
(* a notification is in one place at a time - the deque or the batch of    *)
(* one instance - and that the place knows what has happened to it.        *)
(***************************************************************************)
EXTENDS WebhookQueue, SequenceTheorems, TLAPS

Note == [id : Ids, wait : Nat, tries : Nat]

\* A sequence of notifications, as a set, and without repetitions.
Notes(s) == {s[k] : k \in 1..Len(s)}
Distinct(s) == \A j, k \in 1..Len(s) : s[j].id = s[k].id => j = k
Apart(S, T) == \A a \in S, b \in T : a.id # b.id

Batch(i) == Notes(run[i].batch)

Run == [pc : {"idle", "popping", "posting", "hung", "again"}, batch : Seq(Note),
        left : SUBSET Webhooks, okay : BOOLEAN]

Shape ==
  /\ queue \in Seq(Note)
  /\ run \in [Runs -> Run]
  /\ sent \in 0..MaxSent
  /\ posts \in [Ids -> Nat]
  /\ acked \in [Ids -> [Webhooks -> Nat]]

\* Where an instance of the job stands.
RunsOK ==
  \A i \in Runs :
    /\ run[i].pc = "idle" => run[i] = Idle
    /\ run[i].pc \in {"popping", "again"} => run[i].left = {} /\ ~run[i].okay
    /\ life = "down" => run[i].pc = "idle"
    /\ life = "up" /\ i = Final => run[i].pc = "idle"

\* A notification is in one place only.
OnePlace ==
  /\ Distinct(queue)
  /\ \A i \in Runs : Distinct(run[i].batch) /\ Apart(Notes(queue), Batch(i))
  /\ \A i, j \in Runs : i # j => Apart(Batch(i), Batch(j))

\* Notification n is in memory: InMemory, without the positions.
Remembered(n) ==
  \/ \E m \in Notes(queue) : m.id = n
  \/ \E i \in Runs : \E m \in Batch(i) : m.id = n

\* Numbers above `sent' have not been given away.
Unused ==
  /\ \A m \in Notes(queue) : m.id <= sent
  /\ \A i \in Runs : \A m \in Batch(i) : m.id <= sent
  /\ \A n \in Ids : n > sent => posts[n] = 0 /\ \A w \in Webhooks : acked[n][w] = 0

\* The history of what waits in the queue: so many posts, none accepted.
QueueOK ==
  \A m \in Notes(queue) :
    posts[m.id] = m.tries /\ m.tries <= Recurrent /\ \A w \in Webhooks : acked[m.id][w] = 0

\* The history of what an instance is about to send, sends or has sent.
BatchRow(i, m) ==
  /\ m.tries <= Recurrent
  /\ posts[m.id] = IF run[i].pc = "again" THEN m.tries + 1 ELSE m.tries
  /\ \A w \in run[i].left : acked[m.id][w] = 0
  /\ IF run[i].okay THEN \E w \in Webhooks : acked[m.id][w] > 0
                    ELSE \A w \in Webhooks : acked[m.id][w] = 0

BatchOK == \A i \in Runs : \A m \in Batch(i) : BatchRow(i, m)

IInv == Shape /\ RunsOK /\ OnePlace /\ Unused /\ QueueOK /\ BatchOK /\ AcceptedOnce /\ GivenUpLast

USE QueueAssumption

-----------------------------------------------------------------------------
\* The sequences of the model, seen as sets.

\* deque.append and list.append add one element, at the end.
LEMMA AppendNotes ==
  ASSUME NEW s \in Seq(Note), NEW m \in Note
  PROVE  /\ Append(s, m) \in Seq(Note)
         /\ Notes(Append(s, m)) = Notes(s) \cup {m}
         /\ Distinct(s) /\ Apart(Notes(s), {m}) => Distinct(Append(s, m))
<1> DEFINE t == Append(s, m)
<1>1. /\ t \in Seq(Note) /\ Len(t) = Len(s) + 1 /\ Len(s) \in Nat
      /\ \A k \in 1..Len(s) : t[k] = s[k]
      /\ t[Len(s) + 1] = m
  OBVIOUS
<1> HIDE DEF t
<1>2. Notes(t) = Notes(s) \cup {m}
  <2>1. \A x \in Notes(t) : x \in Notes(s) \cup {m}
    BY <1>1 DEF Notes
  <2>2. \A x \in Notes(s) : x \in Notes(t)
    BY <1>1 DEF Notes
  <2>3. m \in Notes(t)
    BY <1>1 DEF Notes
  <2> QED BY <2>1, <2>2, <2>3
<1>3. ASSUME Distinct(s), Apart(Notes(s), {m}) PROVE Distinct(t)
  <2>1. \A k \in 1..Len(s) : s[k].id # m.id
    BY <1>3 DEF Apart, Notes
  <2> QED BY <1>1, <1>3, <2>1 DEF Distinct
<1> QED BY <1>1, <1>2, <1>3 DEF t

\* deque.popleft and the loop over a batch take the first element away.
LEMMA TailNotes ==
  ASSUME NEW s \in Seq(Note), s # <<>>
  PROVE  /\ Head(s) \in Note /\ Tail(s) \in Seq(Note)
         /\ Notes(s) = Notes(Tail(s)) \cup {Head(s)}
         /\ Distinct(s) => Distinct(Tail(s)) /\ Apart(Notes(Tail(s)), {Head(s)})
         /\ Len(s) = 1 => Notes(s) = {Head(s)}
<1> DEFINE t == Tail(s)  h == Head(s)
<1>1. /\ Len(s) \in Nat \ {0} /\ h = s[1] /\ h \in Note
      /\ t \in Seq(Note) /\ Len(t) = Len(s) - 1
      /\ \A k \in 1..Len(t) : t[k] = s[k + 1]
  BY HeadTailProperties, EmptySeq
<1> HIDE DEF t, h
<1>2. Notes(s) = Notes(t) \cup {h}
  <2>1. \A x \in Notes(t) : x \in Notes(s)
    BY <1>1 DEF Notes
  <2>2. h \in Notes(s)
    BY <1>1 DEF Notes
  <2>3. ASSUME NEW k \in 1..Len(s) PROVE s[k] \in Notes(t) \cup {h}
    <3>1. CASE k = 1
      BY <1>1, <3>1
    <3>2. CASE k # 1
      <4>1. k - 1 \in 1..Len(t) /\ t[k - 1] = s[k]
        BY <1>1, <3>2
      <4> QED BY <4>1 DEF Notes
    <3> QED BY <3>1, <3>2
  <2> QED BY <2>1, <2>2, <2>3 DEF Notes
<1>3. Distinct(s) => Distinct(t) /\ Apart(Notes(t), {h})
  BY <1>1, SMTT(30) DEF Distinct, Apart, Notes
<1>4. Len(s) = 1 => Notes(s) = {h}
  <2>1. Len(s) = 1 => Len(t) = 0 /\ Notes(t) = {}
    BY <1>1 DEF Notes
  <2> QED BY <1>2, <2>1
<1> QED BY <1>1, <1>2, <1>3, <1>4 DEF t, h

\* Two sequences that tell the same numbers and posts, place by place.
LEMMA SameIds ==
  ASSUME NEW s \in Seq(Note), NEW t \in Seq(Note), Len(t) = Len(s),
         \A k \in 1..Len(s) : t[k].id = s[k].id /\ t[k].tries = s[k].tries
  PROVE  /\ \A m \in Notes(t) : \E o \in Notes(s) : m.id = o.id /\ m.tries = o.tries
         /\ \A o \in Notes(s) : \E m \in Notes(t) : m.id = o.id
         /\ Distinct(s) => Distinct(t)
<1>1. \A k \in 1..Len(s) : s[k] \in Notes(s) /\ t[k] \in Notes(t)
  BY DEF Notes
<1>2. /\ \A m \in Notes(t) : \E k \in 1..Len(s) : m = t[k]
      /\ \A o \in Notes(s) : \E k \in 1..Len(s) : o = s[k]
  BY DEF Notes
<1>3. \A m \in Notes(t) : \E o \in Notes(s) : m.id = o.id /\ m.tries = o.tries
  BY <1>1, <1>2
<1>4. \A o \in Notes(s) : \E m \in Notes(t) : m.id = o.id
  BY <1>1, <1>2
<1>5. Distinct(s) => Distinct(t)
  BY DEF Distinct
<1> QED BY <1>3, <1>4, <1>5

\* Time passes: the same notifications, closer to being due.
LEMMA TickNotes ==
  ASSUME NEW s \in Seq(Note), NEW t,
         t = [k \in 1..Len(s) |-> [s[k] EXCEPT !.wait = IF @ = 0 THEN 0 ELSE @ - 1]]
  PROVE  /\ t \in Seq(Note)
         /\ \A m \in Notes(t) : \E o \in Notes(s) : m.id = o.id /\ m.tries = o.tries
         /\ \A o \in Notes(s) : \E m \in Notes(t) : m.id = o.id
         /\ Distinct(s) => Distinct(t)
<1>1. Len(s) \in Nat /\ \A k \in 1..Len(s) : s[k] \in Note
  OBVIOUS
<1>2. \A k \in 1..Len(s) : t[k] \in Note /\ t[k].id = s[k].id /\ t[k].tries = s[k].tries
  <2> SUFFICES ASSUME NEW k \in 1..Len(s)
               PROVE  t[k] \in Note /\ t[k].id = s[k].id /\ t[k].tries = s[k].tries
    OBVIOUS
  <2> DEFINE wait == IF s[k].wait = 0 THEN 0 ELSE s[k].wait - 1
  <2>1. s[k] \in Note /\ wait \in Nat
    BY <1>1 DEF Note
  <2>2. t[k] = [s[k] EXCEPT !.wait = wait]
    OBVIOUS
  <2> HIDE DEF wait
  <2> QED BY <2>1, <2>2 DEF Note
<1>3. t \in Seq(Note) /\ Len(t) = Len(s)
  <2>1. t \in [1..Len(s) -> Note]
    BY <1>2
  <2> QED BY <1>1, <2>1
<1>4. \A k \in 1..Len(s) : t[k].id = s[k].id /\ t[k].tries = s[k].tries
  BY <1>2
<1>5. /\ \A m \in Notes(t) : \E o \in Notes(s) : m.id = o.id /\ m.tries = o.tries
      /\ \A o \in Notes(s) : \E m \in Notes(t) : m.id = o.id
      /\ Distinct(s) => Distinct(t)
  BY ONLY <1>3, <1>4, SameIds, s \in Seq(Note)
<1> QED BY <1>3, <1>5

LEMMA EmptyNotes == <<>> \in Seq(Note) /\ Notes(<<>>) = {} /\ Distinct(<<>>)
  BY DEF Notes, Distinct

LEMMA NotesTyped ==
  ASSUME NEW s \in Seq(Note)
  PROVE  \A m \in Notes(s) : m \in Note /\ m.id \in Ids /\ m.tries \in Nat /\ m.wait \in Nat
<1>1. \A m \in Notes(s) : m \in Note
  BY DEF Notes
<1> QED BY <1>1 DEF Note

LEMMA InMemoryIs ==
  \A n : /\ n \in InMemory <=> Remembered(n)
         /\ n \in InMemory' <=> Remembered(n)'
<1>1. \A n : n \in InMemory <=> Remembered(n)
  BY DEF InMemory, Remembered, Batch, Notes
<1>2. \A n : n \in InMemory' <=> Remembered(n)'
  BY DEF InMemory, Remembered, Batch, Notes
<1> QED BY <1>1, <1>2

-----------------------------------------------------------------------------
\* One lemma per action.

\* A fresh process has nothing in memory.
LEMMA InitIInv == Init => IInv
<1> SUFFICES ASSUME Init PROVE IInv
  OBVIOUS
<1>1. /\ queue = <<>> /\ \A i \in Runs : run[i] = Idle /\ run[i].batch = <<>>
      /\ life = "up" /\ sent = 0
  BY DEF Init, Idle
<1>2. Notes(queue) = {} /\ \A i \in Runs : Batch(i) = {}
  BY <1>1, EmptyNotes DEF Batch
<1>3. Shape
  <2>1. Idle \in Run
    BY EmptyNotes DEF Idle, Run
  <2> QED BY <2>1, EmptyNotes DEF Init, Shape
<1>4. RunsOK /\ OnePlace
  BY <1>1, <1>2, EmptyNotes DEF RunsOK, OnePlace, Idle, Apart
<1>5. Unused /\ QueueOK /\ BatchOK
  BY <1>2 DEF Init, Unused, QueueOK, BatchOK, BatchRow
<1>6. AcceptedOnce /\ GivenUpLast
  BY DEF Init, AcceptedOnce, GivenUpLast
<1> QED BY <1>3, <1>4, <1>5, <1>6 DEF IInv

\* A step that moves no notification and posts nothing.
LEMMA SameNotes ==
  ASSUME IInv, UNCHANGED <<queue, sent, posts, acked, lost>>,
         \A i \in Runs : run'[i].batch = run[i].batch
  PROVE  OnePlace' /\ Unused' /\ QueueOK' /\ AcceptedOnce' /\ GivenUpLast'
<1>1. Notes(queue)' = Notes(queue) /\ \A i \in Runs : Batch(i)' = Batch(i)
  BY DEF Batch, Notes
<1>2. OnePlace'
  BY <1>1 DEF IInv, OnePlace
<1>3. Unused' /\ QueueOK' /\ AcceptedOnce'
  BY <1>1 DEF IInv, Unused, QueueOK, AcceptedOnce
<1>4. \A n : Remembered(n)' <=> Remembered(n)
  BY <1>1 DEF Remembered
<1>5. GivenUpLast'
  BY <1>4, InMemoryIs DEF IInv, GivenUpLast
<1> QED BY <1>2, <1>3, <1>5

\* notify hands out a number nothing in memory has.
LEMMA NotifyKeeps == ASSUME IInv, notify PROVE IInv'
<1> DEFINE new == [id |-> sent + 1, wait |-> 0, tries |-> 0]
<1>1. /\ sent \in Nat /\ sent + 1 \in Ids /\ new \in Note /\ queue \in Seq(Note)
      /\ new.id = sent + 1 /\ new.tries = 0
      /\ UNCHANGED <<run, life, posts, acked, lost>> /\ sent' = sent + 1
      /\ queue' = Append(queue, new)
  BY DEF IInv, Shape, notify, Ids, Note
<1> HIDE DEF new
<1>2. /\ queue' \in Seq(Note) /\ Notes(queue)' = Notes(queue) \cup {new}
      /\ \A i \in Runs : Batch(i)' = Batch(i)
  BY <1>1, AppendNotes DEF Batch, Notes
<1>3. /\ \A m \in Notes(queue) : m.id \in Nat /\ m.id <= sent
      /\ \A i \in Runs : \A m \in Batch(i) : m.id \in Nat /\ m.id <= sent
  BY NotesTyped DEF IInv, Shape, Run, Unused, Batch, Ids
<1>4. Apart(Notes(queue), {new}) /\ \A i \in Runs : Apart({new}, Batch(i))
  BY <1>1, <1>3 DEF Apart
<1>5. Shape' /\ RunsOK'
  BY <1>1, <1>2 DEF IInv, Shape, RunsOK, Ids
<1>6. OnePlace'
  <2>1. Distinct(queue)
    BY DEF IInv, OnePlace
  <2>2. Distinct(Append(queue, new))
    BY <1>1, <1>4, <2>1, AppendNotes
  <2>3. Distinct(queue)'
    BY <1>1, <2>2 DEF Distinct
  <2>4. \A i \in Runs : Distinct(run[i].batch)' /\ Apart(Notes(queue), Batch(i))'
    BY <1>1, <1>2, <1>4 DEF IInv, OnePlace, Apart, Distinct
  <2>5. \A i, j \in Runs : i # j => Apart(Batch(i), Batch(j))'
    BY <1>2 DEF IInv, OnePlace, Apart
  <2> QED BY <2>3, <2>4, <2>5 DEF OnePlace
<1>7. Unused'
  BY <1>1, <1>2, <1>3 DEF IInv, Unused, Ids
<1>8. QueueOK' /\ BatchOK'
  BY <1>1, <1>2 DEF IInv, QueueOK, BatchOK, BatchRow, Unused
<1>9. AcceptedOnce' /\ GivenUpLast'
  <2>1. \A n : Remembered(n)' <=> Remembered(n) \/ n = sent + 1
    BY <1>1, <1>2 DEF Remembered
  <2>2. posts[sent + 1] = 0
    BY <1>1 DEF IInv, Unused
  <2> QED BY <1>1, <2>1, <2>2, InMemoryIs DEF IInv, AcceptedOnce, GivenUpLast
<1> QED BY <1>5, <1>6, <1>7, <1>8, <1>9 DEF IInv

\* The scheduler fires, or app_shutdown calls the job: an idle instance has an
\* empty batch.
LEMMA FireKeeps ==
  ASSUME IInv, NEW i \in Runs, run[i].pc = "idle", life # "down",
         NEW new, run' = [run EXCEPT ![i].pc = new], new \in {"idle", "popping"},
         UNCHANGED <<queue, posts, acked, sent, lost>>,
         life' \in {life, "stopping"}, life' = "up" => i # Final
  PROVE  IInv'
<1>1. run \in [Runs -> Run] /\ run[i] = Idle
  BY DEF IInv, Shape, RunsOK
<1>2. /\ run'[i] = [Idle EXCEPT !.pc = new] /\ run'[i] \in Run
      /\ \A j \in Runs : j # i => run'[j] = run[j]
      /\ run' \in [Runs -> Run]
  BY <1>1 DEF Run
<1>3. /\ run'[i].batch = <<>> /\ run'[i].left = {} /\ ~run'[i].okay /\ run'[i].pc = new
      /\ new = "idle" => run'[i] = Idle
      /\ run[i].batch = <<>>
  BY <1>1, <1>2 DEF Idle
<1>4. Shape' /\ RunsOK'
  BY <1>2, <1>3 DEF IInv, Shape, RunsOK
<1>5. BatchOK'
  <2>1. Batch(i)' = {} /\ \A j \in Runs : j # i => Batch(j)' = Batch(j)
    BY <1>2, <1>3, EmptyNotes DEF Batch
  <2> QED BY <1>2, <2>1 DEF IInv, BatchOK, BatchRow
<1> QED BY <1>2, <1>3, <1>4, <1>5, SameNotes DEF IInv

\* The loop pops a notification: from the queue into its batch, or back to the
\* other end of the queue.
LEMMA PopKeeps == ASSUME IInv, NEW i \in Runs, Pop(i) PROVE IInv'
<1> DEFINE n == Head(queue)  rest == Tail(queue)
<1>1. /\ queue \in Seq(Note) /\ queue # <<>> /\ run \in [Runs -> Run] /\ run[i] \in Run
      /\ run[i].pc = "popping" /\ run[i].batch \in Seq(Note)
      /\ UNCHANGED <<life, posts, acked, sent, lost>>
  BY DEF IInv, Shape, Pop, Run, hist
<1>2. /\ n \in Note /\ rest \in Seq(Note) /\ Notes(queue) = Notes(rest) \cup {n}
      /\ Distinct(rest) /\ Apart(Notes(rest), {n})
  BY <1>1, TailNotes DEF IInv, OnePlace
<1> HIDE DEF n, rest
<1>3. CASE n.wait > 0
  <2>1. queue' = Append(rest, n) /\ run' = run
    BY <1>2, <1>3 DEF Pop, Taken, n, rest, Note
  <2>2. /\ queue' \in Seq(Note) /\ Notes(queue)' = Notes(queue) /\ Distinct(queue')
        /\ \A j \in Runs : Batch(j)' = Batch(j)
    BY <1>2, <2>1, AppendNotes DEF Batch
  <2>3. Shape' /\ RunsOK' /\ OnePlace'
    BY <1>1, <2>1, <2>2 DEF IInv, Shape, RunsOK, OnePlace
  <2>4. Unused' /\ QueueOK' /\ BatchOK' /\ AcceptedOnce'
    BY <1>1, <2>1, <2>2 DEF IInv, Unused, QueueOK, BatchOK, BatchRow, AcceptedOnce
  <2>5. \A x : Remembered(x)' <=> Remembered(x)
    BY <2>2 DEF Remembered
  <2>6. GivenUpLast'
    BY <1>1, <2>5, InMemoryIs DEF IInv, GivenUpLast
  <2> QED BY <2>3, <2>4, <2>6 DEF IInv
<1>4. CASE ~(n.wait > 0)
  <2>1. queue' = rest /\ run' = [run EXCEPT ![i].batch = Append(@, n)]
    BY <1>2, <1>4 DEF Pop, Taken, n, rest, Note
  <2>2. /\ \A j \in Runs : j # i => run'[j] = run[j] /\ Batch(j)' = Batch(j)
        /\ run'[i].batch = Append(run[i].batch, n)
        /\ run'[i].pc = "popping" /\ run'[i].left = run[i].left /\ run'[i].okay = run[i].okay
    BY <1>1, <2>1 DEF Batch, Run
  <2>3. /\ Append(run[i].batch, n) \in Seq(Note)
        /\ Batch(i)' = Batch(i) \cup {n} /\ Distinct(run'[i].batch)
        /\ Notes(queue)' = Notes(rest)
    <3>1. Apart(Batch(i), {n}) /\ Distinct(run[i].batch)
      BY <1>2 DEF IInv, OnePlace, Apart
    <3> QED BY <1>1, <1>2, <2>1, <2>2, <3>1, AppendNotes DEF Batch
  <2>4. run' \in [Runs -> Run] /\ queue' \in Seq(Note)
    BY <1>1, <1>2, <2>1, <2>3 DEF Run
  <2>5. Shape' /\ RunsOK'
    BY <1>1, <2>2, <2>4 DEF IInv, Shape, RunsOK
  <2>6. OnePlace'
    <3>1. /\ Distinct(queue') /\ \A j \in Runs : Apart(Notes(queue'), Batch(j)')
      BY <1>2, <2>1, <2>2, <2>3 DEF IInv, OnePlace, Apart
    <3>2. \A j, k \in Runs : j # k => Apart(Batch(j)', Batch(k)')
      BY <1>2, <2>2, <2>3 DEF IInv, OnePlace, Apart
    <3>3. \A j \in Runs : Distinct(run'[j].batch)
      BY <2>2, <2>3 DEF IInv, OnePlace
    <3> QED BY <3>1, <3>2, <3>3 DEF OnePlace
  <2>7. Unused' /\ QueueOK' /\ AcceptedOnce'
    BY <1>1, <1>2, <2>2, <2>3 DEF IInv, Unused, QueueOK, AcceptedOnce
  <2>8. BatchOK'
    <3>1. run[i].left = {} /\ ~run[i].okay
      BY <1>1 DEF IInv, RunsOK
    <3>2. /\ n.tries <= Recurrent /\ posts[n.id] = n.tries
          /\ \A w \in Webhooks : acked[n.id][w] = 0
      BY <1>2 DEF IInv, QueueOK
    <3> QED BY <1>1, <2>2, <2>3, <3>1, <3>2 DEF IInv, BatchOK, BatchRow
  <2>9. \A x : Remembered(x)' <=> Remembered(x)
    BY <1>2, <2>2, <2>3 DEF Remembered
  <2>10. GivenUpLast'
    BY <1>1, <2>9, InMemoryIs DEF IInv, GivenUpLast
  <2> QED BY <2>5, <2>6, <2>7, <2>8, <2>10 DEF IInv
<1> QED BY <1>3, <1>4

\* The queue is empty: the loop is over, and an empty batch ends the job.
LEMMA PopNoneKeeps == ASSUME IInv, NEW i \in Runs, PopNone(i) PROVE IInv'
<1> DEFINE next == IF run[i].batch = <<>> THEN Idle
                   ELSE [run[i] EXCEPT !.pc = "posting", !.left = Webhooks]
<1>1. /\ run \in [Runs -> Run] /\ run[i] \in Run /\ run[i].pc = "popping"
      /\ run[i].left = {} /\ ~run[i].okay
      /\ run' = [run EXCEPT ![i] = next]
      /\ UNCHANGED <<queue, life, posts, acked, sent, lost>>
  BY DEF IInv, Shape, RunsOK, PopNone, hist
<1>2. /\ next \in Run /\ next.batch = run[i].batch /\ ~next.okay
      /\ next.pc = "posting" \/ (next = Idle /\ next.pc = "idle" /\ next.batch = <<>>)
  <2>1. CASE run[i].batch = <<>>
    BY <1>1, <2>1, EmptyNotes DEF Run, Idle
  <2>2. CASE run[i].batch # <<>>
    <3>1. next = [run[i] EXCEPT !.pc = "posting", !.left = Webhooks]
      BY <2>2
    <3> HIDE DEF next
    <3>2. next \in Run /\ next.batch = run[i].batch /\ next.okay = run[i].okay /\ next.pc = "posting"
      BY <1>1, <3>1 DEF Run
    <3> QED BY <1>1, <3>2
  <2> QED BY <2>1, <2>2
<1> HIDE DEF next
<1>3. /\ run' \in [Runs -> Run] /\ run'[i] = next
      /\ \A j \in Runs : j # i => run'[j] = run[j]
  BY <1>1, <1>2
<1>4. life = "down" \/ life = "up" => life' = life /\ (life = "up" => i # Final) /\ life # "down"
  BY <1>1 DEF IInv, RunsOK
<1>5. Shape' /\ RunsOK'
  BY <1>1, <1>2, <1>3, <1>4 DEF IInv, Shape, RunsOK
<1>6. BatchOK'
  <2>1. \A j \in Runs : Batch(j)' = Batch(j)
    BY <1>2, <1>3 DEF Batch
  <2>2. next.left \subseteq Webhooks /\ next.pc # "again"
    BY <1>2 DEF Run
  <2>3. \A m \in Batch(i) : /\ m.tries <= Recurrent /\ posts[m.id] = m.tries
                            /\ \A w \in Webhooks : acked[m.id][w] = 0
    BY <1>1 DEF IInv, BatchOK, BatchRow
  <2> QED BY <1>1, <1>2, <1>3, <2>1, <2>2, <2>3 DEF IInv, BatchOK, BatchRow
<1> QED BY <1>1, <1>2, <1>3, <1>5, <1>6, SameNotes DEF IInv

\* One webhook has answered, or never will: the notifications of this batch
\* are nowhere else, and this webhook had not been asked yet.
LEMMA SendReqKeeps ==
  ASSUME IInv, NEW i \in Runs, NEW w \in Webhooks, NEW answer \in {"ok", "error", "hang"},
         send_req(i, w, answer)
  PROVE  IInv'
<1> DEFINE okay == run[i].okay \/ answer = "ok"
           pc   == IF answer = "hang" THEN "hung" ELSE "posting"
           Hit(n) == answer = "ok" /\ \E m \in Batch(i) : m.id = n
<1>1. /\ run \in [Runs -> Run] /\ run[i] \in Run /\ run[i].pc = "posting" /\ w \in run[i].left
      /\ acked \in [Ids -> [Webhooks -> Nat]]
      /\ UNCHANGED <<queue, life, posts, sent, lost>>
  BY DEF IInv, Shape, send_req, hist
<1>2. run' = [run EXCEPT ![i].left = @ \ {w}, ![i].okay = okay, ![i].pc = pc]
  BY <1>1 DEF send_req, Okay
<1>3. \A n \in Ids : Hit(n) <=> answer = "ok" /\ \E k \in 1..Len(run[i].batch) : run[i].batch[k].id = n
  BY DEF Batch, Notes
<1>4. acked' = [n \in Ids |-> IF Hit(n) THEN [acked[n] EXCEPT ![w] = @ + 1] ELSE acked[n]]
  BY <1>3 DEF send_req
<1>5. okay \in BOOLEAN /\ pc \in {"hung", "posting"}
  BY <1>1 DEF Run
<1> HIDE DEF okay, pc
<1>6. /\ run'[i].batch = run[i].batch /\ run'[i].left = run[i].left \ {w}
      /\ run'[i].okay = okay /\ run'[i].pc = pc
      /\ \A j \in Runs : j # i => run'[j] = run[j]
      /\ run' \in [Runs -> Run]
  BY <1>1, <1>2, <1>5 DEF Run
<1>7. /\ \A j \in Runs : Batch(j)' = Batch(j)
      /\ Notes(queue)' = Notes(queue)
  BY <1>1, <1>6 DEF Batch
<1>8. /\ acked' \in [Ids -> [Webhooks -> Nat]]
      /\ \A n \in Ids : ~Hit(n) => acked'[n] = acked[n]
      /\ \A n \in Ids : Hit(n) => /\ acked'[n][w] = acked[n][w] + 1
                                  /\ \A v \in Webhooks : v # w => acked'[n][v] = acked[n][v]
  <2> HIDE DEF Hit
  <2> QED BY <1>1, <1>4
<1>9. /\ \A n \in Ids : Hit(n) => acked[n][w] = 0 /\ n <= sent
      /\ \A m \in Notes(queue) : ~Hit(m.id)
      /\ \A j \in Runs : j # i => \A m \in Batch(j) : ~Hit(m.id)
      /\ \A m \in Batch(i) : Hit(m.id) <=> answer = "ok"
  BY <1>1 DEF IInv, BatchOK, BatchRow, Unused, OnePlace, Apart
<1>10. /\ \A m \in Notes(queue) : m.id \in Ids
       /\ \A j \in Runs : \A m \in Batch(j) : m.id \in Ids
  BY <1>1, NotesTyped DEF IInv, Shape, Run, Batch
<1> HIDE DEF Hit
<1>11. Shape' /\ RunsOK'
  BY <1>1, <1>5, <1>6, <1>8 DEF IInv, Shape, RunsOK
<1>12. OnePlace'
  BY <1>1, <1>6, <1>7 DEF IInv, OnePlace
<1>13. Unused' /\ QueueOK'
  <2>1. \A n \in Ids : n > sent => ~Hit(n)
    BY <1>9 DEF IInv, Shape, Ids
  <2> QED BY <1>1, <1>7, <1>8, <1>9, <1>10, <2>1 DEF IInv, Unused, QueueOK
<1>14. AcceptedOnce'
  <2> SUFFICES ASSUME NEW n \in Ids, NEW v \in Webhooks PROVE acked'[n][v] <= 1
    BY DEF AcceptedOnce
  <2>1. acked[n][v] <= 1
    BY DEF IInv, AcceptedOnce
  <2>2. CASE Hit(n) /\ v = w
    BY <1>8, <1>9, <2>2
  <2>3. CASE ~(Hit(n) /\ v = w)
    BY <1>8, <2>1, <2>3
  <2> QED BY <2>2, <2>3
<1>15. GivenUpLast'
  <2>1. \A n : Remembered(n)' <=> Remembered(n)
    BY <1>7 DEF Remembered
  <2>2. ASSUME NEW n \in Ids, NEW v \in Webhooks, acked[n][v] > 0 PROVE acked'[n][v] > 0
    <3>1. CASE Hit(n) /\ v = w
      BY <1>9, <2>2, <3>1
    <3>2. CASE ~(Hit(n) /\ v = w)
      BY <1>8, <2>2, <3>2
    <3> QED BY <3>1, <3>2
  <2>3. 1..sent \subseteq Ids
    BY DEF IInv, Shape, Ids
  <2> QED BY <1>1, <2>1, <2>2, <2>3, InMemoryIs DEF IInv, GivenUpLast
<1>16. BatchOK'
  <2> SUFFICES ASSUME NEW j \in Runs, NEW m \in Batch(j)
               PROVE  /\ m.tries <= Recurrent
                      /\ posts'[m.id] = IF run'[j].pc = "again" THEN m.tries + 1 ELSE m.tries
                      /\ \A v \in run'[j].left : acked'[m.id][v] = 0
                      /\ IF run'[j].okay THEN \E v \in Webhooks : acked'[m.id][v] > 0
                                         ELSE \A v \in Webhooks : acked'[m.id][v] = 0
    BY <1>7 DEF BatchOK, BatchRow
  <2>1. CASE j # i
    BY <1>1, <1>6, <1>8, <1>9, <1>10, <2>1 DEF IInv, BatchOK, BatchRow
  <2>2. CASE j = i
    <3>1. /\ m.tries <= Recurrent /\ posts[m.id] = m.tries
          /\ \A v \in run[i].left : acked[m.id][v] = 0
          /\ IF run[i].okay THEN \E v \in Webhooks : acked[m.id][v] > 0
                            ELSE \A v \in Webhooks : acked[m.id][v] = 0
      BY <1>1, <2>2 DEF IInv, BatchOK, BatchRow
    <3>2. run[i].left \subseteq Webhooks /\ m.id \in Ids
      BY <1>1, <1>10, <2>2 DEF Run
    <3>3. CASE answer = "ok"
      <4>1. okay /\ acked'[m.id][w] > 0
        BY <1>8, <1>9, <2>2, <3>2, <3>3 DEF okay
      <4> QED BY <1>1, <1>5, <1>6, <1>8, <1>9, <2>2, <3>1, <3>2, <3>3, <4>1
    <3>4. CASE answer # "ok"
      <4>1. okay = run[i].okay /\ acked'[m.id] = acked[m.id]
        BY <1>1, <1>8, <1>9, <2>2, <3>2, <3>4 DEF okay, Run
      <4> QED BY <1>1, <1>5, <1>6, <2>2, <3>1, <4>1
    <3> QED BY <3>3, <3>4
  <2> QED BY <2>1, <2>2
<1> QED BY <1>11, <1>12, <1>13, <1>14, <1>15, <1>16 DEF IInv

\* send has returned.  An accepted batch is settled; another one has been posted
\* once more and is walked over again.
LEMMA PostedKeeps == ASSUME IInv, NEW i \in Runs, Posted(i) PROVE IInv'
<1> DEFINE next == IF run[i].okay THEN Idle ELSE [run[i] EXCEPT !.pc = "again"]
           Hit(n) == \E m \in Batch(i) : m.id = n
<1>1. /\ run \in [Runs -> Run] /\ run[i] \in Run /\ run[i].pc = "posting" /\ run[i].left = {}
      /\ posts \in [Ids -> Nat]
      /\ run' = [run EXCEPT ![i] = next]
      /\ UNCHANGED <<queue, life, acked, sent, lost>>
  BY DEF IInv, Shape, Posted, hist
<1>2. posts' = [n \in Ids |-> IF Hit(n) THEN posts[n] + 1 ELSE posts[n]]
  <2>1. \A n \in Ids : Hit(n) <=> \E k \in 1..Len(run[i].batch) : run[i].batch[k].id = n
    BY DEF Batch, Notes
  <2> QED BY <2>1 DEF Posted
<1>3. /\ next \in Run /\ next.left = {} /\ ~next.okay
      /\ run[i].okay => next = Idle /\ next.pc = "idle" /\ next.batch = <<>>
      /\ ~run[i].okay => next.pc = "again" /\ next.batch = run[i].batch
  <2>1. CASE run[i].okay
    BY <1>1, <2>1, EmptyNotes DEF Run, Idle
  <2>2. CASE ~run[i].okay
    <3>1. next = [run[i] EXCEPT !.pc = "again"]
      BY <2>2
    <3> HIDE DEF next
    <3>2. next \in Run /\ next.batch = run[i].batch /\ next.okay = run[i].okay
          /\ next.left = run[i].left /\ next.pc = "again"
      BY <1>1, <3>1 DEF Run
    <3> QED BY <1>1, <2>2, <3>2
  <2> QED BY <2>1, <2>2
<1> HIDE DEF next
<1>4. /\ run' \in [Runs -> Run] /\ run'[i] = next
      /\ \A j \in Runs : j # i => run'[j] = run[j]
  BY <1>1, <1>3
<1>5. /\ \A j \in Runs : j # i => Batch(j)' = Batch(j)
      /\ Batch(i)' = IF run[i].okay THEN {} ELSE Batch(i)
      /\ Notes(queue)' = Notes(queue)
  BY <1>1, <1>3, <1>4, EmptyNotes DEF Batch
<1>6. /\ posts' \in [Ids -> Nat]
      /\ \A n \in Ids : posts'[n] = IF Hit(n) THEN posts[n] + 1 ELSE posts[n]
  <2> HIDE DEF Hit
  <2> QED BY <1>1, <1>2
<1>7. /\ \A n \in Ids : Hit(n) => n <= sent /\ posts[n] <= Recurrent
      /\ \A m \in Notes(queue) : ~Hit(m.id)
      /\ \A j \in Runs : j # i => \A m \in Batch(j) : ~Hit(m.id)
      /\ \A m \in Batch(i) : Hit(m.id)
  BY <1>1 DEF IInv, BatchOK, BatchRow, Unused, OnePlace, Apart
<1>8. /\ \A m \in Notes(queue) : m.id \in Ids
      /\ \A j \in Runs : \A m \in Batch(j) : m.id \in Ids
  BY <1>1, NotesTyped DEF IInv, Shape, Run, Batch
<1>9. \A n : Remembered(n)' \/ (Hit(n) /\ run[i].okay) <=> Remembered(n)
  <2>1. CASE run[i].okay
    BY <1>5, <2>1 DEF Remembered
  <2>2. CASE ~run[i].okay
    BY <1>5, <2>2 DEF Remembered
  <2> QED BY <2>1, <2>2
<1>10. \A n : Hit(n) /\ run[i].okay => \E v \in Webhooks : acked[n][v] > 0
  BY DEF IInv, BatchOK, BatchRow
<1> HIDE DEF Hit
<1>11. life = "down" \/ life = "up" => life' = life /\ (life = "up" => i # Final) /\ life # "down"
  BY <1>1 DEF IInv, RunsOK
<1>12. Shape' /\ RunsOK'
  BY <1>1, <1>3, <1>4, <1>6, <1>11 DEF IInv, Shape, RunsOK
<1>13. OnePlace'
  <2>1. \A j \in Runs : Distinct(run'[j].batch)
    BY <1>3, <1>4, EmptyNotes DEF IInv, OnePlace
  <2>2. \A j \in Runs : Batch(j)' \subseteq Batch(j)
    BY <1>5
  <2> QED BY <1>1, <1>5, <2>1, <2>2 DEF IInv, OnePlace, Apart
<1>14. Unused'
  <2>1. \A n \in Ids : n > sent => ~Hit(n)
    BY <1>7 DEF IInv, Shape, Ids
  <2> QED BY <1>1, <1>5, <1>6, <2>1 DEF IInv, Unused
<1>15. QueueOK' /\ AcceptedOnce'
  BY <1>1, <1>5, <1>6, <1>7, <1>8 DEF IInv, QueueOK, AcceptedOnce
<1>16. BatchOK'
  <2> SUFFICES ASSUME NEW j \in Runs, NEW m \in Batch(j)' PROVE BatchRow(j, m)'
    BY DEF BatchOK
  <2>0. m \in Batch(j) /\ BatchRow(j, m) /\ m.id \in Ids
    BY <1>5, <1>8 DEF IInv, BatchOK
  <2>1. CASE j # i
    BY <1>1, <1>4, <1>6, <1>7, <2>0, <2>1 DEF BatchRow
  <2>2. CASE j = i
    BY <1>1, <1>3, <1>4, <1>5, <1>6, <1>7, <2>0, <2>2 DEF BatchRow
  <2> QED BY <2>1, <2>2
<1>17. GivenUpLast'
  <2>1. 1..sent \subseteq Ids
    BY DEF IInv, Shape, Ids
  <2>2. \A n \in 1..sent : posts'[n] <= Recurrent + 1
    BY <1>1, <1>6, <1>7, <2>1 DEF IInv, GivenUpLast
  <2>3. ASSUME NEW n \in 1..sent, n \notin lost', ~Remembered(n)'
        PROVE  (\E v \in Webhooks : acked'[n][v] > 0) \/ posts'[n] = Recurrent + 1
    <3>1. CASE Hit(n) /\ run[i].okay
      BY <1>1, <1>10, <3>1
    <3>2. CASE ~(Hit(n) /\ run[i].okay)
      <4>1. ~Remembered(n)
        BY <1>9, <2>3, <3>2
      <4>2. ~Hit(n)
        BY <4>1 DEF Hit, Remembered
      <4> QED BY <1>1, <1>6, <2>1, <2>3, <4>1, <4>2, InMemoryIs DEF IInv, GivenUpLast
    <3> QED BY <3>1, <3>2
  <2> QED BY <1>1, <2>2, <2>3, InMemoryIs DEF GivenUpLast
<1> QED BY <1>12, <1>13, <1>14, <1>15, <1>16, <1>17 DEF IInv

\* One turn of the loop after a failed post: the notification goes back to the
\* queue with one try more, or was posted for the last time.
LEMMA PutBackKeeps == ASSUME IInv, NEW i \in Runs, PutBack(i) PROVE IInv'
<1> DEFINE batch == run[i].batch
           n     == Head(batch)
           rest  == Tail(batch)
           next  == IF Len(batch) = 1 THEN Idle ELSE [run[i] EXCEPT !.batch = rest]
           again == [n EXCEPT !.tries = @ + 1, !.wait = Timeout]
<1>1. /\ run \in [Runs -> Run] /\ run[i] \in Run /\ run[i].pc = "again"
      /\ run[i].left = {} /\ ~run[i].okay
      /\ batch \in Seq(Note) /\ batch # <<>> /\ queue \in Seq(Note)
      /\ run' = [run EXCEPT ![i] = next]
      /\ queue' = Again(queue, n)
      /\ UNCHANGED <<life, posts, acked, sent, lost>>
  <2>1. /\ run \in [Runs -> Run] /\ run[i] \in Run /\ queue \in Seq(Note)
    BY DEF IInv, Shape
  <2>2. run[i].pc = "again" /\ batch # <<>> /\ UNCHANGED <<life, posts, acked, sent, lost>>
    BY DEF PutBack, hist
  <2>3. run[i].left = {} /\ ~run[i].okay
    BY <2>2 DEF IInv, RunsOK
  <2>4. batch \in Seq(Note)
    BY <2>1 DEF Run
  <2>5. run' = [run EXCEPT ![i] = next] /\ queue' = Again(queue, n)
    BY DEF PutBack
  <2> QED BY <2>1, <2>2, <2>3, <2>4, <2>5
<1>2. /\ n \in Note /\ rest \in Seq(Note) /\ Batch(i) = Notes(rest) \cup {n}
      /\ Distinct(rest) /\ Apart(Notes(rest), {n})
      /\ Len(batch) = 1 => Batch(i) = {n}
  BY <1>1, TailNotes DEF IInv, OnePlace, Batch
<1>3. /\ next \in Run /\ next.left = {} /\ ~next.okay
      /\ Distinct(next.batch) /\ Notes(next.batch) = Batch(i) \ {n}
      /\ next.pc = "again" \/ (next = Idle /\ next.pc = "idle")
  <2>1. CASE Len(batch) = 1
    BY <1>1, <1>2, <2>1, EmptyNotes DEF Run, Idle
  <2>2. CASE Len(batch) # 1
    <3>1. next = [run[i] EXCEPT !.batch = rest]
      BY <2>2
    <3> HIDE DEF next, rest, n
    <3>2. next \in Run /\ next.batch = rest /\ next.okay = run[i].okay
          /\ next.left = run[i].left /\ next.pc = "again"
      BY <1>1, <1>2, <3>1 DEF Run
    <3>3. Batch(i) \ {n} = Notes(rest)
      BY <1>2 DEF Apart
    <3> QED BY <1>1, <1>2, <3>2, <3>3
  <2> QED BY <2>1, <2>2
<1>4. /\ n.tries \in Nat /\ n.tries <= Recurrent /\ n.id \in Ids /\ n.id <= sent
      /\ posts[n.id] = n.tries + 1 /\ \A w \in Webhooks : acked[n.id][w] = 0
  BY <1>1, <1>2 DEF IInv, BatchOK, BatchRow, Note, Unused
<1>5. again \in Note /\ again.id = n.id /\ again.tries = n.tries + 1
  <2>1. n \in Note /\ n.tries + 1 \in Nat /\ Timeout \in Nat
    BY <1>2, <1>4
  <2>2. again = [n EXCEPT !.tries = n.tries + 1, !.wait = Timeout]
    OBVIOUS
  <2> HIDE DEF n, again
  <2> QED BY <2>1, <2>2 DEF Note
<1>6. \/ n.tries = Recurrent /\ queue' = queue
      \/ n.tries + 1 <= Recurrent /\ queue' = Append(queue, again)
  BY <1>1, <1>4 DEF Again
<1> HIDE DEF batch, n, rest, next, again
<1>7. /\ run' \in [Runs -> Run] /\ run'[i] = next
      /\ \A j \in Runs : j # i => run'[j] = run[j] /\ Batch(j)' = Batch(j)
      /\ Batch(i)' = Batch(i) \ {n}
  BY <1>1, <1>3 DEF Batch
<1>8. /\ Apart(Notes(queue), {n})
      /\ \A j \in Runs : j # i => Apart({n}, Batch(j))
      /\ Apart({n}, Batch(i)')
      /\ \A j, k \in Runs : j # k => Apart(Batch(j)', Batch(k)')
      /\ \A j \in Runs : Apart(Notes(queue), Batch(j)') /\ Distinct(run'[j].batch)
      /\ \A j \in Runs : Batch(j)' \subseteq Batch(j)
  <2>1. Batch(i)' \subseteq Notes(rest)
    BY <1>2, <1>7
  <2> QED BY <1>2, <1>3, <1>7, <2>1 DEF IInv, OnePlace, Apart
<1>9. Shape' /\ RunsOK'
  <2>1. queue' \in Seq(Note)
    BY <1>1, <1>5, <1>6, AppendNotes
  <2>2. life = "down" \/ life = "up" => life' = life /\ (life = "up" => i # Final) /\ life # "down"
    BY <1>1 DEF IInv, RunsOK
  <2> QED BY <1>1, <1>3, <1>7, <2>1, <2>2 DEF IInv, Shape, RunsOK
<1>10. \/ n.tries = Recurrent /\ Notes(queue)' = Notes(queue) /\ Distinct(queue)'
       \/ /\ n.tries + 1 <= Recurrent /\ Notes(queue)' = Notes(queue) \cup {again}
          /\ Distinct(queue)'
  <2>1. Distinct(queue) /\ Apart(Notes(queue), {again})
    BY <1>5, <1>8 DEF IInv, OnePlace, Apart
  <2>2. queue \in Seq(Note)
    BY DEF IInv, Shape
  <2>3. CASE n.tries = Recurrent /\ queue' = queue
    BY <2>1, <2>3 DEF Notes, Distinct
  <2>4. CASE n.tries + 1 <= Recurrent /\ queue' = Append(queue, again)
    <3>1. /\ Notes(Append(queue, again)) = Notes(queue) \cup {again}
          /\ Distinct(Append(queue, again))
      BY <1>5, <2>1, <2>2, AppendNotes
    <3>2. Notes(queue)' = Notes(queue) \cup {again}
      BY <2>4, <3>1 DEF Notes
    <3>3. Distinct(queue)'
      BY <2>4, <3>1 DEF Distinct
    <3> QED BY <2>4, <3>2, <3>3
  <2> QED BY <1>6, <2>3, <2>4
<1>11. OnePlace'
  <2>1. \A j \in Runs : Apart({again}, Batch(j)')
    BY <1>5, <1>7, <1>8 DEF Apart
  <2> QED BY <1>8, <1>10, <2>1 DEF OnePlace, Apart
<1>12. Unused'
  BY <1>1, <1>4, <1>5, <1>8, <1>10 DEF IInv, Unused
<1>13. QueueOK' /\ AcceptedOnce'
  BY <1>1, <1>4, <1>5, <1>10 DEF IInv, QueueOK, AcceptedOnce
<1>14. BatchOK'
  <2> SUFFICES ASSUME NEW j \in Runs, NEW m \in Batch(j)' PROVE BatchRow(j, m)'
    BY DEF BatchOK
  <2>1. m \in Batch(j) /\ BatchRow(j, m)
    BY <1>8 DEF IInv, BatchOK
  <2>2. CASE j # i
    BY <1>1, <1>7, <2>1, <2>2 DEF BatchRow
  <2>3. CASE j = i
    <3>1. next.pc = "again"
      BY <1>3, <1>7, <2>3, EmptyNotes DEF Batch, Idle
    <3> QED BY <1>1, <1>3, <1>7, <2>1, <2>3, <3>1 DEF BatchRow
  <2> QED BY <2>2, <2>3
<1>15. GivenUpLast'
  <2>1. ASSUME NEW x, Remembered(x), ~Remembered(x)' PROVE x = n.id /\ n.tries = Recurrent
    <3>1. \A m \in Notes(queue) : m \in Notes(queue)'
      BY <1>10
    <3>2. PICK j \in Runs : \E m \in Batch(j) : m.id = x
      BY <2>1, <3>1 DEF Remembered
    <3>3. j = i /\ x = n.id
      BY <1>7, <2>1, <3>2 DEF Remembered
    <3>4. n.tries + 1 <= Recurrent => again \in Notes(queue)'
      BY <1>4, <1>10
    <3> QED BY <1>4, <1>5, <1>10, <2>1, <3>3, <3>4 DEF Remembered
  <2>2. \A x \in 1..sent : x \notin lost /\ ~Remembered(x)' =>
          (\E w \in Webhooks : acked[x][w] > 0) \/ posts[x] = Recurrent + 1
    BY <1>4, <2>1, InMemoryIs DEF IInv, GivenUpLast
  <2> QED BY <1>1, <2>2, InMemoryIs DEF IInv, GivenUpLast
<1> QED BY <1>9, <1>11, <1>12, <1>13, <1>14, <1>15 DEF IInv

\* Time passes.
LEMMA TickKeeps == ASSUME IInv, Tick PROVE IInv'
<1>1. /\ queue \in Seq(Note)
      /\ queue' = [k \in 1..Len(queue) |-> [queue[k] EXCEPT !.wait = IF @ = 0 THEN 0 ELSE @ - 1]]
      /\ UNCHANGED <<run, life, posts, acked, sent, lost>>
  BY DEF IInv, Shape, Tick, hist
<1>2. /\ queue' \in Seq(Note)
      /\ \A m \in Notes(queue') : \E o \in Notes(queue) : m.id = o.id /\ m.tries = o.tries
      /\ \A o \in Notes(queue) : \E m \in Notes(queue') : m.id = o.id
      /\ Distinct(queue')
  BY <1>1, TickNotes, ZenonT(60) DEF IInv, OnePlace
<1>3. \A j \in Runs : Batch(j)' = Batch(j)
  BY <1>1 DEF Batch
<1>4. Shape' /\ RunsOK'
  BY <1>1, <1>2 DEF IInv, Shape, RunsOK
<1>5. OnePlace'
  BY <1>1, <1>2, <1>3 DEF IInv, OnePlace, Apart
<1>6. Unused' /\ QueueOK' /\ AcceptedOnce'
  BY <1>1, <1>2, <1>3, SMTT(30) DEF IInv, Unused, QueueOK, AcceptedOnce
<1>7. BatchOK'
  BY <1>1, <1>3 DEF IInv, BatchOK, BatchRow
<1>8. \A x : Remembered(x)' <=> Remembered(x)
  BY <1>2, <1>3 DEF Remembered
<1>9. GivenUpLast'
  BY <1>1, <1>8, InMemoryIs DEF IInv, GivenUpLast
<1> QED BY <1>4, <1>5, <1>6, <1>7, <1>9 DEF IInv

\* The process stops: what it held in memory is lost, and counted as lost.
LEMMA StopKeeps ==
  ASSUME IInv, life' = "down", lost' = lost \cup InMemory, queue' = <<>>,
         run' = [i \in Runs |-> Idle], UNCHANGED <<sent, posts, acked>>
  PROVE  IInv'
<1>1. \A i \in Runs : run'[i] = Idle /\ run'[i].batch = <<>> /\ Batch(i)' = {}
  BY EmptyNotes DEF Idle, Batch
<1>2. Notes(queue)' = {} /\ Distinct(queue)' /\ queue' \in Seq(Note)
  BY EmptyNotes
<1>3. Shape'
  <2>1. Idle \in Run
    BY EmptyNotes DEF Idle, Run
  <2> QED BY <1>2, <2>1 DEF IInv, Shape
<1>4. RunsOK' /\ OnePlace'
  BY <1>1, <1>2, EmptyNotes DEF RunsOK, OnePlace, Apart, Idle
<1>5. Unused' /\ QueueOK' /\ BatchOK' /\ AcceptedOnce'
  BY <1>1, <1>2 DEF IInv, Unused, QueueOK, BatchOK, AcceptedOnce
<1>6. GivenUpLast'
  BY DEF IInv, GivenUpLast
<1> QED BY <1>3, <1>4, <1>5, <1>6 DEF IInv

\* A step in which only the process comes up again, or nothing happens.
LEMMA IdleKeeps ==
  ASSUME IInv, UNCHANGED <<queue, run, sent, posts, acked, lost>>,
         life' = life \/ (life = "down" /\ life' = "up")
  PROVE  IInv'
<1>1. Shape' /\ RunsOK'
  BY DEF IInv, Shape, RunsOK
<1>2. BatchOK'
  BY DEF IInv, BatchOK, BatchRow, Batch
<1> QED BY <1>1, <1>2, SameNotes DEF IInv

LEMMA NextIInv == IInv /\ [Next]_vars => IInv'
<1> SUFFICES ASSUME IInv, [Next]_vars PROVE IInv'
  OBVIOUS
<1>1. CASE notify
  BY <1>1, NotifyKeeps
<1>2. CASE Tick
  BY <1>2, TickKeeps
<1>3. CASE app_shutdown
  <2>1. Final \in Runs /\ run[Final].pc = "idle" /\ life = "up"
    BY <1>3 DEF IInv, RunsOK, app_shutdown, Runs
  <2> QED BY <1>3, <2>1, FireKeeps DEF app_shutdown
<1>4. CASE on_shutdown
  BY <1>4, StopKeeps DEF on_shutdown, Down
<1>5. CASE Crash
  BY <1>5, StopKeeps DEF Crash
<1>6. CASE Restart
  BY <1>6, IdleKeeps DEF Restart, hist
<1>7. ASSUME NEW i \in Runs, send_notifications(i) PROVE IInv'
  <2>1. CASE Fire(i)
    BY <2>1, FireKeeps DEF Fire, hist
  <2> QED BY <1>7, <2>1, PopKeeps, PopNoneKeeps, PostedKeeps, PutBackKeeps DEF send_notifications
<1>8. ASSUME NEW i \in Runs, NEW w \in Webhooks, NEW answer \in {"ok", "error", "hang"},
             send_req(i, w, answer)
      PROVE  IInv'
  BY <1>8, SendReqKeeps
<1>9. CASE UNCHANGED vars
  BY <1>9, IdleKeeps DEF vars
<1> QED BY <1>1, <1>2, <1>3, <1>4, <1>5, <1>6, <1>7, <1>8, <1>9 DEF Next

-----------------------------------------------------------------------------
\* send_notifications: whatever instances overlap, fail, hang or are cut off by a
\* stop of the panel, no webhook accepts a notification twice.
THEOREM NoDoubleDelivery == Spec => []AcceptedOnce
<1>1. IInv => AcceptedOnce
  BY DEF IInv
<1> QED BY <1>1, InitIInv, NextIInv, PTL DEF Spec

\* The retry loop: a notification leaves the panel's memory only accepted, lost
\* with the process, or after NUMBER_OF_RECURRENT_NOTIFICATIONS + 1 posts, and
\* is never posted more often.
THEOREM NothingDroppedEarly == Spec => []GivenUpLast
<1>1. IInv => GivenUpLast
  BY DEF IInv
<1> QED BY <1>1, InitIInv, NextIInv, PTL DEF Spec
=============================================================================
