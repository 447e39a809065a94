------------------------- MODULE NodeConnectProofs -------------------------
(***************************************************************************)
(* The life of a node, for any nodes, any number of pool jobs, objects and *)
(* permits and any number of failures, admin requests and panel restarts:  *)
(* no path out of a connect leaks its slot or its permit, a node shown as  *)
(* connected has reported its version, and a soft connect never costs the  *)
(* panel a session the node accepts.                                       *)
(***************************************************************************)
EXTENDS NodeConnect, FiniteSetTheorems, TLAPS

USE NoneAssumption, NodeAssumption

Job == [pc : PCs, kind : {"connect", "restart"}, n : Nodes \cup {None}, force : BOOLEAN,
        obj : Objects \cup {None}, att : Nat, goal : Status]

\* A job j that executes the connect of node w (or None): only a connect past
\* its start has a slot to give back.
JobOK(j, w) ==
  /\ j.pc # "idle" => j.n \in Nodes
  /\ j.pc \in {"idle", "start"} => w = None
  /\ w # None => j.n = w /\ j.kind = "connect"
  /\ j.pc \in {"rping", "rdisc"} => j.kind = "restart"
  /\ j.pc = "sem" => j.kind = "connect"

\* A job j that has a permit is an attempt under way; the row is set to
\* connecting before there is one.
PermitOK(j) ==
  /\ j.kind = "connect"
  /\ j.pc \notin {"idle", "start", "read", "getobj", "sem", "rping"}
  /\ j.pc \in {"stRead", "stWrite"} => j.goal # "connecting"

JobsOK ==
  /\ \A t \in Threads : JobOK(job[t], work[t])
  /\ \A t \in sem : PermitOK(job[t])

PermitsOK == sem \subseteq Threads /\ IsFiniteSet(sem) /\ Cardinality(sem) <= Permits

\* Who owns a slot is working on that node.
OwnersOK == \A n \in Nodes : owner[n] # None => work[owner[n]] = n

SlotInv == job \in [Threads -> Job] /\ SlotTypeOK /\ JobsOK /\ PermitsOK /\ OwnersOK

\* What else the jobs rely on: the registered objects, and the node of an
\* admin request under way.
MemInv ==
  /\ nodes \in [Nodes -> Objects \cup {None}]
  /\ admin.pc # "idle" => admin.n \in Nodes

RowInv == row \in [Nodes -> Status \cup {"absent"}] /\ ConnectedHasVersion

-----------------------------------------------------------------------------
\* The ways a step changes the job table.

\* Only job t changes.
Moved(t) == job' \in [Threads -> Job] /\ \A u \in Threads \ {t} : job'[u] = job[u]

LEMMA GotoMoves ==
  ASSUME job \in [Threads -> Job], NEW t \in Threads, NEW pc \in PCs, Goto(t, pc)
  PROVE  /\ Moved(t) /\ job'[t].pc = pc
         /\ job'[t].n = job[t].n /\ job'[t].kind = job[t].kind /\ job'[t].goal = job[t].goal
<1> DEFINE j == [job[t] EXCEPT !.pc = pc]
<1>1. j \in Job /\ j.pc = pc /\ j.n = job[t].n /\ j.kind = job[t].kind /\ j.goal = job[t].goal
  BY DEF Job
<1>2. job' = [job EXCEPT ![t] = j]
  BY DEF Goto
<1> HIDE DEF j
<1> QED BY <1>1, <1>2 DEF Moved

LEMMA FinishMoves ==
  ASSUME job \in [Threads -> Job], NEW t \in Threads, NEW pc \in PCs, Finish(t, pc)
  PROVE  /\ Moved(t) /\ job'[t].pc = pc /\ job'[t].goal = "error"
         /\ job'[t].n = job[t].n /\ job'[t].kind = job[t].kind
<1> DEFINE j == [job[t] EXCEPT !.pc = pc, !.att = 0, !.goal = "error"]
<1>1. j \in Job /\ j.pc = pc /\ j.goal = "error" /\ j.n = job[t].n /\ j.kind = job[t].kind
  BY DEF Job, Status
<1>2. job' = [job EXCEPT ![t] = j]
  BY DEF Finish
<1> HIDE DEF j
<1> QED BY <1>1, <1>2 DEF Moved

LEMMA AttemptFailsMoves ==
  ASSUME job \in [Threads -> Job], NEW t \in Threads, AttemptFails(t)
  PROVE  /\ Moved(t) /\ sem' = sem \ {t}
         /\ job'[t].n = job[t].n /\ job'[t].kind = job[t].kind
         /\ \/ job'[t].pc = "sem" /\ job'[t].kind = "connect"
            \/ job'[t].pc = "stRead" /\ job'[t].goal = "error"
<1>1. "error" \in Status /\ "sem" \in PCs /\ "stRead" \in PCs /\ job[t] \in Job
  BY DEF Status, PCs
<1>2. CASE job[t].kind = "connect" /\ job[t].att < MaxAttempts(t)
  <2> DEFINE j == [job[t] EXCEPT !.pc = "sem", !.att = job[t].att + 1]
  <2>0. job[t].att + 1 \in Nat
    BY <1>1 DEF Job
  <2>1. j \in Job /\ j.n = job[t].n /\ j.kind = job[t].kind /\ j.pc = "sem"
    BY <1>1, <2>0 DEF Job
  <2>2. job' = [job EXCEPT ![t] = j] /\ sem' = sem \ {t}
    BY <1>2 DEF AttemptFails
  <2> HIDE DEF j
  <2> QED BY <1>2, <2>1, <2>2 DEF Moved
<1>3. CASE ~(job[t].kind = "connect" /\ job[t].att < MaxAttempts(t))
  <2> DEFINE j == [job[t] EXCEPT !.pc = "stRead", !.att = 0, !.goal = "error"]
  <2>1. j \in Job /\ j.n = job[t].n /\ j.kind = job[t].kind /\ j.pc = "stRead" /\ j.goal = "error"
    BY <1>1 DEF Job
  <2>2. job' = [job EXCEPT ![t] = j] /\ sem' = sem \ {t}
    BY <1>3 DEF AttemptFails
  <2> HIDE DEF j
  <2> QED BY <2>1, <2>2 DEF Moved
<1> QED BY <1>2, <1>3

LEMMA SubmitMoves ==
  ASSUME job \in [Threads -> Job], NEW j \in Job, Submit(j)
  PROVE  \E t \in Threads : job[t] = Idle /\ Moved(t) /\ job'[t] = j
  BY DEF Submit, Moved

LEMMA NewJobs ==
  ASSUME NEW n \in Nodes, NEW force \in BOOLEAN
  PROVE  /\ Idle \in Job /\ ConnectJob(n, force) \in Job /\ RestartJob(n) \in Job
         /\ Idle.pc = "idle"
         /\ ConnectJob(n, force).pc = "start" /\ ConnectJob(n, force).n = n
         /\ ConnectJob(n, force).kind = "connect"
         /\ RestartJob(n).pc = "start" /\ RestartJob(n).n = n
  BY DEF Idle, ConnectJob, RestartJob, Job, PCs, Status

\* Raise: the connect is deferred and keeps what it holds until its end, or the
\* attempt has failed and its permit is back.
Raised(t) == (Finish(t, "release") /\ UNCHANGED sem) \/ AttemptFails(t)

LEMMA RaiseMoves ==
  ASSUME job \in [Threads -> Job], NEW t \in Threads, Raised(t)
  PROVE  /\ Moved(t) /\ sem' \in {sem, sem \ {t}}
         /\ job'[t].n = job[t].n /\ job'[t].kind = job[t].kind
         /\ \/ job'[t].pc = "release"
            \/ job'[t].pc = "sem" /\ job'[t].kind = "connect" /\ sem' = sem \ {t}
            \/ job'[t].pc = "stRead" /\ job'[t].goal = "error"
<1>1. CASE Finish(t, "release") /\ UNCHANGED sem
  <2>1. Finish(t, "release") /\ sem' = sem /\ "release" \in PCs
    BY <1>1 DEF PCs
  <2> QED BY <2>1, FinishMoves
<1>2. CASE AttemptFails(t)
  BY <1>2, AttemptFailsMoves
<1> QED BY <1>1, <1>2 DEF Raised

\* The first half of a status update.
LEMMA ReadStatusMoves ==
  ASSUME job \in [Threads -> Job], NEW t \in Threads, NEW goal \in Status, ReadStatus(t, goal)
  PROVE  /\ Moved(t)
         /\ job'[t].n = job[t].n /\ job'[t].kind = job[t].kind
         /\ \/ job'[t].pc \in {AfterRefusal(t), "rmInval"}
            \/ job'[t].pc = "stWrite" /\ job'[t].goal = goal
<1>0. /\ AfterRefusal(t) \in PCs /\ "rmInval" \in PCs /\ "stWrite" \in PCs /\ job[t] \in Job
  BY DEF AfterRefusal, PCs
<1>1. CASE row[Node(t)] = "absent"
  <2>1. Finish(t, AfterRefusal(t))
    BY <1>1 DEF ReadStatus
  <2> QED BY <1>0, <2>1, FinishMoves
<1>2. CASE row[Node(t)] = "disabled"
  <2>1. Finish(t, "rmInval")
    BY <1>2 DEF ReadStatus
  <2> QED BY <1>0, <2>1, FinishMoves
<1>3. CASE row[Node(t)] \notin {"absent", "disabled"}
  <2> DEFINE j == [job[t] EXCEPT !.pc = "stWrite", !.goal = goal]
  <2>1. j \in Job /\ j.n = job[t].n /\ j.kind = job[t].kind /\ j.pc = "stWrite" /\ j.goal = goal
    BY <1>0 DEF Job
  <2>2. job' = [job EXCEPT ![t] = j]
    BY <1>3 DEF ReadStatus
  <2> HIDE DEF j
  <2> QED BY <2>1, <2>2 DEF Moved
<1> QED BY <1>1, <1>2, <1>3

-----------------------------------------------------------------------------
\* SlotInv, one lemma per kind of step.

\* A permit is given back, or nothing happens to the permits.
LEMMA FewerPermits ==
  ASSUME PermitsOK, NEW t, sem' \in {sem, sem \ {t}}
  PROVE  PermitsOK'
<1>1. sem' \subseteq sem
  OBVIOUS
<1>2. IsFiniteSet(sem') /\ Cardinality(sem') <= Cardinality(sem)
  BY <1>1, FS_Subset DEF PermitsOK
<1>3. Cardinality(sem) \in Nat /\ Cardinality(sem') \in Nat
  BY <1>2, FS_CardinalityType DEF PermitsOK
<1> QED BY <1>1, <1>2, <1>3 DEF PermitsOK

\* Only the record of job t changes.
LEMMA JobMoves ==
  ASSUME SlotInv, NEW t \in Threads, Moved(t), work' = work, sem' \in {sem, sem \ {t}},
         JobOK(job'[t], work[t]), t \in sem' => PermitOK(job'[t])
  PROVE  job' \in [Threads -> Job] /\ JobsOK' /\ PermitsOK'
<1>1. PermitsOK'
  BY FewerPermits DEF SlotInv
<1>2. ASSUME NEW u \in Threads PROVE JobOK(job'[u], work'[u])
  <2>1. work'[u] = work[u] /\ JobOK(job[u], work[u])
    BY DEF SlotInv, JobsOK
  <2> QED BY <2>1 DEF Moved
<1>3. ASSUME NEW u \in sem' PROVE PermitOK(job'[u])
  <2>1. u \in sem /\ u \in Threads /\ PermitOK(job[u])
    BY <1>1 DEF SlotInv, JobsOK, PermitsOK
  <2> QED BY <2>1 DEF Moved
<1> QED BY <1>1, <1>2, <1>3 DEF JobsOK, Moved

LEMMA MoveKeeps ==
  ASSUME SlotInv, NEW t \in Threads, Moved(t), UNCHANGED slotVars, sem' \in {sem, sem \ {t}},
         JobOK(job'[t], work[t]), t \in sem' => PermitOK(job'[t])
  PROVE  SlotInv'
<1>1. job' \in [Threads -> Job] /\ JobsOK' /\ PermitsOK'
  BY JobMoves DEF slotVars
<1>2. SlotTypeOK' /\ OwnersOK'
  BY DEF SlotInv, SlotTypeOK, OwnersOK, slotVars
<1> QED BY <1>1, <1>2 DEF SlotInv

\* The same for a job under way that goes on with its work.
LEMMA StepKeeps ==
  ASSUME SlotInv, NEW t \in Threads, Moved(t), UNCHANGED slotVars, sem' \in {sem, sem \ {t}},
         job[t].pc \notin {"idle", "start"}, job'[t].pc \notin {"idle", "start"},
         job'[t].n = job[t].n, job'[t].kind = job[t].kind,
         job'[t].pc \in {"rping", "rdisc"} => job[t].kind = "restart",
         job'[t].pc = "sem" => job[t].kind = "connect",
         t \in sem' => /\ job'[t].pc \notin {"read", "getobj", "sem", "rping"}
                       /\ job'[t].pc \in {"stRead", "stWrite"} => job'[t].goal # "connecting"
  PROVE  SlotInv'
<1>1. JobOK(job[t], work[t]) /\ (t \in sem => PermitOK(job[t]))
  BY DEF SlotInv, JobsOK
<1>2. JobOK(job'[t], work[t])
  BY <1>1 DEF JobOK
<1>3. t \in sem' => PermitOK(job'[t])
  BY <1>1 DEF PermitOK
<1> QED BY <1>2, <1>3, MoveKeeps

\* A job that only moves its program counter.
LEMMA GotoKeeps ==
  ASSUME SlotInv, NEW t \in Threads, NEW pc \in PCs, Goto(t, pc), UNCHANGED <<slotVars, sem>>,
         job[t].pc \notin {"idle", "start"}, pc \notin {"idle", "start", "sem", "stRead", "stWrite"},
         pc \in {"rping", "rdisc"} => job[t].kind = "restart",
         t \in sem => pc \notin {"read", "getobj", "rping"}
  PROVE  SlotInv'
<1>1. /\ Moved(t) /\ job'[t].pc = pc
      /\ job'[t].n = job[t].n /\ job'[t].kind = job[t].kind
  BY GotoMoves DEF SlotInv
<1> QED BY <1>1, StepKeeps

\* A job is handed to the pool.
LEMMA SubmitKeeps ==
  ASSUME SlotInv, NEW j \in Job, j.pc = "start", j.n \in Nodes, Submit(j),
         UNCHANGED <<slotVars, sem>>
  PROVE  SlotInv'
<1>1. PICK t \in Threads : job[t] = Idle /\ Moved(t) /\ job'[t] = j
  BY SubmitMoves DEF SlotInv
<1>2. JobOK(Idle, work[t]) /\ (t \in sem => PermitOK(Idle))
  BY <1>1 DEF SlotInv, JobsOK
<1>3. work[t] = None /\ t \notin sem
  BY <1>2 DEF JobOK, PermitOK, Idle
<1>4. JobOK(job'[t], work[t])
  BY <1>1, <1>3 DEF JobOK
<1> QED BY <1>1, <1>3, <1>4, MoveKeeps

\* invalidate_connect_slot, and a slot that gets stale.
LEMMA RevokeKeeps ==
  ASSUME SlotInv, NEW n \in Nodes, Revoke(n) \/ Expire(n)
  PROVE  SlotTypeOK' /\ OwnersOK' /\ work' = work
  BY DEF SlotInv, SlotTypeOK, OwnersOK, Revoke, Expire

LEMMA LooseKeeps ==
  ASSUME SlotInv, UNCHANGED <<job, sem>>,
         UNCHANGED slotVars \/ \E n \in Nodes : Revoke(n) \/ Expire(n)
  PROVE  SlotInv'
<1>1. SlotTypeOK' /\ OwnersOK' /\ work' = work
  <2>1. CASE UNCHANGED slotVars
    BY <2>1 DEF SlotInv, SlotTypeOK, OwnersOK, slotVars
  <2> QED BY <2>1, RevokeKeeps
<1>2. JobsOK' /\ PermitsOK'
  BY <1>1 DEF SlotInv, JobsOK, PermitsOK
<1> QED BY <1>1, <1>2 DEF SlotInv

\* _acquire_connect_slot, or the job ends at once.
LEMMA ConnectStartKeeps == ASSUME SlotInv, NEW t \in Threads, ConnectStart(t) PROVE SlotInv'
<1> DEFINE n == Node(t)
<1>1. /\ job \in [Threads -> Job] /\ job[t] \in Job /\ job[t].pc = "start"
      /\ job[t].kind = "connect" /\ sem' = sem
  BY DEF SlotInv, ConnectStart, At
<1>2. n \in Nodes /\ work[t] = None /\ t \notin sem
  BY <1>1 DEF SlotInv, JobsOK, JobOK, PermitOK, Node
<1>3. CASE Available(n)
  <2>1. Take(t, n) /\ Goto(t, "read") /\ "read" \in PCs
    BY <1>3 DEF ConnectStart, PCs
  <2>2. Moved(t) /\ job'[t].pc = "read" /\ job'[t].n = n /\ job'[t].kind = "connect"
    BY <1>1, <2>1, GotoMoves DEF Node
  <2>3. SlotTypeOK' /\ \A u \in Threads : work'[u] = IF u = t THEN n ELSE work[u]
    BY <1>2, <2>1 DEF SlotInv, SlotTypeOK, Take
  <2>4. JobsOK'
    <3>1. ASSUME NEW u \in Threads PROVE JobOK(job'[u], work'[u])
      <4>1. CASE u = t
        BY <1>2, <2>2, <2>3, <4>1 DEF JobOK
      <4>2. CASE u # t
        BY <2>2, <2>3, <4>2 DEF SlotInv, JobsOK, Moved
      <4> QED BY <4>1, <4>2
    <3>2. ASSUME NEW u \in sem' PROVE PermitOK(job'[u])
      BY <1>1, <1>2, <2>2 DEF SlotInv, JobsOK, Moved, PermitsOK
    <3> QED BY <3>1, <3>2 DEF JobsOK
  <2>5. OwnersOK'
    <3> SUFFICES ASSUME NEW m \in Nodes, owner'[m] # None PROVE work'[owner'[m]] = m
      BY DEF OwnersOK
    <3>1. CASE m = n
      BY <1>2, <2>1, <2>3, <3>1 DEF SlotInv, SlotTypeOK, Take
    <3>2. CASE m # n
      <4>1. owner'[m] = owner[m] /\ owner[m] \in Threads /\ work[owner[m]] = m
        BY <2>1, <3>2 DEF SlotInv, SlotTypeOK, OwnersOK, Take
      <4>2. owner[m] # t
        BY <1>2, <4>1
      <4> QED BY <2>3, <4>1, <4>2
    <3> QED BY <3>1, <3>2
  <2> QED BY <1>1, <2>2, <2>3, <2>4, <2>5 DEF SlotInv, Moved, PermitsOK
<1>4. CASE ~Available(n)
  <2>1. UNCHANGED slotVars /\ job' = [job EXCEPT ![t] = Idle]
    BY <1>4 DEF ConnectStart
  <2>2. Moved(t) /\ job'[t] = Idle
    BY <1>1, <1>2, <2>1, NewJobs, ZenonT(60) DEF Moved
  <2>3. JobOK(Idle, work[t])
    BY <1>2 DEF JobOK, Idle
  <2> QED BY <1>1, <1>2, <2>1, <2>2, <2>3, MoveKeeps
<1> QED BY <1>3, <1>4

\* The reads of the row before there is a permit.
LEMMA ReadNodeKeeps == ASSUME SlotInv, NEW t \in Threads, ReadNode(t) PROVE SlotInv'
<1> DEFINE j == CASE row[job[t].n] = "absent"     -> [job[t] EXCEPT !.pc = "release"]
                  [] row[job[t].n] = "disabled"   -> [job[t] EXCEPT !.pc = "rmInval"]
                  [] row[job[t].n] = "connecting" -> [job[t] EXCEPT !.pc = "getobj"]
                  [] OTHER -> [job[t] EXCEPT !.pc = "stRead", !.goal = "connecting"]
<1>1. /\ job \in [Threads -> Job] /\ job[t] \in Job /\ job[t].pc = "read"
      /\ UNCHANGED <<slotVars, sem>> /\ job' = [job EXCEPT ![t] = j]
  BY DEF SlotInv, ReadNode, At
<1>2. t \notin sem
  BY <1>1 DEF SlotInv, JobsOK, PermitOK
<1>3. /\ j \in Job /\ j.pc \in {"release", "rmInval", "getobj", "stRead"}
      /\ j.n = job[t].n /\ j.kind = job[t].kind
  BY <1>1 DEF Job, PCs, Status
<1> HIDE DEF j
<1>4. Moved(t) /\ job'[t] = j
  BY <1>1, <1>3 DEF Moved
<1> QED BY <1>1, <1>2, <1>3, <1>4, StepKeeps

LEMMA GetObjectKeeps == ASSUME SlotInv, MemInv, NEW t \in Threads, GetObject(t) PROVE SlotInv'
<1> DEFINE next == IF job[t].kind = "connect" THEN "sem" ELSE "rping"
<1>1. /\ job \in [Threads -> Job] /\ job[t] \in Job /\ job[t].pc = "getobj"
      /\ UNCHANGED <<slotVars, sem>>
  BY DEF SlotInv, GetObject, At
<1>2. t \notin sem /\ job[t].n \in Nodes
  BY <1>1 DEF SlotInv, JobsOK, JobOK, PermitOK
<1>3. PICK o : /\ o \in Objects
               /\ job' = [job EXCEPT ![t].pc = next, ![t].att = 1, ![t].obj = o]
  <2>1. CASE nodes[Node(t)] # None
    BY <1>2, <2>1 DEF GetObject, MemInv, Node
  <2>2. CASE nodes[Node(t)] = None
    BY <2>2 DEF GetObject
  <2> QED BY <2>1, <2>2
<1> DEFINE j == [job[t] EXCEPT !.pc = next, !.att = 1, !.obj = o]
<1>4. j \in Job /\ j.pc = next /\ j.n = job[t].n /\ j.kind = job[t].kind
  BY <1>1, <1>3 DEF Job, PCs
<1>5. job' = [job EXCEPT ![t] = j]
  BY <1>3
<1> HIDE DEF j
<1>6. Moved(t) /\ job'[t] = j
  BY <1>1, <1>4, <1>5 DEF Moved
<1>7. next = "sem" \/ (next = "rping" /\ job[t].kind = "restart")
  BY <1>1 DEF Job
<1> QED BY <1>1, <1>2, <1>4, <1>6, <1>7, StepKeeps

\* The semaphore has one of its permits left.
LEMMA AcquirePermitKeeps == ASSUME SlotInv, NEW t \in Threads, AcquirePermit(t) PROVE SlotInv'
<1>1. /\ job \in [Threads -> Job] /\ job[t].pc = "sem" /\ Cardinality(sem) < Permits
      /\ sem' = sem \cup {t} /\ Goto(t, "attempt") /\ "attempt" \in PCs /\ UNCHANGED slotVars
  BY DEF SlotInv, AcquirePermit, At, PCs
<1>2. Moved(t) /\ job'[t].pc = "attempt" /\ job'[t].n = job[t].n /\ job'[t].kind = job[t].kind
  BY <1>1, GotoMoves
<1>3. JobOK(job[t], work[t]) /\ (t \in sem => PermitOK(job[t]))
  BY DEF SlotInv, JobsOK
<1>4. t \notin sem /\ job[t].kind = "connect"
  BY <1>1, <1>3 DEF JobOK, PermitOK
<1>5. JobOK(job'[t], work[t]) /\ PermitOK(job'[t])
  BY <1>1, <1>2, <1>3, <1>4 DEF JobOK, PermitOK
<1>6. JobsOK'
  <2>1. ASSUME NEW u \in Threads PROVE JobOK(job'[u], work'[u])
    <3>1. work'[u] = work[u] /\ JobOK(job[u], work[u])
      BY <1>1 DEF SlotInv, JobsOK, slotVars
    <3> QED BY <1>2, <1>5, <3>1 DEF Moved
  <2>2. ASSUME NEW u \in sem' PROVE PermitOK(job'[u])
    <3>1. CASE u = t
      BY <1>5, <3>1
    <3>2. CASE u # t
      <4>1. u \in sem /\ u \in Threads /\ PermitOK(job[u])
        BY <1>1, <3>2 DEF SlotInv, JobsOK, PermitsOK
      <4> QED BY <1>2, <3>2, <4>1 DEF Moved
    <3> QED BY <3>1, <3>2
  <2> QED BY <2>1, <2>2 DEF JobsOK
<1>7. PermitsOK'
  <2>1. IsFiniteSet(sem') /\ Cardinality(sem') = Cardinality(sem) + 1
    BY <1>1, <1>4, FS_AddElement DEF SlotInv, PermitsOK
  <2>2. Cardinality(sem) \in Nat
    BY FS_CardinalityType DEF SlotInv, PermitsOK
  <2> QED BY <1>1, <2>1, <2>2 DEF SlotInv, PermitsOK
<1>8. SlotTypeOK' /\ OwnersOK'
  BY <1>1 DEF SlotInv, SlotTypeOK, OwnersOK, slotVars
<1> QED BY <1>2, <1>6, <1>7, <1>8 DEF SlotInv, Moved

\* An exception out of a step of the attempt.
LEMMA RaiseKeeps ==
  ASSUME SlotInv, NEW t \in Threads, Raised(t), UNCHANGED slotVars,
         job[t].pc \notin {"idle", "start"}
  PROVE  SlotInv'
<1>1. /\ Moved(t) /\ sem' \in {sem, sem \ {t}}
      /\ job'[t].n = job[t].n /\ job'[t].kind = job[t].kind
      /\ \/ job'[t].pc = "release"
         \/ job'[t].pc = "sem" /\ job'[t].kind = "connect" /\ sem' = sem \ {t}
         \/ job'[t].pc = "stRead" /\ job'[t].goal = "error"
  BY RaiseMoves DEF SlotInv
<1> QED BY <1>1, StepKeeps

LEMMA FinishKeeps ==
  ASSUME SlotInv, NEW t \in Threads, NEW pc \in PCs, Finish(t, pc), UNCHANGED <<slotVars, sem>>,
         job[t].pc \notin {"idle", "start"}, pc \notin {"idle", "start", "sem"},
         pc \in {"rping", "rdisc"} => job[t].kind = "restart",
         t \in sem => pc \notin {"read", "getobj", "rping"}
  PROVE  SlotInv'
<1>1. /\ Moved(t) /\ job'[t].pc = pc /\ job'[t].goal = "error"
      /\ job'[t].n = job[t].n /\ job'[t].kind = job[t].kind
  BY FinishMoves DEF SlotInv
<1> QED BY <1>1, StepKeeps

\* The steps of an attempt: each goes on or raises.
LEMMA AttemptKeeps ==
  ASSUME SlotInv, NEW t \in Threads,
         HardAttempt(t) \/ TryRestore(t) \/ EnsureControlSession(t) \/ NodeOpensSession(t)
  PROVE  SlotInv'
<1>1. job[t].pc \in {"attempt", "ensure", "conn"} /\ UNCHANGED slotVars
  BY DEF HardAttempt, TryRestore, EnsureControlSession, NodeOpensSession, At
<1>2. \/ Raised(t)
      \/ /\ UNCHANGED sem
         /\ \/ Goto(t, "ensure") \/ Goto(t, "conn") \/ Goto(t, "version") \/ Goto(t, "push")
  <2>1. CASE HardAttempt(t)
    BY <2>1 DEF HardAttempt
  <2>2. CASE TryRestore(t)
    BY <2>2 DEF TryRestore, Raise, Raised
  <2>3. CASE EnsureControlSession(t)
    BY <2>3 DEF EnsureControlSession, Raise, Raised
  <2>4. CASE NodeOpensSession(t)
    BY <2>4 DEF NodeOpensSession, Raise, Raised
  <2> QED BY <2>1, <2>2, <2>3, <2>4
<1>3. {"ensure", "conn", "version", "push"} \subseteq PCs
  BY DEF PCs
<1>4. CASE Raised(t)
  BY <1>1, <1>4, RaiseKeeps
<1>5. ASSUME NEW pc \in {"ensure", "conn", "version", "push"}, Goto(t, pc), UNCHANGED sem
      PROVE  SlotInv'
  BY <1>1, <1>3, <1>5, GotoKeeps
<1> QED BY <1>2, <1>4, <1>5

LEMMA PushConfigKeeps == ASSUME SlotInv, NEW t \in Threads, PushConfig(t) PROVE SlotInv'
<1>1. job[t].pc = "push" /\ UNCHANGED slotVars
  BY DEF PushConfig, At
<1>2. \/ Raised(t)
      \/ UNCHANGED sem /\ (Goto(t, "version") \/ Finish(t, "release"))
  BY DEF PushConfig, AfterPush, Raise, Raised
<1>3. "version" \in PCs /\ "release" \in PCs
  BY DEF PCs
<1>4. CASE Raised(t)
  BY <1>1, <1>4, RaiseKeeps
<1>5. CASE UNCHANGED sem /\ Goto(t, "version")
  BY <1>1, <1>3, <1>5, GotoKeeps
<1>6. CASE UNCHANGED sem /\ Finish(t, "release")
  BY <1>1, <1>3, <1>6, FinishKeeps
<1> QED BY <1>2, <1>4, <1>5, <1>6

LEMMA ReadStatusKeeps ==
  ASSUME SlotInv, NEW t \in Threads, NEW goal \in Status, ReadStatus(t, goal),
         UNCHANGED <<slotVars, sem>>, job[t].pc \notin {"idle", "start"},
         t \in sem => goal # "connecting"
  PROVE  SlotInv'
<1>1. /\ Moved(t)
      /\ job'[t].n = job[t].n /\ job'[t].kind = job[t].kind
      /\ \/ job'[t].pc \in {AfterRefusal(t), "rmInval"}
         \/ job'[t].pc = "stWrite" /\ job'[t].goal = goal
  BY ReadStatusMoves DEF SlotInv
<1>2. AfterRefusal(t) = "release" \/ (AfterRefusal(t) = "rdisc" /\ job[t].kind = "restart")
  BY DEF AfterRefusal, SlotInv, Job
<1> QED BY <1>1, <1>2, StepKeeps

LEMMA StatusReadKeeps == ASSUME SlotInv, NEW t \in Threads, StatusRead(t) PROVE SlotInv'
<1>1. /\ job[t].pc = "stRead" /\ ReadStatus(t, job[t].goal) /\ UNCHANGED <<slotVars, sem>>
  BY DEF StatusRead, At
<1>2. job[t].goal \in Status /\ (t \in sem => job[t].goal # "connecting")
  BY <1>1 DEF SlotInv, Job, JobsOK, PermitOK
<1> QED BY <1>1, <1>2, ReadStatusKeeps

LEMMA GetVersionKeeps == ASSUME SlotInv, NEW t \in Threads, GetVersion(t) PROVE SlotInv'
<1>1. job[t].pc = "version" /\ UNCHANGED slotVars
  BY DEF GetVersion, At
<1>2. "connected" \in Status
  BY DEF Status
<1>3. CASE ReadStatus(t, "connected") /\ UNCHANGED sem
  BY <1>1, <1>2, <1>3, ReadStatusKeeps
<1>4. CASE AttemptFails(t)
  BY <1>1, <1>4, RaiseKeeps DEF Raised
<1> QED BY <1>3, <1>4 DEF GetVersion

\* The status is set to connecting before there is a permit, and the object is
\* looked up only then.
LEMMA StatusWriteKeeps == ASSUME SlotInv, NEW t \in Threads, StatusWrite(t) PROVE SlotInv'
<1> DEFINE goal == job[t].goal
<1>1. job[t].pc = "stWrite" /\ UNCHANGED slotVars /\ job[t] \in Job
  BY DEF StatusWrite, At, SlotInv
<1>2. t \in sem => goal # "connecting"
  BY <1>1 DEF SlotInv, JobsOK, PermitOK
<1>3. AfterRefusal(t) = "release" \/ (AfterRefusal(t) = "rdisc" /\ job[t].kind = "restart")
  BY <1>1 DEF AfterRefusal, Job
<1>4. {"getobj", "release", "rdisc"} \subseteq PCs /\ "stRead" \in PCs /\ "error" \in Status
  BY DEF PCs, Status
<1>5. \/ /\ UNCHANGED sem
         /\ \/ Finish(t, "getobj") /\ goal = "connecting"
            \/ Finish(t, "release")
            \/ Finish(t, AfterRefusal(t))
      \/ AttemptFails(t)
      \/ job' = [job EXCEPT ![t].pc = "stRead", ![t].goal = "error"] /\ UNCHANGED sem
  <2>1. CASE goal = "connecting"
    BY <2>1 DEF StatusWrite
  <2>2. CASE goal = "connected"
    BY <2>2 DEF StatusWrite
  <2>3. CASE goal \notin {"connecting", "connected"}
    BY <2>3 DEF StatusWrite
  <2> QED BY <2>1, <2>2, <2>3
<1>6. ASSUME NEW pc \in {"getobj", "release", "rdisc"}, Finish(t, pc), UNCHANGED sem,
             pc = "getobj" => goal = "connecting", pc = "rdisc" => job[t].kind = "restart"
      PROVE  SlotInv'
  BY <1>1, <1>2, <1>4, <1>6, FinishKeeps
<1>7. CASE AttemptFails(t)
  BY <1>1, <1>7, RaiseKeeps DEF Raised
<1>8. CASE job' = [job EXCEPT ![t].pc = "stRead", ![t].goal = "error"] /\ UNCHANGED sem
  <2> DEFINE j == [job[t] EXCEPT !.pc = "stRead", !.goal = "error"]
  <2>1. /\ j \in Job /\ j.pc = "stRead" /\ j.goal = "error"
        /\ j.n = job[t].n /\ j.kind = job[t].kind
    BY <1>1, <1>4 DEF Job
  <2>2. job' = [job EXCEPT ![t] = j]
    BY <1>8
  <2> HIDE DEF j
  <2>3. Moved(t) /\ job'[t] = j
    BY <2>1, <2>2 DEF Moved, SlotInv
  <2> QED BY <1>1, <1>8, <2>1, <2>3, StepKeeps
<1> HIDE DEF goal
<1> QED BY <1>3, <1>5, <1>6, <1>7, <1>8

LEMMA JobRemoveNodeKeeps == ASSUME SlotInv, NEW t \in Threads, JobRemoveNode(t) PROVE SlotInv'
<1> DEFINE n == Node(t)
<1>1. /\ job[t].pc \in {"rmInval", "rmDisc", "rmDel"} /\ sem' = sem /\ job[t] \in Job
      /\ JobOK(job[t], work[t]) /\ (t \in sem => PermitOK(job[t]))
  BY DEF JobRemoveNode, At, SlotInv, JobsOK
<1>2. n \in Nodes
  BY <1>1 DEF JobOK, Node
<1>3. AfterRefusal(t) = "release" \/ (AfterRefusal(t) = "rdisc" /\ job[t].kind = "restart")
  BY <1>1 DEF AfterRefusal, Job
<1>4. {"rmDisc", "rmDel", "release", "rdisc"} \subseteq PCs
  BY DEF PCs
<1>5. PICK pc \in {"rmDisc", "rmDel", "release", "rdisc"} :
         /\ Goto(t, pc) /\ (pc = "rdisc" => job[t].kind = "restart")
         /\ Revoke(n) \/ UNCHANGED slotVars
  <2>1. CASE At(t, "rmInval")
    <3>1. PICK pc \in {"rmDisc", AfterRefusal(t)} : Goto(t, pc) /\ Revoke(n)
      BY <2>1 DEF JobRemoveNode, At
    <3> QED BY <1>3, <3>1
  <2>2. CASE At(t, "rmDisc")
    BY <2>2 DEF JobRemoveNode, At
  <2>3. CASE At(t, "rmDel")
    <3>1. Goto(t, AfterRefusal(t)) /\ UNCHANGED slotVars
      BY <2>3 DEF JobRemoveNode, At
    <3> QED BY <1>3, <3>1
  <2> QED BY <1>1, <2>1, <2>2, <2>3 DEF At
<1>6. CASE UNCHANGED slotVars
  BY <1>1, <1>4, <1>5, <1>6, GotoKeeps
<1>7. CASE Revoke(n)
  <2>1. /\ Moved(t) /\ job'[t].pc = pc /\ job'[t].n = job[t].n /\ job'[t].kind = job[t].kind
    BY <1>4, <1>5, GotoMoves DEF SlotInv
  <2>2. JobOK(job'[t], work[t]) /\ (t \in sem' => PermitOK(job'[t]))
    BY <1>1, <1>5, <2>1 DEF JobOK, PermitOK
  <2>3. SlotTypeOK' /\ OwnersOK' /\ work' = work
    BY <1>2, <1>7, RevokeKeeps
  <2> QED BY <1>1, <2>1, <2>2, <2>3, JobMoves DEF SlotInv
<1> QED BY <1>5, <1>6, <1>7

\* The finally block: who is not the owner any more frees nothing.
LEMMA EndJobKeeps == ASSUME SlotInv, NEW t \in Threads, EndJob(t) PROVE SlotInv'
<1>1. /\ job \in [Threads -> Job] /\ sem' = sem \ {t} /\ job' = [job EXCEPT ![t] = Idle]
      /\ IF work[t] = None THEN UNCHANGED slotVars ELSE Drop(t)
  BY DEF SlotInv, EndJob
<1>2. Idle \in Job /\ JobOK(Idle, None)
  BY DEF Idle, Job, PCs, Status, JobOK
<1>3. /\ SlotTypeOK' /\ work' = [work EXCEPT ![t] = None]
      /\ \A m \in Nodes : owner'[m] # None => owner'[m] = owner[m] /\ owner[m] # t
  <2>1. CASE work[t] = None
    BY <1>1, <2>1 DEF SlotInv, SlotTypeOK, OwnersOK, slotVars
  <2>2. CASE work[t] # None
    BY <1>1, <2>2 DEF SlotInv, SlotTypeOK, OwnersOK, Drop
  <2> QED BY <2>1, <2>2
<1>4. OwnersOK'
  BY <1>3 DEF SlotInv, OwnersOK, SlotTypeOK
<1>5. JobsOK'
  <2>1. ASSUME NEW u \in Threads PROVE JobOK(job'[u], work'[u])
    <3>1. CASE u = t
      <4>1. job'[u] = Idle /\ work'[u] = None
        BY <1>1, <1>3, <3>1 DEF SlotInv, SlotTypeOK
      <4> QED BY <1>2, <4>1
    <3>2. CASE u # t
      <4>1. job'[u] = job[u] /\ work'[u] = work[u] /\ JobOK(job[u], work[u])
        BY <1>1, <1>3, <3>2 DEF SlotInv, SlotTypeOK, JobsOK
      <4> QED BY <4>1
    <3> QED BY <3>1, <3>2
  <2>2. ASSUME NEW u \in sem' PROVE PermitOK(job'[u])
    <3>1. u # t /\ u \in Threads /\ PermitOK(job[u]) /\ job'[u] = job[u]
      BY <1>1 DEF SlotInv, JobsOK, PermitsOK
    <3> QED BY <3>1
  <2> QED BY <2>1, <2>2 DEF JobsOK
<1>6. PermitsOK'
  BY <1>1, FewerPermits DEF SlotInv
<1>7. job' \in [Threads -> Job]
  BY <1>1, <1>2
<1> QED BY <1>3, <1>4, <1>5, <1>6, <1>7 DEF SlotInv

\* restart_node holds neither a slot nor a permit.
LEMMA RestartKeeps ==
  ASSUME SlotInv, NEW t \in Threads, RestartStart(t) \/ RestartPing(t) \/ RestartDisconnect(t)
  PROVE  SlotInv'
<1>1. /\ job \in [Threads -> Job] /\ job[t] \in Job /\ sem' = sem /\ UNCHANGED slotVars
      /\ JobOK(job[t], work[t]) /\ (t \in sem => PermitOK(job[t]))
      /\ job[t].pc \in {"start", "rping", "rdisc"}
      /\ job[t].pc = "start" => job[t].kind = "restart"
  BY DEF RestartStart, RestartPing, RestartDisconnect, At, SlotInv, JobsOK
<1>2. job[t].kind = "restart" /\ work[t] = None /\ t \notin sem /\ job[t].n \in Nodes
  BY <1>1 DEF JobOK, PermitOK
<1>3. {"release", "getobj", "ensure"} \subseteq PCs
  BY DEF PCs
<1>4. \/ \E pc \in {"release", "getobj", "ensure"} : Goto(t, pc)
      \/ job' = [job EXCEPT ![t] = ConnectJob(job[t].n, FALSE)]
  <2>1. CASE RestartStart(t)
    BY <2>1 DEF RestartStart
  <2>2. CASE RestartPing(t)
    BY <2>2 DEF RestartPing, Node
  <2>3. CASE RestartDisconnect(t)
    BY <2>3 DEF RestartDisconnect
  <2> QED BY <2>1, <2>2, <2>3
<1>5. ASSUME NEW pc \in {"release", "getobj", "ensure"}, Goto(t, pc) PROVE SlotInv'
  <2>1. /\ Moved(t) /\ job'[t].pc = pc /\ job'[t].n = job[t].n /\ job'[t].kind = job[t].kind
    BY <1>1, <1>3, <1>5, GotoMoves
  <2>2. JobOK(job'[t], work[t])
    BY <1>2, <2>1 DEF JobOK
  <2> QED BY <1>1, <1>2, <2>1, <2>2, MoveKeeps
<1>6. CASE job' = [job EXCEPT ![t] = ConnectJob(job[t].n, FALSE)]
  <2> DEFINE j == ConnectJob(job[t].n, FALSE)
  <2>1. j \in Job /\ j.pc = "start" /\ j.n = job[t].n
    BY <1>2, NewJobs
  <2>2. job' = [job EXCEPT ![t] = j]
    BY <1>6
  <2> HIDE DEF j
  <2>3. Moved(t) /\ job'[t] = j
    BY <1>1, <2>1, <2>2 DEF Moved
  <2>4. JobOK(job'[t], work[t])
    BY <1>2, <2>1, <2>3 DEF JobOK
  <2> QED BY <1>1, <1>2, <2>3, <2>4, MoveKeeps
<1> QED BY <1>4, <1>5, <1>6

LEMMA JobStepKeeps == ASSUME SlotInv, MemInv, NEW t \in Threads, JobStep(t) PROVE SlotInv'
  BY ConnectStartKeeps, ReadNodeKeeps, GetObjectKeeps, AcquirePermitKeeps, AttemptKeeps,
     PushConfigKeeps, GetVersionKeeps, StatusReadKeeps, StatusWriteKeeps,
     JobRemoveNodeKeeps, EndJobKeeps, RestartKeeps DEF JobStep

\* The health check and the admin requests only hand jobs to the pool.
LEMMA HandOver ==
  ASSUME SlotInv, NEW n \in Nodes, UNCHANGED <<slotVars, sem>>,
         \/ UNCHANGED job
         \/ \E force \in BOOLEAN : Submit(ConnectJob(n, force))
         \/ Submit(RestartJob(n))
  PROVE  SlotInv'
<1>1. CASE UNCHANGED job
  BY <1>1, LooseKeeps
<1>2. ASSUME NEW force \in BOOLEAN, Submit(ConnectJob(n, force)) PROVE SlotInv'
  BY <1>2, NewJobs, SubmitKeeps
<1>3. CASE Submit(RestartJob(n))
  BY <1>3, NewJobs, SubmitKeeps
<1> QED BY <1>1, <1>2, <1>3

LEMMA HealthKeeps == ASSUME SlotInv, HealthStep PROVE SlotInv'
<1>1. CASE HealthTick
  BY <1>1, LooseKeeps DEF HealthTick
<1>2. ASSUME NEW n \in Nodes, HealthAddNode(n) PROVE SlotInv'
  BY <1>2, LooseKeeps DEF HealthAddNode
<1>3. ASSUME NEW n \in Nodes, HealthConnected(n) PROVE SlotInv'
  <2>1. /\ UNCHANGED <<slotVars, sem>>
        /\ UNCHANGED job \/ Submit(ConnectJob(n, FALSE)) \/ Submit(RestartJob(n))
    BY <1>3 DEF HealthConnected
  <2> QED BY <2>1, HandOver
<1>4. ASSUME NEW n \in Nodes, HealthReconnect(n) PROVE SlotInv'
  <2>1. UNCHANGED <<slotVars, sem>> /\ seen[n] \in {"error", "connecting"}
    BY <1>4 DEF HealthReconnect
  <2>2. ShouldForce(n) \subseteq BOOLEAN
    <3>1. CASE seen[n] = "error"
      BY <3>1 DEF ShouldForce
    <3>2. CASE seen[n] = "connecting"
      BY <3>2 DEF ShouldForce
    <3> QED BY <2>1, <3>1, <3>2
  <2>3. UNCHANGED job \/ \E force \in ShouldForce(n) : Submit(ConnectJob(n, force))
    BY <1>4 DEF HealthReconnect
  <2> QED BY <2>1, <2>2, <2>3, HandOver
<1> QED BY <1>1, <1>2, <1>3, <1>4 DEF HealthStep

LEMMA AdminKeeps ==
  ASSUME SlotInv, MemInv, AdminContinue \/ \E n \in Nodes : AdminStart(n)
  PROVE  SlotInv'
<1>1. ASSUME NEW n \in Nodes, AdminStart(n) PROVE SlotInv'
  <2>1. CASE AdminRestartCore(n)
    <3>1. UNCHANGED <<slotVars, sem>> /\ Submit(RestartJob(n))
      BY <2>1 DEF AdminRestartCore
    <3> QED BY <3>1, HandOver
  <2>2. CASE ~AdminRestartCore(n)
    <3>1. UNCHANGED <<job, sem, slotVars>>
      BY <1>1, <2>2 DEF AdminStart, AdminDisable, AdminEdit, AdminDelete, AdminCreate,
                        AdminReconnect, Request
    <3> QED BY <3>1, LooseKeeps
  <2> QED BY <2>1, <2>2
<1>2. CASE AdminContinue
  <2>1. admin.n \in Nodes /\ sem' = sem
    BY <1>2 DEF AdminContinue, MemInv
  <2>2. \/ UNCHANGED job /\ (Revoke(admin.n) \/ UNCHANGED slotVars)
        \/ Submit(ConnectJob(admin.n, admin.then = "hard")) /\ UNCHANGED slotVars
    BY <1>2 DEF AdminContinue
  <2>3. CASE UNCHANGED job /\ (Revoke(admin.n) \/ UNCHANGED slotVars)
    BY <2>1, <2>3, LooseKeeps
  <2>4. CASE Submit(ConnectJob(admin.n, admin.then = "hard")) /\ UNCHANGED slotVars
    <3>1. \E force \in BOOLEAN : Submit(ConnectJob(admin.n, force))
      BY <2>4
    <3> QED BY <2>1, <2>4, <3>1, HandOver
  <2> QED BY <2>2, <2>3, <2>4
<1> QED BY <1>1, <1>2

\* start_core: nobody has a slot or a permit.
LEMMA BootOK ==
  ASSUME NEW r, NEW j \in BootJobs(r)
  PROVE  j \in [Threads -> Job] /\ \A t \in Threads : JobOK(j[t], None)
<1>1. /\ Idle \in Job /\ JobOK(Idle, None)
      /\ \A n \in BootNodes(r) : ConnectJob(n, FALSE) \in Job /\ JobOK(ConnectJob(n, FALSE), None)
  BY DEF Idle, ConnectJob, Job, PCs, Status, JobOK, BootNodes
<1>2. j \in [Threads -> {Idle} \cup {ConnectJob(n, FALSE) : n \in BootNodes(r)}]
  BY DEF BootJobs
<1>3. ASSUME NEW t \in Threads PROVE j[t] \in Job /\ JobOK(j[t], None)
  <2>1. j[t] = Idle \/ \E n \in BootNodes(r) : j[t] = ConnectJob(n, FALSE)
    BY <1>2
  <2>2. CASE j[t] = Idle
    BY <1>1, <2>2
  <2>3. ASSUME NEW n \in BootNodes(r), j[t] = ConnectJob(n, FALSE)
        PROVE  j[t] \in Job /\ JobOK(j[t], None)
    BY <1>1, <2>3
  <2> QED BY <2>1, <2>2, <2>3
<1> QED BY <1>2, <1>3

LEMMA NobodyHasAPermit == IsFiniteSet({}) /\ Cardinality({}) <= Permits
  BY FS_EmptySet

LEMMA SlotInvInit == Init => SlotInv
<1> SUFFICES ASSUME Init PROVE SlotInv
  OBVIOUS
<1>1. /\ owner = [n \in Nodes |-> None] /\ expired = {} /\ work = [t \in Threads |-> None]
      /\ sem = {} /\ job \in BootJobs(row)
  BY DEF Init, EmptyMemory, SlotInit
<1>2. job \in [Threads -> Job] /\ JobsOK
  BY <1>1, BootOK DEF JobsOK
<1>3. SlotTypeOK /\ OwnersOK /\ PermitsOK
  BY <1>1, NobodyHasAPermit DEF SlotTypeOK, OwnersOK, PermitsOK
<1> QED BY <1>2, <1>3 DEF SlotInv

LEMMA RestartKeepsSlots == ASSUME PanelRestarts PROVE SlotInv'
<1>1. /\ owner' = [n \in Nodes |-> None] /\ expired' = {} /\ work' = [t \in Threads |-> None]
      /\ sem' = {} /\ job' \in BootJobs(row)
  BY DEF PanelRestarts
<1>2. job' \in [Threads -> Job] /\ JobsOK'
  BY <1>1, BootOK DEF JobsOK
<1>3. SlotTypeOK' /\ OwnersOK' /\ PermitsOK'
  BY <1>1, NobodyHasAPermit DEF SlotTypeOK, OwnersOK, PermitsOK
<1> QED BY <1>2, <1>3 DEF SlotInv

LEMMA SlotInvNext == ASSUME SlotInv, MemInv, [Next]_vars PROVE SlotInv'
<1>1. ASSUME NEW t \in Threads, JobStep(t) PROVE SlotInv'
  BY <1>1, JobStepKeeps
<1>2. CASE HealthStep
  BY <1>2, HealthKeeps
<1>3. CASE AdminContinue \/ \E n \in Nodes : AdminStart(n)
  BY <1>3, AdminKeeps
<1>4. ASSUME NEW n \in Nodes, SlotAges(n) PROVE SlotInv'
  BY <1>4, LooseKeeps DEF SlotAges
<1>5. ASSUME NEW n \in Nodes,
             StatusAges(n) \/ NetworkFails(n) \/ NetworkHeals(n) \/ CoreDies(n)
      PROVE  SlotInv'
  BY <1>5, LooseKeeps DEF StatusAges, NetworkFails, NetworkHeals, CoreDies
<1>6. CASE PanelRestarts
  BY <1>6, RestartKeepsSlots
<1>7. CASE UNCHANGED vars
  BY <1>7, LooseKeeps DEF vars
<1> QED BY <1>1, <1>2, <1>3, <1>4, <1>5, <1>6, <1>7 DEF Next

-----------------------------------------------------------------------------
\* What is registered, and the admin request under way.
LEMMA MemInvInit == Init => MemInv
  BY DEF Init, EmptyMemory, NoRequest, MemInv

LEMMA MemInvNext == ASSUME MemInv, [Next]_vars PROVE MemInv'
<1>1. nodes' \in [Nodes -> Objects \cup {None}]
  <2>1. \/ UNCHANGED nodes
        \/ \E n : nodes' = [nodes EXCEPT ![n] = None]
        \/ \E n, o : NewObject(n, o)
        \/ nodes' = [n \in Nodes |-> None]
    <3>1. ASSUME NEW t \in Threads, JobStep(t)
          PROVE  \/ UNCHANGED nodes
                 \/ \E n : nodes' = [nodes EXCEPT ![n] = None]
                 \/ \E n, o : NewObject(n, o)
      <4>1. CASE GetObject(t)
        BY <4>1 DEF GetObject
      <4>2. CASE JobRemoveNode(t)
        BY <4>2 DEF JobRemoveNode
      <4>3. CASE ~GetObject(t) /\ ~JobRemoveNode(t)
        BY <3>1, <4>3 DEF JobStep, ConnectStart, ReadNode, AcquirePermit, HardAttempt,
           TryRestore, EnsureControlSession, NodeOpensSession, PushConfig, GetVersion,
           StatusRead, StatusWrite, EndJob, RestartStart, RestartPing, RestartDisconnect
      <4> QED BY <4>1, <4>2, <4>3
    <3>2. CASE HealthStep
      BY <3>2 DEF HealthStep, HealthTick, HealthAddNode, HealthConnected, HealthReconnect
    <3>3. ASSUME NEW n \in Nodes, AdminStart(n) PROVE UNCHANGED nodes
      BY <3>3 DEF AdminStart, AdminDisable, AdminEdit, AdminDelete, AdminCreate,
                  AdminReconnect, AdminRestartCore, Request
    <3>4. CASE AdminContinue
      BY <3>4 DEF AdminContinue
    <3>5. ASSUME NEW n \in Nodes,
                 \/ SlotAges(n) \/ StatusAges(n)
                 \/ NetworkFails(n) \/ NetworkHeals(n) \/ CoreDies(n)
          PROVE  UNCHANGED nodes
      BY <3>5 DEF SlotAges, StatusAges, NetworkFails, NetworkHeals, CoreDies
    <3>6. CASE PanelRestarts
      BY <3>6 DEF PanelRestarts
    <3>7. CASE UNCHANGED vars
      BY <3>7 DEF vars
    <3> QED BY <3>1, <3>2, <3>3, <3>4, <3>5, <3>6, <3>7 DEF Next
  <2> QED BY <2>1 DEF MemInv, NewObject
<1>2. admin'.pc # "idle" => admin'.n \in Nodes
  <2>1. \/ UNCHANGED admin
        \/ admin' = NoRequest
        \/ \E n \in Nodes : \E pc, then : admin' = [pc |-> pc, n |-> n, then |-> then]
        \/ admin.pc # "idle" /\ \E pc : admin' = [admin EXCEPT !.pc = pc]
    <3>1. ASSUME NEW t \in Threads, JobStep(t) PROVE UNCHANGED admin
      BY <3>1 DEF JobStep, ConnectStart, ReadNode, GetObject, AcquirePermit, HardAttempt,
           TryRestore, EnsureControlSession, NodeOpensSession, PushConfig, GetVersion,
           StatusRead, StatusWrite, JobRemoveNode, EndJob, RestartStart, RestartPing,
           RestartDisconnect, adminVars
    <3>2. CASE HealthStep
      BY <3>2 DEF HealthStep, HealthTick, HealthAddNode, HealthConnected, HealthReconnect, adminVars
    <3>3. ASSUME NEW n \in Nodes, AdminStart(n)
          PROVE  \/ UNCHANGED admin
                 \/ \E pc, then : admin' = [pc |-> pc, n |-> n, then |-> then]
      <4>1. CASE AdminRestartCore(n)
        BY <4>1 DEF AdminRestartCore
      <4> QED BY <3>3, <4>1 DEF AdminStart, AdminDisable, AdminEdit, AdminDelete, AdminCreate,
                                AdminReconnect, Request
    <3>4. CASE AdminContinue
      BY <3>4 DEF AdminContinue
    <3>5. ASSUME NEW n \in Nodes,
                 \/ SlotAges(n) \/ StatusAges(n)
                 \/ NetworkFails(n) \/ NetworkHeals(n) \/ CoreDies(n)
          PROVE  UNCHANGED admin
      BY <3>5 DEF SlotAges, StatusAges, NetworkFails, NetworkHeals, CoreDies, adminVars
    <3>6. CASE PanelRestarts
      BY <3>6 DEF PanelRestarts
    <3>7. CASE UNCHANGED vars
      BY <3>7 DEF vars, adminVars
    <3> QED BY <3>1, <3>2, <3>3, <3>4, <3>5, <3>6, <3>7 DEF Next
  <2>2. CASE UNCHANGED admin \/ admin' = NoRequest
    BY <2>2 DEF MemInv, NoRequest
  <2>3. ASSUME NEW n \in Nodes, NEW pc, NEW then, admin' = [pc |-> pc, n |-> n, then |-> then]
        PROVE  admin'.n \in Nodes
    BY <2>3
  <2>4. ASSUME admin.pc # "idle", NEW pc, admin' = [admin EXCEPT !.pc = pc]
        PROVE  admin'.n \in Nodes
    BY <2>4 DEF MemInv
  <2> QED BY <2>1, <2>2, <2>3, <2>4
<1> QED BY <1>1, <1>2 DEF MemInv

Inv == SlotInv /\ MemInv

LEMMA Invariant == Spec => []Inv
<1>1. Init => Inv
  BY SlotInvInit, MemInvInit DEF Inv
<1>2. Inv /\ [Next]_vars => Inv'
  BY SlotInvNext, MemInvNext DEF Inv
<1> QED BY <1>1, <1>2, PTL DEF Spec

-----------------------------------------------------------------------------
\* Neither the slot of a node nor a permit of the connect semaphore is leaked,
\* whichever way a connect ends: deferred, failed, overtaken by a disable or a
\* delete, dispossessed of its slot, or with the panel.
THEOREM NoLeak == Spec => []NothingLeaked
<1>1. Inv => NothingLeaked
  <2> SUFFICES ASSUME SlotInv PROVE NothingLeaked
    BY DEF Inv
  <2>1. ASSUME NEW t \in Threads, work[t] # None
        PROVE  job[t].n = work[t] /\ job[t].kind = "connect"
    BY <2>1 DEF SlotInv, JobsOK, JobOK
  <2>2. ASSUME NEW n \in Nodes, owner[n] # None
        PROVE  work[owner[n]] = n /\ job[owner[n]].n = n
    <3>1. owner[n] \in Threads /\ work[owner[n]] = n
      BY <2>2 DEF SlotInv, SlotTypeOK, OwnersOK
    <3> QED BY <2>1, <3>1
  <2>3. ASSUME NEW t \in sem PROVE job[t].pc \notin {"idle", "start", "read", "getobj", "sem"}
    BY DEF SlotInv, JobsOK, PermitOK
  <2>4. Cardinality(sem) <= Permits
    BY DEF SlotInv, PermitsOK
  <2> QED BY <2>1, <2>2, <2>3, <2>4 DEF NothingLeaked
<1> QED BY <1>1, Invariant, PTL

-----------------------------------------------------------------------------
\* The row and the version are committed together, and everybody else who
\* writes the row writes another status.
LEMMA RowInvInit == Init => RowInv
<1> SUFFICES ASSUME Init PROVE RowInv
  OBVIOUS
<1>1. PICK r \in [Nodes -> Status \cup {"absent"}] : row = BootRow(r)
  BY DEF Init
<1> QED BY <1>1 DEF BootRow, BootNodes, RowInv, ConnectedHasVersion, Status

LEMMA RowInvNext == ASSUME RowInv, SlotInv, [Next]_vars PROVE RowInv'
<1>1. CASE UNCHANGED <<row, version>>
  BY <1>1 DEF RowInv, ConnectedHasVersion
<1>2. ASSUME NEW t \in Threads, JobStep(t) PROVE RowInv'
  <2>1. CASE StatusWrite(t)
    <3>1. job[t].goal \in Status
      BY DEF SlotInv, Job
    <3>2. CASE row[Node(t)] # "absent" /\ row' = [row EXCEPT ![Node(t)] = job[t].goal]
               /\ version' = IF job[t].goal = "connected" THEN version \cup {Node(t)}
                                                          ELSE version \ {Node(t)}
      BY <3>1, <3>2 DEF RowInv, ConnectedHasVersion
    <3>3. CASE UNCHANGED dbVars
      BY <1>1, <3>3 DEF dbVars
    <3> QED BY <2>1, <3>2, <3>3 DEF StatusWrite
  <2>2. CASE ~StatusWrite(t)
    <3>1. UNCHANGED <<row, version>>
      BY <1>2, <2>2 DEF JobStep, ConnectStart, ReadNode, GetObject, AcquirePermit, HardAttempt,
           TryRestore, EnsureControlSession, NodeOpensSession, PushConfig, GetVersion,
           StatusRead, JobRemoveNode, EndJob, RestartStart, RestartPing,
           RestartDisconnect, dbVars
    <3> QED BY <1>1, <3>1
  <2> QED BY <2>1, <2>2
<1>3. ASSUME NEW n \in Nodes, AdminStart(n) PROVE RowInv'
  <2>1. \/ UNCHANGED <<row, version>>
        \/ \E st \in {"disabled", "connecting", "absent"} :
              row' = [row EXCEPT ![n] = st] /\ version' \in {version, version \ {n}}
    BY <1>3 DEF AdminStart, AdminDisable, AdminEdit, AdminDelete, AdminCreate,
                AdminReconnect, AdminRestartCore, dbVars
  <2>2. ASSUME NEW st \in {"disabled", "connecting", "absent"},
               row' = [row EXCEPT ![n] = st], version' \in {version, version \ {n}}
        PROVE  RowInv'
    BY <2>2 DEF RowInv, ConnectedHasVersion, Status
  <2> QED BY <1>1, <2>1, <2>2
<1>4. CASE PanelRestarts
  BY <1>4 DEF PanelRestarts, BootRow, BootNodes, RowInv, ConnectedHasVersion, Status
<1>5. CASE HealthStep \/ AdminContinue
  <2>1. UNCHANGED <<row, version>>
    BY <1>5 DEF HealthStep, HealthTick, HealthAddNode, HealthConnected, HealthReconnect,
                AdminContinue, dbVars
  <2> QED BY <1>1, <2>1
<1>6. ASSUME NEW n \in Nodes,
             \/ SlotAges(n) \/ StatusAges(n)
             \/ NetworkFails(n) \/ NetworkHeals(n) \/ CoreDies(n)
      PROVE  RowInv'
  <2>1. UNCHANGED <<row, version>>
    BY <1>6 DEF SlotAges, StatusAges, NetworkFails, NetworkHeals, CoreDies, dbVars
  <2> QED BY <1>1, <2>1
<1>7. CASE UNCHANGED vars
  BY <1>1, <1>7 DEF vars, dbVars
<1> QED BY <1>2, <1>3, <1>4, <1>5, <1>6, <1>7 DEF Next

\* A node is shown as connected only with the Xray version it reported: no
\* other writer of the row can interleave with the status update and leave a
\* "connected" that no version goes with.
THEOREM ConnectedReported == Spec => []ConnectedHasVersion
<1>1. Init => RowInv
  BY RowInvInit
<1>2. RowInv /\ Inv /\ [Next]_vars => RowInv'
  BY RowInvNext DEF Inv
<1>3. RowInv => ConnectedHasVersion
  BY DEF RowInv
<1> QED BY <1>1, <1>2, <1>3, Invariant, PTL DEF Spec

-----------------------------------------------------------------------------
\* One step of a soft connect on the registered object of its node.
LEMMA SoftStep ==
  ASSUME Inv, NEW t \in Threads, NEW n \in Nodes, NEW o \in Objects, JobStep(t),
         job[t].n = n, job[t].obj = o, job[t].kind = "connect", ~job[t].force,
         job[t].pc \notin {"conn", "rmDisc"}, nodes[n] = o, Valid(o, n)
  PROVE  Valid(o, n)' \/ nodes'[n] = None
<1>1. o \in sid /\ holder[n] = o /\ Node(t) = n /\ Obj(t) = o /\ o # None
  BY DEF Valid, Node, Obj
<1>2. job[t].pc \notin {"rping", "rdisc"} /\ nodes \in [Nodes -> Objects \cup {None}]
  BY DEF Inv, SlotInv, MemInv, JobsOK, JobOK
<1>3. CASE UNCHANGED <<sid, holder>>
  BY <1>1, <1>3 DEF Valid
<1>4. CASE ConnectStart(t) \/ ReadNode(t) \/ AcquirePermit(t) \/ PushConfig(t) \/ GetVersion(t)
           \/ StatusRead(t) \/ StatusWrite(t)
  <2>1. UNCHANGED <<sid, holder>>
    BY <1>4 DEF ConnectStart, ReadNode, AcquirePermit, PushConfig, GetVersion, StatusRead,
                StatusWrite, remoteVars
  <2> QED BY <1>3, <2>1
<1>5. CASE GetObject(t)
  <2>1. UNCHANGED <<sid, holder>>
    BY <1>1, <1>5 DEF GetObject, remoteVars
  <2> QED BY <1>3, <2>1
<1>6. CASE TryRestore(t) \/ EnsureControlSession(t)
  <2>1. UNCHANGED <<sid, holder>>
    BY <1>1, <1>6 DEF TryRestore, EnsureControlSession, remoteVars
  <2> QED BY <1>3, <2>1
<1>7. CASE JobRemoveNode(t)
  <2>1. CASE At(t, "rmInval")
    <3>1. UNCHANGED <<sid, holder>>
      BY <1>7, <2>1 DEF JobRemoveNode, At, remoteVars
    <3> QED BY <1>3, <3>1
  <2>2. CASE At(t, "rmDel")
    BY <1>1, <1>2, <1>7, <2>2 DEF JobRemoveNode, At
  <2> QED BY <1>7, <2>1, <2>2 DEF JobRemoveNode, At
<1>8. CASE EndJob(t)
  <2>1. nodes' = nodes /\ Collect
    BY <1>8 DEF EndJob
  <2>2. o \in sid' /\ holder'[n] = o
    BY <1>1, <2>1 DEF Collect
  <2> QED BY <2>2 DEF Valid
<1> QED BY <1>1, <1>2, <1>4, <1>5, <1>6, <1>7, <1>8
      DEF JobStep, HardAttempt, NodeOpensSession, RestartStart, RestartPing,
          RestartDisconnect, At

\* No failed request of a soft connect, and no interleaving with restarts, the
\* health check or an admin request, makes the connect itself give up a session
\* of the registered object that the node still accepts.
THEOREM SoftConnectIsGentle == Spec => SoftKeepsSession
<1>1. Inv /\ [Next]_vars =>
        [\A t \in Threads, n \in Nodes, o \in Objects :
            /\ JobStep(t)
            /\ job[t].n = n /\ job[t].obj = o
            /\ job[t].kind = "connect" /\ ~job[t].force /\ job[t].pc \notin {"conn", "rmDisc"}
            /\ nodes[n] = o /\ Valid(o, n)
            => Valid(o, n)' \/ nodes'[n] = None]_vars
  BY SoftStep
<1> QED BY <1>1, Invariant, PTL DEF Spec, SoftKeepsSession

============================================================================
