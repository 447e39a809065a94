------------------------- MODULE MasterCoreProofs -------------------------
(***************************************************************************)
(* The panel's own Xray process, for any number of request threads and any *)
(* number of saves, calls and deaths: what `restarting', process and the   *)
(* processes of the operating system have to do with one another.          *)
(***************************************************************************)
EXTENDS MasterCore, TLAPS

\* As much of the types as the argument needs; process ids start at 1.
Shape ==
  /\ saved \in Int /\ row \in Int /\ tags \in Int
  /\ procs \in Seq([cfg : Int, tags : Int])
  /\ live \subseteq DOMAIN procs
  /\ process \in {0} \cup DOMAIN procs
  /\ pc \in [Threads -> Inside \cup {"idle", "build"}]
  /\ cfg \in [Threads -> Int]

\* The threads that have passed `self.restarting = True' and not the finally.
Holding == {"stop", "kill", "forget", "start", "spawn"}

\* FlagHeld is not inductive: a thread at "enter" is inside restart but does
\* not hold the flag, and leaves without lowering it.
FlagOwned == restarting => \E t \in Threads : pc[t] \in Holding

\* refresh_master_inbounds follows every change of the row at once.
TagsFollow == tags = row

\* Calls that never crossed are one after the other.
Serial == \A s, t \in Threads : pc[s] # "idle" /\ pc[t] # "idle" => s = t

\* What the one call under way has seen and done: its configuration is the
\* last one saved, the process it is about to kill is there, and once it has
\* killed it nothing runs.
Progress ==
  \A t \in Threads :
    /\ pc[t] \in Inside => cfg[t] = saved
    /\ pc[t] = "kill" => process # 0
    /\ pc[t] \in {"forget", "start", "spawn"} => live = {}

Uncrossed == ~crossed => Serial /\ Progress

IInv == Shape /\ FlagOwned /\ TagsFollow /\ Uncrossed /\ LatestRuns /\ NoOrphan

\* start_core leaves the core running what is on disk, with nobody at work.
LEMMA InitIInv == CoreInit => IInv
<1> SUFFICES ASSUME CoreInit PROVE IInv
  OBVIOUS
<1>1. Shape
  <2>1. procs \in Seq([cfg : Int, tags : Int]) /\ DOMAIN procs = {1}
    BY DEF CoreInit
  <2> QED BY <2>1 DEF CoreInit, Shape, Inside
<1>2. FlagOwned /\ TagsFollow /\ NoOrphan
  BY DEF CoreInit, FlagOwned, TagsFollow, NoOrphan
<1>3. Uncrossed
  BY DEF CoreInit, Uncrossed, Serial, Progress, Inside
<1>4. LatestRuns
  BY DEF CoreInit, LatestRuns, started
<1> QED BY <1>1, <1>2, <1>3, <1>4 DEF IInv

\* A call begins: whoever else is at work has now been crossed.
LEMMA BeginKeeps ==
  ASSUME NEW t \in Threads, IInv, Begin(t), UNCHANGED <<restarting, process, procs, live, cfg>>,
         saved' \in Int, row' \in Int, tags' = row'
  PROVE  IInv'
<1>1. pc \in [Threads -> Inside \cup {"idle", "build"}]
  BY DEF IInv, Shape
<1>2. /\ pc[t] = "idle" /\ pc'[t] = "build"
      /\ \A o \in Threads \ {t} : pc'[o] = pc[o]
      /\ ~crossed' => ~crossed /\ \A o \in Threads \ {t} : pc[o] = "idle"
  BY <1>1 DEF Begin, Goto
<1>3. FlagOwned' /\ TagsFollow'
  BY <1>2 DEF IInv, FlagOwned, Holding, TagsFollow
<1>4. Uncrossed'
  BY <1>2 DEF Uncrossed, Serial, Progress, Inside
<1>5. LatestRuns' /\ NoOrphan'
  BY <1>2 DEF IInv, LatestRuns, NoOrphan
<1>6. Shape'
  BY DEF IInv, Shape, Begin, Goto
<1> QED BY <1>3, <1>4, <1>5, <1>6 DEF IInv

\* A step of restart() that moves its thread on and leaves the core, the flag
\* and what is saved alone.
LEMMA MoveKeeps ==
  ASSUME NEW t \in Threads, NEW l \in Inside, IInv, Goto(t, l), pc[t] # "idle",
         UNCHANGED <<saved, row, tags, process, procs, live, ended, crossed>>,
         cfg' \in [Threads -> Int], \A o \in Threads \ {t} : cfg'[o] = cfg[o],
         restarting' => l \in Holding \/ (restarting /\ pc[t] \notin Holding),
         ~crossed => cfg'[t] = saved /\ (l = "kill" => process # 0)
                     /\ (l \in {"forget", "start", "spawn"} => live = {})
  PROVE  IInv'
<1>1. pc \in [Threads -> Inside \cup {"idle", "build"}]
  BY DEF IInv, Shape
<1>2. /\ pc'[t] = l /\ l # "idle"
      /\ \A o \in Threads \ {t} : pc'[o] = pc[o]
  BY <1>1 DEF Goto, Inside
<1>3. FlagOwned'
  BY <1>2 DEF IInv, FlagOwned
<1>4. Uncrossed'
  <2> SUFFICES ASSUME ~crossed PROVE Serial' /\ Progress'
    BY DEF Uncrossed
  <2>1. Serial /\ Progress
    BY DEF IInv, Uncrossed
  <2>2. \A o \in Threads \ {t} : pc[o] = "idle"
    BY <2>1 DEF Serial
  <2> QED BY <1>2, <2>1, <2>2 DEF Serial, Progress, Inside
<1>5. LatestRuns' /\ NoOrphan' /\ TagsFollow'
  BY <1>2 DEF IInv, LatestRuns, NoOrphan, TagsFollow
<1>6. Shape'
  BY DEF IInv, Shape, Goto
<1> QED BY <1>3, <1>4, <1>5, <1>6 DEF IInv

\* With calls one after the other: nobody else is at work, and what the thread
\* itself has seen still holds.
LEMMA Alone ==
  ASSUME IInv, ~crossed, NEW t \in Threads, pc[t] # "idle"
  PROVE  /\ \A o \in Threads \ {t} : pc[o] = "idle"
         /\ Progress /\ live \subseteq {process} /\ 0 \notin live
  BY DEF IInv, Shape, Uncrossed, Serial, NoOrphan

\* stop() has killed the process or forgotten it: nothing runs any more, unless
\* calls crossed.
LEMMA EmptiedKeeps ==
  ASSUME NEW t \in Threads, NEW l \in Inside, l \in {"forget", "start"}, IInv, Goto(t, l),
         pc[t] \in Holding, UNCHANGED <<saved, row, tags, restarting, procs, cfg, crossed>>,
         live' \subseteq live, process' \in {0, process}, ~crossed => live' = {}
  PROVE  IInv'
<1>1. pc \in [Threads -> Inside \cup {"idle", "build"}] /\ pc[t] # "idle" /\ pc[t] \in Inside
  BY DEF IInv, Shape, Holding, Inside
<1>2. pc'[t] = l /\ \A o \in Threads \ {t} : pc'[o] = pc[o]
  BY <1>1 DEF Goto
<1>3. FlagOwned' /\ TagsFollow'
  BY <1>2 DEF IInv, FlagOwned, Holding, TagsFollow
<1>4. Uncrossed' /\ NoOrphan'
  <2> SUFFICES ASSUME ~crossed PROVE Serial' /\ Progress' /\ NoOrphan'
    BY DEF Uncrossed, NoOrphan
  <2>1. Progress /\ \A o \in Threads \ {t} : pc[o] = "idle"
    BY <1>1, Alone
  <2> QED BY <1>1, <1>2, <2>1 DEF Serial, Progress, NoOrphan, Inside
<1>5. LatestRuns'
  BY <1>2 DEF LatestRuns
<1>6. Shape'
  BY DEF IInv, Shape, Goto
<1> QED BY <1>3, <1>4, <1>5, <1>6 DEF IInv

\* The end of restart, by an exception or by the finally after Popen.
LEMMA LeaveKeeps ==
  ASSUME NEW t \in Threads, IInv, Leaves(t), pc[t] \in Holding,
         UNCHANGED <<saved, row, tags, cfg, crossed>>,
         procs' \in Seq([cfg : Int, tags : Int]), live' \subseteq DOMAIN procs',
         process' \in {0} \cup DOMAIN procs',
         ~crossed => /\ live' \subseteq {process'}
                     /\ procs'[process'] = [cfg |-> saved, tags |-> row]
  PROVE  IInv'
<1>1. pc \in [Threads -> Inside \cup {"idle", "build"}] /\ pc[t] # "idle"
  BY DEF IInv, Shape, Holding
<1>2. pc'[t] = "idle" /\ \A o \in Threads \ {t} : pc'[o] = pc[o]
  BY <1>1 DEF Leaves, Goto
<1>3. FlagOwned' /\ TagsFollow'
  BY DEF IInv, FlagOwned, Leaves, TagsFollow
<1>4. Uncrossed'
  <2> SUFFICES ASSUME ~crossed PROVE Serial' /\ Progress'
    BY DEF Uncrossed
  <2>1. \A o \in Threads \ {t} : pc[o] = "idle"
    BY <1>1, Alone
  <2> QED BY <1>2, <2>1 DEF Serial, Progress, Inside
<1>5. LatestRuns' /\ NoOrphan'
  BY DEF LatestRuns, NoOrphan
<1>6. Shape'
  BY DEF IInv, Shape, Leaves, Goto
<1> QED BY <1>3, <1>4, <1>5, <1>6 DEF IInv

\* The steps of restart, stop and start.
LEMMA StepsKeep ==
  ASSUME NEW t \in Threads, IInv, Steps(t)
  PROVE  IInv'
<1>0. /\ pc \in [Threads -> Inside \cup {"idle", "build"}]
      /\ cfg \in [Threads -> Int] /\ saved \in Int
  BY DEF IInv, Shape
<1>1. CASE Build(t)
  BY <1>0, <1>1, MoveKeeps DEF Build, Inside, Holding
<1>2. CASE Enter(t)
  <2>1. CASE ~restarting
    <3>1. ~crossed => cfg[t] = saved
      BY <1>2, Alone DEF Enter, Progress, Inside
    <3> QED BY <1>0, <1>2, <2>1, <3>1, MoveKeeps DEF Enter, Inside, Holding
  <2>2. CASE restarting
    <3>1. crossed
      <4> SUFFICES ASSUME ~crossed PROVE FALSE
        OBVIOUS
      <4>1. PICK s \in Threads : pc[s] \in Holding
        BY <2>2 DEF IInv, FlagOwned
      <4> QED BY <1>2, <4>1, Alone DEF Enter, Holding
    <3>2. \A o \in Threads : pc[o] \in Holding => pc'[o] = pc[o]
      BY <1>0, <1>2 DEF Enter, Goto, Holding
    <3>3. FlagOwned'
      BY <1>2, <3>2 DEF IInv, FlagOwned, Enter
    <3>4. Uncrossed' /\ LatestRuns' /\ NoOrphan' /\ TagsFollow'
      BY <1>2, <3>1 DEF IInv, Enter, Uncrossed, LatestRuns, NoOrphan, TagsFollow
    <3>5. Shape'
      BY <1>2, <2>2 DEF IInv, Enter, Goto, Shape
    <3> QED BY <3>3, <3>4, <3>5 DEF IInv
  <2> QED BY <2>1, <2>2
<1>3. CASE RaiseFlag(t)
  <2>1. ~crossed => cfg[t] = saved
    BY <1>3, Alone DEF RaiseFlag, Progress, Inside
  <2> QED BY <1>0, <1>3, <2>1, MoveKeeps DEF RaiseFlag, Inside, Holding
<1>4. CASE StopChecks(t)
  <2>1. ~crossed => cfg[t] = saved /\ (started => process # 0) /\ (~started => live = {})
    BY <1>4, Alone DEF StopChecks, Progress, Inside, started
  <2>2. CASE started
    BY <1>0, <1>4, <2>1, <2>2, MoveKeeps DEF StopChecks, Inside, Holding
  <2>3. CASE ~started
    BY <1>0, <1>4, <2>1, <2>3, MoveKeeps DEF StopChecks, Inside, Holding
  <2> QED BY <2>2, <2>3
<1>5. CASE StopKills(t)
  <2>1. CASE process # 0
    <3>1. /\ Goto(t, "forget") /\ pc[t] = "kill" /\ live' = live \ {process}
          /\ UNCHANGED <<saved, row, tags, restarting, process, procs, cfg, crossed>>
      BY <1>5, <2>1 DEF StopKills
    <3>2. ~crossed => live' = {}
      BY <3>1, Alone
    <3> QED BY <1>0, <3>1, <3>2, EmptiedKeeps DEF Inside, Holding
  <2>2. CASE process = 0
    <3>1. /\ Leaves(t) /\ pc[t] = "kill"
          /\ UNCHANGED <<saved, row, tags, process, procs, live, cfg, crossed>>
      BY <1>5, <2>2 DEF StopKills
    <3>2. crossed
      BY <2>2, <3>1, Alone DEF Progress
    <3>3. /\ procs \in Seq([cfg : Int, tags : Int]) /\ live \subseteq DOMAIN procs
          /\ process \in {0} \cup DOMAIN procs
      BY DEF IInv, Shape
    <3> QED BY <3>1, <3>2, <3>3, LeaveKeeps DEF Holding
  <2> QED BY <2>1, <2>2
<1>6. CASE StopForgets(t)
  <2>1. /\ Goto(t, "start") /\ pc[t] = "forget" /\ process' = 0 /\ live' = live
        /\ UNCHANGED <<saved, row, tags, restarting, procs, cfg, crossed>>
    BY <1>6 DEF StopForgets
  <2>2. ~crossed => live' = {}
    BY <2>1, Alone DEF Progress
  <2> QED BY <1>0, <2>1, <2>2, EmptiedKeeps DEF Inside, Holding
<1>7. CASE StartChecks(t)
  <2>1. CASE started
    <3>1. /\ Leaves(t) /\ pc[t] = "start"
          /\ UNCHANGED <<saved, row, tags, process, procs, live, cfg, crossed>>
      BY <1>7, <2>1 DEF StartChecks
    <3>2. crossed
      BY <2>1, <3>1, Alone DEF Progress, started
    <3>3. /\ procs \in Seq([cfg : Int, tags : Int]) /\ live \subseteq DOMAIN procs
          /\ process \in {0} \cup DOMAIN procs
      BY DEF IInv, Shape
    <3> QED BY <3>1, <3>2, <3>3, LeaveKeeps DEF Holding
  <2>2. CASE ~started
    <3>1. ~crossed => cfg[t] = saved /\ live = {}
      BY <1>7, Alone DEF StartChecks, Progress, Inside
    <3> QED BY <1>0, <1>7, <2>2, <3>1, MoveKeeps DEF StartChecks, Inside, Holding
  <2> QED BY <2>1, <2>2
<1>8. CASE StartSpawns(t)
  <2> DEFINE p == Len(procs) + 1
  <2>1. /\ procs \in Seq([cfg : Int, tags : Int]) /\ cfg[t] \in Int /\ tags \in Int
        /\ live \subseteq DOMAIN procs
    BY DEF IInv, Shape
  <2>2. /\ procs' \in Seq([cfg : Int, tags : Int]) /\ Len(procs') = p
        /\ p \in DOMAIN procs' /\ p # 0 /\ procs'[p] = [cfg |-> cfg[t], tags |-> tags]
        /\ DOMAIN procs \subseteq DOMAIN procs'
    BY <1>8, <2>1 DEF StartSpawns
  <2>3. /\ Leaves(t) /\ pc[t] = "spawn" /\ process' = p /\ live' = live \cup {p}
        /\ UNCHANGED <<saved, row, tags, cfg, crossed>>
    BY <1>8, <2>2 DEF StartSpawns
  <2>4. ~crossed => live' \subseteq {process'} /\ procs'[process'] = [cfg |-> saved, tags |-> row]
    BY <2>2, <2>3, Alone DEF Progress, Inside, IInv, TagsFollow
  <2>5. live' \subseteq DOMAIN procs' /\ process' \in {0} \cup DOMAIN procs'
    BY <2>1, <2>2, <2>3
  <2> QED BY <2>2, <2>3, <2>4, <2>5, LeaveKeeps DEF Holding
<1> QED BY <1>1, <1>2, <1>3, <1>4, <1>5, <1>6, <1>7, <1>8 DEF Steps

\* Xray exits by itself, or the panel shuts down with nobody at work.
LEMMA DeathKeeps ==
  ASSUME IInv, UNCHANGED <<saved, row, tags, restarting, procs, pc, cfg, crossed>>,
         live' \subseteq live,
         \/ process' = process
         \/ process' = 0 /\ live' = live \ {process} /\ \A t \in Threads : pc[t] = "idle"
  PROVE  IInv'
<1>1. Shape' /\ FlagOwned' /\ TagsFollow'
  BY DEF IInv, Shape, FlagOwned, TagsFollow
<1>2. Uncrossed'
  BY DEF IInv, Uncrossed, Serial, Progress
<1>3. LatestRuns'
  BY DEF IInv, LatestRuns, started
<1>4. NoOrphan'
  BY DEF IInv, NoOrphan
<1> QED BY <1>1, <1>2, <1>3, <1>4 DEF IInv

\* Every step of the panel keeps the invariant.
LEMMA NextIInv == IInv /\ [CoreNext]_coreVars => IInv'
<1> SUFFICES ASSUME IInv, [CoreNext]_coreVars PROVE IInv'
  OBVIOUS
<1>0. saved \in Int /\ row \in Int /\ tags = row /\ Health \in Threads /\ Requests \subseteq Threads
  BY DEF IInv, Shape, TagsFollow, Threads
<1>1. ASSUME NEW t \in Requests, restart_core(t) \/ modify_core_config(t) \/ modify_master_inbounds(t)
      PROVE  IInv'
  <2>1. /\ Begin(t) /\ UNCHANGED <<restarting, process, procs, live, cfg>>
        /\ saved' \in Int /\ row' \in Int /\ tags' = row'
    BY <1>0, <1>1 DEF restart_core, modify_core_config, modify_master_inbounds
  <2> QED BY <1>0, <2>1, BeginKeeps
<1>2. CASE core_health_check
  <2>1. /\ Begin(Health) /\ UNCHANGED <<saved, row, tags, restarting, process, procs, live, cfg>>
    BY <1>2 DEF core_health_check
  <2> QED BY <1>0, <2>1, BeginKeeps
<1>3. ASSUME NEW t \in Threads, Steps(t) PROVE IInv'
  BY <1>3, StepsKeep
<1>4. CASE Dies
  BY <1>4, DeathKeeps DEF Dies
<1>5. CASE app_shutdown_core
  BY <1>5, DeathKeeps DEF app_shutdown_core
<1>6. CASE UNCHANGED coreVars
  BY <1>6, DeathKeeps DEF coreVars
<1> QED BY <1>1, <1>2, <1>3, <1>4, <1>5, <1>6 DEF CoreNext

\* XRayCore: the flag `restarting' is never left behind and, as long as no two
\* calls crossed, a core at rest runs the last configuration and tags saved and
\* no Xray process is out of the panel's sight.
THEOREM CoreKeepsWhatWasSaved == CoreSpec => []CoreAsSaved
<1>1. IInv => CoreAsSaved
  BY DEF IInv, CoreAsSaved, FlagOwned, FlagHeld, Holding, Inside
<1> QED BY <1>1, InitIInv, NextIInv, PTL DEF CoreSpec
=============================================================================
