---------------------------- MODULE MasterCore ----------------------------
(***************************************************************************)
(* The panel's own Xray process: XRayCore (xray/core.py), the part of the  *)
(* health check that revives it (jobs/0_xray_core.py) and the endpoints    *)
(* that restart it (routers/core.py).  Requests run in threads of the web  *)
(* server and the health check in one of the scheduler; XRayCore has no    *)
(* lock, only the flag `restarting', so the statements of restart, stop    *)
(* and start are steps of their own here.                                  *)
(*                                                                         *)
(* A configuration is the number of the save it was built from; the tags   *)
(* of the master's inbounds, which start() reads when it runs, are the     *)
(* number of the change that set them.                                     *)
(***************************************************************************)
EXTENDS Integers, Sequences, FiniteSets

CONSTANTS
    Requests,    \* threads of the web server
    Health,      \* the thread of core_health_check (max_instances=1)
    MaxSaves,    \* bound on saved configurations and changes of the tags
    MaxCalls,    \* bound on the requests
    MaxDeaths    \* bound on the deaths of an Xray process

VARIABLES
    saved,       \* xray.config
    row,         \* the rows of master_inbounds
    tags,        \* xray.master_inbound_tags, what start() goes by
    restarting,  \* XRayCore.restarting
    process,     \* XRayCore.process: 0 for None, or an index of procs
    procs,       \* every Xray process started: what it was started with
    live,        \* the ones the operating system still runs
    pc,          \* where each thread is
    cfg,         \* the configuration a thread has built
    calls, deaths,   \* used bounds
    ended,       \* the panel has shut down
    crossed      \* history: two calls were once under way together

coreVars == <<saved, row, tags, restarting, process, procs, live, pc, cfg, calls,
              deaths, ended, crossed>>

Threads == Requests \cup {Health}

\* XRayCore.started: the process object exists and poll() is None.
started == process # 0 /\ process \in live

Inside == {"enter", "flag", "stop", "kill", "forget", "start", "spawn"}

TypeOK ==
    /\ {saved, row, tags} \subseteq 0 .. MaxSaves
    /\ restarting \in BOOLEAN /\ ended \in BOOLEAN /\ crossed \in BOOLEAN
    /\ procs \in Seq([cfg : 0 .. MaxSaves, tags : 0 .. MaxSaves])
    /\ live \subseteq DOMAIN procs
    /\ process \in {0} \cup DOMAIN procs
    /\ pc \in [Threads -> Inside \cup {"idle", "build"}]
    /\ cfg \in [Threads -> 0 .. MaxSaves]
    /\ calls \in 0 .. MaxCalls /\ deaths \in 0 .. MaxDeaths

\* start_core, the startup event: the core runs the configuration on disk.
CoreInit ==
    /\ saved = 0 /\ row = 0 /\ tags = 0 /\ restarting = FALSE
    /\ procs = <<[cfg |-> 0, tags |-> 0]>> /\ live = {1} /\ process = 1
    /\ pc = [t \in Threads |-> "idle"] /\ cfg = [t \in Threads |-> 0]
    /\ calls = 0 /\ deaths = 0 /\ ended = FALSE /\ crossed = FALSE

Goto(t, l) == pc' = [pc EXCEPT ![t] = l]

\* A call begins; it crosses another one when one is under way.
Begin(t) ==
    /\ ~ended /\ pc[t] = "idle"
    /\ Goto(t, "build")
    /\ crossed' = (crossed \/ \E o \in Threads \ {t} : pc[o] # "idle")

\* POST /core/restart.
restart_core(t) ==
    /\ t \in Requests /\ calls < MaxCalls
    /\ Begin(t)
    /\ calls' = calls + 1
    /\ UNCHANGED <<saved, row, tags, restarting, process, procs, live, cfg, deaths, ended>>

\* PUT /core/config: xray.config is replaced, then the file is written.
modify_core_config(t) ==
    /\ t \in Requests /\ calls < MaxCalls /\ saved < MaxSaves
    /\ Begin(t)
    /\ calls' = calls + 1 /\ saved' = saved + 1
    /\ UNCHANGED <<row, tags, restarting, process, procs, live, cfg, deaths, ended>>

\* The row is changed but the list start() reads is not refreshed.
modify_master_inboundsUnread(t) ==
    /\ t \in Requests /\ calls < MaxCalls /\ row < MaxSaves
    /\ Begin(t)
    /\ calls' = calls + 1 /\ row' = row + 1
    /\ UNCHANGED <<saved, tags, restarting, process, procs, live, cfg, deaths, ended>>

\* PUT /master/inbounds: the row, then refresh_master_inbounds.
modify_master_inbounds(t) ==
    /\ t \in Requests /\ calls < MaxCalls /\ row < MaxSaves
    /\ Begin(t)
    /\ calls' = calls + 1 /\ row' = row + 1 /\ tags' = row'
    /\ UNCHANGED <<saved, restarting, process, procs, live, cfg, deaths, ended>>

\* The check asks only whether there is a process object.
core_health_checkByObject ==
    /\ process = 0
    /\ Begin(Health)
    /\ UNCHANGED <<saved, row, tags, restarting, process, procs, live, cfg, calls, deaths, ended>>

\* The health check restarts a core that is not started.
core_health_check ==
    /\ ~started
    /\ Begin(Health)
    /\ UNCHANGED <<saved, row, tags, restarting, process, procs, live, cfg, calls, deaths, ended>>

\* include_db_users: seconds of work on the configuration as it is now.
Build(t) ==
    /\ pc[t] = "build"
    /\ cfg' = [cfg EXCEPT ![t] = saved]
    /\ Goto(t, "enter")
    /\ UNCHANGED <<saved, row, tags, restarting, process, procs, live, calls, deaths, ended, crossed>>

\* restart: returns at once, without a word, when the flag is up.
Enter(t) ==
    /\ pc[t] = "enter"
    /\ Goto(t, IF restarting THEN "idle" ELSE "flag")
    /\ UNCHANGED <<saved, row, tags, restarting, process, procs, live, cfg, calls, deaths, ended, crossed>>

RaiseFlag(t) ==
    /\ pc[t] = "flag"
    /\ restarting' = TRUE
    /\ Goto(t, "stop")
    /\ UNCHANGED <<saved, row, tags, process, procs, live, cfg, calls, deaths, ended, crossed>>

\* stop returns when the core is not started.
StopChecks(t) ==
    /\ pc[t] = "stop"
    /\ Goto(t, IF started THEN "kill" ELSE "start")
    /\ UNCHANGED <<saved, row, tags, restarting, process, procs, live, cfg, calls, deaths, ended, crossed>>

\* The exception path forgets the flag.
LeavesFlagUp(t) ==
    /\ Goto(t, "idle")
    /\ restarting' = restarting

\* However restart ends, its finally lowers the flag.
Leaves(t) ==
    /\ Goto(t, "idle")
    /\ restarting' = FALSE

\* A stop that only forgets the process.
StopKillsNobody(t) ==
    /\ pc[t] = "kill"
    /\ Goto(t, "forget")
    /\ UNCHANGED <<saved, row, tags, restarting, process, procs, live, cfg, calls, deaths, ended, crossed>>

\* self.process.terminate(); None by now in another thread's stop: raises.
StopKills(t) ==
    /\ pc[t] = "kill"
    /\ \/ /\ process # 0
          /\ live' = live \ {process}
          /\ Goto(t, "forget")
          /\ UNCHANGED restarting
       \/ /\ process = 0
          /\ Leaves(t)
          /\ UNCHANGED live
    /\ UNCHANGED <<saved, row, tags, process, procs, cfg, calls, deaths, ended, crossed>>

StopForgets(t) ==
    /\ pc[t] = "forget"
    /\ process' = 0
    /\ Goto(t, "start")
    /\ UNCHANGED <<saved, row, tags, restarting, procs, live, cfg, calls, deaths, ended, crossed>>

\* start: RuntimeError when another thread's process runs already.
StartChecks(t) ==
    /\ pc[t] = "start"
    /\ IF started THEN Leaves(t) ELSE Goto(t, "spawn") /\ UNCHANGED restarting
    /\ UNCHANGED <<saved, row, tags, process, procs, live, cfg, calls, deaths, ended, crossed>>

\* inbound_filter reads the tags, Popen, and the finally of restart.
StartSpawns(t) ==
    /\ pc[t] = "spawn"
    /\ procs' = Append(procs, [cfg |-> cfg[t], tags |-> tags])
    /\ process' = Len(procs')
    /\ live' = live \cup {Len(procs')}
    /\ Leaves(t)
    /\ UNCHANGED <<saved, row, tags, cfg, calls, deaths, ended, crossed>>

\* Xray exits by itself: a configuration it refuses, a crash, a kill.
Dies ==
    /\ deaths < MaxDeaths
    /\ \E p \in live : live' = live \ {p}
    /\ deaths' = deaths + 1
    /\ UNCHANGED <<saved, row, tags, restarting, process, procs, pc, cfg, calls, ended, crossed>>

\* app_shutdown of the core, once the server and the scheduler have waited for theirs.
app_shutdown_core ==
    /\ ~ended /\ \A t \in Threads : pc[t] = "idle"
    /\ ended' = TRUE
    /\ IF started
       THEN live' = live \ {process} /\ process' = 0
       ELSE UNCHANGED <<live, process>>
    /\ UNCHANGED <<saved, row, tags, restarting, procs, pc, cfg, calls, deaths, crossed>>

Steps(t) ==
    \/ Build(t)      \/ Enter(t)       \/ RaiseFlag(t)
    \/ StopChecks(t) \/ StopKills(t)   \/ StopForgets(t)
    \/ StartChecks(t) \/ StartSpawns(t)

CoreNext ==
    \/ \E t \in Requests : restart_core(t) \/ modify_core_config(t) \/ modify_master_inbounds(t)
    \/ core_health_check
    \/ \E t \in Threads : Steps(t)
    \/ Dies
    \/ app_shutdown_core

\* The scheduler runs the job every few seconds; a thread that runs goes on.
CoreFairness ==
    /\ WF_coreVars(core_health_check)
    /\ \A t \in Threads : WF_coreVars(Steps(t))

CoreSpec == CoreInit /\ [][CoreNext]_coreVars /\ CoreFairness

----------------------------------------------------------------------------
\* The flag is up only while a restart is under way: it can never be left
\* behind and refuse every restart to come.
FlagHeld ==
    restarting => \E t \in Threads : pc[t] \in Inside

\* A core that has died, or that a failed restart left stopped, runs again,
\* whatever requests crossed on the way.
CoreComesBack == []<>(started \/ ended)

\* Once every call has ended the running core has the last configuration
\* saved and the last tags set, unless two calls crossed.
LatestRuns ==
    (started /\ ~crossed /\ \A t \in Threads : pc[t] = "idle")
        => procs[process] = [cfg |-> saved, tags |-> row]

\* No Xray process runs that the panel does not know of, and none is left
\* after the shutdown, unless two calls crossed.
NoOrphan == ~crossed => live \subseteq {process}

\* The three together: what the endpoints and the health check keep true of the
\* panel's own Xray.
CoreAsSaved == FlagHeld /\ LatestRuns /\ NoOrphan

\* LatestRuns for calls that may cross: what an admin who saved would expect.
LatestRunsAlways ==
    (started /\ \A t \in Threads : pc[t] = "idle")
        => procs[process] = [cfg |-> saved, tags |-> row]

\* NoOrphan for calls that may cross.
NoOrphanEver == live \subseteq {process}
=============================================================================
