------------------------- MODULE RuntimeSupervisor -------------------------
(***************************************************************************)
(* The launcher's supervisor of the local runtime (RuntimeSupervisor): the *)
(* Responses daemon, a child process that drains and refuses to shut down  *)
(* while it has turns (server.ts), and the tunnel, an alias of an external *)
(* manager.  Starts, recoveries, stops for setup, and the quit with its    *)
(* forced fallback are tasks; `at` names the await a task is suspended at. *)
(* A crashed launcher leaves its children and its ownership marker.        *)
(***************************************************************************)
EXTENDS Naturals, FiniteSets

CONSTANTS
    Proc,               \* pids of daemons (a reaped pid is used again)
    Recoveries,         \* recovery tasks that may overlap (bound of the model)
    Full,               \* mode "full": the runtime has a tunnel
    StartDuringQuit,    \* the startup's start may come while a quit is under way
    MaxRestarts,        \* MAX_RESTARTS_PER_WINDOW
    MaxFaults,          \* lost children, failed commands, expired probes (bound)
    ForcedQuit,         \* a quit gives up on the graceful stop after 45 s
    MaxLate,            \* waits for other tasks given up after 10 s (bound)
    MaxSetups,          \* setup operations (bound)
    MaxCrashes,         \* crashes of the launcher (bound)
    MaxLaunches,        \* launches of the launcher after the first (bound)
    None

ASSUME SupervisorAssumption ==
    /\ {Full, StartDuringQuit, ForcedQuit} \subseteq BOOLEAN
    /\ MaxRestarts \in Nat \ {0}
    /\ {MaxFaults, MaxLate, MaxSetups, MaxCrashes, MaxLaunches} \subseteq Nat
    /\ None \notin Proc
    /\ Recoveries \cap {"start", "stop", "quit"} = {}

VARIABLES
    proc,           \* [Proc -> state of the process]
    busy,           \* daemons with an HTTP or browser turn
    draining,       \* daemons whose `draining` flag is set
    alias,          \* the tunnel's alias: "stopped", "ready", or "sick" (no MCP transport)
    daemon,         \* this.daemon
    tunnel,         \* this.tunnel is set
    restartable,    \* restartableChildren
    expected,       \* expectedExits
    mine,           \* children spawned by this launcher process
    stopping,       \* this.stopping
    monitor,        \* the tunnel monitor's interval is set
    timers,         \* restartTimers that are set
    attempts,       \* restartHistory within the window, by child
    file,           \* launcher-supervisor.json
    life,           \* the launcher: "up", "quitting", "clean", "partial", "crashed"
    op,             \* phase of a setup operation
    pending,        \* the startup has yet to call startIfConfigured
    task,           \* [Tasks -> record]
    budget          \* what is left of the bounds

machine == <<proc, busy, draining, alias>>
handles == <<daemon, tunnel, restartable, expected, mine>>
control == <<stopping, timers, attempts, file>>
session == <<life, op, pending>>

vars == <<machine, handles, control, monitor, session, task, budget>>

-----------------------------------------------------------------------------
(* The processes *)

Children  == {"daemon", "tunnel"}
Tasks     == {"start", "stop", "quit"} \cup Recoveries
Alive(p)  == p # None /\ proc[p] \in {"booting", "serving", "closing"}
Healthy(p)   == p # None /\ proc[p] \in {"serving", "closing"}
(* mutant: a daemon that was told to shut down admits turns *)
AcceptingAgain(p) == Healthy(p) /\ (p \notin draining \/ proc[p] = "closing")
Accepting(p) == Healthy(p) /\ p \notin draining
Listening == {p \in Proc : Healthy(p)}
UpLife == life \in {"up", "quitting"}

Spend(kind)  == budget[kind] > 0 /\ budget' = [budget EXCEPT ![kind] = @ - 1]
Fault        == Spend("faults")
Late         == Spend("late")

NoTask == [at |-> "off", child |-> None, name |-> "daemon",
           drained |-> FALSE, unhooked |-> FALSE, sound |-> TRUE]
At(t, label) == task[t].at = label
Running(t)   == task[t].at \notin {"off", "wait"}
Go(t, label) == task' = [task EXCEPT ![t].at = label]
Proceeds(t, label) == Go(t, label) /\ UNCHANGED control

(* startDaemon is entered without an await: its first step comes before    *)
(* any other step that looks at the daemon or ends it.                     *)
Entering == \E t \in Tasks : At(t, "daemon")

(* The ownership marker. *)
Marker(status, d, tn) == [status |-> status, daemon |-> d, tunnel |-> tn, own |-> TRUE]
NoMarker == [status |-> "none", daemon |-> None, tunnel |-> FALSE, own |-> FALSE]
MarkedAlive  == Alive(file.daemon) \/ (file.tunnel /\ alias # "stopped")
MayBeLive ==
    file.status # "none" /\ (\/ MarkedAlive
                             \/ file.status \in {"starting", "ready", "degraded", "stopping"})
ExternalMarker ==
    IF file.status # "none" /\ (file.own \/ MarkedAlive)
    THEN file ELSE Marker("external", daemon, tunnel)

-----------------------------------------------------------------------------
(* Recovery *)

(* mutant: giving up leaves the marker as it is *)
GivesUpSilently(name, marker) ==
    /\ file' = marker
    /\ IF stopping \/ name \in timers \/ attempts[name] >= MaxRestarts
       THEN UNCHANGED <<timers, attempts>>
       ELSE /\ timers' = timers \cup {name}
            /\ attempts' = [attempts EXCEPT ![name] = @ + 1]

(* recordRestart, the timer, or "automatic restart is disabled"; the marker *)
(* was written just before.                                                *)
ScheduleRecovery(name, marker) ==
    IF stopping \/ name \in timers
    THEN file' = marker /\ UNCHANGED <<timers, attempts>>
    ELSE IF attempts[name] >= MaxRestarts
    THEN file' = [marker EXCEPT !.status = "failed"] /\ UNCHANGED <<timers, attempts>>
    ELSE /\ file' = marker
         /\ timers' = timers \cup {name}
         /\ attempts' = [attempts EXCEPT ![name] = @ + 1]

(* A recovery whose timer fires during a stop returns without a trace. *)
TimerFires(name, r) ==
    /\ UpLife /\ name \in timers /\ At(r, "off")
    /\ timers' = timers \ {name}
    /\ task' = IF stopping THEN task
               ELSE [task EXCEPT ![r] =
                        [NoTask EXCEPT !.name = name,
                            !.at = IF name = "tunnel" THEN "tunnel.status" ELSE "daemon"]]
    /\ UNCHANGED <<machine, handles, stopping, attempts, file, monitor, session, budget>>

(* Where a start, a recovery or a stop's compensation goes on. *)
TunnelDone(t) == CASE t = "start" -> "daemon"
                   [] t = "stop"  -> "undo.daemon"
                   [] OTHER       -> "recovered"

(* What a rejected startTunnel or startDaemon does to the task that awaits it. *)
Throws(t) ==
    \/ /\ t = "start"
       /\ stopping' = TRUE
       /\ Go(t, "cleanup")
       /\ UNCHANGED <<timers, attempts, file>>
    \/ /\ t = "stop"
       /\ task' = [task EXCEPT ![t].sound = FALSE,
                      ![t].at = IF @ = "tunnel.cleanup" THEN "undo.daemon" ELSE "undo.ready"]
       /\ UNCHANGED control
    \/ /\ t \in Recoveries
       /\ ScheduleRecovery(task[t].name, Marker("failed", daemon', tunnel'))
       /\ task' = [task EXCEPT ![t] = NoTask]
       /\ UNCHANGED stopping

-----------------------------------------------------------------------------
(* startTunnel *)

TunnelStatus(t) ==
    /\ At(t, "tunnel.status")
    /\ \/ /\ alias # "stopped" /\ t \notin Recoveries
          /\ tunnel' = TRUE
          /\ Proceeds(t, "tunnel.adopt")
          /\ UNCHANGED <<monitor, budget>>
       \/ /\ alias = "stopped" \/ t \in Recoveries
          /\ tunnel' = FALSE
          /\ Proceeds(t, "tunnel.stop")
          /\ UNCHANGED <<monitor, budget>>
       \/ /\ Fault
          /\ monitor' = FALSE
          /\ Proceeds(t, "tunnel.cleanup")
          /\ UNCHANGED tunnel
    /\ UNCHANGED <<machine, daemon, restartable, expected, mine, session>>

TunnelStop(t) ==
    /\ At(t, "tunnel.stop")
    /\ \/ /\ alias' = "stopped"
          /\ Proceeds(t, "tunnel.connect")
          /\ UNCHANGED <<monitor, budget>>
       \/ /\ Fault
          /\ alias' \in {alias, "stopped"}
          /\ monitor' = FALSE
          /\ Proceeds(t, "tunnel.cleanup")
    /\ UNCHANGED <<proc, busy, draining, handles, session>>

(* `runtimes connect`, then waitForTunnel. *)
TunnelConnect(t) ==
    /\ At(t, "tunnel.connect")
    /\ \/ /\ alias' = IF alias = "stopped" THEN "ready" ELSE alias
          /\ tunnel' = TRUE
          /\ Proceeds(t, "tunnel.verify")
          /\ UNCHANGED <<monitor, budget>>
       \/ /\ Fault
          /\ \/ UNCHANGED <<alias, tunnel>>
             \/ alias' = "sick" /\ tunnel' = TRUE
          /\ monitor' = FALSE
          /\ Proceeds(t, "tunnel.cleanup")
    /\ UNCHANGED <<proc, busy, draining, daemon, restartable, expected, mine, session>>

(* waitForTunnelMcpTransport; the monitor never starts before it. *)
TunnelVerify(t) ==
    /\ task[t].at \in {"tunnel.adopt", "tunnel.verify"}
    /\ \/ /\ alias = "ready"
          /\ monitor' = TRUE
          /\ Proceeds(t, TunnelDone(t))
          /\ UNCHANGED budget
       \/ /\ \/ alias # "ready" /\ UNCHANGED budget
             \/ Fault
          /\ monitor' = FALSE
          /\ Proceeds(t, "tunnel.cleanup")
    /\ UNCHANGED <<machine, handles, session>>

TunnelCleanup(t) ==
    /\ At(t, "tunnel.cleanup")
    /\ \/ alias' = "stopped" /\ tunnel' = FALSE /\ UNCHANGED budget
       \/ Fault /\ UNCHANGED <<alias, tunnel>>
    /\ UNCHANGED daemon
    /\ Throws(t)
    /\ UNCHANGED <<proc, busy, draining, restartable, expected, mine, monitor, session>>

-----------------------------------------------------------------------------
(* startDaemon *)

SpawnedUnmarked(p) == file                \* mutant: spawnChild writes no marker
Spawned(p) == Marker("starting", p, tunnel)

LooksAt(t, p) ==
    task[t].child = p /\ task[t].at \in {"daemon.resume", "daemon.existing", "daemon.spawned",
        "daemon.killed", "stale.exit", "cleanup.killed", "cleanup.exit", "stop.exit",
        "force.killed"}

(* The existing child is confirmed, or a new one is spawned.  A pid is not *)
(* used again while something still looks at it.                           *)
StartDaemon(t) ==
    /\ At(t, "daemon")
    /\ \/ /\ daemon # None
          /\ task' = [task EXCEPT ![t].at = "daemon.resume", ![t].child = daemon]
          /\ UNCHANGED <<proc, draining, handles, file>>
       \/ /\ daemon = None
          /\ \E p \in Proc :
                /\ proc[p] = "gone" /\ p # file.daemon
                /\ \A u \in Tasks \ {t} : ~LooksAt(u, p)
                /\ proc' = [proc EXCEPT ![p] = "booting"]
                /\ draining' = draining \ {p}
                /\ daemon' = p
                /\ mine' = mine \cup {p}
                /\ file' = Spawned(p)
                /\ task' = [task EXCEPT ![t].at = "daemon.spawned", ![t].child = p]
          /\ UNCHANGED <<tunnel, restartable, expected>>
    /\ UNCHANGED <<busy, alias, stopping, timers, attempts, monitor, session, budget>>

(* A healthy child that does not accept turns is resumed. *)
ResumeDaemon(t) ==
    /\ At(t, "daemon.resume")
    /\ UNCHANGED handles
    /\ LET p == task[t].child
       IN \/ /\ draining' = IF Healthy(p) THEN draining \ {p} ELSE draining
             /\ Proceeds(t, "daemon.existing")
             /\ UNCHANGED budget
          \/ /\ Fault /\ Healthy(p) /\ p \in draining
             /\ Throws(t)
             /\ UNCHANGED draining
    /\ UNCHANGED <<proc, busy, alias, monitor, session>>

DaemonDone(t) == IF t = "stop" THEN "undo.ready" ELSE "recovered"

AcceptsAs(t) == Accepting(daemon) /\ daemon = task[t].child

(* waitForProxy, then the comparison with the child that was started. *)
WaitForProxy(t) ==
    /\ task[t].at \in {"daemon.existing", "daemon.spawned"}
    /\ \/ /\ AcceptsAs(t)
          /\ restartable' = restartable \cup {daemon}
          /\ UNCHANGED <<daemon, tunnel>>
          /\ IF t = "start"
             THEN /\ file' = Marker("ready", daemon, tunnel)
                  /\ attempts' = [c \in Children |-> 0]
                  /\ task' = [task EXCEPT ![t] = NoTask]
                  /\ op' = IF op = "starting" THEN "none" ELSE op
                  /\ UNCHANGED <<stopping, timers>>
             ELSE /\ Proceeds(t, DaemonDone(t))
                  /\ UNCHANGED op
          /\ UNCHANGED budget
       \/ /\ \/ /\ \/ daemon = None
                   \/ daemon # task[t].child /\ Accepting(daemon)
                   \/ Alive(daemon) /\ proc[daemon] # "booting" /\ ~Accepting(daemon)
                /\ UNCHANGED budget
             \/ Fault
          /\ UNCHANGED <<daemon, tunnel>>
          /\ IF At(t, "daemon.spawned") THEN Proceeds(t, "daemon.kill") ELSE Throws(t)
          /\ UNCHANGED <<restartable, op>>
    /\ UNCHANGED <<machine, expected, mine, monitor, life, pending>>

(* stopChild("daemon"): whatever this.daemon is now.  A child that ignores  *)
(* SIGTERM is killed.                                                      *)
Terminates(p) ==
    /\ expected' = expected \cup {p}
    /\ proc' = IF Alive(p) THEN [proc EXCEPT ![p] = "dead"] ELSE proc

StopChild(t) ==
    /\ task[t].at \in {"daemon.kill", "cleanup.kill"}
    /\ daemon # None /\ ~Entering
    /\ Terminates(daemon)
    /\ task' = [task EXCEPT ![t].child = daemon,
                   ![t].at = IF @ = "daemon.kill" THEN "daemon.killed" ELSE "cleanup.killed"]
    /\ UNCHANGED <<busy, draining, alias, daemon, tunnel, restartable, mine, control, monitor,
                   session, budget>>

(* The exit event has been handled, or there was no child to stop. *)
ChildStopped(t) ==
    /\ \/ task[t].at \in {"daemon.kill", "cleanup.kill"} /\ daemon = None
       \/ task[t].at \in {"daemon.killed", "cleanup.killed"} /\ proc[task[t].child] = "gone"
    /\ UNCHANGED <<daemon, tunnel>>
    /\ IF task[t].at \in {"daemon.kill", "daemon.killed"}
       THEN Throws(t) ELSE Proceeds(t, "cleanup.tunnel")
    /\ UNCHANGED <<machine, restartable, expected, mine, monitor, session, budget>>

(* recover: both children are looked at again before "ready" is written.   *)
RecoveryChecks(r) ==
    /\ At(r, "recovered") /\ ~Entering
    /\ \/ /\ Accepting(daemon) /\ (Full => tunnel)
          /\ IF Full
             THEN Proceeds(r, "recovered.tunnel")
             ELSE /\ file' = Marker("ready", daemon, tunnel)
                  /\ task' = [task EXCEPT ![r] = NoTask]
                  /\ UNCHANGED <<stopping, timers, attempts>>
          /\ UNCHANGED budget
       \/ /\ \/ /\ \/ daemon = None \/ (Full /\ ~tunnel)
                   \/ Alive(daemon) /\ proc[daemon] # "booting" /\ ~Accepting(daemon)
                /\ UNCHANGED budget
             \/ Fault
          /\ UNCHANGED <<daemon, tunnel>>
          /\ Throws(r)
    /\ UNCHANGED <<machine, handles, monitor, session>>

RecoveryEnds(r) ==
    /\ At(r, "recovered.tunnel")
    /\ \/ /\ alias # "stopped"
          /\ tunnel' = TRUE
          /\ file' = Marker("ready", daemon, TRUE)
          /\ task' = [task EXCEPT ![r] = NoTask]
          /\ UNCHANGED <<stopping, timers, attempts, budget>>
       \/ /\ \/ alias = "stopped" /\ UNCHANGED budget
             \/ Fault
          /\ UNCHANGED <<daemon, tunnel>>
          /\ Throws(r)
    /\ UNCHANGED <<machine, daemon, restartable, expected, mine, monitor, session>>

-----------------------------------------------------------------------------
(* startIfConfigured, startConfigured *)

EnterStart == IF Full THEN "tunnel.status" ELSE "daemon"
StartSettles(tasks) ==
    /\ task' = [tasks EXCEPT !["start"] = NoTask]
    /\ op' = IF op = "starting" THEN "none" ELSE op

(* A start that finds a stop under way waits for it; a start that finds a  *)
(* start shares it.                                                        *)
RequestStart ==
    task' = IF ~At("start", "off") THEN task
            ELSE [task EXCEPT !["start"].at = IF Running("stop") THEN "wait" ELSE "probe"]

StartupStarts ==
    /\ pending
    /\ \/ life = "up"
       \/ life = "quitting" /\ StartDuringQuit
    /\ pending' = FALSE
    /\ RequestStart
    /\ UNCHANGED <<machine, handles, control, monitor, life, op, budget>>

StartProbes ==
    /\ At("start", "probe")
    /\ IF daemon = None /\ ~tunnel /\ (Listening # {} \/ MayBeLive)
       THEN Proceeds("start", "stale")
       ELSE /\ stopping' = FALSE
            /\ Go("start", EnterStart)
            /\ UNCHANGED <<timers, attempts, file>>
    /\ UNCHANGED <<machine, handles, monitor, session, budget>>

(* cleanupFailedStart: a healthy daemon is drained, another one is killed. *)
CleanupBegins ==
    /\ At("start", "cleanup")
    /\ \/ /\ daemon = None
          /\ Proceeds("start", "cleanup.tunnel")
          /\ UNCHANGED budget
       \/ /\ Healthy(daemon)
          /\ Proceeds("start", "cleanup.drain")
          /\ UNCHANGED budget
       \/ /\ daemon # None
          /\ IF Healthy(daemon) THEN Fault ELSE UNCHANGED budget
          /\ Proceeds("start", "cleanup.kill")
    /\ UNCHANGED <<machine, handles, monitor, session>>

CleanupEnds ==
    /\ stopping' = FALSE
    /\ file' = Marker("failed", daemon', tunnel')
    /\ StartSettles(task)
    /\ UNCHANGED <<timers, attempts>>

(* A tunnel that does not prove that it stopped stays supervised. *)
StopsTunnel ==
    \/ alias' = "stopped" /\ tunnel' = FALSE /\ monitor' = FALSE /\ UNCHANGED budget
    \/ Fault /\ alias' \in {alias, "stopped"} /\ monitor' = TRUE /\ UNCHANGED tunnel

CleanupTunnel ==
    /\ At("start", "cleanup.tunnel")
    /\ IF tunnel THEN StopsTunnel ELSE UNCHANGED <<alias, tunnel, monitor, budget>>
    /\ UNCHANGED daemon
    /\ CleanupEnds
    /\ UNCHANGED <<proc, busy, draining, restartable, expected, mine, life, pending>>

-----------------------------------------------------------------------------
(* stopForSetup *)

(* What a forced shutdown does before its first await. *)
ForceBegins(tasks) ==
    /\ stopping' = TRUE
    /\ monitor' = FALSE
    /\ timers' = {}
    /\ task' = [tasks EXCEPT !["quit"].at = "force.recovery"]

(* performStopForSetup returns or throws: a start that waited for it goes  *)
(* on or throws too, and so does the quit, which then forces.              *)
(* mutant: only a stop that succeeds lets exits count as losses again *)
StopSettlesStuck(ok, status) ==
    LET tasks == [task EXCEPT
                     !["stop"]  = NoTask,
                     !["start"] = IF ~At("start", "wait") THEN @
                                  ELSE IF ok THEN [@ EXCEPT !.at = "probe"] ELSE NoTask]
    IN /\ file' = IF ok THEN NoMarker ELSE Marker(status, daemon', tunnel')
       /\ op' = IF op # "stopping" THEN op ELSE IF ok THEN "between" ELSE "none"
       /\ UNCHANGED attempts
       /\ IF At("quit", "stop") /\ ~ok
          THEN ForceBegins(tasks)
          ELSE /\ stopping' = ~ok
               /\ task' = IF At("quit", "stop") THEN [tasks EXCEPT !["quit"].at = "exit"]
                          ELSE tasks
               /\ UNCHANGED <<monitor, timers>>


StopSettles(ok, status) ==
    LET tasks == [task EXCEPT
                     !["stop"]  = NoTask,
                     !["start"] = IF ~At("start", "wait") THEN @
                                  ELSE IF ok THEN [@ EXCEPT !.at = "probe"] ELSE NoTask]
    IN /\ file' = IF ok THEN NoMarker ELSE Marker(status, daemon', tunnel')
       /\ op' = IF op # "stopping" THEN op ELSE IF ok THEN "between" ELSE "none"
       /\ UNCHANGED attempts
       /\ IF At("quit", "stop") /\ ~ok
          THEN ForceBegins(tasks)
          ELSE /\ stopping' = FALSE
               /\ task' = IF At("quit", "stop") THEN [tasks EXCEPT !["quit"].at = "exit"]
                          ELSE tasks
               /\ UNCHANGED <<monitor, timers>>

(* The flag, the monitor and the timers, once the start has settled. *)
StopBegins(tasks) ==
    /\ stopping' = TRUE
    /\ monitor' = FALSE
    /\ timers' = {}
    /\ task' = [tasks EXCEPT !["stop"].at = "settle.recovery"]
RequestStop(tasks) ==
    IF Running("start")
    THEN task' = [tasks EXCEPT !["stop"].at = "settle.start"]
         /\ UNCHANGED <<stopping, monitor, timers>>
    ELSE StopBegins(tasks)

SetupStops ==
    /\ life = "up" /\ op = "none" /\ ~pending
    /\ Spend("setups")
    /\ op' = "stopping"
    /\ RequestStop(task)
    /\ UNCHANGED <<machine, handles, attempts, file, life, pending>>

(* The operation starts the runtime again, or has removed it. *)
SetupStarts ==
    /\ op = "between"
    /\ \/ op' = "starting" /\ RequestStart
       \/ op' = "none" /\ UNCHANGED task
    /\ UNCHANGED <<machine, handles, control, monitor, life, pending, budget>>

StartIgnored == UNCHANGED budget          \* mutant: a stop does not wait for a start
StartSettled == ~Running("start") /\ UNCHANGED budget
RecoveriesSettled == (\A r \in Recoveries : At(r, "off")) /\ UNCHANGED budget

StopSettlesStart ==
    /\ At("stop", "settle.start")
    /\ StartSettled \/ (Running("start") /\ Late)
    /\ StopBegins(task)
    /\ UNCHANGED <<machine, handles, attempts, file, session>>

StopSettlesRecoveries ==
    /\ At("stop", "settle.recovery")
    /\ RecoveriesSettled \/ ((\E r \in Recoveries : ~At(r, "off")) /\ Late)
    /\ Proceeds("stop", "inspect")
    /\ UNCHANGED <<machine, handles, monitor, session>>

TunnelFirst(held) ==                      \* mutant: the tunnel is stopped before the drain
    CASE held -> "stop.tunnel" [] daemon # None /\ ~held -> "stop.drain" [] OTHER -> "stale"
FirstStep(held) ==
    CASE daemon # None -> "stop.drain" [] daemon = None /\ held -> "stop.tunnel"
      [] OTHER -> "stale"

(* A tunnel between its monitor and its recovery is adopted again. *)
StopInspects ==
    LET live  == Listening # {} \/ MayBeLive
        adopt == Full /\ ~tunnel /\ (live \/ file.status = "none")
    IN /\ At("stop", "inspect")
       /\ ~Entering
       /\ \/ /\ tunnel' = (tunnel \/ (adopt /\ alias # "stopped"))
             /\ UNCHANGED daemon
             /\ IF daemon = None /\ ~tunnel' /\ ~live
                THEN StopSettles(TRUE, "none")
                ELSE /\ Proceeds("stop", FirstStep(tunnel'))
                     /\ UNCHANGED <<monitor, op>>
             /\ UNCHANGED budget
          \/ /\ adopt /\ Fault
             /\ Proceeds("stop", "undo.ready")
             /\ UNCHANGED <<daemon, tunnel, monitor, op>>
    /\ UNCHANGED <<machine, restartable, expected, mine, life, pending>>

-----------------------------------------------------------------------------
(* stopStaleOwnedRuntime, by a start or a stop *)

StaleDone(t) ==
    /\ UNCHANGED <<daemon, tunnel>>
    /\ IF t = "stop" THEN StopSettles(TRUE, "none")
       ELSE /\ file' = NoMarker
            /\ stopping' = FALSE
            /\ Go(t, EnterStart)
            /\ UNCHANGED <<timers, attempts, monitor, op>>
StaleFails(t) ==
    /\ UNCHANGED <<daemon, tunnel, monitor>>
    /\ IF t = "stop" THEN Proceeds(t, "undo.ready") /\ UNCHANGED op
       ELSE /\ file' = ExternalMarker
            /\ StartSettles(task)
            /\ UNCHANGED <<stopping, timers, attempts>>

(* Only a daemon that the marker names is touched. *)
StaleInspects(t) ==
    LET unknown == \/ Listening # {} /\ file.daemon \notin Listening
                   \/ Listening = {} /\ Alive(file.daemon)
        hooked  == Full /\ alias # "stopped"
    IN /\ At(t, "stale")
       /\ IF file.status = "none" \/ unknown
          THEN StaleFails(t) /\ UNCHANGED budget
          ELSE \/ /\ Listening = {} /\ ~hooked
                  /\ StaleDone(t)
                  /\ UNCHANGED budget
               \/ /\ Listening # {} \/ hooked
                  /\ Proceeds(t, IF Listening # {} THEN "stale.drain" ELSE "stale.tunnel")
                  /\ UNCHANGED <<daemon, tunnel, monitor, op, budget>>
               \/ /\ Full /\ Fault
                  /\ StaleFails(t)
       /\ UNCHANGED <<machine, restartable, expected, mine, life, pending>>

StaleTunnel(t) ==
    /\ At(t, "stale.tunnel")
    /\ \/ alias' = "stopped" /\ StaleDone(t) /\ UNCHANGED budget
       \/ Full /\ Fault /\ alias' \in {alias, "stopped"} /\ StaleFails(t)
    /\ UNCHANGED <<proc, busy, draining, restartable, expected, mine, life, pending>>

-----------------------------------------------------------------------------
(* Drain, shutdown and exit of a daemon: a stale one, a failed start's, a  *)
(* stop's.                                                                 *)

Targets(t) == IF task[t].at \in {"stale.drain", "stale.shutdown"}
              THEN Listening ELSE Listening \cap {daemon}

(* performStopForSetup's catch: first the tunnel, then the daemon. *)
Undo == Proceeds("stop", IF task["stop"].unhooked /\ ~tunnel' THEN "tunnel.status"
                         ELSE IF task["stop"].drained THEN "undo.daemon" ELSE "undo.ready")

(* What a failed step does to the task. *)
Fails(t) ==
    IF task[t].at \in {"stale.drain", "stale.shutdown", "stale.exit"}
    THEN StaleFails(t)
    ELSE /\ UNCHANGED <<daemon, tunnel, monitor>>
         /\ IF t = "start" THEN CleanupEnds ELSE Undo /\ UNCHANGED op

(* acquireDrain: every poll sets `draining` again; after 15 s with a turn, *)
(* or on any failure, the drain is compensated by a resume.                *)
Resumed(P) == draining \ P
Drain(t) ==
    /\ task[t].at \in {"stale.drain", "cleanup.drain", "stop.drain"}
    /\ \/ \E p \in Targets(t) \ busy :
             /\ draining' = draining \cup {p}
             /\ task' = [task EXCEPT ![t].drained = TRUE,
                            ![t].at = CASE @ = "stale.drain"   -> "stale.shutdown"
                                        [] @ = "cleanup.drain" -> "cleanup.shutdown"
                                        [] OTHER               -> "stop.tunnel"]
             /\ UNCHANGED <<control, daemon, tunnel, monitor, op, budget>>
       \/ \E p \in (Targets(t) \cap busy) \ draining :
             /\ draining' = draining \cup {p}
             /\ UNCHANGED <<task, control, daemon, tunnel, monitor, op, budget>>
       \/ \E p \in Targets(t) \cap busy \cap draining :
             /\ draining' = Resumed({p})
             /\ Fails(t)
             /\ UNCHANGED budget
       \/ /\ Targets(t) = {}
          /\ Fails(t)
          /\ UNCHANGED <<draining, budget>>
       \/ /\ Targets(t) # {} /\ Fault
          /\ draining' \in {draining \cup Targets(t), Resumed(Targets(t))}
          /\ Fails(t)
    /\ UNCHANGED <<proc, busy, alias, restartable, expected, mine, life, pending>>

(* /admin/shutdown is refused unless the daemon is draining and idle.  A   *)
(* stale daemon and a failed start's are resumed when the step fails.      *)
ShutdownRefused(p) == p \notin draining \/ p \in busy

Shutdown(t) ==
    LET undrained == At(t, "stop.shutdown") /\ ~task[t].drained
    IN /\ task[t].at \in {"stale.shutdown", "cleanup.shutdown", "stop.shutdown"}
       /\ At(t, "stop.shutdown") => daemon # None
       /\ \/ \E p \in Targets(t) :
                /\ ~undrained /\ ~ShutdownRefused(p)
                /\ proc' = [proc EXCEPT ![p] = "closing"]
                /\ draining' = draining \cup {p}
                /\ task' = [task EXCEPT ![t].child = p,
                               ![t].at = CASE @ = "stale.shutdown"   -> "stale.exit"
                                           [] @ = "cleanup.shutdown" -> "cleanup.exit"
                                           [] OTHER                  -> "stop.exit"]
                /\ UNCHANGED <<control, daemon, tunnel, monitor, op, budget>>
          \/ /\ \/ /\ undrained \/ \A p \in Targets(t) : ShutdownRefused(p)
                   /\ UNCHANGED budget
                \/ Fault
             /\ draining' = IF At(t, "stop.shutdown") THEN draining ELSE Resumed(Targets(t))
             /\ Fails(t)
             /\ UNCHANGED proc
       /\ UNCHANGED <<busy, alias, restartable, expected, mine, life, pending>>

(* The stop's daemon is already gone. *)
StopFindsNoDaemon ==
    /\ At("stop", "stop.shutdown") /\ daemon = None
    /\ UNCHANGED <<daemon, tunnel>>
    /\ StopSettles(TRUE, "none")
    /\ UNCHANGED <<machine, restartable, expected, mine, life, pending, budget>>

(* The exit and the release of the port; this.daemon is cleared after both. *)
ExitDone(t) ==
    IF At(t, "stale.exit")
    THEN Proceeds(t, "stale.tunnel") /\ UNCHANGED <<daemon, tunnel, monitor, op>>
    ELSE /\ daemon' = None
         /\ UNCHANGED tunnel
         /\ IF t = "stop" THEN StopSettles(TRUE, "none")
            ELSE Proceeds(t, "cleanup.tunnel") /\ UNCHANGED <<monitor, op>>
AwaitExit(t) ==
    LET exited == \/ proc[task[t].child] = "gone"
                  \/ At(t, "stale.exit") /\ proc[task[t].child] = "dead"
    IN /\ task[t].at \in {"stale.exit", "cleanup.exit", "stop.exit"}
       /\ \/ /\ exited /\ Listening = {}
             /\ ExitDone(t)
             /\ UNCHANGED <<draining, budget>>
          \/ /\ \/ exited /\ Listening # {} /\ UNCHANGED budget
                \/ ~exited /\ Fault
             /\ draining' = IF At(t, "stop.exit") THEN draining ELSE Resumed(Listening)
             /\ Fails(t)
       /\ UNCHANGED <<proc, busy, alias, restartable, expected, mine, life, pending>>

(* stopTunnelGracefully, between the drain and the shutdown. *)
StopTunnel ==
    /\ At("stop", "stop.tunnel")
    /\ IF ~tunnel
       THEN Proceeds("stop", "stop.shutdown") /\ UNCHANGED <<alias, tunnel, monitor, budget>>
       ELSE /\ StopsTunnel
            /\ IF ~tunnel'
               THEN /\ task' = [task EXCEPT !["stop"].at = "stop.shutdown",
                                            !["stop"].unhooked = TRUE]
                    /\ UNCHANGED control
               ELSE Undo
    /\ UNCHANGED <<proc, busy, draining, daemon, restartable, expected, mine, session>>

(* restoreDrainedDaemon: resume the daemon, or start another one. *)
UndoDaemon ==
    LET stop    == task["stop"]
        unsound == task' = [task EXCEPT !["stop"].at = "undo.ready", !["stop"].sound = FALSE]
    IN /\ At("stop", "undo.daemon")
       /\ \/ /\ ~stop.drained
             /\ Go("stop", "undo.ready")
             /\ UNCHANGED <<draining, daemon, budget>>
          \/ /\ stop.drained /\ Healthy(daemon)
             /\ \/ draining' = Resumed({daemon}) /\ Go("stop", "undo.ready") /\ UNCHANGED budget
                \/ unsound /\ Fault /\ UNCHANGED draining
             /\ UNCHANGED daemon
          \/ /\ stop.drained /\ daemon # None /\ ~Healthy(daemon)
             /\ unsound
             /\ UNCHANGED <<draining, daemon, budget>>
          \/ /\ stop.drained /\ daemon = None
             /\ IF Listening = {} THEN Go("stop", "daemon") ELSE unsound
             /\ UNCHANGED <<draining, daemon, budget>>
       /\ UNCHANGED <<proc, busy, alias, tunnel, restartable, expected, mine, control, monitor,
                      session>>

(* ownedRuntimeReady: the daemon is probed first, the tunnel after it. *)
UndoReady ==
    LET ready == task["stop"].sound /\ Accepting(daemon)
    IN /\ At("stop", "undo.ready")
       /\ UNCHANGED <<daemon, tunnel>>
       /\ \/ /\ ready /\ Full
             /\ Proceeds("stop", "undo.tunnel")
             /\ UNCHANGED <<monitor, op, budget>>
          \/ ready /\ ~Full /\ StopSettles(FALSE, "ready") /\ UNCHANGED budget
          \/ /\ IF ready THEN Fault ELSE UNCHANGED budget
             /\ StopSettles(FALSE, "failed")
       /\ UNCHANGED <<machine, restartable, expected, mine, life, pending>>

UndoTunnelReady ==
    LET ready == tunnel /\ alias = "ready"
    IN /\ At("stop", "undo.tunnel")
       /\ UNCHANGED <<daemon, tunnel>>
       /\ \/ ready /\ StopSettles(FALSE, "ready") /\ UNCHANGED budget
          \/ /\ IF ready THEN Fault ELSE UNCHANGED budget
             /\ StopSettles(FALSE, "failed")
       /\ UNCHANGED <<machine, restartable, expected, mine, life, pending>>

-----------------------------------------------------------------------------
(* requestQuit: shutdown({cancelActiveTurns, force}) *)

(* Refused while an operation runs. *)
RequestQuit ==
    /\ life = "up" /\ op = "none"
    /\ life' = "quitting"
    /\ Go("quit", "cancel")
    /\ UNCHANGED <<machine, handles, control, monitor, op, pending, budget>>

(* cancelActiveTurns; it throws when a turn arrives meanwhile. *)
CancelTurns ==
    /\ At("quit", "cancel")
    /\ \/ /\ daemon # None => Listening # {}
          /\ busy' = IF daemon = None THEN busy ELSE busy \ Listening
          /\ RequestStop([task EXCEPT !["quit"].at = "stop"])
          /\ UNCHANGED budget
       \/ /\ daemon # None
          /\ IF \E p \in Listening : ~Accepting(p) THEN Fault ELSE UNCHANGED budget
          /\ ForceBegins(task)
          /\ UNCHANGED busy
    /\ UNCHANGED <<proc, draining, alias, handles, attempts, file, session>>

NoDeadline == FALSE                       \* mutant: the forced quit has no deadline

(* 45 s without an answer of the stop, which goes on. *)
QuitDeadline ==
    /\ At("quit", "stop")
    /\ ForcedQuit
    /\ ForceBegins(task)
    /\ UNCHANGED <<machine, handles, attempts, file, session, budget>>

(* forceStopOwnedRuntime *)
ForceSettles ==
    /\ At("quit", "force.recovery")
    /\ RecoveriesSettled \/ (ForcedQuit /\ UNCHANGED budget)
    /\ Proceeds("quit", "force.tunnel")
    /\ UNCHANGED <<machine, handles, monitor, session>>

ForceTunnel ==
    /\ At("quit", "force.tunnel")
    /\ \/ /\ tunnel' = FALSE
          /\ alias' = IF tunnel THEN "stopped" ELSE alias
          /\ Go("quit", "force.daemon")
          /\ UNCHANGED budget
       \/ /\ tunnel /\ Fault
          /\ task' = [task EXCEPT !["quit"].at = "force.daemon", !["quit"].sound = FALSE]
          /\ UNCHANGED <<alias, tunnel>>
    /\ UNCHANGED <<proc, busy, draining, daemon, restartable, expected, mine, control, monitor,
                   session>>

ForceDaemon ==
    /\ At("quit", "force.daemon") /\ daemon # None /\ ~Entering
    /\ Terminates(daemon)
    /\ task' = [task EXCEPT !["quit"].child = daemon, !["quit"].at = "force.killed"]
    /\ UNCHANGED <<busy, draining, alias, daemon, tunnel, restartable, mine, control, monitor,
                   session, budget>>

ForceEnds ==
    /\ ~Entering
    /\ \/ At("quit", "force.daemon") /\ daemon = None
       \/ At("quit", "force.killed") /\ proc[task["quit"].child] = "gone"
    /\ stopping' = FALSE
    /\ file' = IF task["quit"].sound THEN NoMarker ELSE Marker("failed", daemon, tunnel)
    /\ Go("quit", "exit")
    /\ UNCHANGED <<machine, handles, timers, attempts, monitor, session, budget>>

(* Nothing of the launcher's memory is left; its children are. *)
LauncherGone ==
    /\ daemon' = None /\ tunnel' = FALSE
    /\ restartable' = {} /\ expected' = {} /\ mine' = {}
    /\ stopping' = FALSE /\ monitor' = FALSE /\ timers' = {}
    /\ attempts' = [c \in Children |-> 0]
    /\ file' = [file EXCEPT !.own = FALSE]
    /\ op' = "none" /\ pending' = FALSE
    /\ task' = [t \in Tasks |-> NoTask]
    /\ UNCHANGED machine

LauncherExits ==
    /\ At("quit", "exit") /\ ~Entering
    /\ life' = IF task["quit"].sound THEN "clean" ELSE "partial"
    /\ LauncherGone
    /\ UNCHANGED budget

LauncherCrashes ==
    /\ UpLife /\ Spend("crashes")
    /\ life' = "crashed"
    /\ LauncherGone

LauncherStarts ==
    /\ ~UpLife /\ Spend("launches")
    /\ life' = "up"
    /\ pending' = TRUE
    /\ UNCHANGED <<machine, handles, control, monitor, op, task>>

-----------------------------------------------------------------------------
(* The daemon, the tunnel and the events of the launcher *)

Boots(p) ==
    /\ proc[p] = "booting"
    /\ proc' = [proc EXCEPT ![p] = IF Listening = {} THEN "serving" ELSE "dead"]
    /\ UNCHANGED <<busy, draining, alias, handles, control, monitor, session, task, budget>>

BeginTurn(p) ==
    /\ Accepting(p) /\ p \notin busy
    /\ busy' = busy \cup {p}
    /\ UNCHANGED <<proc, draining, alias, handles, control, monitor, session, task, budget>>

EndTurn(p) ==
    /\ Alive(p) /\ p \in busy
    /\ busy' = busy \ {p}
    /\ UNCHANGED <<proc, draining, alias, handles, control, monitor, session, task, budget>>

(* The acknowledged shutdown ends, whatever arrived meanwhile. *)
Closes(p) ==
    /\ proc[p] = "closing"
    /\ proc' = [proc EXCEPT ![p] = "dead"]
    /\ UNCHANGED <<busy, draining, alias, handles, control, monitor, session, task, budget>>

Dies(p) ==
    /\ proc[p] \in {"booting", "serving"}
    /\ Fault
    /\ proc' = [proc EXCEPT ![p] = "dead"]
    /\ UNCHANGED <<busy, draining, alias, handles, control, monitor, session, task>>

(* The exit event (handleTerminal), or nobody's. *)
Reap(p) ==
    /\ proc[p] = "dead" /\ ~Entering
    /\ proc' = [proc EXCEPT ![p] = "gone"]
    /\ busy' = busy \ {p}
    /\ draining' = draining \ {p}
    /\ IF p \notin mine
       THEN UNCHANGED <<handles, control>>
       ELSE /\ daemon' = IF daemon = p THEN None ELSE daemon
            /\ restartable' = restartable \ {p}
            /\ expected' = expected \ {p}
            /\ mine' = mine \ {p}
            /\ IF stopping \/ p \in expected
               THEN file' = Marker("stopping", daemon', tunnel) /\ UNCHANGED <<timers, attempts>>
               ELSE IF p \in restartable
               THEN ScheduleRecovery("daemon", Marker("degraded", daemon', tunnel))
               ELSE file' = Marker("degraded", daemon', tunnel) /\ UNCHANGED <<timers, attempts>>
            /\ UNCHANGED <<tunnel, stopping>>
    /\ UNCHANGED <<alias, monitor, session, task, budget>>

TunnelFails ==
    /\ alias = "ready" /\ Fault
    /\ alias' \in {"sick", "stopped"}
    /\ UNCHANGED <<proc, busy, draining, handles, control, monitor, session, task>>

(* Three failed observations of the monitor, or one fatal one. *)
MonitorLosesTunnel ==
    /\ monitor /\ ~stopping /\ "tunnel" \notin timers /\ alias # "ready"
    /\ tunnel' = FALSE
    /\ monitor' = FALSE
    /\ ScheduleRecovery("tunnel", Marker("degraded", daemon, FALSE))
    /\ UNCHANGED <<machine, daemon, restartable, expected, mine, stopping, session, task, budget>>

(* An observation of a tunnel that is ready and not yet held. *)
MonitorAdopts ==
    /\ monitor /\ ~stopping /\ "tunnel" \notin timers /\ alias = "ready" /\ ~tunnel
    /\ tunnel' = TRUE
    /\ file' = Marker("ready", daemon, TRUE)
    /\ UNCHANGED <<machine, daemon, restartable, expected, mine, stopping, timers, attempts,
                   monitor, session, task, budget>>

(* recordRestart forgets what is older than a minute. *)
RestartWindowPasses(name) ==
    /\ UpLife /\ attempts[name] > 0
    /\ attempts' = [attempts EXCEPT ![name] = 0]
    /\ UNCHANGED <<machine, handles, stopping, timers, file, monitor, session, task, budget>>

(* The end of the model's bounds. *)
Finished == ~UpLife /\ budget.launches = 0 /\ UNCHANGED vars

-----------------------------------------------------------------------------
Init ==
    /\ proc = [p \in Proc |-> "gone"] /\ busy = {} /\ draining = {} /\ alias = "stopped"
    /\ daemon = None /\ tunnel = FALSE /\ restartable = {} /\ expected = {} /\ mine = {}
    /\ stopping = FALSE /\ monitor = FALSE /\ timers = {}
    /\ attempts = [c \in Children |-> 0]
    /\ file = NoMarker
    /\ life = "up" /\ op = "none" /\ pending = TRUE
    /\ task = [t \in Tasks |-> NoTask]
    /\ budget = [faults |-> MaxFaults, late |-> MaxLate, setups |-> MaxSetups,
                 crashes |-> MaxCrashes, launches |-> MaxLaunches]

TunnelStep(t) == TunnelStatus(t) \/ TunnelStop(t) \/ TunnelConnect(t) \/ TunnelVerify(t)
                 \/ TunnelCleanup(t)
DaemonStep(t) == StartDaemon(t) \/ ResumeDaemon(t) \/ WaitForProxy(t) \/ StopChild(t)
                 \/ ChildStopped(t)
EndStep(t)    == StaleInspects(t) \/ StaleTunnel(t) \/ Drain(t) \/ Shutdown(t) \/ AwaitExit(t)
StartStep     == StartProbes \/ CleanupBegins \/ CleanupTunnel
StopStep      == StopSettlesStart \/ StopSettlesRecoveries \/ StopInspects \/ StopFindsNoDaemon
                 \/ StopTunnel \/ UndoDaemon \/ UndoReady \/ UndoTunnelReady
ForceStep     == ForceSettles \/ ForceTunnel \/ ForceDaemon \/ ForceEnds
QuitStep      == CancelTurns \/ ForceStep \/ LauncherExits
Exit(p)       == Closes(p) \/ Reap(p)

Next ==
    \/ \E t \in Tasks \ {"quit"} : TunnelStep(t) \/ DaemonStep(t) \/ EndStep(t)
    \/ StartupStarts \/ StartStep
    \/ SetupStops \/ SetupStarts \/ StopStep
    \/ RequestQuit \/ QuitStep \/ QuitDeadline
    \/ LauncherCrashes \/ LauncherStarts
    \/ \E r \in Recoveries : \/ RecoveryChecks(r) \/ RecoveryEnds(r)
                             \/ \E name \in Children : TimerFires(name, r)
    \/ \E p \in Proc : Boots(p) \/ BeginTurn(p) \/ EndTurn(p) \/ Dies(p) \/ Exit(p)
    \/ TunnelFails \/ MonitorLosesTunnel \/ MonitorAdopts
    \/ \E name \in Children : RestartWindowPasses(name)
    \/ Finished

Spec == Init /\ [][Next]_vars

-----------------------------------------------------------------------------
(* Properties *)

(* Type correctness. *)
TypeOK ==
    /\ proc \in [Proc -> {"booting", "serving", "closing", "dead", "gone"}]
    /\ busy \subseteq Proc /\ draining \subseteq Proc
    /\ alias \in {"stopped", "ready", "sick"}
    /\ daemon \in Proc \cup {None} /\ tunnel \in BOOLEAN
    /\ restartable \subseteq Proc /\ expected \subseteq Proc /\ mine \subseteq Proc
    /\ stopping \in BOOLEAN /\ monitor \in BOOLEAN /\ timers \subseteq Children
    /\ attempts \in [Children -> 0..MaxRestarts]
    /\ file.status \in {"none", "starting", "ready", "degraded", "stopping", "failed", "external"}
    /\ life \in {"up", "quitting", "clean", "partial", "crashed"}
    /\ op \in {"none", "stopping", "between", "starting"} /\ pending \in BOOLEAN
    /\ DOMAIN task = Tasks

(* No task runs, none is scheduled, and every exit has been handled. *)
Quiet ==
    /\ life = "up" /\ op = "none" /\ ~pending /\ timers = {}
    /\ \A t \in Tasks : At(t, "off")
    /\ \A p \in mine : Alive(p)

(* The marker holds a final status, and "ready" is true: the daemon        *)
(* accepts turns, and the tunnel is held and monitored.                    *)
MarkerIsTrue ==
    file.own =>
        /\ file.status \in {"none", "ready", "failed", "external"}
        /\ file.status = "ready" => Accepting(daemon) /\ (Full => tunnel /\ monitor)

(* Every child of this launcher that still runs is the one it would stop,  *)
(* and a runtime that is ready has no other daemon, not even an orphan.    *)
NoForgottenChild ==
    /\ \A p \in mine : p = daemon
    /\ file.own /\ file.status = "ready" => \A p \in Proc : Alive(p) => p = daemon

(* When overlapping recoveries, setup operations and their compensations   *)
(* are over, the marker is true and no child was forgotten on the way, as  *)
(* long as no stop has given up waiting for a start or a recovery.         *)
SettledIsSound == Quiet /\ budget.late = MaxLate => MarkerIsTrue /\ NoForgottenChild

(* A quit that reports success leaves none of the launcher's daemons.      *)
QuitLeavesNoDaemon ==
    [][life' = "clean" /\ life # "clean" => \A p \in mine : ~Alive(p)]_vars

(* A daemon that outlives a crashed launcher can be found from the marker. *)
OrphansAreMarked == life = "crashed" => \A p \in Proc : Alive(p) => file.daemon = p

(* An operation stops the tunnel only when the daemon it holds has been    *)
(* drained, and still is.                                                  *)
StopsOnlyIdle ==
    [][At("stop", "stop.tunnel") /\ op = "stopping" /\ alias # "stopped" /\ alias' = "stopped"
          => Listening \cap {daemon} \subseteq draining \ busy]_vars

(* While nothing has failed or missed a deadline, and the user does not    *)
(* quit, no daemon ends while it has a turn: a drain, an admission and a   *)
(* shutdown are three requests, and a turn may come between any two.       *)
NoTurnIsCut ==
    [][life = "up" /\ budget'.faults = MaxFaults /\ budget'.late = MaxLate
          => \A p \in busy : Alive(p) => proc'[p] # "dead"]_vars

(* A quit ends, also when the graceful stop never answers. *)
QuitEnds == life = "quitting" ~> ~UpLife

(* A start, a stop and a loss end: the marker gets a final status again.   *)
Unsettled == life = "up" /\ file.own /\ file.status \in {"starting", "degraded", "stopping"}
RuntimeSettles == Unsettled ~> ~Unsettled

(* Strong where ~Entering takes a guard away for one step, which the code  *)
(* does not.                                                               *)
ForcedSpec ==
    /\ Spec
    /\ SF_vars(QuitStep) /\ WF_vars(QuitDeadline)
    /\ \A t \in Tasks : WF_vars(StartDaemon(t))
    /\ \A p \in Proc : SF_vars(Exit(p))

FairSpec ==
    /\ ForcedSpec
    /\ \A p \in Proc : WF_vars(Boots(p))
    /\ \A t \in Tasks \ {"quit"} :
          WF_vars(TunnelStep(t) \/ DaemonStep(t) \/ EndStep(t))
    /\ WF_vars(StartStep) /\ WF_vars(StopStep)
    /\ \A r \in Recoveries : WF_vars(RecoveryChecks(r) \/ RecoveryEnds(r))
    /\ \A name \in Children : WF_vars(\E r \in Recoveries : TimerFires(name, r))

=============================================================================
