---------------------- MODULE RuntimeSupervisorProofs ----------------------
(***************************************************************************)
(* Safety of RuntimeSupervisor for every set of pids and of recoveries and *)
(* every bound.                                                            *)
(*                                                                         *)
(* Types holds always.  Under it, Control says which of a start, a stop, a *)
(* quit and the recoveries may run together and whose child the daemon is, *)
(* as long as no wait was given up (Patient).  The rest is proved from the *)
(* two: Orphans (what the marker names), DrainHolds (why a stop may take   *)
(* the tunnel down), Machine and Owned (the processes, and who answers for *)
(* each child), Unfailed (what holds until the first fault), NoTunnel and  *)
(* MarkerHolds (what the marker says in a launcher without a tunnel).      *)
(*                                                                         *)
(* A lemma XTypes says what the step X does to the task that takes it and  *)
(* to the handles; XControl, XMarks, XOwned, XUnfailed, XNoTunnel and      *)
(* XHolds say that X keeps that part of the invariant.                     *)
(***************************************************************************)
EXTENDS RuntimeSupervisor, TLAPS

-----------------------------------------------------------------------------
(* Where a task can be *)

TunnelPlace == {"tunnel.status", "tunnel.stop", "tunnel.connect", "tunnel.adopt",
                "tunnel.verify", "tunnel.cleanup"}
StalePlace  == {"stale", "stale.drain", "stale.shutdown", "stale.exit", "stale.tunnel"}
SpawnPlace  == {"daemon", "daemon.resume", "daemon.existing", "daemon.spawned", "daemon.kill",
                "daemon.killed"}
CleanupPlace == {"cleanup", "cleanup.drain", "cleanup.shutdown", "cleanup.exit", "cleanup.kill",
                 "cleanup.killed", "cleanup.tunnel"}
StartPlace  == {"off", "wait", "probe"} \cup StalePlace \cup TunnelPlace \cup SpawnPlace
               \cup CleanupPlace
StopPlace   == {"off", "settle.start", "settle.recovery", "inspect", "stop.drain", "stop.tunnel",
                "stop.shutdown", "stop.exit", "undo.daemon", "undo.ready", "undo.tunnel"}
               \cup StalePlace \cup TunnelPlace \cup SpawnPlace
RecoveryPlace == {"off", "recovered", "recovered.tunnel"} \cup TunnelPlace \cup SpawnPlace
QuitPlace   == {"off", "cancel", "stop", "force.recovery", "force.tunnel", "force.daemon",
                "force.killed", "exit"}

Label == StartPlace \cup StopPlace \cup RecoveryPlace \cup QuitPlace

Task == [at : Label,
         child : Proc \cup {None}, name : Children, drained : BOOLEAN, unhooked : BOOLEAN,
         sound : BOOLEAN]
File == [status : {"none", "starting", "ready", "degraded", "stopping", "failed", "external"},
         daemon : Proc \cup {None}, tunnel : BOOLEAN, own : BOOLEAN]
Budget == [faults : 0..MaxFaults, late : 0..MaxLate, setups : 0..MaxSetups,
           crashes : 0..MaxCrashes, launches : 0..MaxLaunches]

Fits(t, label) ==
    /\ t = "start" => label \in StartPlace
    /\ t = "stop" => label \in StopPlace
    /\ t = "quit" => label \in QuitPlace
    /\ t \in Recoveries => label \in RecoveryPlace

LookPlace == {"daemon.resume", "daemon.existing", "daemon.spawned", "daemon.killed", "stale.exit",
              "cleanup.killed", "cleanup.exit", "stop.exit", "force.killed"}

(* A task that is off has nothing left; one that looks at a child has one. *)
TaskOK(t, e) ==
    /\ e \in Task
    /\ Fits(t, e.at)
    /\ e.at = "off" => e = NoTask
    /\ e.at \in LookPlace => e.child # None

TaskTypes ==
    /\ task \in [Tasks -> Task]
    /\ \A t \in Tasks : TaskOK(t, task[t])

HandleTypes ==
    /\ proc \in [Proc -> {"booting", "serving", "closing", "dead", "gone"}]
    /\ busy \subseteq Proc /\ draining \subseteq Proc
    /\ alias \in {"stopped", "ready", "sick"}
    /\ daemon \in Proc \cup {None} /\ tunnel \in BOOLEAN
    /\ restartable \subseteq Proc /\ expected \subseteq Proc /\ mine \subseteq Proc

ControlTypes ==
    /\ stopping \in BOOLEAN /\ monitor \in BOOLEAN /\ timers \subseteq Children
    /\ attempts \in [Children -> 0..MaxRestarts]
    /\ file \in File
    /\ life \in {"up", "quitting", "clean", "partial", "crashed"}
    /\ op \in {"none", "stopping", "between", "starting"} /\ pending \in BOOLEAN
    /\ budget \in Budget

Types == TaskTypes /\ HandleTypes /\ ControlTypes

LEMMA NoTaskType ==
  /\ NoTask \in Task
  /\ \A t \in Tasks : Fits(t, "off")
<1>1. NoTask \in Task
  <2>1. "off" \in Label
    BY DEF Label, StartPlace
  <2> QED BY <2>1 DEF NoTask, Task, Children
<1>2. \A t : Fits(t, "off")
  BY DEF Fits, StartPlace, StopPlace, QuitPlace, RecoveryPlace
<1> QED BY <1>1, <1>2

LEMMA TypesInit == Init => Types
<1> SUFFICES ASSUME Init PROVE Types
  OBVIOUS
<1>1. TaskTypes
  <2>1. NoTask.at = "off"
    BY DEF NoTask
  <2>2. \A t \in Tasks : task[t] = NoTask
    BY DEF Init
  <2> QED BY <2>1, <2>2, NoTaskType DEF Init, TaskTypes, TaskOK, LookPlace
<1>2. HandleTypes
  BY DEF Init, HandleTypes
<1>3. ControlTypes
  <2>1. file \in File
    BY DEF Init, File, NoMarker
  <2>2. budget \in Budget
    BY SupervisorAssumption DEF Init, SupervisorAssumption, Budget
  <2>3. attempts \in [Children -> 0..MaxRestarts]
    BY SupervisorAssumption DEF Init, SupervisorAssumption
  <2> QED BY <2>1, <2>2, <2>3 DEF Init, ControlTypes
<1> QED BY <1>1, <1>2, <1>3 DEF Types

LEMMA TaskNames ==
  /\ {"start", "stop", "quit"} \subseteq Tasks
  /\ \A r \in Recoveries : r \in Tasks /\ r # "start" /\ r # "stop" /\ r # "quit"
  /\ \A t \in Tasks : t \in {"start", "stop", "quit"} \/ t \in Recoveries
BY SupervisorAssumption DEF SupervisorAssumption, Tasks

\* Which labels each task may get.
LEMMA Labels ==
  /\ \A t \in Tasks \ {"quit"}, l \in TunnelPlace \cup SpawnPlace : Fits(t, l)
  /\ \A l \in StalePlace : Fits("start", l) /\ Fits("stop", l)
  /\ \A l \in CleanupPlace \cup {"probe", "wait"} : Fits("start", l)
  /\ \A l \in {"settle.start", "settle.recovery", "inspect", "stop.drain", "stop.tunnel",
               "stop.shutdown", "stop.exit", "undo.daemon", "undo.ready", "undo.tunnel"} :
        Fits("stop", l)
  /\ \A r \in Recoveries : Fits(r, "recovered") /\ Fits(r, "recovered.tunnel")
  /\ \A l \in QuitPlace : Fits("quit", l)
BY TaskNames DEF Fits, StartPlace, StopPlace, RecoveryPlace, QuitPlace

\* One task changes: it gets this record.
Becomes(t, e) ==
    /\ TaskTypes'
    /\ task'[t] = e
    /\ \A u \in Tasks \ {t} : task'[u] = task[u]

LEMMA OneChanges ==
  ASSUME TaskTypes, NEW t \in Tasks, NEW e, TaskOK(t, e), task' = [task EXCEPT ![t] = e]
  PROVE  Becomes(t, e)
<1>1. task'[t] = e /\ \A u \in Tasks \ {t} : task'[u] = task[u]
  BY DEF TaskTypes
<1>2. task' \in [Tasks -> Task]
  BY DEF TaskTypes, TaskOK
<1> QED BY <1>1, <1>2 DEF TaskTypes, Becomes

\* One task goes on at a label; what it remembers may change.
Goes(t, label) ==
    /\ TaskTypes'
    /\ \A u \in Tasks \ {t} : task'[u] = task[u]
    /\ task'[t].at = label /\ task'[t].name = task[t].name

LEMMA GoMoves ==
  ASSUME TaskTypes, NEW t \in Tasks, NEW label, Fits(t, label), label # "off",
         label \in LookPlace => task[t].at \in LookPlace, Go(t, label)
  PROVE  /\ Goes(t, label)
         /\ task'[t].child = task[t].child /\ task'[t].drained = task[t].drained
         /\ task'[t].unhooked = task[t].unhooked /\ task'[t].sound = task[t].sound
<1> DEFINE e == [task[t] EXCEPT !.at = label]
<1>1. task' = [task EXCEPT ![t] = e]
  BY DEF Go
<1>2. TaskOK(t, task[t]) /\ task[t] \in Task
  BY DEF TaskTypes, TaskOK
<1>3. /\ e.at = label /\ e.child = task[t].child /\ e.name = task[t].name
      /\ e.drained = task[t].drained /\ e.unhooked = task[t].unhooked /\ e.sound = task[t].sound
  BY <1>2 DEF Task
<1>4. e \in Task
  BY <1>2 DEF Fits, Tasks, Label, Task
<1>5. TaskOK(t, e)
  BY <1>2, <1>3, <1>4 DEF TaskOK
<1> HIDE DEF e
<1> QED BY <1>1, <1>3, <1>5, OneChanges DEF Becomes, Goes

LEMMA EndMoves ==
  ASSUME TaskTypes, NEW t \in Tasks, task' = [task EXCEPT ![t] = NoTask]
  PROVE  Becomes(t, NoTask)
<1>1. NoTask.at = "off"
  BY DEF NoTask
<1>2. TaskOK(t, NoTask)
  BY <1>1, NoTaskType DEF TaskOK, LookPlace
<1> QED BY <1>2, OneChanges

\* The task looks at a child from here on.
LEMMA LookMoves ==
  ASSUME TaskTypes, NEW t \in Tasks, NEW label, Fits(t, label), label # "off", NEW p \in Proc,
         task' = [task EXCEPT ![t].at = label, ![t].child = p]
  PROVE  /\ Goes(t, label) /\ task'[t].child = p
         /\ task'[t].drained = task[t].drained /\ task'[t].unhooked = task[t].unhooked
         /\ task'[t].sound = task[t].sound
<1> DEFINE e == [task[t] EXCEPT !.at = label, !.child = p]
<1>1. task' = [task EXCEPT ![t] = e]
  BY DEF TaskTypes
<1>2. TaskOK(t, task[t]) /\ task[t] \in Task
  BY DEF TaskTypes, TaskOK
<1>3. /\ e.at = label /\ e.child = p /\ e.name = task[t].name
      /\ e.drained = task[t].drained /\ e.unhooked = task[t].unhooked /\ e.sound = task[t].sound
  BY <1>2 DEF Task
<1>4. e \in Task
  BY <1>2 DEF Fits, Tasks, Label, Task
<1>5. TaskOK(t, e)
  BY <1>2, <1>3, <1>4, SupervisorAssumption DEF TaskOK, SupervisorAssumption
<1> HIDE DEF e
<1> QED BY <1>1, <1>3, <1>5, OneChanges DEF Becomes, Goes

\* The task goes on without the trust that its compensation is complete.
LEMMA UnsoundMoves ==
  ASSUME TaskTypes, NEW t \in Tasks, NEW label, Fits(t, label), label \notin LookPlace \cup {"off"},
         task' = [task EXCEPT ![t].at = label, ![t].sound = FALSE]
  PROVE  /\ Goes(t, label) /\ task'[t].child = task[t].child
         /\ task'[t].drained = task[t].drained /\ task'[t].unhooked = task[t].unhooked
         /\ task'[t].sound = FALSE
<1> DEFINE e == [task[t] EXCEPT !.at = label, !.sound = FALSE]
<1>1. task' = [task EXCEPT ![t] = e]
  BY DEF TaskTypes
<1>2. TaskOK(t, task[t]) /\ task[t] \in Task
  BY DEF TaskTypes, TaskOK
<1>3. /\ e.at = label /\ e.child = task[t].child /\ e.name = task[t].name
      /\ e.drained = task[t].drained /\ e.unhooked = task[t].unhooked /\ e.sound = FALSE
  BY <1>2 DEF Task
<1>4. e \in Task
  BY <1>2 DEF Fits, Tasks, Label, Task
<1>5. TaskOK(t, e)
  BY <1>2, <1>3, <1>4 DEF TaskOK
<1> HIDE DEF e
<1> QED BY <1>1, <1>3, <1>5, OneChanges DEF Becomes, Goes

\* What scheduling a recovery leaves: the marker that was just written, or a failed one; never a
\* timer during a stop.
LEMMA Schedules ==
  ASSUME ControlTypes, NEW name \in Children, NEW marker \in File, ScheduleRecovery(name, marker)
  PROVE  /\ file' \in File /\ attempts' \in [Children -> 0..MaxRestarts] /\ timers' \subseteq Children
         /\ timers \subseteq timers' /\ timers' \subseteq timers \cup {name}
         /\ stopping => timers' = timers
         /\ file'.daemon = marker.daemon /\ file'.tunnel = marker.tunnel /\ file'.own = marker.own
         /\ file'.status \in {marker.status, "failed"}
         /\ name \in timers' \/ stopping \/ file'.status = "failed"
<1>1. CASE stopping \/ name \in timers
  BY <1>1 DEF ScheduleRecovery, ControlTypes
<1>2. CASE ~(stopping \/ name \in timers) /\ attempts[name] >= MaxRestarts
  <2>1. file' = [marker EXCEPT !.status = "failed"] /\ UNCHANGED <<timers, attempts>>
    BY <1>2 DEF ScheduleRecovery
  <2> QED BY <1>2, <2>1 DEF ControlTypes, File
<1>3. CASE ~(stopping \/ name \in timers) /\ ~(attempts[name] >= MaxRestarts)
  <2>1. /\ file' = marker /\ timers' = timers \cup {name}
        /\ attempts' = [attempts EXCEPT ![name] = @ + 1]
    BY <1>3 DEF ScheduleRecovery
  <2>2. attempts' \in [Children -> 0..MaxRestarts]
    BY <1>3, <2>1, SupervisorAssumption DEF ControlTypes, SupervisorAssumption
  <2> QED BY <1>3, <2>1, <2>2 DEF ControlTypes
<1> QED BY <1>1, <1>2, <1>3

LEMMA MarkerType ==
  ASSUME NEW status \in {"starting", "ready", "degraded", "stopping", "failed", "external"},
         NEW d \in Proc \cup {None}, NEW tn \in BOOLEAN
  PROVE  /\ Marker(status, d, tn) \in File
         /\ Marker(status, d, tn).status = status /\ Marker(status, d, tn).daemon = d
         /\ Marker(status, d, tn).tunnel = tn /\ Marker(status, d, tn).own
BY DEF Marker, File

LEMMA NoMarkerType ==
  /\ NoMarker \in File /\ NoMarker.status = "none" /\ NoMarker.daemon = None
  /\ NoMarker.tunnel = FALSE /\ NoMarker.own = FALSE
BY DEF NoMarker, File

\* A rejected startTunnel or startDaemon: the start cleans up, a stop's compensation goes on
\* without it, a recovery ends and may be scheduled again.
Thrown(t) ==
    /\ \A u \in Tasks \ {t} : task'[u] = task[u]
    /\ t = "start" => /\ task'[t].at = "cleanup" /\ task'[t].name = task[t].name
                      /\ task'[t].unhooked = task[t].unhooked
                      /\ stopping' = TRUE /\ UNCHANGED <<timers, attempts, file>>
    /\ t = "stop" => /\ task'[t].at \in {"undo.daemon", "undo.ready"}
                     /\ task'[t].at = "undo.daemon" <=> At(t, "tunnel.cleanup")
                     /\ task'[t].drained = task[t].drained
                     /\ task'[t].unhooked = task[t].unhooked /\ task'[t].name = task[t].name
                     /\ UNCHANGED control
    /\ t \in Recoveries => /\ task'[t] = NoTask
                           /\ stopping' = stopping
                           /\ timers \subseteq timers' /\ timers' \subseteq timers \cup {task[t].name}
                           /\ stopping => timers' = timers
                           /\ file'.daemon = daemon' /\ file'.own /\ file'.status = "failed"

LEMMA ThrowsMoves ==
  ASSUME TaskTypes, ControlTypes, NEW t \in Tasks \ {"quit"}, Throws(t),
         daemon' \in Proc \cup {None}, tunnel' \in BOOLEAN
  PROVE  /\ TaskTypes' /\ Thrown(t)
         /\ stopping' \in BOOLEAN /\ file' \in File /\ attempts' \in [Children -> 0..MaxRestarts]
         /\ timers' \subseteq Children
<1>1. CASE t = "start"
  <2>1. stopping' = TRUE /\ Go(t, "cleanup") /\ UNCHANGED <<timers, attempts, file>>
    BY <1>1, TaskNames DEF Throws
  <2>2. Goes(t, "cleanup") /\ task'[t].child = task[t].child /\ task'[t].unhooked = task[t].unhooked
    BY <1>1, <2>1, Labels, GoMoves DEF LookPlace, CleanupPlace
  <2> QED BY <1>1, <2>1, <2>2, TaskNames DEF Goes, ControlTypes, Thrown
<1>2. CASE t = "stop"
  <2>1. /\ task' = [task EXCEPT ![t].sound = FALSE,
                       ![t].at = IF @ = "tunnel.cleanup" THEN "undo.daemon" ELSE "undo.ready"]
        /\ UNCHANGED control
    BY <1>2, TaskNames DEF Throws
  <2> DEFINE label == IF At(t, "tunnel.cleanup") THEN "undo.daemon" ELSE "undo.ready"
  <2>2. task' = [task EXCEPT ![t].at = label, ![t].sound = FALSE]
    BY <2>1 DEF TaskTypes, Task, At
  <2>3. label \in {"undo.daemon", "undo.ready"} /\ (label = "undo.daemon" <=> At(t, "tunnel.cleanup"))
    OBVIOUS
  <2> HIDE DEF label
  <2>4. Goes(t, label) /\ task'[t].child = task[t].child /\ task'[t].drained = task[t].drained
        /\ task'[t].unhooked = task[t].unhooked
    BY <1>2, <2>2, <2>3, Labels, UnsoundMoves DEF LookPlace
  <2> QED BY <1>2, <2>1, <2>3, <2>4, TaskNames DEF Goes, ControlTypes, control, Thrown
<1>3. CASE t \in Recoveries
  <2>1. /\ ScheduleRecovery(task[t].name, Marker("failed", daemon', tunnel'))
        /\ task' = [task EXCEPT ![t] = NoTask] /\ UNCHANGED stopping
    BY <1>3, TaskNames DEF Throws
  <2>2. Becomes(t, NoTask)
    BY <2>1, EndMoves
  <2>3. task[t].name \in Children
    BY DEF TaskTypes, Task
  <2> QED BY <1>3, <2>1, <2>2, <2>3, TaskNames, MarkerType, Schedules
            DEF Becomes, ControlTypes, Thrown
<1> QED BY <1>1, <1>2, <1>3, TaskNames

\* What a forced shutdown does at once: no exit counts as a loss, no timer and no monitor is left.
LEMMA ForceMoves ==
  ASSUME TaskTypes, ForceBegins(task)
  PROVE  /\ Goes("quit", "force.recovery") /\ task'["quit"].sound = task["quit"].sound
         /\ stopping' = TRUE /\ monitor' = FALSE /\ timers' = {}
<1>1. Go("quit", "force.recovery")
  BY DEF ForceBegins, Go
<1> QED BY <1>1, GoMoves, Labels, TaskNames DEF ForceBegins, QuitPlace, LookPlace

\* The settled stop is over; a start that waited for it goes on or ends, and so does the quit.
LEMMA StopSettlesMoves ==
  ASSUME TaskTypes, ControlTypes, NEW ok \in BOOLEAN, NEW status, StopSettles(ok, status),
         ok \/ status \in {"ready", "failed"}, daemon' \in Proc \cup {None}, tunnel' \in BOOLEAN
  PROVE  /\ TaskTypes' /\ stopping' \in BOOLEAN /\ monitor' \in BOOLEAN /\ timers' \subseteq timers
         /\ file' \in File /\ attempts' = attempts
         /\ op' \in {"none", "stopping", "between", "starting"}
         /\ op' = IF op # "stopping" THEN op ELSE IF ok THEN "between" ELSE "none"
         /\ file' = IF ok THEN NoMarker ELSE Marker(status, daemon', tunnel')
         /\ task'["stop"] = NoTask /\ \A r \in Recoveries : task'[r] = task[r]
         /\ ~At("start", "wait") => task'["start"] = task["start"]
         /\ task'["quit"].at = IF ~At("quit", "stop") THEN task["quit"].at
                               ELSE IF ok THEN "exit" ELSE "force.recovery"
         /\ task'["quit"].child = task["quit"].child
         /\ task'["quit"].sound = task["quit"].sound
         /\ At("quit", "stop") /\ ~ok => stopping' = TRUE /\ monitor' = FALSE /\ timers' = {}
         /\ ~At("quit", "stop") \/ ok => stopping' = FALSE /\ UNCHANGED <<monitor, timers>>
<1> DEFINE started == IF ~At("start", "wait") THEN task["start"]
                      ELSE IF ok THEN [task["start"] EXCEPT !.at = "probe"] ELSE NoTask
           quits   == IF ~At("quit", "stop") THEN task["quit"]
                      ELSE [task["quit"] EXCEPT !.at = IF ok THEN "exit" ELSE "force.recovery"]
           tasks   == [task EXCEPT
                     !["stop"]  = NoTask,
                     !["start"] = IF ~At("start", "wait") THEN @
                                  ELSE IF ok THEN [@ EXCEPT !.at = "probe"] ELSE NoTask]
<1>1. /\ tasks["stop"] = NoTask /\ tasks["start"] = started
      /\ \A u \in Tasks \ {"stop", "start"} : tasks[u] = task[u]
      /\ DOMAIN tasks = Tasks /\ tasks = [u \in Tasks |-> tasks[u]]
  BY TaskNames DEF TaskTypes
<1>2. TaskOK("start", started)
  <2>1. TaskOK("start", task["start"]) /\ task["start"] \in Task
    BY TaskNames DEF TaskTypes, TaskOK
  <2>2. NoTask.at = "off"
    BY DEF NoTask
  <2>3. TaskOK("start", NoTask)
    BY <2>2, NoTaskType, TaskNames DEF TaskOK, LookPlace
  <2> DEFINE e == [task["start"] EXCEPT !.at = "probe"]
  <2>4. e.at = "probe" /\ e \in Task
    <3>1. "probe" \in Label
      BY DEF Label, StartPlace
    <3> QED BY <2>1, <3>1 DEF Task
  <2>5. TaskOK("start", e)
    BY <2>4, Labels DEF TaskOK, LookPlace
  <2> QED BY <2>1, <2>3, <2>5
<1>3. /\ TaskOK("quit", quits) /\ quits.child = task["quit"].child /\ quits.sound = task["quit"].sound
      /\ quits.at = IF ~At("quit", "stop") THEN task["quit"].at
                    ELSE IF ok THEN "exit" ELSE "force.recovery"
  <2>1. TaskOK("quit", task["quit"]) /\ task["quit"] \in Task
    BY TaskNames DEF TaskTypes, TaskOK
  <2> DEFINE label == IF ok THEN "exit" ELSE "force.recovery"
             e == [task["quit"] EXCEPT !.at = label]
  <2>2. label \in {"exit", "force.recovery"}
    OBVIOUS
  <2> HIDE DEF label
  <2>3. e.at = label /\ e \in Task /\ e.child = task["quit"].child /\ e.sound = task["quit"].sound
    <3>1. label \in Label
      BY <2>2 DEF Label, QuitPlace
    <3> QED BY <2>1, <3>1 DEF Task
  <2>4. TaskOK("quit", e)
    BY <2>2, <2>3, Labels DEF TaskOK, LookPlace, QuitPlace
  <2> HIDE DEF e
  <2>5. quits = IF ~At("quit", "stop") THEN task["quit"] ELSE e
    BY DEF e, label
  <2> QED BY <2>1, <2>3, <2>4, <2>5 DEF label
<1> HIDE DEF started, quits
<1>4. /\ task' = [tasks EXCEPT !["quit"] = quits]
      /\ At("quit", "stop") /\ ~ok => stopping' = TRUE /\ monitor' = FALSE /\ timers' = {}
      /\ ~At("quit", "stop") \/ ok => stopping' = FALSE /\ UNCHANGED <<monitor, timers>>
  <2>1. CASE At("quit", "stop") /\ ~ok
    <3>1. ForceBegins(tasks)
      BY <2>1 DEF StopSettles
    <3>2. quits = [task["quit"] EXCEPT !.at = "force.recovery"]
      BY <2>1 DEF quits
    <3>3. task' = [tasks EXCEPT !["quit"].at = "force.recovery"]
      BY <3>1 DEF ForceBegins
    <3>4. tasks["quit"] = task["quit"]
      BY <1>1, TaskNames
    <3> HIDE DEF tasks
    <3>5. task' = [tasks EXCEPT !["quit"] = quits]
      BY <3>2, <3>3, <3>4
    <3> QED BY <2>1, <3>1, <3>5 DEF ForceBegins
  <2>2. CASE At("quit", "stop") /\ ok
    <3>1. /\ task' = [tasks EXCEPT !["quit"].at = "exit"]
          /\ stopping' = FALSE /\ UNCHANGED <<monitor, timers>>
      BY <2>2 DEF StopSettles
    <3>2. quits = [task["quit"] EXCEPT !.at = "exit"]
      BY <2>2 DEF quits
    <3>4. tasks["quit"] = task["quit"]
      BY <1>1, TaskNames
    <3> HIDE DEF tasks
    <3>5. task' = [tasks EXCEPT !["quit"] = quits]
      BY <3>1, <3>2, <3>4
    <3> QED BY <2>2, <3>1, <3>5
  <2>3. CASE ~At("quit", "stop")
    <3>1. /\ task' = tasks /\ stopping' = FALSE /\ UNCHANGED <<monitor, timers>>
      BY <2>3 DEF StopSettles
    <3>2. quits = task["quit"]
      BY <2>3 DEF quits
    <3>3. tasks["quit"] = task["quit"]
      BY <1>1, TaskNames
    <3> HIDE DEF tasks
    <3>5. task' = [tasks EXCEPT !["quit"] = quits]
      BY <1>1, <3>1, <3>2, <3>3, TaskNames
    <3> QED BY <2>3, <3>1, <3>5
  <2> QED BY <2>1, <2>2, <2>3
<1> HIDE DEF tasks
<1>5. /\ task'["stop"] = NoTask /\ task'["start"] = started /\ task'["quit"] = quits
      /\ \A u \in Tasks \ {"stop", "start", "quit"} : task'[u] = task[u]
      /\ DOMAIN task' = Tasks /\ task' = [u \in Tasks |-> task'[u]]
  BY <1>1, <1>4, TaskNames
<1>6. TaskTypes'
  <2>1. NoTask.at = "off"
    BY DEF NoTask
  <2>2. TaskOK("stop", NoTask)
    BY <2>1, NoTaskType, TaskNames DEF TaskOK, LookPlace
  <2>3. \A u \in Tasks : TaskOK(u, task'[u])
    BY <1>2, <1>3, <1>5, <2>2 DEF TaskTypes
  <2>4. task' \in [Tasks -> Task]
    BY <1>5, <2>3 DEF TaskOK
  <2> QED BY <2>3, <2>4 DEF TaskTypes
<1>7. /\ file' = IF ok THEN NoMarker ELSE Marker(status, daemon', tunnel')
      /\ op' = IF op # "stopping" THEN op ELSE IF ok THEN "between" ELSE "none"
      /\ attempts' = attempts
  BY DEF StopSettles
<1>8. file' \in File
  BY <1>7, NoMarkerType, MarkerType
<1>9. op' \in {"none", "stopping", "between", "starting"}
  BY <1>7 DEF ControlTypes
<1>10. ~At("start", "wait") => task'["start"] = task["start"]
  BY <1>5 DEF started
<1>11. stopping' \in BOOLEAN /\ monitor' \in BOOLEAN /\ timers' \subseteq timers
  BY <1>4 DEF ControlTypes
<1> QED BY <1>3, <1>4, <1>5, <1>6, <1>7, <1>8, <1>9, <1>10, <1>11, TaskNames

\* A stop waits for the start that runs; or it is at the recoveries at once, with the flag set.
LEMMA StopBeginsMoves ==
  ASSUME TaskTypes, StopBegins(task)
  PROVE  /\ Goes("stop", "settle.recovery") /\ task'["stop"].drained = task["stop"].drained
         /\ task'["stop"].unhooked = task["stop"].unhooked
         /\ stopping' = TRUE /\ monitor' = FALSE /\ timers' = {}
<1>1. Go("stop", "settle.recovery")
  BY DEF StopBegins, Go
<1> QED BY <1>1, GoMoves, Labels, TaskNames DEF StopBegins, LookPlace

LEMMA RequestStopMoves ==
  ASSUME TaskTypes, RequestStop(task)
  PROVE  /\ task'["stop"].drained = task["stop"].drained
         /\ task'["stop"].unhooked = task["stop"].unhooked
         /\ \/ /\ Running("start") /\ Goes("stop", "settle.start")
               /\ UNCHANGED <<stopping, monitor, timers>>
            \/ /\ ~Running("start") /\ Goes("stop", "settle.recovery")
               /\ stopping' = TRUE /\ monitor' = FALSE /\ timers' = {}
<1>1. CASE Running("start")
  <2>1. Go("stop", "settle.start") /\ UNCHANGED <<stopping, monitor, timers>>
    BY <1>1 DEF RequestStop, Go
  <2> QED BY <1>1, <2>1, GoMoves, Labels, TaskNames DEF LookPlace
<1>2. CASE ~Running("start")
  BY <1>2, StopBeginsMoves DEF RequestStop
<1> QED BY <1>1, <1>2

LEMMA RequestStartMoves ==
  ASSUME TaskTypes, RequestStart
  PROVE  \/ ~At("start", "off") /\ UNCHANGED task
         \/ At("start", "off") /\ Running("stop") /\ Goes("start", "wait")
         \/ At("start", "off") /\ ~Running("stop") /\ Goes("start", "probe")
<1>1. CASE ~At("start", "off")
  BY <1>1 DEF RequestStart
<1>2. CASE At("start", "off") /\ Running("stop")
  <2>1. Go("start", "wait")
    BY <1>2 DEF RequestStart, Go
  <2> QED BY <1>2, <2>1, GoMoves, Labels, TaskNames DEF LookPlace
<1>3. CASE At("start", "off") /\ ~Running("stop")
  <2>1. Go("start", "probe")
    BY <1>3 DEF RequestStart, Go
  <2> QED BY <1>3, <2>1, GoMoves, Labels, TaskNames DEF LookPlace
<1> QED BY <1>1, <1>2, <1>3

LEMMA StartSettlesMoves ==
  ASSUME TaskTypes, StartSettles(task)
  PROVE  /\ Becomes("start", NoTask)
         /\ op' = IF op = "starting" THEN "none" ELSE op
BY EndMoves, TaskNames DEF StartSettles

\* A start whose stale runtime is gone enters startTunnel or startDaemon; a stop is over.
LEMMA StaleDoneMoves ==
  ASSUME Types, NEW t \in {"start", "stop"}, StaleDone(t)
  PROVE  /\ TaskTypes' /\ file' = NoMarker /\ attempts' = attempts
         /\ UNCHANGED <<daemon, tunnel>>
         /\ t = "stop" => StopSettles(TRUE, "none")
         /\ t = "start" => /\ Goes("start", EnterStart) /\ stopping' = FALSE
                           /\ task'["start"].unhooked = task["start"].unhooked
                           /\ UNCHANGED <<timers, monitor, op>>
<1>1. CASE t = "stop"
  <2>1. StopSettles(TRUE, "none") /\ UNCHANGED <<daemon, tunnel>>
    BY <1>1 DEF StaleDone
  <2>2. daemon' \in Proc \cup {None} /\ tunnel' \in BOOLEAN
    BY <2>1 DEF Types, HandleTypes
  <2> QED BY <1>1, <2>1, <2>2, StopSettlesMoves DEF Types
<1>2. CASE t = "start"
  <2>1. /\ file' = NoMarker /\ stopping' = FALSE /\ Go("start", EnterStart)
        /\ UNCHANGED <<timers, attempts, monitor, op, daemon, tunnel>>
    BY <1>2 DEF StaleDone
  <2>2. EnterStart \in {"tunnel.status", "daemon"}
    BY DEF EnterStart
  <2>3. Fits("start", EnterStart)
    BY <2>2, Labels, TaskNames DEF TunnelPlace, SpawnPlace
  <2> QED BY <1>2, <2>1, <2>2, <2>3, GoMoves, TaskNames DEF Types, LookPlace, Goes
<1> QED BY <1>1, <1>2

\* A start whose stale runtime does not go away ends; a stop goes on as a failed one.
LEMMA StaleFailsMoves ==
  ASSUME Types, NEW t \in {"start", "stop"}, StaleFails(t)
  PROVE  /\ TaskTypes' /\ UNCHANGED <<daemon, tunnel, monitor, stopping, timers, attempts>>
         /\ t = "stop" => /\ Goes("stop", "undo.ready") /\ UNCHANGED <<file, op>>
                          /\ task'["stop"].unhooked = task["stop"].unhooked
         /\ t = "start" => /\ Becomes("start", NoTask) /\ file' = ExternalMarker
                           /\ op' = IF op = "starting" THEN "none" ELSE op
<1>1. CASE t = "stop"
  <2>1. Go("stop", "undo.ready") /\ UNCHANGED <<daemon, tunnel, monitor, op, control>>
    BY <1>1 DEF StaleFails, Proceeds
  <2> QED BY <1>1, <2>1, GoMoves, Labels, TaskNames DEF Types, LookPlace, Goes, control
<1>2. CASE t = "start"
  <2>1. /\ file' = ExternalMarker /\ StartSettles(task)
        /\ UNCHANGED <<daemon, tunnel, monitor, stopping, timers, attempts>>
    BY <1>2 DEF StaleFails
  <2> QED BY <1>2, <2>1, StartSettlesMoves DEF Types, Becomes
<1> QED BY <1>1, <1>2

LEMMA ExternalMarkerType ==
  ASSUME Types
  PROVE  /\ ExternalMarker \in File
         /\ ExternalMarker = file \/ (ExternalMarker.status = "external" /\ ExternalMarker.daemon = daemon)
<1>1. ExternalMarker = file \/ ExternalMarker = Marker("external", daemon, tunnel)
  BY DEF ExternalMarker
<1>2. daemon \in Proc \cup {None} /\ tunnel \in BOOLEAN /\ file \in File
  BY DEF Types, ControlTypes, HandleTypes
<1> QED BY <1>1, <1>2, MarkerType

\* The end of a failed start.
LEMMA CleanupEndsMoves ==
  ASSUME TaskTypes, CleanupEnds, daemon' \in Proc \cup {None}, tunnel' \in BOOLEAN
  PROVE  /\ Becomes("start", NoTask) /\ stopping' = FALSE /\ UNCHANGED <<timers, attempts>>
         /\ op' = IF op = "starting" THEN "none" ELSE op
         /\ file' \in File /\ file'.status = "failed" /\ file'.own /\ file'.daemon = daemon'
BY StartSettlesMoves, MarkerType DEF CleanupEnds

\* A failed stop first restores the tunnel it stopped, then the daemon it drained.
LEMMA UndoMoves ==
  ASSUME TaskTypes, Undo
  PROVE  /\ UNCHANGED control
         /\ \E label \in {"tunnel.status", "undo.daemon", "undo.ready"} :
               /\ Goes("stop", label)
               /\ label = "tunnel.status" <=> task["stop"].unhooked /\ ~tunnel'
         /\ task'["stop"].child = task["stop"].child /\ task'["stop"].drained = task["stop"].drained
         /\ task'["stop"].unhooked = task["stop"].unhooked
<1> DEFINE label == IF task["stop"].unhooked /\ ~tunnel' THEN "tunnel.status"
                    ELSE IF task["stop"].drained THEN "undo.daemon" ELSE "undo.ready"
<1>1. /\ label \in {"tunnel.status", "undo.daemon", "undo.ready"}
      /\ label = "tunnel.status" <=> task["stop"].unhooked /\ ~tunnel'
  OBVIOUS
<1>2. Go("stop", label) /\ UNCHANGED control
  BY DEF Undo, Proceeds
<1> HIDE DEF label
<1>3. Fits("stop", label)
  BY <1>1, Labels, TaskNames DEF TunnelPlace
<1> QED BY <1>1, <1>2, <1>3, GoMoves, TaskNames DEF LookPlace

StaleWait == {"stale.drain", "stale.shutdown", "stale.exit"}
EndPlace  == StaleWait \cup {"cleanup.drain", "cleanup.shutdown", "cleanup.exit", "stop.drain",
                             "stop.shutdown", "stop.exit"}

\* What a failed drain, shutdown or exit does to the task.
LEMMA FailsMoves ==
  ASSUME Types, NEW t \in Tasks \ {"quit"}, Fails(t), task[t].at \in EndPlace
  PROVE  /\ UNCHANGED <<daemon, tunnel, monitor>>
         /\ TaskTypes' /\ stopping' \in BOOLEAN /\ UNCHANGED <<timers, attempts>> /\ file' \in File
         /\ op' \in {"none", "stopping", "between", "starting"}
         /\ task[t].at \in StaleWait => t \in {"start", "stop"} /\ StaleFails(t)
         /\ task[t].at \notin StaleWait /\ t = "start" => CleanupEnds
         /\ task[t].at \notin StaleWait /\ t = "stop" => Undo /\ op' = op
         /\ t \in {"start", "stop"}
<1>1. daemon \in Proc \cup {None} /\ tunnel \in BOOLEAN /\ TaskTypes /\ ControlTypes
  BY DEF Types, HandleTypes
<1>2. t \in {"start", "stop"}
  <2>1. t \in Recoveries => task[t].at \in RecoveryPlace
    BY <1>1 DEF TaskTypes, TaskOK, Fits
  <2> QED BY <2>1, TaskNames DEF EndPlace, StaleWait, RecoveryPlace, TunnelPlace, SpawnPlace
<1>3. CASE task[t].at \in StaleWait
  <2>1. StaleFails(t)
    BY <1>3 DEF Fails, StaleWait
  <2> QED BY <1>1, <1>2, <1>3, <2>1, StaleFailsMoves, ExternalMarkerType DEF ControlTypes
<1>4. CASE task[t].at \notin StaleWait /\ t = "start"
  <2>1. CleanupEnds /\ UNCHANGED <<daemon, tunnel, monitor>>
    BY <1>4 DEF Fails, StaleWait
  <2>2. daemon' \in Proc \cup {None} /\ tunnel' \in BOOLEAN
    BY <1>1, <2>1
  <2> QED BY <1>1, <1>2, <1>4, <2>1, <2>2, CleanupEndsMoves DEF ControlTypes, Becomes
<1>5. CASE task[t].at \notin StaleWait /\ t = "stop"
  <2>1. Undo /\ op' = op /\ UNCHANGED <<daemon, tunnel, monitor>>
    BY <1>5 DEF Fails, StaleWait
  <2> QED BY <1>1, <1>2, <1>5, <2>1, UndoMoves DEF ControlTypes, control, Goes
<1> QED BY <1>2, <1>3, <1>4, <1>5

-----------------------------------------------------------------------------
(* Type correctness *)

LEMMA Costs ==
  ASSUME ControlTypes, NEW kind \in {"faults", "late", "setups", "crashes", "launches"}, Spend(kind)
  PROVE  /\ budget' \in Budget /\ budget[kind] # 0 /\ budget'[kind] = budget[kind] - 1
         /\ \A other \in {"faults", "late", "setups", "crashes", "launches"} \ {kind} :
               budget'[other] = budget[other]
BY SupervisorAssumption DEF SupervisorAssumption, ControlTypes, Spend, Budget

LEMMA FaultCosts ==
  ASSUME ControlTypes, Fault
  PROVE  /\ budget' \in Budget /\ budget.faults # 0 /\ budget'.faults = budget.faults - 1
         /\ budget'.late = budget.late /\ budget'.setups = budget.setups
         /\ budget'.crashes = budget.crashes /\ budget'.launches = budget.launches
BY Costs DEF Fault

LEMMA TunnelStatusTypes ==
  ASSUME Types, NEW t \in Tasks \ {"quit"}, TunnelStatus(t)
  PROVE  Types' /\ \E label \in {"tunnel.adopt", "tunnel.stop", "tunnel.cleanup"} : Goes(t, label)
<1>1. \E label \in {"tunnel.adopt", "tunnel.stop", "tunnel.cleanup"} : Goes(t, label)
  BY GoMoves, Labels DEF TunnelStatus, Types, Proceeds, LookPlace, TunnelPlace
<1>2. HandleTypes'
  BY DEF TunnelStatus, Types, HandleTypes, machine
<1>3. ControlTypes'
  BY FaultCosts DEF TunnelStatus, Types, ControlTypes, Proceeds, control, session
<1> QED BY <1>1, <1>2, <1>3 DEF Types, Goes

LEMMA TunnelStopTypes ==
  ASSUME Types, NEW t \in Tasks \ {"quit"}, TunnelStop(t)
  PROVE  Types' /\ \E label \in {"tunnel.connect", "tunnel.cleanup"} : Goes(t, label)
<1>1. \E label \in {"tunnel.connect", "tunnel.cleanup"} : Goes(t, label)
  BY GoMoves, Labels DEF TunnelStop, Types, Proceeds, LookPlace, TunnelPlace
<1>2. HandleTypes'
  BY DEF TunnelStop, Types, HandleTypes, handles
<1>3. ControlTypes'
  BY FaultCosts DEF TunnelStop, Types, ControlTypes, Proceeds, control, session
<1> QED BY <1>1, <1>2, <1>3 DEF Types, Goes

LEMMA TunnelConnectTypes ==
  ASSUME Types, NEW t \in Tasks \ {"quit"}, TunnelConnect(t)
  PROVE  Types' /\ \E label \in {"tunnel.verify", "tunnel.cleanup"} : Goes(t, label)
<1>1. \E label \in {"tunnel.verify", "tunnel.cleanup"} : Goes(t, label)
  BY GoMoves, Labels DEF TunnelConnect, Types, Proceeds, LookPlace, TunnelPlace
<1>2. HandleTypes'
  BY DEF TunnelConnect, Types, HandleTypes
<1>3. ControlTypes'
  BY FaultCosts DEF TunnelConnect, Types, ControlTypes, Proceeds, control, session
<1> QED BY <1>1, <1>2, <1>3 DEF Types, Goes

LEMMA TunnelVerifyTypes ==
  ASSUME Types, NEW t \in Tasks \ {"quit"}, TunnelVerify(t)
  PROVE  Types' /\ \E label \in {TunnelDone(t), "tunnel.cleanup"} : Goes(t, label)
<1>1. \E label \in {TunnelDone(t), "tunnel.cleanup"} : Go(t, label)
  BY DEF TunnelVerify, Proceeds
<1>2. TunnelDone(t) \in {"daemon", "undo.daemon", "recovered"} /\ Fits(t, TunnelDone(t))
  BY Labels, TaskNames DEF TunnelDone, SpawnPlace
<1>3. \E label \in {TunnelDone(t), "tunnel.cleanup"} : Goes(t, label)
  BY <1>1, <1>2, GoMoves, Labels DEF Types, LookPlace, TunnelPlace
<1>4. HandleTypes'
  BY DEF TunnelVerify, Types, HandleTypes, machine, handles
<1>5. ControlTypes'
  BY FaultCosts DEF TunnelVerify, Types, ControlTypes, Proceeds, control, session
<1> QED BY <1>3, <1>4, <1>5 DEF Types, Goes

LEMMA TunnelCleanupTypes ==
  ASSUME Types, NEW t \in Tasks \ {"quit"}, TunnelCleanup(t)
  PROVE  Types'
<1>1. HandleTypes'
  BY DEF TunnelCleanup, Types, HandleTypes
<1>2. TaskTypes' /\ ControlTypes'
  BY <1>1, ThrowsMoves, FaultCosts DEF TunnelCleanup, Types, HandleTypes, ControlTypes, session
<1> QED BY <1>1, <1>2 DEF Types

\* The existing child, or a pid that nothing looks at.
LEMMA StartDaemonTypes ==
  ASSUME Types, NEW t \in Tasks \ {"quit"}, StartDaemon(t)
  PROVE  /\ Types'
         /\ \/ /\ daemon # None /\ UNCHANGED <<proc, draining, handles, file>>
               /\ Goes(t, "daemon.resume") /\ task'[t].child = daemon
            \/ /\ daemon = None /\ daemon' \in Proc /\ Goes(t, "daemon.spawned")
               /\ task'[t].child = daemon'
         /\ task'[t].drained = task[t].drained /\ task'[t].unhooked = task[t].unhooked
<1>1. CASE daemon # None
  <2>1. /\ task' = [task EXCEPT ![t].at = "daemon.resume", ![t].child = daemon]
        /\ UNCHANGED <<proc, draining, handles, file>>
        /\ UNCHANGED <<busy, alias, stopping, timers, attempts, monitor, session, budget>>
    BY <1>1 DEF StartDaemon
  <2>2. daemon \in Proc
    BY <1>1 DEF Types, HandleTypes
  <2>3. /\ Goes(t, "daemon.resume") /\ task'[t].child = daemon
        /\ task'[t].drained = task[t].drained /\ task'[t].unhooked = task[t].unhooked
    BY <2>1, <2>2, LookMoves, Labels DEF Types, SpawnPlace
  <2> QED BY <1>1, <2>1, <2>2, <2>3 DEF Types, HandleTypes, ControlTypes, handles, session, Goes
<1>2. CASE daemon = None
  <2>1. PICK p \in Proc :
                /\ proc' = [proc EXCEPT ![p] = "booting"]
                /\ draining' = draining \ {p}
                /\ daemon' = p
                /\ mine' = mine \cup {p}
                /\ file' = Spawned(p)
                /\ task' = [task EXCEPT ![t].at = "daemon.spawned", ![t].child = p]
    BY <1>2 DEF StartDaemon
  <2>2. /\ UNCHANGED <<tunnel, restartable, expected>>
        /\ UNCHANGED <<busy, alias, stopping, timers, attempts, monitor, session, budget>>
    BY <1>2 DEF StartDaemon
  <2>3. /\ Goes(t, "daemon.spawned") /\ task'[t].child = p
        /\ task'[t].drained = task[t].drained /\ task'[t].unhooked = task[t].unhooked
    BY <2>1, LookMoves, Labels DEF Types, SpawnPlace
  <2>4. file' \in File
    BY <2>1, MarkerType DEF Spawned, Types, HandleTypes
  <2>5. HandleTypes'
    BY <2>1, <2>2 DEF Types, HandleTypes
  <2>6. ControlTypes'
    BY <2>2, <2>4 DEF Types, ControlTypes, session
  <2> QED BY <1>2, <2>1, <2>3, <2>5, <2>6 DEF Types, Goes
<1> QED BY <1>1, <1>2

LEMMA ResumeDaemonTypes ==
  ASSUME Types, NEW t \in Tasks \ {"quit"}, ResumeDaemon(t)
  PROVE  /\ Types'
         /\ \/ Goes(t, "daemon.existing") /\ task'[t].child = task[t].child /\ UNCHANGED control
            \/ Throws(t)
<1>1. HandleTypes'
  BY DEF ResumeDaemon, Types, HandleTypes, handles
<1>2. CASE Proceeds(t, "daemon.existing") /\ UNCHANGED budget
  <2>1. Goes(t, "daemon.existing") /\ task'[t].child = task[t].child
    BY <1>2, GoMoves, Labels DEF ResumeDaemon, Types, SpawnPlace, LookPlace, Proceeds, At
  <2> QED BY <1>1, <1>2, <2>1
            DEF ResumeDaemon, Types, ControlTypes, Goes, Proceeds, control, session
<1>3. CASE Throws(t) /\ Fault
  BY <1>1, <1>3, ThrowsMoves, FaultCosts
    DEF ResumeDaemon, Types, HandleTypes, ControlTypes, session
<1> QED BY <1>2, <1>3 DEF ResumeDaemon

\* The start or the recovery has its daemon; or it goes on to kill it, or throws.
LEMMA WaitForProxyTypes ==
  ASSUME Types, NEW t \in Tasks \ {"quit"}, WaitForProxy(t)
  PROVE  /\ Types'
         /\ UNCHANGED <<daemon, tunnel>>
         /\ \/ /\ AcceptsAs(t) /\ t = "start" /\ Becomes(t, NoTask)
               /\ restartable' = restartable \cup {daemon}
               /\ file' = Marker("ready", daemon, tunnel) /\ UNCHANGED <<stopping, timers, budget>>
               /\ op' = IF op = "starting" THEN "none" ELSE op
            \/ /\ AcceptsAs(t) /\ t # "start" /\ Goes(t, DaemonDone(t)) /\ UNCHANGED <<control, op, budget>>
               /\ task'[t].drained = task[t].drained /\ task'[t].unhooked = task[t].unhooked
               /\ restartable' = restartable \cup {daemon}
            \/ /\ At(t, "daemon.spawned") /\ Goes(t, "daemon.kill")
               /\ task'[t].drained = task[t].drained /\ task'[t].unhooked = task[t].unhooked
               /\ UNCHANGED <<control, restartable, op>>
            \/ /\ At(t, "daemon.existing") /\ Throws(t) /\ UNCHANGED <<restartable, op>>
<1>1. UNCHANGED <<machine, expected, mine, monitor, life, pending, daemon, tunnel>>
  BY DEF WaitForProxy
<1>2. CASE /\ AcceptsAs(t) /\ t = "start" /\ UNCHANGED budget
           /\ restartable' = restartable \cup {daemon}
           /\ file' = Marker("ready", daemon, tunnel)
           /\ attempts' = [c \in Children |-> 0]
           /\ task' = [task EXCEPT ![t] = NoTask]
           /\ op' = IF op = "starting" THEN "none" ELSE op
           /\ UNCHANGED <<stopping, timers>>
  <2>1. Becomes(t, NoTask)
    BY <1>2, EndMoves DEF Types
  <2>2. daemon \in Proc
    BY <1>2 DEF Types, HandleTypes, AcceptsAs, Accepting, Healthy
  <2>3. HandleTypes'
    BY <1>1, <1>2, <2>2 DEF Types, HandleTypes, machine
  <2>4. file' \in File
    BY <1>2, MarkerType DEF Types, HandleTypes
  <2>5. attempts' \in [Children -> 0..MaxRestarts]
    BY <1>2, SupervisorAssumption DEF SupervisorAssumption
  <2>6. ControlTypes'
    BY <1>1, <1>2, <2>4, <2>5 DEF Types, ControlTypes
  <2> QED BY <1>1, <1>2, <2>1, <2>3, <2>6 DEF Types, Becomes
<1>3. CASE /\ AcceptsAs(t) /\ t # "start" /\ Proceeds(t, DaemonDone(t)) /\ UNCHANGED <<op, budget>>
           /\ restartable' = restartable \cup {daemon}
  <2>1. DaemonDone(t) \in {"undo.ready", "recovered"} /\ Fits(t, DaemonDone(t))
    BY <1>3, Labels, TaskNames DEF DaemonDone
  <2>2. Goes(t, DaemonDone(t)) /\ UNCHANGED control
        /\ task'[t].drained = task[t].drained /\ task'[t].unhooked = task[t].unhooked
    BY <1>3, <2>1, GoMoves DEF Proceeds, LookPlace, Types
  <2>3. daemon \in Proc
    BY <1>3 DEF Types, HandleTypes, AcceptsAs, Accepting, Healthy
  <2>4. HandleTypes'
    BY <1>1, <1>3, <2>3 DEF Types, HandleTypes, machine
  <2>5. ControlTypes'
    BY <1>1, <1>3, <2>2 DEF Types, ControlTypes, control
  <2> QED BY <1>1, <1>3, <2>2, <2>4, <2>5 DEF Types, Goes
<1>4. CASE /\ At(t, "daemon.spawned") /\ Proceeds(t, "daemon.kill") /\ UNCHANGED <<restartable, op>>
           /\ UNCHANGED budget \/ Fault
  <2>1. Goes(t, "daemon.kill") /\ UNCHANGED control
        /\ task'[t].drained = task[t].drained /\ task'[t].unhooked = task[t].unhooked
    BY <1>4, GoMoves, Labels DEF Proceeds, LookPlace, Types, SpawnPlace
  <2> QED BY <1>1, <1>4, <2>1, FaultCosts
          DEF Types, HandleTypes, ControlTypes, machine, control, Goes
<1>5. CASE /\ At(t, "daemon.existing") /\ Throws(t) /\ UNCHANGED <<restartable, op>>
           /\ UNCHANGED budget \/ Fault
  <2>1. HandleTypes'
    BY <1>1, <1>5 DEF Types, HandleTypes, machine
  <2> QED BY <1>1, <1>5, <2>1, FaultCosts, ThrowsMoves DEF Types, HandleTypes, ControlTypes
<1> QED BY <1>2, <1>3, <1>4, <1>5 DEF WaitForProxy, At

LEMMA TerminatesTypes ==
  ASSUME HandleTypes, daemon \in Proc, Terminates(daemon)
  PROVE  /\ expected' = expected \cup {daemon}
         /\ proc' \in [Proc -> {"booting", "serving", "closing", "dead", "gone"}]
         /\ \A p \in Proc \ {daemon} : proc'[p] = proc[p]
         /\ proc'[daemon] = IF Alive(daemon) THEN "dead" ELSE proc[daemon]
BY DEF Terminates, HandleTypes

LEMMA StopChildTypes ==
  ASSUME Types, NEW t \in Tasks \ {"quit"}, StopChild(t)
  PROVE  /\ Types' /\ daemon \in Proc
         /\ \/ At(t, "daemon.kill") /\ Goes(t, "daemon.killed")
            \/ At(t, "cleanup.kill") /\ t = "start" /\ Goes(t, "cleanup.killed")
         /\ task'[t].child = daemon
         /\ task'[t].drained = task[t].drained /\ task'[t].unhooked = task[t].unhooked
<1> DEFINE label == IF At(t, "daemon.kill") THEN "daemon.killed" ELSE "cleanup.killed"
<1>1. task' = [task EXCEPT ![t].at = label, ![t].child = daemon]
  BY DEF StopChild, Types, TaskTypes, Task, At
<1>2. daemon \in Proc
  BY DEF StopChild, Types, HandleTypes
<1>3. /\ At(t, "daemon.kill") \/ (At(t, "cleanup.kill") /\ t = "start")
      /\ label \in {"daemon.killed", "cleanup.killed"} /\ Fits(t, label)
      /\ label = "daemon.killed" <=> At(t, "daemon.kill")
  <2>1. At(t, "daemon.kill") \/ At(t, "cleanup.kill")
    BY DEF StopChild, At
  <2>2. Fits(t, task[t].at)
    BY DEF Types, TaskTypes, TaskOK
  <2>3. At(t, "cleanup.kill") => t = "start"
    BY <2>2, TaskNames DEF At, Fits, StopPlace, RecoveryPlace, StalePlace, SpawnPlace, TunnelPlace
  <2> QED BY <2>1, <2>3, Labels DEF SpawnPlace, CleanupPlace
<1> HIDE DEF label
<1>4. /\ Goes(t, label) /\ task'[t].child = daemon
      /\ task'[t].drained = task[t].drained /\ task'[t].unhooked = task[t].unhooked
  BY <1>1, <1>2, <1>3, LookMoves DEF Types
<1>5. HandleTypes'
  BY <1>2, TerminatesTypes DEF StopChild, Types, HandleTypes
<1>6. ControlTypes'
  BY DEF StopChild, Types, ControlTypes, control, session
<1> QED BY <1>2, <1>3, <1>4, <1>5, <1>6 DEF Types, Goes, At

LEMMA ChildStoppedTypes ==
  ASSUME Types, NEW t \in Tasks \ {"quit"}, ChildStopped(t)
  PROVE  /\ Types'
         /\ \/ task[t].at \in {"daemon.kill", "daemon.killed"} /\ Throws(t)
            \/ /\ t = "start" /\ task[t].at \in {"cleanup.kill", "cleanup.killed"}
               /\ Goes(t, "cleanup.tunnel") /\ UNCHANGED control
<1>1. HandleTypes'
  BY DEF ChildStopped, Types, HandleTypes, machine
<1>2. CASE task[t].at \in {"daemon.kill", "daemon.killed"}
  BY <1>1, <1>2, ThrowsMoves DEF ChildStopped, Types, HandleTypes, ControlTypes, session
<1>3. CASE task[t].at \in {"cleanup.kill", "cleanup.killed"}
  <2>1. Fits(t, task[t].at)
    BY DEF Types, TaskTypes, TaskOK
  <2>2. t = "start"
    BY <1>3, <2>1, TaskNames
      DEF Fits, StopPlace, RecoveryPlace, StalePlace, SpawnPlace, TunnelPlace
  <2>3. Proceeds(t, "cleanup.tunnel")
    BY <1>3 DEF ChildStopped
  <2>4. Goes(t, "cleanup.tunnel") /\ UNCHANGED control
    BY <2>2, <2>3, GoMoves, Labels DEF Proceeds, LookPlace, CleanupPlace, Types
  <2> QED BY <1>1, <1>3, <2>2, <2>4 DEF ChildStopped, Types, ControlTypes, control, session, Goes
<1> QED BY <1>2, <1>3 DEF ChildStopped

LEMMA StaleTasks ==
  ASSUME Types, NEW t \in Tasks \ {"quit"}, task[t].at \in StalePlace
  PROVE  t \in {"start", "stop"}
<1>1. Fits(t, task[t].at)
  BY DEF Types, TaskTypes, TaskOK
<1> QED BY <1>1, TaskNames DEF Fits, RecoveryPlace, TunnelPlace, SpawnPlace, StalePlace

\* The control part of a stale runtime's end.
LEMMA StaleDoneTypes ==
  ASSUME Types, NEW t \in {"start", "stop"}, StaleDone(t)
  PROVE  /\ TaskTypes' /\ stopping' \in BOOLEAN /\ monitor' \in BOOLEAN /\ timers' \subseteq Children
         /\ attempts' \in [Children -> 0..MaxRestarts] /\ file' \in File
         /\ op' \in {"none", "stopping", "between", "starting"}
         /\ UNCHANGED <<daemon, tunnel>>
<1>1. ControlTypes /\ TaskTypes /\ UNCHANGED <<daemon, tunnel>>
  BY StaleDoneMoves DEF Types
<1>2. daemon' \in Proc \cup {None} /\ tunnel' \in BOOLEAN
  BY <1>1 DEF Types, HandleTypes
<1>3. CASE t = "stop"
  BY <1>1, <1>2, <1>3, StaleDoneMoves, StopSettlesMoves, NoMarkerType DEF ControlTypes
<1>4. CASE t = "start"
  BY <1>1, <1>2, <1>4, StaleDoneMoves, NoMarkerType DEF ControlTypes
<1> QED BY <1>3, <1>4

LEMMA StaleFailsTypes ==
  ASSUME Types, NEW t \in {"start", "stop"}, StaleFails(t)
  PROVE  /\ TaskTypes' /\ stopping' \in BOOLEAN /\ monitor' \in BOOLEAN /\ timers' \subseteq Children
         /\ attempts' \in [Children -> 0..MaxRestarts] /\ file' \in File
         /\ op' \in {"none", "stopping", "between", "starting"}
         /\ UNCHANGED <<daemon, tunnel>>
BY StaleFailsMoves, ExternalMarkerType DEF Types, ControlTypes

LEMMA StaleInspectsTypes ==
  ASSUME Types, NEW t \in Tasks \ {"quit"}, StaleInspects(t)
  PROVE  /\ Types' /\ t \in {"start", "stop"}
         /\ \/ StaleDone(t) /\ Listening = {} /\ UNCHANGED budget
            \/ StaleFails(t)
            \/ /\ \E label \in {"stale.drain", "stale.tunnel"} : Goes(t, label)
               /\ (At(t, "stale.drain"))' => Listening # {}
               /\ UNCHANGED <<daemon, tunnel, monitor, op, budget, control>>
               /\ task'[t].unhooked = task[t].unhooked
<1>1. t \in {"start", "stop"}
  BY StaleTasks DEF StaleInspects, At, StalePlace
<1>2. UNCHANGED <<machine, restartable, expected, mine, life, pending>>
  BY DEF StaleInspects
<1>3. CASE StaleDone(t) /\ Listening = {} /\ UNCHANGED budget
  BY <1>1, <1>2, <1>3, StaleDoneTypes DEF Types, HandleTypes, ControlTypes, machine
<1>4. CASE StaleFails(t) /\ (UNCHANGED budget \/ Fault)
  BY <1>1, <1>2, <1>4, StaleFailsTypes, FaultCosts DEF Types, HandleTypes, ControlTypes, machine
<1>5. CASE /\ Proceeds(t, IF Listening # {} THEN "stale.drain" ELSE "stale.tunnel")
           /\ UNCHANGED <<daemon, tunnel, monitor, op, budget>>
  <2> DEFINE label == IF Listening # {} THEN "stale.drain" ELSE "stale.tunnel"
  <2>1. label \in {"stale.drain", "stale.tunnel"} /\ (label = "stale.drain" => Listening # {})
    OBVIOUS
  <2>2. Go(t, label) /\ UNCHANGED control
    BY <1>5 DEF Proceeds
  <2> HIDE DEF label
  <2>3. Goes(t, label) /\ task'[t].unhooked = task[t].unhooked
    BY <1>1, <2>1, <2>2, GoMoves, Labels, TaskNames DEF Types, LookPlace, StalePlace
  <2>4. (At(t, "stale.drain"))' => Listening # {}
    BY <2>1, <2>3 DEF Goes, At
  <2>5. Types'
    BY <1>2, <1>5, <2>2, <2>3 DEF Types, HandleTypes, ControlTypes, machine, control, Goes
  <2> QED BY <1>1, <1>5, <2>1, <2>2, <2>3, <2>4, <2>5
<1> QED BY <1>3, <1>4, <1>5 DEF StaleInspects

LEMMA StaleTunnelTypes ==
  ASSUME Types, NEW t \in Tasks \ {"quit"}, StaleTunnel(t)
  PROVE  Types' /\ t \in {"start", "stop"}
<1>1. t \in {"start", "stop"}
  BY StaleTasks DEF StaleTunnel, At, StalePlace
<1>2. CASE alias' = "stopped" /\ StaleDone(t) /\ UNCHANGED budget
  BY <1>1, <1>2, StaleDoneTypes DEF StaleTunnel, Types, HandleTypes, ControlTypes
<1>3. CASE Fault /\ alias' \in {alias, "stopped"} /\ StaleFails(t)
  BY <1>1, <1>3, StaleFailsTypes, FaultCosts DEF StaleTunnel, Types, HandleTypes, ControlTypes
<1> QED BY <1>1, <1>2, <1>3 DEF StaleTunnel

\* A drain that goes on: the daemon is idle and draining when its task stops it.
DrainLabel(t) == CASE task[t].at = "stale.drain"   -> "stale.shutdown"
                   [] task[t].at = "cleanup.drain" -> "cleanup.shutdown"
                   [] OTHER                        -> "stop.tunnel"

LEMMA EndTasks ==
  ASSUME Types, NEW t \in Tasks \ {"quit"}, task[t].at \in EndPlace
  PROVE  /\ t \in {"start", "stop"}
         /\ task[t].at \in {"cleanup.drain", "cleanup.shutdown", "cleanup.exit"} => t = "start"
         /\ task[t].at \in {"stop.drain", "stop.shutdown", "stop.exit"} => t = "stop"
<1>1. Fits(t, task[t].at)
  BY DEF Types, TaskTypes, TaskOK
<1>2. /\ t \in Recoveries => task[t].at \in RecoveryPlace
      /\ t = "stop" => task[t].at \in StopPlace
      /\ t = "start" => task[t].at \in StartPlace
  BY <1>1 DEF Fits
<1>3. task[t].at \notin RecoveryPlace
  BY DEF RecoveryPlace, TunnelPlace, SpawnPlace, EndPlace, StaleWait
<1>4. task[t].at \in {"cleanup.drain", "cleanup.shutdown", "cleanup.exit"} => task[t].at \notin StopPlace
  BY DEF StopPlace, TunnelPlace, SpawnPlace, StalePlace
<1>5. task[t].at \in {"stop.drain", "stop.shutdown", "stop.exit"} => task[t].at \notin StartPlace
  BY DEF StartPlace, TunnelPlace, SpawnPlace, StalePlace, CleanupPlace
<1> QED BY <1>2, <1>3, <1>4, <1>5, TaskNames

LEMMA DrainTypes ==
  ASSUME Types, NEW t \in Tasks \ {"quit"}, Drain(t)
  PROVE  /\ Types' /\ t \in {"start", "stop"} /\ task[t].at \in EndPlace
         /\ \/ /\ \E p \in Targets(t) \ busy : draining' = draining \cup {p}
               /\ Goes(t, DrainLabel(t)) /\ task'[t].drained /\ task'[t].child = task[t].child
               /\ task'[t].unhooked = task[t].unhooked
               /\ UNCHANGED <<control, daemon, tunnel, monitor, op, budget>>
            \/ /\ \E p \in Targets(t) \cap busy : draining' = draining \cup {p}
               /\ UNCHANGED <<task, control, daemon, tunnel, monitor, op, budget>>
            \/ /\ Fails(t)
               /\ Fault \/ draining' = draining \/ \E p \in busy : draining' = Resumed({p})
<1>1. task[t].at \in EndPlace /\ t \in {"start", "stop"}
  BY EndTasks DEF Drain, EndPlace, StaleWait
<1>2. UNCHANGED <<proc, busy, alias, restartable, expected, mine, life, pending>>
  BY DEF Drain
<1>3. Targets(t) \subseteq Proc
  BY DEF Targets, Listening
<1>4. ASSUME NEW p \in Targets(t) \ busy, draining' = draining \cup {p},
             task' = [task EXCEPT ![t].drained = TRUE, ![t].at = CASE @ = "stale.drain"   -> "stale.shutdown"
                                        [] @ = "cleanup.drain" -> "cleanup.shutdown"
                                        [] OTHER               -> "stop.tunnel"],
             UNCHANGED <<control, daemon, tunnel, monitor, op, budget>>
      PROVE  Types' /\ Goes(t, DrainLabel(t)) /\ task'[t].drained /\ task'[t].child = task[t].child
             /\ task'[t].unhooked = task[t].unhooked
  <2> DEFINE e == [task[t] EXCEPT !.at = DrainLabel(t), !.drained = TRUE]
  <2>1. task' = [task EXCEPT ![t] = e]
    BY <1>4 DEF Types, TaskTypes, DrainLabel, Task
  <2>2. TaskOK(t, task[t]) /\ task[t] \in Task
    BY DEF Types, TaskTypes, TaskOK
  <2>3. /\ DrainLabel(t) \in {"stale.shutdown", "cleanup.shutdown", "stop.tunnel"}
        /\ Fits(t, DrainLabel(t)) /\ DrainLabel(t) \in Label
    <3>1. CASE At(t, "stale.drain")
      <4>1. DrainLabel(t) = "stale.shutdown"
        BY <3>1 DEF DrainLabel, At
      <4> QED BY <1>1, <4>1, Labels DEF StalePlace, Label, StartPlace
    <3>2. CASE At(t, "cleanup.drain")
      <4>1. DrainLabel(t) = "cleanup.shutdown" /\ t = "start"
        BY <3>2, <1>1, EndTasks DEF DrainLabel, At
      <4> QED BY <4>1, Labels DEF CleanupPlace, Label, StartPlace
    <3>3. CASE At(t, "stop.drain")
      <4>1. DrainLabel(t) = "stop.tunnel" /\ t = "stop"
        BY <3>3, <1>1, EndTasks DEF DrainLabel, At
      <4> QED BY <4>1, Labels DEF Label, StopPlace
    <3> QED BY <3>1, <3>2, <3>3 DEF Drain, At
  <2>4. /\ e.at = DrainLabel(t) /\ e.child = task[t].child /\ e.name = task[t].name /\ e.drained
        /\ e.unhooked = task[t].unhooked /\ e.sound = task[t].sound /\ e \in Task
    BY <2>2, <2>3 DEF Task
  <2>5. TaskOK(t, e)
    BY <2>2, <2>3, <2>4 DEF TaskOK, LookPlace
  <2> HIDE DEF e
  <2>6. /\ Goes(t, DrainLabel(t)) /\ task'[t].drained /\ task'[t].child = task[t].child
        /\ task'[t].unhooked = task[t].unhooked
    BY <2>1, <2>4, <2>5, OneChanges DEF Becomes, Goes, Types
  <2>7. HandleTypes'
    BY <1>2, <1>3, <1>4 DEF Types, HandleTypes
  <2>8. ControlTypes'
    BY <1>2, <1>4 DEF Types, ControlTypes, control
  <2> QED BY <2>6, <2>7, <2>8 DEF Types, Goes
<1>5. ASSUME draining' \subseteq Proc, UNCHANGED <<task, control, daemon, tunnel, monitor, op, budget>>
      PROVE  Types'
  BY <1>2, <1>5 DEF Types, TaskTypes, HandleTypes, ControlTypes, control
<1>6. ASSUME draining' \subseteq Proc, Fails(t), UNCHANGED budget \/ Fault
      PROVE  Types'
  BY <1>1, <1>2, <1>6, FailsMoves, FaultCosts DEF Types, HandleTypes, ControlTypes
<1>7. /\ draining \subseteq Proc /\ \A P : Resumed(P) \subseteq Proc
  BY DEF Types, HandleTypes, Resumed
<1> QED BY <1>1, <1>3, <1>4, <1>5, <1>6, <1>7 DEF Drain

ShutdownLabel(t) == CASE task[t].at = "stale.shutdown"   -> "stale.exit"
                      [] task[t].at = "cleanup.shutdown" -> "cleanup.exit"
                      [] OTHER                           -> "stop.exit"

\* Why a shutdown, or the wait for the exit, is given up, and which drain is taken back.
ShutdownRefuses(t) ==
    /\ draining' = IF At(t, "stop.shutdown") THEN draining ELSE Resumed(Targets(t))
    /\ Fault \/ (At(t, "stop.shutdown") /\ ~task[t].drained) \/ \A p \in Targets(t) : ShutdownRefused(p)
ExitRefuses(t) ==
    /\ draining' = IF At(t, "stop.exit") THEN draining ELSE Resumed(Listening)
    /\ \/ Fault
       \/ /\ Listening # {}
          /\ proc[task[t].child] = "gone" \/ (At(t, "stale.exit") /\ proc[task[t].child] = "dead")

LEMMA ShutdownTypes ==
  ASSUME Types, NEW t \in Tasks \ {"quit"}, Shutdown(t)
  PROVE  /\ Types' /\ t \in {"start", "stop"} /\ task[t].at \in EndPlace
         /\ \/ /\ \E p \in Targets(t) : /\ ~ShutdownRefused(p) /\ task'[t].child = p
                                        /\ proc' = [proc EXCEPT ![p] = "closing"]
                                        /\ draining' = draining \cup {p}
               /\ Goes(t, ShutdownLabel(t)) /\ task'[t].unhooked = task[t].unhooked
               /\ UNCHANGED <<control, daemon, tunnel, monitor, op, budget>>
            \/ Fails(t) /\ UNCHANGED proc /\ ShutdownRefuses(t)
<1>1. task[t].at \in EndPlace /\ t \in {"start", "stop"}
  BY EndTasks DEF Shutdown, EndPlace, StaleWait
<1>2. UNCHANGED <<busy, alias, restartable, expected, mine, life, pending>>
  BY DEF Shutdown
<1>3. Targets(t) \subseteq Proc
  BY DEF Targets, Listening
<1>4. ASSUME NEW p \in Targets(t), draining' = draining \cup {p}, proc' = [proc EXCEPT ![p] = "closing"],
             task' = [task EXCEPT ![t].child = p,
                               ![t].at = CASE @ = "stale.shutdown"   -> "stale.exit"
                                           [] @ = "cleanup.shutdown" -> "cleanup.exit"
                                           [] OTHER                  -> "stop.exit"],
             UNCHANGED <<control, daemon, tunnel, monitor, op, budget>>
      PROVE  /\ Types' /\ Goes(t, ShutdownLabel(t)) /\ task'[t].child = p
             /\ task'[t].unhooked = task[t].unhooked
  <2>1. task' = [task EXCEPT ![t].at = ShutdownLabel(t), ![t].child = p]
    BY <1>4 DEF Types, TaskTypes, ShutdownLabel, Task
  <2>2. ShutdownLabel(t) \in {"stale.exit", "cleanup.exit", "stop.exit"} /\ Fits(t, ShutdownLabel(t))
    <3>1. CASE At(t, "stale.shutdown")
      <4>1. ShutdownLabel(t) = "stale.exit"
        BY <3>1 DEF ShutdownLabel, At
      <4> QED BY <1>1, <4>1, Labels DEF StalePlace
    <3>2. CASE At(t, "cleanup.shutdown")
      <4>1. ShutdownLabel(t) = "cleanup.exit" /\ t = "start"
        BY <3>2, <1>1, EndTasks DEF ShutdownLabel, At
      <4> QED BY <4>1, Labels DEF CleanupPlace
    <3>3. CASE At(t, "stop.shutdown")
      <4>1. ShutdownLabel(t) = "stop.exit" /\ t = "stop"
        BY <3>3, <1>1, EndTasks DEF ShutdownLabel, At
      <4> QED BY <4>1, Labels
    <3> QED BY <3>1, <3>2, <3>3 DEF Shutdown, At
  <2>3. /\ Goes(t, ShutdownLabel(t)) /\ task'[t].child = p /\ task'[t].unhooked = task[t].unhooked
    BY <1>3, <2>1, <2>2, LookMoves DEF Types
  <2> QED BY <1>2, <1>3, <1>4, <2>3 DEF Types, HandleTypes, ControlTypes, control, Goes
<1>5. ASSUME draining' \subseteq Proc, Fails(t), UNCHANGED budget \/ Fault, UNCHANGED proc
      PROVE  Types'
  BY <1>1, <1>2, <1>5, FailsMoves, FaultCosts DEF Types, HandleTypes, ControlTypes
<1>6. /\ draining \subseteq Proc /\ \A P : Resumed(P) \subseteq Proc
  BY DEF Types, HandleTypes, Resumed
<1> QED BY <1>1, <1>3, <1>4, <1>5, <1>6 DEF Shutdown, ShutdownRefuses

LEMMA AwaitExitTypes ==
  ASSUME Types, NEW t \in Tasks \ {"quit"}, AwaitExit(t)
  PROVE  /\ Types' /\ t \in {"start", "stop"} /\ task[t].at \in EndPlace
         /\ \/ At(t, "stale.exit") /\ Goes(t, "stale.tunnel")
               /\ UNCHANGED <<daemon, tunnel, monitor, op, control>>
               /\ task'[t].unhooked = task[t].unhooked /\ UNCHANGED <<draining, budget>> /\ Listening = {}
            \/ At(t, "stop.exit") /\ t = "stop" /\ daemon' = None /\ StopSettles(TRUE, "none")
               /\ UNCHANGED <<draining, budget, tunnel>> /\ proc[task[t].child] = "gone" /\ Listening = {}
            \/ At(t, "cleanup.exit") /\ t = "start" /\ daemon' = None
               /\ Goes(t, "cleanup.tunnel") /\ UNCHANGED <<tunnel, monitor, op, control>>
            \/ Fails(t) /\ ExitRefuses(t)
<1>1. task[t].at \in EndPlace /\ t \in {"start", "stop"}
  BY EndTasks DEF AwaitExit, EndPlace, StaleWait
<1>2. UNCHANGED <<proc, busy, alias, restartable, expected, mine, life, pending>>
  BY DEF AwaitExit
<1>3. CASE At(t, "stale.exit") /\ ExitDone(t) /\ UNCHANGED <<draining, budget>> /\ Listening = {}
  <2>1. Go(t, "stale.tunnel") /\ UNCHANGED <<control, daemon, tunnel, monitor, op>>
    BY <1>3 DEF ExitDone, Proceeds
  <2>2. Goes(t, "stale.tunnel") /\ task'[t].unhooked = task[t].unhooked
    BY <1>1, <2>1, GoMoves, Labels DEF Types, LookPlace, StalePlace
  <2>3. HandleTypes'
    BY <1>2, <1>3, <2>1 DEF Types, HandleTypes
  <2>4. ControlTypes'
    BY <1>2, <1>3, <2>1 DEF Types, ControlTypes, control
  <2> QED BY <1>1, <1>3, <2>1, <2>2, <2>3, <2>4 DEF Types, Goes
<1>4. CASE At(t, "stop.exit") /\ ExitDone(t) /\ UNCHANGED <<draining, budget>>
           /\ proc[task[t].child] = "gone" /\ Listening = {}
  <2>1. t = "stop"
    BY <1>1, <1>4, EndTasks DEF At
  <2>2. daemon' = None /\ UNCHANGED tunnel /\ StopSettles(TRUE, "none")
    BY <1>4, <2>1 DEF ExitDone, At
  <2>3. HandleTypes'
    BY <1>2, <1>4, <2>2 DEF Types, HandleTypes
  <2> QED BY <1>1, <1>2, <1>4, <2>1, <2>2, <2>3, StopSettlesMoves, NoMarkerType
          DEF Types, HandleTypes, ControlTypes
<1>5. CASE At(t, "cleanup.exit") /\ ExitDone(t) /\ UNCHANGED <<draining, budget>>
  <2>1. t = "start"
    BY <1>1, <1>5, EndTasks DEF At
  <2>2. daemon' = None /\ UNCHANGED tunnel /\ Go(t, "cleanup.tunnel") /\ UNCHANGED <<control, monitor, op>>
    BY <1>5, <2>1 DEF ExitDone, At, Proceeds
  <2>3. Goes(t, "cleanup.tunnel")
    BY <2>1, <2>2, GoMoves, Labels DEF Types, LookPlace, CleanupPlace
  <2>4. HandleTypes'
    BY <1>2, <1>5, <2>2 DEF Types, HandleTypes
  <2>5. ControlTypes'
    BY <1>2, <1>5, <2>2 DEF Types, ControlTypes, control
  <2> QED BY <1>1, <1>5, <2>1, <2>2, <2>3, <2>4, <2>5 DEF Types, Goes
<1>6. CASE /\ Fails(t)
           /\ UNCHANGED budget \/ Fault
           /\ draining' = IF At(t, "stop.exit") THEN draining ELSE Resumed(Listening)
           /\ ExitRefuses(t)
  <2>1. draining' \subseteq Proc
    BY <1>6 DEF Types, HandleTypes, Resumed
  <2> QED BY <1>1, <1>2, <1>6, <2>1, FailsMoves, FaultCosts DEF Types, HandleTypes, ControlTypes
<1> QED BY <1>1, <1>3, <1>4, <1>5, <1>6 DEF AwaitExit, ExitRefuses, At

-----------------------------------------------------------------------------
(* The start *)

LEMMA StartupStartsTypes == ASSUME Types, StartupStarts PROVE Types'
BY RequestStartMoves
   DEF StartupStarts, Types, TaskTypes, HandleTypes, ControlTypes, machine, handles, control, Goes

LEMMA StartProbesTypes ==
  ASSUME Types, StartProbes
  PROVE  /\ Types'
         /\ \/ Goes("start", "stale") /\ UNCHANGED control
            \/ Goes("start", EnterStart) /\ stopping' = FALSE /\ UNCHANGED <<timers, attempts, file>>
         /\ task'["start"].unhooked = task["start"].unhooked
<1>1. EnterStart \in {"tunnel.status", "daemon"} /\ Fits("start", EnterStart) /\ Fits("start", "stale")
  BY Labels, TaskNames DEF EnterStart, TunnelPlace, SpawnPlace, StalePlace
<1>2. /\ \/ Goes("start", "stale") /\ UNCHANGED control
         \/ Goes("start", EnterStart) /\ stopping' = FALSE /\ UNCHANGED <<timers, attempts, file>>
      /\ task'["start"].unhooked = task["start"].unhooked
  BY <1>1, GoMoves, TaskNames DEF StartProbes, Proceeds, LookPlace, Types
<1>3. /\ UNCHANGED <<machine, handles, monitor, session, budget>> /\ TaskTypes'
      /\ UNCHANGED <<timers, attempts, file>> /\ (stopping' = stopping \/ stopping' = FALSE)
  BY <1>2 DEF StartProbes, Goes, control
<1> QED BY <1>2, <1>3 DEF Types, HandleTypes, ControlTypes, machine, handles, session

LEMMA CleanupBeginsTypes ==
  ASSUME Types, CleanupBegins
  PROVE  /\ Types'
         /\ \/ daemon = None /\ Goes("start", "cleanup.tunnel")
            \/ daemon # None /\ \E label \in {"cleanup.drain", "cleanup.kill"} : Goes("start", label)
         /\ UNCHANGED control
<1>1. /\ \/ daemon = None /\ Goes("start", "cleanup.tunnel")
         \/ daemon # None /\ \E label \in {"cleanup.drain", "cleanup.kill"} : Goes("start", label)
      /\ UNCHANGED control
  BY GoMoves, Labels, TaskNames
    DEF CleanupBegins, Proceeds, LookPlace, Types, CleanupPlace, Healthy
<1> QED BY <1>1, FaultCosts
        DEF CleanupBegins, Types, HandleTypes, ControlTypes, machine, handles, session, control,
            Goes

LEMMA StopsTunnelTypes ==
  ASSUME Types, StopsTunnel
  PROVE  /\ alias' \in {"stopped", "ready", "sick"} /\ tunnel' \in BOOLEAN /\ monitor' \in BOOLEAN
         /\ budget' \in Budget
BY FaultCosts DEF StopsTunnel, Types, HandleTypes, ControlTypes

LEMMA CleanupTunnelTypes == ASSUME Types, CleanupTunnel PROVE Types' /\ CleanupEnds
<1>1. /\ alias' \in {"stopped", "ready", "sick"} /\ tunnel' \in BOOLEAN /\ monitor' \in BOOLEAN
      /\ budget' \in Budget
  BY StopsTunnelTypes DEF CleanupTunnel, Types, HandleTypes, ControlTypes
<1>2. CleanupEnds /\ UNCHANGED <<daemon, proc, busy, draining, restartable, expected, mine, life, pending>>
  BY DEF CleanupTunnel
<1> QED BY <1>1, <1>2, CleanupEndsMoves DEF Types, HandleTypes, ControlTypes, Becomes

-----------------------------------------------------------------------------
(* The stop *)

LEMMA SetupStopsTypes == ASSUME Types, SetupStops PROVE Types'
<1>1. Spend("setups") /\ RequestStop(task) /\ op' = "stopping"
  BY DEF SetupStops
<1>2. budget' \in Budget
  BY <1>1, Costs DEF Types
<1>3. TaskTypes' /\ stopping' \in BOOLEAN /\ monitor' \in BOOLEAN /\ timers' \subseteq Children
  BY <1>1, RequestStopMoves DEF Types, ControlTypes, Goes
<1> QED BY <1>1, <1>2, <1>3 DEF SetupStops, Types, HandleTypes, ControlTypes, machine, handles

LEMMA SetupStartsTypes == ASSUME Types, SetupStarts PROVE Types'
BY RequestStartMoves
   DEF SetupStarts, Types, TaskTypes, HandleTypes, ControlTypes, machine, handles, control, Goes

LEMMA LateCosts == ASSUME Types, Late PROVE budget' \in Budget /\ budget'.late # MaxLate
<1>1. budget' \in Budget /\ budget.late # 0 /\ budget'.late = budget.late - 1 /\ budget.late \in 0..MaxLate
  BY Costs DEF Types, Late, ControlTypes, Budget
<1>2. MaxLate \in Nat
  BY SupervisorAssumption DEF SupervisorAssumption
<1> QED BY <1>1, <1>2

LEMMA StopSettlesStartTypes ==
  ASSUME Types, StopSettlesStart
  PROVE  /\ Types' /\ Goes("stop", "settle.recovery") /\ stopping' = TRUE /\ monitor' = FALSE
         /\ timers' = {} /\ (~Running("start") \/ budget'.late # MaxLate)
<1>1. StopBegins(task) /\ (StartSettled \/ Late)
  BY DEF StopSettlesStart
<1>2. budget' \in Budget /\ (~Running("start") \/ budget'.late # MaxLate)
  BY <1>1, LateCosts DEF StartSettled, Types, ControlTypes
<1> QED BY <1>1, <1>2, StopBeginsMoves
        DEF StopSettlesStart, Types, HandleTypes, ControlTypes, machine, handles, session, Goes

LEMMA StopSettlesRecoveriesTypes ==
  ASSUME Types, StopSettlesRecoveries
  PROVE  /\ Types' /\ Goes("stop", "inspect") /\ UNCHANGED control
         /\ (\A r \in Recoveries : At(r, "off")) \/ budget'.late # MaxLate
<1>1. Proceeds("stop", "inspect") /\ (RecoveriesSettled \/ Late)
  BY DEF StopSettlesRecoveries
<1>2. budget' \in Budget /\ ((\A r \in Recoveries : At(r, "off")) \/ budget'.late # MaxLate)
  BY <1>1, LateCosts DEF RecoveriesSettled, Types, ControlTypes
<1>3. Goes("stop", "inspect") /\ UNCHANGED control
  BY <1>1, GoMoves, Labels, TaskNames DEF Proceeds, Types, LookPlace
<1> QED BY <1>2, <1>3
        DEF StopSettlesRecoveries, Types, HandleTypes, ControlTypes, machine, handles, session,
            control, Goes

LEMMA StopInspectsTypes ==
  ASSUME Types, StopInspects
  PROVE  /\ Types' /\ UNCHANGED daemon
         /\ \/ StopSettles(TRUE, "none") /\ daemon = None
            \/ /\ Goes("stop", FirstStep(tunnel')) /\ UNCHANGED <<control, monitor, op, budget>>
               /\ FirstStep(tunnel') \in {"stop.drain", "stop.tunnel", "stale"}
               /\ task'["stop"].drained = task["stop"].drained
               /\ task'["stop"].unhooked = task["stop"].unhooked
            \/ /\ Goes("stop", "undo.ready") /\ UNCHANGED <<control, monitor, op>> /\ Full /\ Fault
<1>1. UNCHANGED <<machine, restartable, expected, mine, life, pending, daemon>>
  BY DEF StopInspects
<1>2. tunnel' \in BOOLEAN
  BY DEF StopInspects, Types, HandleTypes
<1>3. HandleTypes'
  BY <1>1, <1>2 DEF Types, HandleTypes, machine
<1>4. CASE StopSettles(TRUE, "none") /\ daemon = None /\ UNCHANGED budget
  BY <1>1, <1>2, <1>3, <1>4, StopSettlesMoves, NoMarkerType DEF Types, HandleTypes, ControlTypes
<1>5. CASE Proceeds("stop", FirstStep(tunnel')) /\ UNCHANGED <<monitor, op, budget>>
  <2>1. FirstStep(tunnel') \in {"stop.drain", "stop.tunnel", "stale"}
    BY <1>2 DEF FirstStep
  <2>2. Fits("stop", FirstStep(tunnel'))
    BY <2>1, Labels, TaskNames DEF StalePlace
  <2>3. /\ Goes("stop", FirstStep(tunnel')) /\ UNCHANGED control
        /\ task'["stop"].drained = task["stop"].drained
        /\ task'["stop"].unhooked = task["stop"].unhooked
    BY <1>5, <2>1, <2>2, GoMoves, TaskNames DEF Types, LookPlace, Proceeds
  <2> QED BY <1>1, <1>3, <1>5, <2>1, <2>3 DEF Types, ControlTypes, control, Goes
<1>6. CASE Full /\ Fault /\ Proceeds("stop", "undo.ready") /\ UNCHANGED <<monitor, op>>
  <2>1. Goes("stop", "undo.ready") /\ UNCHANGED control
    BY <1>6, Labels, GoMoves, TaskNames DEF Types, LookPlace, Proceeds
  <2> QED BY <1>1, <1>3, <1>6, <2>1, FaultCosts DEF Types, ControlTypes, control, Goes
<1> QED BY <1>4, <1>5, <1>6 DEF StopInspects

LEMMA StopFindsNoDaemonTypes ==
  ASSUME Types, StopFindsNoDaemon
  PROVE  Types'
<1>1. daemon' \in Proc \cup {None} /\ tunnel' \in BOOLEAN
  BY DEF StopFindsNoDaemon, Types, HandleTypes
<1> QED BY <1>1, StopSettlesMoves, NoMarkerType
        DEF StopFindsNoDaemon, Types, HandleTypes, ControlTypes, machine

LEMMA StopTunnelTypes ==
  ASSUME Types, StopTunnel
  PROVE  /\ Types' /\ UNCHANGED control
         /\ \/ /\ ~tunnel /\ Goes("stop", "stop.shutdown")
               /\ task'["stop"].unhooked = task["stop"].unhooked
               /\ UNCHANGED <<alias, tunnel, monitor, budget>>
            \/ /\ tunnel /\ ~tunnel' /\ Goes("stop", "stop.shutdown")
            \/ tunnel /\ tunnel' /\ Undo /\ Fault
         /\ task'["stop"].drained = task["stop"].drained
<1>1. UNCHANGED <<proc, busy, draining, daemon, restartable, expected, mine, session>> /\ At("stop", "stop.tunnel")
  BY DEF StopTunnel
<1>2. TaskTypes /\ tunnel \in BOOLEAN
  BY DEF Types, HandleTypes
<1>3. CASE ~tunnel
  <2>1. Proceeds("stop", "stop.shutdown") /\ UNCHANGED <<alias, tunnel, monitor, budget>>
    BY <1>3 DEF StopTunnel
  <2>2. /\ Goes("stop", "stop.shutdown") /\ UNCHANGED control
        /\ task'["stop"].unhooked = task["stop"].unhooked /\ task'["stop"].drained = task["stop"].drained
    BY <2>1, <1>2, GoMoves, Labels, TaskNames DEF LookPlace, Proceeds
  <2> QED BY <1>1, <1>3, <2>1, <2>2 DEF Types, HandleTypes, ControlTypes, session, control, Goes
<1>4. CASE tunnel
  <2>1. /\ StopsTunnel
        /\ IF ~tunnel'
           THEN /\ task' = [task EXCEPT !["stop"].at = "stop.shutdown", !["stop"].unhooked = TRUE]
                /\ UNCHANGED control
           ELSE Undo
    BY <1>4 DEF StopTunnel
  <2>2. /\ alias' \in {"stopped", "ready", "sick"} /\ tunnel' \in BOOLEAN /\ monitor' \in BOOLEAN
        /\ budget' \in Budget
    BY <2>1, StopsTunnelTypes
  <2>3. CASE ~tunnel'
    <3> DEFINE e == [task["stop"] EXCEPT !.at = "stop.shutdown", !.unhooked = TRUE]
    <3>1. task' = [task EXCEPT !["stop"] = e] /\ UNCHANGED control
      BY <2>1, <2>3, <1>2 DEF TaskTypes
    <3>2. TaskOK("stop", task["stop"]) /\ task["stop"] \in Task
      BY <1>2, TaskNames DEF TaskTypes, TaskOK
    <3>3. "stop.shutdown" \in Label
      BY DEF Label, StopPlace
    <3>4. /\ e.at = "stop.shutdown" /\ e.child = task["stop"].child /\ e.name = task["stop"].name
          /\ e.drained = task["stop"].drained /\ e \in Task
      BY <3>2, <3>3 DEF Task
    <3>5. TaskOK("stop", e)
      BY <3>2, <3>4, Labels DEF TaskOK, LookPlace
    <3> HIDE DEF e
    <3>6. Goes("stop", "stop.shutdown") /\ task'["stop"].drained = task["stop"].drained
      BY <1>2, <3>1, <3>4, <3>5, OneChanges, TaskNames DEF Becomes, Goes
    <3> QED BY <1>1, <1>4, <2>2, <2>3, <3>1, <3>6
              DEF Types, HandleTypes, ControlTypes, session, control, Goes
  <2>4. CASE tunnel'
    <3>1. Undo /\ Fault
      BY <2>1, <2>4 DEF StopsTunnel
    <3> QED BY <1>1, <1>2, <1>4, <2>2, <2>4, <3>1, UndoMoves
              DEF Types, HandleTypes, ControlTypes, session, control, Goes
  <2> QED BY <2>2, <2>3, <2>4
<1> QED BY <1>2, <1>3, <1>4

LEMMA UndoDaemonTypes ==
  ASSUME Types, UndoDaemon
  PROVE  /\ Types'
         /\ \E label \in {"undo.ready", "daemon"} :
               Goes("stop", label) /\ (label = "daemon" => daemon = None)
         /\ task'["stop"].drained = task["stop"].drained
         /\ task'["stop"].unhooked = task["stop"].unhooked
         /\ UNCHANGED daemon
<1>1. UNCHANGED <<proc, busy, alias, tunnel, restartable, expected, mine, control, monitor, session, daemon>>
  BY DEF UndoDaemon
<1>2. \/ Go("stop", "undo.ready")
      \/ task' = [task EXCEPT !["stop"].at = "undo.ready", !["stop"].sound = FALSE]
      \/ daemon = None /\ Go("stop", "daemon")
  BY DEF UndoDaemon
<1>3. draining' \subseteq Proc /\ (UNCHANGED budget \/ Fault)
  BY DEF UndoDaemon, Types, HandleTypes, Resumed
<1>4. /\ \E label \in {"undo.ready", "daemon"} :
               Goes("stop", label) /\ (label = "daemon" => daemon = None)
      /\ task'["stop"].drained = task["stop"].drained
      /\ task'["stop"].unhooked = task["stop"].unhooked
  BY <1>2, GoMoves, UnsoundMoves, Labels, TaskNames DEF Types, LookPlace, SpawnPlace
<1> QED BY <1>1, <1>3, <1>4, FaultCosts
          DEF Types, HandleTypes, ControlTypes, control, session, Goes

LEMMA UndoReadyTypes ==
  ASSUME Types, UndoReady
  PROVE  /\ Types'
         /\ \/ Goes("stop", "undo.tunnel") /\ UNCHANGED <<control, monitor, op, budget>> /\ Full
            \/ StopSettles(FALSE, "ready") /\ Accepting(daemon) /\ ~Full
            \/ StopSettles(FALSE, "failed")
<1>1. UNCHANGED <<machine, restartable, expected, mine, life, pending, daemon, tunnel>>
  BY DEF UndoReady
<1>2. daemon' \in Proc \cup {None} /\ tunnel' \in BOOLEAN
  BY <1>1 DEF Types, HandleTypes
<1>3. CASE Proceeds("stop", "undo.tunnel") /\ UNCHANGED <<monitor, op, budget>> /\ Full
  <2>1. Goes("stop", "undo.tunnel") /\ UNCHANGED control
    BY <1>3, Labels, GoMoves, TaskNames DEF Types, LookPlace, Proceeds
  <2> QED BY <1>1, <1>3, <2>1 DEF Types, HandleTypes, ControlTypes, machine, control, Goes
<1>4. ASSUME NEW status \in {"ready", "failed"}, StopSettles(FALSE, status), UNCHANGED budget \/ Fault
      PROVE  Types'
  BY <1>1, <1>2, <1>4, StopSettlesMoves, FaultCosts DEF Types, HandleTypes, ControlTypes, machine
<1> QED BY <1>3, <1>4 DEF UndoReady

LEMMA UndoTunnelReadyTypes ==
  ASSUME Types, UndoTunnelReady
  PROVE  Types' /\ \E status \in {"ready", "failed"} : StopSettles(FALSE, status)
<1>1. UNCHANGED <<machine, restartable, expected, mine, life, pending, daemon, tunnel>>
  BY DEF UndoTunnelReady
<1>2. daemon' \in Proc \cup {None} /\ tunnel' \in BOOLEAN
  BY <1>1 DEF Types, HandleTypes
<1>3. ASSUME NEW status \in {"ready", "failed"}, StopSettles(FALSE, status), UNCHANGED budget \/ Fault
      PROVE  Types'
  BY <1>1, <1>2, <1>3, StopSettlesMoves, FaultCosts DEF Types, HandleTypes, ControlTypes, machine
<1> QED BY <1>3 DEF UndoTunnelReady

-----------------------------------------------------------------------------
(* The quit and the recoveries *)

LEMMA RequestQuitTypes == ASSUME Types, RequestQuit PROVE Types' /\ Goes("quit", "cancel")
<1>1. Goes("quit", "cancel")
  BY GoMoves, Labels, TaskNames DEF RequestQuit, Types, LookPlace, QuitPlace
<1> QED BY <1>1 DEF RequestQuit, Types, HandleTypes, ControlTypes, machine, handles, control, Goes

\* The quit waits for its stop, which waits for the start that runs; or it forces.
LEMMA CancelTurnsTypes ==
  ASSUME Types, CancelTurns
  PROVE  /\ Types'
         /\ \/ /\ task'["quit"].at = "stop" /\ \A r \in Recoveries : task'[r] = task[r]
               /\ task'["start"] = task["start"]
               /\ task'["stop"].drained = task["stop"].drained
               /\ task'["stop"].unhooked = task["stop"].unhooked
               /\ \/ /\ Running("start") /\ task'["stop"].at = "settle.start"
                     /\ UNCHANGED <<stopping, monitor, timers>>
                  \/ /\ ~Running("start") /\ task'["stop"].at = "settle.recovery"
                     /\ stopping' = TRUE /\ monitor' = FALSE /\ timers' = {}
            \/ /\ Goes("quit", "force.recovery") /\ daemon # None
               /\ stopping' = TRUE /\ monitor' = FALSE /\ timers' = {}
<1>1. UNCHANGED <<proc, draining, alias, handles, attempts, file, session>> /\ At("quit", "cancel")
  BY DEF CancelTurns
<1>2. TaskTypes
  BY DEF Types
<1>3. CASE /\ busy' = IF daemon = None THEN busy ELSE busy \ Listening
           /\ RequestStop([task EXCEPT !["quit"].at = "stop"])
           /\ UNCHANGED budget
  <2> DEFINE label == IF Running("start") THEN "settle.start" ELSE "settle.recovery"
             tasks == [task EXCEPT !["quit"].at = "stop"]
             q == [task["quit"] EXCEPT !.at = "stop"]
             e == [task["stop"] EXCEPT !.at = label]
  <2>1. label \in {"settle.start", "settle.recovery"}
    OBVIOUS
  <2>2. /\ task' = [tasks EXCEPT !["stop"].at = label]
        /\ \/ Running("start") /\ UNCHANGED <<stopping, monitor, timers>>
           \/ ~Running("start") /\ stopping' = TRUE /\ monitor' = FALSE /\ timers' = {}
    BY <1>3 DEF RequestStop, StopBegins
  <2>a. (Running("start") /\ label = "settle.start") \/ (~Running("start") /\ label = "settle.recovery")
    OBVIOUS
  <2> HIDE DEF label
  <2>3. /\ TaskOK("quit", task["quit"]) /\ task["quit"] \in Task
        /\ TaskOK("stop", task["stop"]) /\ task["stop"] \in Task
    BY <1>2, TaskNames DEF TaskTypes, TaskOK
  <2>4. label \in Label /\ "stop" \in Label
    BY <2>1 DEF Label, StopPlace, QuitPlace
  <2>5. /\ q \in Task /\ q.at = "stop" /\ e \in Task /\ e.at = label
        /\ e.drained = task["stop"].drained /\ e.unhooked = task["stop"].unhooked
    BY <2>3, <2>4 DEF Task
  <2>6. TaskOK("quit", q) /\ TaskOK("stop", e)
    BY <2>1, <2>5, Labels DEF TaskOK, LookPlace, QuitPlace
  <2>7. /\ tasks["quit"] = q /\ tasks["stop"] = task["stop"]
        /\ \A u \in Tasks \ {"quit"} : tasks[u] = task[u]
        /\ tasks = [u \in Tasks |-> tasks[u]]
    BY <1>2, TaskNames DEF TaskTypes
  <2> HIDE DEF tasks, q
  <2>8. task' = [tasks EXCEPT !["stop"] = e]
    BY <2>2, <2>7
  <2> HIDE DEF e
  <2>9. /\ task'["quit"] = q /\ task'["stop"] = e
        /\ \A u \in Tasks \ {"quit", "stop"} : task'[u] = task[u]
        /\ task' = [u \in Tasks |-> task'[u]]
    BY <2>7, <2>8, TaskNames
  <2>10. TaskTypes'
    <3>1. \A u \in Tasks : TaskOK(u, task'[u])
      BY <1>2, <2>6, <2>9 DEF TaskTypes
    <3> QED BY <2>9, <3>1 DEF TaskTypes, TaskOK
  <2>11. HandleTypes'
    BY <1>1, <1>3 DEF Types, HandleTypes, handles
  <2>12. ControlTypes'
    BY <1>1, <1>3, <2>2 DEF Types, ControlTypes, session
  <2> QED BY <2>a, <2>2, <2>5, <2>9, <2>10, <2>11, <2>12, TaskNames DEF Types
<1>4. CASE daemon # None /\ (UNCHANGED budget \/ Fault) /\ ForceBegins(task) /\ UNCHANGED busy
  BY <1>1, <1>2, <1>4, ForceMoves, FaultCosts
    DEF Types, HandleTypes, ControlTypes, session, handles, Goes
<1> QED BY <1>3, <1>4 DEF CancelTurns

LEMMA QuitDeadlineTypes == ASSUME Types, QuitDeadline PROVE Types'
BY ForceMoves DEF QuitDeadline, Types, HandleTypes, ControlTypes, machine, handles, session, Goes

LEMMA ForceSettlesTypes ==
  ASSUME Types, ForceSettles PROVE Types' /\ Goes("quit", "force.tunnel") /\ UNCHANGED control
<1>1. Goes("quit", "force.tunnel") /\ UNCHANGED control
  BY GoMoves, Labels, TaskNames DEF ForceSettles, Proceeds, Types, LookPlace, QuitPlace
<1>2. UNCHANGED <<machine, handles, monitor, session, budget>>
  BY DEF ForceSettles, RecoveriesSettled
<1> QED BY <1>1, <1>2
          DEF Types, HandleTypes, ControlTypes, machine, handles, session, control, Goes

LEMMA ForceTunnelTypes ==
  ASSUME Types, ForceTunnel
  PROVE  /\ Types' /\ Goes("quit", "force.daemon") /\ UNCHANGED control
         /\ task'["quit"].child = task["quit"].child
<1>1. Goes("quit", "force.daemon") /\ task'["quit"].child = task["quit"].child
  BY GoMoves, UnsoundMoves, Labels, TaskNames DEF ForceTunnel, Types, LookPlace, QuitPlace
<1> QED BY <1>1, FaultCosts
          DEF ForceTunnel, Types, HandleTypes, ControlTypes, session, control, Goes

LEMMA ForceDaemonTypes ==
  ASSUME Types, ForceDaemon
  PROVE  /\ Types' /\ Goes("quit", "force.killed") /\ task'["quit"].child = daemon /\ daemon \in Proc
<1>1. daemon \in Proc
  BY DEF ForceDaemon, Types, HandleTypes
<1>2. task' = [task EXCEPT !["quit"].at = "force.killed", !["quit"].child = daemon]
  BY TaskNames DEF ForceDaemon, Types, TaskTypes, Task
<1>3. Goes("quit", "force.killed") /\ task'["quit"].child = daemon
  BY <1>1, <1>2, LookMoves, Labels, TaskNames DEF Types, QuitPlace
<1>4. HandleTypes'
  BY <1>1, TerminatesTypes DEF ForceDaemon, Types, HandleTypes
<1> QED BY <1>1, <1>3, <1>4 DEF ForceDaemon, Types, ControlTypes, control, session, Goes

LEMMA ForceEndsTypes ==
  ASSUME Types, ForceEnds
  PROVE  /\ Types' /\ Goes("quit", "exit") /\ stopping' = FALSE
         /\ file'.daemon = daemon \/ file' = NoMarker
<1>1. Goes("quit", "exit")
  BY GoMoves, Labels, TaskNames DEF ForceEnds, Types, LookPlace, QuitPlace
<1>2. file' \in File /\ (file'.daemon = daemon \/ file' = NoMarker) /\ stopping' = FALSE
  BY NoMarkerType, MarkerType DEF ForceEnds, Types, HandleTypes
<1> QED BY <1>1, <1>2
          DEF ForceEnds, Types, HandleTypes, ControlTypes, machine, handles, session, Goes

LEMMA GoneTypes ==
  ASSUME Types, LauncherGone
  PROVE  /\ TaskTypes' /\ HandleTypes' /\ \A t \in Tasks : task'[t] = NoTask
         /\ file' \in File /\ file'.own = FALSE /\ file'.daemon = file.daemon
         /\ file'.status = file.status
         /\ attempts' \in [Children -> 0..MaxRestarts]
<1>1. NoTask.at = "off"
  BY DEF NoTask
<1>2. \A t \in Tasks : TaskOK(t, NoTask)
  BY <1>1, NoTaskType DEF TaskOK, LookPlace
<1>3. task' = [t \in Tasks |-> NoTask] /\ task' \in [Tasks -> Task]
  BY NoTaskType DEF LauncherGone
<1>4. TaskTypes' /\ \A t \in Tasks : task'[t] = NoTask
  BY <1>2, <1>3 DEF TaskTypes
<1>5. HandleTypes'
  BY DEF LauncherGone, Types, HandleTypes, machine
<1>6. /\ file' \in File /\ file'.own = FALSE /\ file'.daemon = file.daemon
      /\ file'.status = file.status
  BY DEF LauncherGone, Types, ControlTypes, File
<1>7. attempts' \in [Children -> 0..MaxRestarts]
  BY SupervisorAssumption DEF LauncherGone, SupervisorAssumption
<1> QED BY <1>4, <1>5, <1>6, <1>7

LEMMA LauncherExitsTypes == ASSUME Types, LauncherExits PROVE Types'
BY GoneTypes DEF LauncherExits, LauncherGone, Types, ControlTypes
LEMMA LauncherCrashesTypes == ASSUME Types, LauncherCrashes PROVE Types'
<1>1. budget' \in Budget
  BY Costs DEF LauncherCrashes, Types
<1> QED BY <1>1, GoneTypes DEF LauncherCrashes, LauncherGone, Types, ControlTypes

LEMMA LauncherStartsTypes ==
  ASSUME Types, LauncherStarts PROVE Types' /\ budget'.launches # MaxLaunches
<1>1. /\ budget' \in Budget /\ budget.launches # 0 /\ budget'.launches = budget.launches - 1
      /\ budget.launches \in 0..MaxLaunches
  BY Costs DEF LauncherStarts, Types, ControlTypes, Budget
<1>2. budget'.launches # MaxLaunches
  BY <1>1, SupervisorAssumption DEF SupervisorAssumption
<1> QED BY <1>1, <1>2
        DEF LauncherStarts, Types, TaskTypes, HandleTypes, ControlTypes, machine, handles, control

LEMMA RecoveryChecksTypes ==
  ASSUME Types, NEW r \in Recoveries, RecoveryChecks(r)
  PROVE  /\ Types' /\ UNCHANGED <<machine, handles, monitor, session>>
         /\ \/ Goes(r, "recovered.tunnel") /\ UNCHANGED <<control, budget>> /\ Full
            \/ /\ Becomes(r, NoTask) /\ file' = Marker("ready", daemon, tunnel) /\ Accepting(daemon)
               /\ UNCHANGED <<stopping, timers, budget>> /\ ~Full
            \/ Throws(r)
<1>1. UNCHANGED <<machine, handles, monitor, session>>
  BY DEF RecoveryChecks
<1>2. HandleTypes' /\ daemon' \in Proc \cup {None} /\ tunnel' \in BOOLEAN
  BY <1>1 DEF Types, HandleTypes, machine, handles
<1>3. CASE Proceeds(r, "recovered.tunnel") /\ UNCHANGED budget /\ Full
  <2>1. Goes(r, "recovered.tunnel") /\ UNCHANGED control
    BY <1>3, GoMoves, Labels, TaskNames DEF Proceeds, Types, LookPlace
  <2> QED BY <1>1, <1>2, <1>3, <2>1 DEF Types, ControlTypes, session, control, Goes
<1>4. CASE /\ file' = Marker("ready", daemon, tunnel) /\ task' = [task EXCEPT ![r] = NoTask] /\ ~Full
           /\ Accepting(daemon) /\ UNCHANGED <<stopping, timers, attempts, budget>>
  <2>1. Becomes(r, NoTask)
    BY <1>4, EndMoves, TaskNames DEF Types
  <2>2. file' \in File
    BY <1>4, MarkerType DEF Types, HandleTypes
  <2> QED BY <1>1, <1>2, <1>4, <2>1, <2>2 DEF Types, ControlTypes, session, Becomes
<1>5. CASE Throws(r) /\ (UNCHANGED budget \/ Fault)
  BY <1>1, <1>2, <1>5, ThrowsMoves, FaultCosts, TaskNames DEF Types, ControlTypes, session
<1> QED BY <1>3, <1>4, <1>5 DEF RecoveryChecks

LEMMA RecoveryEndsTypes ==
  ASSUME Types, NEW r \in Recoveries, RecoveryEnds(r)
  PROVE  /\ Types' /\ UNCHANGED <<machine, daemon, restartable, expected, mine, monitor, session>>
         /\ \/ Throws(r)
            \/ /\ Becomes(r, NoTask) /\ file' = Marker("ready", daemon, TRUE)
               /\ alias # "stopped"
               /\ UNCHANGED <<stopping, timers, budget>>
<1>1. UNCHANGED <<machine, daemon, restartable, expected, mine, monitor, session>>
  BY DEF RecoveryEnds
<1>2. tunnel' \in BOOLEAN
  BY DEF RecoveryEnds, Types, HandleTypes
<1>3. HandleTypes' /\ daemon' \in Proc \cup {None}
  BY <1>1, <1>2 DEF Types, HandleTypes, machine
<1>4. CASE /\ file' = Marker("ready", daemon, TRUE) /\ task' = [task EXCEPT ![r] = NoTask]
           /\ UNCHANGED <<stopping, timers, attempts, budget>> /\ alias # "stopped"
  <2>1. Becomes(r, NoTask)
    BY <1>4, EndMoves, TaskNames DEF Types
  <2>2. file' \in File
    BY <1>4, MarkerType DEF Types, HandleTypes
  <2> QED BY <1>1, <1>3, <1>4, <2>1, <2>2 DEF Types, ControlTypes, session, Becomes
<1>5. CASE Throws(r) /\ (UNCHANGED budget \/ Fault)
  BY <1>1, <1>2, <1>3, <1>5, ThrowsMoves, FaultCosts, TaskNames DEF Types, ControlTypes, session
<1> QED BY <1>4, <1>5 DEF RecoveryEnds

\* A recovery begins where its child's start begins.
LEMMA TimerFiresTypes ==
  ASSUME Types, NEW r \in Recoveries, NEW name \in Children, TimerFires(name, r)
  PROVE  /\ Types' /\ timers' = timers \ {name} /\ name \in timers /\ At(r, "off")
         /\ \/ stopping /\ UNCHANGED task
            \/ /\ ~stopping /\ \A u \in Tasks \ {r} : task'[u] = task[u]
               /\ task'[r].name = name /\ ~task'[r].unhooked
               /\ task'[r].at = IF name = "tunnel" THEN "tunnel.status" ELSE "daemon"
<1>1. /\ UNCHANGED <<machine, handles, stopping, attempts, file, monitor, session, budget>>
      /\ timers' = timers \ {name} /\ name \in timers /\ At(r, "off")
  BY DEF TimerFires
<1>2. HandleTypes' /\ ControlTypes'
  BY <1>1 DEF Types, HandleTypes, ControlTypes, machine, handles, session
<1>3. CASE stopping
  BY <1>1, <1>2, <1>3 DEF TimerFires, Types, TaskTypes
<1>4. CASE ~stopping
  <2> DEFINE label == IF name = "tunnel" THEN "tunnel.status" ELSE "daemon"
             e == [NoTask EXCEPT !.name = name, !.at = label]
  <2>1. task' = [task EXCEPT ![r] = e]
    BY <1>4 DEF TimerFires
  <2>2. label \in {"tunnel.status", "daemon"} /\ Fits(r, label)
    BY Labels, TaskNames DEF TunnelPlace, SpawnPlace
  <2>3. label \in Label
    BY <2>2 DEF Label, RecoveryPlace, TunnelPlace, SpawnPlace
  <2> HIDE DEF label
  <2>4. e.at = label /\ e.name = name /\ e \in Task /\ ~e.unhooked
    BY <2>3, NoTaskType DEF NoTask, Task
  <2>5. TaskOK(r, e)
    BY <2>2, <2>4 DEF TaskOK, LookPlace
  <2> HIDE DEF e
  <2>6. Becomes(r, e)
    BY <2>1, <2>5, OneChanges, TaskNames DEF Types
  <2> QED BY <1>1, <1>2, <1>4, <2>4, <2>6 DEF Becomes, Types, label
<1> QED BY <1>3, <1>4

-----------------------------------------------------------------------------
(* The daemon, the tunnel and the events *)

DaemonEvent(p) == Boots(p) \/ BeginTurn(p) \/ EndTurn(p) \/ Closes(p) \/ Dies(p)

\* What a daemon does by itself is nobody's step in the launcher.
LEMMA DaemonEventTypes ==
  ASSUME Types, NEW p \in Proc, DaemonEvent(p)
  PROVE  /\ Types' /\ UNCHANGED <<draining, alias, handles, control, monitor, session, task>>
         /\ proc[p] # "gone" /\ proc'[p] # "gone"
         /\ \A q \in Proc \ {p} : proc'[q] = proc[q]
         /\ proc'[p] = "booting" => proc[p] = "booting"
         /\ proc[p] = "dead" => proc'[p] = "dead"
<1>1. UNCHANGED <<draining, alias, handles, control, monitor, session, task>>
  BY DEF DaemonEvent, Boots, BeginTurn, EndTurn, Closes, Dies
<1>2. /\ proc[p] # "gone" /\ proc'[p] # "gone"
      /\ \A q \in Proc \ {p} : proc'[q] = proc[q]
      /\ proc'[p] = "booting" => proc[p] = "booting"
      /\ proc[p] = "dead" => proc'[p] = "dead"
      /\ proc' \in [Proc -> {"booting", "serving", "closing", "dead", "gone"}]
  BY DEF DaemonEvent, Boots, BeginTurn, EndTurn, Closes, Dies, Types, HandleTypes, Accepting,
      Healthy, Alive
<1>3. busy' \subseteq Proc
  BY DEF DaemonEvent, Boots, BeginTurn, EndTurn, Closes, Dies, Types, HandleTypes
<1>4. budget' \in Budget
  BY FaultCosts DEF DaemonEvent, Boots, BeginTurn, EndTurn, Closes, Dies, Types, ControlTypes
<1>5. TaskTypes'
  BY <1>1 DEF Types, TaskTypes
<1> QED BY <1>1, <1>2, <1>3, <1>4, <1>5
          DEF Types, HandleTypes, ControlTypes, handles, control, session

LEMMA ReapTypes ==
  ASSUME Types, NEW p \in Proc, Reap(p)
  PROVE  /\ Types' /\ UNCHANGED <<alias, tunnel, stopping, monitor, session, task, budget>>
         /\ proc[p] = "dead" /\ proc'[p] = "gone" /\ \A q \in Proc \ {p} : proc'[q] = proc[q]
         /\ p \in mine => /\ daemon' = IF daemon = p THEN None ELSE daemon
                          /\ file'.daemon = daemon' /\ file'.own
                          /\ timers \subseteq timers' /\ timers' \subseteq timers \cup {"daemon"}
                          /\ stopping \/ p \in expected \/ p \notin restartable => timers' = timers
         /\ p \notin mine => UNCHANGED <<handles, control>>
<1>1. /\ UNCHANGED <<alias, monitor, session, task, budget>> /\ proc[p] = "dead"
      /\ proc' = [proc EXCEPT ![p] = "gone"]
      /\ busy' = busy \ {p} /\ draining' = draining \ {p}
  BY DEF Reap
<1>2. TaskTypes'
  BY <1>1 DEF Types, TaskTypes
<1>3. /\ proc'[p] = "gone" /\ \A q \in Proc \ {p} : proc'[q] = proc[q]
      /\ proc' \in [Proc -> {"booting", "serving", "closing", "dead", "gone"}]
  BY <1>1 DEF Types, HandleTypes
<1>4. CASE p \notin mine
  <2>1. UNCHANGED <<handles, control>>
    BY <1>4 DEF Reap
  <2> QED BY <1>1, <1>2, <1>3, <1>4, <2>1
            DEF Types, HandleTypes, ControlTypes, handles, control, session
<1>5. CASE p \in mine
  <2>1. /\ daemon' = IF daemon = p THEN None ELSE daemon
        /\ restartable' = restartable \ {p}
        /\ expected' = expected \ {p}
        /\ mine' = mine \ {p}
        /\ UNCHANGED <<tunnel, stopping>>
        /\ IF stopping \/ p \in expected
           THEN file' = Marker("stopping", daemon', tunnel) /\ UNCHANGED <<timers, attempts>>
           ELSE IF p \in restartable
           THEN ScheduleRecovery("daemon", Marker("degraded", daemon', tunnel))
           ELSE file' = Marker("degraded", daemon', tunnel) /\ UNCHANGED <<timers, attempts>>
    BY <1>5 DEF Reap
  <2>2. HandleTypes'
    BY <1>1, <1>3, <2>1 DEF Types, HandleTypes
  <2>3. /\ Marker("stopping", daemon', tunnel) \in File /\ Marker("degraded", daemon', tunnel) \in File
        /\ Marker("stopping", daemon', tunnel).daemon = daemon' /\ Marker("stopping", daemon', tunnel).own
        /\ Marker("degraded", daemon', tunnel).daemon = daemon' /\ Marker("degraded", daemon', tunnel).own
    BY <2>2, MarkerType DEF Types, HandleTypes
  <2>4. /\ file' \in File /\ attempts' \in [Children -> 0..MaxRestarts] /\ timers' \subseteq Children
        /\ file'.daemon = daemon' /\ file'.own
        /\ timers \subseteq timers' /\ timers' \subseteq timers \cup {"daemon"}
        /\ stopping \/ p \in expected \/ p \notin restartable => timers' = timers
    <3>1. CASE ScheduleRecovery("daemon", Marker("degraded", daemon', tunnel)) /\ ~stopping
               /\ p \notin expected /\ p \in restartable
      <4>1. "daemon" \in Children
        BY DEF Children
      <4> QED BY <3>1, <4>1, <2>3, Schedules DEF Types
    <3>2. CASE UNCHANGED <<timers, attempts>> /\ (file' = Marker("stopping", daemon', tunnel)
                                                   \/ file' = Marker("degraded", daemon', tunnel))
      BY <3>2, <2>3 DEF Types, ControlTypes
    <3> QED BY <2>1, <3>1, <3>2
  <2> QED BY <1>1, <1>2, <1>3, <1>5, <2>1, <2>2, <2>4 DEF Types, ControlTypes, session
<1> QED BY <1>4, <1>5

LEMMA TunnelFailsTypes == ASSUME Types, TunnelFails PROVE Types'
BY FaultCosts
  DEF TunnelFails, Types, TaskTypes, HandleTypes, ControlTypes, handles, control, session

LEMMA MonitorLosesTunnelTypes ==
  ASSUME Types, MonitorLosesTunnel
  PROVE  /\ Types' /\ timers \subseteq timers' /\ timers' \subseteq timers \cup {"tunnel"}
         /\ file'.daemon = daemon
<1>1. ScheduleRecovery("tunnel", Marker("degraded", daemon, FALSE)) /\ "tunnel" \in Children
  BY DEF MonitorLosesTunnel, Children
<1>2. Marker("degraded", daemon, FALSE) \in File /\ Marker("degraded", daemon, FALSE).daemon = daemon
  BY MarkerType DEF Types, HandleTypes
<1> QED BY <1>1, <1>2, Schedules
        DEF MonitorLosesTunnel, Types, TaskTypes, HandleTypes, ControlTypes, machine, session

LEMMA MonitorAdoptsTypes == ASSUME Types, MonitorAdopts PROVE Types' /\ file'.daemon = daemon
<1>1. Marker("ready", daemon, TRUE) \in File /\ Marker("ready", daemon, TRUE).daemon = daemon
  BY MarkerType DEF Types, HandleTypes
<1> QED BY <1>1 DEF MonitorAdopts, Types, TaskTypes, HandleTypes, ControlTypes, machine, session

LEMMA RestartWindowTypes ==
  ASSUME Types, NEW name \in Children, RestartWindowPasses(name) PROVE Types'
<1>1. attempts' \in [Children -> 0..MaxRestarts]
  BY SupervisorAssumption DEF RestartWindowPasses, Types, ControlTypes, SupervisorAssumption
<1> QED BY <1>1
        DEF RestartWindowPasses, Types, TaskTypes, HandleTypes, ControlTypes, machine, handles,
            session

LEMMA StutterTypes == ASSUME Types, UNCHANGED vars PROVE Types'
BY DEF vars, Types, TaskTypes, HandleTypes, ControlTypes, machine, handles, control, session

\* The steps by what takes them.
TaskAction == \E t \in Tasks \ {"quit"} : TunnelStep(t) \/ DaemonStep(t) \/ EndStep(t)
StartAction == StartupStarts \/ StartStep
StopAction == SetupStops \/ SetupStarts \/ StopStep
QuitAction == RequestQuit \/ QuitStep \/ QuitDeadline \/ LauncherCrashes \/ LauncherStarts
RecoveryAction == \E r \in Recoveries : \/ RecoveryChecks(r) \/ RecoveryEnds(r)
                                        \/ \E name \in Children : TimerFires(name, r)
Event == \/ \E p \in Proc : DaemonEvent(p) \/ Reap(p)
         \/ TunnelFails \/ MonitorLosesTunnel \/ MonitorAdopts
         \/ \E name \in Children : RestartWindowPasses(name)

LEMMA Steps ==
  ASSUME [Next]_vars
  PROVE  TaskAction \/ StartAction \/ StopAction \/ QuitAction \/ RecoveryAction \/ Event \/ UNCHANGED vars
BY DEF Next, TaskAction, StartAction, StopAction, QuitAction, RecoveryAction, Event, Finished,
       DaemonEvent, Exit

LEMMA TypesNext == ASSUME Types, [Next]_vars PROVE Types'
<1>1. CASE TaskAction
  <2> SUFFICES ASSUME NEW t \in Tasks \ {"quit"}, TunnelStep(t) \/ DaemonStep(t) \/ EndStep(t)
               PROVE  Types'
    BY <1>1 DEF TaskAction
  <2>1. CASE TunnelStep(t)
    BY <2>1, TunnelStatusTypes, TunnelStopTypes, TunnelConnectTypes, TunnelVerifyTypes,
       TunnelCleanupTypes DEF TunnelStep
  <2>2. CASE DaemonStep(t)
    BY <2>2, StartDaemonTypes, ResumeDaemonTypes, WaitForProxyTypes, StopChildTypes,
       ChildStoppedTypes DEF DaemonStep
  <2>3. CASE EndStep(t)
    BY <2>3, StaleInspectsTypes, StaleTunnelTypes, DrainTypes, ShutdownTypes, AwaitExitTypes
       DEF EndStep
  <2> QED BY <2>1, <2>2, <2>3
<1>2. CASE StartAction
  BY <1>2, StartupStartsTypes, StartProbesTypes, CleanupBeginsTypes, CleanupTunnelTypes
     DEF StartAction, StartStep
<1>3. CASE StopAction
  BY <1>3, SetupStopsTypes, SetupStartsTypes, StopSettlesStartTypes, StopSettlesRecoveriesTypes,
     StopInspectsTypes, StopFindsNoDaemonTypes, StopTunnelTypes, UndoDaemonTypes, UndoReadyTypes,
     UndoTunnelReadyTypes DEF StopAction, StopStep
<1>4. CASE QuitAction
  BY <1>4, RequestQuitTypes, CancelTurnsTypes, QuitDeadlineTypes, ForceSettlesTypes,
      ForceTunnelTypes,
     ForceDaemonTypes, ForceEndsTypes, LauncherExitsTypes, LauncherCrashesTypes,
     LauncherStartsTypes
     DEF QuitAction, QuitStep, ForceStep
<1>5. CASE RecoveryAction
  BY <1>5, RecoveryChecksTypes, RecoveryEndsTypes, TimerFiresTypes DEF RecoveryAction
<1>6. CASE Event
  BY <1>6, DaemonEventTypes, ReapTypes, TunnelFailsTypes, MonitorLosesTunnelTypes,
     MonitorAdoptsTypes, RestartWindowTypes DEF Event
<1>7. CASE UNCHANGED vars
  BY <1>7, StutterTypes
<1> QED BY <1>1, <1>2, <1>3, <1>4, <1>5, <1>6, <1>7, Steps

LEMMA TypesAlways == Spec => []Types
<1>1. Init => Types
  BY TypesInit
<1>2. Types /\ [Next]_vars => Types'
  BY TypesNext
<1> QED BY <1>1, <1>2, PTL DEF Spec

(* Every variable keeps its type, whatever the constants; Types also says  *)
(* where each task may be and what it then holds.                          *)
THEOREM SupervisorTypes == Spec => []TypeOK
<1>1. Types => TypeOK
  BY DEF Types, TaskTypes, HandleTypes, ControlTypes, File, TypeOK
<1> QED BY <1>1, TypesAlways, PTL

-----------------------------------------------------------------------------
(* Who controls the daemon                                                 *)
(*                                                                         *)
(* A stop that gives up waiting for a start or a recovery, a quit that     *)
(* forces after its deadline, or a start during a quit may leave the       *)
(* invariant.  What the code promises holds while nobody was that          *)
(* impatient: no wait was given up, and either the launcher is built to    *)
(* quit patiently or it is in its first launch and nobody has quit.        *)

Patient ==
    /\ budget.late = MaxLate
    /\ \/ ~ForcedQuit /\ ~StartDuringQuit
       \/ life = "up" /\ budget.launches = MaxLaunches

Off(t)   == At(t, "off")
Acting   == ~(task["stop"].at \in {"off", "settle.start", "settle.recovery"})
Forcing  == task["quit"].at \in {"force.recovery", "force.tunnel", "force.daemon", "force.killed"}
PreSpawn == {"probe", "daemon"} \cup StalePlace \cup TunnelPlace
DaemonRecovers ==
    "daemon" \in timers \/ \E r \in Recoveries : ~Off(r) /\ task[r].name = "daemon"
HoldsNoOther(t) == daemon \in {None, task[t].child}

(* Nothing runs in a launcher that is gone or has just been started. *)
Down ==
    ~UpLife \/ (pending /\ life = "up") =>
        /\ \A t \in Tasks : Off(t)
        /\ daemon = None /\ ~tunnel /\ ~monitor /\ ~stopping /\ timers = {} /\ op = "none"
        /\ ~file.own
        /\ ~UpLife => ~pending

(* A stop belongs to a setup operation or to the quit, an operation to a   *)
(* launcher that is up; between a stop and the start nothing is running.   *)
Roles ==
    /\ ~Off("stop") <=> op = "stopping" \/ At("quit", "stop")
    /\ op # "none" => life = "up"
    /\ ~Off("quit") <=> life = "quitting"
    /\ op = "between" => Off("start") /\ daemon = None /\ ~DaemonRecovers
    /\ ~At("start", "wait")

(* A stop that acts is alone: no start, no recovery and no timer. *)
StopAlone ==
    /\ At("stop", "settle.recovery") \/ Acting => stopping /\ timers = {} /\ Off("start")
    /\ Acting => \A r \in Recoveries : Off(r)
    /\ task["stop"].at \in StalePlace \cup {"daemon"} => daemon = None
    /\ task["stop"].at \notin {"daemon.resume", "daemon.existing"}
    /\ task["stop"].at \in {"stop.exit", "daemon.spawned", "daemon.killed"} => HoldsNoOther("stop")

(* A start runs while no recovery of the daemon does, and it knows of no   *)
(* daemon but the one that it spawned.                                     *)
StartAlone ==
    /\ ~Off("start") => ~DaemonRecovers /\ restartable = {}
    /\ task["start"].at \in PreSpawn \cup CleanupPlace => daemon = None
    /\ task["start"].at \in {"daemon.spawned", "daemon.killed"} => HoldsNoOther("start")
    /\ task["start"].at \notin {"daemon.resume", "daemon.existing", "cleanup.drain",
                                "cleanup.shutdown", "cleanup.exit", "cleanup.kill", "cleanup.killed"}
    /\ task["start"].at \in PreSpawn => task["quit"].at \in {"off", "cancel", "stop"}

(* A forced quit that has waited for the recoveries ends what is left. *)
QuitAlone ==
    /\ Forcing => /\ ~Off("start") \/ DaemonRecovers => stopping
                  /\ ~stopping => restartable = {}
                  /\ "daemon" \notin timers
    /\ task["quit"].at \in {"force.tunnel", "force.daemon", "force.killed", "exit"} => ~DaemonRecovers
    /\ At("quit", "force.killed") => HoldsNoOther("quit") /\ daemon \in expected \cup {None}
    /\ At("quit", "exit") => daemon = None

RecoveryRoles == \A r \in Recoveries : task[r].at \in SpawnPlace => task[r].name = "daemon"

(* this.daemon is the only child of this process, and its bookkeeping is   *)
(* about it.                                                               *)
Handles ==
    /\ mine = {daemon} \ {None}
    /\ restartable \subseteq mine /\ expected \subseteq mine
    /\ \A p \in mine : proc[p] # "gone"
    /\ \A p \in expected : proc[p] = "dead"
    /\ \A p \in restartable : proc[p] # "booting"

Control == Down /\ Roles /\ StopAlone /\ StartAlone /\ QuitAlone /\ RecoveryRoles /\ Handles

LEMMA NoTaskIsOff ==
  /\ NoTask.at = "off"
  /\ NoTask.unhooked = FALSE
  /\ NoTask.drained = FALSE
  /\ NoTask.sound = TRUE
  /\ NoTask.name = "daemon"
BY DEF NoTask

LEMMA TunnelStatusControl ==
  ASSUME Types, Types', Control, Patient, Patient', NEW t \in Tasks \ {"quit"}, TunnelStatus(t)
  PROVE  Control'
<1>1. \E label \in {"tunnel.adopt", "tunnel.stop", "tunnel.cleanup"} : Goes(t, label)
  BY TunnelStatusTypes
<1>2. Down'
  BY <1>1, TaskNames
     DEF Control, Down, UpLife, Off, At, TunnelStatus, Proceeds, control, session, machine,
         handles, Goes
<1>3. Roles'
  BY <1>1, TaskNames
     DEF Control, Roles, DaemonRecovers, Off, At, TunnelStatus, Proceeds, control, session,
         machine, handles, Goes
<1>4. StopAlone'
  BY <1>1, TaskNames
     DEF Control, StopAlone, Acting, Off, At, HoldsNoOther, StalePlace, TunnelStatus, Proceeds,
         control, session, machine, handles, Goes
<1>5. StartAlone'
  BY <1>1, TaskNames
     DEF Control, StartAlone, DaemonRecovers, Off, At, HoldsNoOther, PreSpawn, StalePlace,
         TunnelPlace, CleanupPlace, TunnelStatus, Proceeds, control, session, machine, handles,
         Goes
<1>6. QuitAlone'
  BY <1>1, TaskNames
     DEF Control, QuitAlone, Forcing, DaemonRecovers, Off, At, HoldsNoOther, TunnelStatus,
         Proceeds, control, session, machine, handles, Goes
<1>7. RecoveryRoles'
  BY <1>1, TaskNames
     DEF Control, RecoveryRoles, SpawnPlace, At, TunnelStatus, Proceeds, control, session,
         machine, handles, Goes
<1>8. Handles'
  BY <1>1, TaskNames
     DEF Control, Handles, TunnelStatus, Proceeds, control, session, machine, handles, Goes
<1> QED BY <1>2, <1>3, <1>4, <1>5, <1>6, <1>7, <1>8 DEF Control

LEMMA TunnelStopControl ==
  ASSUME Types, Types', Control, Patient, Patient', NEW t \in Tasks \ {"quit"}, TunnelStop(t)
  PROVE  Control'
<1>1. \E label \in {"tunnel.connect", "tunnel.cleanup"} : Goes(t, label)
  BY TunnelStopTypes
<1>2. Down'
  BY <1>1, TaskNames
     DEF Control, Down, UpLife, Off, At, TunnelStop, Proceeds, control, session, machine,
         handles, Goes
<1>3. Roles'
  BY <1>1, TaskNames
     DEF Control, Roles, DaemonRecovers, Off, At, TunnelStop, Proceeds, control, session,
         machine, handles, Goes
<1>4. StopAlone'
  BY <1>1, TaskNames
     DEF Control, StopAlone, Acting, Off, At, HoldsNoOther, StalePlace, TunnelStop, Proceeds,
         control, session, machine, handles, Goes
<1>5. StartAlone'
  BY <1>1, TaskNames
     DEF Control, StartAlone, DaemonRecovers, Off, At, HoldsNoOther, PreSpawn, StalePlace,
         TunnelPlace, CleanupPlace, TunnelStop, Proceeds, control, session, machine, handles, Goes
<1>6. QuitAlone'
  BY <1>1, TaskNames
     DEF Control, QuitAlone, Forcing, DaemonRecovers, Off, At, HoldsNoOther, TunnelStop,
         Proceeds, control, session, machine, handles, Goes
<1>7. RecoveryRoles'
  BY <1>1, TaskNames
     DEF Control, RecoveryRoles, SpawnPlace, At, TunnelStop, Proceeds, control, session, machine,
         handles, Goes
<1>8. Handles'
  BY <1>1, TaskNames
     DEF Control, Handles, TunnelStop, Proceeds, control, session, machine, handles, Goes
<1> QED BY <1>2, <1>3, <1>4, <1>5, <1>6, <1>7, <1>8 DEF Control

LEMMA TunnelConnectControl ==
  ASSUME Types, Types', Control, Patient, Patient', NEW t \in Tasks \ {"quit"}, TunnelConnect(t)
  PROVE  Control'
<1>1. \E label \in {"tunnel.verify", "tunnel.cleanup"} : Goes(t, label)
  BY TunnelConnectTypes
<1>2. Down'
  BY <1>1, TaskNames
     DEF Control, Down, UpLife, Off, At, TunnelConnect, Proceeds, control, session, machine,
         handles, Goes
<1>3. Roles'
  BY <1>1, TaskNames
     DEF Control, Roles, DaemonRecovers, Off, At, TunnelConnect, Proceeds, control, session,
         machine, handles, Goes
<1>4. StopAlone'
  BY <1>1, TaskNames
     DEF Control, StopAlone, Acting, Off, At, HoldsNoOther, StalePlace, TunnelConnect, Proceeds,
         control, session, machine, handles, Goes
<1>5. StartAlone'
  BY <1>1, TaskNames
     DEF Control, StartAlone, DaemonRecovers, Off, At, HoldsNoOther, PreSpawn, StalePlace,
         TunnelPlace, CleanupPlace, TunnelConnect, Proceeds, control, session, machine, handles,
         Goes
<1>6. QuitAlone'
  BY <1>1, TaskNames
     DEF Control, QuitAlone, Forcing, DaemonRecovers, Off, At, HoldsNoOther, TunnelConnect,
         Proceeds, control, session, machine, handles, Goes
<1>7. RecoveryRoles'
  BY <1>1, TaskNames
     DEF Control, RecoveryRoles, SpawnPlace, At, TunnelConnect, Proceeds, control, session,
         machine, handles, Goes
<1>8. Handles'
  BY <1>1, TaskNames
     DEF Control, Handles, TunnelConnect, Proceeds, control, session, machine, handles, Goes
<1> QED BY <1>2, <1>3, <1>4, <1>5, <1>6, <1>7, <1>8 DEF Control

LEMMA TunnelVerifyControl ==
  ASSUME Types, Types', Control, Patient, Patient', NEW t \in Tasks \ {"quit"}, TunnelVerify(t)
  PROVE  Control'
<1>1. \E label \in {TunnelDone(t), "tunnel.cleanup"} : Goes(t, label)
  BY TunnelVerifyTypes
<1>2. /\ t = "start" => TunnelDone(t) = "daemon"
      /\ t = "stop" => TunnelDone(t) = "undo.daemon"
      /\ t \in Recoveries => TunnelDone(t) = "recovered"
  BY TaskNames DEF TunnelDone
<1>3. Down'
  BY <1>1, <1>2, TaskNames
     DEF Control, Down, UpLife, Off, At, TunnelVerify, Proceeds, control, session, machine,
         handles, Goes
<1>4. Roles'
  BY <1>1, <1>2, TaskNames
     DEF Control, Roles, DaemonRecovers, Off, At, TunnelVerify, Proceeds, control, session,
         machine, handles, Goes
<1>5. StopAlone'
  BY <1>1, <1>2, TaskNames
     DEF Control, StopAlone, Acting, Off, At, HoldsNoOther, StalePlace, TunnelVerify, Proceeds,
         control, session, machine, handles, Goes
<1>6. StartAlone'
  BY <1>1, <1>2, TaskNames
     DEF Control, StartAlone, DaemonRecovers, Off, At, HoldsNoOther, PreSpawn, StalePlace,
         TunnelPlace, CleanupPlace, TunnelVerify, Proceeds, control, session, machine, handles,
         Goes
<1>7. QuitAlone'
  BY <1>1, <1>2, TaskNames
     DEF Control, QuitAlone, Forcing, DaemonRecovers, Off, At, HoldsNoOther, TunnelVerify,
         Proceeds, control, session, machine, handles, Goes
<1>8. RecoveryRoles'
  BY <1>1, <1>2, TaskNames
     DEF Control, RecoveryRoles, SpawnPlace, At, TunnelVerify, Proceeds, control, session,
         machine, handles, Goes
<1>9. Handles'
  BY <1>1, <1>2, TaskNames
     DEF Control, Handles, TunnelVerify, Proceeds, control, session, machine, handles, Goes
<1> QED BY <1>3, <1>4, <1>5, <1>6, <1>7, <1>8, <1>9 DEF Control

LEMMA TunnelCleanupControl ==
  ASSUME Types, Types', Control, Patient, Patient', NEW t \in Tasks \ {"quit"}, TunnelCleanup(t)
  PROVE  Control'
<1>1. Thrown(t)
  BY ThrowsMoves DEF TunnelCleanup, Types, HandleTypes
<1>2. NoTask.at = "off"
  BY NoTaskIsOff
<1>3. Down'
  BY <1>1, <1>2, TaskNames
     DEF Control, Down, UpLife, Off, At, TunnelCleanup, control, session, Thrown
<1>4. Roles'
  BY <1>1, <1>2, TaskNames
     DEF Control, Roles, DaemonRecovers, Off, At, TunnelCleanup, control, session, Thrown
<1>5. StopAlone'
  BY <1>1, <1>2, TaskNames
     DEF Control, StopAlone, Acting, Off, At, HoldsNoOther, StalePlace, TunnelCleanup, control,
         session, Thrown, TunnelPlace
<1>6. StartAlone'
  BY <1>1, <1>2, TaskNames
     DEF Control, StartAlone, DaemonRecovers, Off, At, HoldsNoOther, PreSpawn, StalePlace,
         TunnelPlace, CleanupPlace, TunnelCleanup, control, session, Thrown
<1>7. QuitAlone'
  BY <1>1, <1>2, TaskNames
     DEF Control, QuitAlone, Forcing, DaemonRecovers, Off, At, HoldsNoOther, TunnelCleanup,
         control, session, Thrown
<1>8. RecoveryRoles'
  BY <1>1, <1>2, TaskNames
     DEF Control, RecoveryRoles, SpawnPlace, At, TunnelCleanup, control, session, Thrown,
         TunnelPlace
<1>9. Handles'
  BY <1>1, <1>2, TaskNames
     DEF Control, Handles, TunnelCleanup, control, session, Thrown
<1> QED BY <1>3, <1>4, <1>5, <1>6, <1>7, <1>8, <1>9 DEF Control

LEMMA StartDaemonControl ==
  ASSUME Types, Types', Control, Patient, Patient', NEW t \in Tasks \ {"quit"}, StartDaemon(t)
  PROVE  Control'
<1>1. \/ /\ daemon # None /\ UNCHANGED <<proc, draining, handles, file>>
         /\ Goes(t, "daemon.resume") /\ task'[t].child = daemon
      \/ /\ daemon = None /\ daemon' \in Proc /\ Goes(t, "daemon.spawned") /\ task'[t].child = daemon'
  BY StartDaemonTypes
<1>2. daemon = None => /\ mine' = mine \cup {daemon'} /\ UNCHANGED <<restartable, expected, tunnel>>
                       /\ \A p \in Proc \ {daemon'} : proc'[p] = proc[p]
                       /\ proc'[daemon'] = "booting" /\ file'.own
  BY <1>1, MarkerType DEF StartDaemon, Types, HandleTypes, Spawned, Marker
<1>3. None \notin Proc
  BY SupervisorAssumption DEF SupervisorAssumption
<1>4. Down'
  BY <1>1, <1>2, <1>3, TaskNames
     DEF Control, Down, UpLife, Off, At, StartDaemon, control, session, handles, Goes
<1>5. Roles'
  BY <1>1, <1>2, <1>3, TaskNames
     DEF Control, Roles, DaemonRecovers, Off, At, StartDaemon, control, session, handles, Goes,
         RecoveryRoles, SpawnPlace
<1>6. StopAlone'
  BY <1>1, <1>2, <1>3, TaskNames
     DEF Control, StopAlone, Acting, Off, At, HoldsNoOther, StalePlace, StartDaemon, control,
         session, handles, Goes
<1>7. StartAlone'
  BY <1>1, <1>2, <1>3, TaskNames
     DEF Control, StartAlone, DaemonRecovers, Off, At, HoldsNoOther, PreSpawn, StalePlace,
         TunnelPlace, CleanupPlace, StartDaemon, control, session, handles, Goes, StopAlone,
         Acting, RecoveryRoles, SpawnPlace
<1>8. QuitAlone'
  BY <1>1, <1>2, <1>3, TaskNames
     DEF Control, QuitAlone, Forcing, DaemonRecovers, Off, At, HoldsNoOther, StartDaemon,
         control, session, handles, Goes, Roles, StartAlone, PreSpawn, RecoveryRoles, SpawnPlace
<1>9. RecoveryRoles'
  BY <1>1, <1>2, <1>3, TaskNames
     DEF Control, RecoveryRoles, SpawnPlace, At, StartDaemon, control, session, handles, Goes
<1>10. Handles'
  BY <1>1, <1>2, <1>3, TaskNames
     DEF Control, Handles, StartDaemon, control, session, handles, Goes, Types, HandleTypes
<1> QED BY <1>4, <1>5, <1>6, <1>7, <1>8, <1>9, <1>10 DEF Control

LEMMA ResumeDaemonControl ==
  ASSUME Types, Types', Control, Patient, Patient', NEW t \in Tasks \ {"quit"}, ResumeDaemon(t)
  PROVE  Control'
<1>1. (Goes(t, "daemon.existing") /\ UNCHANGED control) \/ Thrown(t)
  BY ResumeDaemonTypes, ThrowsMoves DEF ResumeDaemon, Types, HandleTypes, handles
<1>2. NoTask.at = "off"
  BY NoTaskIsOff
<1>3. UNCHANGED <<proc, handles, monitor, session>>
  BY DEF ResumeDaemon
<1>4. Down'
  BY <1>1, <1>2, <1>3, TaskNames
     DEF Control, Down, UpLife, Off, At, ResumeDaemon, control, session, machine, handles, Goes,
         Thrown
<1>5. Roles'
  BY <1>1, <1>2, <1>3, TaskNames
     DEF Control, Roles, DaemonRecovers, Off, At, ResumeDaemon, control, session, machine,
         handles, Goes, Thrown
<1>6. StopAlone'
  BY <1>1, <1>2, <1>3, TaskNames
     DEF Control, StopAlone, Acting, Off, At, HoldsNoOther, StalePlace, ResumeDaemon, control,
         session, machine, handles, Goes, Thrown
<1>7. StartAlone'
  BY <1>1, <1>2, <1>3, TaskNames
     DEF Control, StartAlone, DaemonRecovers, Off, At, HoldsNoOther, PreSpawn, StalePlace,
         TunnelPlace, CleanupPlace, ResumeDaemon, control, session, machine, handles, Goes, Thrown
<1>8. QuitAlone'
  BY <1>1, <1>2, <1>3, TaskNames
     DEF Control, QuitAlone, Forcing, DaemonRecovers, Off, At, HoldsNoOther, ResumeDaemon,
         control, session, machine, handles, Goes, Thrown
<1>9. RecoveryRoles'
  BY <1>1, <1>2, <1>3, TaskNames
     DEF Control, RecoveryRoles, SpawnPlace, At, ResumeDaemon, control, session, machine,
         handles, Goes, Thrown
<1>10. Handles'
  BY <1>1, <1>2, <1>3, TaskNames
     DEF Control, Handles, ResumeDaemon, control, session, machine, handles, Goes, Thrown
<1> QED BY <1>4, <1>5, <1>6, <1>7, <1>8, <1>9, <1>10 DEF Control

LEMMA WaitForProxyControl ==
  ASSUME Types, Types', Control, Patient, Patient', NEW t \in Tasks \ {"quit"}, WaitForProxy(t)
  PROVE  Control'
<1>1. \/ /\ AcceptsAs(t) /\ t = "start" /\ Becomes(t, NoTask)
         /\ restartable' = restartable \cup {daemon} /\ file'.own
         /\ UNCHANGED <<stopping, timers>> /\ op' = IF op = "starting" THEN "none" ELSE op
      \/ /\ AcceptsAs(t) /\ t # "start" /\ Goes(t, DaemonDone(t)) /\ UNCHANGED <<control, op>>
         /\ restartable' = restartable \cup {daemon}
      \/ /\ At(t, "daemon.spawned") /\ Goes(t, "daemon.kill") /\ UNCHANGED <<control, restartable, op>>
      \/ /\ At(t, "daemon.existing") /\ Thrown(t) /\ UNCHANGED <<restartable, op>>
  BY WaitForProxyTypes, ThrowsMoves, MarkerType DEF Types, HandleTypes, Marker
<1>2. NoTask.at = "off"
  BY NoTaskIsOff
<1>3. UNCHANGED <<proc, daemon, tunnel, expected, mine, monitor, life, pending>>
  BY DEF WaitForProxy, machine
<1>4. DaemonDone(t) = IF t = "stop" THEN "undo.ready" ELSE "recovered"
  BY DEF DaemonDone
<1>5. AcceptsAs(t) => daemon # None /\ proc[daemon] # "booting"
  BY DEF AcceptsAs, Accepting, Healthy
<1>6. At(t, "daemon.spawned") \/ At(t, "daemon.existing")
  BY DEF WaitForProxy, At
<1>7. Down'
  BY <1>1, <1>2, <1>3, <1>4, <1>5, <1>6, TaskNames
     DEF Control, Down, UpLife, Off, At, WaitForProxy, control, Goes, Becomes, Thrown
<1>8. Roles'
  BY <1>1, <1>2, <1>3, <1>4, <1>5, <1>6, TaskNames
     DEF Control, Roles, DaemonRecovers, Off, At, WaitForProxy, control, Goes, Becomes, Thrown,
         StopAlone, Acting, StartAlone, RecoveryRoles, SpawnPlace
<1>9. StopAlone'
  BY <1>1, <1>2, <1>3, <1>4, <1>5, <1>6, TaskNames
     DEF Control, StopAlone, Acting, Off, At, HoldsNoOther, StalePlace, WaitForProxy, control,
         Goes, Becomes, Thrown
<1>10. StartAlone'
  BY <1>1, <1>2, <1>3, <1>4, <1>5, <1>6, TaskNames
     DEF Control, StartAlone, DaemonRecovers, Off, At, HoldsNoOther, PreSpawn, StalePlace,
         TunnelPlace, CleanupPlace, WaitForProxy, control, Goes, Becomes, Thrown, Roles,
         StopAlone, Acting, RecoveryRoles, SpawnPlace
<1>11. QuitAlone'
  BY <1>1, <1>2, <1>3, <1>4, <1>5, <1>6, TaskNames
     DEF Control, QuitAlone, Forcing, DaemonRecovers, Off, At, HoldsNoOther, WaitForProxy,
         control, Goes, Becomes, Thrown, Roles, StopAlone, Acting, StartAlone, RecoveryRoles,
         SpawnPlace
<1>12. RecoveryRoles'
  BY <1>1, <1>2, <1>3, <1>4, <1>5, <1>6, TaskNames
     DEF Control, RecoveryRoles, SpawnPlace, At, WaitForProxy, control, Goes, Becomes, Thrown
<1>13. Handles'
  BY <1>1, <1>2, <1>3, <1>4, <1>5, <1>6, TaskNames
     DEF Control, Handles, WaitForProxy, control, Goes, Becomes, Thrown
<1> QED BY <1>7, <1>8, <1>9, <1>10, <1>11, <1>12, <1>13 DEF Control

LEMMA StopChildControl ==
  ASSUME Types, Types', Control, Patient, Patient', NEW t \in Tasks \ {"quit"}, StopChild(t)
  PROVE  Control'
<1>1. /\ daemon \in Proc
      /\ \/ At(t, "daemon.kill") /\ Goes(t, "daemon.killed")
         \/ At(t, "cleanup.kill") /\ t = "start" /\ Goes(t, "cleanup.killed")
      /\ task'[t].child = daemon
  BY StopChildTypes
<1>2. /\ expected' = expected \cup {daemon}
      /\ \A p \in Proc \ {daemon} : proc'[p] = proc[p]
      /\ proc'[daemon] = IF Alive(daemon) THEN "dead" ELSE proc[daemon]
  BY <1>1, TerminatesTypes DEF StopChild, Types
<1>3. proc[daemon] \in {"booting", "serving", "closing", "dead", "gone"} /\ daemon # None
  BY <1>1, SupervisorAssumption DEF Types, HandleTypes, SupervisorAssumption
<1>4. UNCHANGED <<daemon, tunnel, restartable, mine, control, monitor, session>>
  BY DEF StopChild
<1>5. Down'
  BY <1>1, <1>2, <1>3, <1>4, TaskNames
     DEF Control, Down, UpLife, Off, At, control, session, Goes
<1>6. Roles'
  BY <1>1, <1>2, <1>3, <1>4, TaskNames
     DEF Control, Roles, DaemonRecovers, Off, At, control, session, Goes
<1>7. StopAlone'
  BY <1>1, <1>2, <1>3, <1>4, TaskNames
     DEF Control, StopAlone, Acting, Off, At, HoldsNoOther, StalePlace, control, session, Goes
<1>8. StartAlone'
  BY <1>1, <1>2, <1>3, <1>4, TaskNames
     DEF Control, StartAlone, DaemonRecovers, Off, At, HoldsNoOther, PreSpawn, StalePlace,
         TunnelPlace, CleanupPlace, control, session, Goes
<1>9. QuitAlone'
  BY <1>1, <1>2, <1>3, <1>4, TaskNames
     DEF Control, QuitAlone, Forcing, DaemonRecovers, Off, At, HoldsNoOther, control, session,
         Goes
<1>10. RecoveryRoles'
  BY <1>1, <1>2, <1>3, <1>4, TaskNames
     DEF Control, RecoveryRoles, SpawnPlace, At, control, session, Goes
<1>11. Handles'
  BY <1>1, <1>2, <1>3, <1>4, TaskNames
     DEF Control, Handles, control, session, Goes, Types, HandleTypes, Alive
<1> QED BY <1>5, <1>6, <1>7, <1>8, <1>9, <1>10, <1>11 DEF Control

LEMMA ChildStoppedControl ==
  ASSUME Types, Types', Control, Patient, Patient', NEW t \in Tasks \ {"quit"}, ChildStopped(t)
  PROVE  Control'
<1>1. \/ task[t].at \in {"daemon.kill", "daemon.killed"} /\ Thrown(t)
      \/ /\ t = "start" /\ task[t].at \in {"cleanup.kill", "cleanup.killed"}
         /\ Goes(t, "cleanup.tunnel") /\ UNCHANGED control
  BY ChildStoppedTypes, ThrowsMoves DEF ChildStopped, Types, HandleTypes
<1>2. NoTask.at = "off"
  BY NoTaskIsOff
<1>3. UNCHANGED <<machine, handles, monitor, session>>
  BY DEF ChildStopped, handles
<1>4. \/ task[t].at \in {"daemon.kill", "cleanup.kill"} /\ daemon = None
      \/ task[t].at \in {"daemon.killed", "cleanup.killed"} /\ proc[task[t].child] = "gone"
  BY DEF ChildStopped
<1>5. Down'
  BY <1>1, <1>2, <1>3, <1>4, TaskNames
     DEF Control, Down, UpLife, Off, At, ChildStopped, control, session, machine, handles, Goes,
         Thrown
<1>6. Roles'
  BY <1>1, <1>2, <1>3, <1>4, TaskNames
     DEF Control, Roles, DaemonRecovers, Off, At, ChildStopped, control, session, machine,
         handles, Goes, Thrown
<1>7. StopAlone'
  BY <1>1, <1>2, <1>3, <1>4, TaskNames
     DEF Control, StopAlone, Acting, Off, At, HoldsNoOther, StalePlace, ChildStopped, control,
         session, machine, handles, Goes, Thrown
<1>8. StartAlone'
  BY <1>1, <1>2, <1>3, <1>4, TaskNames
     DEF Control, StartAlone, DaemonRecovers, Off, At, HoldsNoOther, PreSpawn, StalePlace,
         TunnelPlace, CleanupPlace, ChildStopped, control, session, machine, handles, Goes,
         Thrown, Roles, StopAlone, Acting, RecoveryRoles, SpawnPlace, Handles
<1>9. QuitAlone'
  BY <1>1, <1>2, <1>3, <1>4, TaskNames
     DEF Control, QuitAlone, Forcing, DaemonRecovers, Off, At, HoldsNoOther, ChildStopped,
         control, session, machine, handles, Goes, Thrown, Roles, StopAlone, Acting, StartAlone,
         RecoveryRoles, SpawnPlace, Handles
<1>10. RecoveryRoles'
  BY <1>1, <1>2, <1>3, <1>4, TaskNames
     DEF Control, RecoveryRoles, SpawnPlace, At, ChildStopped, control, session, machine,
         handles, Goes, Thrown
<1>11. Handles'
  BY <1>1, <1>2, <1>3, <1>4, TaskNames
     DEF Control, Handles, ChildStopped, control, session, machine, handles, Goes, Thrown
<1> QED BY <1>5, <1>6, <1>7, <1>8, <1>9, <1>10, <1>11 DEF Control

\* A stop that settles leaves nothing running; one that succeeds leaves no daemon.
LEMMA StopSettlesControl ==
  ASSUME Types, Types', Control, NEW ok \in BOOLEAN, NEW status, StopSettles(ok, status), Acting,
         ok \/ status \in {"ready", "failed"}, ok => daemon = None, UNCHANGED daemon,
         UNCHANGED <<proc, restartable, expected, mine, life, pending>>
  PROVE  Control'
<1>1. /\ op' = IF op # "stopping" THEN op ELSE IF ok THEN "between" ELSE "none"
      /\ task'["stop"] = NoTask /\ \A r \in Recoveries : task'[r] = task[r]
      /\ ~At("start", "wait") => task'["start"] = task["start"]
      /\ task'["quit"].at = IF ~At("quit", "stop") THEN task["quit"].at
                            ELSE IF ok THEN "exit" ELSE "force.recovery"
      /\ task'["quit"].child = task["quit"].child
      /\ At("quit", "stop") /\ ~ok => stopping' = TRUE /\ monitor' = FALSE /\ timers' = {}
      /\ ~At("quit", "stop") \/ ok => stopping' = FALSE /\ UNCHANGED <<monitor, timers>>
      /\ timers' \subseteq timers
  BY StopSettlesMoves DEF Types, HandleTypes
<1>2. NoTask.at = "off"
  BY NoTaskIsOff
<1>3. task'["start"] = task["start"] /\ Off("start") /\ timers = {} /\ \A r \in Recoveries : Off(r)
  BY <1>1 DEF Control, Roles, StopAlone
<1>4. Down'
  BY <1>1, <1>2, <1>3, TaskNames
     DEF Control, Down, UpLife, Off, At, Acting
<1>5. Roles'
  BY <1>1, <1>2, <1>3, TaskNames
     DEF Control, Roles, DaemonRecovers, Off, At, Acting
<1>6. StopAlone'
  BY <1>1, <1>2, <1>3, TaskNames
     DEF Control, StopAlone, Acting, Off, At, HoldsNoOther, StalePlace
<1>7. StartAlone'
  BY <1>1, <1>2, <1>3, TaskNames
     DEF Control, StartAlone, DaemonRecovers, Off, At, HoldsNoOther, PreSpawn, StalePlace,
         TunnelPlace, CleanupPlace, Acting
<1>8. QuitAlone'
  BY <1>1, <1>2, <1>3, TaskNames
     DEF Control, QuitAlone, Forcing, DaemonRecovers, Off, At, HoldsNoOther, Acting, Roles
<1>9. RecoveryRoles'
  BY <1>1, <1>2, <1>3, TaskNames
     DEF Control, RecoveryRoles, SpawnPlace, At, Acting
<1>10. Handles'
  BY <1>1, <1>2, <1>3, TaskNames
     DEF Control, Handles, Acting
<1> QED BY <1>4, <1>5, <1>6, <1>7, <1>8, <1>9, <1>10 DEF Control

LEMMA StaleDoneControl ==
  ASSUME Types, Types', Control, NEW t \in {"start", "stop"}, StaleDone(t), task[t].at \in StalePlace,
         UNCHANGED <<proc, restartable, expected, mine, life, pending>>
  PROVE  Control'
<1>1. CASE t = "stop"
  <2>1. StopSettles(TRUE, "none") /\ UNCHANGED daemon
    BY <1>1, StaleDoneMoves
  <2>2. Acting /\ daemon = None
    BY <1>1 DEF Acting, Control, StopAlone, StalePlace
  <2> QED BY <2>1, <2>2, StopSettlesControl
<1>2. CASE t = "start"
  <2>1. /\ Goes("start", EnterStart) /\ stopping' = FALSE /\ file' = NoMarker
        /\ UNCHANGED <<timers, monitor, op, daemon, tunnel>>
    BY <1>2, StaleDoneMoves
  <2>2. EnterStart \in {"tunnel.status", "daemon"}
    BY DEF EnterStart
  <2>3. task["start"].at \in StalePlace
    BY <1>2
  <2>4. Down'
    BY <2>1, <2>2, <2>3, TaskNames
       DEF Control, Down, UpLife, Off, At, Goes, StalePlace
  <2>5. Roles'
    BY <2>1, <2>2, <2>3, TaskNames
       DEF Control, Roles, DaemonRecovers, Off, At, Goes, StalePlace
  <2>6. StopAlone'
    BY <2>1, <2>2, <2>3, TaskNames
       DEF Control, StopAlone, Acting, Off, At, HoldsNoOther, StalePlace, Goes
  <2>7. StartAlone'
    BY <2>1, <2>2, <2>3, TaskNames
       DEF Control, StartAlone, DaemonRecovers, Off, At, HoldsNoOther, PreSpawn, StalePlace,
           TunnelPlace, CleanupPlace, Goes
  <2>8. QuitAlone'
    BY <2>1, <2>2, <2>3, TaskNames
       DEF Control, QuitAlone, Forcing, DaemonRecovers, Off, At, HoldsNoOther, Goes, StalePlace,
           StartAlone, PreSpawn
  <2>9. RecoveryRoles'
    BY <2>1, <2>2, <2>3, TaskNames
       DEF Control, RecoveryRoles, SpawnPlace, At, Goes, StalePlace
  <2>10. Handles'
    BY <2>1, <2>2, <2>3, TaskNames
       DEF Control, Handles, Goes, StalePlace
  <2> QED BY <2>4, <2>5, <2>6, <2>7, <2>8, <2>9, <2>10 DEF Control
<1> QED BY <1>1, <1>2

LEMMA StaleFailsControl ==
  ASSUME Types, Types', Control, NEW t \in {"start", "stop"}, StaleFails(t), task[t].at \in StalePlace,
         UNCHANGED <<proc, restartable, expected, mine, life, pending>>
  PROVE  Control'
<1>1. /\ UNCHANGED <<daemon, tunnel, monitor, stopping, timers>>
      /\ \/ t = "stop" /\ Goes("stop", "undo.ready") /\ UNCHANGED <<file, op>>
         \/ /\ t = "start" /\ Becomes("start", NoTask) /\ op' = IF op = "starting" THEN "none" ELSE op
  BY StaleFailsMoves
<1>2. NoTask.at = "off"
  BY NoTaskIsOff
<1>3. Down'
  BY <1>1, <1>2, TaskNames
     DEF Control, Down, UpLife, Off, At, Goes, Becomes, StalePlace
<1>4. Roles'
  BY <1>1, <1>2, TaskNames
     DEF Control, Roles, DaemonRecovers, Off, At, Goes, Becomes, StalePlace
<1>5. StopAlone'
  BY <1>1, <1>2, TaskNames
     DEF Control, StopAlone, Acting, Off, At, HoldsNoOther, StalePlace, Goes, Becomes
<1>6. StartAlone'
  BY <1>1, <1>2, TaskNames
     DEF Control, StartAlone, DaemonRecovers, Off, At, HoldsNoOther, PreSpawn, StalePlace,
         TunnelPlace, CleanupPlace, Goes, Becomes
<1>7. QuitAlone'
  BY <1>1, <1>2, TaskNames
     DEF Control, QuitAlone, Forcing, DaemonRecovers, Off, At, HoldsNoOther, Goes, Becomes,
         StalePlace
<1>8. RecoveryRoles'
  BY <1>1, <1>2, TaskNames
     DEF Control, RecoveryRoles, SpawnPlace, At, Goes, Becomes, StalePlace
<1>9. Handles'
  BY <1>1, <1>2, TaskNames
     DEF Control, Handles, Goes, Becomes, StalePlace
<1> QED BY <1>3, <1>4, <1>5, <1>6, <1>7, <1>8, <1>9 DEF Control

\* A drain, a shutdown or an exit that fails; a failed start never gets there with a daemon.
LEMMA FailsControl ==
  ASSUME Types, Types', Control, NEW t \in Tasks \ {"quit"}, Fails(t), task[t].at \in EndPlace,
         UNCHANGED <<proc, restartable, expected, mine, life, pending>>
  PROVE  Control'
<1>1. CASE task[t].at \in StaleWait
  <2>1. t \in {"start", "stop"} /\ StaleFails(t) /\ task[t].at \in StalePlace
    BY <1>1, FailsMoves DEF StaleWait, StalePlace
  <2> QED BY <2>1, StaleFailsControl
<1>2. CASE task[t].at \notin StaleWait /\ t = "start"
  BY <1>2, EndTasks DEF Control, StartAlone, EndPlace
<1>3. CASE task[t].at \notin StaleWait /\ t = "stop"
  <2>1. /\ UNCHANGED <<daemon, tunnel, monitor, control, op>>
        /\ \E label \in {"tunnel.status", "undo.daemon", "undo.ready"} : Goes("stop", label)
    BY <1>3, FailsMoves, UndoMoves DEF Types
  <2>2. task["stop"].at \in EndPlace
    BY <1>3
  <2>3. Down'
    BY <2>1, <2>2, TaskNames
       DEF Control, Down, UpLife, Off, At, Goes, control, EndPlace, StaleWait
  <2>4. Roles'
    BY <2>1, <2>2, TaskNames
       DEF Control, Roles, DaemonRecovers, Off, At, Goes, control, EndPlace, StaleWait
  <2>5. StopAlone'
    BY <2>1, <2>2, TaskNames
       DEF Control, StopAlone, Acting, Off, At, HoldsNoOther, StalePlace, Goes, control,
           EndPlace, StaleWait
  <2>6. StartAlone'
    BY <2>1, <2>2, TaskNames
       DEF Control, StartAlone, DaemonRecovers, Off, At, HoldsNoOther, PreSpawn, StalePlace,
           TunnelPlace, CleanupPlace, Goes, control, EndPlace, StaleWait
  <2>7. QuitAlone'
    BY <2>1, <2>2, TaskNames
       DEF Control, QuitAlone, Forcing, DaemonRecovers, Off, At, HoldsNoOther, Goes, control,
           EndPlace, StaleWait
  <2>8. RecoveryRoles'
    BY <2>1, <2>2, TaskNames
       DEF Control, RecoveryRoles, SpawnPlace, At, Goes, control, EndPlace, StaleWait
  <2>9. Handles'
    BY <2>1, <2>2, TaskNames
       DEF Control, Handles, Goes, control, EndPlace, StaleWait
  <2> QED BY <2>3, <2>4, <2>5, <2>6, <2>7, <2>8, <2>9 DEF Control
<1> QED BY <1>1, <1>2, <1>3, FailsMoves

LEMMA StaleInspectsControl ==
  ASSUME Types, Types', Control, Patient, Patient', NEW t \in Tasks \ {"quit"}, StaleInspects(t)
  PROVE  Control'
<1>1. /\ t \in {"start", "stop"}
      /\ \/ StaleDone(t)
         \/ StaleFails(t)
         \/ /\ \E label \in {"stale.drain", "stale.tunnel"} : Goes(t, label)
            /\ UNCHANGED <<daemon, tunnel, monitor, op, control>>
  BY StaleInspectsTypes
<1>2. At(t, "stale") /\ task[t].at \in StalePlace
      /\ UNCHANGED <<proc, restartable, expected, mine, life, pending>>
  BY DEF StaleInspects, At, StalePlace, machine
<1>3. CASE StaleDone(t) \/ StaleFails(t)
  BY <1>1, <1>2, <1>3, StaleDoneControl, StaleFailsControl
<1>4. CASE /\ \E label \in {"stale.drain", "stale.tunnel"} : Goes(t, label)
           /\ UNCHANGED <<daemon, tunnel, monitor, op, control>>
  <2>1. Down'
    BY <1>1, <1>2, <1>4, TaskNames
       DEF Control, Down, UpLife, Off, At, Goes, control
  <2>2. Roles'
    BY <1>1, <1>2, <1>4, TaskNames
       DEF Control, Roles, DaemonRecovers, Off, At, Goes, control
  <2>3. StopAlone'
    BY <1>1, <1>2, <1>4, TaskNames
       DEF Control, StopAlone, Acting, Off, At, HoldsNoOther, StalePlace, Goes, control
  <2>4. StartAlone'
    BY <1>1, <1>2, <1>4, TaskNames
       DEF Control, StartAlone, DaemonRecovers, Off, At, HoldsNoOther, PreSpawn, StalePlace,
           TunnelPlace, CleanupPlace, Goes, control
  <2>5. QuitAlone'
    BY <1>1, <1>2, <1>4, TaskNames
       DEF Control, QuitAlone, Forcing, DaemonRecovers, Off, At, HoldsNoOther, Goes, control
  <2>6. RecoveryRoles'
    BY <1>1, <1>2, <1>4, TaskNames
       DEF Control, RecoveryRoles, SpawnPlace, At, Goes, control
  <2>7. Handles'
    BY <1>1, <1>2, <1>4, TaskNames
       DEF Control, Handles, Goes, control
  <2> QED BY <2>1, <2>2, <2>3, <2>4, <2>5, <2>6, <2>7 DEF Control
<1> QED BY <1>1, <1>3, <1>4

LEMMA StaleTunnelControl ==
  ASSUME Types, Types', Control, Patient, Patient', NEW t \in Tasks \ {"quit"}, StaleTunnel(t)
  PROVE  Control'
<1>1. t \in {"start", "stop"} /\ task[t].at \in StalePlace
  BY StaleTasks DEF StaleTunnel, At, StalePlace
<1>2. /\ UNCHANGED <<proc, restartable, expected, mine, life, pending>>
      /\ StaleDone(t) \/ StaleFails(t)
  BY DEF StaleTunnel
<1> QED BY <1>1, <1>2, StaleDoneControl, StaleFailsControl

LEMMA DrainControl ==
  ASSUME Types, Types', Control, Patient, Patient', NEW t \in Tasks \ {"quit"}, Drain(t)
  PROVE  Control'
<1>1. /\ t \in {"start", "stop"} /\ task[t].at \in EndPlace
      /\ \/ Goes(t, DrainLabel(t)) /\ UNCHANGED <<control, daemon, tunnel, monitor, op>>
         \/ UNCHANGED <<task, control, daemon, tunnel, monitor, op>>
         \/ Fails(t)
  BY DrainTypes
<1>2. UNCHANGED <<proc, busy, alias, restartable, expected, mine, life, pending>>
  BY DEF Drain
<1>3. CASE Fails(t)
  BY <1>1, <1>2, <1>3, FailsControl
<1>4. CASE UNCHANGED <<task, control, daemon, tunnel, monitor, op>>
  <2>1. Down'
    BY <1>2, <1>4, TaskNames
       DEF Control, Down, UpLife, Off, At, control
  <2>2. Roles'
    BY <1>2, <1>4, TaskNames
       DEF Control, Roles, DaemonRecovers, Off, At, control
  <2>3. StopAlone'
    BY <1>2, <1>4, TaskNames
       DEF Control, StopAlone, Acting, Off, At, HoldsNoOther, StalePlace, control
  <2>4. StartAlone'
    BY <1>2, <1>4, TaskNames
       DEF Control, StartAlone, DaemonRecovers, Off, At, HoldsNoOther, PreSpawn, StalePlace,
           TunnelPlace, CleanupPlace, control
  <2>5. QuitAlone'
    BY <1>2, <1>4, TaskNames
       DEF Control, QuitAlone, Forcing, DaemonRecovers, Off, At, HoldsNoOther, control
  <2>6. RecoveryRoles'
    BY <1>2, <1>4, TaskNames
       DEF Control, RecoveryRoles, SpawnPlace, At, control
  <2>7. Handles'
    BY <1>2, <1>4, TaskNames
       DEF Control, Handles, control
  <2> QED BY <2>1, <2>2, <2>3, <2>4, <2>5, <2>6, <2>7 DEF Control
<1>5. CASE Goes(t, DrainLabel(t)) /\ UNCHANGED <<control, daemon, tunnel, monitor, op>>
  <2>1. At(t, "stale.drain") \/ At(t, "stop.drain")
    BY <1>1, EndTasks DEF Drain, At, Control, StartAlone
  <2>2. At(t, "stop.drain") => t = "stop"
    BY <1>1, EndTasks DEF At
  <2>3. DrainLabel(t) = IF At(t, "stale.drain") THEN "stale.shutdown" ELSE "stop.tunnel"
    BY <2>1 DEF DrainLabel, At
  <2>4. Down'
    BY <1>1, <1>2, <1>5, <2>1, <2>2, <2>3, TaskNames
       DEF Control, Down, UpLife, Off, At, control, Goes
  <2>5. Roles'
    BY <1>1, <1>2, <1>5, <2>1, <2>2, <2>3, TaskNames
       DEF Control, Roles, DaemonRecovers, Off, At, control, Goes
  <2>6. StopAlone'
    BY <1>1, <1>2, <1>5, <2>1, <2>2, <2>3, TaskNames
       DEF Control, StopAlone, Acting, Off, At, HoldsNoOther, StalePlace, control, Goes
  <2>7. StartAlone'
    BY <1>1, <1>2, <1>5, <2>1, <2>2, <2>3, TaskNames
       DEF Control, StartAlone, DaemonRecovers, Off, At, HoldsNoOther, PreSpawn, StalePlace,
           TunnelPlace, CleanupPlace, control, Goes
  <2>8. QuitAlone'
    BY <1>1, <1>2, <1>5, <2>1, <2>2, <2>3, TaskNames
       DEF Control, QuitAlone, Forcing, DaemonRecovers, Off, At, HoldsNoOther, control, Goes
  <2>9. RecoveryRoles'
    BY <1>1, <1>2, <1>5, <2>1, <2>2, <2>3, TaskNames
       DEF Control, RecoveryRoles, SpawnPlace, At, control, Goes
  <2>10. Handles'
    BY <1>1, <1>2, <1>5, <2>1, <2>2, <2>3, TaskNames
       DEF Control, Handles, control, Goes
  <2> QED BY <2>4, <2>5, <2>6, <2>7, <2>8, <2>9, <2>10 DEF Control
<1> QED BY <1>1, <1>3, <1>4, <1>5

\* A daemon that shuts down was serving or closing, and is not expected to be dead.
LEMMA ShutdownControl ==
  ASSUME Types, Types', Control, Patient, Patient', NEW t \in Tasks \ {"quit"}, Shutdown(t)
  PROVE  Control'
<1>1. /\ t \in {"start", "stop"} /\ task[t].at \in EndPlace
      /\ \/ /\ \E p \in Targets(t) : task'[t].child = p /\ proc' = [proc EXCEPT ![p] = "closing"]
            /\ Goes(t, ShutdownLabel(t)) /\ UNCHANGED <<control, daemon, tunnel, monitor, op>>
         \/ Fails(t) /\ UNCHANGED proc
  BY ShutdownTypes
<1>2. UNCHANGED <<busy, alias, restartable, expected, mine, life, pending>>
  BY DEF Shutdown
<1>3. CASE Fails(t) /\ UNCHANGED proc
  BY <1>1, <1>2, <1>3, FailsControl
<1>4. CASE /\ Goes(t, ShutdownLabel(t)) /\ UNCHANGED <<control, daemon, tunnel, monitor, op>>
           /\ \E p \in Targets(t) : task'[t].child = p /\ proc' = [proc EXCEPT ![p] = "closing"]
  <2>1. At(t, "stale.shutdown") \/ At(t, "stop.shutdown")
    BY <1>1, EndTasks DEF Shutdown, At, Control, StartAlone
  <2>2. At(t, "stop.shutdown") => t = "stop"
    BY <1>1, EndTasks DEF At
  <2>3. ShutdownLabel(t) = IF At(t, "stale.shutdown") THEN "stale.exit" ELSE "stop.exit"
    BY <2>1 DEF ShutdownLabel, At
  <2>4. PICK p \in Targets(t) : task'[t].child = p /\ proc' = [proc EXCEPT ![p] = "closing"]
    BY <1>4
  <2>5. p \in Proc /\ Healthy(p) /\ (At(t, "stop.shutdown") => p = daemon)
    BY DEF Targets, Listening, At
  <2>6. /\ \A q \in Proc \ {p} : proc'[q] = proc[q]
        /\ proc'[p] = "closing" /\ proc[p] \in {"serving", "closing"}
    BY <2>4, <2>5 DEF Types, HandleTypes, Healthy
  <2>7. /\ t \in {"start", "stop"} /\ Goes(t, ShutdownLabel(t)) /\ task'[t].child = p
        /\ UNCHANGED <<control, daemon, tunnel, monitor, op, restartable, expected, mine, life, pending>>
    BY <1>1, <1>2, <1>4, <2>4
  <2>8. /\ task'["quit"] = task["quit"] /\ \A r \in Recoveries : task'[r] = task[r]
        /\ \/ /\ At("start", "stale.shutdown") /\ task'["start"].at = "stale.exit"
              /\ task'["stop"] = task["stop"]
           \/ /\ At("stop", "stale.shutdown") /\ task'["stop"].at = "stale.exit"
              /\ task'["start"] = task["start"]
           \/ /\ At("stop", "stop.shutdown") /\ task'["stop"].at = "stop.exit" /\ task'["stop"].child = p
              /\ task'["start"] = task["start"] /\ p = daemon
    BY <2>1, <2>2, <2>3, <2>5, <2>7, TaskNames DEF Goes, At
  <2>9. Down'
    BY <2>5, <2>6, <2>7, <2>8, TaskNames
       DEF Control, Down, UpLife, Off, At, control
  <2>10. Roles'
    BY <2>5, <2>6, <2>7, <2>8, TaskNames
       DEF Control, Roles, DaemonRecovers, Off, At, control
  <2>11. StopAlone'
    BY <2>5, <2>6, <2>7, <2>8, TaskNames
       DEF Control, StopAlone, Acting, Off, At, HoldsNoOther, StalePlace, control
  <2>12. StartAlone'
    BY <2>5, <2>6, <2>7, <2>8, TaskNames
       DEF Control, StartAlone, DaemonRecovers, Off, At, HoldsNoOther, PreSpawn, StalePlace,
           TunnelPlace, CleanupPlace, control
  <2>13. QuitAlone'
    BY <2>5, <2>6, <2>7, <2>8, TaskNames
       DEF Control, QuitAlone, Forcing, DaemonRecovers, Off, At, HoldsNoOther, control
  <2>14. RecoveryRoles'
    BY <2>5, <2>6, <2>7, <2>8, TaskNames
       DEF Control, RecoveryRoles, SpawnPlace, At, control
  <2>15. Handles'
    BY <2>5, <2>6, <2>7, <2>8, TaskNames
       DEF Control, Handles, control, Types, HandleTypes
  <2> QED BY <2>9, <2>10, <2>11, <2>12, <2>13, <2>14, <2>15 DEF Control
<1> QED BY <1>1, <1>3, <1>4

LEMMA AwaitExitControl ==
  ASSUME Types, Types', Control, Patient, Patient', NEW t \in Tasks \ {"quit"}, AwaitExit(t)
  PROVE  Control'
<1>1. /\ t \in {"start", "stop"} /\ task[t].at \in EndPlace
      /\ \/ At(t, "stale.exit") /\ Goes(t, "stale.tunnel") /\ UNCHANGED <<daemon, tunnel, monitor, op, control>>
         \/ /\ At(t, "stop.exit") /\ t = "stop" /\ daemon' = None /\ StopSettles(TRUE, "none")
            /\ proc[task[t].child] = "gone"
         \/ At(t, "cleanup.exit") /\ t = "start"
         \/ Fails(t)
  BY AwaitExitTypes
<1>2. UNCHANGED <<proc, busy, alias, restartable, expected, mine, life, pending>>
  BY DEF AwaitExit
<1>3. CASE Fails(t)
  BY <1>1, <1>2, <1>3, FailsControl
<1>4. CASE At(t, "cleanup.exit") /\ t = "start"
  BY <1>4 DEF Control, StartAlone, At
<1>5. CASE /\ At(t, "stop.exit") /\ t = "stop" /\ daemon' = None /\ StopSettles(TRUE, "none")
           /\ proc[task[t].child] = "gone"
  <2>1. Acting
    BY <1>5 DEF Acting, At
  <2>2. daemon = None
    BY <1>5 DEF Control, StopAlone, HoldsNoOther, Handles, At
  <2> QED BY <1>2, <1>5, <2>1, <2>2, StopSettlesControl
<1>6. CASE At(t, "stale.exit") /\ Goes(t, "stale.tunnel") /\ UNCHANGED <<daemon, tunnel, monitor, op, control>>
  <2>1. Down'
    BY <1>1, <1>2, <1>6, TaskNames
       DEF Control, Down, UpLife, Off, At, control, Goes
  <2>2. Roles'
    BY <1>1, <1>2, <1>6, TaskNames
       DEF Control, Roles, DaemonRecovers, Off, At, control, Goes
  <2>3. StopAlone'
    BY <1>1, <1>2, <1>6, TaskNames
       DEF Control, StopAlone, Acting, Off, At, HoldsNoOther, StalePlace, control, Goes
  <2>4. StartAlone'
    BY <1>1, <1>2, <1>6, TaskNames
       DEF Control, StartAlone, DaemonRecovers, Off, At, HoldsNoOther, PreSpawn, StalePlace,
           TunnelPlace, CleanupPlace, control, Goes
  <2>5. QuitAlone'
    BY <1>1, <1>2, <1>6, TaskNames
       DEF Control, QuitAlone, Forcing, DaemonRecovers, Off, At, HoldsNoOther, control, Goes
  <2>6. RecoveryRoles'
    BY <1>1, <1>2, <1>6, TaskNames
       DEF Control, RecoveryRoles, SpawnPlace, At, control, Goes
  <2>7. Handles'
    BY <1>1, <1>2, <1>6, TaskNames
       DEF Control, Handles, control, Goes
  <2> QED BY <2>1, <2>2, <2>3, <2>4, <2>5, <2>6, <2>7 DEF Control
<1> QED BY <1>1, <1>3, <1>4, <1>5, <1>6

LEMMA StartupStartsControl ==
  ASSUME Types, Types', Control, Patient, Patient', StartupStarts
  PROVE  Control'
<1>1. /\ life = "up" /\ pending /\ pending' = FALSE
      /\ UNCHANGED <<machine, handles, control, monitor, life, op>>
  BY DEF StartupStarts, Patient
<1>2. /\ \A t \in Tasks : Off(t)
      /\ daemon = None /\ ~tunnel /\ ~monitor /\ ~stopping /\ timers = {} /\ op = "none"
  BY <1>1 DEF Control, Down
<1>3. Goes("start", "probe")
  BY <1>2, RequestStartMoves, TaskNames DEF StartupStarts, Off, At, Running, Types
<1>4. restartable = {} /\ expected = {} /\ mine = {} /\ ~DaemonRecovers
  BY <1>2, TaskNames DEF Control, Handles, DaemonRecovers, Off
<1>5. Down'
  BY <1>1, <1>2, <1>3, <1>4, TaskNames
     DEF Control, Down, UpLife, Off, At, machine, handles, control, Goes
<1>6. Roles'
  BY <1>1, <1>2, <1>3, <1>4, TaskNames
     DEF Control, Roles, DaemonRecovers, Off, At, machine, handles, control, Goes
<1>7. StopAlone'
  BY <1>1, <1>2, <1>3, <1>4, TaskNames
     DEF Control, StopAlone, Acting, Off, At, HoldsNoOther, StalePlace, machine, handles,
         control, Goes
<1>8. StartAlone'
  BY <1>1, <1>2, <1>3, <1>4, TaskNames
     DEF Control, StartAlone, DaemonRecovers, Off, At, HoldsNoOther, PreSpawn, StalePlace,
         TunnelPlace, CleanupPlace, machine, handles, control, Goes
<1>9. QuitAlone'
  BY <1>1, <1>2, <1>3, <1>4, TaskNames
     DEF Control, QuitAlone, Forcing, DaemonRecovers, Off, At, HoldsNoOther, machine, handles,
         control, Goes
<1>10. RecoveryRoles'
  BY <1>1, <1>2, <1>3, <1>4, TaskNames
     DEF Control, RecoveryRoles, SpawnPlace, At, machine, handles, control, Goes
<1>11. Handles'
  BY <1>1, <1>2, <1>3, <1>4, TaskNames
     DEF Control, Handles, machine, handles, control, Goes
<1> QED BY <1>5, <1>6, <1>7, <1>8, <1>9, <1>10, <1>11 DEF Control

LEMMA StartProbesControl ==
  ASSUME Types, Types', Control, Patient, Patient', StartProbes
  PROVE  Control'
<1>1. /\ \/ Goes("start", "stale") /\ UNCHANGED control
         \/ Goes("start", EnterStart) /\ stopping' = FALSE /\ UNCHANGED <<timers, attempts, file>>
      /\ UNCHANGED <<machine, handles, monitor, session>> /\ At("start", "probe")
  BY StartProbesTypes DEF StartProbes
<1>2. EnterStart \in {"tunnel.status", "daemon"}
  BY DEF EnterStart
<1>3. Down'
  BY <1>1, <1>2, TaskNames
     DEF Control, Down, UpLife, Off, At, machine, handles, control, session, Goes
<1>4. Roles'
  BY <1>1, <1>2, TaskNames
     DEF Control, Roles, DaemonRecovers, Off, At, machine, handles, control, session, Goes
<1>5. StopAlone'
  BY <1>1, <1>2, TaskNames
     DEF Control, StopAlone, Acting, Off, At, HoldsNoOther, StalePlace, machine, handles,
         control, session, Goes
<1>6. StartAlone'
  BY <1>1, <1>2, TaskNames
     DEF Control, StartAlone, DaemonRecovers, Off, At, HoldsNoOther, PreSpawn, StalePlace,
         TunnelPlace, CleanupPlace, machine, handles, control, session, Goes
<1>7. QuitAlone'
  BY <1>1, <1>2, TaskNames
     DEF Control, QuitAlone, Forcing, DaemonRecovers, Off, At, HoldsNoOther, machine, handles,
         control, session, Goes, StartAlone, PreSpawn
<1>8. RecoveryRoles'
  BY <1>1, <1>2, TaskNames
     DEF Control, RecoveryRoles, SpawnPlace, At, machine, handles, control, session, Goes
<1>9. Handles'
  BY <1>1, <1>2, TaskNames
     DEF Control, Handles, machine, handles, control, session, Goes
<1> QED BY <1>3, <1>4, <1>5, <1>6, <1>7, <1>8, <1>9 DEF Control

LEMMA CleanupBeginsControl ==
  ASSUME Types, Types', Control, Patient, Patient', CleanupBegins
  PROVE  Control'
<1>1. At("start", "cleanup") /\ UNCHANGED <<machine, handles, monitor, session>>
  BY DEF CleanupBegins
<1>2. daemon = None
  BY <1>1 DEF Control, StartAlone, CleanupPlace, At
<1>3. Goes("start", "cleanup.tunnel") /\ UNCHANGED control
  BY <1>2, CleanupBeginsTypes
<1>4. Down'
  BY <1>1, <1>2, <1>3, TaskNames
     DEF Control, Down, UpLife, Off, At, machine, handles, control, session, Goes
<1>5. Roles'
  BY <1>1, <1>2, <1>3, TaskNames
     DEF Control, Roles, DaemonRecovers, Off, At, machine, handles, control, session, Goes
<1>6. StopAlone'
  BY <1>1, <1>2, <1>3, TaskNames
     DEF Control, StopAlone, Acting, Off, At, HoldsNoOther, StalePlace, machine, handles,
         control, session, Goes
<1>7. StartAlone'
  BY <1>1, <1>2, <1>3, TaskNames
     DEF Control, StartAlone, DaemonRecovers, Off, At, HoldsNoOther, PreSpawn, StalePlace,
         TunnelPlace, CleanupPlace, machine, handles, control, session, Goes
<1>8. QuitAlone'
  BY <1>1, <1>2, <1>3, TaskNames
     DEF Control, QuitAlone, Forcing, DaemonRecovers, Off, At, HoldsNoOther, machine, handles,
         control, session, Goes
<1>9. RecoveryRoles'
  BY <1>1, <1>2, <1>3, TaskNames
     DEF Control, RecoveryRoles, SpawnPlace, At, machine, handles, control, session, Goes
<1>10. Handles'
  BY <1>1, <1>2, <1>3, TaskNames
     DEF Control, Handles, machine, handles, control, session, Goes
<1> QED BY <1>4, <1>5, <1>6, <1>7, <1>8, <1>9, <1>10 DEF Control

LEMMA CleanupTunnelControl ==
  ASSUME Types, Types', Control, Patient, Patient', CleanupTunnel
  PROVE  Control'
<1>1. /\ At("start", "cleanup.tunnel")
      /\ UNCHANGED <<daemon, proc, busy, draining, restartable, expected, mine, life, pending>>
  BY DEF CleanupTunnel
<1>2. /\ Becomes("start", NoTask) /\ stopping' = FALSE /\ UNCHANGED timers
      /\ op' = IF op = "starting" THEN "none" ELSE op
  BY CleanupTunnelTypes, CleanupEndsMoves DEF Types, HandleTypes
<1>3. NoTask.at = "off"
  BY NoTaskIsOff
<1>4. Down'
  BY <1>1, <1>2, <1>3, TaskNames
     DEF Control, Down, UpLife, Off, At, Becomes
<1>5. Roles'
  BY <1>1, <1>2, <1>3, TaskNames
     DEF Control, Roles, DaemonRecovers, Off, At, Becomes
<1>6. StopAlone'
  BY <1>1, <1>2, <1>3, TaskNames
     DEF Control, StopAlone, Acting, Off, At, HoldsNoOther, StalePlace, Becomes
<1>7. StartAlone'
  BY <1>1, <1>2, <1>3, TaskNames
     DEF Control, StartAlone, DaemonRecovers, Off, At, HoldsNoOther, PreSpawn, StalePlace,
         TunnelPlace, CleanupPlace, Becomes
<1>8. QuitAlone'
  BY <1>1, <1>2, <1>3, TaskNames
     DEF Control, QuitAlone, Forcing, DaemonRecovers, Off, At, HoldsNoOther, Becomes, StartAlone
<1>9. RecoveryRoles'
  BY <1>1, <1>2, <1>3, TaskNames
     DEF Control, RecoveryRoles, SpawnPlace, At, Becomes
<1>10. Handles'
  BY <1>1, <1>2, <1>3, TaskNames
     DEF Control, Handles, Becomes
<1> QED BY <1>4, <1>5, <1>6, <1>7, <1>8, <1>9, <1>10 DEF Control

LEMMA SetupStopsControl ==
  ASSUME Types, Types', Control, Patient, Patient', SetupStops
  PROVE  Control'
<1>1. /\ life = "up" /\ op = "none" /\ ~pending /\ op' = "stopping"
      /\ UNCHANGED <<machine, handles, attempts, file, life, pending>>
      /\ \/ /\ Running("start") /\ Goes("stop", "settle.start") /\ UNCHANGED <<stopping, monitor, timers>>
         \/ /\ ~Running("start") /\ Goes("stop", "settle.recovery")
            /\ stopping' = TRUE /\ monitor' = FALSE /\ timers' = {}
  BY RequestStopMoves DEF SetupStops, Types
<1>2. Off("stop") /\ Off("quit") /\ (~Running("start") => Off("start"))
  BY <1>1 DEF Control, Roles, Running, Off, At
<1>3. Down'
  BY <1>1, <1>2, TaskNames
     DEF Control, Down, UpLife, Off, At, machine, handles, Goes
<1>4. Roles'
  BY <1>1, <1>2, TaskNames
     DEF Control, Roles, DaemonRecovers, Off, At, machine, handles, Goes
<1>5. StopAlone'
  BY <1>1, <1>2, TaskNames
     DEF Control, StopAlone, Acting, Off, At, HoldsNoOther, StalePlace, machine, handles, Goes
<1>6. StartAlone'
  BY <1>1, <1>2, TaskNames
     DEF Control, StartAlone, DaemonRecovers, Off, At, HoldsNoOther, PreSpawn, StalePlace,
         TunnelPlace, CleanupPlace, machine, handles, Goes
<1>7. QuitAlone'
  BY <1>1, <1>2, TaskNames
     DEF Control, QuitAlone, Forcing, DaemonRecovers, Off, At, HoldsNoOther, machine, handles,
         Goes
<1>8. RecoveryRoles'
  BY <1>1, <1>2, TaskNames
     DEF Control, RecoveryRoles, SpawnPlace, At, machine, handles, Goes
<1>9. Handles'
  BY <1>1, <1>2, TaskNames
     DEF Control, Handles, machine, handles, Goes
<1> QED BY <1>3, <1>4, <1>5, <1>6, <1>7, <1>8, <1>9 DEF Control

LEMMA SetupStartsControl ==
  ASSUME Types, Types', Control, Patient, Patient', SetupStarts
  PROVE  Control'
<1>1. /\ op = "between" /\ UNCHANGED <<machine, handles, control, monitor, life, pending>>
  BY DEF SetupStarts
<1>2. /\ life = "up" /\ Off("start") /\ Off("stop") /\ Off("quit") /\ daemon = None /\ ~DaemonRecovers
  BY <1>1 DEF Control, Roles, Off, At
<1>3. \/ op' = "starting" /\ Goes("start", "probe")
      \/ op' = "none" /\ UNCHANGED task
  BY <1>2, RequestStartMoves DEF SetupStarts, Types, Running, Off, At
<1>4. restartable = {}
  BY <1>2 DEF Control, Handles
<1>5. Down'
  BY <1>1, <1>2, <1>3, <1>4, TaskNames
     DEF Control, Down, UpLife, Off, At, machine, handles, control, Goes
<1>6. Roles'
  BY <1>1, <1>2, <1>3, <1>4, TaskNames
     DEF Control, Roles, DaemonRecovers, Off, At, machine, handles, control, Goes
<1>7. StopAlone'
  BY <1>1, <1>2, <1>3, <1>4, TaskNames
     DEF Control, StopAlone, Acting, Off, At, HoldsNoOther, StalePlace, machine, handles,
         control, Goes
<1>8. StartAlone'
  BY <1>1, <1>2, <1>3, <1>4, TaskNames
     DEF Control, StartAlone, DaemonRecovers, Off, At, HoldsNoOther, PreSpawn, StalePlace,
         TunnelPlace, CleanupPlace, machine, handles, control, Goes, Roles
<1>9. QuitAlone'
  BY <1>1, <1>2, <1>3, <1>4, TaskNames
     DEF Control, QuitAlone, Forcing, DaemonRecovers, Off, At, HoldsNoOther, machine, handles,
         control, Goes
<1>10. RecoveryRoles'
  BY <1>1, <1>2, <1>3, <1>4, TaskNames
     DEF Control, RecoveryRoles, SpawnPlace, At, machine, handles, control, Goes
<1>11. Handles'
  BY <1>1, <1>2, <1>3, <1>4, TaskNames
     DEF Control, Handles, machine, handles, control, Goes
<1> QED BY <1>5, <1>6, <1>7, <1>8, <1>9, <1>10, <1>11 DEF Control

LEMMA StopSettlesStartControl ==
  ASSUME Types, Types', Control, Patient, Patient', StopSettlesStart
  PROVE  Control'
<1>1. /\ At("stop", "settle.start") /\ UNCHANGED <<machine, handles, attempts, file, session>>
      /\ Goes("stop", "settle.recovery") /\ stopping' = TRUE /\ monitor' = FALSE /\ timers' = {}
      /\ ~Running("start")
  BY StopSettlesStartTypes DEF StopSettlesStart, Patient
<1>2. Off("start")
  BY <1>1 DEF Control, Roles, Running, Off, At
<1>3. Down'
  BY <1>1, <1>2, TaskNames
     DEF Control, Down, UpLife, Off, At, machine, handles, session, Goes
<1>4. Roles'
  BY <1>1, <1>2, TaskNames
     DEF Control, Roles, DaemonRecovers, Off, At, machine, handles, session, Goes
<1>5. StopAlone'
  BY <1>1, <1>2, TaskNames
     DEF Control, StopAlone, Acting, Off, At, HoldsNoOther, StalePlace, machine, handles,
         session, Goes
<1>6. StartAlone'
  BY <1>1, <1>2, TaskNames
     DEF Control, StartAlone, DaemonRecovers, Off, At, HoldsNoOther, PreSpawn, StalePlace,
         TunnelPlace, CleanupPlace, machine, handles, session, Goes
<1>7. QuitAlone'
  BY <1>1, <1>2, TaskNames
     DEF Control, QuitAlone, Forcing, DaemonRecovers, Off, At, HoldsNoOther, machine, handles,
         session, Goes
<1>8. RecoveryRoles'
  BY <1>1, <1>2, TaskNames
     DEF Control, RecoveryRoles, SpawnPlace, At, machine, handles, session, Goes
<1>9. Handles'
  BY <1>1, <1>2, TaskNames
     DEF Control, Handles, machine, handles, session, Goes
<1> QED BY <1>3, <1>4, <1>5, <1>6, <1>7, <1>8, <1>9 DEF Control

LEMMA StopSettlesRecoveriesControl ==
  ASSUME Types, Types', Control, Patient, Patient', StopSettlesRecoveries
  PROVE  Control'
<1>1. /\ At("stop", "settle.recovery") /\ UNCHANGED <<machine, handles, monitor, session>>
      /\ Goes("stop", "inspect") /\ UNCHANGED control /\ \A r \in Recoveries : At(r, "off")
  BY StopSettlesRecoveriesTypes DEF StopSettlesRecoveries, Patient
<1>2. Down'
  BY <1>1, TaskNames
     DEF Control, Down, UpLife, Off, At, machine, handles, control, session, Goes
<1>3. Roles'
  BY <1>1, TaskNames
     DEF Control, Roles, DaemonRecovers, Off, At, machine, handles, control, session, Goes
<1>4. StopAlone'
  BY <1>1, TaskNames
     DEF Control, StopAlone, Acting, Off, At, HoldsNoOther, StalePlace, machine, handles,
         control, session, Goes
<1>5. StartAlone'
  BY <1>1, TaskNames
     DEF Control, StartAlone, DaemonRecovers, Off, At, HoldsNoOther, PreSpawn, StalePlace,
         TunnelPlace, CleanupPlace, machine, handles, control, session, Goes
<1>6. QuitAlone'
  BY <1>1, TaskNames
     DEF Control, QuitAlone, Forcing, DaemonRecovers, Off, At, HoldsNoOther, machine, handles,
         control, session, Goes
<1>7. RecoveryRoles'
  BY <1>1, TaskNames
     DEF Control, RecoveryRoles, SpawnPlace, At, machine, handles, control, session, Goes
<1>8. Handles'
  BY <1>1, TaskNames
     DEF Control, Handles, machine, handles, control, session, Goes
<1> QED BY <1>2, <1>3, <1>4, <1>5, <1>6, <1>7, <1>8 DEF Control

LEMMA StopInspectsControl ==
  ASSUME Types, Types', Control, Patient, Patient', StopInspects
  PROVE  Control'
<1>1. /\ At("stop", "inspect") /\ Acting
      /\ UNCHANGED <<proc, restartable, expected, mine, life, pending, daemon>>
  BY DEF StopInspects, machine, At, Acting
<1>2. CASE StopSettles(TRUE, "none") /\ daemon = None
  BY <1>1, <1>2, StopSettlesControl
<1>3. CASE \E label \in {"stop.drain", "stop.tunnel", "stale", "undo.ready"} :
              /\ Goes("stop", label) /\ UNCHANGED <<control, monitor, op>>
              /\ label = "stale" => daemon = None
  <2>1. Down'
    BY <1>1, <1>3, TaskNames
       DEF Control, Down, UpLife, Off, At, control, Goes
  <2>2. Roles'
    BY <1>1, <1>3, TaskNames
       DEF Control, Roles, DaemonRecovers, Off, At, control, Goes
  <2>3. StopAlone'
    BY <1>1, <1>3, TaskNames
       DEF Control, StopAlone, Acting, Off, At, HoldsNoOther, StalePlace, control, Goes
  <2>4. StartAlone'
    BY <1>1, <1>3, TaskNames
       DEF Control, StartAlone, DaemonRecovers, Off, At, HoldsNoOther, PreSpawn, StalePlace,
           TunnelPlace, CleanupPlace, control, Goes
  <2>5. QuitAlone'
    BY <1>1, <1>3, TaskNames
       DEF Control, QuitAlone, Forcing, DaemonRecovers, Off, At, HoldsNoOther, control, Goes
  <2>6. RecoveryRoles'
    BY <1>1, <1>3, TaskNames
       DEF Control, RecoveryRoles, SpawnPlace, At, control, Goes
  <2>7. Handles'
    BY <1>1, <1>3, TaskNames
       DEF Control, Handles, control, Goes
  <2> QED BY <2>1, <2>2, <2>3, <2>4, <2>5, <2>6, <2>7 DEF Control
<1>4. FirstStep(tunnel') = "stale" => daemon = None
  BY DEF FirstStep
<1> QED BY <1>2, <1>3, <1>4, StopInspectsTypes

LEMMA StopFindsNoDaemonControl ==
  ASSUME Types, Types', Control, Patient, Patient', StopFindsNoDaemon
  PROVE  Control'
<1>1. /\ Acting /\ daemon = None /\ StopSettles(TRUE, "none")
      /\ UNCHANGED <<proc, restartable, expected, mine, life, pending, daemon>>
  BY DEF StopFindsNoDaemon, machine, At, Acting
<1> QED BY <1>1, StopSettlesControl

LEMMA StopTunnelControl ==
  ASSUME Types, Types', Control, Patient, Patient', StopTunnel
  PROVE  Control'
<1>1. /\ At("stop", "stop.tunnel")
      /\ UNCHANGED <<proc, busy, draining, daemon, restartable, expected, mine, session>>
  BY DEF StopTunnel
<1>2. \E label \in {"stop.shutdown", "tunnel.status", "undo.daemon", "undo.ready"} :
         Goes("stop", label) /\ UNCHANGED control
  BY StopTunnelTypes, UndoMoves DEF Types
<1>3. Down'
  BY <1>1, <1>2, TaskNames
     DEF Control, Down, UpLife, Off, At, control, session, Goes
<1>4. Roles'
  BY <1>1, <1>2, TaskNames
     DEF Control, Roles, DaemonRecovers, Off, At, control, session, Goes
<1>5. StopAlone'
  BY <1>1, <1>2, TaskNames
     DEF Control, StopAlone, Acting, Off, At, HoldsNoOther, StalePlace, control, session, Goes
<1>6. StartAlone'
  BY <1>1, <1>2, TaskNames
     DEF Control, StartAlone, DaemonRecovers, Off, At, HoldsNoOther, PreSpawn, StalePlace,
         TunnelPlace, CleanupPlace, control, session, Goes
<1>7. QuitAlone'
  BY <1>1, <1>2, TaskNames
     DEF Control, QuitAlone, Forcing, DaemonRecovers, Off, At, HoldsNoOther, control, session,
         Goes
<1>8. RecoveryRoles'
  BY <1>1, <1>2, TaskNames
     DEF Control, RecoveryRoles, SpawnPlace, At, control, session, Goes
<1>9. Handles'
  BY <1>1, <1>2, TaskNames
     DEF Control, Handles, control, session, Goes
<1> QED BY <1>3, <1>4, <1>5, <1>6, <1>7, <1>8, <1>9 DEF Control

LEMMA UndoDaemonControl ==
  ASSUME Types, Types', Control, Patient, Patient', UndoDaemon
  PROVE  Control'
<1>1. /\ At("stop", "undo.daemon")
      /\ UNCHANGED <<proc, busy, alias, tunnel, restartable, expected, mine, control, monitor, session, daemon>>
  BY DEF UndoDaemon
<1>2. \E label \in {"undo.ready", "daemon"} : Goes("stop", label) /\ (label = "daemon" => daemon = None)
  BY UndoDaemonTypes
<1>3. Down'
  BY <1>1, <1>2, TaskNames
     DEF Control, Down, UpLife, Off, At, control, session, Goes
<1>4. Roles'
  BY <1>1, <1>2, TaskNames
     DEF Control, Roles, DaemonRecovers, Off, At, control, session, Goes
<1>5. StopAlone'
  BY <1>1, <1>2, TaskNames
     DEF Control, StopAlone, Acting, Off, At, HoldsNoOther, StalePlace, control, session, Goes
<1>6. StartAlone'
  BY <1>1, <1>2, TaskNames
     DEF Control, StartAlone, DaemonRecovers, Off, At, HoldsNoOther, PreSpawn, StalePlace,
         TunnelPlace, CleanupPlace, control, session, Goes
<1>7. QuitAlone'
  BY <1>1, <1>2, TaskNames
     DEF Control, QuitAlone, Forcing, DaemonRecovers, Off, At, HoldsNoOther, control, session,
         Goes
<1>8. RecoveryRoles'
  BY <1>1, <1>2, TaskNames
     DEF Control, RecoveryRoles, SpawnPlace, At, control, session, Goes
<1>9. Handles'
  BY <1>1, <1>2, TaskNames
     DEF Control, Handles, control, session, Goes
<1> QED BY <1>3, <1>4, <1>5, <1>6, <1>7, <1>8, <1>9 DEF Control

LEMMA UndoReadyControl ==
  ASSUME Types, Types', Control, Patient, Patient', UndoReady
  PROVE  Control'
<1>1. /\ At("stop", "undo.ready") /\ Acting
      /\ UNCHANGED <<proc, restartable, expected, mine, life, pending, daemon, tunnel>>
  BY DEF UndoReady, machine, At, Acting
<1>2. CASE \E status \in {"ready", "failed"} : StopSettles(FALSE, status)
  BY <1>1, <1>2, StopSettlesControl
<1>3. CASE Goes("stop", "undo.tunnel") /\ UNCHANGED <<control, monitor, op>>
  <2>1. Down'
    BY <1>1, <1>3, TaskNames
       DEF Control, Down, UpLife, Off, At, control, Goes
  <2>2. Roles'
    BY <1>1, <1>3, TaskNames
       DEF Control, Roles, DaemonRecovers, Off, At, control, Goes
  <2>3. StopAlone'
    BY <1>1, <1>3, TaskNames
       DEF Control, StopAlone, Acting, Off, At, HoldsNoOther, StalePlace, control, Goes
  <2>4. StartAlone'
    BY <1>1, <1>3, TaskNames
       DEF Control, StartAlone, DaemonRecovers, Off, At, HoldsNoOther, PreSpawn, StalePlace,
           TunnelPlace, CleanupPlace, control, Goes
  <2>5. QuitAlone'
    BY <1>1, <1>3, TaskNames
       DEF Control, QuitAlone, Forcing, DaemonRecovers, Off, At, HoldsNoOther, control, Goes
  <2>6. RecoveryRoles'
    BY <1>1, <1>3, TaskNames
       DEF Control, RecoveryRoles, SpawnPlace, At, control, Goes
  <2>7. Handles'
    BY <1>1, <1>3, TaskNames
       DEF Control, Handles, control, Goes
  <2> QED BY <2>1, <2>2, <2>3, <2>4, <2>5, <2>6, <2>7 DEF Control
<1> QED BY <1>2, <1>3, UndoReadyTypes

LEMMA UndoTunnelReadyControl ==
  ASSUME Types, Types', Control, Patient, Patient', UndoTunnelReady
  PROVE  Control'
<1>1. /\ Acting /\ \E status \in {"ready", "failed"} : StopSettles(FALSE, status)
      /\ UNCHANGED <<proc, restartable, expected, mine, life, pending, daemon>>
  BY UndoTunnelReadyTypes DEF UndoTunnelReady, machine, At, Acting
<1> QED BY <1>1, StopSettlesControl

-----------------------------------------------------------------------------
(* The control in a quit *)

LEMMA RequestQuitControl ==
  ASSUME Types, Types', Control, Patient, Patient', RequestQuit
  PROVE  Control'
<1>1. /\ life = "up" /\ op = "none" /\ life' = "quitting" /\ Goes("quit", "cancel")
      /\ UNCHANGED <<machine, handles, control, monitor, op, pending>>
  BY RequestQuitTypes DEF RequestQuit
<1>2. ~ForcedQuit /\ ~StartDuringQuit
  BY <1>1 DEF Patient
<1>3. Off("quit") /\ Off("stop")
  BY <1>1 DEF Control, Roles, Off, At
<1>4. Down'
  BY <1>1, <1>3, TaskNames
     DEF Control, Down, UpLife, Off, At, machine, handles, control, Goes
<1>5. Roles'
  BY <1>1, <1>3, TaskNames
     DEF Control, Roles, DaemonRecovers, Off, At, machine, handles, control, Goes
<1>6. StopAlone'
  BY <1>1, <1>3, TaskNames
     DEF Control, StopAlone, Acting, Off, At, HoldsNoOther, StalePlace, machine, handles,
         control, Goes
<1>7. StartAlone'
  BY <1>1, <1>3, TaskNames
     DEF Control, StartAlone, DaemonRecovers, Off, At, HoldsNoOther, PreSpawn, StalePlace,
         TunnelPlace, CleanupPlace, machine, handles, control, Goes
<1>8. QuitAlone'
  BY <1>1, <1>3, TaskNames
     DEF Control, QuitAlone, Forcing, DaemonRecovers, Off, At, HoldsNoOther, machine, handles,
         control, Goes
<1>9. RecoveryRoles'
  BY <1>1, <1>3, TaskNames
     DEF Control, RecoveryRoles, SpawnPlace, At, machine, handles, control, Goes
<1>10. Handles'
  BY <1>1, <1>3, TaskNames
     DEF Control, Handles, machine, handles, control, Goes
<1> QED BY <1>4, <1>5, <1>6, <1>7, <1>8, <1>9, <1>10 DEF Control

LEMMA CancelTurnsControl ==
  ASSUME Types, Types', Control, Patient, Patient', CancelTurns
  PROVE  Control'
<1>1. At("quit", "cancel") /\ UNCHANGED <<proc, handles, file, session>>
  BY DEF CancelTurns
<1>2. life = "quitting" /\ op = "none" /\ Off("stop")
  BY <1>1, TaskNames DEF Control, Roles, Off, At
<1>3. \/ /\ task'["quit"].at = "stop" /\ \A r \in Recoveries : task'[r] = task[r]
         /\ task'["start"] = task["start"]
         /\ \/ /\ Running("start") /\ task'["stop"].at = "settle.start"
               /\ UNCHANGED <<stopping, monitor, timers>>
            \/ /\ ~Running("start") /\ task'["stop"].at = "settle.recovery"
               /\ stopping' = TRUE /\ monitor' = FALSE /\ timers' = {}
      \/ /\ Goes("quit", "force.recovery")
         /\ stopping' = TRUE /\ monitor' = FALSE /\ timers' = {} /\ daemon # None
  BY CancelTurnsTypes
<1>4. ~Running("start") => Off("start")
  BY DEF Control, Roles, Running, Off, At
<1>5. Down'
  BY <1>1, <1>2, <1>3, <1>4, TaskNames
     DEF Control, Down, UpLife, Off, At, handles, session, Goes
<1>6. Roles'
  BY <1>1, <1>2, <1>3, <1>4, TaskNames
     DEF Control, Roles, DaemonRecovers, Off, At, handles, session, Goes
<1>7. StopAlone'
  BY <1>1, <1>2, <1>3, <1>4, TaskNames
     DEF Control, StopAlone, Acting, Off, At, HoldsNoOther, StalePlace, handles, session, Goes
<1>8. StartAlone'
  BY <1>1, <1>2, <1>3, <1>4, TaskNames
     DEF Control, StartAlone, DaemonRecovers, Off, At, HoldsNoOther, PreSpawn, StalePlace,
         TunnelPlace, CleanupPlace, handles, session, Goes, Roles, SpawnPlace
<1>9. QuitAlone'
  BY <1>1, <1>2, <1>3, <1>4, TaskNames
     DEF Control, QuitAlone, Forcing, DaemonRecovers, Off, At, HoldsNoOther, handles, session,
         Goes
<1>10. RecoveryRoles'
  BY <1>1, <1>2, <1>3, <1>4, TaskNames
     DEF Control, RecoveryRoles, SpawnPlace, At, handles, session, Goes
<1>11. Handles'
  BY <1>1, <1>2, <1>3, <1>4, TaskNames
     DEF Control, Handles, handles, session, Goes
<1> QED BY <1>5, <1>6, <1>7, <1>8, <1>9, <1>10, <1>11 DEF Control

LEMMA QuitDeadlineControl ==
  ASSUME Types, Types', Control, Patient, Patient', QuitDeadline
  PROVE  Control'
<1>1. life = "quitting" /\ ForcedQuit
  BY DEF QuitDeadline, Control, Roles, Off, At
<1> QED BY <1>1 DEF Patient

LEMMA ForceSettlesControl ==
  ASSUME Types, Types', Control, Patient, Patient', ForceSettles
  PROVE  Control'
<1>1. /\ At("quit", "force.recovery") /\ Goes("quit", "force.tunnel")
      /\ UNCHANGED <<machine, handles, control, monitor, session>>
  BY ForceSettlesTypes DEF ForceSettles
<1>2. life = "quitting"
  BY <1>1 DEF Control, Roles, Off, At
<1>3. \A r \in Recoveries : Off(r)
  BY <1>2 DEF ForceSettles, Patient, RecoveriesSettled, Off
<1>4. Down'
  BY <1>1, <1>2, <1>3, TaskNames
     DEF Control, Down, UpLife, Off, At, machine, handles, control, session, Goes
<1>5. Roles'
  BY <1>1, <1>2, <1>3, TaskNames
     DEF Control, Roles, DaemonRecovers, Off, At, machine, handles, control, session, Goes
<1>6. StopAlone'
  BY <1>1, <1>2, <1>3, TaskNames
     DEF Control, StopAlone, Acting, Off, At, HoldsNoOther, StalePlace, machine, handles,
         control, session, Goes
<1>7. StartAlone'
  BY <1>1, <1>2, <1>3, TaskNames
     DEF Control, StartAlone, DaemonRecovers, Off, At, HoldsNoOther, PreSpawn, StalePlace,
         TunnelPlace, CleanupPlace, machine, handles, control, session, Goes
<1>8. QuitAlone'
  BY <1>1, <1>2, <1>3, TaskNames
     DEF Control, QuitAlone, Forcing, DaemonRecovers, Off, At, HoldsNoOther, machine, handles,
         control, session, Goes
<1>9. RecoveryRoles'
  BY <1>1, <1>2, <1>3, TaskNames
     DEF Control, RecoveryRoles, SpawnPlace, At, machine, handles, control, session, Goes
<1>10. Handles'
  BY <1>1, <1>2, <1>3, TaskNames
     DEF Control, Handles, machine, handles, control, session, Goes
<1> QED BY <1>4, <1>5, <1>6, <1>7, <1>8, <1>9, <1>10 DEF Control

LEMMA ForceTunnelControl ==
  ASSUME Types, Types', Control, Patient, Patient', ForceTunnel
  PROVE  Control'
<1>1. /\ At("quit", "force.tunnel") /\ Goes("quit", "force.daemon")
      /\ UNCHANGED <<proc, daemon, restartable, expected, mine, control, monitor, session>>
  BY ForceTunnelTypes DEF ForceTunnel
<1>2. life = "quitting"
  BY <1>1 DEF Control, Roles, Off, At
<1>3. Down'
  BY <1>1, <1>2, TaskNames
     DEF Control, Down, UpLife, Off, At, control, session, Goes
<1>4. Roles'
  BY <1>1, <1>2, TaskNames
     DEF Control, Roles, DaemonRecovers, Off, At, control, session, Goes
<1>5. StopAlone'
  BY <1>1, <1>2, TaskNames
     DEF Control, StopAlone, Acting, Off, At, HoldsNoOther, StalePlace, control, session, Goes
<1>6. StartAlone'
  BY <1>1, <1>2, TaskNames
     DEF Control, StartAlone, DaemonRecovers, Off, At, HoldsNoOther, PreSpawn, StalePlace,
         TunnelPlace, CleanupPlace, control, session, Goes
<1>7. QuitAlone'
  BY <1>1, <1>2, TaskNames
     DEF Control, QuitAlone, Forcing, DaemonRecovers, Off, At, HoldsNoOther, control, session,
         Goes
<1>8. RecoveryRoles'
  BY <1>1, <1>2, TaskNames
     DEF Control, RecoveryRoles, SpawnPlace, At, control, session, Goes
<1>9. Handles'
  BY <1>1, <1>2, TaskNames
     DEF Control, Handles, control, session, Goes
<1> QED BY <1>3, <1>4, <1>5, <1>6, <1>7, <1>8, <1>9 DEF Control

LEMMA ForceDaemonControl ==
  ASSUME Types, Types', Control, Patient, Patient', ForceDaemon
  PROVE  Control'
<1>1. /\ At("quit", "force.daemon") /\ Goes("quit", "force.killed") /\ task'["quit"].child = daemon
      /\ daemon \in Proc
      /\ UNCHANGED <<daemon, tunnel, restartable, mine, control, monitor, session>>
  BY ForceDaemonTypes DEF ForceDaemon
<1>2. /\ expected' = expected \cup {daemon}
      /\ \A p \in Proc \ {daemon} : proc'[p] = proc[p]
      /\ proc'[daemon] = IF Alive(daemon) THEN "dead" ELSE proc[daemon]
  BY <1>1, TerminatesTypes DEF ForceDaemon, Types
<1>3. proc[daemon] \in {"booting", "serving", "closing", "dead", "gone"} /\ daemon # None
  BY <1>1, SupervisorAssumption DEF Types, HandleTypes, SupervisorAssumption
<1>4. life = "quitting"
  BY <1>1 DEF Control, Roles, Off, At
<1>5. Down'
  BY <1>1, <1>2, <1>3, <1>4, TaskNames
     DEF Control, Down, UpLife, Off, At, control, session, Goes
<1>6. Roles'
  BY <1>1, <1>2, <1>3, <1>4, TaskNames
     DEF Control, Roles, DaemonRecovers, Off, At, control, session, Goes
<1>7. StopAlone'
  BY <1>1, <1>2, <1>3, <1>4, TaskNames
     DEF Control, StopAlone, Acting, Off, At, HoldsNoOther, StalePlace, control, session, Goes
<1>8. StartAlone'
  BY <1>1, <1>2, <1>3, <1>4, TaskNames
     DEF Control, StartAlone, DaemonRecovers, Off, At, HoldsNoOther, PreSpawn, StalePlace,
         TunnelPlace, CleanupPlace, control, session, Goes
<1>9. QuitAlone'
  BY <1>1, <1>2, <1>3, <1>4, TaskNames
     DEF Control, QuitAlone, Forcing, DaemonRecovers, Off, At, HoldsNoOther, control, session,
         Goes
<1>10. RecoveryRoles'
  BY <1>1, <1>2, <1>3, <1>4, TaskNames
     DEF Control, RecoveryRoles, SpawnPlace, At, control, session, Goes
<1>11. Handles'
  BY <1>1, <1>2, <1>3, <1>4, TaskNames
     DEF Control, Handles, control, session, Goes, Types, HandleTypes, Alive
<1> QED BY <1>5, <1>6, <1>7, <1>8, <1>9, <1>10, <1>11 DEF Control

LEMMA ForceEndsControl ==
  ASSUME Types, Types', Control, Patient, Patient', ForceEnds
  PROVE  Control'
<1>1. /\ Goes("quit", "exit") /\ stopping' = FALSE
      /\ UNCHANGED <<machine, handles, timers, attempts, monitor, session>>
  BY ForceEndsTypes DEF ForceEnds
<1>2. \/ At("quit", "force.daemon") /\ daemon = None
      \/ At("quit", "force.killed") /\ proc[task["quit"].child] = "gone"
  BY DEF ForceEnds
<1>3. daemon = None
  BY <1>2 DEF Control, QuitAlone, Handles, HoldsNoOther
<1>4. life = "quitting" /\ ~At("quit", "stop") /\ ~At("quit", "cancel") /\ ~At("quit", "off")
  BY <1>2 DEF Control, Roles, Off, At
<1>5. op = "none" /\ Off("stop")
  BY <1>4 DEF Control, Roles
<1>6. ~DaemonRecovers /\ restartable = {} /\ expected = {} /\ mine = {}
  BY <1>2, <1>3 DEF Control, QuitAlone, Handles, At
<1>7. task["start"].at \notin PreSpawn
  BY <1>2 DEF Control, StartAlone, At
<1>8. Down'
  BY <1>1, <1>2, <1>3, <1>4, <1>5, <1>6, <1>7, TaskNames
     DEF Control, Down, UpLife, Off, At, machine, handles, session, Goes
<1>9. Roles'
  BY <1>1, <1>2, <1>3, <1>4, <1>5, <1>6, <1>7, TaskNames
     DEF Control, Roles, DaemonRecovers, Off, At, machine, handles, session, Goes
<1>10. StopAlone'
  BY <1>1, <1>2, <1>3, <1>4, <1>5, <1>6, <1>7, TaskNames
     DEF Control, StopAlone, Acting, Off, At, HoldsNoOther, StalePlace, machine, handles,
         session, Goes
<1>11. StartAlone'
  BY <1>1, <1>2, <1>3, <1>4, <1>5, <1>6, <1>7, TaskNames
     DEF Control, StartAlone, DaemonRecovers, Off, At, HoldsNoOther, PreSpawn, StalePlace,
         TunnelPlace, CleanupPlace, machine, handles, session, Goes
<1>12. QuitAlone'
  BY <1>1, <1>2, <1>3, <1>4, <1>5, <1>6, <1>7, TaskNames
     DEF Control, QuitAlone, Forcing, DaemonRecovers, Off, At, HoldsNoOther, machine, handles,
         session, Goes
<1>13. RecoveryRoles'
  BY <1>1, <1>2, <1>3, <1>4, <1>5, <1>6, <1>7, TaskNames
     DEF Control, RecoveryRoles, SpawnPlace, At, machine, handles, session, Goes
<1>14. Handles'
  BY <1>1, <1>2, <1>3, <1>4, <1>5, <1>6, <1>7, TaskNames
     DEF Control, Handles, machine, handles, session, Goes
<1> QED BY <1>8, <1>9, <1>10, <1>11, <1>12, <1>13, <1>14 DEF Control

LEMMA LauncherExitsControl ==
  ASSUME Types, Types', Control, Patient, Patient', LauncherExits
  PROVE  Control'
<1>1. /\ \A t \in Tasks : task'[t] = NoTask
      /\ daemon' = None /\ tunnel' = FALSE /\ restartable' = {} /\ expected' = {} /\ mine' = {}
      /\ stopping' = FALSE /\ monitor' = FALSE /\ timers' = {}
      /\ file'.own = FALSE /\ op' = "none" /\ pending' = FALSE /\ life' \in {"clean", "partial"}
  BY GoneTypes DEF LauncherExits, LauncherGone
<1>2. \A t \in Tasks : task'[t].at = "off"
  BY <1>1, NoTaskIsOff
<1>3. (\A t \in Tasks : Off(t))'
  BY <1>2 DEF Off, At
<1>4. ~DaemonRecovers'
  BY <1>1, <1>2, TaskNames DEF DaemonRecovers, Off, At
<1>5. Down'
  BY <1>1, <1>2, <1>3, <1>4, TaskNames
     DEF Down, UpLife, Off, At, PreSpawn, StalePlace, TunnelPlace, CleanupPlace
<1>6. Roles'
  BY <1>1, <1>2, <1>3, <1>4, TaskNames
     DEF Roles, DaemonRecovers, Off, At, PreSpawn, StalePlace, TunnelPlace, CleanupPlace
<1>7. StopAlone'
  BY <1>1, <1>2, <1>3, <1>4, TaskNames
     DEF StopAlone, Acting, Off, At, HoldsNoOther, StalePlace, PreSpawn, TunnelPlace, CleanupPlace
<1>8. StartAlone'
  BY <1>1, <1>2, <1>3, <1>4, TaskNames
     DEF StartAlone, DaemonRecovers, Off, At, HoldsNoOther, PreSpawn, StalePlace, TunnelPlace,
         CleanupPlace
<1>9. QuitAlone'
  BY <1>1, <1>2, <1>3, <1>4, TaskNames
     DEF QuitAlone, Forcing, DaemonRecovers, Off, At, HoldsNoOther, PreSpawn, StalePlace,
         TunnelPlace, CleanupPlace
<1>10. RecoveryRoles'
  BY <1>1, <1>2, <1>3, <1>4, TaskNames
     DEF RecoveryRoles, SpawnPlace, At, PreSpawn, StalePlace, TunnelPlace, CleanupPlace
<1>11. Handles'
  BY <1>1, <1>2, <1>3, <1>4, TaskNames
     DEF Handles, PreSpawn, StalePlace, TunnelPlace, CleanupPlace
<1> QED BY <1>5, <1>6, <1>7, <1>8, <1>9, <1>10, <1>11 DEF Control

LEMMA LauncherCrashesControl ==
  ASSUME Types, Types', Control, Patient, Patient', LauncherCrashes
  PROVE  Control'
<1>1. /\ \A t \in Tasks : task'[t] = NoTask
      /\ daemon' = None /\ tunnel' = FALSE /\ restartable' = {} /\ expected' = {} /\ mine' = {}
      /\ stopping' = FALSE /\ monitor' = FALSE /\ timers' = {}
      /\ file'.own = FALSE /\ op' = "none" /\ pending' = FALSE /\ life' \in {"crashed"}
  BY GoneTypes DEF LauncherCrashes, LauncherGone
<1>2. \A t \in Tasks : task'[t].at = "off"
  BY <1>1, NoTaskIsOff
<1>3. (\A t \in Tasks : Off(t))'
  BY <1>2 DEF Off, At
<1>4. ~DaemonRecovers'
  BY <1>1, <1>2, TaskNames DEF DaemonRecovers, Off, At
<1>5. Down'
  BY <1>1, <1>2, <1>3, <1>4, TaskNames
     DEF Down, UpLife, Off, At, PreSpawn, StalePlace, TunnelPlace, CleanupPlace
<1>6. Roles'
  BY <1>1, <1>2, <1>3, <1>4, TaskNames
     DEF Roles, DaemonRecovers, Off, At, PreSpawn, StalePlace, TunnelPlace, CleanupPlace
<1>7. StopAlone'
  BY <1>1, <1>2, <1>3, <1>4, TaskNames
     DEF StopAlone, Acting, Off, At, HoldsNoOther, StalePlace, PreSpawn, TunnelPlace, CleanupPlace
<1>8. StartAlone'
  BY <1>1, <1>2, <1>3, <1>4, TaskNames
     DEF StartAlone, DaemonRecovers, Off, At, HoldsNoOther, PreSpawn, StalePlace, TunnelPlace,
         CleanupPlace
<1>9. QuitAlone'
  BY <1>1, <1>2, <1>3, <1>4, TaskNames
     DEF QuitAlone, Forcing, DaemonRecovers, Off, At, HoldsNoOther, PreSpawn, StalePlace,
         TunnelPlace, CleanupPlace
<1>10. RecoveryRoles'
  BY <1>1, <1>2, <1>3, <1>4, TaskNames
     DEF RecoveryRoles, SpawnPlace, At, PreSpawn, StalePlace, TunnelPlace, CleanupPlace
<1>11. Handles'
  BY <1>1, <1>2, <1>3, <1>4, TaskNames
     DEF Handles, PreSpawn, StalePlace, TunnelPlace, CleanupPlace
<1> QED BY <1>5, <1>6, <1>7, <1>8, <1>9, <1>10, <1>11 DEF Control

LEMMA LauncherStartsControl ==
  ASSUME Types, Types', Control, Patient', LauncherStarts
  PROVE  Control'
<1>1. /\ ~UpLife /\ life' = "up" /\ pending' = TRUE
      /\ UNCHANGED <<machine, handles, control, monitor, op, task>>
  BY DEF LauncherStarts
<1>2. /\ \A t \in Tasks : Off(t)
      /\ daemon = None /\ ~tunnel /\ ~monitor /\ ~stopping /\ timers = {} /\ op = "none" /\ ~file.own
  BY <1>1 DEF Control, Down
<1>3. Down'
  BY <1>1, <1>2, TaskNames
     DEF Control, Down, UpLife, Off, At, machine, handles, control
<1>4. Roles'
  BY <1>1, <1>2, TaskNames
     DEF Control, Roles, DaemonRecovers, Off, At, machine, handles, control
<1>5. StopAlone'
  BY <1>1, <1>2, TaskNames
     DEF Control, StopAlone, Acting, Off, At, HoldsNoOther, StalePlace, machine, handles, control
<1>6. StartAlone'
  BY <1>1, <1>2, TaskNames
     DEF Control, StartAlone, DaemonRecovers, Off, At, HoldsNoOther, PreSpawn, StalePlace,
         TunnelPlace, CleanupPlace, machine, handles, control
<1>7. QuitAlone'
  BY <1>1, <1>2, TaskNames
     DEF Control, QuitAlone, Forcing, DaemonRecovers, Off, At, HoldsNoOther, machine, handles,
         control
<1>8. RecoveryRoles'
  BY <1>1, <1>2, TaskNames
     DEF Control, RecoveryRoles, SpawnPlace, At, machine, handles, control
<1>9. Handles'
  BY <1>1, <1>2, TaskNames
     DEF Control, Handles, machine, handles, control
<1> QED BY <1>3, <1>4, <1>5, <1>6, <1>7, <1>8, <1>9 DEF Control

-----------------------------------------------------------------------------
(* The control in recoveries and events *)

LEMMA RecoveryChecksControl ==
  ASSUME Types, Types', Control, Patient, Patient', NEW r \in Recoveries, RecoveryChecks(r)
  PROVE  Control'
<1>1. At(r, "recovered") /\ UNCHANGED <<machine, handles, monitor, session>>
  BY DEF RecoveryChecks
<1>2. \/ Goes(r, "recovered.tunnel") /\ UNCHANGED control
      \/ /\ Becomes(r, NoTask) /\ UNCHANGED <<stopping, timers>> /\ file'.own
      \/ Thrown(r)
  <2>1. CASE Throws(r)
    BY <2>1, ThrowsMoves, TaskNames DEF Types, HandleTypes
  <2>2. CASE file' = Marker("ready", daemon, tunnel) /\ Becomes(r, NoTask) /\ UNCHANGED <<stopping, timers>>
    <3>1. file'.own
      BY <2>2 DEF Marker
    <3> QED BY <2>2, <3>1
  <2> QED BY <2>1, <2>2, RecoveryChecksTypes
<1>3. NoTask.at = "off"
  BY NoTaskIsOff
<1>4. Down'
  BY <1>1, <1>2, <1>3, TaskNames
     DEF Control, Down, UpLife, Off, At, machine, handles, control, session, Goes, Becomes, Thrown
<1>5. Roles'
  BY <1>1, <1>2, <1>3, TaskNames
     DEF Control, Roles, DaemonRecovers, Off, At, machine, handles, control, session, Goes,
         Becomes, Thrown
<1>6. StopAlone'
  BY <1>1, <1>2, <1>3, TaskNames
     DEF Control, StopAlone, Acting, Off, At, HoldsNoOther, StalePlace, machine, handles,
         control, session, Goes, Becomes, Thrown
<1>7. StartAlone'
  BY <1>1, <1>2, <1>3, TaskNames
     DEF Control, StartAlone, DaemonRecovers, Off, At, HoldsNoOther, PreSpawn, StalePlace,
         TunnelPlace, CleanupPlace, machine, handles, control, session, Goes, Becomes, Thrown
<1>8. QuitAlone'
  BY <1>1, <1>2, <1>3, TaskNames
     DEF Control, QuitAlone, Forcing, DaemonRecovers, Off, At, HoldsNoOther, machine, handles,
         control, session, Goes, Becomes, Thrown
<1>9. RecoveryRoles'
  BY <1>1, <1>2, <1>3, TaskNames
     DEF Control, RecoveryRoles, SpawnPlace, At, machine, handles, control, session, Goes,
         Becomes, Thrown
<1>10. Handles'
  BY <1>1, <1>2, <1>3, TaskNames
     DEF Control, Handles, machine, handles, control, session, Goes, Becomes, Thrown
<1> QED BY <1>4, <1>5, <1>6, <1>7, <1>8, <1>9, <1>10 DEF Control

LEMMA RecoveryEndsControl ==
  ASSUME Types, Types', Control, Patient, Patient', NEW r \in Recoveries, RecoveryEnds(r)
  PROVE  Control'
<1>1. At(r, "recovered.tunnel") /\ UNCHANGED <<machine, daemon, restartable, expected, mine, monitor, session>>
  BY DEF RecoveryEnds
<1>2. \/ /\ Becomes(r, NoTask) /\ UNCHANGED <<stopping, timers>>
      \/ Thrown(r)
  BY <1>1, RecoveryEndsTypes, ThrowsMoves, TaskNames DEF Types, HandleTypes
<1>3. NoTask.at = "off"
  BY NoTaskIsOff
<1>4. Down'
  BY <1>1, <1>2, <1>3, TaskNames
     DEF Control, Down, UpLife, Off, At, machine, session, Goes, Becomes, Thrown
<1>5. Roles'
  BY <1>1, <1>2, <1>3, TaskNames
     DEF Control, Roles, DaemonRecovers, Off, At, machine, session, Goes, Becomes, Thrown
<1>6. StopAlone'
  BY <1>1, <1>2, <1>3, TaskNames
     DEF Control, StopAlone, Acting, Off, At, HoldsNoOther, StalePlace, machine, session, Goes,
         Becomes, Thrown
<1>7. StartAlone'
  BY <1>1, <1>2, <1>3, TaskNames
     DEF Control, StartAlone, DaemonRecovers, Off, At, HoldsNoOther, PreSpawn, StalePlace,
         TunnelPlace, CleanupPlace, machine, session, Goes, Becomes, Thrown
<1>8. QuitAlone'
  BY <1>1, <1>2, <1>3, TaskNames
     DEF Control, QuitAlone, Forcing, DaemonRecovers, Off, At, HoldsNoOther, machine, session,
         Goes, Becomes, Thrown
<1>9. RecoveryRoles'
  BY <1>1, <1>2, <1>3, TaskNames
     DEF Control, RecoveryRoles, SpawnPlace, At, machine, session, Goes, Becomes, Thrown
<1>10. Handles'
  BY <1>1, <1>2, <1>3, TaskNames
     DEF Control, Handles, machine, session, Goes, Becomes, Thrown
<1> QED BY <1>4, <1>5, <1>6, <1>7, <1>8, <1>9, <1>10 DEF Control

LEMMA TimerFiresControl ==
  ASSUME Types, Types', Control, Patient, Patient', NEW r \in Recoveries, NEW name \in Children, TimerFires(name, r)
  PROVE  Control'
<1>1. /\ UNCHANGED <<machine, handles, stopping, file, monitor, session>> /\ UpLife
      /\ timers' = timers \ {name} /\ name \in timers /\ At(r, "off")
      /\ \/ stopping /\ UNCHANGED task
         \/ /\ ~stopping /\ \A u \in Tasks \ {r} : task'[u] = task[u]
            /\ task'[r].name = name
            /\ task'[r].at = IF name = "tunnel" THEN "tunnel.status" ELSE "daemon"
  BY TimerFiresTypes DEF TimerFires
<1>2. name \in {"daemon", "tunnel"}
  BY DEF Children
<1>3. Down'
  BY <1>1, <1>2, TaskNames
     DEF Control, Down, UpLife, Off, At, machine, handles, session
<1>4. Roles'
  BY <1>1, <1>2, TaskNames
     DEF Control, Roles, DaemonRecovers, Off, At, machine, handles, session
<1>5. StopAlone'
  BY <1>1, <1>2, TaskNames
     DEF Control, StopAlone, Acting, Off, At, HoldsNoOther, StalePlace, machine, handles, session
<1>6. StartAlone'
  BY <1>1, <1>2, TaskNames
     DEF Control, StartAlone, DaemonRecovers, Off, At, HoldsNoOther, PreSpawn, StalePlace,
         TunnelPlace, CleanupPlace, machine, handles, session
<1>7. QuitAlone'
  BY <1>1, <1>2, TaskNames
     DEF Control, QuitAlone, Forcing, DaemonRecovers, Off, At, HoldsNoOther, machine, handles,
         session
<1>8. RecoveryRoles'
  BY <1>1, <1>2, TaskNames
     DEF Control, RecoveryRoles, SpawnPlace, At, machine, handles, session
<1>9. Handles'
  BY <1>1, <1>2, TaskNames
     DEF Control, Handles, machine, handles, session
<1> QED BY <1>3, <1>4, <1>5, <1>6, <1>7, <1>8, <1>9 DEF Control

LEMMA DaemonEventControl ==
  ASSUME Types, Types', Control, Patient, Patient', NEW p \in Proc, DaemonEvent(p)
  PROVE  Control'
<1>1. /\ UNCHANGED <<handles, control, monitor, session, task>>
      /\ proc[p] # "gone" /\ proc'[p] # "gone"
      /\ \A q \in Proc \ {p} : proc'[q] = proc[q]
      /\ proc'[p] = "booting" => proc[p] = "booting"
      /\ proc[p] = "dead" => proc'[p] = "dead"
  BY DaemonEventTypes
<1>2. Down'
  BY <1>1, TaskNames
     DEF Control, Down, UpLife, Off, At, handles, control, session
<1>3. Roles'
  BY <1>1, TaskNames
     DEF Control, Roles, DaemonRecovers, Off, At, handles, control, session
<1>4. StopAlone'
  BY <1>1, TaskNames
     DEF Control, StopAlone, Acting, Off, At, HoldsNoOther, StalePlace, handles, control, session
<1>5. StartAlone'
  BY <1>1, TaskNames
     DEF Control, StartAlone, DaemonRecovers, Off, At, HoldsNoOther, PreSpawn, StalePlace,
         TunnelPlace, CleanupPlace, handles, control, session
<1>6. QuitAlone'
  BY <1>1, TaskNames
     DEF Control, QuitAlone, Forcing, DaemonRecovers, Off, At, HoldsNoOther, handles, control,
         session
<1>7. RecoveryRoles'
  BY <1>1, TaskNames
     DEF Control, RecoveryRoles, SpawnPlace, At, handles, control, session
<1>8. Handles'
  BY <1>1, TaskNames
     DEF Control, Handles, handles, control, session, Types, HandleTypes
<1> QED BY <1>2, <1>3, <1>4, <1>5, <1>6, <1>7, <1>8 DEF Control

LEMMA ReapControl ==
  ASSUME Types, Types', Control, Patient, Patient', NEW p \in Proc, Reap(p)
  PROVE  Control'
<1>1. /\ UNCHANGED <<tunnel, stopping, monitor, session, task>>
      /\ proc[p] = "dead" /\ proc'[p] = "gone" /\ \A q \in Proc \ {p} : proc'[q] = proc[q]
  BY ReapTypes
<1>2. CASE p \notin mine
  <2>1. UNCHANGED <<handles, control>>
    BY <1>2, ReapTypes
  <2>2. Down'
    BY <1>1, <1>2, <2>1, TaskNames
       DEF Control, Down, UpLife, Off, At, handles, control, session
  <2>3. Roles'
    BY <1>1, <1>2, <2>1, TaskNames
       DEF Control, Roles, DaemonRecovers, Off, At, handles, control, session
  <2>4. StopAlone'
    BY <1>1, <1>2, <2>1, TaskNames
       DEF Control, StopAlone, Acting, Off, At, HoldsNoOther, StalePlace, handles, control,
           session
  <2>5. StartAlone'
    BY <1>1, <1>2, <2>1, TaskNames
       DEF Control, StartAlone, DaemonRecovers, Off, At, HoldsNoOther, PreSpawn, StalePlace,
           TunnelPlace, CleanupPlace, handles, control, session
  <2>6. QuitAlone'
    BY <1>1, <1>2, <2>1, TaskNames
       DEF Control, QuitAlone, Forcing, DaemonRecovers, Off, At, HoldsNoOther, handles, control,
           session
  <2>7. RecoveryRoles'
    BY <1>1, <1>2, <2>1, TaskNames
       DEF Control, RecoveryRoles, SpawnPlace, At, handles, control, session
  <2>8. Handles'
    BY <1>1, <1>2, <2>1, TaskNames
       DEF Control, Handles, handles, control, session, Types, HandleTypes
  <2> QED BY <2>2, <2>3, <2>4, <2>5, <2>6, <2>7, <2>8 DEF Control
<1>3. CASE p \in mine
  <2>1. /\ daemon' = IF daemon = p THEN None ELSE daemon
        /\ timers \subseteq timers' /\ timers' \subseteq timers \cup {"daemon"}
        /\ stopping \/ p \notin restartable => timers' = timers
    BY <1>3, ReapTypes
  <2>2. /\ restartable' = restartable \ {p} /\ expected' = expected \ {p} /\ mine' = mine \ {p}
        /\ p # None
    BY <1>3, SupervisorAssumption DEF Reap, SupervisorAssumption
  <2>3. daemon = p /\ daemon' = None /\ mine' = {} /\ restartable' = {} /\ expected' = {}
    BY <1>3, <2>1, <2>2 DEF Control, Handles
  <2>4. Down'
    BY <1>1, <2>1, <2>2, <2>3, TaskNames
       DEF Control, Down, UpLife, Off, At, session
  <2>5. Roles'
    BY <1>1, <2>1, <2>2, <2>3, TaskNames
       DEF Control, Roles, DaemonRecovers, Off, At, session
  <2>6. StopAlone'
    BY <1>1, <2>1, <2>2, <2>3, TaskNames
       DEF Control, StopAlone, Acting, Off, At, HoldsNoOther, StalePlace, session
  <2>7. StartAlone'
    BY <1>1, <2>1, <2>2, <2>3, TaskNames
       DEF Control, StartAlone, DaemonRecovers, Off, At, HoldsNoOther, PreSpawn, StalePlace,
           TunnelPlace, CleanupPlace, session
  <2>8. QuitAlone'
    BY <1>1, <2>1, <2>2, <2>3, TaskNames
       DEF Control, QuitAlone, Forcing, DaemonRecovers, Off, At, HoldsNoOther, session
  <2>9. RecoveryRoles'
    BY <1>1, <2>1, <2>2, <2>3, TaskNames
       DEF Control, RecoveryRoles, SpawnPlace, At, session
  <2>10. Handles'
    BY <1>1, <2>1, <2>2, <2>3, TaskNames
       DEF Control, Handles, session
  <2> QED BY <2>4, <2>5, <2>6, <2>7, <2>8, <2>9, <2>10 DEF Control
<1> QED BY <1>2, <1>3

LEMMA TunnelFailsControl ==
  ASSUME Types, Types', Control, Patient, Patient', TunnelFails
  PROVE  Control'
<1>1. UNCHANGED <<proc, busy, draining, handles, control, monitor, session, task>>
  BY DEF TunnelFails
<1>2. Down'
  BY <1>1, TaskNames
     DEF Control, Down, UpLife, Off, At, handles, control, session
<1>3. Roles'
  BY <1>1, TaskNames
     DEF Control, Roles, DaemonRecovers, Off, At, handles, control, session
<1>4. StopAlone'
  BY <1>1, TaskNames
     DEF Control, StopAlone, Acting, Off, At, HoldsNoOther, StalePlace, handles, control, session
<1>5. StartAlone'
  BY <1>1, TaskNames
     DEF Control, StartAlone, DaemonRecovers, Off, At, HoldsNoOther, PreSpawn, StalePlace,
         TunnelPlace, CleanupPlace, handles, control, session
<1>6. QuitAlone'
  BY <1>1, TaskNames
     DEF Control, QuitAlone, Forcing, DaemonRecovers, Off, At, HoldsNoOther, handles, control,
         session
<1>7. RecoveryRoles'
  BY <1>1, TaskNames
     DEF Control, RecoveryRoles, SpawnPlace, At, handles, control, session
<1>8. Handles'
  BY <1>1, TaskNames
     DEF Control, Handles, handles, control, session
<1> QED BY <1>2, <1>3, <1>4, <1>5, <1>6, <1>7, <1>8 DEF Control

LEMMA MonitorLosesTunnelControl ==
  ASSUME Types, Types', Control, Patient, Patient', MonitorLosesTunnel
  PROVE  Control'
<1>1. /\ monitor /\ ~stopping /\ tunnel' = FALSE /\ monitor' = FALSE
      /\ UNCHANGED <<machine, daemon, restartable, expected, mine, stopping, session, task>>
  BY DEF MonitorLosesTunnel
<1>2. timers \subseteq timers' /\ timers' \subseteq timers \cup {"tunnel"}
  BY MonitorLosesTunnelTypes
<1>3. Down'
  BY <1>1, <1>2, TaskNames
     DEF Control, Down, UpLife, Off, At, machine, session
<1>4. Roles'
  BY <1>1, <1>2, TaskNames
     DEF Control, Roles, DaemonRecovers, Off, At, machine, session
<1>5. StopAlone'
  BY <1>1, <1>2, TaskNames
     DEF Control, StopAlone, Acting, Off, At, HoldsNoOther, StalePlace, machine, session
<1>6. StartAlone'
  BY <1>1, <1>2, TaskNames
     DEF Control, StartAlone, DaemonRecovers, Off, At, HoldsNoOther, PreSpawn, StalePlace,
         TunnelPlace, CleanupPlace, machine, session
<1>7. QuitAlone'
  BY <1>1, <1>2, TaskNames
     DEF Control, QuitAlone, Forcing, DaemonRecovers, Off, At, HoldsNoOther, machine, session
<1>8. RecoveryRoles'
  BY <1>1, <1>2, TaskNames
     DEF Control, RecoveryRoles, SpawnPlace, At, machine, session
<1>9. Handles'
  BY <1>1, <1>2, TaskNames
     DEF Control, Handles, machine, session
<1> QED BY <1>3, <1>4, <1>5, <1>6, <1>7, <1>8, <1>9 DEF Control

LEMMA MonitorAdoptsControl ==
  ASSUME Types, Types', Control, Patient, Patient', MonitorAdopts
  PROVE  Control'
<1>1. /\ monitor
      /\ UNCHANGED <<machine, daemon, restartable, expected, mine, stopping, timers, session, task>>
  BY DEF MonitorAdopts
<1>2. Down'
  BY <1>1, TaskNames
     DEF Control, Down, UpLife, Off, At, machine, session
<1>3. Roles'
  BY <1>1, TaskNames
     DEF Control, Roles, DaemonRecovers, Off, At, machine, session
<1>4. StopAlone'
  BY <1>1, TaskNames
     DEF Control, StopAlone, Acting, Off, At, HoldsNoOther, StalePlace, machine, session
<1>5. StartAlone'
  BY <1>1, TaskNames
     DEF Control, StartAlone, DaemonRecovers, Off, At, HoldsNoOther, PreSpawn, StalePlace,
         TunnelPlace, CleanupPlace, machine, session
<1>6. QuitAlone'
  BY <1>1, TaskNames
     DEF Control, QuitAlone, Forcing, DaemonRecovers, Off, At, HoldsNoOther, machine, session
<1>7. RecoveryRoles'
  BY <1>1, TaskNames
     DEF Control, RecoveryRoles, SpawnPlace, At, machine, session
<1>8. Handles'
  BY <1>1, TaskNames
     DEF Control, Handles, machine, session
<1> QED BY <1>2, <1>3, <1>4, <1>5, <1>6, <1>7, <1>8 DEF Control

LEMMA RestartWindowPassesControl ==
  ASSUME Types, Types', Control, Patient, Patient', NEW name \in Children, RestartWindowPasses(name)
  PROVE  Control'
<1>1. UNCHANGED <<machine, handles, stopping, timers, file, monitor, session, task>>
  BY DEF RestartWindowPasses
<1>2. Down'
  BY <1>1, TaskNames
     DEF Control, Down, UpLife, Off, At, machine, handles, session
<1>3. Roles'
  BY <1>1, TaskNames
     DEF Control, Roles, DaemonRecovers, Off, At, machine, handles, session
<1>4. StopAlone'
  BY <1>1, TaskNames
     DEF Control, StopAlone, Acting, Off, At, HoldsNoOther, StalePlace, machine, handles, session
<1>5. StartAlone'
  BY <1>1, TaskNames
     DEF Control, StartAlone, DaemonRecovers, Off, At, HoldsNoOther, PreSpawn, StalePlace,
         TunnelPlace, CleanupPlace, machine, handles, session
<1>6. QuitAlone'
  BY <1>1, TaskNames
     DEF Control, QuitAlone, Forcing, DaemonRecovers, Off, At, HoldsNoOther, machine, handles,
         session
<1>7. RecoveryRoles'
  BY <1>1, TaskNames
     DEF Control, RecoveryRoles, SpawnPlace, At, machine, handles, session
<1>8. Handles'
  BY <1>1, TaskNames
     DEF Control, Handles, machine, handles, session
<1> QED BY <1>2, <1>3, <1>4, <1>5, <1>6, <1>7, <1>8 DEF Control

LEMMA StutterControl == ASSUME Control, UNCHANGED vars PROVE Control'
<1>1. Down'
  BY TaskNames
     DEF Control, Down, UpLife, Off, At, vars, machine, handles, control, session
<1>2. Roles'
  BY TaskNames
     DEF Control, Roles, DaemonRecovers, Off, At, vars, machine, handles, control, session
<1>3. StopAlone'
  BY TaskNames
     DEF Control, StopAlone, Acting, Off, At, HoldsNoOther, StalePlace, vars, machine, handles,
         control, session
<1>4. StartAlone'
  BY TaskNames
     DEF Control, StartAlone, DaemonRecovers, Off, At, HoldsNoOther, PreSpawn, StalePlace,
         TunnelPlace, CleanupPlace, vars, machine, handles, control, session
<1>5. QuitAlone'
  BY TaskNames
     DEF Control, QuitAlone, Forcing, DaemonRecovers, Off, At, HoldsNoOther, vars, machine,
         handles, control, session
<1>6. RecoveryRoles'
  BY TaskNames
     DEF Control, RecoveryRoles, SpawnPlace, At, vars, machine, handles, control, session
<1>7. Handles'
  BY TaskNames
     DEF Control, Handles, vars, machine, handles, control, session
<1> QED BY <1>1, <1>2, <1>3, <1>4, <1>5, <1>6, <1>7 DEF Control

LEMMA ControlInit == ASSUME Init PROVE Control
<1>1. \A t \in Tasks : task[t] = NoTask /\ task[t].at = "off"
  BY NoTaskIsOff DEF Init
<1>2. /\ proc = [p \in Proc |-> "gone"] /\ daemon = None /\ tunnel = FALSE
      /\ restartable = {} /\ expected = {} /\ mine = {}
      /\ stopping = FALSE /\ monitor = FALSE /\ timers = {} /\ file.own = FALSE
      /\ life = "up" /\ op = "none"
  BY NoMarkerType DEF Init
<1>3. Down
  BY <1>1, <1>2, TaskNames
     DEF Down, UpLife, Off, At
<1>4. Roles
  BY <1>1, <1>2, TaskNames
     DEF Roles, DaemonRecovers, Off, At
<1>5. StopAlone
  BY <1>1, <1>2, TaskNames
     DEF StopAlone, Acting, Off, At, HoldsNoOther, StalePlace
<1>6. StartAlone
  BY <1>1, <1>2, TaskNames
     DEF StartAlone, DaemonRecovers, Off, At, HoldsNoOther, PreSpawn, StalePlace, TunnelPlace,
         CleanupPlace
<1>7. QuitAlone
  BY <1>1, <1>2, TaskNames
     DEF QuitAlone, Forcing, DaemonRecovers, Off, At, HoldsNoOther
<1>8. RecoveryRoles
  BY <1>1, <1>2, TaskNames
     DEF RecoveryRoles, SpawnPlace, At
<1>9. Handles
  BY <1>1, <1>2, TaskNames
     DEF Handles
<1> QED BY <1>3, <1>4, <1>5, <1>6, <1>7, <1>8, <1>9 DEF Control

-----------------------------------------------------------------------------
(* The control, always *)

\* What a step may spend; only a quit, an end or a launch changes what the launcher is.
Spends ==
    /\ UNCHANGED life
    /\ UNCHANGED budget \/ Fault \/ Late \/ Spend("setups")

LEMMA StepSpends ==
  ASSUME [Next]_vars
  PROVE  \/ Spends
         \/ RequestQuit \/ LauncherExits \/ LauncherCrashes \/ LauncherStarts
<1>1. CASE TaskAction
  <2> SUFFICES ASSUME NEW t \in Tasks \ {"quit"}, TunnelStep(t) \/ DaemonStep(t) \/ EndStep(t)
               PROVE  Spends
    BY <1>1 DEF TaskAction
  <2>1. CASE TunnelStep(t)
    BY <2>1 DEF TunnelStep, TunnelStatus, TunnelStop, TunnelConnect, TunnelVerify, TunnelCleanup,
                session, Spends
  <2>2. CASE DaemonStep(t)
    BY <2>2 DEF DaemonStep, StartDaemon, ResumeDaemon, WaitForProxy, StopChild, ChildStopped,
                session, Spends
  <2>3. CASE EndStep(t)
    BY <2>3 DEF EndStep, StaleInspects, StaleTunnel, Drain, Shutdown, AwaitExit, session, Spends
  <2> QED BY <2>1, <2>2, <2>3
<1>2. CASE StartAction
  BY <1>2 DEF StartAction, StartStep, StartupStarts, StartProbes, CleanupBegins, CleanupTunnel,
              StopsTunnel, session, Spends
<1>3. CASE StopAction
  BY <1>3
    DEF StopAction, StopStep, SetupStops, SetupStarts, StopSettlesStart, StopSettlesRecoveries,
              StartSettled, RecoveriesSettled, StopInspects, StopFindsNoDaemon, StopTunnel,
              StopsTunnel, UndoDaemon, UndoReady, UndoTunnelReady, session, Spends
<1>4. CASE QuitAction
  BY <1>4
    DEF QuitAction, QuitStep, ForceStep, CancelTurns, QuitDeadline, ForceSettles, ForceTunnel,
              ForceDaemon, ForceEnds, RecoveriesSettled, session, Spends
<1>5. CASE RecoveryAction
  BY <1>5 DEF RecoveryAction, RecoveryChecks, RecoveryEnds, TimerFires, session, Spends
<1>6. CASE Event
  BY <1>6 DEF Event, DaemonEvent, Boots, BeginTurn, EndTurn, Closes, Dies, Reap, TunnelFails,
              MonitorLosesTunnel, MonitorAdopts, RestartWindowPasses, session, Spends
<1>7. CASE UNCHANGED vars
  BY <1>7 DEF vars, session, Spends
<1> QED BY <1>1, <1>2, <1>3, <1>4, <1>5, <1>6, <1>7, Steps

\* A launcher that has been patient so far was patient before.
LEMMA PatientBefore ==
  ASSUME Types, [Next]_vars, Patient'
  PROVE  Patient
<1>1. CASE LauncherStarts
  <2>1. budget'.launches # MaxLaunches /\ budget' = [budget EXCEPT !["launches"] = @ - 1]
    BY <1>1, LauncherStartsTypes DEF LauncherStarts, Spend
  <2>2. budget'.late = budget.late
    BY <2>1 DEF Types, ControlTypes, Budget
  <2> QED BY <2>1, <2>2 DEF Patient
<1>2. CASE LauncherCrashes
  <2>1. budget' = [budget EXCEPT !["crashes"] = @ - 1] /\ life' = "crashed"
    BY <1>2 DEF LauncherCrashes, Spend
  <2>2. budget'.late = budget.late
    BY <2>1 DEF Types, ControlTypes, Budget
  <2> QED BY <2>1, <2>2 DEF Patient
<1>3. CASE RequestQuit \/ LauncherExits
  <2>1. UNCHANGED budget /\ life' # "up"
    BY <1>3 DEF RequestQuit, LauncherExits
  <2> QED BY <2>1 DEF Patient
<1>4. CASE Spends
  <2>1. UNCHANGED life /\ (UNCHANGED budget \/ Fault \/ Late \/ Spend("setups"))
    BY <1>4 DEF Spends
  <2>2. CASE Late
    BY <2>2, LateCosts DEF Patient
  <2>3. CASE Spend("faults") \/ Spend("setups")
    <3>1. budget'.late = budget.late /\ budget'.launches = budget.launches
      BY <2>3 DEF Spend, Types, ControlTypes, Budget
    <3> QED BY <2>1, <3>1 DEF Patient
  <2>4. CASE UNCHANGED budget
    BY <2>1, <2>4 DEF Patient
  <2> QED BY <2>1, <2>2, <2>3, <2>4 DEF Fault
<1> QED BY <1>1, <1>2, <1>3, <1>4, StepSpends

LEMMA ControlNext == ASSUME Types, Control, Patient, Patient', [Next]_vars PROVE Control'
<1>0. Types'
  BY TypesNext
<1>1. CASE TaskAction
  <2> SUFFICES ASSUME NEW t \in Tasks \ {"quit"}, TunnelStep(t) \/ DaemonStep(t) \/ EndStep(t)
               PROVE  Control'
    BY <1>1 DEF TaskAction
  <2>1. CASE TunnelStep(t)
    BY <1>0, <2>1, TunnelStatusControl, TunnelStopControl, TunnelConnectControl,
        TunnelVerifyControl,
       TunnelCleanupControl DEF TunnelStep
  <2>2. CASE DaemonStep(t)
    BY <1>0, <2>2, StartDaemonControl, ResumeDaemonControl, WaitForProxyControl, StopChildControl,
       ChildStoppedControl DEF DaemonStep
  <2>3. CASE EndStep(t)
    BY <1>0, <2>3, StaleInspectsControl, StaleTunnelControl, DrainControl, ShutdownControl,
       AwaitExitControl DEF EndStep
  <2> QED BY <2>1, <2>2, <2>3
<1>2. CASE StartAction
  BY <1>0, <1>2, StartupStartsControl, StartProbesControl, CleanupBeginsControl,
      CleanupTunnelControl
     DEF StartAction, StartStep
<1>3. CASE StopAction
  BY <1>0, <1>3, SetupStopsControl, SetupStartsControl, StopSettlesStartControl,
     StopSettlesRecoveriesControl, StopInspectsControl, StopFindsNoDaemonControl,
     StopTunnelControl,
     UndoDaemonControl, UndoReadyControl, UndoTunnelReadyControl DEF StopAction, StopStep
<1>4. CASE QuitAction
  BY <1>0, <1>4, RequestQuitControl, CancelTurnsControl, QuitDeadlineControl, ForceSettlesControl,
     ForceTunnelControl, ForceDaemonControl, ForceEndsControl, LauncherExitsControl,
     LauncherCrashesControl, LauncherStartsControl DEF QuitAction, QuitStep, ForceStep
<1>5. CASE RecoveryAction
  BY <1>0, <1>5, RecoveryChecksControl, RecoveryEndsControl, TimerFiresControl DEF RecoveryAction
<1>6. CASE Event
  BY <1>0, <1>6, DaemonEventControl, ReapControl, TunnelFailsControl, MonitorLosesTunnelControl,
     MonitorAdoptsControl, RestartWindowPassesControl DEF Event
<1>7. CASE UNCHANGED vars
  BY <1>7, StutterControl
<1> QED BY <1>1, <1>2, <1>3, <1>4, <1>5, <1>6, <1>7, Steps

LEMMA ControlAlways == Spec => [](Patient => Control)
<1>1. Init => (Patient => Control)
  BY ControlInit
<1>2. Types /\ (Patient => Control) /\ [Next]_vars => (Patient => Control)'
  BY ControlNext, PatientBefore
<1> QED BY <1>1, <1>2, TypesAlways, PTL DEF Spec

-----------------------------------------------------------------------------
(* The marker and the orphans *)

\* The marker names the daemon of this launcher; a process that is not its child is an orphan of
\* a launcher that crashed, and the first one is named by the marker.
Marked == daemon # None => file.daemon = daemon
NoOrphan == budget.crashes = MaxCrashes => \A p \in Proc : Alive(p) => p \in mine
FirstOrphan == budget.crashes + 1 >= MaxCrashes => OrphansAreMarked
Orphans == Marked /\ NoOrphan /\ FirstOrphan

\* Who writes the marker names the daemon that is left.
Marks == \/ daemon' = None
         \/ file'.daemon = daemon'
         \/ daemon' = daemon /\ file' = file

LEMMA ThrownMarks ==
  ASSUME Types, Types', NEW t \in Tasks \ {"quit"}, Throws(t), UNCHANGED daemon
  PROVE  Marks
BY ThrowsMoves, TaskNames DEF Types, HandleTypes, Thrown, control, Marks

LEMMA StopSettlesMarks ==
  ASSUME Types, Types', NEW ok \in BOOLEAN, NEW status \in {"none", "ready", "failed"},
         StopSettles(ok, status), ok \/ status # "none", ok => daemon' = None
  PROVE  Marks
<1>1. daemon' \in Proc \cup {None} /\ tunnel' \in BOOLEAN
  BY DEF Types, HandleTypes
<1>2. CASE ~ok
  <2>1. file' = Marker(status, daemon', tunnel')
    BY <1>2 DEF StopSettles
  <2> QED BY <1>1, <1>2, <2>1, MarkerType DEF Marks
<1> QED BY <1>2 DEF Marks

LEMMA StaleMarks ==
  ASSUME Types, Types', Control, NEW t \in {"start", "stop"}, task[t].at \in StalePlace,
         StaleDone(t) \/ StaleFails(t)
  PROVE  Marks
<1>1. daemon = None
  BY DEF Control, StartAlone, PreSpawn, StopAlone
<1>2. UNCHANGED daemon
  BY StaleDoneMoves, StaleFailsMoves
<1> QED BY <1>1, <1>2 DEF Marks

LEMMA FailsMarks ==
  ASSUME Types, Types', Control, NEW t \in Tasks \ {"quit"}, Fails(t), task[t].at \in EndPlace
  PROVE  Marks
<1>1. UNCHANGED daemon /\ t \in {"start", "stop"}
  BY FailsMoves
<1>2. CASE task[t].at \in StaleWait
  <2>1. StaleFails(t) /\ task[t].at \in StalePlace
    BY <1>2, FailsMoves DEF StaleWait, StalePlace
  <2> QED BY <1>1, <2>1, StaleMarks
<1>3. CASE task[t].at \notin StaleWait /\ t = "start"
  <2>1. CleanupEnds
    BY <1>3, FailsMoves
  <2> QED BY <2>1, CleanupEndsMoves DEF Types, HandleTypes, Marks
<1>4. CASE task[t].at \notin StaleWait /\ t = "stop"
  <2>1. Undo
    BY <1>4, FailsMoves
  <2> QED BY <1>1, <2>1, UndoMoves DEF Types, control, Marks
<1> QED BY <1>1, <1>2, <1>3, <1>4

LEMMA StepMarks ==
  ASSUME Types, Types', Control, [Next]_vars
  PROVE  Marks
<1>1. CASE TaskAction
  <2> SUFFICES ASSUME NEW t \in Tasks \ {"quit"}, TunnelStep(t) \/ DaemonStep(t) \/ EndStep(t)
               PROVE  Marks
    BY <1>1 DEF TaskAction
  <2>1. CASE TunnelStep(t)
    <3>1. UNCHANGED daemon
      BY <2>1
        DEF TunnelStep, TunnelStatus, TunnelStop, TunnelConnect, TunnelVerify, TunnelCleanup,
                  handles
    <3>2. UNCHANGED file \/ Throws(t)
      BY <2>1
        DEF TunnelStep, TunnelStatus, TunnelStop, TunnelConnect, TunnelVerify, TunnelCleanup,
                  Proceeds, control
    <3> QED BY <3>1, <3>2, ThrownMarks DEF Marks
  <2>2. CASE StartDaemon(t)
    <3>1. UNCHANGED <<daemon, file>> \/ file' = Spawned(daemon')
      BY <2>2 DEF StartDaemon, handles
    <3>2. CASE file' = Spawned(daemon')
      BY <3>2 DEF Spawned, Marker, Marks
    <3> QED BY <3>1, <3>2 DEF Marks
  <2>3. CASE ResumeDaemon(t) \/ WaitForProxy(t) \/ StopChild(t) \/ ChildStopped(t)
    <3>1. UNCHANGED daemon
      BY <2>3 DEF ResumeDaemon, WaitForProxy, StopChild, ChildStopped, handles
    <3>2. UNCHANGED file \/ Throws(t) \/ file' = Marker("ready", daemon, tunnel)
      BY <2>3 DEF ResumeDaemon, WaitForProxy, StopChild, ChildStopped, Proceeds, control
    <3>3. CASE file' = Marker("ready", daemon, tunnel)
      BY <3>1, <3>3 DEF Marker, Marks
    <3> QED BY <3>1, <3>2, <3>3, ThrownMarks DEF Marks
  <2>4. CASE StaleInspects(t) \/ StaleTunnel(t)
    <3>1. /\ t \in {"start", "stop"} /\ UNCHANGED daemon /\ task[t].at \in StalePlace
          /\ StaleDone(t) \/ StaleFails(t) \/ UNCHANGED file
      BY <2>4, StaleInspectsTypes, StaleTunnelTypes
         DEF StaleInspects, StaleTunnel, StaleDone, StaleFails, Proceeds, control, At, StalePlace
    <3> QED BY <3>1, StaleMarks DEF Marks
  <2>5. CASE Drain(t) \/ Shutdown(t)
    <3>1. /\ task[t].at \in EndPlace
          /\ Fails(t) \/ UNCHANGED <<daemon, file>>
      BY <2>5, DrainTypes, ShutdownTypes DEF Drain, Shutdown, control
    <3> QED BY <3>1, FailsMarks DEF Marks
  <2>6. CASE AwaitExit(t)
    <3>1. /\ task[t].at \in EndPlace
          /\ Fails(t) \/ UNCHANGED <<daemon, file>> \/ daemon' = None
      BY <2>6, AwaitExitTypes DEF AwaitExit, ExitDone, Proceeds, control
    <3> QED BY <3>1, FailsMarks DEF Marks
  <2> QED BY <2>1, <2>2, <2>3, <2>4, <2>5, <2>6 DEF DaemonStep, EndStep
<1>2. CASE StartAction
  <2>1. CASE CleanupTunnel
    <3>1. CleanupEnds
      BY <2>1, CleanupTunnelTypes
    <3> QED BY <3>1, CleanupEndsMoves DEF Types, HandleTypes, Marks
  <2>2. CASE StartupStarts \/ StartProbes \/ CleanupBegins
    BY <2>2 DEF StartupStarts, StartProbes, CleanupBegins, Proceeds, control, handles, Marks
  <2> QED BY <1>2, <2>1, <2>2 DEF StartAction, StartStep
<1>3. CASE StopAction
  <2>1. UNCHANGED daemon
    BY <1>3
      DEF StopAction, StopStep, SetupStops, SetupStarts, StopSettlesStart, StopSettlesRecoveries,
                StopInspects, StopFindsNoDaemon, StopTunnel, UndoDaemon, UndoReady,
                UndoTunnelReady,
                handles
  <2>2. \/ UNCHANGED file
        \/ StopSettles(TRUE, "none") /\ daemon' = None
        \/ StopSettles(FALSE, "ready") \/ StopSettles(FALSE, "failed")
    BY <1>3
      DEF StopAction, StopStep, SetupStops, SetupStarts, StopSettlesStart, StopSettlesRecoveries,
                StopInspects, StopFindsNoDaemon, StopTunnel, UndoDaemon, UndoReady,
                UndoTunnelReady,
                Proceeds, Undo, control
  <2> QED BY <2>1, <2>2, StopSettlesMarks DEF Marks
<1>4. CASE QuitAction
  <2>1. CASE ForceEnds
    <3>1. (At("quit", "force.daemon") /\ daemon = None)
          \/ (At("quit", "force.killed") /\ proc[task["quit"].child] = "gone")
      BY <2>1 DEF ForceEnds
    <3>2. daemon = None
      BY <3>1 DEF Control, QuitAlone, Handles, HoldsNoOther
    <3> QED BY <2>1, <3>2 DEF ForceEnds, handles, Marks
  <2>2. CASE LauncherExits \/ LauncherCrashes
    BY <2>2 DEF LauncherExits, LauncherCrashes, LauncherGone, Marks
  <2>3. CASE RequestQuit \/ CancelTurns \/ QuitDeadline \/ ForceSettles \/ ForceTunnel \/ ForceDaemon
             \/ LauncherStarts
    BY <2>3 DEF RequestQuit, CancelTurns, QuitDeadline, ForceSettles, ForceTunnel, ForceDaemon,
                LauncherStarts, Proceeds, control, handles, Marks
  <2> QED BY <1>4, <2>1, <2>2, <2>3 DEF QuitAction, QuitStep, ForceStep
<1>5. CASE RecoveryAction
  <2> SUFFICES ASSUME NEW r \in Recoveries, RecoveryChecks(r) \/ RecoveryEnds(r)
                      \/ \E name \in Children : TimerFires(name, r)
               PROVE  Marks
    BY <1>5 DEF RecoveryAction
  <2>1. UNCHANGED daemon
    BY DEF RecoveryChecks, RecoveryEnds, TimerFires, handles
  <2>2. \/ UNCHANGED file \/ Throws(r)
        \/ \E tn : file' = Marker("ready", daemon, tn)
    BY DEF RecoveryChecks, RecoveryEnds, TimerFires, Proceeds, control
  <2>3. CASE \E tn : file' = Marker("ready", daemon, tn)
    BY <2>1, <2>3 DEF Marker, Marks
  <2> QED BY <2>1, <2>2, <2>3, ThrownMarks, TaskNames DEF Marks
<1>6. CASE Event
  <2> SUFFICES ASSUME \/ \E p \in Proc : DaemonEvent(p) \/ Reap(p)
                      \/ TunnelFails \/ MonitorLosesTunnel \/ MonitorAdopts
                      \/ \E name \in Children : RestartWindowPasses(name)
               PROVE  Marks
    BY <1>6 DEF Event
  <2>1. CASE \E p \in Proc : DaemonEvent(p) \/ Reap(p)
    <3> PICK p \in Proc : DaemonEvent(p) \/ Reap(p)
      BY <2>1
    <3>1. CASE DaemonEvent(p)
      BY <3>1, DaemonEventTypes DEF handles, control, Marks
    <3>2. CASE Reap(p)
      BY <3>2, ReapTypes DEF handles, control, Marks
    <3> QED BY <3>1, <3>2
  <2>2. CASE \/ TunnelFails \/ MonitorLosesTunnel \/ MonitorAdopts
             \/ \E name \in Children : RestartWindowPasses(name)
    BY <2>2, MonitorLosesTunnelTypes, MonitorAdoptsTypes
       DEF TunnelFails, MonitorLosesTunnel, MonitorAdopts, RestartWindowPasses, handles, control,
           Marks
  <2> QED BY <2>1, <2>2
<1>7. CASE UNCHANGED vars
  BY <1>7 DEF vars, handles, control, Marks
<1> QED BY <1>1, <1>2, <1>3, <1>4, <1>5, <1>6, <1>7, Steps

\* Nobody else starts or ends a child.
Bears(p) == /\ daemon = None /\ daemon' = p /\ mine' = mine \cup {p}
            /\ \A q \in Proc \ {p} : proc'[q] = proc[q]
Loses(p) == /\ proc'[p] = "gone" /\ mine \ {p} \subseteq mine'
            /\ \A q \in Proc \ {p} : proc'[q] = proc[q]
KeepsChildren == mine' = mine /\ \A p \in Proc : Alive(p)' => Alive(p)

LEMMA StepBears ==
  ASSUME Types, Types', [Next]_vars
  PROVE  \/ KeepsChildren
         \/ \E p \in Proc : Bears(p) \/ Loses(p)
         \/ LauncherExits \/ LauncherCrashes
<1>1. CASE TaskAction
  <2> SUFFICES ASSUME NEW t \in Tasks \ {"quit"}, TunnelStep(t) \/ DaemonStep(t) \/ EndStep(t)
               PROVE  KeepsChildren \/ \E p \in Proc : Bears(p) \/ Loses(p)
    BY <1>1 DEF TaskAction
  <2>1. CASE TunnelStep(t)
    BY <2>1 DEF TunnelStep, TunnelStatus, TunnelStop, TunnelConnect, TunnelVerify, TunnelCleanup,
                handles, machine, KeepsChildren, Alive
  <2>2. CASE StartDaemon(t)
    <3>1. CASE daemon # None /\ UNCHANGED <<proc, draining, handles, file>>
      BY <3>1 DEF handles, KeepsChildren, Alive
    <3>2. CASE daemon = None
      <4>1. PICK p \in Proc : /\ proc' = [proc EXCEPT ![p] = "booting"] /\ daemon' = p
                              /\ mine' = mine \cup {p}
        BY <2>2, <3>2 DEF StartDaemon
      <4>2. \A q \in Proc \ {p} : proc'[q] = proc[q]
        BY <4>1
      <4> QED BY <3>2, <4>1, <4>2 DEF Bears
    <3> QED BY <2>2, <3>1, <3>2 DEF StartDaemon
  <2>3. CASE ResumeDaemon(t) \/ WaitForProxy(t) \/ ChildStopped(t)
    BY <2>3 DEF ResumeDaemon, WaitForProxy, ChildStopped, handles, machine, KeepsChildren, Alive
  <2>4. CASE StopChild(t)
    <3>1. daemon \in Proc /\ mine' = mine
      BY <2>4, StopChildTypes DEF StopChild
    <3>2. /\ \A p \in Proc \ {daemon} : proc'[p] = proc[p]
          /\ proc'[daemon] = IF Alive(daemon) THEN "dead" ELSE proc[daemon]
      BY <2>4, <3>1, TerminatesTypes DEF StopChild, Types
    <3> QED BY <3>1, <3>2 DEF KeepsChildren, Alive
  <2>5. CASE EndStep(t) /\ ~Shutdown(t)
    BY <2>5
      DEF EndStep, StaleInspects, StaleTunnel, Drain, AwaitExit, machine, KeepsChildren, Alive
  <2>6. CASE Shutdown(t)
    <3>1. mine' = mine /\ (UNCHANGED proc \/ \E p \in Targets(t) : proc' = [proc EXCEPT ![p] = "closing"])
      BY <2>6 DEF Shutdown
    <3>2. CASE \E p \in Targets(t) : proc' = [proc EXCEPT ![p] = "closing"]
      <4>1. PICK p \in Targets(t) : proc' = [proc EXCEPT ![p] = "closing"]
        BY <3>2
      <4>2. p \in Proc /\ Alive(p)
        BY DEF Targets, Listening, Healthy, Alive
      <4>3. \A q \in Proc \ {p} : proc'[q] = proc[q]
        BY <4>1
      <4> QED BY <3>1, <4>2, <4>3 DEF KeepsChildren, Alive
    <3> QED BY <3>1, <3>2 DEF KeepsChildren, Alive
  <2> QED BY <2>1, <2>2, <2>3, <2>4, <2>5, <2>6 DEF DaemonStep, EndStep
<1>2. CASE StartAction
  BY <1>2 DEF StartAction, StartStep, StartupStarts, StartProbes, CleanupBegins, CleanupTunnel,
              machine, handles, KeepsChildren, Alive
<1>3. CASE StopAction
  BY <1>3
    DEF StopAction, StopStep, SetupStops, SetupStarts, StopSettlesStart, StopSettlesRecoveries,
              StopInspects, StopFindsNoDaemon, StopTunnel, UndoDaemon, UndoReady, UndoTunnelReady,
              machine, handles, KeepsChildren, Alive
<1>4. CASE QuitAction
  <2>1. CASE ForceDaemon
    <3>1. daemon \in Proc /\ mine' = mine
      BY <2>1, ForceDaemonTypes DEF ForceDaemon
    <3>2. /\ \A p \in Proc \ {daemon} : proc'[p] = proc[p]
          /\ proc'[daemon] = IF Alive(daemon) THEN "dead" ELSE proc[daemon]
      BY <2>1, <3>1, TerminatesTypes DEF ForceDaemon, Types
    <3> QED BY <3>1, <3>2 DEF KeepsChildren, Alive
  <2>2. CASE RequestQuit \/ CancelTurns \/ QuitDeadline \/ ForceSettles \/ ForceTunnel \/ ForceEnds
             \/ LauncherStarts
    BY <2>2 DEF RequestQuit, CancelTurns, QuitDeadline, ForceSettles, ForceTunnel, ForceEnds,
                LauncherStarts, machine, handles, KeepsChildren, Alive
  <2> QED BY <1>4, <2>1, <2>2 DEF QuitAction, QuitStep, ForceStep
<1>5. CASE RecoveryAction
  BY <1>5 DEF RecoveryAction, RecoveryChecks, RecoveryEnds, TimerFires, machine, handles,
              KeepsChildren, Alive
<1>6. CASE Event
  <2> SUFFICES ASSUME \/ \E p \in Proc : DaemonEvent(p) \/ Reap(p)
                      \/ TunnelFails \/ MonitorLosesTunnel \/ MonitorAdopts
                      \/ \E name \in Children : RestartWindowPasses(name)
               PROVE  KeepsChildren \/ \E p \in Proc : Bears(p) \/ Loses(p)
    BY <1>6 DEF Event
  <2>1. CASE \E p \in Proc : DaemonEvent(p) \/ Reap(p)
    <3> PICK p \in Proc : DaemonEvent(p) \/ Reap(p)
      BY <2>1
    <3>1. CASE DaemonEvent(p)
      <4>1. proc[p] # "dead" \/ proc'[p] = "dead"
        BY <3>1, DaemonEventTypes
      <4>2. proc[p] \in {"booting", "serving", "closing", "dead", "gone"}
        BY DEF Types, HandleTypes
      <4>3. /\ mine' = mine /\ proc[p] # "gone" /\ \A q \in Proc \ {p} : proc'[q] = proc[q]
        BY <3>1, DaemonEventTypes DEF handles
      <4> QED BY <4>1, <4>2, <4>3, SupervisorAssumption
                DEF KeepsChildren, Alive, SupervisorAssumption
    <3>2. CASE Reap(p)
      <4>1. proc'[p] = "gone" /\ \A q \in Proc \ {p} : proc'[q] = proc[q]
        BY <3>2, ReapTypes
      <4>2. mine \ {p} \subseteq mine'
        BY <3>2 DEF Reap, handles
      <4> QED BY <4>1, <4>2 DEF Loses
    <3> QED BY <3>1, <3>2
  <2>2. CASE \/ TunnelFails \/ MonitorLosesTunnel \/ MonitorAdopts
             \/ \E name \in Children : RestartWindowPasses(name)
    BY <2>2
      DEF TunnelFails, MonitorLosesTunnel, MonitorAdopts, RestartWindowPasses, machine, handles,
                KeepsChildren, Alive
  <2> QED BY <2>1, <2>2
<1>7. CASE UNCHANGED vars
  BY <1>7 DEF vars, machine, handles, KeepsChildren, Alive
<1> QED BY <1>1, <1>2, <1>3, <1>4, <1>5, <1>6, <1>7, Steps

\* A launcher that has crashed does nothing more to its marker.
LEMMA CrashedStays ==
  ASSUME Types, Control, [Next]_vars, life = "crashed", life' = "crashed"
  PROVE  /\ file' = file /\ mine = {}
         /\ \A p \in Proc : Alive(p)' => Alive(p)
<1>1. /\ \A t \in Tasks : task[t].at = "off"
      /\ daemon = None /\ ~monitor /\ timers = {} /\ ~pending /\ ~UpLife /\ mine = {}
      /\ op = "none"
  BY DEF Control, Down, Handles, UpLife, Off, At
<1>2. CASE TaskAction
  <2> SUFFICES ASSUME NEW t \in Tasks \ {"quit"}, TunnelStep(t) \/ DaemonStep(t) \/ EndStep(t)
               PROVE  FALSE
    BY <1>2 DEF TaskAction
  <2> QED BY <1>1
            DEF TunnelStep, TunnelStatus, TunnelStop, TunnelConnect, TunnelVerify, TunnelCleanup,
               DaemonStep, StartDaemon, ResumeDaemon, WaitForProxy, StopChild, ChildStopped,
               EndStep, StaleInspects, StaleTunnel, Drain, Shutdown, AwaitExit, At
<1>3. CASE StartAction
  BY <1>1, <1>3, TaskNames DEF StartAction, StartStep, StartupStarts, StartProbes, CleanupBegins,
                               CleanupTunnel, At
<1>4. CASE StopAction
  BY <1>1, <1>4, TaskNames
     DEF StopAction, StopStep, SetupStops, SetupStarts, StopSettlesStart, StopSettlesRecoveries,
         StopInspects, StopFindsNoDaemon, StopTunnel, UndoDaemon, UndoReady, UndoTunnelReady, At
<1>5. CASE QuitAction
  BY <1>1, <1>5, TaskNames
     DEF QuitAction, QuitStep, ForceStep, RequestQuit, CancelTurns, QuitDeadline, ForceSettles,
         ForceTunnel, ForceDaemon, ForceEnds, LauncherExits, LauncherCrashes, LauncherStarts, At,
         UpLife
<1>6. CASE RecoveryAction
  BY <1>1, <1>6, TaskNames DEF RecoveryAction, RecoveryChecks, RecoveryEnds, TimerFires, At
<1>7. CASE Event
  <2>1. CASE \E p \in Proc : DaemonEvent(p)
    <3> PICK p \in Proc : DaemonEvent(p)
      BY <2>1
    <3>1. file' = file /\ (proc[p] # "dead" \/ proc'[p] = "dead")
      BY DaemonEventTypes DEF control
    <3>2. proc[p] \in {"booting", "serving", "closing", "dead", "gone"} /\ proc[p] # "gone"
      BY DaemonEventTypes DEF Types, HandleTypes
    <3>3. \A q \in Proc \ {p} : proc'[q] = proc[q]
      BY DaemonEventTypes
    <3> QED BY <1>1, <3>1, <3>2, <3>3, SupervisorAssumption DEF Alive, SupervisorAssumption
  <2>2. CASE \E p \in Proc : Reap(p)
    <3> PICK p \in Proc : Reap(p)
      BY <2>2
    <3>1. /\ file' = file /\ proc'[p] = "gone" /\ \A q \in Proc \ {p} : proc'[q] = proc[q]
      BY <1>1, ReapTypes DEF control
    <3> QED BY <1>1, <3>1 DEF Alive
  <2>3. CASE TunnelFails
    BY <1>1, <2>3 DEF TunnelFails, control, Alive
  <2> QED BY <1>1, <1>7, <2>1, <2>2, <2>3
          DEF Event, MonitorLosesTunnel, MonitorAdopts, RestartWindowPasses
<1>8. CASE UNCHANGED vars
  BY <1>1, <1>8 DEF vars, machine, control, Alive
<1> QED BY <1>2, <1>3, <1>4, <1>5, <1>6, <1>7, <1>8, Steps

\* The budget of crashes is spent by crashes only.
LEMMA CrashesLeft ==
  ASSUME Types, [Next]_vars
  PROVE  /\ budget.crashes \in 0..MaxCrashes /\ budget'.crashes \in {budget.crashes, budget.crashes - 1}
         /\ LauncherCrashes => budget'.crashes = budget.crashes - 1 /\ budget.crashes # 0
<1>1. budget.crashes \in 0..MaxCrashes
  BY DEF Types, ControlTypes, Budget
<1>2. CASE LauncherCrashes
  <2>1. Spend("crashes") /\ ControlTypes
    BY <1>2 DEF LauncherCrashes, Types
  <2> QED BY <1>1, <1>2, <2>1, Costs
<1>3. ASSUME ~LauncherCrashes PROVE budget'.crashes = budget.crashes
  <2>1. \/ UNCHANGED budget \/ Spend("faults") \/ Spend("late") \/ Spend("setups") \/ Spend("launches")
    BY <1>3, StepSpends DEF Spends, RequestQuit, LauncherExits, LauncherStarts, Fault, Late
  <2> QED BY <2>1, Costs DEF Types
<1> QED BY <1>1, <1>2, <1>3

LEMMA OrphansInit == ASSUME Init PROVE Orphans
<1>1. daemon = None /\ life = "up" /\ \A p \in Proc : ~Alive(p)
  BY DEF Init, Alive
<1> QED BY <1>1 DEF Orphans, Marked, NoOrphan, FirstOrphan, OrphansAreMarked

LEMMA OrphansNext ==
  ASSUME Types, Control, Patient, Patient', Orphans, [Next]_vars
  PROVE  Orphans'
<1>0. Types' /\ Control'
  BY TypesNext, ControlNext
<1>1. Marked'
  <2>1. Marks
    BY <1>0, StepMarks
  <2> QED BY <2>1 DEF Marks, Orphans, Marked
<1>2. MaxCrashes \in Nat
  BY SupervisorAssumption DEF SupervisorAssumption
<1>3. /\ budget.crashes \in 0..MaxCrashes /\ budget'.crashes \in {budget.crashes, budget.crashes - 1}
      /\ LauncherCrashes => budget'.crashes = budget.crashes - 1 /\ budget.crashes # 0
  BY CrashesLeft
<1>4. NoOrphan'
  <2> SUFFICES ASSUME budget'.crashes = MaxCrashes
               PROVE  \A p \in Proc : Alive(p)' => p \in mine'
    BY DEF NoOrphan
  <2>1. budget.crashes = MaxCrashes /\ ~LauncherCrashes
    BY <1>2, <1>3
  <2>2. \A p \in Proc : Alive(p) => p \in mine
    BY <2>1 DEF Orphans, NoOrphan
  <2>3. CASE KeepsChildren
    BY <2>2, <2>3 DEF KeepsChildren
  <2>4. CASE \E p \in Proc : Bears(p)
    BY <2>2, <2>4 DEF Bears, Alive
  <2>5. CASE \E p \in Proc : Loses(p)
    BY <2>2, <2>5 DEF Loses, Alive
  <2>6. CASE LauncherExits
    <3>1. At("quit", "exit") /\ proc' = proc
      BY <2>6 DEF LauncherExits, LauncherGone, machine
    <3>2. mine = {}
      BY <3>1 DEF Control, QuitAlone, Handles
    <3> QED BY <2>2, <3>1, <3>2 DEF Alive
  <2> QED BY <1>0, <2>1, <2>3, <2>4, <2>5, <2>6, StepBears
<1>5. FirstOrphan'
  <2> SUFFICES ASSUME budget'.crashes + 1 >= MaxCrashes, life' = "crashed"
               PROVE  \A p \in Proc : Alive(p)' => file'.daemon = p
    BY DEF FirstOrphan, OrphansAreMarked
  <2>1. CASE LauncherCrashes
    <3>1. budget.crashes = MaxCrashes
      BY <1>2, <1>3, <2>1
    <3>2. \A p \in Proc : Alive(p) => p \in mine
      BY <3>1 DEF Orphans, NoOrphan
    <3>3. \A p \in mine : p = daemon /\ daemon # None
      BY DEF Control, Handles
    <3>4. proc' = proc /\ file'.daemon = file.daemon
      BY <2>1, GoneTypes DEF LauncherCrashes, LauncherGone, machine
    <3> QED BY <3>2, <3>3, <3>4 DEF Orphans, Marked, Alive
  <2>2. CASE ~LauncherCrashes
    <3>1. life = "crashed"
      BY <2>2, StepSpends DEF Spends, RequestQuit, LauncherExits, LauncherStarts
    <3>2. file' = file /\ \A p \in Proc : Alive(p)' => Alive(p)
      BY <3>1, CrashedStays
    <3>3. budget.crashes + 1 >= MaxCrashes
      BY <1>2, <1>3
    <3> QED BY <3>1, <3>2, <3>3 DEF Orphans, FirstOrphan, OrphansAreMarked
  <2> QED BY <2>1, <2>2
<1> QED BY <1>1, <1>4, <1>5 DEF Orphans

LEMMA OrphansAlways == Spec => [](Patient => Control /\ Orphans)
<1>1. Init => (Patient => Control /\ Orphans)
  BY ControlInit, OrphansInit
<1>2. Types /\ (Patient => Control /\ Orphans) /\ [Next]_vars => (Patient => Control /\ Orphans)'
  BY ControlNext, OrphansNext, PatientBefore
<1> QED BY <1>1, <1>2, TypesAlways, PTL DEF Spec

\* A quit that reports success leaves none of the launcher's daemons.
LEMMA ExitsClean ==
  ASSUME Types, Control, [Next]_vars, life' = "clean", life # "clean"
  PROVE  \A p \in mine : ~Alive(p)
<1>1. LauncherExits
  BY StepSpends DEF Spends, RequestQuit, LauncherCrashes, LauncherStarts
<1>2. mine = {}
  BY <1>1 DEF LauncherExits, Control, QuitAlone, Handles
<1> QED BY <1>2

(* While every wait is answered, a quit that reports success (requestQuit, *)
(* shutdown) leaves no daemon of this launcher alive: a forced shutdown    *)
(* waits for the recoveries, and only then looks at this.daemon.           *)
THEOREM PatientQuitLeavesNoDaemon == Spec /\ []Patient => QuitLeavesNoDaemon
<1>1. /\ Types /\ Control /\ [Next]_vars
      => [life' = "clean" /\ life # "clean" => \A p \in mine : ~Alive(p)]_vars
  BY ExitsClean
<1> QED BY <1>1, TypesAlways, ControlAlways, PTL DEF Spec, QuitLeavesNoDaemon

(* The daemon that the first crash of a launcher leaves behind is the one  *)
(* that its marker names, whatever start, stop or recovery was cut off, so *)
(* that stopStaleOwnedRuntime of the next launcher can find it.            *)
THEOREM FirstOrphanIsMarked ==
  Spec => [](Patient /\ budget.crashes + 1 >= MaxCrashes => OrphansAreMarked)
<1>1. Orphans => (budget.crashes + 1 >= MaxCrashes => OrphansAreMarked)
  BY DEF Orphans, FirstOrphan
<1> QED BY <1>1, OrphansAlways, PTL

\* Every child that is alive is the one that the launcher would stop.
LEMMA NoChildForgotten ==
  ASSUME Control, Orphans, budget.crashes = MaxCrashes
  PROVE  NoForgottenChild
BY DEF Control, Handles, Orphans, NoOrphan, NoForgottenChild

(* Until the launcher crashes, the only child it has is this.daemon, and a *)
(* marker that says "ready" leaves no other daemon: startDaemon spawns     *)
(* none over another, and no handle is dropped before the exit.            *)
THEOREM NoChildIsForgotten == Spec => [](Patient /\ budget.crashes = MaxCrashes => NoForgottenChild)
<1>1. Control /\ Orphans => (budget.crashes = MaxCrashes => NoForgottenChild)
  BY NoChildForgotten
<1> QED BY <1>1, OrphansAlways, PTL

-----------------------------------------------------------------------------
(* A stop's tunnel goes only after a drain that holds *)

DrainHolds ==
    At("stop", "stop.tunnel") /\ daemon # None =>
        daemon \in draining \ busy /\ proc[daemon] # "booting"

\* A stop comes to its tunnel by the drain of its daemon, or without a daemon.
StopDrains ==
    /\ At("stop", "stop.drain") /\ daemon \in Listening \ busy /\ draining' = draining \cup {daemon}
    /\ UNCHANGED <<proc, busy, daemon>>

LEMMA StopComesToTunnel ==
  ASSUME Types, [Next]_vars, task'["stop"].at = "stop.tunnel", ~At("stop", "stop.tunnel"), daemon' # None
  PROVE  StopDrains
<1>0. NoTask.at = "off" /\ "stop" \in Tasks
  BY NoTaskIsOff, TaskNames
<1>1. CASE TaskAction
  <2> SUFFICES ASSUME NEW t \in Tasks \ {"quit"}, TunnelStep(t) \/ DaemonStep(t) \/ EndStep(t)
               PROVE  StopDrains
    BY <1>1 DEF TaskAction
  <2>0. ~Throws(t)
    <3> SUFFICES ASSUME Throws(t) PROVE FALSE
      OBVIOUS
    <3>2. daemon' \in Proc \cup {None} /\ tunnel' \in BOOLEAN
      BY TypesNext DEF Types, HandleTypes
    <3>3. Thrown(t)
      BY <3>2, ThrowsMoves DEF Types
    <3> QED BY <1>0, <3>3, TaskNames DEF Thrown, At
  <2>1. CASE TunnelStep(t)
    <3>1. TunnelDone(t) \in {"daemon", "undo.daemon", "recovered"}
      BY DEF TunnelDone
    <3>2. CASE TunnelCleanup(t)
      BY <2>0, <3>2 DEF TunnelCleanup
    <3> QED BY <1>0, <2>1, <3>1, <3>2, TunnelStatusTypes, TunnelStopTypes, TunnelConnectTypes,
                TunnelVerifyTypes
            DEF TunnelStep, Goes, At
  <2>2. CASE DaemonStep(t)
    <3>1. DaemonDone(t) \in {"undo.ready", "recovered"}
      BY DEF DaemonDone
    <3> QED BY <1>0, <2>0, <2>2, <3>1, StartDaemonTypes, ResumeDaemonTypes, WaitForProxyTypes,
               StopChildTypes, ChildStoppedTypes DEF DaemonStep, Goes, Becomes, At
  <2>3. ASSUME t \in {"start", "stop"}, StaleDone(t) \/ StaleFails(t) PROVE FALSE
    <3>1. task'["stop"] = NoTask \/ task'["stop"].at = "undo.ready" \/ task'["stop"] = task["stop"]
      <4>1. CASE StaleFails(t)
        BY <2>3, <4>1, <1>0, StaleFailsMoves DEF Goes, Becomes
      <4>2. CASE StaleDone(t) /\ t = "start"
        BY <4>2, <1>0, StaleDoneMoves DEF Goes
      <4>3. CASE StaleDone(t) /\ t = "stop"
        <5>1. StopSettles(TRUE, "none")
          BY <4>3 DEF StaleDone
        <5>2. daemon' \in Proc \cup {None} /\ tunnel' \in BOOLEAN
          BY TypesNext DEF Types, HandleTypes
        <5> QED BY <5>1, <5>2, StopSettlesMoves DEF Types
      <4> QED BY <2>3, <4>1, <4>2, <4>3
    <3> QED BY <1>0, <3>1 DEF At
  <2>4. ASSUME Fails(t), task[t].at \in EndPlace PROVE FALSE
    <3>1. CASE task[t].at \in StaleWait
      BY <2>3, <2>4, <3>1, FailsMoves
    <3>2. CASE task[t].at \notin StaleWait /\ t = "start"
      <4>1. CleanupEnds /\ daemon' \in Proc \cup {None} /\ tunnel' \in BOOLEAN
        BY <2>4, <3>2, FailsMoves, TypesNext DEF Types, HandleTypes
      <4> QED BY <1>0, <3>2, <4>1, CleanupEndsMoves DEF Types, Becomes, At
    <3>3. CASE task[t].at \notin StaleWait /\ t = "stop"
      <4>1. Undo
        BY <2>4, <3>3, FailsMoves
      <4> QED BY <4>1, UndoMoves DEF Types, Goes
    <3> QED BY <2>4, <3>1, <3>2, <3>3, FailsMoves
  <2>5. CASE StaleInspects(t) \/ StaleTunnel(t)
    <3>1. t \in {"start", "stop"} /\ (StaleDone(t) \/ StaleFails(t)
                                      \/ \E label \in {"stale.drain", "stale.tunnel"} : Goes(t, label))
      BY <2>5, StaleInspectsTypes, StaleTunnelTypes DEF StaleTunnel
    <3> QED BY <1>0, <2>3, <3>1 DEF Goes, At
  <2>6. CASE Drain(t)
    <3>1. t = "stop" /\ Goes(t, DrainLabel(t)) /\ (\E p \in Targets(t) \ busy : draining' = draining \cup {p})
          /\ UNCHANGED <<proc, busy, daemon>>
      BY <1>0, <2>4, <2>6, DrainTypes DEF Drain, Goes, At
    <3>2. At("stop", "stop.drain")
      BY <2>6, <3>1 DEF Drain, DrainLabel, Goes, At
    <3>3. Targets("stop") = Listening \cap {daemon}
      BY <3>2 DEF Targets, At
    <3> QED BY <3>1, <3>2, <3>3 DEF StopDrains
  <2>7. CASE Shutdown(t)
    <3>1. ShutdownLabel(t) \in {"stale.exit", "cleanup.exit", "stop.exit"}
      BY DEF ShutdownLabel
    <3> QED BY <1>0, <2>4, <2>7, <3>1, ShutdownTypes DEF Goes, At
  <2>8. CASE AwaitExit(t)
    BY <1>0, <2>4, <2>8, AwaitExitTypes DEF Goes, At
  <2> QED BY <2>1, <2>2, <2>5, <2>6, <2>7, <2>8 DEF EndStep
<1>2. CASE StartAction
  <2>1. CASE CleanupTunnel
    <3>1. CleanupEnds /\ daemon' \in Proc \cup {None} /\ tunnel' \in BOOLEAN
      BY <2>1, CleanupTunnelTypes, TypesNext DEF Types, HandleTypes
    <3> QED BY <1>0, <3>1, CleanupEndsMoves DEF Types, Becomes, At
  <2>2. CASE StartupStarts
    BY <1>0, <2>2, RequestStartMoves DEF StartupStarts, Types, Goes, At
  <2> QED BY <1>0, <1>2, <2>1, <2>2, StartProbesTypes, CleanupBeginsTypes
          DEF StartAction, StartStep, Goes, At
<1>3. CASE StopAction
  <2>0. ~(\E ok \in BOOLEAN, status \in {"none", "ready", "failed"} :
             StopSettles(ok, status) /\ (ok \/ status # "none"))
    <3>1. daemon' \in Proc \cup {None} /\ tunnel' \in BOOLEAN
      BY TypesNext DEF Types, HandleTypes
    <3> QED BY <1>0, <3>1, StopSettlesMoves DEF Types
  <2>1. CASE SetupStops \/ StopSettlesStart \/ StopSettlesRecoveries
    BY <2>1, RequestStopMoves, StopSettlesStartTypes, StopSettlesRecoveriesTypes
       DEF SetupStops, Types, Goes
  <2>2. CASE SetupStarts
    BY <1>0, <2>2, RequestStartMoves DEF SetupStarts, Types, Goes, At
  <2>3. CASE StopInspects
    <3>1. CASE Goes("stop", FirstStep(tunnel')) /\ UNCHANGED daemon
      <4>1. FirstStep(tunnel') # "stop.tunnel"
        BY <3>1 DEF FirstStep
      <4> QED BY <3>1, <4>1 DEF Goes
    <3> QED BY <2>0, <2>3, <3>1, StopInspectsTypes DEF Goes
  <2>4. CASE StopFindsNoDaemon \/ UndoReady \/ UndoTunnelReady
    BY <2>0, <2>4, UndoReadyTypes DEF StopFindsNoDaemon, UndoTunnelReady, Goes
  <2>5. CASE StopTunnel
    BY <2>5 DEF StopTunnel
  <2>6. CASE UndoDaemon
    BY <2>6, UndoDaemonTypes DEF Goes
  <2> QED BY <1>3, <2>1, <2>2, <2>3, <2>4, <2>5, <2>6 DEF StopAction, StopStep
<1>4. CASE QuitAction
  <2>1. CASE LauncherExits \/ LauncherCrashes
    BY <2>1 DEF LauncherExits, LauncherCrashes, LauncherGone
  <2>2. CASE CancelTurns
    BY <1>0, <2>2, CancelTurnsTypes DEF Goes, At
  <2>3. CASE QuitDeadline
    BY <1>0, <2>3, ForceMoves DEF QuitDeadline, Types, Goes, At
  <2> QED BY <1>0, <1>4, <2>1, <2>2, <2>3, RequestQuitTypes, ForceSettlesTypes, ForceTunnelTypes,
             ForceDaemonTypes, ForceEndsTypes
          DEF QuitAction, QuitStep, ForceStep, LauncherStarts, Goes, At
<1>5. CASE RecoveryAction
  <2> PICK r \in Recoveries : RecoveryChecks(r) \/ RecoveryEnds(r) \/ \E name \in Children : TimerFires(name, r)
    BY <1>5 DEF RecoveryAction
  <2>1. task'["stop"] = task["stop"]
    <3>1. r \in Tasks \ {"quit"} /\ r # "stop" /\ daemon' \in Proc \cup {None} /\ tunnel' \in BOOLEAN
      BY TaskNames, TypesNext DEF Types, HandleTypes
    <3>2. CASE Throws(r)
      BY <1>0, <3>1, <3>2, ThrowsMoves DEF Types, Thrown
    <3> QED BY <1>0, <3>1, <3>2, RecoveryChecksTypes, RecoveryEndsTypes, TimerFiresTypes
              DEF Goes, Becomes
  <2> QED BY <2>1 DEF At
<1>6. CASE Event
  BY <1>0, <1>6, ReapTypes, DaemonEventTypes
     DEF Event, TunnelFails, MonitorLosesTunnel, MonitorAdopts, RestartWindowPasses, At
<1>7. CASE UNCHANGED vars
  BY <1>7 DEF vars, At
<1> QED BY <1>1, <1>2, <1>3, <1>4, <1>5, <1>6, <1>7, Steps

\* While a stop stops its tunnel, the steps of the others leave the drain of the daemon alone.
LEMMA TunnelStopIsAlone ==
  ASSUME Types, Control, [Next]_vars, At("stop", "stop.tunnel"), At("stop", "stop.tunnel")', daemon' # None
  PROVE  /\ daemon' = daemon /\ daemon \in Proc
         /\ daemon \in draining => daemon \in draining' /\ (daemon \in busy' => daemon \in busy)
         /\ proc'[daemon] = "booting" => proc[daemon] = "booting"
<1>1. /\ \A t \in Tasks \ {"stop", "quit"} : At(t, "off")
      /\ timers = {} /\ Acting /\ "start" \in Tasks
  BY TaskNames DEF Control, StopAlone, Acting, Off, At
<1>2. daemon \in Proc \/ daemon = None
  BY DEF Types, HandleTypes
<1>3. CASE TaskAction
  <2> SUFFICES ASSUME NEW t \in Tasks \ {"quit"}, TunnelStep(t) \/ DaemonStep(t) \/ EndStep(t)
               PROVE  FALSE
    BY <1>3 DEF TaskAction
  <2> QED BY <1>1
            DEF TunnelStep, TunnelStatus, TunnelStop, TunnelConnect, TunnelVerify, TunnelCleanup,
               DaemonStep, StartDaemon, ResumeDaemon, WaitForProxy, StopChild, ChildStopped,
               EndStep, StaleInspects, StaleTunnel, Drain, Shutdown, AwaitExit, At
<1>4. CASE StartAction
  BY <1>1, <1>2, <1>4 DEF StartAction, StartStep, StartupStarts, StartProbes, CleanupBegins,
                    CleanupTunnel, machine, handles, At
<1>5. CASE StopAction
  BY <1>1, <1>2, <1>5 DEF StopAction, StopStep, SetupStops, SetupStarts, StopSettlesStart,
                    StopSettlesRecoveries, StopInspects, StopFindsNoDaemon, StopTunnel,
                    UndoDaemon,
                    UndoReady, UndoTunnelReady, machine, handles, At
<1>6. CASE QuitAction
  <2>1. CASE LauncherExits \/ LauncherCrashes
    BY <2>1 DEF LauncherExits, LauncherCrashes, LauncherGone
  <2>2. CASE ForceDaemon
    <3>1. daemon \in Proc /\ UNCHANGED <<busy, draining, daemon>>
      BY <2>2, ForceDaemonTypes DEF ForceDaemon
    <3>2. proc'[daemon] = IF Alive(daemon) THEN "dead" ELSE proc[daemon]
      BY <2>2, <3>1, TerminatesTypes DEF ForceDaemon, Types
    <3> QED BY <3>1, <3>2
  <2>3. CASE RequestQuit \/ CancelTurns \/ QuitDeadline \/ ForceSettles \/ ForceTunnel \/ ForceEnds
             \/ LauncherStarts
    BY <1>2, <2>3
      DEF RequestQuit, CancelTurns, QuitDeadline, ForceSettles, ForceTunnel, ForceEnds,
                LauncherStarts, machine, handles
  <2> QED BY <1>6, <2>1, <2>2, <2>3 DEF QuitAction, QuitStep, ForceStep
<1>7. CASE RecoveryAction
  BY <1>1, <1>7, TaskNames DEF RecoveryAction, RecoveryChecks, RecoveryEnds, TimerFires, At
<1>8. CASE Event
  <2>1. CASE \E p \in Proc : DaemonEvent(p)
    <3> PICK p \in Proc : DaemonEvent(p)
      BY <2>1
    <3>1. /\ UNCHANGED <<daemon, draining>>
          /\ proc'[p] = "booting" => proc[p] = "booting"
          /\ \A q \in Proc \ {p} : proc'[q] = proc[q]
      BY DaemonEventTypes DEF handles
    <3>2. daemon \in draining => (daemon \in busy' => daemon \in busy)
      BY DEF DaemonEvent, Boots, BeginTurn, EndTurn, Closes, Dies, Accepting
    <3> QED BY <1>2, <3>1, <3>2
  <2>2. CASE \E p \in Proc : Reap(p)
    <3> PICK p \in Proc : Reap(p)
      BY <2>2
    <3>1. /\ busy' = busy \ {p} /\ draining' = draining \ {p}
          /\ \A q \in Proc \ {p} : proc'[q] = proc[q]
      BY ReapTypes DEF Reap
    <3>2. daemon' = daemon /\ daemon # p
      BY <1>2, ReapTypes DEF Control, Handles, handles
    <3> QED BY <1>2, <3>1, <3>2
  <2>3. CASE \/ TunnelFails \/ MonitorLosesTunnel \/ MonitorAdopts
             \/ \E name \in Children : RestartWindowPasses(name)
    BY <1>2, <2>3
      DEF TunnelFails, MonitorLosesTunnel, MonitorAdopts, RestartWindowPasses, machine, handles
  <2> QED BY <1>8, <2>1, <2>2, <2>3 DEF Event
<1>9. CASE UNCHANGED vars
  BY <1>2, <1>9 DEF vars, machine, handles
<1> QED BY <1>3, <1>4, <1>5, <1>6, <1>7, <1>8, <1>9, Steps

LEMMA DrainHoldsNext ==
  ASSUME Types, Control, DrainHolds, [Next]_vars
  PROVE  DrainHolds'
<1> SUFFICES ASSUME At("stop", "stop.tunnel")', daemon' # None
             PROVE  daemon' \in draining' \ busy' /\ proc'[daemon'] # "booting"
  BY DEF DrainHolds
<1>1. CASE At("stop", "stop.tunnel")
  <2>1. daemon # None
    BY <1>1, TunnelStopIsAlone
  <2> QED BY <1>1, <2>1, TunnelStopIsAlone DEF DrainHolds
<1>2. CASE ~At("stop", "stop.tunnel")
  <2>1. StopDrains
    BY <1>2, StopComesToTunnel DEF At
  <2> QED BY <2>1 DEF StopDrains, Listening, Healthy
<1> QED BY <1>1, <1>2

LEMMA DrainHoldsAlways == Spec => [](Patient => Control /\ DrainHolds)
<1>1. Init => DrainHolds
  BY NoTaskIsOff, TaskNames DEF Init, DrainHolds, At
<1>2. Types /\ (Patient => Control /\ DrainHolds) /\ [Next]_vars => (Patient => Control /\ DrainHolds)'
  BY ControlNext, DrainHoldsNext, PatientBefore
<1> QED BY <1>1, <1>2, ControlInit, TypesAlways, PTL DEF Spec

(* While every wait is answered, a setup operation takes the tunnel down   *)
(* only with its daemon drained and idle, or without a daemon              *)
(* (performStopForSetup: acquireDrain, then stopTunnelGracefully): no      *)
(* other task takes back a drain that was accepted.                        *)
THEOREM PatientStopIsIdle == Spec /\ []Patient => StopsOnlyIdle
<1>1. DrainHolds => [At("stop", "stop.tunnel") /\ op = "stopping" /\ alias # "stopped" /\ alias' = "stopped"
                       => Listening \cap {daemon} \subseteq draining \ busy]_vars
  BY SupervisorAssumption DEF DrainHolds, Listening, SupervisorAssumption
<1> QED BY <1>1, DrainHoldsAlways, PTL DEF Spec, StopsOnlyIdle

-----------------------------------------------------------------------------
(* The processes *)

\* A daemon has turns only once it serves, and only one daemon has the port.
Machine ==
    /\ \A p \in Proc : proc[p] \in {"gone", "booting"} => p \notin busy
    /\ \A p, q \in Listening : p = q

LEMMA EndsKeepMachine ==
  ASSUME Machine, NEW p \in Proc, busy' \subseteq busy, \A q \in Proc \ {p} : proc'[q] = proc[q],
         \/ proc'[p] = proc[p] \/ (proc'[p] = "booting" /\ proc[p] = "gone")
         \/ proc'[p] = "closing" /\ proc[p] \in {"serving", "closing"}
         \/ proc'[p] = "dead"
         \/ (proc'[p] = "gone" /\ p \notin busy')
  PROVE  Machine'
<1>1. Listening' \subseteq Listening
  BY DEF Listening, Healthy
<1> QED BY <1>1 DEF Machine

LEMMA SameMachine == ASSUME Machine, UNCHANGED proc, busy' \subseteq busy PROVE Machine'
BY DEF Machine, Listening, Healthy

LEMMA MachineNext == ASSUME Types, Machine, [Next]_vars PROVE Machine'
<1>1. CASE TaskAction
  <2> SUFFICES ASSUME NEW t \in Tasks \ {"quit"}, TunnelStep(t) \/ DaemonStep(t) \/ EndStep(t)
               PROVE  Machine'
    BY <1>1 DEF TaskAction
  <2>1. CASE TunnelStep(t)
    BY <2>1, SameMachine
       DEF TunnelStep, TunnelStatus, TunnelStop, TunnelConnect, TunnelVerify, TunnelCleanup,
           machine
  <2>2. CASE StartDaemon(t)
    <3>1. CASE UNCHANGED <<proc, busy>>
      BY <3>1, SameMachine
    <3>2. CASE \E p \in Proc : proc[p] = "gone" /\ proc' = [proc EXCEPT ![p] = "booting"] /\ busy' = busy
      <4> PICK p \in Proc : proc[p] = "gone" /\ proc' = [proc EXCEPT ![p] = "booting"] /\ busy' = busy
        BY <3>2
      <4>1. proc'[p] = "booting" /\ \A q \in Proc \ {p} : proc'[q] = proc[q]
        BY DEF Types, HandleTypes
      <4> QED BY <4>1, EndsKeepMachine
    <3> QED BY <2>2, <3>1, <3>2 DEF StartDaemon
  <2>3. CASE StopChild(t)
    <3>1. daemon \in Proc /\ busy' = busy
      BY <2>3, StopChildTypes DEF StopChild
    <3>2. /\ \A p \in Proc \ {daemon} : proc'[p] = proc[p]
          /\ proc'[daemon] = IF Alive(daemon) THEN "dead" ELSE proc[daemon]
      BY <2>3, <3>1, TerminatesTypes DEF StopChild, Types
    <3> QED BY <3>1, <3>2, EndsKeepMachine
  <2>4. CASE ResumeDaemon(t) \/ WaitForProxy(t) \/ ChildStopped(t)
    BY <2>4, SameMachine DEF ResumeDaemon, WaitForProxy, ChildStopped, machine
  <2>5. CASE Shutdown(t)
    <3>1. busy' = busy
      BY <2>5 DEF Shutdown
    <3>2. CASE \E p \in Targets(t) : proc' = [proc EXCEPT ![p] = "closing"]
      <4> PICK p \in Targets(t) : proc' = [proc EXCEPT ![p] = "closing"]
        BY <3>2
      <4>1. p \in Proc /\ proc[p] \in {"serving", "closing"}
        BY DEF Targets, Listening, Healthy
      <4>2. proc'[p] = "closing" /\ \A q \in Proc \ {p} : proc'[q] = proc[q]
        BY <4>1 DEF Types, HandleTypes
      <4> QED BY <3>1, <4>1, <4>2, EndsKeepMachine
    <3> QED BY <2>5, <3>1, <3>2, SameMachine DEF Shutdown
  <2>6. CASE EndStep(t) /\ ~Shutdown(t)
    BY <2>6, SameMachine DEF EndStep, StaleInspects, StaleTunnel, Drain, AwaitExit, machine
  <2> QED BY <2>1, <2>2, <2>3, <2>4, <2>5, <2>6 DEF DaemonStep, EndStep
<1>2. CASE StartAction
  BY <1>2, SameMachine
     DEF StartAction, StartStep, StartupStarts, StartProbes, CleanupBegins, CleanupTunnel, machine
<1>3. CASE StopAction
  BY <1>3, SameMachine
     DEF StopAction, StopStep, SetupStops, SetupStarts, StopSettlesStart, StopSettlesRecoveries,
         StopInspects, StopFindsNoDaemon, StopTunnel, UndoDaemon, UndoReady, UndoTunnelReady,
         machine
<1>4. CASE QuitAction
  <2>1. CASE ForceDaemon
    <3>1. daemon \in Proc /\ busy' = busy
      BY <2>1, ForceDaemonTypes DEF ForceDaemon
    <3>2. /\ \A p \in Proc \ {daemon} : proc'[p] = proc[p]
          /\ proc'[daemon] = IF Alive(daemon) THEN "dead" ELSE proc[daemon]
      BY <2>1, <3>1, TerminatesTypes DEF ForceDaemon, Types
    <3> QED BY <3>1, <3>2, EndsKeepMachine
  <2>2. CASE RequestQuit \/ CancelTurns \/ QuitDeadline \/ ForceSettles \/ ForceTunnel \/ ForceEnds
             \/ LauncherStarts \/ LauncherExits \/ LauncherCrashes
    BY <2>2, SameMachine
      DEF RequestQuit, CancelTurns, QuitDeadline, ForceSettles, ForceTunnel, ForceEnds,
                LauncherStarts, LauncherExits, LauncherCrashes, LauncherGone, machine
  <2> QED BY <1>4, <2>1, <2>2 DEF QuitAction, QuitStep, ForceStep
<1>5. CASE RecoveryAction
  BY <1>5, SameMachine DEF RecoveryAction, RecoveryChecks, RecoveryEnds, TimerFires, machine
<1>6. CASE Event
  <2>1. CASE \E p \in Proc : DaemonEvent(p) \/ Reap(p)
    <3> PICK p \in Proc : DaemonEvent(p) \/ Reap(p)
      BY <2>1
    <3>1. CASE Boots(p)
      <4>1. /\ proc[p] = "booting" /\ busy' = busy
            /\ proc'[p] = IF Listening = {} THEN "serving" ELSE "dead"
            /\ \A q \in Proc \ {p} : proc'[q] = proc[q]
        BY <3>1 DEF Boots, Types, HandleTypes
      <4> QED BY <4>1 DEF Machine, Listening, Healthy
    <3>2. CASE BeginTurn(p)
      BY <3>2 DEF BeginTurn, Accepting, Healthy, Machine, Listening
    <3>3. CASE EndTurn(p) \/ Closes(p) \/ Dies(p) \/ Reap(p)
      <4>1. \A q \in Proc \ {p} : proc'[q] = proc[q]
        BY <3>3, ReapTypes, DaemonEventTypes DEF DaemonEvent
      <4>2. busy' \subseteq busy /\ (proc'[p] = proc[p] \/ proc'[p] = "dead" \/ (proc'[p] = "gone" /\ p \notin busy'))
        BY <3>3 DEF EndTurn, Closes, Dies, Reap, Types, HandleTypes
      <4> QED BY <4>1, <4>2, EndsKeepMachine
    <3> QED BY <3>1, <3>2, <3>3 DEF DaemonEvent
  <2>2. CASE \/ TunnelFails \/ MonitorLosesTunnel \/ MonitorAdopts
             \/ \E name \in Children : RestartWindowPasses(name)
    BY <2>2, SameMachine
      DEF TunnelFails, MonitorLosesTunnel, MonitorAdopts, RestartWindowPasses, machine
  <2> QED BY <1>6, <2>1, <2>2 DEF Event
<1>7. CASE UNCHANGED vars
  BY <1>7, SameMachine DEF vars, machine
<1> QED BY <1>1, <1>2, <1>3, <1>4, <1>5, <1>6, <1>7, Steps

-----------------------------------------------------------------------------
(* Whose child it is *)

\* A child is confirmed (its loss is followed by a recovery) or belongs to the task that spawned it;
\* an exit is expected only by the task that waits for it.
Owns(t, p)   == At(t, "daemon.kill")
                \/ (task[t].at \in {"daemon.spawned", "daemon.killed"} /\ task[t].child = p)
Awaits(t, p) == task[t].at \in {"daemon.killed", "force.killed"} /\ task[t].child = p
Confirmed == daemon # None => daemon \in restartable \/ \E t \in Tasks : Owns(t, daemon)
Awaited   == \A p \in expected : \E t \in Tasks : Awaits(t, p)
Owned == Confirmed /\ Awaited

\* A task that stays where it is keeps what it owns.
Kept(t) == task[t].at \in {"daemon.spawned", "daemon.kill", "daemon.killed", "force.killed"} =>
               task'[t].at = task[t].at /\ task'[t].child = task[t].child

LEMMA OwnedKept ==
  ASSUME Owned, \A t \in Tasks : Kept(t), daemon' \in {daemon, None},
         daemon' # None => restartable \subseteq restartable', expected' \subseteq expected
  PROVE  Owned'
<1>1. \A t \in Tasks : (Owns(t, daemon) => Owns(t, daemon)') \/ daemon' = None
  BY DEF Kept, Owns, At
<1>2. \A t \in Tasks, p \in expected' : Awaits(t, p) => Awaits(t, p)'
  BY DEF Kept, Awaits
<1>3. Confirmed'
  BY <1>1 DEF Owned, Confirmed
<1>4. Awaited'
  BY <1>2 DEF Owned, Awaited
<1> QED BY <1>3, <1>4 DEF Owned

HoldPlace == {"daemon.spawned", "daemon.kill", "daemon.killed", "force.killed"}

\* Only one task moves, and it owns nothing.
LEMMA OtherKept ==
  ASSUME NEW t \in Tasks, \A u \in Tasks \ {t} : task'[u] = task[u], task[t].at \notin HoldPlace
  PROVE  \A u \in Tasks : Kept(u)
BY DEF Kept, HoldPlace

LEMMA ThrownOwned ==
  ASSUME Types, Types', Owned, NEW t \in Tasks \ {"quit"}, Throws(t), task[t].at \notin HoldPlace,
         UNCHANGED <<daemon, restartable, expected>>
  PROVE  Owned'
<1>1. Thrown(t)
  BY ThrowsMoves DEF Types, HandleTypes
<1>2. \A u \in Tasks : Kept(u)
  BY <1>1, OtherKept DEF Thrown
<1> QED BY <1>2, OwnedKept

LEMMA StopSettlesOwned ==
  ASSUME Types, Types', Control, Owned, NEW ok \in BOOLEAN, NEW status, ok \/ status \in {"ready", "failed"},
         StopSettles(ok, status), task["stop"].at \notin HoldPlace, daemon' \in {daemon, None},
         UNCHANGED <<restartable, expected>>
  PROVE  Owned'
<1>1. daemon' \in Proc \cup {None} /\ tunnel' \in BOOLEAN /\ ~At("start", "wait")
  BY DEF Types, HandleTypes, Control, Roles
<1>2. /\ \A r \in Recoveries : task'[r] = task[r]
      /\ task'["start"] = task["start"]
      /\ task'["quit"].child = task["quit"].child
      /\ task'["quit"].at = task["quit"].at \/ At("quit", "stop")
  BY <1>1, StopSettlesMoves DEF Types
<1>3. \A t \in Tasks : Kept(t)
  BY <1>2, TaskNames DEF Kept, HoldPlace, At
<1> QED BY <1>3, OwnedKept

LEMMA StaleOwned ==
  ASSUME Types, Types', Control, Owned, NEW t \in {"start", "stop"}, StaleDone(t) \/ StaleFails(t),
         task[t].at \in StalePlace, UNCHANGED <<restartable, expected>>
  PROVE  Owned'
<1>1. task[t].at \notin HoldPlace /\ UNCHANGED daemon /\ t \in Tasks
  BY StaleDoneMoves, StaleFailsMoves, TaskNames DEF StalePlace, HoldPlace
<1>2. CASE StaleDone(t) /\ t = "stop"
  BY <1>1, <1>2, StaleDoneMoves, StopSettlesOwned
<1>3. CASE (StaleDone(t) /\ t = "start") \/ StaleFails(t)
  <2>1. \A u \in Tasks \ {t} : task'[u] = task[u]
    BY <1>3, StaleDoneMoves, StaleFailsMoves DEF Goes, Becomes
  <2> QED BY <1>1, <2>1, OtherKept, OwnedKept
<1> QED BY <1>2, <1>3

LEMMA FailsOwned ==
  ASSUME Types, Types', Control, Owned, NEW t \in Tasks \ {"quit"}, Fails(t), task[t].at \in EndPlace,
         UNCHANGED <<restartable, expected>>
  PROVE  Owned'
<1>1. UNCHANGED daemon /\ t \in {"start", "stop"} /\ task[t].at \notin HoldPlace
  BY FailsMoves DEF EndPlace, StaleWait, HoldPlace
<1>2. CASE task[t].at \in StaleWait
  <2>1. StaleFails(t) /\ task[t].at \in StalePlace
    BY <1>2, FailsMoves DEF StaleWait, StalePlace
  <2> QED BY <1>1, <2>1, StaleOwned
<1>3. CASE task[t].at \notin StaleWait
  <2>1. \A u \in Tasks \ {t} : task'[u] = task[u]
    <3>1. CASE t = "start"
      <4>1. CleanupEnds
        BY <1>3, <3>1, FailsMoves
      <4> QED BY <3>1, <4>1, CleanupEndsMoves DEF Types, HandleTypes, Becomes
    <3>2. CASE t = "stop"
      <4>1. Undo
        BY <1>3, <3>2, FailsMoves
      <4> QED BY <3>2, <4>1, UndoMoves DEF Types, Goes
    <3> QED BY <1>1, <3>1, <3>2
  <2> QED BY <1>1, <2>1, OtherKept, OwnedKept
<1> QED BY <1>2, <1>3

\* A task whose child is gone owns nothing any more.
LEMMA GoneIsNotOwned ==
  ASSUME Types, Control, Owned, NEW t \in Tasks, \A u \in Tasks \ {t} : task'[u] = task[u],
         \/ task[t].at = "daemon.kill" /\ daemon = None
         \/ task[t].at \in {"daemon.killed", "force.killed"} /\ proc[task[t].child] = "gone",
         UNCHANGED <<daemon, restartable, expected>>
  PROVE  Owned'
<1>1. daemon # None => /\ ~Owns(t, daemon)
                       /\ daemon \in restartable \/ \E u \in Tasks \ {t} : Owns(u, daemon)
  BY DEF Control, Handles, Owned, Confirmed, Owns, At
<1>2. \A p \in expected : ~Awaits(t, p) /\ \E u \in Tasks \ {t} : Awaits(u, p)
  BY DEF Control, Handles, Owned, Awaited, Awaits
<1>3. Confirmed'
  BY <1>1 DEF Confirmed, Owns, At
<1>4. Awaited'
  BY <1>2 DEF Awaited, Awaits
<1> QED BY <1>3, <1>4 DEF Owned

LEMMA StartDaemonOwned ==
  ASSUME Types, Types', Control, Owned, NEW t \in Tasks \ {"quit"}, StartDaemon(t)
  PROVE  Owned'
<1>1. At(t, "daemon") /\ \A u \in Tasks \ {t} : task'[u] = task[u]
  BY StartDaemonTypes DEF StartDaemon, Goes
<1>2. \A u \in Tasks : Kept(u)
  BY <1>1, OtherKept DEF HoldPlace, At
<1>3. CASE daemon # None /\ UNCHANGED handles
  BY <1>2, <1>3, OwnedKept DEF handles
<1>4. CASE daemon = None
  <2>1. expected = {} /\ expected' = expected
    BY <1>4 DEF StartDaemon, Control, Handles
  <2>2. (At(t, "daemon.spawned") /\ task[t].child = daemon)'
    BY <1>4, StartDaemonTypes DEF Goes, At
  <2> QED BY <2>1, <2>2 DEF Owned, Confirmed, Awaited, Owns, At
<1> QED BY <1>3, <1>4 DEF StartDaemon

LEMMA WaitForProxyOwned ==
  ASSUME Types, Types', Control, Owned, NEW t \in Tasks \ {"quit"}, WaitForProxy(t)
  PROVE  Owned'
<1>1. UNCHANGED <<daemon, expected>> /\ (At(t, "daemon.existing") \/ At(t, "daemon.spawned"))
  BY DEF WaitForProxy, At
<1>2. CASE AcceptsAs(t) /\ restartable' = restartable \cup {daemon} /\ \A u \in Tasks \ {t} : task'[u] = task[u]
  <2>1. \A p \in expected : ~Awaits(t, p) /\ \E u \in Tasks \ {t} : Awaits(u, p)
    BY <1>1 DEF Owned, Awaited, Awaits, At
  <2>2. Awaited'
    BY <1>1, <1>2, <2>1 DEF Awaited, Awaits
  <2>3. Confirmed'
    BY <1>1, <1>2 DEF Confirmed
  <2> QED BY <2>2, <2>3 DEF Owned
<1>3. CASE At(t, "daemon.spawned") /\ Goes(t, "daemon.kill") /\ UNCHANGED restartable
  <2>1. \A p \in expected : ~Awaits(t, p) /\ \E u \in Tasks \ {t} : Awaits(u, p)
    BY <1>3 DEF Owned, Awaited, Awaits, At
  <2>2. Awaited'
    BY <1>1, <1>3, <2>1 DEF Awaited, Awaits, Goes
  <2>3. Confirmed'
    BY <1>1, <1>3 DEF Confirmed, Owned, Owns, Goes, At
  <2> QED BY <2>2, <2>3 DEF Owned
<1>4. CASE At(t, "daemon.existing") /\ Throws(t) /\ UNCHANGED restartable
  BY <1>1, <1>4, ThrownOwned DEF At, HoldPlace
<1> QED BY <1>2, <1>3, <1>4, WaitForProxyTypes DEF Goes, Becomes

LEMMA StopChildOwned ==
  ASSUME Types, Types', Control, Owned, NEW t \in Tasks \ {"quit"}, StopChild(t)
  PROVE  Owned'
<1>1. /\ UNCHANGED <<daemon, restartable>> /\ expected' = expected \cup {daemon} /\ daemon # None
  BY DEF StopChild, Terminates
<1>2. At(t, "daemon.kill") /\ Goes(t, "daemon.killed") /\ task'[t].child = daemon
  BY <1>1, StopChildTypes DEF Control, StartAlone, At
<1>3. \A p \in expected : ~Awaits(t, p) /\ \E u \in Tasks \ {t} : Awaits(u, p)
  BY <1>2 DEF Owned, Awaited, Awaits, At
<1>4. Awaited'
  BY <1>1, <1>2, <1>3 DEF Awaited, Awaits, Goes
<1>5. Confirmed'
  BY <1>1, <1>2 DEF Confirmed, Owns, Goes
<1> QED BY <1>4, <1>5 DEF Owned

LEMMA OwnedNext == ASSUME Types, Control, Owned, [Next]_vars PROVE Owned'
<1>0. Types' /\ NoTask.at = "off"
  BY TypesNext, NoTaskIsOff
<1>1. CASE TaskAction
  <2> SUFFICES ASSUME NEW t \in Tasks \ {"quit"}, TunnelStep(t) \/ DaemonStep(t) \/ EndStep(t)
               PROVE  Owned'
    BY <1>1 DEF TaskAction
  <2>1. CASE TunnelStep(t)
    <3>1. UNCHANGED <<daemon, restartable, expected>> /\ task[t].at \notin HoldPlace
      BY <2>1
        DEF TunnelStep, TunnelStatus, TunnelStop, TunnelConnect, TunnelVerify, TunnelCleanup,
                  handles, HoldPlace, At
    <3>2. Throws(t) \/ \A u \in Tasks \ {t} : task'[u] = task[u]
      BY <2>1, TunnelStatusTypes, TunnelStopTypes, TunnelConnectTypes, TunnelVerifyTypes
         DEF TunnelStep, TunnelCleanup, Goes
    <3> QED BY <1>0, <3>1, <3>2, ThrownOwned, OtherKept, OwnedKept
  <2>2. CASE ResumeDaemon(t)
    <3>1. UNCHANGED <<daemon, restartable, expected>> /\ task[t].at \notin HoldPlace
      BY <2>2 DEF ResumeDaemon, handles, HoldPlace, At
    <3>2. Throws(t) \/ \A u \in Tasks \ {t} : task'[u] = task[u]
      BY <2>2, ResumeDaemonTypes DEF Goes
    <3> QED BY <1>0, <3>1, <3>2, ThrownOwned, OtherKept, OwnedKept
  <2>3. CASE ChildStopped(t)
    <3>1. UNCHANGED <<daemon, restartable, expected>> /\ \A u \in Tasks \ {t} : task'[u] = task[u]
      <4>1. UNCHANGED <<daemon, restartable, expected>> /\ daemon' \in Proc \cup {None} /\ tunnel' \in BOOLEAN
        BY <1>0, <2>3 DEF ChildStopped, Types, HandleTypes
      <4> QED BY <2>3, <4>1, ChildStoppedTypes, ThrowsMoves DEF Types, Goes, Thrown
    <3>2. CASE task[t].at \in {"daemon.kill", "daemon.killed"}
      BY <2>3, <3>1, <3>2, GoneIsNotOwned DEF ChildStopped
    <3>3. CASE task[t].at \in {"cleanup.kill", "cleanup.killed"}
      BY <3>1, <3>3, OtherKept, OwnedKept DEF HoldPlace
    <3> QED BY <2>3, <3>2, <3>3 DEF ChildStopped
  <2>4. CASE StaleInspects(t) \/ StaleTunnel(t)
    <3>1. /\ t \in {"start", "stop"} /\ UNCHANGED <<daemon, restartable, expected>> /\ task[t].at \in StalePlace
          /\ StaleDone(t) \/ StaleFails(t) \/ \A u \in Tasks \ {t} : task'[u] = task[u]
      BY <2>4, StaleInspectsTypes, StaleTunnelTypes
         DEF StaleInspects, StaleTunnel, StaleDone, StaleFails, At, StalePlace, Goes
    <3> QED BY <1>0, <3>1, StaleOwned, OtherKept, OwnedKept DEF StalePlace, HoldPlace
  <2>5. CASE Drain(t) \/ Shutdown(t)
    <3>1. /\ task[t].at \in EndPlace /\ UNCHANGED <<restartable, expected>>
          /\ Fails(t) \/ UNCHANGED daemon
          /\ Fails(t) \/ UNCHANGED task \/ \A u \in Tasks \ {t} : task'[u] = task[u]
      BY <2>5, DrainTypes, ShutdownTypes DEF Drain, Shutdown, Goes
    <3>2. task[t].at \notin HoldPlace
      BY <3>1 DEF EndPlace, StaleWait, HoldPlace
    <3> QED BY <1>0, <3>1, <3>2, FailsOwned, OtherKept, OwnedKept
  <2>6. CASE AwaitExit(t)
    <3>1. task[t].at \in EndPlace /\ UNCHANGED <<restartable, expected>>
      BY <2>6, AwaitExitTypes DEF AwaitExit
    <3>2. task[t].at \notin HoldPlace
      BY <3>1 DEF EndPlace, StaleWait, HoldPlace
    <3>3. CASE (\A u \in Tasks \ {t} : task'[u] = task[u]) /\ daemon' \in {daemon, None}
      BY <3>1, <3>2, <3>3, OtherKept, OwnedKept
    <3>4. CASE t = "stop" /\ daemon' = None /\ StopSettles(TRUE, "none")
      BY <1>0, <3>1, <3>2, <3>4, StopSettlesOwned
    <3> QED BY <1>0, <2>6, <3>1, <3>3, <3>4, FailsOwned, AwaitExitTypes DEF Goes
  <2> QED BY <1>0, <2>1, <2>2, <2>3, <2>4, <2>5, <2>6, StartDaemonOwned, WaitForProxyOwned,
              StopChildOwned
          DEF DaemonStep, EndStep
<1>2. CASE StartAction
  <2>1. UNCHANGED <<daemon, restartable, expected>>
    BY <1>2
      DEF StartAction, StartStep, StartupStarts, StartProbes, CleanupBegins, CleanupTunnel,
          handles
  <2>2. CASE StartupStarts
    <3>1. UNCHANGED task \/ (At("start", "off") /\ \A u \in Tasks \ {"start"} : task'[u] = task[u])
      BY <2>2, RequestStartMoves DEF StartupStarts, Types, Goes
    <3>2. \A u \in Tasks : Kept(u)
      BY <3>1, OtherKept, TaskNames DEF At, HoldPlace, Kept
    <3> QED BY <2>1, <3>2, OwnedKept
  <2>3. CASE StartStep
    <3>1. task["start"].at \notin HoldPlace
      BY <2>3 DEF StartStep, StartProbes, CleanupBegins, CleanupTunnel, At, HoldPlace
    <3>2. \A u \in Tasks \ {"start"} : task'[u] = task[u]
      <4>1. CASE CleanupTunnel
        BY <1>0, <4>1, CleanupTunnelTypes, CleanupEndsMoves DEF Types, HandleTypes, Becomes
      <4> QED BY <2>3, <4>1, StartProbesTypes, CleanupBeginsTypes DEF StartStep, Goes
    <3> QED BY <2>1, <3>1, <3>2, OtherKept, OwnedKept, TaskNames
  <2> QED BY <1>2, <2>2, <2>3 DEF StartAction
<1>3. CASE StopAction
  <2>1. UNCHANGED <<daemon, restartable, expected>>
    BY <1>3
      DEF StopAction, StopStep, SetupStops, SetupStarts, StopSettlesStart, StopSettlesRecoveries,
                StopInspects, StopFindsNoDaemon, StopTunnel, UndoDaemon, UndoReady,
                UndoTunnelReady, handles
  <2>2. CASE SetupStarts
    <3>1. UNCHANGED task \/ (At("start", "off") /\ \A u \in Tasks \ {"start"} : task'[u] = task[u])
      BY <2>2, RequestStartMoves DEF SetupStarts, Types, Goes
    <3>2. \A u \in Tasks : Kept(u)
      BY <3>1, OtherKept, TaskNames DEF At, HoldPlace, Kept
    <3> QED BY <2>1, <3>2, OwnedKept
  <2>3. CASE SetupStops
    <3>1. \A u \in Tasks \ {"stop"} : task'[u] = task[u]
      BY <2>3, RequestStopMoves DEF SetupStops, Types, Goes
    <3>2. Off("stop")
      BY <2>3 DEF SetupStops, Control, Roles, At, Off
    <3> QED BY <2>1, <3>1, <3>2, OtherKept, OwnedKept, TaskNames DEF At, Off, HoldPlace
  <2>4. CASE StopStep
    <3>1. task["stop"].at \notin HoldPlace
      BY <2>4
        DEF StopStep, StopSettlesStart, StopSettlesRecoveries, StopInspects, StopFindsNoDaemon,
                  StopTunnel, UndoDaemon, UndoReady, UndoTunnelReady, At, HoldPlace
    <3>2. CASE \E ok \in BOOLEAN, status \in {"none", "ready", "failed"} :
                  StopSettles(ok, status) /\ (ok \/ status # "none")
      BY <1>0, <2>1, <3>1, <3>2, StopSettlesOwned
    <3>3. CASE \A u \in Tasks \ {"stop"} : task'[u] = task[u]
      BY <2>1, <3>1, <3>3, OtherKept, OwnedKept, TaskNames
    <3> QED BY <2>4, <3>2, <3>3, StopSettlesStartTypes, StopSettlesRecoveriesTypes,
                StopInspectsTypes,
               StopTunnelTypes, UndoDaemonTypes, UndoReadyTypes, UndoTunnelReadyTypes, UndoMoves
            DEF StopStep, StopFindsNoDaemon, Types, Goes
  <2> QED BY <1>3, <2>2, <2>3, <2>4 DEF StopAction
<1>4. CASE QuitAction
  <2>1. CASE LauncherExits \/ LauncherCrashes
    BY <2>1 DEF LauncherExits, LauncherCrashes, LauncherGone, Owned, Confirmed, Awaited
  <2>2. CASE CancelTurns
    <3>1. /\ Off("stop") /\ At("quit", "cancel") /\ UNCHANGED handles
      BY <2>2, TaskNames DEF CancelTurns, Control, Roles, At, Off
    <3>2. \A u \in Tasks \ {"stop", "quit"} : task'[u] = task[u]
      BY <2>2, CancelTurnsTypes, TaskNames DEF Goes
    <3>3. \A u \in Tasks : Kept(u)
      BY <3>1, <3>2 DEF Kept, Off, At
    <3> QED BY <3>1, <3>3, OwnedKept DEF handles
  <2>3. CASE ForceDaemon
    <3>1. /\ At("quit", "force.daemon") /\ UNCHANGED <<daemon, restartable>>
          /\ expected' = expected \cup {daemon}
      BY <2>3 DEF ForceDaemon, Terminates
    <3>2. Goes("quit", "force.killed") /\ task'["quit"].child = daemon
      BY <2>3, ForceDaemonTypes
    <3>3. \A p \in expected : ~Awaits("quit", p) /\ \E u \in Tasks \ {"quit"} : Awaits(u, p)
      BY <3>1 DEF Owned, Awaited, Awaits, At
    <3>4. Awaited'
      BY <3>1, <3>2, <3>3, TaskNames DEF Awaited, Awaits, Goes
    <3>5. ~Owns("quit", daemon)
      BY <3>1 DEF Owns, At
    <3>6. Confirmed'
      BY <3>1, <3>2, <3>5 DEF Owned, Confirmed, Owns, Goes, At
    <3> QED BY <3>4, <3>6 DEF Owned
  <2>4. CASE ForceEnds
    <3>1. UNCHANGED handles /\ \A u \in Tasks \ {"quit"} : task'[u] = task[u]
      BY <2>4, ForceEndsTypes DEF ForceEnds, Goes
    <3>2. CASE At("quit", "force.daemon")
      BY <3>1, <3>2, OtherKept, OwnedKept, TaskNames DEF At, HoldPlace, handles
    <3>3. CASE At("quit", "force.killed") /\ proc[task["quit"].child] = "gone"
      BY <3>1, <3>3, GoneIsNotOwned, TaskNames DEF At, handles
    <3> QED BY <2>4, <3>2, <3>3 DEF ForceEnds
  <2>5. CASE LauncherStarts
    BY <2>5, OwnedKept DEF LauncherStarts, handles, Kept
  <2>6. CASE RequestQuit \/ QuitDeadline \/ ForceSettles \/ ForceTunnel
    <3>1. UNCHANGED <<daemon, restartable, expected>> /\ \A u \in Tasks \ {"quit"} : task'[u] = task[u]
      BY <2>6, RequestQuitTypes, ForceMoves, ForceSettlesTypes, ForceTunnelTypes
         DEF RequestQuit, QuitDeadline, ForceSettles, ForceTunnel, Types, handles, Goes
    <3>2. task["quit"].at \notin HoldPlace
      BY <2>6
        DEF RequestQuit, QuitDeadline, ForceSettles, ForceTunnel, HoldPlace, Control, Roles, Off,
            At
    <3> QED BY <3>1, <3>2, OtherKept, OwnedKept, TaskNames
  <2> QED BY <1>4, <2>1, <2>2, <2>3, <2>4, <2>5, <2>6 DEF QuitAction, QuitStep, ForceStep
<1>5. CASE RecoveryAction
  <2> PICK r \in Recoveries : RecoveryChecks(r) \/ RecoveryEnds(r) \/ \E name \in Children : TimerFires(name, r)
    BY <1>5 DEF RecoveryAction
  <2>1. UNCHANGED <<daemon, restartable, expected>> /\ task[r].at \notin HoldPlace
    BY DEF RecoveryChecks, RecoveryEnds, TimerFires, handles, HoldPlace, At
  <2>2. Throws(r) \/ \A u \in Tasks \ {r} : task'[u] = task[u]
    BY RecoveryChecksTypes, RecoveryEndsTypes, TimerFiresTypes DEF Goes, Becomes
  <2> QED BY <1>0, <2>1, <2>2, ThrownOwned, OtherKept, OwnedKept, TaskNames
<1>6. CASE Event
  <2>1. CASE \E p \in Proc : Reap(p)
    <3> PICK p \in Proc : Reap(p)
      BY <2>1
    <3>1. /\ UNCHANGED task /\ expected' \subseteq expected
          /\ daemon' \in {daemon, None} /\ (daemon' # None => restartable \subseteq restartable')
      BY DEF Reap, Control, Handles, handles
    <3> QED BY <3>1, OwnedKept DEF Kept
  <2>2. CASE ~(\E p \in Proc : Reap(p))
    <3>1. UNCHANGED <<task, daemon, restartable, expected>>
      BY <1>6, <2>2, DaemonEventTypes
         DEF Event, TunnelFails, MonitorLosesTunnel, MonitorAdopts, RestartWindowPasses, handles
    <3> QED BY <3>1, OwnedKept DEF Kept
  <2> QED BY <2>1, <2>2
<1>7. CASE UNCHANGED vars
  BY <1>7, OwnedKept DEF vars, handles, Kept
<1> QED BY <1>1, <1>2, <1>3, <1>4, <1>5, <1>6, <1>7, Steps

-----------------------------------------------------------------------------
(* While nothing has failed                                                *)
(*                                                                         *)
(* As long as no child was lost and no command failed, no daemon is        *)
(* recovered, a confirmed daemon serves until it is asked to shut down,    *)
(* only an idle daemon that drains is, and a stop undoes nothing but what  *)
(* the daemon of another launcher made it refuse.                          *)

StopSettling == {"settle.start", "settle.recovery", "inspect", "stop.drain"}

Survivors ==
    \A p \in restartable : \/ proc[p] = "serving"
                           \/ At("stop", "stop.exit") /\ task["stop"].child = p
                           \/ p \in expected
ClosesIdle == \A p \in Proc : proc[p] = "closing" => p \in draining \ busy
ClosesOne  ==
    \A t \in {"start", "stop"}, p \in Proc :
        task[t].at \in {"stale.exit", "stop.exit"} /\ proc[p] = "closing" => p = task[t].child
UndoesNothing ==
    /\ task["stop"].at \in TunnelPlace \cup {"undo.daemon"} =>
           daemon = None /\ \E p \in Proc : proc[p] = "serving"
    /\ task["stop"].at \notin SpawnPlace
Drains ==
    /\ task["stop"].at \in StopSettling => ~task["stop"].drained /\ ~task["stop"].unhooked
    /\ task["stop"].at \in {"stop.tunnel", "stop.shutdown"} /\ daemon # None =>
           task["stop"].drained /\ daemon \in draining \ busy
SpawnAccepts ==
    /\ At("start", "daemon.spawned") => task["start"].child \notin draining
    /\ task["start"].at \in {"daemon.kill", "daemon.killed"} => daemon = None

Unfailed == /\ ~DaemonRecovers /\ Survivors /\ ClosesIdle /\ ClosesOne /\ UndoesNothing /\ Drains
            /\ SpawnAccepts

LEMMA NoLoss ==
  ASSUME Types, Control, Unfailed, NEW p \in Proc, Reap(p)
  PROVE  timers' = timers
<1>1. CASE p \in mine
  <2>1. stopping \/ p \in expected \/ p \notin restartable
    BY ReapTypes DEF Unfailed, Survivors, Control, StopAlone, Acting, At
  <2> QED BY <1>1, <2>1, ReapTypes
<1>2. CASE p \notin mine
  BY <1>2, ReapTypes DEF control
<1> QED BY <1>1, <1>2

LEMMA FailsMovesOne ==
  ASSUME Types, NEW t \in Tasks \ {"quit"}, Fails(t), task[t].at \in EndPlace
  PROVE  /\ \A u \in Tasks \ {t} : task'[u] = task[u]
         /\ task'[t].name = task[t].name \/ Off(t)'
<1>1. t \in {"start", "stop"} /\ daemon' \in Proc \cup {None} /\ tunnel' \in BOOLEAN
  BY FailsMoves DEF Types, HandleTypes
<1>2. CASE task[t].at \in StaleWait
  BY <1>1, <1>2, FailsMoves, StaleFailsMoves, NoTaskIsOff DEF Goes, Becomes, Off, At
<1>3. CASE task[t].at \notin StaleWait /\ t = "start"
  BY <1>1, <1>3, FailsMoves, CleanupEndsMoves, NoTaskIsOff DEF Types, Becomes, Off, At
<1>4. CASE task[t].at \notin StaleWait /\ t = "stop"
  BY <1>1, <1>4, FailsMoves, UndoMoves DEF Types, Goes
<1> QED BY <1>1, <1>2, <1>3, <1>4

\* What a step of a task does to the others.
LEMMA TaskStepMoves ==
  ASSUME Types, NEW t \in Tasks \ {"quit"}, TunnelStep(t) \/ DaemonStep(t) \/ EndStep(t)
  PROVE  /\ ~Off(t)
         /\ \/ Throws(t)
            \/ t = "stop" /\ StopSettles(TRUE, "none")
            \/ /\ timers' = timers /\ \A u \in Tasks \ {t} : task'[u] = task[u]
               /\ task'[t].name = task[t].name \/ Off(t)'
<1>1. CASE TunnelStep(t)
  <2>1. ~Off(t) /\ (Throws(t) \/ timers' = timers)
    BY <1>1 DEF TunnelStep, TunnelStatus, TunnelStop, TunnelConnect, TunnelVerify, TunnelCleanup,
                Proceeds, control, Off, At
  <2> QED BY <1>1, <2>1, TunnelStatusTypes, TunnelStopTypes, TunnelConnectTypes, TunnelVerifyTypes
          DEF TunnelStep, TunnelCleanup, Goes
<1>2. CASE DaemonStep(t)
  <2>1. ~Off(t)
    BY <1>2
      DEF DaemonStep, StartDaemon, ResumeDaemon, WaitForProxy, StopChild, ChildStopped, Off, At
  <2>2. CASE StartDaemon(t)
    BY <2>1, <2>2, StartDaemonTypes DEF StartDaemon, Goes
  <2>3. CASE StopChild(t)
    BY <2>1, <2>3, StopChildTypes DEF StopChild, control, Goes
  <2>4. CASE ResumeDaemon(t) \/ WaitForProxy(t) \/ ChildStopped(t)
    BY <2>1, <2>4, ResumeDaemonTypes, WaitForProxyTypes, ChildStoppedTypes, NoTaskIsOff
       DEF control, Goes, Becomes, Off, At
  <2> QED BY <1>2, <2>2, <2>3, <2>4 DEF DaemonStep
<1>3. CASE StaleInspects(t) \/ StaleTunnel(t)
  <2>1. ~Off(t)
    BY <1>3 DEF StaleInspects, StaleTunnel, Off, At
  <2>2. t \in {"start", "stop"} /\ (StaleDone(t) \/ StaleFails(t) \/
          (UNCHANGED control /\ \E label \in {"stale.drain", "stale.tunnel"} : Goes(t, label)))
    BY <1>3, StaleInspectsTypes, StaleTunnelTypes DEF StaleTunnel
  <2> QED BY <2>1, <2>2, StaleDoneMoves, StaleFailsMoves, NoTaskIsOff
            DEF Goes, Becomes, control, Off, At
<1>4. CASE Drain(t) \/ Shutdown(t) \/ AwaitExit(t)
  <2>1. ~Off(t)
    BY <1>4 DEF Drain, Shutdown, AwaitExit, Off, At
  <2>2. task[t].at \in EndPlace
    BY <1>4, DrainTypes, ShutdownTypes, AwaitExitTypes
  <2>3. CASE Fails(t)
    BY <2>1, <2>2, <2>3, FailsMoves, FailsMovesOne
  <2>4. CASE ~Fails(t)
    BY <1>4, <2>1, <2>4, DrainTypes, ShutdownTypes, AwaitExitTypes DEF Goes, control
  <2> QED BY <2>3, <2>4
<1> QED BY <1>1, <1>2, <1>3, <1>4 DEF EndStep

LEMMA NoRecoveryNext ==
  ASSUME Types, Control, Unfailed, [Next]_vars
  PROVE  ~DaemonRecovers'
<1>0. daemon' \in Proc \cup {None} /\ tunnel' \in BOOLEAN /\ TaskTypes /\ ControlTypes
  BY TypesNext DEF Types, HandleTypes
<1>a. SUFFICES /\ "daemon" \notin timers'
               /\ \A r \in Recoveries : task'[r] = task[r] \/ Off(r)' \/ task'[r].name # "daemon"
  BY DEF Unfailed, DaemonRecovers, Off, At
<1>b. "daemon" \notin timers /\ \A r \in Recoveries : ~Off(r) => task[r].name # "daemon"
  BY DEF Unfailed, DaemonRecovers
<1>t. ASSUME NEW r \in Recoveries, Throws(r), ~Off(r)
      PROVE  /\ "daemon" \notin timers'
             /\ \A u \in Recoveries : task'[u] = task[u] \/ Off(u)' \/ task'[u].name # "daemon"
  <2>1. r \in Tasks \ {"quit"} /\ r # "start" /\ r # "stop"
    BY TaskNames
  <2>2. Thrown(r)
    BY <1>0, <1>t, <2>1, ThrowsMoves
  <2>3. timers' \subseteq timers \cup {task[r].name} /\ task'[r] = NoTask
    BY <2>2 DEF Thrown
  <2>4. \A u \in Recoveries : u = r \/ task'[u] = task[u]
    BY <2>2, TaskNames DEF Thrown
  <2> QED BY <1>b, <1>t, <2>3, <2>4, NoTaskIsOff DEF Off, At
<1>u. ASSUME NEW ok \in BOOLEAN, NEW status, ok \/ status \in {"ready", "failed"}, StopSettles(ok, status)
      PROVE  /\ "daemon" \notin timers'
             /\ \A u \in Recoveries : task'[u] = task[u] \/ Off(u)' \/ task'[u].name # "daemon"
  BY <1>0, <1>b, <1>u, StopSettlesMoves
<1>1. CASE TaskAction
  <2> PICK t \in Tasks \ {"quit"} : TunnelStep(t) \/ DaemonStep(t) \/ EndStep(t)
    BY <1>1 DEF TaskAction
  <2>1. CASE Throws(t)
    <3>1. CASE t \in {"start", "stop"}
      <4>1. Thrown(t)
        BY <1>0, <2>1, ThrowsMoves
      <4>2. UNCHANGED timers /\ \A r \in Recoveries : task'[r] = task[r]
        BY <3>1, <4>1, TaskNames DEF Thrown, control
      <4> QED BY <1>b, <4>2
    <3>2. CASE t \in Recoveries
      BY <1>t, <2>1, <3>2, TaskStepMoves
    <3> QED BY <3>1, <3>2, TaskNames
  <2>2. CASE StopSettles(TRUE, "none")
    BY <1>u, <2>2
  <2>3. CASE /\ timers' = timers /\ \A u \in Tasks \ {t} : task'[u] = task[u]
             /\ task'[t].name = task[t].name \/ Off(t)'
    BY <1>b, <2>3, TaskStepMoves, TaskNames
  <2> QED BY <2>1, <2>2, <2>3, TaskStepMoves
<1>2. CASE StartAction
  <2>1. timers' = timers
    BY <1>2 DEF StartAction, StartStep, StartupStarts, StartProbes, CleanupBegins, CleanupTunnel,
                CleanupEnds, Proceeds, control
  <2>2. \A u \in Tasks \ {"start"} : task'[u] = task[u]
    <3>1. CASE CleanupTunnel
      BY <1>0, <3>1, CleanupTunnelTypes, CleanupEndsMoves DEF Becomes
    <3>2. CASE StartupStarts
      BY <1>0, <3>2, RequestStartMoves DEF StartupStarts, Goes
    <3> QED BY <1>2, <3>1, <3>2, StartProbesTypes, CleanupBeginsTypes
              DEF StartAction, StartStep, Goes
  <2> QED BY <1>b, <2>1, <2>2, TaskNames
<1>3. CASE StopAction
  <2>1. CASE \E ok \in BOOLEAN, status \in {"none", "ready", "failed"} :
                StopSettles(ok, status) /\ (ok \/ status # "none")
    BY <1>u, <2>1
  <2>2. CASE SetupStarts
    BY <1>0, <1>b, <2>2, RequestStartMoves, TaskNames DEF SetupStarts, control, Goes
  <2>3. CASE SetupStops
    BY <1>0, <1>b, <2>3, RequestStopMoves, TaskNames DEF SetupStops, Goes
  <2>4. CASE StopTunnel
    BY <1>0, <1>b, <2>4, StopTunnelTypes, UndoMoves, TaskNames DEF control, Goes
  <2>5. CASE UndoDaemon
    BY <1>0, <1>b, <2>5, UndoDaemonTypes, TaskNames DEF UndoDaemon, control, Goes
  <2>6. CASE StopSettlesStart \/ StopSettlesRecoveries \/ StopInspects \/ StopFindsNoDaemon \/ UndoReady
             \/ UndoTunnelReady
    BY <1>b, <2>1, <2>6, StopSettlesStartTypes, StopSettlesRecoveriesTypes, StopInspectsTypes,
       UndoReadyTypes, UndoTunnelReadyTypes, TaskNames DEF StopFindsNoDaemon, control, Goes
  <2> QED BY <1>3, <2>2, <2>3, <2>4, <2>5, <2>6 DEF StopAction, StopStep
<1>4. CASE QuitAction
  <2>1. CASE LauncherExits \/ LauncherCrashes
    BY <2>1, NoTaskIsOff, TaskNames DEF LauncherExits, LauncherCrashes, LauncherGone, Off, At
  <2>2. CASE CancelTurns
    BY <1>b, <2>2, CancelTurnsTypes, TaskNames DEF Goes
  <2>3. CASE RequestQuit \/ QuitDeadline \/ ForceSettles \/ ForceTunnel \/ ForceDaemon \/ ForceEnds
    <3>1. \A u \in Tasks \ {"quit"} : task'[u] = task[u]
      BY <1>0, <2>3, RequestQuitTypes, ForceMoves, ForceSettlesTypes, ForceTunnelTypes,
          ForceDaemonTypes,
         ForceEndsTypes DEF QuitDeadline, Goes
    <3>2. timers' \subseteq timers
      BY <1>0, <2>3, ForceMoves, ForceSettlesTypes, ForceTunnelTypes
         DEF RequestQuit, QuitDeadline, ForceDaemon, ForceEnds, control
    <3> QED BY <1>b, <3>1, <3>2, TaskNames
  <2>4. CASE LauncherStarts
    BY <1>b, <2>4 DEF LauncherStarts, control
  <2> QED BY <1>4, <2>1, <2>2, <2>3, <2>4 DEF QuitAction, QuitStep, ForceStep
<1>5. CASE RecoveryAction
  <2> PICK r \in Recoveries : RecoveryChecks(r) \/ RecoveryEnds(r) \/ \E name \in Children : TimerFires(name, r)
    BY <1>5 DEF RecoveryAction
  <2>1. CASE \E name \in Children : TimerFires(name, r)
    BY <1>b, <2>1, TimerFiresTypes, TaskNames
  <2>2. CASE RecoveryChecks(r) \/ RecoveryEnds(r)
    <3>1. ~Off(r)
      BY <2>2 DEF RecoveryChecks, RecoveryEnds, Off, At
    <3>2. CASE Throws(r)
      BY <1>t, <3>1, <3>2
    <3>3. CASE ~Throws(r)
      BY <1>b, <2>2, <3>1, <3>3, RecoveryChecksTypes, RecoveryEndsTypes, TaskNames, NoTaskIsOff
         DEF Goes, Becomes, control, Off, At
    <3> QED BY <3>2, <3>3
  <2> QED BY <2>1, <2>2
<1>6. CASE Event
  <2>1. CASE \E p \in Proc : Reap(p)
    BY <1>b, <2>1, NoLoss, ReapTypes
  <2>2. CASE \E p \in Proc : DaemonEvent(p)
    BY <1>b, <2>2, DaemonEventTypes DEF control
  <2>3. CASE \/ TunnelFails \/ MonitorLosesTunnel \/ MonitorAdopts
             \/ \E name \in Children : RestartWindowPasses(name)
    BY <1>b, <2>3, MonitorLosesTunnelTypes
       DEF TunnelFails, MonitorLosesTunnel, MonitorAdopts, RestartWindowPasses, control
  <2> QED BY <1>6, <2>1, <2>2, <2>3 DEF Event
<1>7. CASE UNCHANGED vars
  BY <1>b, <1>7 DEF vars, control
<1> QED BY <1>1, <1>2, <1>3, <1>4, <1>5, <1>6, <1>7, Steps

\* Places at which one of the parts says something of a stop, or of a start.
StopSays  == StopSettling \cup TunnelPlace \cup SpawnPlace
             \cup {"stop.tunnel", "stop.shutdown", "stop.exit", "stale.exit", "undo.daemon"}
StartSays == {"stale.exit", "stop.exit", "daemon.spawned", "daemon.kill", "daemon.killed"}

\* The processes and the handles stay, and no task comes to a place where it would say something.
LEMMA UnfailedKept ==
  ASSUME Unfailed, UNCHANGED <<proc, draining, restartable, expected>>, daemon' \in {daemon, None},
         busy' \subseteq busy, ~DaemonRecovers',
         task'["start"] = task["start"] \/ task'["start"].at \notin StartSays,
         \/ task'["stop"] = task["stop"]
         \/ ~At("stop", "stop.exit") /\ task'["stop"].at \notin StopSays
  PROVE  Unfailed'
<1>1. Survivors'
  BY DEF Unfailed, Survivors, At
<1>2. ClosesIdle'
  BY DEF Unfailed, ClosesIdle
<1>3. ClosesOne'
  BY DEF Unfailed, ClosesOne, StartSays, StopSays
<1>4. UndoesNothing'
  BY DEF Unfailed, UndoesNothing, StopSays
<1>5. Drains'
  BY DEF Unfailed, Drains, StopSays
<1>6. SpawnAccepts'
  BY DEF Unfailed, SpawnAccepts, StartSays, At
<1> QED BY <1>1, <1>2, <1>3, <1>4, <1>5, <1>6 DEF Unfailed

LEMMA NoTaskSays == /\ NoTask.at \notin StopSays /\ NoTask.at \notin StartSays
                    /\ {"undo.ready", "undo.tunnel", "stale", "stale.drain", "stale.shutdown", "stale.tunnel"}
                          \cap StopSays = {}
                    /\ (TunnelPlace \cup CleanupPlace) \cap StartSays = {}
                    /\ {"probe", "wait", "daemon", "stale", "stale.drain", "stale.shutdown", "stale.tunnel"}
                          \cap StartSays = {}
BY NoTaskIsOff DEF StopSays, StartSays, StopSettling, TunnelPlace, SpawnPlace, CleanupPlace

\* What a stop that settles leaves, unless its daemon's exit is awaited.
LEMMA StopSettlesUnfailed ==
  ASSUME Types, Types', Control, Unfailed, ~DaemonRecovers', NEW ok \in BOOLEAN, NEW status,
         ok \/ status \in {"ready", "failed"}, StopSettles(ok, status), ~At("stop", "stop.exit"),
         UNCHANGED <<proc, busy, draining, daemon, restartable, expected>>
  PROVE  Unfailed'
<1>1. daemon' \in Proc \cup {None} /\ tunnel' \in BOOLEAN /\ ~At("start", "wait")
  BY DEF Types, HandleTypes, Control, Roles
<1>2. task'["start"] = task["start"] /\ task'["stop"] = NoTask
  BY <1>1, StopSettlesMoves DEF Types
<1> QED BY <1>2, UnfailedKept, NoTaskSays

LEMMA TunnelStepUnfailed ==
  ASSUME Types, Types', Control, Unfailed, ~DaemonRecovers', NEW t \in Tasks \ {"quit"}, TunnelStep(t)
  PROVE  Unfailed'
<1>1. UNCHANGED <<proc, busy, draining, daemon, restartable, expected>> /\ task[t].at \in TunnelPlace
  BY DEF TunnelStep, TunnelStatus, TunnelStop, TunnelConnect, TunnelVerify, TunnelCleanup,
         machine, handles, TunnelPlace, At
<1>2. /\ \A u \in Tasks \ {t} : task'[u] = task[u]
      /\ t = "start" => task'[t].at \in TunnelPlace \cup {"daemon", "cleanup"}
      /\ t = "stop" => task'[t].at \in TunnelPlace \cup {"undo.daemon"}
  <2>1. CASE TunnelCleanup(t)
    <3>1. Throws(t) /\ At(t, "tunnel.cleanup") /\ daemon' \in Proc \cup {None} /\ tunnel' \in BOOLEAN
      BY <2>1 DEF TunnelCleanup, Types, HandleTypes
    <3> QED BY <3>1, ThrowsMoves DEF Types, Thrown
  <2>2. CASE TunnelVerify(t)
    <3>1. t = "start" => TunnelDone(t) = "daemon"
      BY DEF TunnelDone
    <3>2. t = "stop" => TunnelDone(t) = "undo.daemon"
      BY DEF TunnelDone
    <3> QED BY <2>2, <3>1, <3>2, TunnelVerifyTypes DEF Goes, TunnelPlace
  <2> QED BY <2>1, <2>2, TunnelStatusTypes, TunnelStopTypes, TunnelConnectTypes
          DEF TunnelStep, Goes, TunnelPlace
<1>3. CASE t # "stop"
  <2>1. task'["stop"] = task["stop"] /\ (task'["start"] = task["start"] \/ task'["start"].at \notin StartSays)
    BY <1>2, <1>3, NoTaskSays, TaskNames DEF CleanupPlace
  <2> QED BY <1>1, <2>1, UnfailedKept
<1>4. CASE t = "stop"
  <2>1. task'["start"] = task["start"] /\ task'["stop"].at \in TunnelPlace \cup {"undo.daemon"}
    BY <1>2, <1>4, TaskNames
  <2>2. UndoesNothing'
    BY <1>1, <1>4, <2>1 DEF Unfailed, UndoesNothing, TunnelPlace, SpawnPlace
  <2>3. Survivors'
    BY <1>1, <1>4, <2>1 DEF Unfailed, Survivors, TunnelPlace, At
  <2>4. ClosesIdle' /\ ClosesOne'
    BY <1>1, <1>4, <2>1 DEF Unfailed, ClosesIdle, ClosesOne, TunnelPlace
  <2>5. Drains'
    BY <1>1, <1>4, <2>1 DEF Drains, TunnelPlace, StopSettling
  <2>6. SpawnAccepts'
    BY <1>1, <1>4, <2>1 DEF Unfailed, SpawnAccepts, At
  <2> QED BY <2>2, <2>3, <2>4, <2>5, <2>6 DEF Unfailed
<1> QED BY <1>3, <1>4

\* Only a start is anywhere in startDaemon.
LEMMA OnlyStartSpawns ==
  ASSUME Types, Control, Unfailed, NEW t \in Tasks \ {"quit"}, task[t].at \in SpawnPlace
  PROVE  t = "start"
<1>1. t \notin Recoveries
  BY DEF Control, RecoveryRoles, Unfailed, DaemonRecovers, Off, At, SpawnPlace
<1> QED BY <1>1, TaskNames DEF Unfailed, UndoesNothing

LEMMA StartDaemonUnfailed ==
  ASSUME Types, Types', Control, Unfailed, ~DaemonRecovers', NEW t \in Tasks \ {"quit"}, StartDaemon(t)
  PROVE  Unfailed'
<1>1. t = "start" /\ At("start", "daemon")
  BY OnlyStartSpawns DEF StartDaemon, At, SpawnPlace
<1>2. daemon = None /\ restartable = {} /\ ~Acting
  BY <1>1 DEF Control, StartAlone, StopAlone, PreSpawn, Off, At
<1>3. PICK p \in Proc : /\ proc[p] = "gone" /\ proc' = [proc EXCEPT ![p] = "booting"]
                        /\ draining' = draining \ {p} /\ daemon' = p
                        /\ UNCHANGED <<busy, restartable, expected>>
  BY <1>2 DEF StartDaemon
<1>4. proc'[p] = "booting" /\ \A q \in Proc \ {p} : proc'[q] = proc[q]
  BY <1>3 DEF Types, HandleTypes
<1>5. /\ task'["stop"] = task["stop"] /\ task'["start"].at = "daemon.spawned" /\ task'["start"].child = p
  BY <1>1, <1>2, <1>3, StartDaemonTypes, TaskNames DEF Goes
<1>6. Survivors'
  BY <1>2, <1>3 DEF Survivors
<1>7. ClosesIdle'
  BY <1>3, <1>4 DEF Unfailed, ClosesIdle
<1>8. ClosesOne'
  BY <1>2, <1>5 DEF ClosesOne, Acting
<1>9. UndoesNothing' /\ Drains'
  BY <1>2, <1>5 DEF Unfailed, UndoesNothing, Drains, Acting, TunnelPlace, StopSettling
<1>10. SpawnAccepts'
  BY <1>3, <1>5 DEF SpawnAccepts, At
<1> QED BY <1>6, <1>7, <1>8, <1>9, <1>10 DEF Unfailed

LEMMA WaitForProxyUnfailed ==
  ASSUME Types, Types', Control, Unfailed, ~DaemonRecovers', ~Fault, NEW t \in Tasks \ {"quit"},
         WaitForProxy(t)
  PROVE  Unfailed'
<1>1. t = "start" /\ At("start", "daemon.spawned")
  <2>1. t = "start"
    BY OnlyStartSpawns DEF WaitForProxy, SpawnPlace
  <2> QED BY <2>1 DEF WaitForProxy, Control, StartAlone, At
<1>2. UNCHANGED <<proc, busy, draining, daemon, expected>> /\ task'["stop"] = task["stop"]
  BY <1>1, WaitForProxyTypes, TaskNames DEF WaitForProxy, machine, Goes, Becomes, At
<1>3. CASE AcceptsAs(t) /\ Becomes(t, NoTask) /\ restartable' = restartable \cup {daemon}
  <2>1. proc[daemon] = "serving"
    BY <1>3 DEF AcceptsAs, Accepting, Healthy, Unfailed, ClosesIdle, Types, HandleTypes
  <2>2. Survivors'
    BY <1>2, <1>3, <2>1 DEF Unfailed, Survivors, At
  <2>3. task'["start"].at = "off"
    BY <1>1, <1>3, NoTaskIsOff DEF Becomes
  <2>4. ClosesIdle' /\ ClosesOne' /\ UndoesNothing' /\ Drains' /\ SpawnAccepts'
    BY <1>2, <2>3 DEF Unfailed, ClosesIdle, ClosesOne, UndoesNothing, Drains, SpawnAccepts, At
  <2> QED BY <2>2, <2>4 DEF Unfailed
<1>4. CASE ~AcceptsAs(t) /\ Goes(t, "daemon.kill") /\ UNCHANGED restartable
  <2>1. \/ daemon = None \/ (daemon # task[t].child /\ Accepting(daemon))
        \/ (Alive(daemon) /\ proc[daemon] # "booting" /\ ~Accepting(daemon))
    BY <1>4 DEF WaitForProxy
  <2>2. daemon \in {None, task[t].child}
    BY <1>1 DEF Control, StartAlone, HoldsNoOther, At
  <2>3. daemon # None => daemon \notin draining
    BY <1>1, <2>2 DEF Unfailed, SpawnAccepts
  <2>4. daemon = None
    BY <2>1, <2>2, <2>3 DEF Accepting, Healthy, Alive
  <2>5. task'["start"].at = "daemon.kill"
    BY <1>1, <1>4 DEF Goes
  <2>6. Survivors' /\ ClosesIdle' /\ ClosesOne' /\ UndoesNothing' /\ Drains' /\ SpawnAccepts'
    BY <1>2, <1>4, <2>4, <2>5
      DEF Unfailed, Survivors, ClosesIdle, ClosesOne, UndoesNothing, Drains,
                              SpawnAccepts, At
  <2> QED BY <2>6 DEF Unfailed
<1>5. AcceptsAs(t) \/ (~AcceptsAs(t) /\ Goes(t, "daemon.kill") /\ UNCHANGED restartable)
  BY <1>1, WaitForProxyTypes DEF At
<1>6. AcceptsAs(t) => Becomes(t, NoTask) /\ restartable' = restartable \cup {daemon}
  <2> SUFFICES ASSUME AcceptsAs(t)
               PROVE  Becomes(t, NoTask) /\ restartable' = restartable \cup {daemon}
    OBVIOUS
  <2>1. daemon # None /\ daemon = task[t].child /\ Accepting(daemon)
    BY DEF AcceptsAs, Accepting, Healthy
  <2>2. restartable' = restartable \cup {daemon} /\ task' = [task EXCEPT ![t] = NoTask]
    BY <1>1, <2>1 DEF WaitForProxy
  <2> QED BY <2>2, EndMoves DEF Types
<1> QED BY <1>3, <1>4, <1>5, <1>6

LEMMA StopChildUnfailed ==
  ASSUME Types, Control, Unfailed, NEW t \in Tasks \ {"quit"}, StopChild(t)
  PROVE  FALSE
<1>1. t = "start"
  BY OnlyStartSpawns, StopChildTypes DEF SpawnPlace, At
<1> QED BY <1>1 DEF StopChild, Unfailed, SpawnAccepts, Control, StartAlone, At

\* A failed step of a task that had stopped nothing: the start ends, the stop goes on to its report.
LEMMA FailsUnfailed ==
  ASSUME Types, Types', Control, Unfailed, ~DaemonRecovers', NEW t \in Tasks \ {"quit"}, Fails(t),
         task[t].at \in EndPlace, task[t].at \notin {"stop.shutdown", "stop.exit"}
  PROVE  /\ UNCHANGED daemon
         /\ task'["start"] = task["start"] \/ task'["start"].at \notin StartSays
         /\ task'["stop"] = task["stop"] \/ (~At("stop", "stop.exit") /\ task'["stop"].at \notin StopSays)
<1>1. UNCHANGED daemon /\ t \in {"start", "stop"} /\ \A u \in Tasks \ {t} : task'[u] = task[u]
  BY FailsMoves, FailsMovesOne
<1>2. CASE task[t].at \in StaleWait
  <2>1. StaleFails(t)
    BY <1>2, FailsMoves
  <2>2. t = "start" => task'["start"].at = "off"
    BY <1>1, <2>1, StaleFailsMoves, NoTaskIsOff DEF Becomes
  <2>3. t = "stop" => task'["stop"].at = "undo.ready" /\ ~At("stop", "stop.exit")
    BY <1>1, <1>2, <2>1, StaleFailsMoves DEF Goes, StaleWait, At
  <2> QED BY <1>1, <2>2, <2>3, NoTaskSays, NoTaskIsOff, TaskNames
<1>3. CASE task[t].at \notin StaleWait /\ t = "start"
  <2>1. CleanupEnds /\ daemon' \in Proc \cup {None} /\ tunnel' \in BOOLEAN
    BY <1>3, FailsMoves DEF Types, HandleTypes
  <2>2. task'["start"] = NoTask
    BY <2>1, CleanupEndsMoves DEF Types, Becomes
  <2> QED BY <1>1, <1>3, <2>2, NoTaskSays, TaskNames
<1>4. CASE task[t].at \notin StaleWait /\ t = "stop"
  <2>1. At("stop", "stop.drain")
    BY <1>4, EndTasks DEF EndPlace, StaleWait, At
  <2>2. ~task["stop"].drained /\ ~task["stop"].unhooked
    BY <2>1 DEF Unfailed, Drains, StopSettling, At
  <2>3. Go("stop", "undo.ready")
    BY <1>4, <2>2, FailsMoves DEF Undo, Proceeds
  <2>4. task'["stop"].at = "undo.ready"
    BY <2>3, GoMoves, Labels, TaskNames DEF LookPlace, Types, Goes
  <2> QED BY <1>1, <1>4, <2>1, <2>4, NoTaskSays, TaskNames DEF At
<1> QED BY <1>1, <1>2, <1>3, <1>4

\* The step resumes daemons, but none that closes.
LEMMA ResumesUnfailed ==
  ASSUME Unfailed, UNCHANGED <<proc, busy, restartable, expected, daemon>>, ~DaemonRecovers',
         draining' \subseteq draining, \A p \in draining \ draining' : p \in Proc => proc[p] # "closing",
         task["stop"].at \in {"stop.tunnel", "stop.shutdown"} => task'["stop"] # task["stop"],
         task'["start"] = task["start"] \/ task'["start"].at \notin StartSays,
         task'["stop"] = task["stop"] \/ (~At("stop", "stop.exit") /\ task'["stop"].at \notin StopSays)
  PROVE  Unfailed'
<1>1. Survivors'
  BY DEF Unfailed, Survivors, At
<1>2. ClosesIdle'
  BY DEF Unfailed, ClosesIdle
<1>3. ClosesOne'
  BY DEF Unfailed, ClosesOne, StartSays, StopSays
<1>4. UndoesNothing'
  BY DEF Unfailed, UndoesNothing, StopSays
<1>5. Drains'
  BY DEF Unfailed, Drains, StopSays
<1>6. SpawnAccepts'
  BY DEF Unfailed, SpawnAccepts, StartSays, At
<1> QED BY <1>1, <1>2, <1>3, <1>4, <1>5, <1>6 DEF Unfailed

LEMMA DrainUnfailed ==
  ASSUME Types, Types', Control, Unfailed, ~DaemonRecovers', ~Fault, NEW t \in Tasks \ {"quit"}, Drain(t)
  PROVE  Unfailed'
<1>1. /\ t \in {"start", "stop"} /\ task[t].at \in {"stale.drain", "cleanup.drain", "stop.drain"}
      /\ UNCHANGED <<proc, busy, restartable, expected>> /\ task[t].at \in EndPlace
  BY DrainTypes DEF Drain
<1>2. \* Who drains acts: the start has no daemon, a stop is alone.
      /\ At("start", "stale.drain") => daemon = None
      /\ ~At("start", "cleanup.drain") /\ ~At("start", "stop.drain") /\ ~At("stop", "cleanup.drain")
      /\ t = "stop" => Off("start") /\ Acting
      /\ t = "start" => ~Acting /\ At("start", "stale.drain")
  <2>1. ~At("start", "stop.drain") /\ ~At("stop", "cleanup.drain")
    BY EndTasks, TaskNames DEF EndPlace, StaleWait, At
  <2> QED BY <1>1, <2>1 DEF Control, StartAlone, StopAlone, PreSpawn, StalePlace, Acting, Off, At
<1>3. CASE \E p \in Targets(t) \ busy :
             /\ draining' = draining \cup {p} /\ UNCHANGED daemon
             /\ Goes(t, DrainLabel(t)) /\ task'[t].drained
  <2> PICK p \in Targets(t) \ busy : /\ draining' = draining \cup {p} /\ UNCHANGED daemon
                                     /\ Goes(t, DrainLabel(t)) /\ task'[t].drained
    BY <1>3
  <2>1. CASE t = "start" \/ At("stop", "stale.drain")
    <3>1. /\ task'["start"] = task["start"] \/ task'["start"].at \notin StartSays
          /\ task'["stop"] = task["stop"] \/ (~At("stop", "stop.exit") /\ task'["stop"].at \notin StopSays)
          /\ At("start", "daemon.spawned") => FALSE
      BY <1>1, <1>2, <2>1, NoTaskSays, TaskNames DEF Goes, DrainLabel, Off, At
    <3>2. Survivors' /\ ClosesIdle'
      BY <1>1, <3>1 DEF Unfailed, Survivors, ClosesIdle, At
    <3>3. ClosesOne' /\ UndoesNothing' /\ SpawnAccepts'
      BY <1>1, <3>1 DEF Unfailed, ClosesOne, UndoesNothing, SpawnAccepts, StartSays, StopSays, At
    <3>4. Drains'
      BY <1>1, <3>1 DEF Unfailed, Drains, StopSays
    <3> QED BY <3>2, <3>3, <3>4 DEF Unfailed
  <2>2. CASE At("stop", "stop.drain") /\ t = "stop"
    <3>1. /\ task'["stop"].at = "stop.tunnel" /\ task'["stop"].drained
          /\ task'["start"] = task["start"] /\ Off("start") /\ p = daemon
      BY <1>2, <2>2, TaskNames DEF Goes, DrainLabel, Targets, At
    <3>2. Survivors' /\ ClosesIdle'
      BY <1>1, <2>2, <3>1 DEF Unfailed, Survivors, ClosesIdle, At
    <3>3. ClosesOne' /\ UndoesNothing' /\ SpawnAccepts'
      BY <1>1, <3>1
        DEF Unfailed, ClosesOne, UndoesNothing, SpawnAccepts, TunnelPlace, SpawnPlace, Off, At
    <3>4. Drains'
      BY <1>1, <3>1 DEF Drains, StopSettling
    <3> QED BY <3>2, <3>3, <3>4 DEF Unfailed
  <2> QED BY <1>1, <1>2, <2>1, <2>2 DEF At
<1>4. CASE \E p \in Targets(t) \cap busy :
             draining' = draining \cup {p} /\ UNCHANGED <<task, daemon>>
  <2>1. ~At("start", "daemon.spawned")
    BY <1>1, <1>2 DEF Off, At
  <2>2. Survivors' /\ ClosesIdle' /\ ClosesOne' /\ UndoesNothing' /\ Drains' /\ SpawnAccepts'
    BY <1>1, <1>4, <2>1
      DEF Unfailed, Survivors, ClosesIdle, ClosesOne, UndoesNothing, Drains, SpawnAccepts, At
  <2> QED BY <2>2 DEF Unfailed
<1>5. CASE Fails(t) /\ (draining' = draining \/ \E p \in busy : draining' = Resumed({p}))
  <2>1. /\ UNCHANGED daemon
        /\ task'["start"] = task["start"] \/ task'["start"].at \notin StartSays
        /\ task'["stop"] = task["stop"] \/ (~At("stop", "stop.exit") /\ task'["stop"].at \notin StopSays)
    BY <1>1, <1>5, FailsUnfailed
  <2>2. task["stop"].at \notin {"stop.tunnel", "stop.shutdown"}
    BY <1>1, <1>2 DEF Acting, At
  <2>3. draining' \subseteq draining /\ \A p \in draining \ draining' : p \in Proc => proc[p] # "closing"
    BY <1>5 DEF Resumed, Unfailed, ClosesIdle
  <2> QED BY <1>1, <2>1, <2>2, <2>3, ResumesUnfailed
<1> QED BY <1>3, <1>4, <1>5, DrainTypes

\* The daemon that a stop is about to shut down serves.
LEMMA StopTargetServes ==
  ASSUME Types, Control, Owned, Unfailed, At("stop", "stop.shutdown"), daemon # None
  PROVE  proc[daemon] = "serving"
<1>1. Acting /\ Off("start") /\ \A r \in Recoveries : Off(r)
  BY DEF Control, StopAlone, Acting, At
<1>2. ~At("quit", "force.killed") /\ task["quit"].at \notin {"daemon.spawned", "daemon.kill", "daemon.killed"}
  <2>1. Off("quit") \/ At("quit", "stop")
    BY DEF Control, Roles, Off, At
  <2> QED BY <2>1 DEF Off, At
<1>3. \A t \in Tasks : ~Owns(t, daemon) /\ ~Awaits(t, daemon)
  BY <1>1, <1>2, TaskNames DEF Owns, Awaits, Off, At
<1>4. daemon \in restartable /\ daemon \notin expected
  BY <1>3 DEF Owned, Confirmed, Awaited
<1> QED BY <1>4 DEF Unfailed, Survivors, At

LEMMA ShutdownUnfailed ==
  ASSUME Types, Types', Control, Owned, Machine, Unfailed, ~DaemonRecovers', ~Fault,
         NEW t \in Tasks \ {"quit"}, Shutdown(t)
  PROVE  Unfailed'
<1>1. /\ t \in {"start", "stop"} /\ task[t].at \in {"stale.shutdown", "cleanup.shutdown", "stop.shutdown"}
      /\ UNCHANGED <<busy, restartable, expected>> /\ task[t].at \in EndPlace
      /\ At(t, "stop.shutdown") => daemon # None
  BY ShutdownTypes DEF Shutdown
<1>2. /\ At(t, "stale.shutdown") => daemon = None
      /\ At(t, "stale.shutdown") \/ (t = "stop" /\ At(t, "stop.shutdown"))
      /\ t = "stop" => Off("start") /\ Acting
      /\ t = "start" => ~Acting /\ At("start", "stale.shutdown")
  <2>1. ~At("start", "stop.shutdown") /\ ~At("stop", "cleanup.shutdown")
    BY EndTasks, TaskNames DEF EndPlace, StaleWait, At
  <2> QED BY <1>1, <2>1 DEF Control, StartAlone, StopAlone, PreSpawn, StalePlace, Acting, Off, At
<1>3. CASE /\ \E p \in Targets(t) : /\ ~ShutdownRefused(p) /\ task'[t].child = p
                                    /\ proc' = [proc EXCEPT ![p] = "closing"]
                                    /\ draining' = draining \cup {p}
           /\ Goes(t, ShutdownLabel(t)) /\ UNCHANGED daemon
  <2> PICK p \in Targets(t) : /\ ~ShutdownRefused(p) /\ task'[t].child = p
                              /\ proc' = [proc EXCEPT ![p] = "closing"]
                              /\ draining' = draining \cup {p}
    BY <1>3
  <2>1. p \in Listening /\ p \in draining \ busy /\ draining' = draining
    BY DEF Targets, ShutdownRefused
  <2>2. p \in Proc /\ proc'[p] = "closing" /\ \A q \in Proc \ {p} : proc'[q] = proc[q]
    BY <2>1 DEF Listening, Types, HandleTypes
  <2>3. \A q \in Proc : proc'[q] = "closing" => q = p
    <3>1. \A q \in Proc \ {p} : proc'[q] = "closing" => q \in Listening
      BY <2>2, SupervisorAssumption DEF Listening, Healthy, SupervisorAssumption
    <3> QED BY <2>1, <3>1 DEF Machine
  <2>4. \A u \in Tasks \ {t} : task'[u] = task[u]
    BY <1>3 DEF Goes
  <2>5. ClosesIdle'
    BY <1>1, <2>1, <2>3 DEF ClosesIdle
  <2>6. CASE t = "start"
    <3>1. task'["stop"] = task["stop"] /\ task'["start"].at = "stale.exit" /\ restartable = {}
      BY <1>1, <1>2, <1>3, <2>4, <2>6, TaskNames DEF Goes, ShutdownLabel, Control, Handles, At
    <3>2. Survivors' /\ ClosesOne' /\ UndoesNothing' /\ Drains' /\ SpawnAccepts'
      BY <1>1, <1>2, <2>3, <2>6, <3>1
         DEF Unfailed, Survivors, ClosesOne, UndoesNothing, Drains, SpawnAccepts, Acting,
             TunnelPlace,
             StopSettling, At
    <3> QED BY <2>5, <3>2 DEF Unfailed
  <2>7. CASE t = "stop"
    <3>1. task'["start"] = task["start"] /\ task'["stop"].at \in {"stale.exit", "stop.exit"}
      BY <1>2, <1>3, <2>4, <2>7, TaskNames DEF Goes, ShutdownLabel, At
    <3>2. Survivors'
      <4>1. CASE At("stop", "stale.shutdown")
        BY <1>1, <1>2, <2>7, <4>1 DEF Survivors, Control, Handles
      <4>2. CASE At("stop", "stop.shutdown")
        <5>1. task'["stop"].at = "stop.exit" /\ p = daemon /\ restartable \subseteq {daemon}
          BY <1>3, <2>7, <4>2 DEF Goes, ShutdownLabel, Targets, Control, Handles, At
        <5> QED BY <1>1, <2>7, <5>1 DEF Survivors, At
      <4> QED BY <1>2, <2>7, <4>1, <4>2
    <3>3. ClosesOne'
      BY <1>2, <2>3, <2>7, <3>1 DEF ClosesOne, Off, At
    <3>4. UndoesNothing' /\ Drains' /\ SpawnAccepts'
      BY <1>2, <2>7, <3>1
         DEF Unfailed, UndoesNothing, Drains, SpawnAccepts, TunnelPlace, SpawnPlace,
             StopSettling, Off, At
    <3> QED BY <2>5, <3>2, <3>3, <3>4 DEF Unfailed
  <2> QED BY <1>1, <2>6, <2>7
<1>4. CASE Fails(t) /\ UNCHANGED proc /\ ShutdownRefuses(t)
  <2>1. CASE At(t, "stop.shutdown")
    <3>1. proc[daemon] = "serving" /\ t = "stop" /\ daemon # None
      BY <1>1, <1>2, <2>1, StopTargetServes DEF At
    <3>2. task["stop"].drained /\ daemon \in draining \ busy
      BY <2>1, <3>1 DEF Unfailed, Drains, At
    <3>3. daemon \in Targets("stop")
      BY <2>1, <3>1 DEF Targets, Listening, Healthy, Types, HandleTypes, At
    <3> QED BY <1>4, <2>1, <3>1, <3>2, <3>3 DEF ShutdownRefuses, ShutdownRefused
  <2>2. CASE At(t, "stale.shutdown")
    <3>1. /\ UNCHANGED daemon
          /\ task'["start"] = task["start"] \/ task'["start"].at \notin StartSays
          /\ task'["stop"] = task["stop"] \/ (~At("stop", "stop.exit") /\ task'["stop"].at \notin StopSays)
      BY <1>1, <1>4, <2>2, FailsUnfailed DEF At
    <3>2. task["stop"].at \notin {"stop.tunnel", "stop.shutdown"}
      BY <1>1, <1>2, <2>2 DEF Acting, At
    <3>3. /\ \A p \in Listening : p \notin draining \/ p \in busy
          /\ draining' = draining \ Listening
      BY <1>4, <2>2 DEF ShutdownRefuses, ShutdownRefused, Resumed, Targets, At
    <3>4. draining' \subseteq draining /\ \A p \in draining \ draining' : p \in Proc => proc[p] # "closing"
      BY <3>3 DEF Unfailed, ClosesIdle
    <3> QED BY <1>1, <1>4, <3>1, <3>2, <3>4, ResumesUnfailed
  <2> QED BY <1>2, <2>1, <2>2
<1> QED BY <1>3, <1>4, ShutdownTypes

LEMMA AwaitExitUnfailed ==
  ASSUME Types, Types', Control, Owned, Machine, Unfailed, ~DaemonRecovers', ~Fault,
         NEW t \in Tasks \ {"quit"}, AwaitExit(t)
  PROVE  Unfailed'
<1>1. /\ t \in {"start", "stop"} /\ task[t].at \in {"stale.exit", "cleanup.exit", "stop.exit"}
      /\ UNCHANGED <<proc, busy, restartable, expected>> /\ task[t].at \in EndPlace
  BY AwaitExitTypes DEF AwaitExit
<1>2. /\ At(t, "stale.exit") \/ (t = "stop" /\ At(t, "stop.exit"))
      /\ t = "stop" => Off("start") /\ Acting
      /\ t = "start" => ~Acting /\ At("start", "stale.exit")
  <2>1. ~At("start", "stop.exit") /\ ~At("stop", "cleanup.exit")
    BY EndTasks, TaskNames DEF EndPlace, StaleWait, At
  <2> QED BY <1>1, <2>1 DEF Control, StartAlone, StopAlone, Acting, Off, At
<1>3. CASE At(t, "stale.exit") /\ Goes(t, "stale.tunnel") /\ UNCHANGED <<draining, daemon>>
  <2>1. /\ task'["start"] = task["start"] \/ task'["start"].at \notin StartSays
        /\ task'["stop"] = task["stop"] \/ (~At("stop", "stop.exit") /\ task'["stop"].at \notin StopSays)
    BY <1>1, <1>3, NoTaskSays, TaskNames DEF Goes, At
  <2> QED BY <1>1, <1>3, <2>1, UnfailedKept
<1>4. CASE /\ t = "stop" /\ At(t, "stop.exit") /\ daemon' = None /\ StopSettles(TRUE, "none")
           /\ UNCHANGED draining /\ proc[task[t].child] = "gone"
  <2>1. task'["stop"] = NoTask /\ task'["start"] = task["start"]
    <3>1. daemon' \in Proc \cup {None} /\ tunnel' \in BOOLEAN /\ ~At("start", "wait")
      BY DEF Types, HandleTypes, Control, Roles
    <3> QED BY <1>4, <3>1, StopSettlesMoves DEF Types
  <2>2. Survivors'
    <3>1. task["stop"].child \notin restartable
      BY <1>4 DEF Control, Handles
    <3> QED BY <1>1, <1>4, <3>1 DEF Unfailed, Survivors, At
  <2>3. task'["stop"].at = "off" /\ Off("start")
    BY <1>2, <1>4, <2>1, NoTaskIsOff
  <2>4. ClosesIdle' /\ ClosesOne' /\ UndoesNothing' /\ Drains' /\ SpawnAccepts'
    BY <1>1, <1>4, <2>1, <2>3
       DEF Unfailed, ClosesIdle, ClosesOne, UndoesNothing, Drains, SpawnAccepts, TunnelPlace,
           SpawnPlace,
           StopSettling, Off, At
  <2> QED BY <2>2, <2>4 DEF Unfailed
<1>5. CASE Fails(t) /\ ExitRefuses(t)
  <2>1. /\ Listening # {} /\ proc[task[t].child] \in {"gone", "dead"}
        /\ At(t, "stop.exit") => proc[task[t].child] = "gone"
    BY <1>2, <1>5 DEF ExitRefuses, At
  <2>2. \A p \in Proc : proc[p] # "closing"
    BY <1>1, <1>2, <2>1 DEF Unfailed, ClosesOne, At
  <2>3. CASE At(t, "stale.exit")
    <3>1. /\ UNCHANGED daemon
          /\ task'["start"] = task["start"] \/ task'["start"].at \notin StartSays
          /\ task'["stop"] = task["stop"] \/ (~At("stop", "stop.exit") /\ task'["stop"].at \notin StopSays)
      BY <1>1, <1>5, <2>3, FailsUnfailed DEF At
    <3>2. task["stop"].at \notin {"stop.tunnel", "stop.shutdown"}
      BY <1>1, <1>2, <2>3 DEF Acting, At
    <3>3. draining' \subseteq draining
      BY <1>5, <2>3 DEF ExitRefuses, Resumed, At
    <3> QED BY <1>1, <2>2, <3>1, <3>2, <3>3, ResumesUnfailed
  <2>4. CASE At(t, "stop.exit") /\ t = "stop"
    <3>1. /\ daemon' = daemon /\ draining' = draining /\ \A u \in Tasks \ {t} : task'[u] = task[u]
          /\ Undo
      BY <1>1, <1>5, <2>4, FailsMoves, FailsMovesOne DEF ExitRefuses, StaleWait, At
    <3>2. task'["stop"].at \in {"tunnel.status", "undo.daemon", "undo.ready"}
      BY <3>1, UndoMoves DEF Types, Goes
    <3>3. daemon = None
      BY <2>1, <2>4 DEF Control, StopAlone, HoldsNoOther, Handles, At
    <3>4. \E p \in Proc : proc[p] = "serving"
      BY <2>1, <2>2 DEF Listening, Healthy
    <3>5. task'["start"] = task["start"] /\ Off("start")
      BY <1>2, <2>4, <3>1, TaskNames
    <3>6. UndoesNothing'
      BY <1>1, <3>1, <3>2, <3>3, <3>4 DEF UndoesNothing, TunnelPlace, SpawnPlace
    <3>7. Survivors'
      BY <1>1, <3>3 DEF Control, Handles, Survivors
    <3>8. ClosesIdle' /\ ClosesOne' /\ Drains' /\ SpawnAccepts'
      BY <1>1, <2>2, <3>1, <3>2, <3>3, <3>5
        DEF ClosesIdle, ClosesOne, Drains, SpawnAccepts, StopSettling, Off, At
    <3> QED BY <3>6, <3>7, <3>8 DEF Unfailed
  <2> QED BY <1>2, <2>3, <2>4
<1>6. ~At(t, "cleanup.exit")
  BY <1>2 DEF At
<1> QED BY <1>3, <1>4, <1>5, <1>6, AwaitExitTypes

LEMMA StaleUnfailed ==
  ASSUME Types, Types', Control, Unfailed, ~DaemonRecovers', NEW t \in Tasks \ {"quit"},
         StaleInspects(t) \/ StaleTunnel(t)
  PROVE  Unfailed'
<1>1. /\ t \in {"start", "stop"} /\ UNCHANGED <<proc, busy, draining, restartable, expected>>
      /\ task[t].at \in {"stale", "stale.tunnel"}
  BY StaleInspectsTypes, StaleTunnelTypes DEF StaleInspects, StaleTunnel, machine, At
<1>2. CASE t = "stop" /\ StaleDone(t)
  <2>1. StopSettles(TRUE, "none") /\ UNCHANGED daemon /\ ~At("stop", "stop.exit")
    BY <1>1, <1>2, StaleDoneMoves DEF At
  <2> QED BY <1>1, <2>1, StopSettlesUnfailed
<1>3. CASE (t = "start" /\ StaleDone(t)) \/ StaleFails(t)
           \/ (UNCHANGED daemon /\ \E label \in {"stale.drain", "stale.tunnel"} : Goes(t, label))
  <2>1. /\ UNCHANGED daemon /\ \A u \in Tasks \ {t} : task'[u] = task[u]
        /\ t = "start" => task'[t].at \in {"tunnel.status", "daemon", "off", "stale.drain", "stale.tunnel"}
        /\ t = "stop" => task'[t].at \in {"undo.ready", "stale.drain", "stale.tunnel"}
    <3>1. EnterStart \in {"tunnel.status", "daemon"}
      BY DEF EnterStart
    <3> QED BY <1>1, <1>3, <3>1, StaleDoneMoves, StaleFailsMoves, NoTaskIsOff DEF Goes, Becomes
  <2>2. /\ task'["start"] = task["start"] \/ task'["start"].at \notin StartSays
        /\ task'["stop"] = task["stop"] \/ (~At("stop", "stop.exit") /\ task'["stop"].at \notin StopSays)
    BY <1>1, <2>1, NoTaskSays, NoTaskIsOff, TaskNames DEF TunnelPlace, At
  <2> QED BY <1>1, <2>1, <2>2, UnfailedKept
<1>4. StaleDone(t) \/ StaleFails(t)
      \/ (UNCHANGED daemon /\ \E label \in {"stale.drain", "stale.tunnel"} : Goes(t, label))
  BY StaleInspectsTypes, StaleTunnelTypes DEF StaleTunnel
<1> QED BY <1>1, <1>2, <1>3, <1>4

LEMMA TaskActionUnfailed ==
  ASSUME Types, Types', Control, Owned, Machine, Unfailed, ~DaemonRecovers', ~Fault, TaskAction
  PROVE  Unfailed'
<1> PICK t \in Tasks \ {"quit"} : TunnelStep(t) \/ DaemonStep(t) \/ EndStep(t)
  BY DEF TaskAction
<1>1. ~ResumeDaemon(t)
  <2> SUFFICES ASSUME ResumeDaemon(t) PROVE FALSE
    OBVIOUS
  <2>1. t = "start"
    BY OnlyStartSpawns DEF ResumeDaemon, SpawnPlace, At
  <2> QED BY <2>1 DEF ResumeDaemon, Control, StartAlone, At
<1>2. CASE ChildStopped(t)
  <2>1. t = "start" /\ UNCHANGED <<proc, busy, draining, daemon, restartable, expected>>
    BY <1>2, ChildStoppedTypes, OnlyStartSpawns DEF ChildStopped, machine, SpawnPlace
  <2>2. task'["start"].at \in CleanupPlace /\ task'["stop"] = task["stop"]
    <3>1. daemon' \in Proc \cup {None} /\ tunnel' \in BOOLEAN
      BY DEF Types, HandleTypes
    <3>2. CASE Throws(t)
      <4>1. Thrown(t)
        BY <3>1, <3>2, ThrowsMoves DEF Types
      <4> QED BY <2>1, <4>1, TaskNames DEF Thrown, CleanupPlace
    <3>3. CASE Goes(t, "cleanup.tunnel")
      BY <2>1, <3>3, TaskNames DEF Goes, CleanupPlace
    <3> QED BY <1>2, <3>2, <3>3, ChildStoppedTypes
  <2> QED BY <2>1, <2>2, UnfailedKept, NoTaskSays
<1> QED BY <1>1, <1>2, TunnelStepUnfailed, StartDaemonUnfailed, WaitForProxyUnfailed,
            StopChildUnfailed,
           StaleUnfailed, DrainUnfailed, ShutdownUnfailed, AwaitExitUnfailed DEF DaemonStep,
                                                                                 EndStep

\* A step of the start or of a request that leaves the processes, and the stop, alone.
LEMMA StartActionUnfailed ==
  ASSUME Types, Types', Control, Unfailed, ~DaemonRecovers', StartAction
  PROVE  Unfailed'
<1>1. UNCHANGED <<proc, busy, draining, daemon, restartable, expected>>
  BY DEF StartAction, StartStep, StartupStarts, StartProbes, CleanupBegins, CleanupTunnel,
      machine, handles
<1>2. task'["stop"] = task["stop"] /\ (task'["start"] = task["start"] \/ task'["start"].at \notin StartSays)
  <2>1. CASE CleanupTunnel
    <3>1. daemon' \in Proc \cup {None} /\ tunnel' \in BOOLEAN
      BY DEF Types, HandleTypes
    <3> QED BY <2>1, <3>1, CleanupTunnelTypes, CleanupEndsMoves, NoTaskSays, TaskNames
              DEF Types, Becomes
  <2>2. CASE StartupStarts
    BY <2>2, RequestStartMoves, NoTaskSays, TaskNames DEF StartupStarts, Types, Goes
  <2>3. CASE StartProbes
    <3>1. EnterStart \in {"tunnel.status", "daemon"}
      BY DEF EnterStart
    <3> QED BY <2>3, <3>1, StartProbesTypes, NoTaskSays, TaskNames DEF Goes, TunnelPlace
  <2>4. CASE CleanupBegins
    <3>1. \E label \in CleanupPlace : Goes("start", label)
      BY <2>4, CleanupBeginsTypes DEF CleanupPlace
    <3> QED BY <3>1, NoTaskSays, TaskNames DEF Goes
  <2> QED BY <2>1, <2>2, <2>3, <2>4 DEF StartAction, StartStep
<1> QED BY <1>1, <1>2, UnfailedKept

\* A stop that has done nothing yet goes on: it remembers no drain and no tunnel.
LEMMA SettlingUnfailed ==
  ASSUME Types, Control, Unfailed, ~DaemonRecovers', UNCHANGED <<proc, draining, daemon, restartable, expected>>,
         busy' \subseteq busy, task'["start"] = task["start"] \/ task'["start"].at \notin StartSays,
         Off("stop") \/ task["stop"].at \in StopSettling,
         \/ task'["stop"].at \in StopSettling
         \/ task'["stop"].at = "stop.tunnel" /\ daemon = None,
         task'["stop"].drained = task["stop"].drained, task'["stop"].unhooked = task["stop"].unhooked
  PROVE  Unfailed'
<1>1. ~task["stop"].drained /\ ~task["stop"].unhooked
  <2>1. Off("stop") => task["stop"] = NoTask
    BY TaskNames DEF Types, TaskTypes, TaskOK, Off, At
  <2> QED BY <2>1, NoTaskIsOff DEF Unfailed, Drains
<1>2. Survivors' /\ ClosesIdle'
  BY DEF Unfailed, Survivors, ClosesIdle, StopSettling, Off, At
<1>3. ClosesOne' /\ SpawnAccepts'
  BY DEF Unfailed, ClosesOne, SpawnAccepts, StopSettling, StartSays, Off, At
<1>4. UndoesNothing' /\ Drains'
  BY <1>1 DEF UndoesNothing, Drains, StopSettling, TunnelPlace, SpawnPlace
<1> QED BY <1>2, <1>3, <1>4 DEF Unfailed

LEMMA StopActionUnfailed ==
  ASSUME Types, Types', Control, Unfailed, ~DaemonRecovers', ~Fault, StopAction
  PROVE  Unfailed'
<1>1. UNCHANGED <<proc, busy, restartable, expected>> /\ (UndoDaemon \/ UNCHANGED draining)
  BY DEF StopAction, StopStep, SetupStops, SetupStarts, StopSettlesStart, StopSettlesRecoveries,
         StopInspects, StopFindsNoDaemon, StopTunnel, UndoDaemon, UndoReady, UndoTunnelReady,
         machine, handles
<1>2. UNCHANGED daemon
  BY UndoDaemonTypes
     DEF StopAction, StopStep, SetupStops, SetupStarts, StopSettlesStart, StopSettlesRecoveries,
         StopInspects, StopFindsNoDaemon, StopTunnel, UndoReady, UndoTunnelReady, handles
<1>s. ASSUME NEW ok \in BOOLEAN, NEW status, ok \/ status \in {"ready", "failed"}, StopSettles(ok, status),
             ~At("stop", "stop.exit"), UNCHANGED draining
      PROVE  Unfailed'
  BY <1>1, <1>2, <1>s, StopSettlesUnfailed
<1>3. CASE SetupStarts
  <2>1. task'["stop"] = task["stop"] /\ (task'["start"] = task["start"] \/ task'["start"].at \notin StartSays)
    BY <1>3, RequestStartMoves, NoTaskSays, TaskNames DEF SetupStarts, Types, Goes
  <2> QED BY <1>1, <1>2, <1>3, <2>1, UnfailedKept DEF SetupStarts, machine
<1>4. CASE SetupStops
  <2>1. Off("stop") /\ UNCHANGED draining
    BY <1>4 DEF SetupStops, Control, Roles, At, Off, machine
  <2> QED BY <1>1, <1>2, <1>4, <2>1, RequestStopMoves, SettlingUnfailed, TaskNames
          DEF SetupStops, Types, Goes, StopSettling
<1>5. CASE StopSettlesStart \/ StopSettlesRecoveries
  <2>1. /\ UNCHANGED draining /\ task["stop"].at \in StopSettling
        /\ task'["stop"].at \in StopSettling /\ task'["start"] = task["start"]
        /\ task'["stop"].drained = task["stop"].drained /\ task'["stop"].unhooked = task["stop"].unhooked
    <3>1. CASE StopSettlesStart
      <4>1. StopBegins(task) /\ UNCHANGED machine /\ At("stop", "settle.start")
        BY <3>1 DEF StopSettlesStart
      <4> QED BY <4>1, StopBeginsMoves, TaskNames DEF Types, Goes, machine, StopSettling, At
    <3>2. CASE StopSettlesRecoveries
      <4>1. Go("stop", "inspect") /\ UNCHANGED machine /\ At("stop", "settle.recovery")
        BY <3>2 DEF StopSettlesRecoveries, Proceeds
      <4> QED BY <4>1, GoMoves, Labels, TaskNames
                DEF Types, Goes, machine, StopSettling, LookPlace, At
    <3> QED BY <1>5, <3>1, <3>2
  <2> QED BY <1>1, <1>2, <2>1, SettlingUnfailed
<1>6. CASE StopInspects
  <2>1. UNCHANGED draining /\ At("stop", "inspect")
    BY <1>6 DEF StopInspects, machine
  <2>2. CASE StopSettles(TRUE, "none")
    BY <1>s, <2>1, <2>2 DEF At
  <2>3. CASE /\ Goes("stop", FirstStep(tunnel')) /\ task'["stop"].drained = task["stop"].drained
             /\ task'["stop"].unhooked = task["stop"].unhooked
    <3>1. FirstStep(tunnel') \in {"stop.drain", "stop.tunnel", "stale"}
          /\ (FirstStep(tunnel') = "stop.tunnel" => daemon = None)
      BY DEF FirstStep
    <3>2. task'["start"] = task["start"] /\ task'["stop"].at = FirstStep(tunnel')
      BY <2>3, TaskNames DEF Goes
    <3>3. CASE FirstStep(tunnel') = "stale"
      BY <1>1, <1>2, <2>1, <3>2, <3>3, UnfailedKept, NoTaskSays DEF At
    <3>4. CASE FirstStep(tunnel') \in {"stop.drain", "stop.tunnel"}
      BY <1>1, <1>2, <2>1, <2>3, <3>1, <3>2, <3>4, SettlingUnfailed DEF StopSettling, At
    <3> QED BY <3>1, <3>3, <3>4
  <2> QED BY <1>6, <2>2, <2>3, StopInspectsTypes
<1>7. CASE StopFindsNoDaemon
  BY <1>s, <1>7 DEF StopFindsNoDaemon, machine, At
<1>8. CASE StopTunnel
  <2>1. UNCHANGED draining /\ At("stop", "stop.tunnel")
    BY <1>8 DEF StopTunnel
  <2>2. Goes("stop", "stop.shutdown") /\ task'["stop"].drained = task["stop"].drained
    BY <1>8, StopTunnelTypes
  <2>3. task'["start"] = task["start"] /\ task'["stop"].at = "stop.shutdown"
    BY <2>2, TaskNames DEF Goes
  <2>4. Survivors' /\ ClosesIdle' /\ ClosesOne' /\ SpawnAccepts'
    BY <1>1, <1>2, <2>1, <2>3 DEF Unfailed, Survivors, ClosesIdle, ClosesOne, SpawnAccepts, At
  <2>5. UndoesNothing' /\ Drains'
    BY <1>1, <1>2, <2>1, <2>2, <2>3
      DEF Unfailed, UndoesNothing, Drains, StopSettling, TunnelPlace, SpawnPlace, At
  <2> QED BY <2>4, <2>5 DEF Unfailed
<1>9. CASE UndoDaemon
  <2>1. At("stop", "undo.daemon") /\ daemon = None /\ \E p \in Proc : proc[p] = "serving"
    BY <1>9 DEF UndoDaemon, Unfailed, UndoesNothing, At
  <2>2. Listening # {} /\ ~Healthy(daemon)
    BY <2>1, SupervisorAssumption DEF Listening, Healthy, SupervisorAssumption
  <2>3. /\ UNCHANGED draining
        /\ \/ Go("stop", "undo.ready")
           \/ task' = [task EXCEPT !["stop"].at = "undo.ready", !["stop"].sound = FALSE]
    BY <1>9, <2>1, <2>2 DEF UndoDaemon
  <2>4. Goes("stop", "undo.ready")
    BY <2>3, GoMoves, UnsoundMoves, Labels, TaskNames DEF Types, LookPlace
  <2>5. task'["stop"].at = "undo.ready" /\ task'["start"] = task["start"]
    BY <2>4, TaskNames DEF Goes
  <2> QED BY <1>1, <1>2, <2>1, <2>3, <2>5, UnfailedKept, NoTaskSays DEF At
<1>10. CASE UndoReady \/ UndoTunnelReady
  <2>1. UNCHANGED draining /\ task["stop"].at \in {"undo.ready", "undo.tunnel"}
    BY <1>10 DEF UndoReady, UndoTunnelReady, machine, At
  <2>2. CASE Goes("stop", "undo.tunnel")
    BY <1>1, <1>2, <2>1, <2>2, UnfailedKept, NoTaskSays, TaskNames DEF Goes, At
  <2> QED BY <1>10, <1>s, <2>1, <2>2, UndoReadyTypes, UndoTunnelReadyTypes DEF At
<1> QED BY <1>3, <1>4, <1>5, <1>6, <1>7, <1>8, <1>9, <1>10 DEF StopAction, StopStep

LEMMA QuitActionUnfailed ==
  ASSUME Types, Types', Control, Unfailed, ~DaemonRecovers', ~Fault, QuitAction
  PROVE  Unfailed'
<1>0. \A t \in Tasks : t \in {"start", "stop", "quit"} \/ t \in Recoveries
  BY TaskNames
<1>1. CASE LauncherExits \/ LauncherCrashes
  <2>1. /\ restartable' = {} /\ daemon' = None /\ UNCHANGED <<proc, busy, draining>>
        /\ task'["start"] = NoTask /\ task'["stop"] = NoTask
    BY <1>1, TaskNames DEF LauncherExits, LauncherCrashes, LauncherGone, machine
  <2>2. Survivors' /\ ClosesIdle' /\ ClosesOne' /\ UndoesNothing' /\ Drains' /\ SpawnAccepts'
    BY <2>1, NoTaskIsOff
       DEF Unfailed, Survivors, ClosesIdle, ClosesOne, UndoesNothing, Drains, SpawnAccepts,
           TunnelPlace,
           SpawnPlace, StopSettling, At
  <2> QED BY <2>2 DEF Unfailed
<1>2. CASE CancelTurns
  <2>1. /\ UNCHANGED <<proc, draining, daemon, restartable, expected>> /\ busy' \subseteq busy
        /\ Off("stop") /\ At("quit", "cancel")
    BY <1>2, TaskNames DEF CancelTurns, handles, Control, Roles, At, Off
  <2>2. CASE Goes("quit", "force.recovery")
    BY <2>1, <2>2, UnfailedKept, TaskNames DEF Goes
  <2>3. CASE /\ task'["start"] = task["start"] /\ task'["stop"].at \in {"settle.start", "settle.recovery"}
             /\ task'["stop"].drained = task["stop"].drained /\ task'["stop"].unhooked = task["stop"].unhooked
    BY <2>1, <2>3, SettlingUnfailed DEF StopSettling
  <2> QED BY <1>2, <2>2, <2>3, CancelTurnsTypes
<1>3. CASE ForceDaemon
  <2>1. /\ daemon \in Proc /\ UNCHANGED <<busy, draining, daemon, restartable>>
        /\ expected' = expected \cup {daemon}
        /\ task'["start"] = task["start"] /\ task'["stop"] = task["stop"] /\ At("quit", "force.daemon")
    BY <1>3, ForceDaemonTypes, TaskNames DEF ForceDaemon, Terminates, Goes
  <2>2. /\ \A p \in Proc \ {daemon} : proc'[p] = proc[p]
        /\ proc'[daemon] = IF Alive(daemon) THEN "dead" ELSE proc[daemon]
    BY <1>3, <2>1, TerminatesTypes DEF ForceDaemon, Types
  <2>3. \A p \in Proc : proc'[p] = "closing" => proc[p] = "closing"
    BY <2>2
  <2>4. Survivors'
    BY <2>1, <2>2 DEF Unfailed, Survivors, Control, Handles, At
  <2>5. ClosesIdle' /\ ClosesOne' /\ Drains' /\ SpawnAccepts'
    BY <2>1, <2>3 DEF Unfailed, ClosesIdle, ClosesOne, Drains, SpawnAccepts, At
  <2>6. UndoesNothing'
    BY <2>1, SupervisorAssumption DEF Unfailed, UndoesNothing, SupervisorAssumption
  <2> QED BY <2>4, <2>5, <2>6 DEF Unfailed
<1>4. CASE RequestQuit \/ QuitDeadline \/ ForceSettles \/ ForceTunnel \/ ForceEnds \/ LauncherStarts
  <2>1. UNCHANGED <<proc, busy, draining, daemon, restartable, expected>>
    BY <1>4
      DEF RequestQuit, QuitDeadline, ForceSettles, ForceTunnel, ForceEnds, LauncherStarts,
          machine, handles
  <2>2. \A u \in Tasks \ {"quit"} : task'[u] = task[u]
    BY <1>4, RequestQuitTypes, ForceMoves, ForceSettlesTypes, ForceTunnelTypes, ForceEndsTypes
       DEF QuitDeadline, LauncherStarts, Types, Goes
  <2> QED BY <2>1, <2>2, UnfailedKept, TaskNames
<1> QED BY <1>1, <1>2, <1>3, <1>4 DEF QuitAction, QuitStep, ForceStep

LEMMA RecoveryActionUnfailed ==
  ASSUME Types, Types', Unfailed, ~DaemonRecovers', RecoveryAction
  PROVE  Unfailed'
<1> PICK r \in Recoveries : RecoveryChecks(r) \/ RecoveryEnds(r) \/ \E name \in Children : TimerFires(name, r)
  BY DEF RecoveryAction
<1>1. UNCHANGED <<proc, busy, draining, daemon, restartable, expected>>
  BY DEF RecoveryChecks, RecoveryEnds, TimerFires, machine, handles
<1>2. \A u \in Tasks \ {r} : task'[u] = task[u]
  <2>1. CASE Throws(r)
    <3>1. r \in Tasks \ {"quit"} /\ daemon' \in Proc \cup {None} /\ tunnel' \in BOOLEAN
      BY TaskNames DEF Types, HandleTypes
    <3> QED BY <2>1, <3>1, ThrowsMoves DEF Types, Thrown
  <2> QED BY <2>1, RecoveryChecksTypes, RecoveryEndsTypes, TimerFiresTypes DEF Goes, Becomes
<1> QED BY <1>1, <1>2, UnfailedKept, TaskNames

LEMMA EventUnfailed ==
  ASSUME Types, Types', Control, Unfailed, ~DaemonRecovers', ~Fault, Event
  PROVE  Unfailed'
<1>1. CASE \E p \in Proc : DaemonEvent(p)
  <2> PICK p \in Proc : DaemonEvent(p)
    BY <1>1
  <2>1. /\ UNCHANGED <<draining, daemon, restartable, expected, task>>
        /\ \A q \in Proc \ {p} : proc'[q] = proc[q]
    BY DaemonEventTypes DEF handles
  <2>2. CASE BeginTurn(p) \/ EndTurn(p)
    <3>1. UNCHANGED proc /\ (p \in draining => busy' \subseteq busy) /\ busy' \subseteq busy \cup {p}
      BY <2>2 DEF BeginTurn, EndTurn, Accepting
    <3>2. ClosesIdle' /\ Drains'
      BY <2>1, <3>1 DEF Unfailed, ClosesIdle, Drains
    <3>3. Survivors' /\ ClosesOne' /\ UndoesNothing' /\ SpawnAccepts'
      BY <2>1, <3>1 DEF Unfailed, Survivors, ClosesOne, UndoesNothing, SpawnAccepts, At
    <3> QED BY <3>2, <3>3 DEF Unfailed
  <2>3. CASE Boots(p) \/ Closes(p)
    <3>1. /\ UNCHANGED busy /\ proc[p] \in {"booting", "closing"} /\ proc'[p] # "closing"
      BY <2>3 DEF Boots, Closes, Types, HandleTypes
    <3>2. Survivors'
      <4>1. p \in restartable => At("stop", "stop.exit") /\ task["stop"].child = p
        BY <3>1 DEF Unfailed, Survivors, Control, Handles
      <4>2. restartable \subseteq Proc
        BY DEF Types, HandleTypes
      <4> QED BY <2>1, <4>1, <4>2 DEF Unfailed, Survivors, At
    <3>3. ClosesIdle' /\ ClosesOne' /\ Drains' /\ SpawnAccepts'
      BY <2>1, <3>1 DEF Unfailed, ClosesIdle, ClosesOne, Drains, SpawnAccepts, At
    <3>4. UndoesNothing'
      BY <2>1, <3>1 DEF Unfailed, UndoesNothing
    <3> QED BY <3>2, <3>3, <3>4 DEF Unfailed
  <2> QED BY <2>2, <2>3 DEF DaemonEvent, Dies
<1>2. CASE \E p \in Proc : Reap(p)
  <2> PICK p \in Proc : Reap(p)
    BY <1>2
  <2>1. /\ UNCHANGED task /\ proc[p] = "dead" /\ proc'[p] = "gone" /\ \A q \in Proc \ {p} : proc'[q] = proc[q]
        /\ busy' = busy \ {p} /\ draining' = draining \ {p}
        /\ daemon' = daemon \/ (daemon' = None /\ p = daemon)
        /\ p = daemon => daemon' = None
    BY ReapTypes DEF Reap, Control, Handles, handles
  <2>2. \/ UNCHANGED <<restartable, expected>>
        \/ restartable' = restartable \ {p} /\ expected' = expected \ {p}
    BY DEF Reap, handles
  <2>3. p \notin mine => p \notin restartable
    BY DEF Control, Handles
  <2>4. p \in mine => restartable' = restartable \ {p}
    BY DEF Reap
  <2>5. Survivors'
    <3>1. restartable \subseteq Proc
      BY DEF Types, HandleTypes
    <3> QED BY <2>1, <2>2, <2>3, <2>4, <3>1 DEF Unfailed, Survivors, At
  <2>6. ClosesIdle' /\ ClosesOne' /\ Drains' /\ SpawnAccepts'
    BY <2>1 DEF Unfailed, ClosesIdle, ClosesOne, Drains, SpawnAccepts, At
  <2>7. UndoesNothing'
    BY <2>1 DEF Unfailed, UndoesNothing
  <2> QED BY <2>5, <2>6, <2>7 DEF Unfailed
<1>3. CASE \/ TunnelFails \/ MonitorLosesTunnel \/ MonitorAdopts
           \/ \E name \in Children : RestartWindowPasses(name)
  BY <1>3, UnfailedKept
    DEF TunnelFails, MonitorLosesTunnel, MonitorAdopts, RestartWindowPasses, machine, handles
<1> QED BY <1>1, <1>2, <1>3 DEF Event

LEMMA UnfailedNext ==
  ASSUME Types, Control, Owned, Machine, Unfailed, [Next]_vars, ~Fault
  PROVE  Unfailed'
<1>1. Types' /\ ~DaemonRecovers'
  BY TypesNext, NoRecoveryNext
<1>2. CASE UNCHANGED vars
  BY <1>1, <1>2, UnfailedKept DEF vars, machine, handles
<1> QED BY <1>1, <1>2, TaskActionUnfailed, StartActionUnfailed, StopActionUnfailed,
            QuitActionUnfailed,
           RecoveryActionUnfailed, EventUnfailed, Steps

\* Nothing has failed yet.
LEMMA FaultlessBefore ==
  ASSUME Types, [Next]_vars, budget'.faults = MaxFaults
  PROVE  budget.faults = MaxFaults /\ ~Fault
<1>1. budget \in Budget /\ budget.faults \in 0..MaxFaults /\ MaxFaults \in Nat
  BY SupervisorAssumption DEF Types, ControlTypes, Budget, SupervisorAssumption
<1>2. ~Fault
  BY <1>1, FaultCosts DEF Types
<1>3. budget'.faults = budget.faults
  <2>1. CASE UNCHANGED budget
    BY <2>1
  <2>2. CASE Late \/ Spend("setups") \/ Spend("crashes") \/ Spend("launches")
    BY <2>2, Costs DEF Types, Late
  <2> QED BY <1>2, <2>1, <2>2, StepSpends
            DEF Spends, RequestQuit, LauncherExits, LauncherCrashes, LauncherStarts
<1> QED BY <1>2, <1>3

Sound == Control /\ Owned /\ Machine /\ (budget.faults = MaxFaults => Unfailed)

LEMMA SoundInit == Init => Sound
<1> SUFFICES ASSUME Init PROVE Sound
  OBVIOUS
<1>1. \A t \in Tasks : task[t].at = "off"
  BY NoTaskIsOff DEF Init
<1>2. task["start"].at = "off" /\ task["stop"].at = "off"
  BY <1>1, TaskNames
<1>3. Owned /\ Machine
  BY SupervisorAssumption DEF Init, Owned, Confirmed, Awaited, Machine, Listening, Healthy
<1>4. ~DaemonRecovers
  BY <1>1, TaskNames DEF Init, DaemonRecovers, Off, At
<1>5. Survivors /\ ClosesIdle /\ ClosesOne /\ UndoesNothing /\ Drains /\ SpawnAccepts
  BY <1>2
    DEF Init, Survivors, ClosesIdle, ClosesOne, UndoesNothing, Drains, SpawnAccepts, TunnelPlace,
              SpawnPlace, StopSettling, At
<1> QED BY <1>3, <1>4, <1>5, ControlInit DEF Sound, Unfailed

LEMMA SoundNext == ASSUME Types, Sound, Patient, Patient', [Next]_vars PROVE Sound'
<1>1. Control' /\ Owned' /\ Machine'
  BY ControlNext, OwnedNext, MachineNext DEF Sound
<1>2. budget'.faults = MaxFaults => Unfailed'
  BY FaultlessBefore, UnfailedNext DEF Sound
<1> QED BY <1>1, <1>2 DEF Sound

LEMMA SoundAlways == Spec => [](Patient => Sound)
<1>1. Types /\ (Patient => Sound) /\ [Next]_vars => (Patient => Sound)'
  BY SoundNext, PatientBefore
<1> QED BY <1>1, SoundInit, TypesAlways, PTL DEF Spec

\* What ends a daemon.
LEMMA NoTurnEnds ==
  ASSUME Types, Sound, Patient, [Next]_vars, life = "up", budget'.faults = MaxFaults, NEW p \in busy, Alive(p)
  PROVE  proc'[p] # "dead"
<1>1. Unfailed /\ Control /\ Machine /\ ~Fault /\ p \in Proc /\ proc[p] \in {"booting", "serving", "closing"}
  BY FaultlessBefore DEF Sound, Alive, Types, HandleTypes
<1>2. proc[p] = "serving"
  BY <1>1 DEF Unfailed, ClosesIdle, Machine
<1>3. \A t \in Tasks \ {"quit"} : ~StopChild(t)
  BY <1>1, StopChildUnfailed
<1>4. ~ForceDaemon
  BY <1>1 DEF ForceDaemon, Control, Roles, Off, At
<1>5. CASE TaskAction
  <2> PICK t \in Tasks \ {"quit"} : TunnelStep(t) \/ DaemonStep(t) \/ EndStep(t)
    BY <1>5 DEF TaskAction
  <2>1. CASE StartDaemon(t)
    <3>1. UNCHANGED proc \/ \E q \in Proc : proc' = [proc EXCEPT ![q] = "booting"]
      BY <2>1 DEF StartDaemon
    <3> QED BY <1>1, <1>2, <3>1 DEF Types, HandleTypes
  <2>2. CASE Shutdown(t)
    <3>1. UNCHANGED proc \/ \E q \in Proc : proc' = [proc EXCEPT ![q] = "closing"]
      BY <2>2 DEF Shutdown, Targets, Listening
    <3> QED BY <1>1, <1>2, <3>1 DEF Types, HandleTypes
  <2>3. CASE ~StartDaemon(t) /\ ~Shutdown(t)
    <3>1. UNCHANGED proc
      BY <1>3, <2>3
         DEF TunnelStep, TunnelStatus, TunnelStop, TunnelConnect, TunnelVerify, TunnelCleanup,
             DaemonStep, ResumeDaemon, WaitForProxy, ChildStopped, EndStep, StaleInspects,
             StaleTunnel,
             Drain, AwaitExit, machine
    <3> QED BY <1>2, <3>1
  <2> QED BY <2>1, <2>2, <2>3
<1>6. CASE StartAction \/ StopAction \/ QuitAction \/ RecoveryAction
  <2>1. CASE StartAction \/ RecoveryAction
    BY <1>2, <2>1
      DEF StartAction, StartStep, StartupStarts, StartProbes, CleanupBegins, CleanupTunnel,
                      RecoveryAction, RecoveryChecks, RecoveryEnds, TimerFires, machine
  <2>2. CASE StopAction
    BY <1>2, <2>2
      DEF StopAction, StopStep, SetupStops, SetupStarts, StopSettlesStart, StopSettlesRecoveries,
         StopInspects, StopFindsNoDaemon, StopTunnel, UndoDaemon, UndoReady, UndoTunnelReady,
         machine
  <2>3. CASE QuitAction
    BY <1>2, <1>4, <2>3
       DEF QuitAction, QuitStep, ForceStep, RequestQuit, CancelTurns, QuitDeadline, ForceSettles,
           ForceTunnel,
           ForceEnds, LauncherStarts, LauncherExits, LauncherCrashes, LauncherGone, machine
  <2> QED BY <1>6, <2>1, <2>2, <2>3
<1>7. CASE Event
  <2>1. CASE \E q \in Proc : DaemonEvent(q) \/ Reap(q)
    <3> PICK q \in Proc : DaemonEvent(q) \/ Reap(q)
      BY <2>1
    <3>1. CASE q = p
      BY <1>1, <1>2, <3>1 DEF DaemonEvent, Boots, BeginTurn, EndTurn, Closes, Dies, Reap
    <3>2. CASE q # p
      BY <1>1, <1>2, <3>2, DaemonEventTypes, ReapTypes
    <3> QED BY <3>1, <3>2
  <2>2. CASE \/ TunnelFails \/ MonitorLosesTunnel \/ MonitorAdopts
             \/ \E name \in Children : RestartWindowPasses(name)
    BY <1>2, <2>2 DEF TunnelFails, MonitorLosesTunnel, MonitorAdopts, RestartWindowPasses, machine
  <2> QED BY <1>7, <2>1, <2>2 DEF Event
<1>8. CASE UNCHANGED vars
  BY <1>2, <1>8 DEF vars, machine
<1> QED BY <1>5, <1>6, <1>7, <1>8, Steps

LEMMA NotLateBefore ==
  ASSUME Types, [Next]_vars, budget'.late = MaxLate
  PROVE  budget.late = MaxLate
<1>1. ~Late
  BY LateCosts
<1>2. CASE UNCHANGED budget
  BY <1>2
<1>3. CASE Fault \/ Spend("setups") \/ Spend("crashes") \/ Spend("launches")
  BY <1>3, Costs DEF Types, Fault
<1> QED BY <1>1, <1>2, <1>3, StepSpends
          DEF Spends, RequestQuit, LauncherExits, LauncherCrashes, LauncherStarts

(* While no fault was spent and the launcher is up, no step of a start, a  *)
(* stop or a recovery ends a daemon that has a turn: acquireDrain goes     *)
(* before every shutdown, and stopChild ends only a daemon that was never  *)
(* accepted.                                                               *)
THEOREM NoTurnIsCutShort ==
  ASSUME (~ForcedQuit /\ ~StartDuringQuit) \/ MaxLaunches = 0
  PROVE  Spec => NoTurnIsCut
<1>1. ASSUME Types, Patient => Sound, [Next]_vars
      PROVE  [life = "up" /\ budget'.faults = MaxFaults /\ budget'.late = MaxLate
                => \A p \in busy : Alive(p) => proc'[p] # "dead"]_vars
  <2> SUFFICES ASSUME life = "up", budget'.faults = MaxFaults, budget'.late = MaxLate
               PROVE  \A p \in busy : Alive(p) => proc'[p] # "dead"
    OBVIOUS
  <2>1. budget.launches \in 0..MaxLaunches
    BY <1>1 DEF Types, ControlTypes, Budget
  <2>2. Patient
    BY <1>1, <2>1, NotLateBefore DEF Patient
  <2> QED BY <1>1, <2>2, NoTurnEnds
<1> QED BY <1>1, SoundAlways, TypesAlways, PTL DEF Spec, NoTurnIsCut

-----------------------------------------------------------------------------
(* A launcher without a tunnel *)

TunnelSays == TunnelPlace \cup {"recovered.tunnel", "undo.tunnel"}
NoTunnel ==
    /\ ~tunnel /\ ~monitor /\ "tunnel" \notin timers
    /\ \A t \in Tasks \ {"quit"} : task[t].at \notin TunnelSays
    /\ ~task["stop"].unhooked
    /\ \A r \in Recoveries : task[r].name = "daemon"

LEMMA NoTunnelKept ==
  ASSUME NoTunnel, ~tunnel', ~monitor', timers' \subseteq timers \cup {"daemon"},
         \A t \in Tasks \ {"quit"} : task'[t].at = task[t].at \/ task'[t].at \notin TunnelSays,
         task'["stop"].unhooked = task["stop"].unhooked \/ ~task'["stop"].unhooked,
         \A r \in Recoveries : task'[r].name = task[r].name \/ task'[r].name = "daemon"
  PROVE  NoTunnel'
BY DEF NoTunnel

LEMMA NoTaskTunnel == NoTask.at \notin TunnelSays
BY NoTaskIsOff DEF TunnelSays, TunnelPlace

\* One task goes on, but not to its tunnel, or ends.
LEMMA OneGoesOn ==
  ASSUME Types, NoTunnel, NEW t \in Tasks, \A u \in Tasks \ {t} : task'[u] = task[u],
         \/ t = "quit" \/ task'[t] = NoTask
         \/ task'[t].at \notin TunnelSays /\ task'[t].name = task[t].name /\ t # "stop"
         \/ task'[t].at \notin TunnelSays /\ t = "stop" /\ task'[t].unhooked = task[t].unhooked,
         ~tunnel', ~monitor', timers' \subseteq timers \cup {"daemon"}
  PROVE  NoTunnel'
BY NoTunnelKept, NoTaskTunnel, NoTaskIsOff, TaskNames

LEMMA ThrowsNoTunnel ==
  ASSUME Types, NoTunnel, NEW t \in Tasks \ {"quit"}, Throws(t), UNCHANGED <<daemon, tunnel, monitor>>
  PROVE  NoTunnel'
<1>1. Thrown(t) /\ timers' \subseteq Children
  <2>1. daemon' \in Proc \cup {None} /\ tunnel' \in BOOLEAN
    BY DEF Types, HandleTypes
  <2> QED BY <2>1, ThrowsMoves DEF Types
<1>2. CASE t = "start"
  BY <1>1, <1>2, OneGoesOn DEF Thrown, NoTunnel, TunnelSays, TunnelPlace
<1>3. CASE t = "stop"
  <2>1. task'[t].at \in {"undo.daemon", "undo.ready"} /\ task'[t].unhooked = task[t].unhooked /\ timers' = timers
    BY <1>1, <1>3 DEF Thrown, control
  <2> QED BY <1>1, <1>3, <2>1, OneGoesOn DEF Thrown, NoTunnel, TunnelSays, TunnelPlace
<1>4. CASE t \in Recoveries
  BY <1>1, <1>4, OneGoesOn DEF Thrown, NoTunnel
<1> QED BY <1>2, <1>3, <1>4, TaskNames

LEMMA StopSettlesNoTunnel ==
  ASSUME Types, Control, NoTunnel, NEW ok \in BOOLEAN, NEW status, ok \/ status \in {"ready", "failed"},
         StopSettles(ok, status), daemon' \in Proc \cup {None}, UNCHANGED tunnel
  PROVE  NoTunnel'
<1>1. tunnel' \in BOOLEAN
  BY DEF Types, HandleTypes
<1>2. ~At("start", "wait")
  BY DEF Control, Roles
<1>3. /\ task'["stop"] = NoTask /\ \A r \in Recoveries : task'[r] = task[r]
      /\ task'["start"] = task["start"] /\ timers' \subseteq timers /\ (monitor' = monitor \/ monitor' = FALSE)
  BY <1>1, <1>2, StopSettlesMoves DEF Types
<1>4. \A t \in Tasks \ {"quit"} : task'[t] = task[t] \/ task'[t] = NoTask
  BY <1>3, TaskNames
<1> QED BY <1>3, <1>4, NoTunnelKept, NoTaskTunnel, NoTaskIsOff DEF NoTunnel

LEMMA StaleNoTunnel ==
  ASSUME Types, Control, NoTunnel, ~Full, NEW t \in {"start", "stop"}, StaleDone(t) \/ StaleFails(t)
  PROVE  NoTunnel'
<1>0. UNCHANGED <<daemon, tunnel>>
  BY DEF StaleDone, StaleFails
<1>1. t \in Tasks /\ UNCHANGED <<daemon, tunnel>> /\ daemon' \in Proc \cup {None} /\ ~tunnel' /\ ~monitor
  BY <1>0, TaskNames DEF Types, HandleTypes, NoTunnel
<1>2. CASE t = "stop" /\ StaleDone(t)
  BY <1>1, <1>2, StaleDoneMoves, StopSettlesNoTunnel
<1>3. CASE t = "start" /\ StaleDone(t)
  <2>1. EnterStart = "daemon"
    BY DEF EnterStart
  <2> QED BY <1>1, <1>3, <2>1, StaleDoneMoves, OneGoesOn DEF Goes, TunnelSays, TunnelPlace
<1>4. CASE StaleFails(t)
  BY <1>1, <1>4, StaleFailsMoves, OneGoesOn DEF Goes, Becomes, TunnelSays, TunnelPlace
<1> QED BY <1>2, <1>3, <1>4

LEMMA FailsNoTunnel ==
  ASSUME Types, Control, NoTunnel, ~Full, NEW t \in Tasks \ {"quit"}, Fails(t), task[t].at \in EndPlace
  PROVE  NoTunnel'
<1>1. /\ UNCHANGED <<daemon, tunnel, monitor>> /\ UNCHANGED timers /\ t \in {"start", "stop"}
      /\ daemon' \in Proc \cup {None} /\ tunnel' \in BOOLEAN /\ TaskTypes
  BY FailsMoves DEF Types, HandleTypes
<1>2. CASE task[t].at \in StaleWait
  BY <1>1, <1>2, FailsMoves, StaleNoTunnel
<1>3. CASE task[t].at \notin StaleWait /\ t = "start"
  BY <1>1, <1>3, FailsMoves, CleanupEndsMoves, OneGoesOn DEF Becomes, NoTunnel
<1>4. CASE task[t].at \notin StaleWait /\ t = "stop"
  <2>1. Undo
    BY <1>4, FailsMoves
  <2>2. PICK label \in {"tunnel.status", "undo.daemon", "undo.ready"} :
              Goes("stop", label) /\ (label = "tunnel.status" <=> task["stop"].unhooked /\ ~tunnel')
    BY <1>1, <2>1, UndoMoves
  <2>3. label \notin TunnelSays
    BY <2>2 DEF NoTunnel, TunnelSays, TunnelPlace
  <2> QED BY <1>1, <1>4, <2>1, <2>2, <2>3, UndoMoves, OneGoesOn DEF Goes, NoTunnel
<1> QED BY <1>1, <1>2, <1>3, <1>4

LEMMA TaskActionNoTunnel ==
  ASSUME Types, Control, NoTunnel, ~Full, TaskAction
  PROVE  NoTunnel'
<1> PICK t \in Tasks \ {"quit"} : TunnelStep(t) \/ DaemonStep(t) \/ EndStep(t)
  BY DEF TaskAction
<1>a. daemon \in Proc \cup {None} /\ tunnel = FALSE /\ monitor = FALSE
  BY DEF Types, HandleTypes, NoTunnel
<1>b. (SpawnPlace \cup StalePlace \cup EndPlace \cup CleanupPlace \cup {"undo.ready", "recovered"})
        \cap TunnelSays = {}
  BY DEF SpawnPlace, StalePlace, EndPlace, StaleWait, CleanupPlace, TunnelSays, TunnelPlace
<1>1. CASE TunnelStep(t)
  BY <1>1
    DEF NoTunnel, TunnelSays, TunnelPlace, TunnelStep, TunnelStatus, TunnelStop, TunnelConnect,
              TunnelVerify, TunnelCleanup, At
<1>2. CASE StartDaemon(t)
  <2>1. UNCHANGED <<tunnel, monitor, timers>>
    BY <1>2 DEF StartDaemon, handles
  <2> QED BY <1>a, <1>b, <1>2, <2>1, StartDaemonTypes, OneGoesOn DEF Goes, SpawnPlace
<1>3. CASE ResumeDaemon(t)
  <2>1. UNCHANGED <<daemon, tunnel, monitor>>
    BY <1>3 DEF ResumeDaemon, handles
  <2>2. CASE Throws(t)
    BY <2>1, <2>2, ThrowsNoTunnel
  <2>3. CASE Goes(t, "daemon.existing") /\ UNCHANGED control
    <3>1. t # "stop"
      BY <1>3 DEF ResumeDaemon, Control, StopAlone, At
    <3> QED BY <1>a, <1>b, <2>1, <2>3, <3>1, OneGoesOn DEF Goes, SpawnPlace, control
  <2> QED BY <1>3, <2>2, <2>3, ResumeDaemonTypes
<1>4. CASE WaitForProxy(t)
  <2>1. UNCHANGED <<daemon, tunnel, monitor>>
    BY <1>4, WaitForProxyTypes DEF WaitForProxy
  <2>2. DaemonDone(t) \in {"undo.ready", "recovered"}
    BY DEF DaemonDone
  <2> QED BY <1>a, <1>b, <1>4, <2>1, <2>2, WaitForProxyTypes, ThrowsNoTunnel, OneGoesOn
          DEF Goes, Becomes, SpawnPlace, control
<1>5. CASE StopChild(t)
  <2>1. UNCHANGED <<tunnel, monitor, timers>>
    BY <1>5 DEF StopChild, control
  <2> QED BY <1>a, <1>b, <1>5, <2>1, StopChildTypes, OneGoesOn DEF Goes, SpawnPlace, CleanupPlace
<1>6. CASE ChildStopped(t)
  <2>1. UNCHANGED <<daemon, tunnel, monitor>>
    BY <1>6 DEF ChildStopped
  <2> QED BY <1>a, <1>b, <1>6, <2>1, ChildStoppedTypes, ThrowsNoTunnel, OneGoesOn, TaskNames
          DEF Goes, CleanupPlace, control
<1>7. CASE StaleInspects(t)
  BY <1>a, <1>b, <1>7, StaleInspectsTypes, StaleNoTunnel, OneGoesOn DEF Goes, StalePlace, control
<1>8. CASE StaleTunnel(t)
  BY <1>8, StaleTunnelTypes, StaleNoTunnel DEF StaleTunnel
<1>9. CASE Drain(t)
  <2>1. DrainLabel(t) \notin TunnelSays
    BY DEF DrainLabel, TunnelSays, TunnelPlace
  <2>2. CASE UNCHANGED <<task, control, daemon, tunnel, monitor, op, budget>>
    BY <1>a, <2>2, NoTunnelKept DEF control
  <2> QED BY <1>a, <1>9, <2>1, <2>2, DrainTypes, FailsNoTunnel, OneGoesOn DEF Goes, control
<1>10. CASE Shutdown(t)
  <2>1. ShutdownLabel(t) \notin TunnelSays
    BY DEF ShutdownLabel, TunnelSays, TunnelPlace
  <2> QED BY <1>a, <1>10, <2>1, ShutdownTypes, FailsNoTunnel, OneGoesOn DEF Goes, control
<1>11. CASE AwaitExit(t)
  <2>1. task[t].at \in EndPlace
    BY <1>11, AwaitExitTypes
  <2>2. CASE Fails(t)
    BY <2>1, <2>2, FailsNoTunnel
  <2>3. CASE StopSettles(TRUE, "none") /\ daemon' = None /\ UNCHANGED tunnel
    BY <2>3, StopSettlesNoTunnel
  <2> QED BY <1>a, <1>b, <1>11, <2>2, <2>3, AwaitExitTypes, OneGoesOn
            DEF Goes, control, StalePlace, CleanupPlace
<1> QED BY <1>1, <1>2, <1>3, <1>4, <1>5, <1>6, <1>7, <1>8, <1>9, <1>10, <1>11
          DEF DaemonStep, EndStep

LEMMA StartActionNoTunnel ==
  ASSUME Types, Control, NoTunnel, ~Full, StartAction
  PROVE  NoTunnel'
<1>a. daemon \in Proc \cup {None} /\ tunnel = FALSE /\ monitor = FALSE /\ TaskTypes
  BY DEF Types, HandleTypes, NoTunnel
<1>b. (CleanupPlace \cup {"probe", "wait", "daemon", "stale"}) \cap TunnelSays = {}
  BY DEF CleanupPlace, TunnelSays, TunnelPlace
<1>1. UNCHANGED <<tunnel, monitor, timers>>
  BY <1>a
    DEF StartAction, StartStep, StartupStarts, StartProbes, CleanupBegins, CleanupTunnel,
        CleanupEnds,
              Proceeds, control, handles
<1>2. CASE StartupStarts
  <2>1. CASE UNCHANGED task
    BY <1>a, <1>1, <2>1, NoTunnelKept
  <2> QED BY <1>a, <1>b, <1>1, <1>2, <2>1, RequestStartMoves, OneGoesOn, TaskNames
            DEF StartupStarts, Goes
<1>3. CASE StartProbes
  <2>1. EnterStart = "daemon"
    BY DEF EnterStart
  <2> QED BY <1>a, <1>b, <1>1, <1>3, <2>1, StartProbesTypes, OneGoesOn, TaskNames DEF Goes
<1>4. CASE CleanupBegins
  BY <1>a, <1>b, <1>1, <1>4, CleanupBeginsTypes, OneGoesOn, TaskNames DEF Goes, CleanupPlace
<1>5. CASE CleanupTunnel
  <2>1. daemon' \in Proc \cup {None} /\ tunnel' \in BOOLEAN
    BY <1>a, <1>1, <1>5 DEF CleanupTunnel
  <2> QED BY <1>a, <1>1, <1>5, <2>1, CleanupTunnelTypes, CleanupEndsMoves, OneGoesOn, TaskNames
            DEF Becomes
<1> QED BY <1>2, <1>3, <1>4, <1>5 DEF StartAction, StartStep

LEMMA StopActionNoTunnel ==
  ASSUME Types, Control, NoTunnel, ~Full, StopAction
  PROVE  NoTunnel'
<1>a. daemon \in Proc \cup {None} /\ tunnel = FALSE /\ monitor = FALSE /\ TaskTypes
  BY DEF Types, HandleTypes, NoTunnel
<1>b. {"settle.start", "settle.recovery", "inspect", "stop.drain", "stop.tunnel", "stop.shutdown", "stale",
       "undo.ready", "daemon", "probe", "wait"} \cap TunnelSays = {}
  BY DEF TunnelSays, TunnelPlace
<1>1. CASE SetupStops
  BY <1>a, <1>b, <1>1, RequestStopMoves, OneGoesOn, TaskNames DEF SetupStops, handles, Goes
<1>2. CASE SetupStarts
  <2>1. CASE UNCHANGED task
    BY <1>a, <1>2, <2>1, NoTunnelKept DEF SetupStarts, handles, control
  <2> QED BY <1>a, <1>b, <1>2, <2>1, RequestStartMoves, OneGoesOn, TaskNames
            DEF SetupStarts, handles, control, Goes
<1>3. CASE StopSettlesStart
  BY <1>a, <1>b, <1>3, StopBeginsMoves, OneGoesOn, TaskNames DEF StopSettlesStart, handles, Goes
<1>4. CASE StopSettlesRecoveries
  <2>1. Go("stop", "inspect") /\ UNCHANGED <<tunnel, monitor, timers>>
    BY <1>4 DEF StopSettlesRecoveries, Proceeds, handles, control
  <2>2. Goes("stop", "inspect") /\ task'["stop"].unhooked = task["stop"].unhooked
    BY <1>a, <2>1, GoMoves, Labels, TaskNames DEF LookPlace
  <2> QED BY <1>a, <1>b, <2>1, <2>2, OneGoesOn, TaskNames DEF Goes
<1>5. CASE StopInspects
  <2>1. tunnel' = tunnel
    BY <1>a, <1>5 DEF StopInspects
  <2>2. UNCHANGED daemon
    BY <1>5, StopInspectsTypes
  <2> QED BY <1>a, <1>b, <1>5, <2>1, <2>2, StopInspectsTypes, StopSettlesNoTunnel, OneGoesOn,
              TaskNames
          DEF Goes, control
<1>6. CASE StopFindsNoDaemon
  BY <1>a, <1>6, StopSettlesNoTunnel DEF StopFindsNoDaemon
<1>7. CASE StopTunnel
  BY <1>a, <1>b, <1>7, StopTunnelTypes, OneGoesOn, TaskNames DEF Goes, control
<1>8. CASE UndoDaemon
  <2>1. UNCHANGED <<tunnel, monitor, timers>>
    BY <1>8 DEF UndoDaemon, control
  <2> QED BY <1>a, <1>b, <1>8, <2>1, UndoDaemonTypes, OneGoesOn, TaskNames DEF Goes
<1>9. CASE UndoReady
  <2>1. UNCHANGED <<daemon, tunnel>>
    BY <1>9 DEF UndoReady
  <2> QED BY <1>a, <1>9, <2>1, UndoReadyTypes, StopSettlesNoTunnel
<1>10. ~UndoTunnelReady
  BY TaskNames DEF UndoTunnelReady, NoTunnel, TunnelSays, At
<1> QED BY <1>1, <1>2, <1>3, <1>4, <1>5, <1>6, <1>7, <1>8, <1>9, <1>10 DEF StopAction, StopStep

LEMMA NoTunnelNext ==
  ASSUME Types, Control, NoTunnel, ~Full, [Next]_vars
  PROVE  NoTunnel'
<1>a. daemon \in Proc \cup {None} /\ tunnel = FALSE /\ monitor = FALSE /\ TaskTypes
  BY DEF Types, HandleTypes, NoTunnel
<1>1. CASE QuitAction
  <2>1. CASE LauncherExits \/ LauncherCrashes
    <3>1. \A t \in Tasks : task'[t] = NoTask
      BY <2>1 DEF LauncherExits, LauncherCrashes, LauncherGone
    <3> QED BY <2>1, <3>1, NoTaskTunnel, NoTaskIsOff, TaskNames, NoTunnelKept
            DEF LauncherExits, LauncherCrashes, LauncherGone
  <2>2. CASE CancelTurns
    <3>1. UNCHANGED <<daemon, tunnel>> /\ timers' \subseteq timers /\ (monitor' = monitor \/ monitor' = FALSE)
      BY <2>2, CancelTurnsTypes DEF CancelTurns, handles
    <3>2. CASE Goes("quit", "force.recovery")
      BY <1>a, <3>1, <3>2, OneGoesOn, TaskNames DEF Goes
    <3>3. CASE /\ task'["start"] = task["start"] /\ \A r \in Recoveries : task'[r] = task[r]
               /\ task'["stop"].unhooked = task["stop"].unhooked
               /\ task'["stop"].at \in {"settle.start", "settle.recovery"}
      <4>1. task'["stop"].at \notin TunnelSays
        BY <3>3 DEF TunnelSays, TunnelPlace
      <4>2. \A t \in Tasks \ {"quit"} : task'[t].at = task[t].at \/ task'[t].at \notin TunnelSays
        BY <3>3, <4>1, TaskNames
      <4> QED BY <1>a, <3>1, <3>3, <4>2, NoTunnelKept
    <3> QED BY <2>2, <3>2, <3>3, CancelTurnsTypes
  <2>3. CASE RequestQuit \/ QuitDeadline \/ ForceSettles \/ ForceTunnel \/ ForceDaemon \/ ForceEnds
    <3>1. \A u \in Tasks \ {"quit"} : task'[u] = task[u]
      BY <1>a, <2>3, RequestQuitTypes, ForceMoves, ForceSettlesTypes, ForceTunnelTypes,
          ForceDaemonTypes,
         ForceEndsTypes DEF QuitDeadline, Goes
    <3>2. timers' \subseteq timers /\ ~tunnel' /\ ~monitor'
      BY <1>a, <2>3, ForceMoves, ForceSettlesTypes, ForceTunnelTypes
         DEF RequestQuit, QuitDeadline, ForceSettles, ForceTunnel, ForceDaemon, ForceEnds,
             control, handles
    <3> QED BY <3>1, <3>2, OneGoesOn, TaskNames
  <2>4. CASE LauncherStarts
    BY <1>a, <2>4, NoTunnelKept DEF LauncherStarts, control, handles
  <2> QED BY <1>1, <2>1, <2>2, <2>3, <2>4 DEF QuitAction, QuitStep, ForceStep
<1>2. CASE RecoveryAction
  <2> PICK r \in Recoveries : RecoveryChecks(r) \/ RecoveryEnds(r) \/ \E name \in Children : TimerFires(name, r)
    BY <1>2 DEF RecoveryAction
  <2>1. r \in Tasks \ {"quit"} /\ r # "stop"
    BY TaskNames
  <2>2. CASE RecoveryChecks(r)
    <3>1. UNCHANGED <<daemon, tunnel, monitor>>
      BY <2>2 DEF RecoveryChecks, handles
    <3> QED BY <1>a, <2>1, <2>2, <3>1, RecoveryChecksTypes, ThrowsNoTunnel, OneGoesOn DEF Becomes
  <2>3. ~RecoveryEnds(r)
    BY <2>1 DEF RecoveryEnds, NoTunnel, TunnelSays, At
  <2>4. ASSUME NEW name \in Children, TimerFires(name, r) PROVE NoTunnel'
    <3>1. UNCHANGED <<tunnel, monitor>> /\ name = "daemon" /\ timers' \subseteq timers
      BY <2>4, TimerFiresTypes DEF TimerFires, handles, NoTunnel, Children
    <3>2. "daemon" \notin TunnelSays
      BY DEF TunnelSays, TunnelPlace
    <3>3. CASE UNCHANGED task
      BY <1>a, <3>1, <3>3, NoTunnelKept
    <3>4. CASE /\ \A u \in Tasks \ {r} : task'[u] = task[u]
               /\ task'[r].name = "daemon" /\ task'[r].at = "daemon"
      BY <1>a, <2>1, <3>1, <3>2, <3>4, OneGoesOn DEF NoTunnel
    <3> QED BY <2>4, <3>1, <3>3, <3>4, TimerFiresTypes
  <2> QED BY <2>2, <2>3, <2>4
<1>3. CASE Event
  <2>1. UNCHANGED task /\ UNCHANGED monitor /\ UNCHANGED tunnel
    BY <1>3, <1>a, ReapTypes, DaemonEventTypes
       DEF Event, TunnelFails, MonitorLosesTunnel, MonitorAdopts, RestartWindowPasses, handles
  <2>2. timers' \subseteq timers \cup {"daemon"}
    <3>1. ASSUME NEW p \in Proc, Reap(p) PROVE timers' \subseteq timers \cup {"daemon"}
      BY <3>1, ReapTypes DEF control
    <3> QED BY <1>3, <1>a, <3>1, DaemonEventTypes
            DEF Event, TunnelFails, MonitorLosesTunnel, MonitorAdopts, RestartWindowPasses,
                control
  <2> QED BY <1>a, <2>1, <2>2, NoTunnelKept
<1>4. CASE UNCHANGED vars
  BY <1>a, <1>4, NoTunnelKept DEF vars, handles, control
<1> QED BY <1>1, <1>2, <1>3, <1>4, TaskActionNoTunnel, StartActionNoTunnel, StopActionNoTunnel,
            Steps

LEMMA NoTunnelInit == ASSUME Init PROVE NoTunnel
BY NoTaskTunnel, NoTaskIsOff, TaskNames DEF Init, NoTunnel
-----------------------------------------------------------------------------
(* What the marker says, without a tunnel *)

FinalStatus == {"none", "ready", "failed", "external"}
Someone == timers # {} \/ \E t \in Tasks : ~Off(t)

\* A marker that is not final has somebody who will write it again.
Pending == life = "up" /\ file.own /\ file.status \notin FinalStatus => Someone
\* Who ignores exits is a failed start that cleans up, or a stop.
StoppingIsOwned ==
    life = "up" /\ stopping => task["start"].at \in CleanupPlace \/ At("stop", "settle.recovery") \/ Acting
\* A marker that says "ready" names a daemon that accepts turns, once it answers.
ReadyIsTrue ==
    life = "up" /\ file.own /\ file.status = "ready" /\ ~Acting /\ Off("start") =>
        daemon # None /\ daemon \notin draining /\ proc[daemon] # "booting"
\* Before a start spawns its daemon the marker is nobody's.
Unmarked == op = "between" \/ task["start"].at \in PreSpawn => ~file.own

MarkerHolds == Pending /\ StoppingIsOwned /\ ReadyIsTrue /\ Unmarked

\* The daemon that is held goes on accepting.
KeepsAccepting ==
    /\ daemon' = daemon
    /\ daemon # None => /\ daemon \in draining' => daemon \in draining
                        /\ proc'[daemon] = "booting" => proc[daemon] = "booting"

\* One task goes on and nobody writes the marker.
LEMMA HoldsGoing ==
  ASSUME MarkerHolds, NEW t \in Tasks, \A u \in Tasks \ {t} : task'[u] = task[u],
         task'[t].at # "off", UNCHANGED <<file, life>>, stopping' => stopping, op' # "between" \/ op' = op,
         t = "start" => /\ task[t].at \in CleanupPlace => task'[t].at \in CleanupPlace
                        /\ task'[t].at \in PreSpawn => task[t].at \in PreSpawn,
         t = "stop" => /\ task[t].at # "settle.start" /\ task[t].at # "off" =>
                             task'[t].at \notin {"off", "settle.start"}
                       /\ task'[t].at = "settle.recovery" => ~Acting /\ KeepsAccepting
                       /\ task'[t].at # "settle.start",
         t \notin {"start", "stop"} => KeepsAccepting
  PROVE  MarkerHolds'
<1>1. Pending'
  BY DEF Pending, Someone, Off, At
<1>2. StoppingIsOwned'
  BY TaskNames DEF MarkerHolds, StoppingIsOwned, Acting, At
<1>3. ReadyIsTrue'
  BY TaskNames DEF MarkerHolds, ReadyIsTrue, KeepsAccepting, Acting, Off, At
<1>4. Unmarked'
  BY TaskNames DEF MarkerHolds, Unmarked
<1> QED BY <1>1, <1>2, <1>3, <1>4 DEF MarkerHolds

\* Nobody moves and nobody writes the marker.
LEMMA HoldsStill ==
  ASSUME MarkerHolds, UNCHANGED <<task, file, life, stopping, op>>, timers \subseteq timers', KeepsAccepting
  PROVE  MarkerHolds'
BY DEF MarkerHolds, Pending, Someone, StoppingIsOwned, ReadyIsTrue, Unmarked, KeepsAccepting,
    Acting, Off, At

\* The launcher is not up: only a start that has not spawned yet matters.
LEMMA HoldsDown ==
  ASSUME life' # "up", op' = "between" \/ task'["start"].at \in PreSpawn => ~file'.own
  PROVE  MarkerHolds'
BY DEF MarkerHolds, Pending, StoppingIsOwned, ReadyIsTrue, Unmarked

\* One task ends, or fails, and the marker it leaves is final.
LEMMA HoldsEnding ==
  ASSUME Types, Control, MarkerHolds, NEW t \in Tasks, \A u \in Tasks \ {t} : task'[u] = task[u],
         task'[t].at = "off", UNCHANGED life, file'.status \in FinalStatus \/ ~file'.own,
         \/ file'.status = "ready" /\ Accepting(daemon) /\ KeepsAccepting
         \/ file'.status # "ready" \/ ~file'.own,
         stopping' => stopping /\ t # "start" /\ t # "stop", op' # "between",
         t # "start" => task["start"].at \notin PreSpawn
  PROVE  MarkerHolds'
<1>1. Pending'
  BY DEF Pending
<1>2. StoppingIsOwned'
  BY TaskNames DEF MarkerHolds, StoppingIsOwned, Acting, At
<1>3. ReadyIsTrue'
  BY SupervisorAssumption DEF ReadyIsTrue, Accepting, Healthy, KeepsAccepting
<1>4. Unmarked'
  BY TaskNames DEF Unmarked, PreSpawn, StalePlace, TunnelPlace
<1> QED BY <1>1, <1>2, <1>3, <1>4 DEF MarkerHolds

\* No recovery runs while a start has not spawned or an operation is between.
LEMMA RecoveryMarks ==
  ASSUME Control, NoTunnel, NEW r \in Recoveries, ~Off(r)
  PROVE  task["start"].at \notin PreSpawn /\ op # "between"
<1>1. DaemonRecovers
  BY DEF DaemonRecovers, NoTunnel
<1> QED BY <1>1 DEF Control, Roles, StartAlone, PreSpawn, StalePlace, TunnelPlace, Off, At

LEMMA ThrowsHolds ==
  ASSUME Types, Control, NoTunnel, MarkerHolds, NEW t \in Tasks \ {"quit"}, Throws(t), ~Off(t),
         UNCHANGED <<daemon, tunnel, life, op, proc>>, draining' \subseteq draining,
         t = "stop" => task[t].at \in TunnelPlace \cup SpawnPlace
  PROVE  MarkerHolds'
<1>1. Thrown(t) /\ KeepsAccepting
  <2>1. daemon' \in Proc \cup {None} /\ tunnel' \in BOOLEAN
    BY DEF Types, HandleTypes
  <2> QED BY <2>1, ThrowsMoves DEF Types, KeepsAccepting
<1>2. CASE t = "start"
  <2>1. /\ task'["start"].at = "cleanup" /\ UNCHANGED file /\ \A u \in Tasks \ {"start"} : task'[u] = task[u]
    BY <1>1, <1>2 DEF Thrown
  <2>2. Pending' /\ StoppingIsOwned' /\ ReadyIsTrue'
    BY <1>2, <2>1 DEF Pending, Someone, StoppingIsOwned, ReadyIsTrue, CleanupPlace, Off, At
  <2>3. Unmarked'
    BY <2>1 DEF MarkerHolds, Unmarked, PreSpawn, StalePlace, TunnelPlace
  <2> QED BY <2>2, <2>3 DEF MarkerHolds
<1>3. CASE t = "stop"
  <2>1. /\ task'[t].at \in {"undo.daemon", "undo.ready"} /\ UNCHANGED <<file, stopping>>
        /\ \A u \in Tasks \ {t} : task'[u] = task[u]
    BY <1>1, <1>3 DEF Thrown, control
  <2> QED BY <1>3, <2>1, HoldsGoing
<1>4. CASE t \in Recoveries
  <2>1. /\ task'[t].at = "off" /\ file'.own /\ file'.status = "failed" /\ stopping' = stopping
        /\ \A u \in Tasks \ {t} : task'[u] = task[u] /\ t # "start" /\ t # "stop"
    BY <1>1, <1>4, NoTaskIsOff, TaskNames DEF Thrown
  <2>2. task["start"].at \notin PreSpawn /\ op # "between"
    BY <1>4, RecoveryMarks
  <2>3. t # "start" /\ t # "stop"
    BY <1>4, TaskNames
  <2> QED BY <2>1, <2>2, <2>3, HoldsEnding DEF FinalStatus
<1> QED BY <1>2, <1>3, <1>4, TaskNames

\* A stop is over: its marker is final, or there is none.
LEMMA StopSettlesHolds ==
  ASSUME Types, Control, NEW ok \in BOOLEAN, NEW status, ok \/ status \in {"ready", "failed"},
         StopSettles(ok, status), Acting, UNCHANGED <<tunnel, life>>, daemon' \in Proc \cup {None},
         status = "ready" /\ ~ok => Accepting(daemon) /\ KeepsAccepting
  PROVE  MarkerHolds'
<1>1. tunnel' \in BOOLEAN
  BY DEF Types, HandleTypes
<1>2. Off("start") /\ ~At("start", "wait")
  BY DEF Control, StopAlone, Roles
<1>3. /\ task'["start"] = task["start"] /\ task'["stop"] = NoTask
      /\ file' = IF ok THEN NoMarker ELSE Marker(status, daemon', tunnel')
      /\ op' = IF op # "stopping" THEN op ELSE IF ok THEN "between" ELSE "none"
      /\ ~At("quit", "stop") => stopping' = FALSE
  BY <1>1, <1>2, StopSettlesMoves DEF Types
<1>4. /\ file'.status \in FinalStatus
      /\ ok => ~file'.own
      /\ ~ok => file'.status = status
  BY <1>1, <1>3, NoMarkerType, MarkerType DEF FinalStatus
<1>5. op # "between"
  BY DEF Control, Roles, Acting, At, Off
<1>6. Pending'
  BY <1>4 DEF Pending
<1>7. StoppingIsOwned'
  BY <1>3 DEF StoppingIsOwned, Control, Roles, Off, At
<1>8. ReadyIsTrue'
  BY <1>4, SupervisorAssumption DEF ReadyIsTrue, Accepting, Healthy, KeepsAccepting
<1>9. Unmarked'
  BY <1>2, <1>3, <1>4, <1>5 DEF Unmarked, PreSpawn, StalePlace, TunnelPlace, Off, At
<1> QED BY <1>6, <1>7, <1>8, <1>9 DEF MarkerHolds
\* What the stop does alone, and what belongs to the launcher that is up.
LEMMA ActingAlone ==
  ASSUME Control, Acting
  PROVE  Off("start") /\ op # "between" /\ task["start"].at \notin PreSpawn
BY DEF Control, StopAlone, Roles, Acting, PreSpawn, StalePlace, TunnelPlace, Off, At

LEMMA StartRuns ==
  ASSUME Control, ~Off("start")
  PROVE  op # "between"
BY DEF Control, Roles, Off, At

LEMMA StaleHolds ==
  ASSUME Types, Control, MarkerHolds, ~Full, NEW t \in {"start", "stop"}, task[t].at \in StalePlace,
         StaleDone(t) \/ StaleFails(t), UNCHANGED life
  PROVE  MarkerHolds'
<1>1. t \in Tasks /\ UNCHANGED <<daemon, tunnel>> /\ daemon' \in Proc \cup {None}
  <2>1. UNCHANGED <<daemon, tunnel>>
    BY DEF StaleDone, StaleFails
  <2> QED BY <2>1, TaskNames DEF Types, HandleTypes
<1>2. t = "stop" => Acting
  BY DEF Acting, StalePlace
<1>3. t = "start" => ~file.own /\ op # "between"
  BY StartRuns DEF MarkerHolds, Unmarked, PreSpawn, StalePlace, Off, At
<1>4. CASE t = "stop" /\ StaleDone(t)
  BY <1>1, <1>2, <1>4, StaleDoneMoves, StopSettlesHolds
<1>5. CASE t = "stop" /\ StaleFails(t)
  BY <1>1, <1>2, <1>5, StaleFailsMoves, HoldsGoing, TaskNames DEF Goes, Acting
<1>6. CASE t = "start" /\ StaleDone(t)
  <2>1. /\ task'["start"].at = "daemon" /\ stopping' = FALSE /\ op' = op /\ ~file'.own
        /\ \A u \in Tasks \ {"start"} : task'[u] = task[u]
    BY <1>6, StaleDoneMoves, NoMarkerType DEF EnterStart, Goes
  <2> QED BY <2>1, <1>3 DEF MarkerHolds, Pending, StoppingIsOwned, ReadyIsTrue, Unmarked
<1>7. CASE t = "start" /\ StaleFails(t)
  <2>1. /\ task'["start"].at = "off" /\ UNCHANGED stopping /\ file' = ExternalMarker
        /\ op' = IF op = "starting" THEN "none" ELSE op
        /\ \A u \in Tasks \ {"start"} : task'[u] = task[u]
    BY <1>7, StaleFailsMoves, NoTaskIsOff DEF Becomes
  <2>2. ~file'.own \/ file'.status = "external"
    BY <1>3, <1>7, <2>1, ExternalMarkerType
  <2>3. stopping' => life # "up"
    BY <1>7, <2>1
      DEF MarkerHolds, StoppingIsOwned, Control, StopAlone, CleanupPlace, StalePlace, Off, At
  <2>4. Pending' /\ ReadyIsTrue'
    BY <2>2 DEF Pending, ReadyIsTrue, FinalStatus
  <2>5. StoppingIsOwned'
    BY <2>3 DEF StoppingIsOwned
  <2>6. Unmarked'
    BY <1>3, <1>7, <2>1 DEF Unmarked, PreSpawn, StalePlace, TunnelPlace
  <2> QED BY <2>4, <2>5, <2>6 DEF MarkerHolds
<1> QED BY <1>4, <1>5, <1>6, <1>7

\* A failed start has cleaned up.
LEMMA CleanupHolds ==
  ASSUME Types, Control, MarkerHolds, CleanupEnds, ~Off("start"), UNCHANGED life,
         daemon' \in Proc \cup {None}, tunnel' \in BOOLEAN
  PROVE  MarkerHolds'
<1>1. /\ task'["start"].at = "off" /\ stopping' = FALSE /\ file'.status = "failed"
      /\ op' = IF op = "starting" THEN "none" ELSE op
      /\ \A u \in Tasks \ {"start"} : task'[u] = task[u]
  BY CleanupEndsMoves, NoTaskIsOff DEF Becomes, Types
<1> QED BY <1>1, StartRuns, HoldsEnding, TaskNames DEF FinalStatus

LEMMA FailsHolds ==
  ASSUME Types, Control, MarkerHolds, ~Full, NEW t \in Tasks \ {"quit"}, Fails(t), task[t].at \in EndPlace,
         UNCHANGED life
  PROVE  MarkerHolds'
<1>1. /\ UNCHANGED <<daemon, tunnel>> /\ t \in {"start", "stop"}
      /\ daemon' \in Proc \cup {None} /\ tunnel' \in BOOLEAN /\ TaskTypes
  BY FailsMoves DEF Types, HandleTypes
<1>2. CASE task[t].at \in StaleWait
  <2>1. StaleFails(t) /\ task[t].at \in StalePlace
    BY <1>2, FailsMoves DEF StaleWait, StalePlace
  <2> QED BY <1>1, <2>1, StaleHolds
<1>3. CASE task[t].at \notin StaleWait /\ t = "start"
  <2>1. ~Off("start")
    BY <1>3 DEF EndPlace, StaleWait, Off, At
  <2> QED BY <1>1, <1>3, <2>1, FailsMoves, CleanupHolds
<1>4. CASE task[t].at \notin StaleWait /\ t = "stop"
  <2>1. Undo /\ op' = op
    BY <1>4, FailsMoves
  <2>2. PICK label \in {"tunnel.status", "undo.daemon", "undo.ready"} : Goes("stop", label)
    BY <1>1, <2>1, UndoMoves
  <2>3. UNCHANGED <<file, stopping>>
    BY <1>1, <2>1, UndoMoves DEF control
  <2> QED BY <1>4, <2>1, <2>2, <2>3, HoldsGoing, TaskNames DEF Goes
<1> QED BY <1>1, <1>2, <1>3, <1>4

LEMMA StartDaemonHolds ==
  ASSUME Types, Control, NoTunnel, MarkerHolds, NEW t \in Tasks \ {"quit"}, StartDaemon(t)
  PROVE  MarkerHolds'
<1>1. At(t, "daemon") /\ UNCHANGED <<stopping, life, op>>
  BY DEF StartDaemon, session
<1>2. t = "stop" => Acting
  BY <1>1 DEF Acting, At
<1>3. CASE UNCHANGED <<proc, draining, handles, file>> /\ Goes(t, "daemon.resume")
  <2>1. KeepsAccepting
    BY <1>3 DEF KeepsAccepting, handles
  <2>2. "daemon.resume" \notin PreSpawn /\ "daemon" \notin CleanupPlace
    BY DEF PreSpawn, StalePlace, TunnelPlace, CleanupPlace
  <2> QED BY <1>1, <1>3, <2>1, <2>2, HoldsGoing DEF Goes, At
<1>4. CASE daemon = None /\ Goes(t, "daemon.spawned")
  <2>1. file'.status = "starting"
    <3>1. \E p \in Proc : file' = Spawned(p)
      BY <1>4 DEF StartDaemon
    <3> QED BY <3>1 DEF Spawned, Marker
  <2>2. Pending' /\ ReadyIsTrue'
    BY <1>4, <2>1 DEF Pending, Someone, ReadyIsTrue, Goes, Off, At
  <2>3. StoppingIsOwned'
    BY <1>1, <1>4, TaskNames DEF MarkerHolds, StoppingIsOwned, Goes, Acting, CleanupPlace, At
  <2>4. op # "between" /\ task'["start"].at \notin PreSpawn
    <3>1. CASE t = "start"
      BY <1>1, <1>4, <3>1, StartRuns DEF Goes, PreSpawn, StalePlace, TunnelPlace, Off, At
    <3>2. CASE t = "stop"
      BY <1>2, <1>4, <3>2, ActingAlone, TaskNames DEF Goes
    <3>3. CASE t \in Recoveries
      BY <1>1, <1>4, <3>3, RecoveryMarks, TaskNames DEF Goes, Off, At
    <3> QED BY <3>1, <3>2, <3>3, TaskNames
  <2>5. Unmarked'
    BY <1>1, <2>4 DEF Unmarked
  <2> QED BY <2>2, <2>3, <2>5 DEF MarkerHolds
<1> QED BY <1>3, <1>4, StartDaemonTypes

LEMMA DaemonStepHolds ==
  ASSUME Types, Control, NoTunnel, MarkerHolds, ~Full, NEW t \in Tasks \ {"quit"}, DaemonStep(t)
  PROVE  MarkerHolds'
<1>a. ~Off(t) /\ UNCHANGED life
  BY DEF DaemonStep, StartDaemon, ResumeDaemon, WaitForProxy, StopChild, ChildStopped, session,
      Off, At
<1>b. {"daemon.existing", "daemon.kill", "daemon.killed", "cleanup.killed", "cleanup.tunnel", "undo.ready",
       "recovered"} \cap (PreSpawn \cup {"off", "settle.start", "settle.recovery"}) = {}
      /\ SpawnPlace \cap CleanupPlace = {} /\ {"cleanup.killed", "cleanup.tunnel"} \subseteq CleanupPlace
  BY DEF PreSpawn, StalePlace, TunnelPlace, SpawnPlace, CleanupPlace
<1>1. CASE ResumeDaemon(t)
  <2>1. UNCHANGED <<daemon, tunnel, life, op, proc>> /\ At(t, "daemon.resume")
    BY <1>1 DEF ResumeDaemon, handles, session
  <2>2. t \notin {"start", "stop"}
    BY <2>1 DEF Control, StopAlone, StartAlone, At
  <2>3. draining' \subseteq draining
    BY <1>1 DEF ResumeDaemon
  <2>4. KeepsAccepting
    BY <2>1, <2>3 DEF KeepsAccepting
  <2>5. CASE Throws(t)
    BY <1>a, <2>1, <2>2, <2>3, <2>5, ThrowsHolds
  <2>6. CASE Goes(t, "daemon.existing") /\ UNCHANGED control
    BY <2>1, <2>2, <2>4, <2>6, HoldsGoing DEF Goes, control
  <2> QED BY <1>1, <2>5, <2>6, ResumeDaemonTypes
<1>2. CASE WaitForProxy(t)
  <2>1. /\ UNCHANGED <<daemon, tunnel, life, proc, draining>>
        /\ task[t].at \in {"daemon.existing", "daemon.spawned"}
    BY <1>2, WaitForProxyTypes DEF WaitForProxy, machine
  <2>2. KeepsAccepting /\ task[t].at \in SpawnPlace
    BY <2>1 DEF KeepsAccepting, SpawnPlace
  <2>3. CASE /\ AcceptsAs(t) /\ t = "start" /\ Becomes(t, NoTask) /\ file' = Marker("ready", daemon, tunnel)
             /\ UNCHANGED stopping /\ op' = IF op = "starting" THEN "none" ELSE op
    <3>1. file'.status = "ready" /\ Accepting(daemon) /\ op # "between" /\ op' # "between"
      BY <1>a, <2>3, StartRuns DEF Marker, AcceptsAs
    <3>2. stopping => life # "up"
      BY <2>1, <2>3 DEF MarkerHolds, StoppingIsOwned, Control, StopAlone, CleanupPlace, Off, At
    <3>3. task'["start"].at = "off"
      BY <2>3, NoTaskIsOff DEF Becomes
    <3>4. Pending' /\ StoppingIsOwned' /\ ReadyIsTrue'
      BY <2>1, <2>2, <2>3, <3>1, <3>2, SupervisorAssumption
         DEF Pending, FinalStatus, StoppingIsOwned, ReadyIsTrue, Accepting, Healthy,
             KeepsAccepting
    <3>5. Unmarked'
      BY <3>1, <3>3 DEF Unmarked, PreSpawn, StalePlace, TunnelPlace
    <3> QED BY <3>4, <3>5 DEF MarkerHolds
  <2>4. CASE AcceptsAs(t) /\ t # "start" /\ Goes(t, DaemonDone(t)) /\ UNCHANGED <<control, op, budget>>
    <3>1. DaemonDone(t) \in {"undo.ready", "recovered"}
      BY DEF DaemonDone
    <3> QED BY <1>b, <2>1, <2>2, <2>4, <3>1, HoldsGoing DEF Goes, control
  <2>5. CASE Goes(t, "daemon.kill") /\ UNCHANGED <<control, restartable, op>>
    BY <1>b, <2>1, <2>2, <2>5, HoldsGoing DEF Goes, control
  <2>6. CASE Throws(t) /\ UNCHANGED <<restartable, op>>
    BY <1>a, <2>1, <2>2, <2>6, ThrowsHolds
  <2> QED BY <1>2, <2>3, <2>4, <2>5, <2>6, WaitForProxyTypes
<1>3. CASE StopChild(t)
  <2>1. daemon \in Proc /\ UNCHANGED <<draining, daemon, file, stopping, op>> /\ Terminates(daemon)
    BY <1>3, StopChildTypes DEF StopChild, control, session
  <2>2. KeepsAccepting
    BY <2>1, TerminatesTypes DEF KeepsAccepting, Types
  <2>3. CASE At(t, "daemon.kill") /\ Goes(t, "daemon.killed")
    <3>1. task[t].at \in SpawnPlace
      BY <2>3 DEF SpawnPlace, At
    <3> QED BY <1>a, <1>b, <2>1, <2>2, <2>3, <3>1, HoldsGoing DEF Goes
  <2>4. CASE t = "start" /\ Goes(t, "cleanup.killed")
    BY <1>a, <1>b, <2>1, <2>2, <2>4, HoldsGoing DEF Goes
  <2> QED BY <1>3, <2>3, <2>4, StopChildTypes
<1>4. CASE ChildStopped(t)
  <2>1. UNCHANGED <<daemon, tunnel, life, op, proc, draining>>
    BY <1>4 DEF ChildStopped, machine, session
  <2>2. CASE t = "start" /\ Goes(t, "cleanup.tunnel") /\ UNCHANGED control
    BY <1>b, <2>1, <2>2, HoldsGoing DEF Goes, control
  <2>3. CASE Throws(t) /\ task[t].at \in {"daemon.kill", "daemon.killed"}
    BY <1>a, <2>1, <2>3, ThrowsHolds DEF SpawnPlace
  <2> QED BY <1>4, <2>2, <2>3, ChildStoppedTypes
<1> QED BY <1>1, <1>2, <1>3, <1>4, StartDaemonHolds DEF DaemonStep

LEMMA EndStepHolds ==
  ASSUME Types, Control, NoTunnel, MarkerHolds, ~Full, NEW t \in Tasks \ {"quit"}, EndStep(t)
  PROVE  MarkerHolds'
<1>a. UNCHANGED life
  BY DEF EndStep, StaleInspects, StaleTunnel, Drain, Shutdown, AwaitExit
<1>b. /\ StalePlace \subseteq PreSpawn /\ StalePlace \cap CleanupPlace = {}
      /\ {"stop.tunnel", "stop.exit"} \cap {"off", "settle.start", "settle.recovery"} = {}
      /\ StalePlace \cap {"off", "settle.start", "settle.recovery"} = {}
      /\ CleanupPlace \cap ({"off"} \cup PreSpawn) = {}
  BY DEF PreSpawn, StalePlace, CleanupPlace, TunnelPlace
<1>1. CASE StaleInspects(t)
  <2>1. task[t].at \in StalePlace
    BY <1>1 DEF StaleInspects, StalePlace, At
  <2>2. CASE \E label \in {"stale.drain", "stale.tunnel"} : Goes(t, label) /\ UNCHANGED <<control, op>>
    <3>1. {"stale.drain", "stale.tunnel"} \subseteq StalePlace
      BY DEF StalePlace
    <3> QED BY <1>1, <1>a, <1>b, <2>1, <2>2, <3>1, StaleInspectsTypes, HoldsGoing
              DEF Goes, control
  <2> QED BY <1>1, <1>a, <2>1, <2>2, StaleInspectsTypes, StaleHolds
<1>2. CASE StaleTunnel(t)
  <2>1. task[t].at \in StalePlace
    BY <1>2 DEF StaleTunnel, StalePlace, At
  <2> QED BY <1>2, <1>a, <2>1, StaleTunnelTypes, StaleHolds DEF StaleTunnel
<1>3. CASE Drain(t)
  <2>1. CASE Goes(t, DrainLabel(t)) /\ UNCHANGED <<control, op>>
    <3>1. t = "start" => \/ task[t].at \in StalePlace /\ DrainLabel(t) \in StalePlace
                         \/ task[t].at \in CleanupPlace /\ DrainLabel(t) \in CleanupPlace
      BY <1>3, EndTasks, DrainTypes DEF Drain, DrainLabel, StalePlace, CleanupPlace
    <3>2. t = "stop" => DrainLabel(t) \in {"stop.tunnel"} \cup StalePlace
      BY <1>3, EndTasks, DrainTypes DEF Drain, DrainLabel, StalePlace, CleanupPlace
    <3>3. DrainLabel(t) # "off"
      BY DEF DrainLabel
    <3> QED BY <1>3, <1>a, <1>b, <2>1, <3>1, <3>2, <3>3, DrainTypes, HoldsGoing DEF Goes, control
  <2>2. CASE UNCHANGED <<task, control, daemon, tunnel, monitor, op, budget>>
    <3>1. task[t].at \notin {"off", "settle.start", "settle.recovery"} /\ t \in {"start", "stop"}
      BY <1>3, DrainTypes DEF Drain
    <3> QED BY <1>a, <2>2, <3>1, HoldsGoing DEF control
  <2> QED BY <1>3, <1>a, <2>1, <2>2, DrainTypes, FailsHolds
<1>4. CASE Shutdown(t)
  <2>1. CASE Goes(t, ShutdownLabel(t)) /\ UNCHANGED <<control, op>>
    <3>1. t = "start" => \/ task[t].at \in StalePlace /\ ShutdownLabel(t) \in StalePlace
                         \/ task[t].at \in CleanupPlace /\ ShutdownLabel(t) \in CleanupPlace
      BY <1>4, EndTasks, ShutdownTypes DEF Shutdown, ShutdownLabel, StalePlace, CleanupPlace
    <3>2. t = "stop" => ShutdownLabel(t) \in {"stop.exit"} \cup StalePlace
      BY <1>4, EndTasks, ShutdownTypes DEF Shutdown, ShutdownLabel, StalePlace, CleanupPlace
    <3>3. ShutdownLabel(t) # "off"
      BY DEF ShutdownLabel
    <3> QED BY <1>4, <1>a, <1>b, <2>1, <3>1, <3>2, <3>3, ShutdownTypes, HoldsGoing
              DEF Goes, control
  <2> QED BY <1>4, <1>a, <2>1, ShutdownTypes, FailsHolds
<1>5. CASE AwaitExit(t)
  <2>1. task[t].at \in EndPlace /\ t \in {"start", "stop"}
    BY <1>5, AwaitExitTypes
  <2>2. CASE Fails(t)
    BY <1>a, <2>1, <2>2, FailsHolds
  <2>3. CASE At(t, "stop.exit") /\ t = "stop" /\ StopSettles(TRUE, "none") /\ daemon' = None /\ UNCHANGED tunnel
    <3>1. Acting
      BY <2>3 DEF Acting, At
    <3> QED BY <1>a, <2>3, <3>1, StopSettlesHolds
  <2>4. CASE At(t, "stale.exit") /\ Goes(t, "stale.tunnel") /\ UNCHANGED <<control, op>>
    <3>1. "stale.exit" \in StalePlace /\ "stale.tunnel" \in StalePlace
      BY DEF StalePlace
    <3> QED BY <1>a, <1>b, <2>1, <2>4, <3>1, HoldsGoing DEF Goes, control, At
  <2>5. CASE t = "start" /\ Goes(t, "cleanup.tunnel") /\ UNCHANGED <<control, op>>
    <3>1. "cleanup.tunnel" \in CleanupPlace
      BY DEF CleanupPlace
    <3> QED BY <1>a, <1>b, <2>1, <2>5, <3>1, HoldsGoing DEF Goes, control
  <2> QED BY <1>5, <2>2, <2>3, <2>4, <2>5, AwaitExitTypes
<1> QED BY <1>1, <1>2, <1>3, <1>4, <1>5 DEF EndStep
LEMMA StartActionHolds ==
  ASSUME Types, Control, Control', Patient', NoTunnel, MarkerHolds, ~Full, StartAction
  PROVE  MarkerHolds'
<1>a. TaskTypes /\ daemon \in Proc \cup {None} /\ tunnel = FALSE
  BY DEF Types, HandleTypes, NoTunnel
<1>1. CASE StartupStarts
  <2>1. pending /\ life = "up" /\ UNCHANGED <<life, op, file, stopping>>
    BY <1>1 DEF StartupStarts, Patient, control
  <2>2. /\ \A t \in Tasks : Off(t)
        /\ ~stopping /\ op = "none" /\ ~file.own
    BY <2>1 DEF Control, Down
  <2> QED BY <2>1, <2>2 DEF MarkerHolds, Pending, StoppingIsOwned, ReadyIsTrue, Unmarked
<1>2. CASE StartProbes
  <2>1. UNCHANGED <<life, op, file>> /\ (stopping' => stopping) /\ At("start", "probe")
    BY <1>2 DEF StartProbes, Proceeds, session, control
  <2>2. Goes("start", "stale") \/ Goes("start", "daemon")
    BY <1>2, StartProbesTypes DEF EnterStart
  <2>3. {"stale", "daemon"} \cap CleanupPlace = {} /\ "probe" \in PreSpawn /\ "probe" \notin CleanupPlace
    BY DEF CleanupPlace, PreSpawn
  <2> QED BY <2>1, <2>2, <2>3, HoldsGoing, TaskNames DEF Goes, At
<1>3. CASE CleanupBegins
  <2>1. UNCHANGED <<life, op>> /\ At("start", "cleanup")
    BY <1>3 DEF CleanupBegins, session
  <2>2. UNCHANGED control /\ \E label \in {"cleanup.tunnel", "cleanup.drain", "cleanup.kill"} : Goes("start", label)
    BY <1>3, CleanupBeginsTypes
  <2>3. {"cleanup.tunnel", "cleanup.drain", "cleanup.kill"} \subseteq CleanupPlace \ (PreSpawn \cup {"off"})
    BY DEF CleanupPlace, PreSpawn, StalePlace, TunnelPlace
  <2> QED BY <2>1, <2>2, <2>3, HoldsGoing, TaskNames DEF Goes, control
<1>4. CASE CleanupTunnel
  <2>1. UNCHANGED <<daemon, tunnel, life>> /\ ~Off("start")
    BY <1>a, <1>4 DEF CleanupTunnel, Off, At
  <2> QED BY <1>a, <1>4, <2>1, CleanupTunnelTypes, CleanupHolds
<1> QED BY <1>1, <1>2, <1>3, <1>4 DEF StartAction, StartStep

LEMMA StopActionHolds ==
  ASSUME Types, Control, NoTunnel, MarkerHolds, ~Full, StopAction
  PROVE  MarkerHolds'
<1>a. TaskTypes /\ daemon \in Proc \cup {None} /\ tunnel = FALSE
  BY DEF Types, HandleTypes, NoTunnel
<1>1. CASE SetupStops
  <2>1. life = "up" /\ op = "none" /\ UNCHANGED <<life, file, daemon, proc, draining>> /\ op' = "stopping"
    BY <1>1 DEF SetupStops, machine, handles
  <2>2. Off("stop")
    BY <2>1 DEF Control, Roles, Off, At
  <2>3. task'["start"] = task["start"] /\ task'["stop"].at \in {"settle.start", "settle.recovery"}
    BY <1>a, <1>1, RequestStopMoves, TaskNames DEF SetupStops, Goes
  <2>4. stopping' = stopping \/ task'["stop"].at = "settle.recovery"
    BY <1>a, <1>1, RequestStopMoves, TaskNames DEF SetupStops, Goes
  <2>5. Pending'
    BY <2>3, TaskNames DEF Pending, Someone, Off, At
  <2>6. StoppingIsOwned'
    BY <2>1, <2>2, <2>3, <2>4 DEF MarkerHolds, StoppingIsOwned, Acting, Off, At
  <2>7. ReadyIsTrue'
    BY <2>1, <2>2, <2>3 DEF MarkerHolds, ReadyIsTrue, Acting, Off, At
  <2>8. Unmarked'
    BY <2>1, <2>3 DEF MarkerHolds, Unmarked
  <2> QED BY <2>5, <2>6, <2>7, <2>8 DEF MarkerHolds
<1>2. CASE SetupStarts
  <2>1. op = "between" /\ UNCHANGED <<life, file, stopping>>
    BY <1>2 DEF SetupStarts, control
  <2>2. ~file.own /\ Off("start")
    BY <2>1 DEF MarkerHolds, Unmarked, Control, Roles
  <2>3. task'["stop"] = task["stop"]
    BY <1>a, <1>2, RequestStartMoves, TaskNames DEF SetupStarts, Goes
  <2>4. Pending' /\ ReadyIsTrue' /\ Unmarked'
    BY <2>1, <2>2 DEF Pending, ReadyIsTrue, Unmarked
  <2>5. StoppingIsOwned'
    BY <2>1, <2>2, <2>3 DEF MarkerHolds, StoppingIsOwned, Acting, CleanupPlace, Off, At
  <2> QED BY <2>4, <2>5 DEF MarkerHolds
<1>3. CASE StopSettlesStart
  <2>1. At("stop", "settle.start") /\ UNCHANGED <<life, file, daemon, proc, draining, op>>
    BY <1>3 DEF StopSettlesStart, machine, handles, session
  <2>2. task'["start"] = task["start"] /\ task'["stop"].at = "settle.recovery"
    BY <1>3, StopSettlesStartTypes, TaskNames DEF Goes
  <2>3. Pending' /\ StoppingIsOwned'
    BY <2>2, TaskNames DEF Pending, Someone, StoppingIsOwned, Off, At
  <2>4. ReadyIsTrue' /\ Unmarked'
    BY <2>1, <2>2 DEF MarkerHolds, ReadyIsTrue, Unmarked, Acting, Off, At
  <2> QED BY <2>3, <2>4 DEF MarkerHolds
<1>4. CASE StopSettlesRecoveries
  <2>1. At("stop", "settle.recovery") /\ UNCHANGED <<life, op>>
    BY <1>4 DEF StopSettlesRecoveries, session
  <2> QED BY <1>4, <2>1, StopSettlesRecoveriesTypes, HoldsGoing, TaskNames DEF Goes, control
<1>5. CASE StopInspects
  <2>1. UNCHANGED life /\ Acting /\ tunnel' = tunnel
    BY <1>a, <1>5 DEF StopInspects, Acting, At
  <2>2. CASE StopSettles(TRUE, "none") /\ UNCHANGED daemon
    BY <1>a, <2>1, <2>2, StopSettlesHolds
  <2>3. CASE /\ Goes("stop", FirstStep(tunnel')) /\ UNCHANGED <<control, monitor, op, budget>>
             /\ FirstStep(tunnel') \in {"stop.drain", "stop.tunnel", "stale"}
    BY <2>1, <2>3, HoldsGoing, TaskNames DEF Goes, control
  <2> QED BY <1>5, <2>2, <2>3, StopInspectsTypes
<1>6. CASE StopFindsNoDaemon
  <2>1. Acting
    BY <1>6 DEF StopFindsNoDaemon, Acting, At
  <2> QED BY <1>a, <1>6, <2>1, StopSettlesHolds DEF StopFindsNoDaemon
<1>7. CASE StopTunnel
  <2>1. UNCHANGED <<life, op>>
    BY <1>7 DEF StopTunnel, session
  <2> QED BY <1>a, <1>7, <2>1, StopTunnelTypes, HoldsGoing, TaskNames DEF Goes, control
<1>8. CASE UndoDaemon
  <2>1. UNCHANGED <<life, op, control>>
    BY <1>8 DEF UndoDaemon, session
  <2> QED BY <1>8, <2>1, UndoDaemonTypes, HoldsGoing, TaskNames DEF Goes, control
<1>9. CASE UndoReady
  <2>1. UNCHANGED <<daemon, tunnel, life, proc, draining>> /\ Acting
    BY <1>9 DEF UndoReady, machine, Acting, At
  <2>2. KeepsAccepting
    BY <2>1 DEF KeepsAccepting
  <2>3. CASE StopSettles(FALSE, "ready") /\ Accepting(daemon)
    BY <1>a, <2>1, <2>2, <2>3, StopSettlesHolds
  <2>4. CASE StopSettles(FALSE, "failed")
    BY <1>a, <2>1, <2>4, StopSettlesHolds
  <2> QED BY <1>9, <2>3, <2>4, UndoReadyTypes
<1>10. ~UndoTunnelReady
  BY TaskNames DEF UndoTunnelReady, NoTunnel, TunnelSays, At
<1> QED BY <1>1, <1>2, <1>3, <1>4, <1>5, <1>6, <1>7, <1>8, <1>9, <1>10 DEF StopAction, StopStep

LEMMA QuitActionHolds ==
  ASSUME Types, Control, MarkerHolds, QuitAction
  PROVE  MarkerHolds'
<1>1. CASE LauncherExits \/ LauncherCrashes
  <2>1. life' # "up" /\ ~file'.own
    <3>1. file' = [file EXCEPT !.own = FALSE] /\ file \in File
      BY <1>1 DEF LauncherExits, LauncherCrashes, LauncherGone, Types, ControlTypes
    <3> QED BY <1>1, <3>1 DEF LauncherExits, LauncherCrashes, File
  <2> QED BY <2>1, HoldsDown
<1>2. CASE LauncherStarts
  <2>1. UNCHANGED <<file, stopping, task, op>> /\ ~UpLife
    BY <1>2 DEF LauncherStarts, control
  <2>2. ~file.own /\ ~stopping
    BY <2>1 DEF Control, Down
  <2> QED BY <2>1, <2>2 DEF MarkerHolds, Pending, StoppingIsOwned, ReadyIsTrue, Unmarked
<1>3. CASE RequestQuit
  <2>1. life' # "up" /\ op' = op /\ file' = file /\ task'["start"] = task["start"]
    BY <1>3, RequestQuitTypes, TaskNames DEF RequestQuit, control, Goes
  <2> QED BY <2>1, HoldsDown DEF MarkerHolds, Unmarked
<1>4. CASE CancelTurns \/ QuitDeadline \/ ForceSettles \/ ForceTunnel \/ ForceDaemon
  <2>1. ~Off("quit") /\ life' = life /\ op' = op /\ file' = file
    BY <1>4
      DEF CancelTurns, QuitDeadline, ForceSettles, ForceTunnel, ForceDaemon, Proceeds, control,
                session, Off, At
  <2>2. task'["start"] = task["start"]
    <3>1. QuitDeadline => Goes("quit", "force.recovery")
      BY ForceMoves DEF QuitDeadline, Types
    <3>2. CancelTurns => task'["start"] = task["start"]
      BY CancelTurnsTypes, TaskNames DEF Goes
    <3> QED BY <1>4, <3>1, <3>2, ForceSettlesTypes, ForceTunnelTypes, ForceDaemonTypes, TaskNames
              DEF Goes
  <2>3. life' # "up"
    BY <2>1 DEF Control, Roles
  <2> QED BY <2>1, <2>2, <2>3, HoldsDown DEF MarkerHolds, Unmarked
<1>5. CASE ForceEnds
  <2>1. task["quit"].at \in {"force.daemon", "force.killed"} /\ life' = life /\ op' = op
    BY <1>5 DEF ForceEnds, session, At
  <2>2. task'["start"] = task["start"]
    BY <1>5, ForceEndsTypes, TaskNames DEF Goes
  <2>3. life' # "up" /\ op' # "between"
    BY <2>1 DEF Control, Roles, Off, At
  <2>4. task["start"].at \notin PreSpawn
    BY <2>1 DEF Control, StartAlone
  <2> QED BY <2>2, <2>3, <2>4, HoldsDown
<1> QED BY <1>1, <1>2, <1>3, <1>4, <1>5 DEF QuitAction, QuitStep, ForceStep

LEMMA RecoveryActionHolds ==
  ASSUME Types, Control, NoTunnel, MarkerHolds, ~Full, RecoveryAction
  PROVE  MarkerHolds'
<1> PICK r \in Recoveries : RecoveryChecks(r) \/ RecoveryEnds(r) \/ \E name \in Children : TimerFires(name, r)
  BY DEF RecoveryAction
<1>1. r \in Tasks \ {"quit"} /\ r # "stop" /\ r # "start"
  BY TaskNames
<1>2. CASE RecoveryChecks(r)
  <2>1. UNCHANGED <<daemon, tunnel, life, op, proc, draining>> /\ ~Off(r)
    BY <1>2 DEF RecoveryChecks, machine, handles, session, Off, At
  <2>2. CASE Throws(r)
    BY <1>1, <2>1, <2>2, ThrowsHolds
  <2>3. CASE /\ Becomes(r, NoTask) /\ file' = Marker("ready", daemon, tunnel) /\ Accepting(daemon)
             /\ UNCHANGED stopping
    <3>1. file'.status = "ready" /\ KeepsAccepting /\ task'[r].at = "off"
      BY <2>1, <2>3, NoTaskIsOff DEF Marker, KeepsAccepting, Becomes
    <3>2. task["start"].at \notin PreSpawn /\ op # "between"
      BY <2>1, RecoveryMarks
    <3> QED BY <1>1, <2>1, <2>3, <3>1, <3>2, HoldsEnding DEF Becomes, FinalStatus
  <2> QED BY <1>2, <2>2, <2>3, RecoveryChecksTypes
<1>3. ~RecoveryEnds(r)
  BY <1>1 DEF RecoveryEnds, NoTunnel, TunnelSays, At
<1>4. ASSUME NEW name \in Children, TimerFires(name, r) PROVE MarkerHolds'
  <2>1. UNCHANGED <<file, life, op, stopping, daemon, proc, draining>>
    BY <1>4 DEF TimerFires, machine, handles, session
  <2>2. KeepsAccepting
    BY <2>1 DEF KeepsAccepting
  <2>3. CASE stopping /\ UNCHANGED task
    <3>1. life = "up" => \E t \in Tasks : ~Off(t)
      BY <2>3, TaskNames DEF MarkerHolds, StoppingIsOwned, Acting, CleanupPlace, Off, At
    <3>2. Pending'
      BY <2>1, <2>3, <3>1 DEF Pending, Someone, Off, At
    <3> QED BY <2>1, <2>3, <3>2
              DEF MarkerHolds, StoppingIsOwned, ReadyIsTrue, Unmarked, Acting, Off, At
  <2>4. CASE /\ \A u \in Tasks \ {r} : task'[u] = task[u]
             /\ task'[r].at = IF name = "tunnel" THEN "tunnel.status" ELSE "daemon"
    BY <1>1, <2>1, <2>2, <2>4, HoldsGoing
  <2> QED BY <1>4, <2>3, <2>4, TimerFiresTypes
<1> QED BY <1>2, <1>3, <1>4

\* The exit of the daemon that this launcher holds: whoever is at it writes the marker again, or a
\* recovery is due.
LEMMA ReapHolds ==
  ASSUME Types, Control, Owned, MarkerHolds, NEW p \in Proc, Reap(p)
  PROVE  MarkerHolds'
<1>1. UNCHANGED <<task, life, op, stopping>> /\ proc'[p] = "gone" /\ \A q \in Proc \ {p} : proc'[q] = proc[q]
  BY ReapTypes DEF session
<1>2. CASE p \notin mine
  <2>1. UNCHANGED <<daemon, file, timers>> /\ draining' \subseteq draining
    BY <1>2 DEF Reap, handles, control
  <2>2. KeepsAccepting
    <3>1. daemon \in Proc \cup {None} /\ None \notin Proc
      BY SupervisorAssumption DEF Types, HandleTypes, SupervisorAssumption
    <3>2. daemon \in Proc => daemon # p
      BY <1>2, <3>1 DEF Control, Handles
    <3> QED BY <1>1, <2>1, <3>1, <3>2 DEF KeepsAccepting
  <2> QED BY <1>1, <2>1, <2>2, HoldsStill
<1>3. CASE p \in mine
  <2>1. daemon = p /\ daemon # None
    BY <1>3 DEF Control, Handles
  <2>2. life = "up" => Someone' \/ file'.status = "failed"
    <3>1. CASE stopping
      BY <1>1, <3>1, TaskNames
        DEF MarkerHolds, StoppingIsOwned, Someone, Acting, CleanupPlace, Off, At
    <3>2. CASE p \in expected
      <4> PICK t \in Tasks : Awaits(t, p)
        BY <3>2 DEF Owned, Awaited
      <4> QED BY <1>1 DEF Awaits, Someone, Off, At
    <3>3. CASE ~stopping /\ p \notin expected /\ p \in restartable
      <4>1. ScheduleRecovery("daemon", Marker("degraded", daemon', tunnel))
        BY <1>3, <3>3 DEF Reap
      <4>2. "daemon" \in timers' \/ file'.status = "failed"
        <5>1. daemon' \in Proc \cup {None} /\ tunnel \in BOOLEAN
          BY <1>3, ReapTypes DEF Types, HandleTypes
        <5>2. Marker("degraded", daemon', tunnel) \in File
          BY <5>1, MarkerType
        <5> QED BY <3>3, <4>1, <5>2, Schedules DEF Types, Children
      <4> QED BY <4>2 DEF Someone
    <3>4. CASE p \notin restartable
      <4> PICK t \in Tasks : Owns(t, daemon)
        BY <2>1, <3>4 DEF Owned, Confirmed
      <4> QED BY <1>1 DEF Owns, Someone, Off, At
    <3> QED BY <3>1, <3>2, <3>3, <3>4
  <2>3. file'.status \in {"stopping", "degraded", "failed"}
    <3>1. daemon' \in Proc \cup {None} /\ tunnel \in BOOLEAN
      BY <1>3, ReapTypes DEF Types, HandleTypes
    <3>2. /\ Marker("degraded", daemon', tunnel) \in File /\ Marker("degraded", daemon', tunnel).status = "degraded"
          /\ Marker("stopping", daemon', tunnel).status = "stopping"
      BY <3>1, MarkerType
    <3>3. CASE ScheduleRecovery("daemon", Marker("degraded", daemon', tunnel))
      BY <3>2, <3>3, Schedules DEF Types, Children
    <3> QED BY <1>3, <3>2, <3>3 DEF Reap
  <2>4. Pending'
    BY <1>1, <2>2 DEF Pending, FinalStatus
  <2>5. StoppingIsOwned' /\ ReadyIsTrue'
    BY <1>1, <2>3 DEF MarkerHolds, StoppingIsOwned, ReadyIsTrue, Acting, At
  <2>6. Unmarked'
    BY <1>1, <2>1 DEF Unmarked, Control, Roles, StartAlone
  <2> QED BY <2>4, <2>5, <2>6 DEF MarkerHolds
<1> QED BY <1>2, <1>3

LEMMA EventHolds ==
  ASSUME Types, Control, Owned, NoTunnel, MarkerHolds, Event
  PROVE  MarkerHolds'
<1>1. ASSUME NEW p \in Proc, DaemonEvent(p) PROVE MarkerHolds'
  <2>1. UNCHANGED <<task, file, life, stopping, op, timers, daemon, draining>>
    BY <1>1, DaemonEventTypes DEF control, session, handles
  <2>2. KeepsAccepting
    <3>1. daemon # None => daemon \in Proc
      BY DEF Types, HandleTypes
    <3> QED BY <1>1, <2>1, <3>1, DaemonEventTypes DEF KeepsAccepting
  <2> QED BY <2>1, <2>2, HoldsStill
<1>2. ~MonitorLosesTunnel /\ ~MonitorAdopts
  BY DEF MonitorLosesTunnel, MonitorAdopts, NoTunnel
<1>3. CASE TunnelFails \/ \E name \in Children : RestartWindowPasses(name)
  <2>1. UNCHANGED <<task, file, life, stopping, op, timers, daemon, draining, proc>>
    BY <1>3 DEF TunnelFails, RestartWindowPasses, control, session, handles, machine
  <2>2. KeepsAccepting
    BY <2>1 DEF KeepsAccepting
  <2> QED BY <2>1, <2>2, HoldsStill
<1> QED BY <1>1, <1>2, <1>3, ReapHolds DEF Event

LEMMA MarkerHoldsNext ==
  ASSUME Types, Control, Control', Owned, NoTunnel, MarkerHolds, ~Full, Patient', [Next]_vars
  PROVE  MarkerHolds'
<1>1. CASE TaskAction
  <2> PICK t \in Tasks \ {"quit"} : TunnelStep(t) \/ DaemonStep(t) \/ EndStep(t)
    BY <1>1 DEF TaskAction
  <2>1. ~TunnelStep(t)
    BY DEF NoTunnel, TunnelSays, TunnelPlace, TunnelStep, TunnelStatus, TunnelStop, TunnelConnect,
           TunnelVerify, TunnelCleanup, At
  <2> QED BY <2>1, DaemonStepHolds, EndStepHolds
<1>2. CASE UNCHANGED vars
  <2>1. UNCHANGED <<task, file, life, stopping, op, timers, daemon, draining, proc>>
    BY <1>2 DEF vars, control, session, handles, machine
  <2>2. KeepsAccepting
    BY <2>1 DEF KeepsAccepting
  <2> QED BY <2>1, <2>2, HoldsStill
<1> QED BY <1>1, <1>2, StartActionHolds, StopActionHolds, QuitActionHolds, RecoveryActionHolds,
            EventHolds, Steps

Settling == Sound /\ NoTunnel /\ MarkerHolds

LEMMA SettlingAlways == ASSUME ~Full PROVE Spec => [](Patient => Settling)
<1>1. Init => Settling
  <2>1. ASSUME Init PROVE MarkerHolds
    <3>1. ~file.own /\ ~stopping
      BY <2>1, NoMarkerType DEF Init
    <3> QED BY <3>1 DEF MarkerHolds, Pending, StoppingIsOwned, ReadyIsTrue, Unmarked
  <2> QED BY <2>1, SoundInit, NoTunnelInit DEF Settling
<1>2. Types /\ (Patient => Settling) /\ [Next]_vars => (Patient => Settling)'
  <2> SUFFICES ASSUME Types, Settling, Patient, Patient', [Next]_vars PROVE Settling'
    BY PatientBefore
  <2>1. Sound'
    BY SoundNext DEF Settling
  <2> QED BY <2>1, NoTunnelNext, MarkerHoldsNext DEF Settling, Sound
<1> QED BY <1>1, <1>2, TypesAlways, PTL DEF Spec

LEMMA SettledMarkerIsTrue ==
  ASSUME Types, ~Full, Settling, Quiet
  PROVE  MarkerIsTrue
<1>1. life = "up" /\ ~Someone /\ Off("start") /\ ~Acting
  BY TaskNames DEF Quiet, Someone, Acting, Off, At
<1>2. file.own => file.status \in FinalStatus
  BY <1>1 DEF Settling, MarkerHolds, Pending
<1>3. ASSUME file.own, file.status = "ready" PROVE Accepting(daemon)
  <2>1. daemon # None /\ daemon \notin draining /\ proc[daemon] # "booting"
    BY <1>1, <1>3 DEF Settling, MarkerHolds, ReadyIsTrue
  <2>2. daemon \in mine
    BY <2>1 DEF Settling, Sound, Control, Handles
  <2> QED BY <2>1, <2>2 DEF Quiet, Alive, Accepting, Healthy
<1> QED BY <1>2, <1>3 DEF MarkerIsTrue, FinalStatus

(* Without a tunnel, and until the launcher crashes: when no task runs, no *)
(* timer is set and every exit was handled, the marker holds a final       *)
(* status, "ready" is true of the daemon (writeSupervisorState and the     *)
(* probes before it), and every child that is alive is this.daemon.  The   *)
(* hypothesis on the constants is that a quit is patient, or that nobody   *)
(* starts the launcher again; the state in question is then a patient one. *)
THEOREM BrowserOnlySettlesSound ==
  ASSUME ~Full, (~ForcedQuit /\ ~StartDuringQuit) \/ MaxLaunches = 0
  PROVE  Spec => [](budget.crashes = MaxCrashes => SettledIsSound)
<1>1. ASSUME Types, Patient => Control /\ Orphans, Patient => Settling
      PROVE  budget.crashes = MaxCrashes => SettledIsSound
  <2> SUFFICES ASSUME budget.crashes = MaxCrashes, Quiet, budget.late = MaxLate
               PROVE  MarkerIsTrue /\ NoForgottenChild
    BY DEF SettledIsSound
  <2>1. budget.launches \in 0..MaxLaunches
    BY <1>1 DEF Types, ControlTypes, Budget
  <2>2. Patient
    BY <2>1 DEF Patient, Quiet
  <2> QED BY <1>1, <2>2, NoChildForgotten, SettledMarkerIsTrue
<1> QED BY <1>1, TypesAlways, OrphansAlways, SettlingAlways, PTL

-----------------------------------------------------------------------------
(* A launcher that is always patient *)

PatientLauncher == MaxLate = 0 /\ ~ForcedQuit /\ ~StartDuringQuit

LEMMA AlwaysPatient == ASSUME PatientLauncher PROVE Spec => []Patient
<1>1. ASSUME Types PROVE Patient
  <2>1. budget.late \in 0..MaxLate
    BY <1>1 DEF Types, ControlTypes, Budget
  <2> QED BY <2>1 DEF Patient, PatientLauncher
<1> QED BY <1>1, TypesAlways, PTL

(* A quit whose waits are answered reports success only when every daemon  *)
(* of this launcher has ended (shutdown, performStopForSetup).             *)
THEOREM QuitIsClean == ASSUME PatientLauncher PROVE Spec => QuitLeavesNoDaemon
BY AlwaysPatient, PatientQuitLeavesNoDaemon, PTL

(* stopTunnelGracefully acts only after a drain that still holds.          *)
THEOREM StopIsIdle == ASSUME PatientLauncher PROVE Spec => StopsOnlyIdle
BY AlwaysPatient, PatientStopIsIdle, PTL

(* The orphan of a launcher that crashed once is found from the marker.    *)
THEOREM OrphanIsMarked ==
  ASSUME PatientLauncher, MaxCrashes <= 1
  PROVE  Spec => []OrphansAreMarked
<1>1. ASSUME Types, Patient => Control /\ Orphans, Patient PROVE OrphansAreMarked
  <2>1. budget.crashes \in Nat /\ MaxCrashes \in Nat
    BY <1>1, SupervisorAssumption DEF Types, ControlTypes, Budget, SupervisorAssumption
  <2>2. budget.crashes + 1 >= MaxCrashes
    BY <2>1
  <2> QED BY <1>1, <2>2 DEF Orphans, FirstOrphan
<1> QED BY <1>1, AlwaysPatient, TypesAlways, OrphansAlways, PTL

(* Without a tunnel and without a crash the settled runtime is as the      *)
(* marker says, for any number of daemons, recoveries, restarts and setup  *)
(* operations.                                                             *)
THEOREM SettledRuntimeIsSound ==
  ASSUME ~Full, MaxCrashes = 0, (~ForcedQuit /\ ~StartDuringQuit) \/ MaxLaunches = 0
  PROVE  Spec => []SettledIsSound
<1>1. Types => budget.crashes = MaxCrashes
  BY DEF Types, ControlTypes, Budget
<1>2. Spec => [](budget.crashes = MaxCrashes => SettledIsSound)
  BY BrowserOnlySettlesSound
<1> QED BY <1>1, <1>2, TypesAlways, PTL
=============================================================================
