----------------------------- MODULE Supervisor -----------------------------
(***************************************************************************)
(* ai/supervisor.py: the Supervisor owns every agent's lifecycle.  All its  *)
(* coroutines and all the tick loops it creates run on one asyncio event    *)
(* loop, so a step of this module is the code between two awaits.           *)
(*                                                                          *)
(* Callers of the Supervisor are                                            *)
(*   - Requests: coroutines that run start(key) or stop(key)                *)
(*     (routers/control.py, adapters/telegram.py);                          *)
(*   - StopAll: the coroutine of the gateway's shutdown hook that runs      *)
(*     stop_all();                                                          *)
(*   - Agents: the stop(key) coroutine that stop_all() gathers for an agent *)
(*     is named by the agent itself.                                        *)
(***************************************************************************)
EXTENDS Naturals, Sequences, FiniteSets

CONSTANTS
  Agents,       \* keys of the agents the registry loaded
  Requests,     \* coroutines serving start and stop commands
  Tasks,        \* identities of the asyncio tasks running _tick_loop
  BadInterval,  \* agents whose configured tick_seconds int() cannot parse
  StopAll,      \* the caller that runs stop_all()
  None          \* Python's None

ASSUME CallersDistinct ==
  /\ Requests \cap Agents = {}
  /\ StopAll \notin Requests \cup Agents
ASSUME BadIntervalAssumption == BadInterval \subseteq Agents
ASSUME NoneAssumption ==
  /\ None \notin Requests \cup Agents \cup {StopAll}
  /\ None \notin Tasks

Callers == Requests \cup Agents \cup {StopAll}

VARIABLES
  running,   \* agent.running
  tasks,     \* Supervisor.tasks
  loop,      \* where each task stands in _tick_loop
  owner,     \* the agent a task was created for
  cancel,    \* task.cancel() was called and is not delivered yet
  lock,      \* the caller inside `async with self._lock`
  waiters,   \* callers waiting for the lock, in the order asyncio.Lock serves
  pc,        \* the await each caller is suspended at
  cmd,       \* the command each caller last issued
  joins,     \* the cancelled task a stopping caller awaits
  reply,     \* how the caller's last command ended
  shutdown   \* how far stop_all() got

loopVars == <<loop, owner, cancel>>
callVars == <<lock, waiters, pc, cmd, joins, reply>>
vars == <<running, tasks, loopVars, callVars, shutdown>>

Live == {"created", "ticking", "sleeping"}
Done == {"returned", "cancelled", "crashed"}
Commands == [op : {"start", "stop"}, agent : Agents]
-----------------------------------------------------------------------------
(* Tasks.                                                                   *)

LoopsOf(a) == {t \in Tasks : loop[t] \in Live /\ owner[t] = a}

\* A name not in use: nothing refers to the task object that had it.
Reusable(t) ==
  /\ loop[t] \notin Live
  /\ \A a \in Agents : tasks[a] # t
  /\ \A c \in Callers : joins[c] # t

\* asyncio.create_task(self._tick_loop(key, agent)), stored in self.tasks.
Launch(a) ==
  \E t \in Tasks :
    /\ Reusable(t)
    /\ tasks' = [tasks EXCEPT ![a] = t]
    /\ loop' = [loop EXCEPT ![t] = "created"]
    /\ owner' = [owner EXCEPT ![t] = a]
    /\ cancel' = [cancel EXCEPT ![t] = FALSE]

\* What task_state(key) answers.
TaskState(a) ==
  CASE tasks[a] = None -> "stopped"
    [] tasks[a] # None /\ loop[tasks[a]] = "cancelled" -> "stopping"
    [] tasks[a] # None /\ loop[tasks[a]] \in {"returned", "crashed"} -> "failed"
    [] OTHER -> "running"

TypeOK ==
  /\ running \in [Agents -> BOOLEAN]
  /\ tasks \in [Agents -> Tasks \cup {None}]
  /\ loop \in [Tasks -> Live \cup Done]
  /\ owner \in [Tasks -> Agents]
  /\ cancel \in [Tasks -> BOOLEAN]
  /\ lock \in Callers \cup {None}
  /\ waiters \in Seq(Callers)
  /\ pc \in [Callers -> {"idle", "spawned", "queued", "starting",
                         "joining", "stopping", "gathering"}]
  /\ cmd \in [Callers -> Commands]
  /\ joins \in [Callers -> Tasks \cup {None}]
  /\ reply \in [Callers -> {"none", "ok", "error"}]
  /\ shutdown \in {"no", "listing", "stopping", "done"}

\* The gateway hydrates the agents and starts none of them.
Init ==
  /\ running = [a \in Agents |-> FALSE]
  /\ tasks = [a \in Agents |-> None]
  /\ loop = [t \in Tasks |-> "returned"]
  /\ owner \in {[t \in Tasks |-> a] : a \in Agents}
  /\ cancel = [t \in Tasks |-> FALSE]
  /\ lock = None
  /\ waiters = <<>>
  /\ pc = [c \in Callers |-> "idle"]
  /\ cmd \in {[c \in Callers |-> [op |-> "stop", agent |-> a]] : a \in Agents}
  /\ joins = [c \in Callers |-> None]
  /\ reply = [c \in Callers |-> "none"]
  /\ shutdown = "no"
-----------------------------------------------------------------------------
(* Callers.  A caller is served when the lock is free and it is the first   *)
(* waiter; it keeps the lock over its awaits and releases it on every exit. *)

FirstWaiter(c) ==
  /\ pc[c] = "queued"
  /\ lock = None
  /\ waiters # <<>>
  /\ Head(waiters) = c

\* Mutant of Release: an exception leaves the lock taken.
ReleaseOnlyOnSuccess(c, answer) ==
  /\ lock' = IF answer = "ok" THEN None ELSE lock
  /\ pc' = [pc EXCEPT ![c] = "idle"]
  /\ reply' = [reply EXCEPT ![c] = answer]

\* Leave `async with self._lock` and answer the caller.
Release(c, answer) ==
  /\ lock' = None
  /\ pc' = [pc EXCEPT ![c] = "idle"]
  /\ reply' = [reply EXCEPT ![c] = answer]

Suspend(c, where) ==
  /\ lock' = c
  /\ pc' = [pc EXCEPT ![c] = where]
  /\ UNCHANGED reply

\* A start or stop command reaches the lock.
Command(c, op, a) ==
  /\ pc[c] = "idle"
  /\ shutdown = "no"
  /\ pc' = [pc EXCEPT ![c] = "queued"]
  /\ cmd' = [cmd EXCEPT ![c] = [op |-> op, agent |-> a]]
  /\ reply' = [reply EXCEPT ![c] = "none"]
  /\ waiters' = Append(waiters, c)
  /\ UNCHANGED <<running, tasks, loopVars, lock, joins, shutdown>>

\* The caller gets the lock to run `op`.
Enter(c, op) ==
  /\ FirstWaiter(c)
  /\ cmd[c].op = op
  /\ waiters' = Tail(waiters)
  /\ UNCHANGED <<cmd, shutdown>>

\* Mutant of HasLiveTask: a loop between two ticks is taken for a finished one.
HasTickingTask(a) == tasks[a] # None /\ loop[tasks[a]] = "ticking"

HasLiveTask(a) == tasks[a] # None /\ loop[tasks[a]] \in Live

\* start(key): a live task is left alone, whether its agent runs or not.
AlreadyStarted(c) ==
  /\ Enter(c, "start")
  /\ HasLiveTask(cmd[c].agent)
  /\ Release(c, "ok")
  /\ UNCHANGED <<running, tasks, loopVars, joins>>

\* start(key): an agent that runs without a live task gets a new loop.
RebuildLoop(c) ==
  /\ Enter(c, "start")
  /\ ~HasLiveTask(cmd[c].agent)
  /\ running[cmd[c].agent]
  /\ Launch(cmd[c].agent)
  /\ Release(c, "ok")
  /\ UNCHANGED <<running, joins>>

\* start(key): any finished task is forgotten and agent.start() is awaited.
CallAgentStart(c) ==
  /\ Enter(c, "start")
  /\ ~HasLiveTask(cmd[c].agent)
  /\ ~running[cmd[c].agent]
  /\ tasks' = [tasks EXCEPT ![cmd[c].agent] = None]
  /\ Suspend(c, "starting")
  /\ UNCHANGED <<running, loopVars, joins>>

\* agent.start() returned.
StartReturns(c) ==
  LET a == cmd[c].agent
  IN /\ pc[c] = "starting"
     /\ running' = [running EXCEPT ![a] = TRUE]
     /\ Launch(a)
     /\ Release(c, "ok")
     /\ UNCHANGED <<waiters, cmd, joins, shutdown>>

\* agent.start() raised: an agent may have set running before (learning) or
\* not (crypto); no task is created.
StartRaises(c) ==
  /\ pc[c] = "starting"
  /\ \E r \in BOOLEAN : running' = [running EXCEPT ![cmd[c].agent] = r]
  /\ Release(c, "error")
  /\ UNCHANGED <<tasks, loopVars, waiters, cmd, joins, shutdown>>

\* Every agent's stop() clears running before it awaits or raises.
CallAgentStop(c) ==
  /\ running' = [running EXCEPT ![cmd[c].agent] = FALSE]
  /\ Suspend(c, "stopping")

\* stop(key): the task is taken out of the table, cancelled and awaited.
CancelTask(c) ==
  LET t == tasks[cmd[c].agent]
  IN /\ Enter(c, "stop")
     /\ t # None
     /\ tasks' = [tasks EXCEPT ![cmd[c].agent] = None]
     /\ cancel' = [cancel EXCEPT ![t] = loop[t] \in Live]
     /\ joins' = [joins EXCEPT ![c] = t]
     /\ Suspend(c, "joining")
     /\ UNCHANGED <<running, loop, owner>>

\* stop(key) without a task: straight to agent.stop().
StopIdle(c) ==
  /\ Enter(c, "stop")
  /\ tasks[cmd[c].agent] = None
  /\ CallAgentStop(c)
  /\ UNCHANGED <<tasks, loopVars, joins>>

\* Mutant of Joined: stop() cancels the task and does not await it.
DoesNotJoin(c) ==
  /\ pc[c] = "joining"
  /\ joins' = [joins EXCEPT ![c] = None]
  /\ CallAgentStop(c)
  /\ UNCHANGED <<tasks, loopVars, waiters, cmd, shutdown>>

\* `await task` ended: CancelledError is suppressed, any other exception of
\* the task leaves stop() before agent.stop() is called.
Joined(c) ==
  /\ pc[c] = "joining"
  /\ loop[joins[c]] \in Done
  /\ joins' = [joins EXCEPT ![c] = None]
  /\ \/ /\ loop[joins[c]] # "crashed"
        /\ CallAgentStop(c)
     \/ /\ loop[joins[c]] = "crashed"
        /\ Release(c, "error")
        /\ UNCHANGED running
  /\ UNCHANGED <<tasks, loopVars, waiters, cmd, shutdown>>

\* agent.stop() returned or raised.
StopEnds(c) ==
  /\ pc[c] = "stopping"
  /\ \E answer \in {"ok", "error"} : Release(c, answer)
  /\ UNCHANGED <<running, tasks, loopVars, waiters, cmd, joins, shutdown>>
-----------------------------------------------------------------------------
(* stop_all().                                                              *)

\* The server has stopped accepting requests and runs the shutdown hook.
BeginStopAll ==
  /\ shutdown = "no"
  /\ shutdown' = "listing"
  /\ pc' = [pc EXCEPT ![StopAll] = "queued"]
  /\ waiters' = Append(waiters, StopAll)
  /\ UNCHANGED <<running, tasks, loopVars, lock, cmd, joins, reply>>

\* The keys are listed under the lock, then one stop(key) is spawned for each.
Gather ==
  /\ shutdown = "listing"
  /\ FirstWaiter(StopAll)
  /\ waiters' = Tail(waiters)
  /\ shutdown' = "stopping"
  /\ pc' = [c \in Callers |->
              IF c = StopAll THEN "gathering"
              ELSE IF c \in Agents THEN "spawned" ELSE pc[c]]
  /\ cmd' = [c \in Callers |->
               IF c \in Agents THEN [op |-> "stop", agent |-> c] ELSE cmd[c]]
  /\ UNCHANGED <<running, tasks, loopVars, lock, joins, reply>>

\* A gathered stop(key) runs up to the lock.
EnqueueStop(a) ==
  /\ pc[a] = "spawned"
  /\ pc' = [pc EXCEPT ![a] = "queued"]
  /\ waiters' = Append(waiters, a)
  /\ UNCHANGED <<running, tasks, loopVars, lock, cmd, joins, reply, shutdown>>

\* Mutant of Gathered: the stops are spawned and not awaited.
GatheredWithoutAwait ==
  /\ pc[StopAll] = "gathering"
  /\ pc' = [pc EXCEPT ![StopAll] = "idle"]
  /\ shutdown' = "done"
  /\ UNCHANGED <<running, tasks, loopVars, lock, waiters, cmd, joins, reply>>

\* gather(..., return_exceptions=True): every stop ended, whatever its answer.
Gathered ==
  /\ pc[StopAll] = "gathering"
  /\ \A a \in Agents : pc[a] = "idle"
  /\ pc' = [pc EXCEPT ![StopAll] = "idle"]
  /\ shutdown' = "done"
  /\ UNCHANGED <<running, tasks, loopVars, lock, waiters, cmd, joins, reply>>
-----------------------------------------------------------------------------
(* Tick loops.                                                              *)

\* `finally`: forget the task if it is still the current one of its agent.
Unregister(t) ==
  tasks' = IF tasks[owner[t]] = t THEN [tasks EXCEPT ![owner[t]] = None]
           ELSE tasks

LoopStep(t, next) ==
  /\ loop' = [loop EXCEPT ![t] = next]
  /\ UNCHANGED <<owner, callVars, shutdown>>

\* The first step of a task.  The interval is read outside the try block.
LoopBegins(t) ==
  /\ loop[t] = "created"
  /\ ~cancel[t]
  /\ LoopStep(t, IF owner[t] \in BadInterval THEN "crashed"
                 ELSE IF running[owner[t]] THEN "ticking" ELSE "sleeping")
  /\ UNCHANGED <<running, tasks, cancel>>

\* A task cancelled before its first step never enters the coroutine.
NeverBegins(t) ==
  /\ loop[t] = "created"
  /\ cancel[t]
  /\ cancel' = [cancel EXCEPT ![t] = FALSE]
  /\ LoopStep(t, "cancelled")
  /\ UNCHANGED <<running, tasks>>

\* asyncio.sleep(interval) is over and the agent still runs: another tick.
Wake(t) ==
  /\ loop[t] = "sleeping"
  /\ ~cancel[t]
  /\ running[owner[t]]
  /\ LoopStep(t, "ticking")
  /\ UNCHANGED <<running, tasks, cancel>>

\* An agent stops itself inside on_tick (the trading agent's kill switch).
StopsItself(t) ==
  /\ loop[t] = "ticking"
  /\ ~cancel[t]
  /\ running[owner[t]]
  /\ running' = [running EXCEPT ![owner[t]] = FALSE]
  /\ UNCHANGED <<tasks, loopVars, callVars, shutdown>>

TickReturns(t) ==
  /\ loop[t] = "ticking"
  /\ ~cancel[t]
  /\ LoopStep(t, "sleeping")
  /\ UNCHANGED <<running, tasks, cancel>>

\* on_tick raised: the agent is marked stopped and its loop ends.
TickRaises(t) ==
  /\ loop[t] = "ticking"
  /\ ~cancel[t]
  /\ running' = [running EXCEPT ![owner[t]] = FALSE]
  /\ Unregister(t)
  /\ LoopStep(t, "returned")
  /\ UNCHANGED cancel

\* Mutant of CancelDelivered: the loop handles CancelledError like a failed
\* tick it may survive, and goes on.
CancelSwallowed(t) ==
  /\ loop[t] \in {"ticking", "sleeping"}
  /\ cancel[t]
  /\ cancel' = [cancel EXCEPT ![t] = FALSE]
  /\ LoopStep(t, "sleeping")
  /\ UNCHANGED <<running, tasks>>

\* CancelledError is thrown at the await the loop is suspended at.
CancelDelivered(t) ==
  /\ loop[t] \in {"ticking", "sleeping"}
  /\ cancel[t]
  /\ cancel' = [cancel EXCEPT ![t] = FALSE]
  /\ Unregister(t)
  /\ LoopStep(t, "cancelled")
  /\ UNCHANGED running
-----------------------------------------------------------------------------
CallerNext(c) ==
  \/ AlreadyStarted(c) \/ RebuildLoop(c) \/ CallAgentStart(c)
  \/ StartReturns(c) \/ StartRaises(c)
  \/ CancelTask(c) \/ StopIdle(c) \/ Joined(c) \/ StopEnds(c)

LoopNext(t) ==
  \/ LoopBegins(t) \/ NeverBegins(t) \/ Wake(t) \/ StopsItself(t)
  \/ TickReturns(t) \/ TickRaises(t) \/ CancelDelivered(t)

StopAllNext == BeginStopAll \/ Gather \/ Gathered \/ \E a \in Agents : EnqueueStop(a)

Next ==
  \/ \E c \in Requests, op \in {"start", "stop"}, a \in Agents : Command(c, op, a)
  \/ \E c \in Requests \cup Agents : CallerNext(c)
  \/ \E t \in Tasks : LoopNext(t)
  \/ StopAllNext

Spec == Init /\ [][Next]_vars

\* The event loop runs every ready coroutine, and agents' start() and stop()
\* end.  Nothing is assumed of on_tick(): it may stay suspended for ever.
Fairness ==
  /\ \A c \in Requests \cup Agents : WF_vars(CallerNext(c))
  /\ \A t \in Tasks : WF_vars(LoopBegins(t) \/ NeverBegins(t) \/ CancelDelivered(t))
  /\ \A a \in Agents : WF_vars(EnqueueStop(a))
  /\ WF_vars(Gather \/ Gathered)
-----------------------------------------------------------------------------
(* Properties.                                                              *)

\* An agent has at most one live tick loop, whatever starts, stops, failures
\* and cancellations overlap: two loops would tick the same agent at once.
OneLoopPerAgent ==
  \A t, u \in Tasks :
    loop[t] \in Live /\ loop[u] \in Live /\ owner[t] = owner[u] => t = u

\* A live loop is the registered one of its agent, or a stop() is waiting for
\* it to end: no loop escapes the control of the Supervisor.
NoOrphanLoop ==
  \A t \in Tasks : loop[t] \in Live =>
    \/ tasks[owner[t]] = t
    \/ \E c \in Callers : pc[c] = "joining" /\ joins[c] = t /\ cancel[t]

\* The table holds no finished task, except one that died on an interval it
\* could not parse: a failed or stopped agent can always be started again.
TableHoldsLiveTasks ==
  \A a \in Agents :
    tasks[a] # None =>
      /\ owner[tasks[a]] = a
      /\ TaskState(a) = "running" \/ (TaskState(a) = "failed" /\ a \in BadInterval)

\* When stop() answers, no loop of the agent is left; and the agent is not
\* running, unless its loop had died on its interval (then stop() fails
\* before it reaches agent.stop()).
StopIsEffective ==
  [][\A c \in Callers :
       (reply[c] = "none" /\ reply'[c] # "none" /\ cmd[c].op = "stop")
         => LET a == cmd[c].agent
            IN /\ LoopsOf(a)' = {}
               /\ ~running'[a] \/ (reply'[c] = "error" /\ a \in BadInterval)]_vars

\* After stop_all() no loop is left, although commands that were waiting for
\* the lock when it began still went through.
ShutdownLeavesNoLoop == shutdown = "done" => \A t \in Tasks : loop[t] \notin Live

\* Every command that reaches the lock is answered, even when the loop it has
\* to stop is stuck in a tick that never returns.
CommandsAreAnswered ==
  \A c \in Requests : pc[c] = "queued" ~> reply[c] # "none"

\* stop_all() ends, whatever the stops it gathers answer.
ShutdownEnds == shutdown = "listing" ~> shutdown = "done"
-----------------------------------------------------------------------------
(* The abstract lifecycle, read off the tasks.                              *)

Phase(a) ==
  CASE LoopsOf(a) = {} -> "down"
    [] \E t \in LoopsOf(a) : cancel[t] -> "draining"
    [] OTHER -> "up"

Ticking(a) == \E t \in LoopsOf(a) : loop[t] = "ticking"

Phases == [a \in Agents |-> Phase(a)]
Tickings == [a \in Agents |-> Ticking(a)]

Lifecycle == INSTANCE AgentLifecycle WITH phase <- Phases, ticking <- Tickings

\* The Supervisor implements the lifecycle: however its callers interleave,
\* an agent is relaunched only after its last loop is gone, and no tick begins
\* once a stop has cancelled the loop.
ImplementsLifecycle == Lifecycle!Spec

\* Under the event loop's fairness it also ends every drain it begins.
DrainsEnd == Lifecycle!FairSpec
=============================================================================
