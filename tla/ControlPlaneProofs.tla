------------------------- MODULE ControlPlaneProofs -------------------------
(***************************************************************************)
(* Proofs about Supervisor, for any sets of agents, requests and tasks, and  *)
(* at the end about the control plane in front of it.                       *)
(*                                                                          *)
(* The argument rests on the lock: a caller suspended inside start() or     *)
(* stop() holds it (LockInv) and has taken its agent out of the table       *)
(* (CmdInv), so a live loop is either the registered one or the one task    *)
(* the lock holder is waiting for (LoopInv).                                *)
(***************************************************************************)
EXTENDS ControlPlane, TLAPS

Holding(c) == pc[c] \in {"starting", "joining", "stopping"}

\* Only the holder of the lock is suspended inside start() or stop().
LockInv == \A c \in Callers : Holding(c) => lock = c

\* What the holder knows of its agent over its awaits.
CmdInv ==
  \A c \in Callers :
    /\ pc[c] = "starting" => cmd[c].op = "start"
    /\ pc[c] \in {"joining", "stopping"} => cmd[c].op = "stop"
    /\ Holding(c) => tasks[cmd[c].agent] = None
    /\ pc[c] = "stopping" => ~running[cmd[c].agent]

\* A caller awaits a task exactly while it joins, and it is its agent's.
JoinInv ==
  \A c \in Callers :
    /\ (joins[c] # None) <=> (pc[c] = "joining")
    /\ pc[c] = "joining" => owner[joins[c]] = cmd[c].agent

TableInv ==
  \A a \in Agents : tasks[a] # None =>
    /\ owner[tasks[a]] = a
    /\ ~cancel[tasks[a]]
    /\ \/ loop[tasks[a]] \in Live
       \/ loop[tasks[a]] = "crashed" /\ a \in BadInterval

LoopInv ==
  /\ NoOrphanLoop
  /\ \A t \in Tasks : /\ cancel[t] => loop[t] \in Live
                      /\ loop[t] = "crashed" => owner[t] \in BadInterval

\* stop_all() itself never holds the lock over an await, and the stops it
\* gathers do not exist before it spawns them.
GatherInv ==
  /\ ~Holding(StopAll)
  /\ shutdown \in {"no", "listing"} => \A a \in Agents : pc[a] = "idle"

IInv ==
  /\ TypeOK /\ LockInv /\ CmdInv /\ JoinInv /\ TableInv /\ LoopInv /\ GatherInv
-----------------------------------------------------------------------------
\* Every variable keeps its type: running, the task table, the tasks and the
\* callers' states stay in the ranges of ai/supervisor.py's fields.
THEOREM TypeCorrect == Spec => []TypeOK
<1>1. Init => TypeOK
  BY DEF Init, TypeOK, Commands, Live, Done
<1>2. TypeOK /\ [Next]_vars => TypeOK'
  <2> SUFFICES ASSUME TypeOK, [Next]_vars
               PROVE  TypeOK'
    OBVIOUS
  <2> USE DEF TypeOK, Commands, Live, Done
  <2>1. ASSUME NEW c \in Requests, NEW op \in {"start", "stop"}, NEW a \in Agents,
               Command(c, op, a)
        PROVE  TypeOK'
    BY <2>1 DEF Command, loopVars, Callers
  <2>2. ASSUME NEW c \in Requests \cup Agents, CallerNext(c)
        PROVE  TypeOK'
    <3>1. CASE AlreadyStarted(c)
      BY <3>1 DEF AlreadyStarted, Enter, FirstWaiter, Release, loopVars, Callers
    <3>2. CASE RebuildLoop(c)
      BY <3>2 DEF RebuildLoop, Enter, FirstWaiter, Launch, Release, Callers
    <3>3. CASE CallAgentStart(c)
      BY <3>3 DEF CallAgentStart, Enter, FirstWaiter, Suspend, loopVars, Callers
    <3>4. CASE StartReturns(c)
      BY <3>4 DEF StartReturns, Launch, Release, Callers
    <3>5. CASE StartRaises(c)
      BY <3>5 DEF StartRaises, Release, loopVars, Callers
    <3>6. CASE CancelTask(c)
      BY <3>6 DEF CancelTask, Enter, FirstWaiter, Suspend, Callers
    <3>7. CASE StopIdle(c)
      BY <3>7 DEF StopIdle, Enter, FirstWaiter, CallAgentStop, Suspend, loopVars, Callers
    <3>8. CASE Joined(c)
      BY <3>8 DEF Joined, CallAgentStop, Suspend, Release, loopVars, Callers
    <3>9. CASE StopEnds(c)
      BY <3>9 DEF StopEnds, Release, loopVars, Callers
    <3>10. QED
      BY <2>2, <3>1, <3>2, <3>3, <3>4, <3>5, <3>6, <3>7, <3>8, <3>9 DEF CallerNext
  <2>3. ASSUME NEW t \in Tasks, LoopNext(t)
        PROVE  TypeOK'
    BY <2>3 DEF LoopNext, LoopBegins, NeverBegins, Wake, StopsItself, TickReturns,
                TickRaises, CancelDelivered, LoopStep, Unregister, callVars, loopVars
  <2>4. CASE BeginStopAll
    BY <2>4 DEF BeginStopAll, loopVars, Callers
  <2>5. CASE Gather
    BY <2>5 DEF Gather, FirstWaiter, loopVars, Callers
  <2>6. CASE Gathered
    BY <2>6 DEF Gathered, loopVars, Callers
  <2>7. ASSUME NEW a \in Agents, EnqueueStop(a)
         PROVE  TypeOK'
    BY <2>7 DEF EnqueueStop, loopVars, Callers
  <2>8. CASE UNCHANGED vars
    BY <2>8 DEF vars, loopVars, callVars
  <2>9. QED
    BY <2>1, <2>2, <2>3, <2>4, <2>5, <2>6, <2>7, <2>8 DEF Next, StopAllNext
<1>3. QED
  BY <1>1, <1>2, PTL DEF Spec
-----------------------------------------------------------------------------
(* The inductive invariant.                                                 *)

LEMMA InitIInv == Init => IInv
<1> SUFFICES ASSUME Init PROVE IInv
  OBVIOUS
<1>1. TypeOK
  BY DEF Init, TypeOK, Commands, Live, Done
<1>2. LockInv /\ CmdInv /\ GatherInv
  BY DEF Init, LockInv, Holding, CmdInv, GatherInv, Callers
<1>3. JoinInv /\ TableInv
  BY DEF Init, JoinInv, TableInv
<1>4. LoopInv
  BY DEF Init, LoopInv, NoOrphanLoop, Live
<1>5. QED
  BY <1>1, <1>2, <1>3, <1>4 DEF IInv

LEMMA AlreadyStartedStep ==
  ASSUME NEW c \in Requests \cup Agents, IInv, TypeOK', AlreadyStarted(c)
  PROVE  IInv'
<1> USE CallersDistinct, NoneAssumption DEF Callers
<1>0. c \in Callers /\ c # StopAll /\ c # None /\ cmd[c] \in Commands /\ cmd[c].agent \in Agents
  BY DEF IInv, TypeOK, Commands
<1>1. LockInv'
  BY <1>0 DEF IInv, TypeOK, LockInv, Holding, AlreadyStarted, Enter, FirstWaiter, Release, loopVars, HasLiveTask, Live, Done
<1>2. CmdInv'
  BY <1>0 DEF IInv, TypeOK, CmdInv, LockInv, Holding, AlreadyStarted, Enter, FirstWaiter, Release, loopVars, HasLiveTask, Live, Done
<1>3. JoinInv'
  BY <1>0 DEF IInv, TypeOK, JoinInv, CmdInv, LockInv, GatherInv, Holding, AlreadyStarted, Enter, FirstWaiter, Release, loopVars, HasLiveTask, Live, Done
<1>4. TableInv'
  BY <1>0 DEF IInv, TypeOK, TableInv, AlreadyStarted, Enter, FirstWaiter, Release, loopVars, HasLiveTask, Live, Done
<1>5. LoopInv'
  BY <1>0 DEF IInv, TypeOK, LoopInv, NoOrphanLoop, JoinInv, TableInv, GatherInv, Holding, AlreadyStarted, Enter, FirstWaiter, Release, loopVars, HasLiveTask, Live, Done
<1>6. GatherInv'
  BY <1>0 DEF IInv, TypeOK, GatherInv, Holding, AlreadyStarted, Enter, FirstWaiter, Release, loopVars, HasLiveTask, Live, Done
<1>7. QED
  BY <1>1, <1>2, <1>3, <1>4, <1>5, <1>6 DEF IInv

LEMMA RebuildLoopStep ==
  ASSUME NEW c \in Requests \cup Agents, IInv, TypeOK', RebuildLoop(c)
  PROVE  IInv'
<1> USE CallersDistinct, NoneAssumption DEF Callers
<1>0. c \in Callers /\ c # StopAll /\ c # None /\ cmd[c] \in Commands /\ cmd[c].agent \in Agents
  BY DEF IInv, TypeOK, Commands
<1>1. LockInv'
  BY <1>0 DEF IInv, TypeOK, LockInv, Holding, RebuildLoop, Enter, FirstWaiter, Launch, Reusable, Release, HasLiveTask, Live, Done
<1>2. CmdInv'
  BY <1>0 DEF IInv, TypeOK, CmdInv, LockInv, Holding, RebuildLoop, Enter, FirstWaiter, Launch, Reusable, Release, HasLiveTask, Live, Done
<1>3. JoinInv'
  BY <1>0 DEF IInv, TypeOK, JoinInv, CmdInv, LockInv, GatherInv, Holding, RebuildLoop, Enter, FirstWaiter, Launch, Reusable, Release, HasLiveTask, Live, Done
<1>4. TableInv'
  BY <1>0 DEF IInv, TypeOK, TableInv, RebuildLoop, Enter, FirstWaiter, Launch, Reusable, Release, HasLiveTask, Live, Done
<1>5. LoopInv'
  <2>1. PICK u \in Tasks :
          /\ Reusable(u)
          /\ tasks' = [tasks EXCEPT ![cmd[c].agent] = u]
          /\ loop' = [loop EXCEPT ![u] = "created"]
          /\ owner' = [owner EXCEPT ![u] = cmd[c].agent]
          /\ cancel' = [cancel EXCEPT ![u] = FALSE]
    BY DEF RebuildLoop, Launch
  <2>2. pc' = [pc EXCEPT ![c] = "idle"] /\ joins' = joins /\ pc[c] = "queued"
    BY DEF RebuildLoop, Release, Enter, FirstWaiter
  <2>3. ~HasLiveTask(cmd[c].agent)
    BY <1>0 DEF RebuildLoop
  <2>4. ASSUME NEW t \in Tasks, loop'[t] \in Live
        PROVE  \/ tasks'[owner'[t]] = t
               \/ \E d \in Callers : pc'[d] = "joining" /\ joins'[d] = t /\ cancel'[t]
    <3>1. CASE t = u
      BY <1>0, <2>1, <3>1 DEF IInv, TypeOK
    <3>2. CASE t # u /\ tasks[owner[t]] = t
      BY <1>0, <2>1, <2>3, <2>4, <3>2 DEF IInv, TypeOK, HasLiveTask
    <3>3. CASE t # u /\ \E d \in Callers : pc[d] = "joining" /\ joins[d] = t /\ cancel[t]
      BY <1>0, <2>1, <2>2, <3>3 DEF IInv, TypeOK
    <3>4. QED
      BY <2>1, <2>4, <3>1, <3>2, <3>3 DEF IInv, TypeOK, LoopInv, NoOrphanLoop
  <2>5. ASSUME NEW t \in Tasks
        PROVE  /\ cancel'[t] => loop'[t] \in Live
               /\ loop'[t] = "crashed" => owner'[t] \in BadInterval
    BY <2>1 DEF IInv, TypeOK, LoopInv, Live
  <2>6. QED
    BY <2>4, <2>5 DEF LoopInv, NoOrphanLoop
<1>6. GatherInv'
  BY <1>0 DEF IInv, TypeOK, GatherInv, Holding, RebuildLoop, Enter, FirstWaiter, Launch, Reusable, Release, HasLiveTask, Live, Done
<1>7. QED
  BY <1>1, <1>2, <1>3, <1>4, <1>5, <1>6 DEF IInv

LEMMA CallAgentStartStep ==
  ASSUME NEW c \in Requests \cup Agents, IInv, TypeOK', CallAgentStart(c)
  PROVE  IInv'
<1> USE CallersDistinct, NoneAssumption DEF Callers
<1>0. c \in Callers /\ c # StopAll /\ c # None /\ cmd[c] \in Commands /\ cmd[c].agent \in Agents
  BY DEF IInv, TypeOK, Commands
<1>1. LockInv'
  BY <1>0 DEF IInv, TypeOK, LockInv, Holding, CallAgentStart, Enter, FirstWaiter, Suspend, loopVars, HasLiveTask, Live, Done
<1>2. CmdInv'
  BY <1>0 DEF IInv, TypeOK, CmdInv, LockInv, Holding, CallAgentStart, Enter, FirstWaiter, Suspend, loopVars, HasLiveTask, Live, Done
<1>3. JoinInv'
  BY <1>0 DEF IInv, TypeOK, JoinInv, CmdInv, LockInv, GatherInv, Holding, CallAgentStart, Enter, FirstWaiter, Suspend, loopVars, HasLiveTask, Live, Done
<1>4. TableInv'
  BY <1>0 DEF IInv, TypeOK, TableInv, CallAgentStart, Enter, FirstWaiter, Suspend, loopVars, HasLiveTask, Live, Done
<1>5. LoopInv'
  BY <1>0 DEF IInv, TypeOK, LoopInv, NoOrphanLoop, JoinInv, TableInv, GatherInv, Holding, CallAgentStart, Enter, FirstWaiter, Suspend, loopVars, HasLiveTask, Live, Done
<1>6. GatherInv'
  BY <1>0 DEF IInv, TypeOK, GatherInv, Holding, CallAgentStart, Enter, FirstWaiter, Suspend, loopVars, HasLiveTask, Live, Done
<1>7. QED
  BY <1>1, <1>2, <1>3, <1>4, <1>5, <1>6 DEF IInv

LEMMA StartReturnsStep ==
  ASSUME NEW c \in Requests \cup Agents, IInv, TypeOK', StartReturns(c)
  PROVE  IInv'
<1> USE CallersDistinct, NoneAssumption DEF Callers
<1>0. c \in Callers /\ c # StopAll /\ c # None /\ cmd[c] \in Commands /\ cmd[c].agent \in Agents
  BY DEF IInv, TypeOK, Commands
<1>1. LockInv'
  BY <1>0 DEF IInv, TypeOK, LockInv, Holding, StartReturns, Launch, Reusable, Release, Live, Done
<1>2. CmdInv'
  BY <1>0 DEF IInv, TypeOK, CmdInv, LockInv, Holding, StartReturns, Launch, Reusable, Release, Live, Done
<1>3. JoinInv'
  BY <1>0 DEF IInv, TypeOK, JoinInv, CmdInv, LockInv, GatherInv, Holding, StartReturns, Launch, Reusable, Release, Live, Done
<1>4. TableInv'
  BY <1>0 DEF IInv, TypeOK, TableInv, StartReturns, Launch, Reusable, Release, Live, Done
<1>5. LoopInv'
  <2>1. PICK u \in Tasks :
          /\ Reusable(u)
          /\ tasks' = [tasks EXCEPT ![cmd[c].agent] = u]
          /\ loop' = [loop EXCEPT ![u] = "created"]
          /\ owner' = [owner EXCEPT ![u] = cmd[c].agent]
          /\ cancel' = [cancel EXCEPT ![u] = FALSE]
    BY DEF StartReturns, Launch
  <2>2. pc' = [pc EXCEPT ![c] = "idle"] /\ joins' = joins /\ pc[c] = "starting"
    BY DEF StartReturns, Release
  <2>3. ~HasLiveTask(cmd[c].agent)
    BY <1>0 DEF IInv, CmdInv, Holding, HasLiveTask, StartReturns
  <2>4. ASSUME NEW t \in Tasks, loop'[t] \in Live
        PROVE  \/ tasks'[owner'[t]] = t
               \/ \E d \in Callers : pc'[d] = "joining" /\ joins'[d] = t /\ cancel'[t]
    <3>1. CASE t = u
      BY <1>0, <2>1, <3>1 DEF IInv, TypeOK
    <3>2. CASE t # u /\ tasks[owner[t]] = t
      BY <1>0, <2>1, <2>3, <2>4, <3>2 DEF IInv, TypeOK, HasLiveTask
    <3>3. CASE t # u /\ \E d \in Callers : pc[d] = "joining" /\ joins[d] = t /\ cancel[t]
      BY <1>0, <2>1, <2>2, <3>3 DEF IInv, TypeOK
    <3>4. QED
      BY <2>1, <2>4, <3>1, <3>2, <3>3 DEF IInv, TypeOK, LoopInv, NoOrphanLoop
  <2>5. ASSUME NEW t \in Tasks
        PROVE  /\ cancel'[t] => loop'[t] \in Live
               /\ loop'[t] = "crashed" => owner'[t] \in BadInterval
    BY <2>1 DEF IInv, TypeOK, LoopInv, Live
  <2>6. QED
    BY <2>4, <2>5 DEF LoopInv, NoOrphanLoop
<1>6. GatherInv'
  BY <1>0 DEF IInv, TypeOK, GatherInv, Holding, StartReturns, Launch, Reusable, Release, Live, Done
<1>7. QED
  BY <1>1, <1>2, <1>3, <1>4, <1>5, <1>6 DEF IInv

LEMMA StartRaisesStep ==
  ASSUME NEW c \in Requests \cup Agents, IInv, TypeOK', StartRaises(c)
  PROVE  IInv'
<1> USE CallersDistinct, NoneAssumption DEF Callers
<1>0. c \in Callers /\ c # StopAll /\ c # None /\ cmd[c] \in Commands /\ cmd[c].agent \in Agents
  BY DEF IInv, TypeOK, Commands
<1>1. LockInv'
  BY <1>0 DEF IInv, TypeOK, LockInv, Holding, StartRaises, Release, loopVars, Live, Done
<1>2. CmdInv'
  BY <1>0 DEF IInv, TypeOK, CmdInv, LockInv, Holding, StartRaises, Release, loopVars, Live, Done
<1>3. JoinInv'
  BY <1>0 DEF IInv, TypeOK, JoinInv, CmdInv, LockInv, GatherInv, Holding, StartRaises, Release, loopVars, Live, Done
<1>4. TableInv'
  BY <1>0 DEF IInv, TypeOK, TableInv, StartRaises, Release, loopVars, Live, Done
<1>5. LoopInv'
  BY <1>0 DEF IInv, TypeOK, LoopInv, NoOrphanLoop, JoinInv, TableInv, GatherInv, Holding, StartRaises, Release, loopVars, Live, Done
<1>6. GatherInv'
  BY <1>0 DEF IInv, TypeOK, GatherInv, Holding, StartRaises, Release, loopVars, Live, Done
<1>7. QED
  BY <1>1, <1>2, <1>3, <1>4, <1>5, <1>6 DEF IInv

LEMMA CancelTaskStep ==
  ASSUME NEW c \in Requests \cup Agents, IInv, TypeOK', CancelTask(c)
  PROVE  IInv'
<1> USE CallersDistinct, NoneAssumption DEF Callers
<1>0. c \in Callers /\ c # StopAll /\ c # None /\ cmd[c] \in Commands /\ cmd[c].agent \in Agents
  BY DEF IInv, TypeOK, Commands
<1>1. LockInv'
  BY <1>0 DEF IInv, TypeOK, LockInv, Holding, CancelTask, Enter, FirstWaiter, Suspend, Live, Done
<1>2. CmdInv'
  BY <1>0 DEF IInv, TypeOK, CmdInv, LockInv, Holding, CancelTask, Enter, FirstWaiter, Suspend, Live, Done
<1>3. JoinInv'
  <2>1. /\ joins' = [joins EXCEPT ![c] = tasks[cmd[c].agent]]
        /\ pc' = [pc EXCEPT ![c] = "joining"]
        /\ tasks[cmd[c].agent] # None
        /\ UNCHANGED <<owner, cmd>>
    BY DEF CancelTask, Enter, Suspend
  <2>2. owner[tasks[cmd[c].agent]] = cmd[c].agent
    BY <1>0, <2>1 DEF IInv, TableInv
  <2>3. QED
    BY <1>0, <2>1, <2>2 DEF IInv, TypeOK, JoinInv
<1>4. TableInv'
  BY <1>0 DEF IInv, TypeOK, TableInv, CancelTask, Enter, FirstWaiter, Suspend, Live, Done
<1>5. LoopInv'
  <2> DEFINE u == tasks[cmd[c].agent]
  <2>1. /\ u \in Tasks
        /\ u # None
        /\ owner[u] = cmd[c].agent
        /\ pc[c] = "queued"
        /\ joins' = [joins EXCEPT ![c] = u]
        /\ pc' = [pc EXCEPT ![c] = "joining"]
        /\ cancel' = [cancel EXCEPT ![u] = loop[u] \in Live]
        /\ tasks' = [tasks EXCEPT ![cmd[c].agent] = None]
        /\ UNCHANGED <<loop, owner>>
    BY <1>0 DEF IInv, TypeOK, TableInv, CancelTask, Enter, FirstWaiter, Suspend
  <2> HIDE DEF u
  <2>2. ASSUME NEW t \in Tasks, loop'[t] \in Live
        PROVE  \/ tasks'[owner'[t]] = t
               \/ \E d \in Callers : pc'[d] = "joining" /\ joins'[d] = t /\ cancel'[t]
    <3>1. CASE t = u
      BY <1>0, <2>1, <2>2, <3>1 DEF IInv, TypeOK
    <3>2. CASE t # u /\ tasks[owner[t]] = t
      BY <1>0, <2>1, <2>2, <3>2 DEF IInv, TypeOK, u
    <3>3. CASE t # u /\ \E d \in Callers : pc[d] = "joining" /\ joins[d] = t /\ cancel[t]
      BY <1>0, <2>1, <2>2, <3>3 DEF IInv, TypeOK
    <3>4. QED
      BY <2>1, <2>2, <3>1, <3>2, <3>3 DEF IInv, LoopInv, NoOrphanLoop
  <2>3. ASSUME NEW t \in Tasks
        PROVE  /\ cancel'[t] => loop'[t] \in Live
               /\ loop'[t] = "crashed" => owner'[t] \in BadInterval
    BY <2>1 DEF IInv, TypeOK, LoopInv
  <2>4. QED
    BY <2>2, <2>3 DEF LoopInv, NoOrphanLoop
<1>6. GatherInv'
  BY <1>0 DEF IInv, TypeOK, GatherInv, Holding, CancelTask, Enter, FirstWaiter, Suspend, Live, Done
<1>7. QED
  BY <1>1, <1>2, <1>3, <1>4, <1>5, <1>6 DEF IInv

LEMMA StopIdleStep ==
  ASSUME NEW c \in Requests \cup Agents, IInv, TypeOK', StopIdle(c)
  PROVE  IInv'
<1> USE CallersDistinct, NoneAssumption DEF Callers
<1>0. c \in Callers /\ c # StopAll /\ c # None /\ cmd[c] \in Commands /\ cmd[c].agent \in Agents
  BY DEF IInv, TypeOK, Commands
<1>1. LockInv'
  BY <1>0 DEF IInv, TypeOK, LockInv, Holding, StopIdle, Enter, FirstWaiter, CallAgentStop, Suspend, loopVars, Live, Done
<1>2. CmdInv'
  BY <1>0 DEF IInv, TypeOK, CmdInv, LockInv, Holding, StopIdle, Enter, FirstWaiter, CallAgentStop, Suspend, loopVars, Live, Done
<1>3. JoinInv'
  BY <1>0 DEF IInv, TypeOK, JoinInv, CmdInv, LockInv, GatherInv, Holding, StopIdle, Enter, FirstWaiter, CallAgentStop, Suspend, loopVars, Live, Done
<1>4. TableInv'
  BY <1>0 DEF IInv, TypeOK, TableInv, StopIdle, Enter, FirstWaiter, CallAgentStop, Suspend, loopVars, Live, Done
<1>5. LoopInv'
  BY <1>0 DEF IInv, TypeOK, LoopInv, NoOrphanLoop, JoinInv, TableInv, GatherInv, Holding, StopIdle, Enter, FirstWaiter, CallAgentStop, Suspend, loopVars, Live, Done
<1>6. GatherInv'
  BY <1>0 DEF IInv, TypeOK, GatherInv, Holding, StopIdle, Enter, FirstWaiter, CallAgentStop, Suspend, loopVars, Live, Done
<1>7. QED
  BY <1>1, <1>2, <1>3, <1>4, <1>5, <1>6 DEF IInv

LEMMA JoinedStep ==
  ASSUME NEW c \in Requests \cup Agents, IInv, TypeOK', Joined(c)
  PROVE  IInv'
<1> USE CallersDistinct, NoneAssumption DEF Callers
<1>0. c \in Callers /\ c # StopAll /\ c # None /\ cmd[c] \in Commands /\ cmd[c].agent \in Agents
  BY DEF IInv, TypeOK, Commands
<1>1. LockInv'
  <2>1. \A d \in Callers : Holding(d) => d = c
    BY <1>0 DEF IInv, LockInv, Holding, Joined
  <2>2. \A d \in Callers : d # c => pc'[d] = pc[d]
    BY <1>0 DEF IInv, TypeOK, Joined, CallAgentStop, Suspend, Release
  <2>3. Holding(c)' => lock' = c
    BY <1>0 DEF IInv, TypeOK, Holding, Joined, CallAgentStop, Suspend, Release
  <2>4. QED
    BY <2>1, <2>2, <2>3 DEF LockInv, Holding
<1>2. CmdInv'
  BY <1>0 DEF IInv, TypeOK, CmdInv, LockInv, Holding, Joined, CallAgentStop, Suspend, Release, loopVars, Live, Done
<1>3. JoinInv'
  BY <1>0 DEF IInv, TypeOK, JoinInv, CmdInv, LockInv, GatherInv, Holding, Joined, CallAgentStop, Suspend, Release, loopVars, Live, Done
<1>4. TableInv'
  BY <1>0 DEF IInv, TypeOK, TableInv, Joined, CallAgentStop, Suspend, Release, loopVars, Live, Done
<1>5. LoopInv'
  BY <1>0 DEF IInv, TypeOK, LoopInv, NoOrphanLoop, JoinInv, TableInv, GatherInv, Holding, Joined, CallAgentStop, Suspend, Release, loopVars, Live, Done
<1>6. GatherInv'
  BY <1>0 DEF IInv, TypeOK, GatherInv, Holding, Joined, CallAgentStop, Suspend, Release, loopVars, Live, Done
<1>7. QED
  BY <1>1, <1>2, <1>3, <1>4, <1>5, <1>6 DEF IInv

LEMMA StopEndsStep ==
  ASSUME NEW c \in Requests \cup Agents, IInv, TypeOK', StopEnds(c)
  PROVE  IInv'
<1> USE CallersDistinct, NoneAssumption DEF Callers
<1>0. c \in Callers /\ c # StopAll /\ c # None /\ cmd[c] \in Commands /\ cmd[c].agent \in Agents
  BY DEF IInv, TypeOK, Commands
<1>1. LockInv'
  BY <1>0 DEF IInv, TypeOK, LockInv, Holding, StopEnds, Release, loopVars, Live, Done
<1>2. CmdInv'
  BY <1>0 DEF IInv, TypeOK, CmdInv, LockInv, Holding, StopEnds, Release, loopVars, Live, Done
<1>3. JoinInv'
  BY <1>0 DEF IInv, TypeOK, JoinInv, CmdInv, LockInv, GatherInv, Holding, StopEnds, Release, loopVars, Live, Done
<1>4. TableInv'
  BY <1>0 DEF IInv, TypeOK, TableInv, StopEnds, Release, loopVars, Live, Done
<1>5. LoopInv'
  BY <1>0 DEF IInv, TypeOK, LoopInv, NoOrphanLoop, JoinInv, TableInv, GatherInv, Holding, StopEnds, Release, loopVars, Live, Done
<1>6. GatherInv'
  BY <1>0 DEF IInv, TypeOK, GatherInv, Holding, StopEnds, Release, loopVars, Live, Done
<1>7. QED
  BY <1>1, <1>2, <1>3, <1>4, <1>5, <1>6 DEF IInv

LEMMA LoopBeginsStep ==
  ASSUME NEW u \in Tasks, IInv, TypeOK', LoopBegins(u)
  PROVE  IInv'
<1> USE NoneAssumption
<1>0. owner[u] \in Agents
  BY DEF IInv, TypeOK
<1>1. LockInv'
  BY <1>0 DEF IInv, TypeOK, LockInv, Holding, LoopBegins, LoopStep, callVars, loopVars, Live, Done
<1>2. CmdInv'
  BY <1>0 DEF IInv, TypeOK, CmdInv, LockInv, Holding, LoopBegins, LoopStep, callVars, loopVars, Live, Done
<1>3. JoinInv'
  BY <1>0 DEF IInv, TypeOK, JoinInv, CmdInv, LockInv, GatherInv, Holding, LoopBegins, LoopStep, callVars, loopVars, Live, Done
<1>4. TableInv'
  BY <1>0 DEF IInv, TypeOK, TableInv, LoopBegins, LoopStep, callVars, loopVars, Live, Done
<1>5. LoopInv'
  BY <1>0 DEF IInv, TypeOK, LoopInv, NoOrphanLoop, JoinInv, TableInv, GatherInv, Holding, LoopBegins, LoopStep, callVars, loopVars, Live, Done
<1>6. GatherInv'
  BY <1>0 DEF IInv, TypeOK, GatherInv, Holding, LoopBegins, LoopStep, callVars, loopVars, Live, Done
<1>7. QED
  BY <1>1, <1>2, <1>3, <1>4, <1>5, <1>6 DEF IInv

LEMMA NeverBeginsStep ==
  ASSUME NEW u \in Tasks, IInv, TypeOK', NeverBegins(u)
  PROVE  IInv'
<1> USE NoneAssumption
<1>0. owner[u] \in Agents
  BY DEF IInv, TypeOK
<1>1. LockInv'
  BY <1>0 DEF IInv, TypeOK, LockInv, Holding, NeverBegins, LoopStep, callVars, loopVars, Live, Done
<1>2. CmdInv'
  BY <1>0 DEF IInv, TypeOK, CmdInv, LockInv, Holding, NeverBegins, LoopStep, callVars, loopVars, Live, Done
<1>3. JoinInv'
  BY <1>0 DEF IInv, TypeOK, JoinInv, CmdInv, LockInv, GatherInv, Holding, NeverBegins, LoopStep, callVars, loopVars, Live, Done
<1>4. TableInv'
  BY <1>0 DEF IInv, TypeOK, TableInv, NeverBegins, LoopStep, callVars, loopVars, Live, Done
<1>5. LoopInv'
  BY <1>0 DEF IInv, TypeOK, LoopInv, NoOrphanLoop, JoinInv, TableInv, GatherInv, Holding, NeverBegins, LoopStep, callVars, loopVars, Live, Done
<1>6. GatherInv'
  BY <1>0 DEF IInv, TypeOK, GatherInv, Holding, NeverBegins, LoopStep, callVars, loopVars, Live, Done
<1>7. QED
  BY <1>1, <1>2, <1>3, <1>4, <1>5, <1>6 DEF IInv

LEMMA WakeStep ==
  ASSUME NEW u \in Tasks, IInv, TypeOK', Wake(u)
  PROVE  IInv'
<1> USE NoneAssumption
<1>0. owner[u] \in Agents
  BY DEF IInv, TypeOK
<1>1. LockInv'
  BY <1>0 DEF IInv, TypeOK, LockInv, Holding, Wake, LoopStep, callVars, loopVars, Live, Done
<1>2. CmdInv'
  BY <1>0 DEF IInv, TypeOK, CmdInv, LockInv, Holding, Wake, LoopStep, callVars, loopVars, Live, Done
<1>3. JoinInv'
  BY <1>0 DEF IInv, TypeOK, JoinInv, CmdInv, LockInv, GatherInv, Holding, Wake, LoopStep, callVars, loopVars, Live, Done
<1>4. TableInv'
  BY <1>0 DEF IInv, TypeOK, TableInv, Wake, LoopStep, callVars, loopVars, Live, Done
<1>5. LoopInv'
  BY <1>0 DEF IInv, TypeOK, LoopInv, NoOrphanLoop, JoinInv, TableInv, GatherInv, Holding, Wake, LoopStep, callVars, loopVars, Live, Done
<1>6. GatherInv'
  BY <1>0 DEF IInv, TypeOK, GatherInv, Holding, Wake, LoopStep, callVars, loopVars, Live, Done
<1>7. QED
  BY <1>1, <1>2, <1>3, <1>4, <1>5, <1>6 DEF IInv

LEMMA StopsItselfStep ==
  ASSUME NEW u \in Tasks, IInv, TypeOK', StopsItself(u)
  PROVE  IInv'
<1> USE NoneAssumption
<1>0. owner[u] \in Agents
  BY DEF IInv, TypeOK
<1>1. LockInv'
  BY <1>0 DEF IInv, TypeOK, LockInv, Holding, StopsItself, LoopStep, callVars, loopVars, Live, Done
<1>2. CmdInv'
  BY <1>0 DEF IInv, TypeOK, CmdInv, LockInv, Holding, StopsItself, LoopStep, callVars, loopVars, Live, Done
<1>3. JoinInv'
  BY <1>0 DEF IInv, TypeOK, JoinInv, CmdInv, LockInv, GatherInv, Holding, StopsItself, LoopStep, callVars, loopVars, Live, Done
<1>4. TableInv'
  BY <1>0 DEF IInv, TypeOK, TableInv, StopsItself, LoopStep, callVars, loopVars, Live, Done
<1>5. LoopInv'
  BY <1>0 DEF IInv, TypeOK, LoopInv, NoOrphanLoop, JoinInv, TableInv, GatherInv, Holding, StopsItself, LoopStep, callVars, loopVars, Live, Done
<1>6. GatherInv'
  BY <1>0 DEF IInv, TypeOK, GatherInv, Holding, StopsItself, LoopStep, callVars, loopVars, Live, Done
<1>7. QED
  BY <1>1, <1>2, <1>3, <1>4, <1>5, <1>6 DEF IInv

LEMMA TickReturnsStep ==
  ASSUME NEW u \in Tasks, IInv, TypeOK', TickReturns(u)
  PROVE  IInv'
<1> USE NoneAssumption
<1>0. owner[u] \in Agents
  BY DEF IInv, TypeOK
<1>1. LockInv'
  BY <1>0 DEF IInv, TypeOK, LockInv, Holding, TickReturns, LoopStep, callVars, loopVars, Live, Done
<1>2. CmdInv'
  BY <1>0 DEF IInv, TypeOK, CmdInv, LockInv, Holding, TickReturns, LoopStep, callVars, loopVars, Live, Done
<1>3. JoinInv'
  BY <1>0 DEF IInv, TypeOK, JoinInv, CmdInv, LockInv, GatherInv, Holding, TickReturns, LoopStep, callVars, loopVars, Live, Done
<1>4. TableInv'
  BY <1>0 DEF IInv, TypeOK, TableInv, TickReturns, LoopStep, callVars, loopVars, Live, Done
<1>5. LoopInv'
  BY <1>0 DEF IInv, TypeOK, LoopInv, NoOrphanLoop, JoinInv, TableInv, GatherInv, Holding, TickReturns, LoopStep, callVars, loopVars, Live, Done
<1>6. GatherInv'
  BY <1>0 DEF IInv, TypeOK, GatherInv, Holding, TickReturns, LoopStep, callVars, loopVars, Live, Done
<1>7. QED
  BY <1>1, <1>2, <1>3, <1>4, <1>5, <1>6 DEF IInv

LEMMA TickRaisesStep ==
  ASSUME NEW u \in Tasks, IInv, TypeOK', TickRaises(u)
  PROVE  IInv'
<1> USE NoneAssumption
<1>0. owner[u] \in Agents
  BY DEF IInv, TypeOK
<1>1. LockInv'
  BY <1>0 DEF IInv, TypeOK, LockInv, Holding, TickRaises, Unregister, LoopStep, callVars, loopVars, Live, Done
<1>2. CmdInv'
  BY <1>0 DEF IInv, TypeOK, CmdInv, LockInv, Holding, TickRaises, Unregister, LoopStep, callVars, loopVars, Live, Done
<1>3. JoinInv'
  BY <1>0 DEF IInv, TypeOK, JoinInv, CmdInv, LockInv, GatherInv, Holding, TickRaises, Unregister, LoopStep, callVars, loopVars, Live, Done
<1>4. TableInv'
  BY <1>0 DEF IInv, TypeOK, TableInv, TickRaises, Unregister, LoopStep, callVars, loopVars, Live, Done
<1>5. LoopInv'
  BY <1>0 DEF IInv, TypeOK, LoopInv, NoOrphanLoop, JoinInv, TableInv, GatherInv, Holding, TickRaises, Unregister, LoopStep, callVars, loopVars, Live, Done
<1>6. GatherInv'
  BY <1>0 DEF IInv, TypeOK, GatherInv, Holding, TickRaises, Unregister, LoopStep, callVars, loopVars, Live, Done
<1>7. QED
  BY <1>1, <1>2, <1>3, <1>4, <1>5, <1>6 DEF IInv

LEMMA CancelDeliveredStep ==
  ASSUME NEW u \in Tasks, IInv, TypeOK', CancelDelivered(u)
  PROVE  IInv'
<1> USE NoneAssumption
<1>0. owner[u] \in Agents
  BY DEF IInv, TypeOK
<1>1. LockInv'
  BY <1>0 DEF IInv, TypeOK, LockInv, Holding, CancelDelivered, Unregister, LoopStep, callVars, loopVars, Live, Done
<1>2. CmdInv'
  BY <1>0 DEF IInv, TypeOK, CmdInv, LockInv, Holding, CancelDelivered, Unregister, LoopStep, callVars, loopVars, Live, Done
<1>3. JoinInv'
  BY <1>0 DEF IInv, TypeOK, JoinInv, CmdInv, LockInv, GatherInv, Holding, CancelDelivered, Unregister, LoopStep, callVars, loopVars, Live, Done
<1>4. TableInv'
  BY <1>0 DEF IInv, TypeOK, TableInv, CancelDelivered, Unregister, LoopStep, callVars, loopVars, Live, Done
<1>5. LoopInv'
  BY <1>0 DEF IInv, TypeOK, LoopInv, NoOrphanLoop, JoinInv, TableInv, GatherInv, Holding, CancelDelivered, Unregister, LoopStep, callVars, loopVars, Live, Done
<1>6. GatherInv'
  BY <1>0 DEF IInv, TypeOK, GatherInv, Holding, CancelDelivered, Unregister, LoopStep, callVars, loopVars, Live, Done
<1>7. QED
  BY <1>1, <1>2, <1>3, <1>4, <1>5, <1>6 DEF IInv

LEMMA CommandStep ==
  ASSUME NEW c \in Requests, NEW op \in {"start", "stop"}, NEW a \in Agents, IInv, TypeOK', Command(c, op, a)
  PROVE  IInv'
<1> USE CallersDistinct, NoneAssumption DEF Callers
<1>1. LockInv'
  BY DEF IInv, TypeOK, LockInv, Holding, Command, loopVars
<1>2. CmdInv'
  BY DEF IInv, TypeOK, CmdInv, LockInv, Holding, Command, loopVars
<1>3. JoinInv'
  BY DEF IInv, TypeOK, JoinInv, CmdInv, LockInv, GatherInv, Holding, Command, loopVars
<1>4. TableInv'
  BY DEF IInv, TypeOK, TableInv, Command, loopVars
<1>5. LoopInv'
  BY DEF IInv, TypeOK, LoopInv, NoOrphanLoop, JoinInv, TableInv, GatherInv, Holding, Command, loopVars
<1>6. GatherInv'
  BY DEF IInv, TypeOK, GatherInv, Holding, Command, loopVars
<1>7. QED
  BY <1>1, <1>2, <1>3, <1>4, <1>5, <1>6 DEF IInv

LEMMA BeginStopAllStep ==
  ASSUME IInv, TypeOK', BeginStopAll
  PROVE  IInv'
<1> USE CallersDistinct, NoneAssumption DEF Callers
<1>1. LockInv'
  BY DEF IInv, TypeOK, LockInv, Holding, BeginStopAll, loopVars
<1>2. CmdInv'
  BY DEF IInv, TypeOK, CmdInv, LockInv, Holding, BeginStopAll, loopVars
<1>3. JoinInv'
  BY DEF IInv, TypeOK, JoinInv, CmdInv, LockInv, GatherInv, Holding, BeginStopAll, loopVars
<1>4. TableInv'
  BY DEF IInv, TypeOK, TableInv, BeginStopAll, loopVars
<1>5. LoopInv'
  BY DEF IInv, TypeOK, LoopInv, NoOrphanLoop, JoinInv, TableInv, GatherInv, Holding, BeginStopAll, loopVars
<1>6. GatherInv'
  BY DEF IInv, TypeOK, GatherInv, Holding, BeginStopAll, loopVars
<1>7. QED
  BY <1>1, <1>2, <1>3, <1>4, <1>5, <1>6 DEF IInv

LEMMA GatherStep ==
  ASSUME IInv, TypeOK', Gather
  PROVE  IInv'
<1> USE CallersDistinct, NoneAssumption DEF Callers
<1>1. LockInv'
  BY DEF IInv, TypeOK, LockInv, Holding, Gather, FirstWaiter, loopVars
<1>2. CmdInv'
  BY DEF IInv, TypeOK, CmdInv, LockInv, Holding, Gather, FirstWaiter, loopVars
<1>3. JoinInv'
  BY DEF IInv, TypeOK, JoinInv, CmdInv, LockInv, GatherInv, Holding, Gather, FirstWaiter, loopVars
<1>4. TableInv'
  BY DEF IInv, TypeOK, TableInv, Gather, FirstWaiter, loopVars
<1>5. LoopInv'
  BY DEF IInv, TypeOK, LoopInv, NoOrphanLoop, JoinInv, TableInv, GatherInv, Holding, Gather, FirstWaiter, loopVars
<1>6. GatherInv'
  BY DEF IInv, TypeOK, GatherInv, Holding, Gather, FirstWaiter, loopVars
<1>7. QED
  BY <1>1, <1>2, <1>3, <1>4, <1>5, <1>6 DEF IInv

LEMMA GatheredStep ==
  ASSUME IInv, TypeOK', Gathered
  PROVE  IInv'
<1> USE CallersDistinct, NoneAssumption DEF Callers
<1>1. LockInv'
  BY DEF IInv, TypeOK, LockInv, Holding, Gathered, loopVars
<1>2. CmdInv'
  BY DEF IInv, TypeOK, CmdInv, LockInv, Holding, Gathered, loopVars
<1>3. JoinInv'
  BY DEF IInv, TypeOK, JoinInv, CmdInv, LockInv, GatherInv, Holding, Gathered, loopVars
<1>4. TableInv'
  BY DEF IInv, TypeOK, TableInv, Gathered, loopVars
<1>5. LoopInv'
  BY DEF IInv, TypeOK, LoopInv, NoOrphanLoop, JoinInv, TableInv, GatherInv, Holding, Gathered, loopVars
<1>6. GatherInv'
  BY DEF IInv, TypeOK, GatherInv, Holding, Gathered, loopVars
<1>7. QED
  BY <1>1, <1>2, <1>3, <1>4, <1>5, <1>6 DEF IInv

LEMMA EnqueueStopStep ==
  ASSUME NEW a \in Agents, IInv, TypeOK', EnqueueStop(a)
  PROVE  IInv'
<1> USE CallersDistinct, NoneAssumption DEF Callers
<1>1. LockInv'
  BY DEF IInv, TypeOK, LockInv, Holding, EnqueueStop, loopVars
<1>2. CmdInv'
  BY DEF IInv, TypeOK, CmdInv, LockInv, Holding, EnqueueStop, loopVars
<1>3. JoinInv'
  BY DEF IInv, TypeOK, JoinInv, CmdInv, LockInv, GatherInv, Holding, EnqueueStop, loopVars
<1>4. TableInv'
  BY DEF IInv, TypeOK, TableInv, EnqueueStop, loopVars
<1>5. LoopInv'
  BY DEF IInv, TypeOK, LoopInv, NoOrphanLoop, JoinInv, TableInv, GatherInv, Holding, EnqueueStop, loopVars
<1>6. GatherInv'
  BY DEF IInv, TypeOK, GatherInv, Holding, EnqueueStop, loopVars
<1>7. QED
  BY <1>1, <1>2, <1>3, <1>4, <1>5, <1>6 DEF IInv

LEMMA StepIInv == IInv /\ TypeOK' /\ [Next]_vars => IInv'
<1> SUFFICES ASSUME IInv, TypeOK', [Next]_vars
             PROVE  IInv'
  OBVIOUS
<1>1. ASSUME NEW c \in Requests, NEW op \in {"start", "stop"}, NEW a \in Agents,
             Command(c, op, a)
      PROVE  IInv'
  BY <1>1, CommandStep
<1>2. ASSUME NEW c \in Requests \cup Agents, CallerNext(c)
      PROVE  IInv'
  BY <1>2, AlreadyStartedStep, RebuildLoopStep, CallAgentStartStep, StartReturnsStep,
     StartRaisesStep, CancelTaskStep, StopIdleStep, JoinedStep, StopEndsStep DEF CallerNext
<1>3. ASSUME NEW t \in Tasks, LoopNext(t)
      PROVE  IInv'
  BY <1>3, LoopBeginsStep, NeverBeginsStep, WakeStep, StopsItselfStep, TickReturnsStep,
     TickRaisesStep, CancelDeliveredStep DEF LoopNext
<1>4. CASE StopAllNext
  BY <1>4, BeginStopAllStep, GatherStep, GatheredStep, EnqueueStopStep DEF StopAllNext
<1>5. CASE UNCHANGED vars
  BY <1>5 DEF vars, loopVars, callVars, IInv, TypeOK, LockInv, Holding, CmdInv, JoinInv,
              TableInv, LoopInv, NoOrphanLoop, GatherInv
<1>6. QED
  BY <1>1, <1>2, <1>3, <1>4, <1>5 DEF Next

\* The lock discipline and the ownership of tasks hold throughout.
THEOREM Invariance == Spec => []IInv
<1>1. IInv => TypeOK
  BY DEF IInv
<1>2. QED
  BY <1>1, TypeCorrect, InitIInv, StepIInv, PTL DEF Spec
-----------------------------------------------------------------------------
(* Safety of the Supervisor.                                                *)

LEMMA IInvOneLoop == IInv => OneLoopPerAgent
<1> SUFFICES ASSUME IInv, NEW t \in Tasks, NEW u \in Tasks,
                    loop[t] \in Live, loop[u] \in Live, owner[t] = owner[u]
             PROVE  t = u
  BY DEF OneLoopPerAgent
<1> DEFINE Joins(c, v) == pc[c] = "joining" /\ joins[c] = v
<1>1. ASSUME NEW v \in Tasks, loop[v] \in Live, tasks[owner[v]] # v
      PROVE  \E c \in Callers : Joins(c, v) /\ lock = c /\ tasks[owner[v]] = None
  BY <1>1 DEF IInv, LoopInv, NoOrphanLoop, LockInv, Holding, CmdInv, JoinInv
<1>2. CASE tasks[owner[t]] = t /\ tasks[owner[u]] = u
  BY <1>2
<1>3. CASE tasks[owner[t]] # t /\ tasks[owner[u]] # u
  BY <1>1, <1>3
<1>4. CASE tasks[owner[t]] = t /\ tasks[owner[u]] # u
  BY <1>1, <1>4, NoneAssumption
<1>5. CASE tasks[owner[t]] # t /\ tasks[owner[u]] = u
  BY <1>1, <1>5, NoneAssumption
<1>6. QED
  BY <1>2, <1>3, <1>4, <1>5

\* Supervisor.start and stop never leave two live tick loops for one agent.
THEOREM OneLoop == Spec => []OneLoopPerAgent
  BY Invariance, IInvOneLoop, PTL

\* Every live loop is in Supervisor.tasks or is being awaited by stop().
THEOREM NoOrphan == Spec => []NoOrphanLoop
<1>1. IInv => NoOrphanLoop
  BY DEF IInv, LoopInv
<1>2. QED
  BY <1>1, Invariance, PTL

\* Supervisor.tasks keeps no finished task, bad intervals aside.
THEOREM TableLive == Spec => []TableHoldsLiveTasks
<1>1. IInv => TableHoldsLiveTasks
  BY DEF IInv, TypeOK, TableInv, TableHoldsLiveTasks, TaskState, Live, Done
<1>2. QED
  BY <1>1, Invariance, PTL

\* While a caller is past the cancelled task of its agent no loop of that
\* agent is left.
LEMMA HolderLeavesNoLoop ==
  ASSUME IInv, NEW c \in Callers,
         \/ pc[c] = "stopping"
         \/ pc[c] = "joining" /\ loop[joins[c]] \in Done
  PROVE  LoopsOf(cmd[c].agent) = {}
<1> SUFFICES ASSUME NEW t \in Tasks, loop[t] \in Live, owner[t] = cmd[c].agent
             PROVE  FALSE
  BY DEF LoopsOf
<1>1. tasks[cmd[c].agent] = None /\ lock = c
  BY DEF IInv, CmdInv, LockInv, Holding
<1>2. PICK d \in Callers : pc[d] = "joining" /\ joins[d] = t
  BY <1>1, NoneAssumption DEF IInv, LoopInv, NoOrphanLoop
<1>3. d = c
  BY <1>1, <1>2 DEF IInv, LockInv, Holding
<1>4. QED
  BY <1>2, <1>3 DEF Live, Done

\* The step in which stop() answers.
LEMMA StopAnswers ==
  ASSUME IInv, Next, NEW c \in Callers,
         reply[c] = "none", reply'[c] # "none", cmd[c].op = "stop"
  PROVE  /\ LoopsOf(cmd[c].agent)' = {}
         /\ \/ ~running'[cmd[c].agent]
            \/ reply'[c] = "error" /\ cmd[c].agent \in BadInterval
<1> USE DEF IInv, TypeOK
<1>1. ASSUME NEW d \in Requests, NEW op \in {"start", "stop"}, NEW a \in Agents,
             Command(d, op, a)
      PROVE  FALSE
  BY <1>1 DEF Command
<1>2. ASSUME NEW t \in Tasks, LoopNext(t)
      PROVE  FALSE
  BY <1>2 DEF LoopNext, LoopBegins, NeverBegins, Wake, StopsItself, TickReturns,
              TickRaises, CancelDelivered, LoopStep, callVars
<1>3. ASSUME StopAllNext
      PROVE  FALSE
  BY <1>3 DEF StopAllNext, BeginStopAll, Gather, Gathered, EnqueueStop
<1>4. ASSUME NEW d \in Requests \cup Agents,
             \/ AlreadyStarted(d) \/ RebuildLoop(d) \/ CallAgentStart(d)
             \/ StartReturns(d) \/ StartRaises(d) \/ CancelTask(d) \/ StopIdle(d)
      PROVE  FALSE
  BY <1>4 DEF AlreadyStarted, RebuildLoop, CallAgentStart, StartReturns, StartRaises,
              CancelTask, StopIdle, CallAgentStop, Enter, Release, Suspend, CmdInv
<1>5. ASSUME NEW d \in Requests \cup Agents, Joined(d) \/ StopEnds(d)
      PROVE  /\ LoopsOf(cmd[c].agent)' = {}
             /\ \/ ~running'[cmd[c].agent]
                \/ reply'[c] = "error" /\ cmd[c].agent \in BadInterval
  <2>1. d = c
    BY <1>5 DEF Joined, StopEnds, CallAgentStop, Suspend, Release, Callers
  <2>2. loop' = loop /\ owner' = owner
    BY <1>5 DEF Joined, StopEnds, loopVars
  <2>3. LoopsOf(cmd[c].agent) = {}
    BY <1>5, <2>1, HolderLeavesNoLoop DEF Joined, StopEnds
  <2>4. LoopsOf(cmd[c].agent)' = {}
    <3>1. \A t \in Tasks : ~(loop[t] \in Live /\ owner[t] = cmd[c].agent)
      BY <2>3 DEF LoopsOf
    <3>2. cmd'[c] = cmd[c]
      BY <1>5 DEF Joined, StopEnds
    <3>3. QED
      BY <2>2, <3>1, <3>2 DEF LoopsOf
  <2>5. CASE StopEnds(c)
    BY <2>4, <2>5 DEF StopEnds, CmdInv
  <2>6. CASE Joined(c)
    <3>1. /\ loop[joins[c]] = "crashed"
          /\ reply' = [reply EXCEPT ![c] = "error"]
      BY <2>6 DEF Joined, CallAgentStop, Suspend, Release
    <3>2. joins[c] \in Tasks /\ owner[joins[c]] = cmd[c].agent
      BY <2>6 DEF Joined, JoinInv
    <3>3. cmd[c].agent \in BadInterval
      BY <3>1, <3>2 DEF LoopInv
    <3>4. QED
      BY <2>4, <3>1, <3>3
  <2>7. QED
    BY <1>5, <2>1, <2>5, <2>6
<1>6. QED
  BY <1>1, <1>2, <1>3, <1>4, <1>5 DEF Next, CallerNext

\* When stop() answers, its agent has no loop and does not run, a loop that
\* died on its interval aside.
THEOREM StopEffective == Spec => StopIsEffective
<1> DEFINE Effective ==
      \A c \in Callers :
        (reply[c] = "none" /\ reply'[c] # "none" /\ cmd[c].op = "stop")
          => LET a == cmd[c].agent
             IN /\ LoopsOf(a)' = {}
                /\ ~running'[a] \/ (reply'[c] = "error" /\ a \in BadInterval)
<1>1. IInv /\ [Next]_vars => [Effective]_vars
  <2> SUFFICES ASSUME IInv, Next, NEW c \in Callers,
                      reply[c] = "none", reply'[c] # "none", cmd[c].op = "stop"
               PROVE  /\ LoopsOf(cmd[c].agent)' = {}
                      /\ \/ ~running'[cmd[c].agent]
                         \/ reply'[c] = "error" /\ cmd[c].agent \in BadInterval
    BY DEF vars
  <2> QED
    BY StopAnswers
<1>2. QED
  BY <1>1, Invariance, PTL DEF Spec, StopIsEffective
-----------------------------------------------------------------------------
(* The Supervisor implements the abstract lifecycle.  An agent has at most   *)
(* one live loop, so its phase is read off that loop; a step of the program  *)
(* changes at most one task, and with it the phase of that task's agent.    *)

PhaseInv ==
  /\ \A t \in Tasks : loop[t] \in Live =>
       /\ Phases[owner[t]] = IF cancel[t] THEN "draining" ELSE "up"
       /\ Tickings[owner[t]] = (loop[t] = "ticking")
  /\ \A a \in Agents : LoopsOf(a) = {} => Phases[a] = "down" /\ Tickings[a] = FALSE

LEMMA PhaseOfLoop == IInv => PhaseInv
<1> SUFFICES ASSUME IInv PROVE PhaseInv
  OBVIOUS
<1>1. ASSUME NEW t \in Tasks, loop[t] \in Live
      PROVE  /\ Phases[owner[t]] = IF cancel[t] THEN "draining" ELSE "up"
             /\ Tickings[owner[t]] = (loop[t] = "ticking")
  <2>1. owner[t] \in Agents
    BY DEF IInv, TypeOK
  <2>2. LoopsOf(owner[t]) = {t}
    BY <1>1, IInvOneLoop DEF OneLoopPerAgent, LoopsOf
  <2>3. Phase(owner[t]) = IF cancel[t] THEN "draining" ELSE "up"
    BY <2>2 DEF Phase
  <2>4. Ticking(owner[t]) = (loop[t] = "ticking")
    BY <2>2 DEF Ticking
  <2> QED
    BY <2>1, <2>3, <2>4 DEF Phases, Tickings
<1>2. ASSUME NEW a \in Agents, LoopsOf(a) = {}
      PROVE  Phases[a] = "down" /\ Tickings[a] = FALSE
  BY <1>2 DEF Phases, Tickings, Phase, Ticking
<1> QED
  BY <1>1, <1>2 DEF PhaseInv

\* Steps that change no task change no phase.
LEMMA SameLoops ==
  ASSUME UNCHANGED loopVars
  PROVE  UNCHANGED <<Phases, Tickings>>
<1>1. \A a : LoopsOf(a)' = LoopsOf(a)
  BY DEF LoopsOf, loopVars
<1>2. \A a : Phase(a)' = Phase(a) /\ Ticking(a)' = Ticking(a)
  BY <1>1 DEF Phase, Ticking, loopVars
<1> QED
  BY <1>2 DEF Phases, Tickings

\* A step that changes a task of one agent changes the phase of that agent.
LEMMA OneAgent ==
  ASSUME NEW t \in Tasks, NEW a \in Agents,
         loop[t] \in Live => owner[t] = a,
         (loop[t] \in Live => owner[t] = a)',
         \A u \in Tasks \ {t} :
           loop'[u] = loop[u] /\ owner'[u] = owner[u] /\ cancel'[u] = cancel[u]
  PROVE  /\ Phases' = [Phases EXCEPT ![a] = Phases'[a]]
         /\ Tickings' = [Tickings EXCEPT ![a] = Tickings'[a]]
<1>1. ASSUME NEW b \in Agents \ {a}
      PROVE  Phase(b)' = Phase(b) /\ Ticking(b)' = Ticking(b)
  <2>1. LoopsOf(b)' = LoopsOf(b) /\ t \notin LoopsOf(b) /\ LoopsOf(b) \subseteq Tasks
    BY DEF LoopsOf
  <2> QED
    BY <2>1 DEF Phase, Ticking
<1>2. \A b \in Agents \ {a} : Phases'[b] = Phases[b] /\ Tickings'[b] = Tickings[b]
  BY <1>1 DEF Phases, Tickings
<1>3. /\ DOMAIN Phases = Agents /\ DOMAIN Phases' = Agents
      /\ DOMAIN Tickings = Agents /\ DOMAIN Tickings' = Agents
      /\ Phases = [b \in Agents |-> Phases[b]] /\ Phases' = [b \in Agents |-> Phases'[b]]
      /\ Tickings = [b \in Agents |-> Tickings[b]] /\ Tickings' = [b \in Agents |-> Tickings'[b]]
  BY DEF Phases, Tickings
<1> QED
  BY <1>2, <1>3

\* The step of a live loop, as the abstract lifecycle sees it.
LEMMA LoopView ==
  ASSUME IInv, PhaseInv, PhaseInv', NEW t \in Tasks, loop[t] \in Live, owner' = owner,
         \A u \in Tasks \ {t} : loop'[u] = loop[u] /\ cancel'[u] = cancel[u]
  PROVE  /\ Phases' = [Phases EXCEPT ![owner[t]] = Phases'[owner[t]]]
         /\ Tickings' = [Tickings EXCEPT ![owner[t]] = Tickings'[owner[t]]]
         /\ Phases[owner[t]] = IF cancel[t] THEN "draining" ELSE "up"
         /\ Tickings[owner[t]] = (loop[t] = "ticking")
         /\ loop'[t] \in Live =>
              /\ Phases'[owner[t]] = IF cancel'[t] THEN "draining" ELSE "up"
              /\ Tickings'[owner[t]] = (loop'[t] = "ticking")
         /\ loop'[t] \notin Live => Phases'[owner[t]] = "down" /\ Tickings'[owner[t]] = FALSE
<1>1. owner[t] \in Agents
  BY DEF IInv, TypeOK
<1>2. /\ Phases' = [Phases EXCEPT ![owner[t]] = Phases'[owner[t]]]
      /\ Tickings' = [Tickings EXCEPT ![owner[t]] = Tickings'[owner[t]]]
  BY <1>1, OneAgent
<1>3. /\ Phases[owner[t]] = IF cancel[t] THEN "draining" ELSE "up"
      /\ Tickings[owner[t]] = (loop[t] = "ticking")
  BY DEF PhaseInv
<1>4. loop'[t] \in Live =>
        /\ Phases'[owner[t]] = IF cancel'[t] THEN "draining" ELSE "up"
        /\ Tickings'[owner[t]] = (loop'[t] = "ticking")
  BY DEF PhaseInv
<1>5. loop'[t] \notin Live => Phases'[owner[t]] = "down" /\ Tickings'[owner[t]] = FALSE
  <2>1. ASSUME NEW a \in Agents, owner[t] = a, LoopsOf(a)' = {}
        PROVE  Phases'[a] = "down" /\ Tickings'[a] = FALSE
    BY <2>1 DEF PhaseInv
  <2>2. ASSUME NEW a \in Agents, owner[t] = a, loop'[t] \notin Live PROVE LoopsOf(a)' = {}
    BY <2>2, IInvOneLoop DEF OneLoopPerAgent, LoopsOf
  <2> QED
    BY <1>1, <2>1, <2>2
<1> QED
  BY <1>2, <1>3, <1>4, <1>5

\* An EXCEPT that changes nothing.
LEMMA SameView ==
  ASSUME NEW a \in Agents,
         Phases' = [Phases EXCEPT ![a] = Phases[a]], Tickings' = [Tickings EXCEPT ![a] = Tickings[a]]
  PROVE  UNCHANGED Lifecycle!vars
<1>1. Phases = [b \in Agents |-> Phases[b]] /\ Tickings = [b \in Agents |-> Tickings[b]]
  BY DEF Phases, Tickings
<1> QED
  BY <1>1 DEF Lifecycle!vars

LEMMA LoopRefines ==
  ASSUME IInv, PhaseInv, PhaseInv', NEW t \in Tasks, LoopNext(t)
  PROVE  [Lifecycle!Next]_(Lifecycle!vars)
<1>1. CASE StopsItself(t)
  BY <1>1, SameLoops DEF StopsItself, Lifecycle!vars
<1>2. CASE LoopBegins(t)
  <2>1. /\ loop[t] = "created" /\ ~cancel[t] /\ owner' = owner /\ cancel' = cancel
        /\ loop'[t] \in {"crashed", "ticking", "sleeping"}
        /\ \A u \in Tasks \ {t} : loop'[u] = loop[u] /\ cancel'[u] = cancel[u]
    BY <1>2 DEF LoopBegins, LoopStep, IInv, TypeOK
  <2>2. /\ owner[t] \in Agents /\ Phases[owner[t]] = "up" /\ Tickings[owner[t]] = FALSE
        /\ Phases' = [Phases EXCEPT ![owner[t]] = Phases'[owner[t]]]
        /\ Tickings' = [Tickings EXCEPT ![owner[t]] = Tickings'[owner[t]]]
    <3>1. /\ owner[t] \in Agents
          /\ Phases' = [Phases EXCEPT ![owner[t]] = Phases'[owner[t]]]
          /\ Tickings' = [Tickings EXCEPT ![owner[t]] = Tickings'[owner[t]]]
      BY <2>1, LoopView DEF IInv, TypeOK, Live
    <3>2. Phases[owner[t]] = "up" /\ Tickings[owner[t]] = FALSE
      BY <2>1, LoopView DEF Live
    <3> QED
      BY <3>1, <3>2
  <2>3. CASE loop'[t] = "crashed"
    <3>1. Phases'[owner[t]] = "down" /\ Tickings'[owner[t]] = FALSE
      BY <2>1, <2>3, LoopView DEF Live
    <3> QED
      BY <2>2, <3>1 DEF Lifecycle!Next, Lifecycle!Fail, Lifecycle!Move
  <2>4. CASE loop'[t] = "ticking"
    <3>1. Phases'[owner[t]] = "up" /\ Tickings'[owner[t]] = TRUE
      BY <2>1, <2>4, LoopView DEF Live
    <3>2. Phases' = Phases
      BY <2>2, <3>1 DEF Phases
    <3> QED
      BY <2>2, <3>1, <3>2 DEF Lifecycle!Next, Lifecycle!TickBegins
  <2>5. CASE loop'[t] = "sleeping"
    <3>1. Phases'[owner[t]] = "up" /\ Tickings'[owner[t]] = FALSE
      BY <2>1, <2>5, LoopView DEF Live
    <3> QED
      BY <2>2, <3>1, SameView
  <2> QED
    BY <2>1, <2>3, <2>4, <2>5
<1>3. CASE NeverBegins(t) \/ CancelDelivered(t)
  <2>1. /\ loop[t] \in Live /\ cancel[t] /\ owner' = owner /\ loop'[t] = "cancelled"
        /\ \A u \in Tasks \ {t} : loop'[u] = loop[u] /\ cancel'[u] = cancel[u]
    BY <1>3 DEF NeverBegins, CancelDelivered, LoopStep, IInv, TypeOK, Live
  <2>2. /\ owner[t] \in Agents
        /\ Phases[owner[t]] = "draining" /\ Phases' = [Phases EXCEPT ![owner[t]] = "down"]
        /\ Tickings' = [Tickings EXCEPT ![owner[t]] = FALSE]
    <3>1. /\ owner[t] \in Agents
          /\ Phases' = [Phases EXCEPT ![owner[t]] = Phases'[owner[t]]]
          /\ Tickings' = [Tickings EXCEPT ![owner[t]] = Tickings'[owner[t]]]
      BY <2>1, LoopView DEF IInv, TypeOK, Live
    <3>2. Phases[owner[t]] = "draining"
      BY <2>1, LoopView DEF Live
    <3>3. Phases'[owner[t]] = "down" /\ Tickings'[owner[t]] = FALSE
      BY <2>1, LoopView DEF Live
    <3> QED
      BY <3>1, <3>2, <3>3
  <2> QED
    BY <2>2 DEF Lifecycle!Next, Lifecycle!Drained, Lifecycle!Move
<1>4. CASE Wake(t)
  <2>1. /\ loop[t] = "sleeping" /\ ~cancel[t] /\ cancel' = cancel /\ owner' = owner /\ loop'[t] = "ticking"
        /\ \A u \in Tasks \ {t} : loop'[u] = loop[u] /\ cancel'[u] = cancel[u]
    BY <1>4 DEF Wake, LoopStep, IInv, TypeOK
  <2>2. /\ owner[t] \in Agents
        /\ Phases[owner[t]] = "up" /\ Phases' = [Phases EXCEPT ![owner[t]] = "up"]
        /\ Tickings[owner[t]] = FALSE /\ Tickings' = [Tickings EXCEPT ![owner[t]] = TRUE]
    <3>1. /\ owner[t] \in Agents
          /\ Phases' = [Phases EXCEPT ![owner[t]] = Phases'[owner[t]]]
          /\ Tickings' = [Tickings EXCEPT ![owner[t]] = Tickings'[owner[t]]]
      BY <2>1, LoopView DEF IInv, TypeOK, Live
    <3>2. Phases[owner[t]] = "up" /\ Tickings[owner[t]] = FALSE
      BY <2>1, LoopView DEF Live
    <3>3. Phases'[owner[t]] = "up" /\ Tickings'[owner[t]] = TRUE
      BY <2>1, LoopView DEF Live
    <3> QED
      BY <3>1, <3>2, <3>3
  <2>3. Phases' = Phases
    BY <2>2 DEF Phases
  <2> QED
    BY <2>2, <2>3 DEF Lifecycle!Next, Lifecycle!TickBegins
<1>5. CASE TickReturns(t)
  <2>1. /\ loop[t] = "ticking" /\ ~cancel[t] /\ cancel' = cancel /\ owner' = owner /\ loop'[t] = "sleeping"
        /\ \A u \in Tasks \ {t} : loop'[u] = loop[u] /\ cancel'[u] = cancel[u]
    BY <1>5 DEF TickReturns, LoopStep, IInv, TypeOK
  <2>2. /\ owner[t] \in Agents
        /\ Phases[owner[t]] = "up" /\ Phases' = [Phases EXCEPT ![owner[t]] = "up"]
        /\ Tickings[owner[t]] = TRUE /\ Tickings' = [Tickings EXCEPT ![owner[t]] = FALSE]
    <3>1. /\ owner[t] \in Agents
          /\ Phases' = [Phases EXCEPT ![owner[t]] = Phases'[owner[t]]]
          /\ Tickings' = [Tickings EXCEPT ![owner[t]] = Tickings'[owner[t]]]
      BY <2>1, LoopView DEF IInv, TypeOK, Live
    <3>2. Phases[owner[t]] = "up" /\ Tickings[owner[t]] = TRUE
      BY <2>1, LoopView DEF Live
    <3>3. Phases'[owner[t]] = "up" /\ Tickings'[owner[t]] = FALSE
      BY <2>1, LoopView DEF Live
    <3> QED
      BY <3>1, <3>2, <3>3
  <2>3. Phases' = Phases
    BY <2>2 DEF Phases
  <2> QED
    BY <2>2, <2>3 DEF Lifecycle!Next, Lifecycle!TickEnds
<1>6. CASE TickRaises(t)
  <2>1. /\ loop[t] = "ticking" /\ ~cancel[t] /\ cancel' = cancel /\ owner' = owner /\ loop'[t] = "returned"
        /\ \A u \in Tasks \ {t} : loop'[u] = loop[u] /\ cancel'[u] = cancel[u]
    BY <1>6 DEF TickRaises, LoopStep, IInv, TypeOK
  <2>2. /\ owner[t] \in Agents
        /\ Phases[owner[t]] = "up" /\ Phases' = [Phases EXCEPT ![owner[t]] = "down"]
        /\ Tickings[owner[t]] = TRUE /\ Tickings' = [Tickings EXCEPT ![owner[t]] = FALSE]
    <3>1. /\ owner[t] \in Agents
          /\ Phases' = [Phases EXCEPT ![owner[t]] = Phases'[owner[t]]]
          /\ Tickings' = [Tickings EXCEPT ![owner[t]] = Tickings'[owner[t]]]
      BY <2>1, LoopView DEF IInv, TypeOK, Live
    <3>2. Phases[owner[t]] = "up" /\ Tickings[owner[t]] = TRUE
      BY <2>1, LoopView DEF Live
    <3>3. Phases'[owner[t]] = "down" /\ Tickings'[owner[t]] = FALSE
      BY <2>1, LoopView DEF Live
    <3> QED
      BY <3>1, <3>2, <3>3
  <2> QED
    BY <2>2 DEF Lifecycle!Next, Lifecycle!Fail, Lifecycle!Move
<1> QED
  BY <1>1, <1>2, <1>3, <1>4, <1>5, <1>6 DEF LoopNext

LEMMA LaunchRefines ==
  ASSUME IInv, PhaseInv, PhaseInv', NEW a \in Agents, LoopsOf(a) = {}, Launch(a)
  PROVE  Lifecycle!Next
<1>1. PICK t \in Tasks :
        /\ Reusable(t)
        /\ loop' = [loop EXCEPT ![t] = "created"]
        /\ owner' = [owner EXCEPT ![t] = a]
        /\ cancel' = [cancel EXCEPT ![t] = FALSE]
  BY DEF Launch
<1>2. /\ loop[t] \notin Live /\ loop'[t] = "created" /\ owner'[t] = a /\ ~cancel'[t]
      /\ \A u \in Tasks \ {t} :
           loop'[u] = loop[u] /\ owner'[u] = owner[u] /\ cancel'[u] = cancel[u]
  BY <1>1 DEF IInv, TypeOK, Reusable
<1>3. /\ Phases' = [Phases EXCEPT ![a] = Phases'[a]]
      /\ Tickings' = [Tickings EXCEPT ![a] = Tickings'[a]]
  BY <1>2, OneAgent
<1>4. Phases[a] = "down" /\ Tickings[a] = FALSE
  BY DEF PhaseInv
<1>5. Phases'[a] = "up" /\ Tickings'[a] = FALSE
  BY <1>2 DEF PhaseInv, Live
<1>6. Tickings' = Tickings
  BY <1>3, <1>4, <1>5 DEF Tickings
<1> QED
  BY <1>3, <1>4, <1>5, <1>6 DEF Lifecycle!Next, Lifecycle!Launch, Lifecycle!Move

\* Where start() creates a task, its agent has no loop left.
LEMMA LaunchNeedsNoLoop ==
  ASSUME IInv, NEW c \in Requests \cup Agents, RebuildLoop(c) \/ StartReturns(c)
  PROVE  cmd[c].agent \in Agents /\ LoopsOf(cmd[c].agent) = {} /\ Launch(cmd[c].agent)
<1>1. c \in Callers /\ cmd[c].agent \in Agents
  BY DEF Callers, IInv, TypeOK, Commands
<1>2. Launch(cmd[c].agent)
  BY DEF RebuildLoop, StartReturns
<1>3. SUFFICES ASSUME NEW t \in Tasks, loop[t] \in Live, owner[t] = cmd[c].agent
               PROVE  FALSE
  BY <1>1, <1>2 DEF LoopsOf
<1>4. tasks[cmd[c].agent] # t
  <2>1. CASE RebuildLoop(c)
    BY <1>3, <2>1, NoneAssumption DEF RebuildLoop, HasLiveTask
  <2>2. CASE StartReturns(c)
    BY <1>1, <2>2, NoneAssumption DEF StartReturns, IInv, CmdInv, Holding
  <2> QED
    BY <2>1, <2>2
<1>5. PICK d \in Callers : pc[d] = "joining"
  BY <1>3, <1>4 DEF IInv, LoopInv, NoOrphanLoop
<1>6. lock = d /\ d # None
  BY <1>5, NoneAssumption DEF IInv, LockInv, Holding, Callers
<1>7. CASE RebuildLoop(c)
  BY <1>6, <1>7 DEF RebuildLoop, Enter, FirstWaiter
<1>8. CASE StartReturns(c)
  BY <1>1, <1>5, <1>6, <1>8 DEF StartReturns, IInv, LockInv, Holding
<1> QED
  BY <1>7, <1>8

LEMMA CancelRefines ==
  ASSUME IInv, PhaseInv, PhaseInv', NEW c \in Requests \cup Agents, CancelTask(c)
  PROVE  [Lifecycle!Next]_(Lifecycle!vars)
<1> DEFINE t == tasks[cmd[c].agent]
<1>1. /\ cmd[c].agent \in Agents /\ t \in Tasks /\ ~cancel[t]
      /\ loop' = loop /\ owner' = owner
      /\ cancel' = [cancel EXCEPT ![t] = loop[t] \in Live]
  BY DEF CancelTask, Callers, IInv, TypeOK, Commands, TableInv
<1>2. CASE loop[t] \in Live
  <2>1. loop'[t] = loop[t] /\ cancel'[t]
    BY <1>1, <1>2 DEF IInv, TypeOK
  <2>2. \A u \in Tasks \ {t} : loop'[u] = loop[u] /\ cancel'[u] = cancel[u]
    BY <1>1 DEF IInv, TypeOK
  <2> HIDE DEF t
  <2>3. /\ owner[t] \in Agents
        /\ Phases' = [Phases EXCEPT ![owner[t]] = Phases'[owner[t]]]
        /\ Tickings' = [Tickings EXCEPT ![owner[t]] = Tickings'[owner[t]]]
    BY <1>1, <1>2, <2>2, LoopView DEF IInv, TypeOK
  <2>4. Phases[owner[t]] = "up" /\ Tickings[owner[t]] = (loop[t] = "ticking")
    BY <1>1, <1>2, <2>2, LoopView
  <2>5. Phases'[owner[t]] = "draining" /\ Tickings'[owner[t]] = (loop[t] = "ticking")
    BY <1>1, <1>2, <2>1, <2>2, LoopView
  <2>6. Tickings' = Tickings
    BY <2>3, <2>4, <2>5 DEF Tickings
  <2> QED
    BY <2>3, <2>4, <2>5, <2>6 DEF Lifecycle!Next, Lifecycle!Drain, Lifecycle!Move
<1>3. CASE loop[t] \notin Live
  <2>1. cancel' = cancel
    BY <1>1, <1>3 DEF IInv, TypeOK
  <2> QED
    BY <1>1, <2>1, SameLoops DEF loopVars, Lifecycle!vars
<1> QED
  BY <1>2, <1>3

LEMMA StepRefines ==
  ASSUME IInv, PhaseInv, PhaseInv', [Next]_vars
  PROVE  [Lifecycle!Next]_(Lifecycle!vars)
<1>1. ASSUME UNCHANGED loopVars PROVE [Lifecycle!Next]_(Lifecycle!vars)
  BY <1>1, SameLoops DEF Lifecycle!vars
<1>2. ASSUME NEW c \in Requests, NEW op \in {"start", "stop"}, NEW a \in Agents,
             Command(c, op, a)
      PROVE  UNCHANGED loopVars
  BY <1>2 DEF Command
<1>3. ASSUME NEW c \in Requests \cup Agents, CallerNext(c)
      PROVE  [Lifecycle!Next]_(Lifecycle!vars)
  <2>1. CASE RebuildLoop(c) \/ StartReturns(c)
    BY <2>1, LaunchNeedsNoLoop, LaunchRefines
  <2>2. CASE CancelTask(c)
    BY <2>2, CancelRefines
  <2>3. CASE AlreadyStarted(c) \/ CallAgentStart(c) \/ StartRaises(c)
    BY <1>1, <2>3 DEF AlreadyStarted, CallAgentStart, StartRaises
  <2>4. CASE StopIdle(c) \/ Joined(c) \/ StopEnds(c)
    BY <1>1, <2>4 DEF StopIdle, Joined, StopEnds
  <2> QED
    BY <1>3, <2>1, <2>2, <2>3, <2>4 DEF CallerNext
<1>4. ASSUME NEW t \in Tasks, LoopNext(t) PROVE [Lifecycle!Next]_(Lifecycle!vars)
  BY <1>4, LoopRefines
<1>5. CASE StopAllNext
  BY <1>1, <1>5 DEF StopAllNext, BeginStopAll, Gather, Gathered, EnqueueStop
<1>6. CASE UNCHANGED vars
  BY <1>1, <1>6 DEF vars
<1> QED
  BY <1>1, <1>2, <1>3, <1>4, <1>5, <1>6 DEF Next

\* Whatever callers, ticks and stop_all() interleave, an agent is relaunched only
\* after its last loop is gone, and no tick begins once a stop has cancelled
\* its loop: every step of start, stop and _tick_loop is one of the abstract
\* lifecycle or none.
THEOREM FollowsLifecycle == Spec => ImplementsLifecycle
<1>1. Init => Lifecycle!Init
  BY DEF Init, Lifecycle!Init, Phases, Tickings, Phase, Ticking, LoopsOf, Live
<1>2. IInv /\ PhaseInv /\ PhaseInv' /\ [Next]_vars => [Lifecycle!Next]_(Lifecycle!vars)
  BY StepRefines
<1> QED
  BY <1>1, <1>2, PhaseOfLoop, Invariance, PTL DEF Spec, ImplementsLifecycle, Lifecycle!Spec
-----------------------------------------------------------------------------
(* The shutdown.  The lock is fair, so what was asked before stop_all() ends  *)
(* before its list is made; after that only its own stops run, and an agent  *)
(* whose stop has ended has no loop and gets none.                          *)

Ending == shutdown \in {"stopping", "done"}

QueueInv ==
  /\ shutdown = "no" => \A k \in 1..Len(waiters) : waiters[k] # StopAll
  /\ shutdown = "listing" =>
       /\ Len(waiters) > 0 /\ waiters[Len(waiters)] = StopAll
       /\ \A k \in 1..Len(waiters) - 1 : waiters[k] # StopAll
  /\ ~Ending => \A c \in Requests : pc[c] = "queued" => \E k \in 1..Len(waiters) : waiters[k] = c
  /\ \A c \in Requests : pc[c] \notin {"spawned", "gathering"}

EndInv ==
  /\ pc[StopAll] = "gathering" => shutdown = "stopping"
  /\ Ending => /\ \A c \in Requests : pc[c] = "idle"
               /\ \A a \in Agents : cmd[a] = [op |-> "stop", agent |-> a]
               /\ \A a \in Agents : pc[a] = "idle" => LoopsOf(a) = {}
  /\ shutdown = "done" => \A a \in Agents : pc[a] = "idle"

LEMMA EndInit == Init => QueueInv /\ EndInv
  BY CallersDistinct DEF Init, QueueInv, EndInv, Ending, Callers

\* A step of a caller other than stop_all().
LEMMA CallerMoves ==
  ASSUME IInv, NEW c \in Requests \cup Agents, CallerNext(c)
  PROVE  /\ c \in Callers /\ c # StopAll /\ pc[c] # "idle"
         /\ UNCHANGED <<cmd, shutdown>>
         /\ \E where \in {"idle", "starting", "joining", "stopping"} :
              pc' = [pc EXCEPT ![c] = where]
         /\ \/ waiters' = waiters /\ pc[c] # "queued"
            \/ waiters' = Tail(waiters) /\ waiters # <<>> /\ Head(waiters) = c /\ pc[c] = "queued"
<1>1. c \in Callers /\ c # StopAll
  BY CallersDistinct DEF Callers
<1>2. CASE AlreadyStarted(c) \/ RebuildLoop(c) \/ CallAgentStart(c)
  BY <1>1, <1>2 DEF AlreadyStarted, RebuildLoop, CallAgentStart, Enter, FirstWaiter, Release, Suspend
<1>3. CASE StartReturns(c) \/ StartRaises(c)
  BY <1>1, <1>3 DEF StartReturns, StartRaises, Release
<1>4. CASE CancelTask(c) \/ StopIdle(c)
  BY <1>1, <1>4 DEF CancelTask, StopIdle, CallAgentStop, Enter, FirstWaiter, Suspend
<1>5. CASE Joined(c) \/ StopEnds(c)
  BY <1>1, <1>5 DEF Joined, StopEnds, CallAgentStop, Suspend, Release
<1> QED
  BY <1>2, <1>3, <1>4, <1>5 DEF CallerNext

\* A stop creates no task, and when it ends its agent has no loop.
LEMMA StopMoves ==
  ASSUME IInv, NEW c \in Requests \cup Agents, CallerNext(c), cmd[c].op = "stop"
  PROVE  /\ loop' = loop /\ owner' = owner
         /\ pc'[c] = "idle" => LoopsOf(cmd[c].agent) = {}
<1>1. c \in Callers
  BY DEF Callers
<1>2. CASE AlreadyStarted(c) \/ RebuildLoop(c) \/ CallAgentStart(c)
  BY <1>2 DEF AlreadyStarted, RebuildLoop, CallAgentStart, Enter
<1>3. CASE StartReturns(c) \/ StartRaises(c)
  BY <1>1, <1>3 DEF StartReturns, StartRaises, IInv, CmdInv
<1>4. CASE CancelTask(c) \/ StopIdle(c)
  <2>1. pc'[c] # "idle"
    BY <1>1, <1>4 DEF CancelTask, StopIdle, CallAgentStop, Suspend, IInv, TypeOK
  <2> QED
    BY <1>4, <2>1 DEF CancelTask, StopIdle, loopVars
<1>5. CASE StopEnds(c)
  BY <1>1, <1>5, HolderLeavesNoLoop DEF StopEnds, loopVars
<1>6. CASE Joined(c)
  BY <1>1, <1>6, HolderLeavesNoLoop DEF Joined, loopVars
<1> QED
  BY <1>2, <1>3, <1>4, <1>5, <1>6 DEF CallerNext

LEMMA QueueStep ==
  ASSUME IInv, QueueInv, EndInv, [Next]_vars
  PROVE  QueueInv'
<1> USE CallersDistinct DEF Callers, Ending
<1>0. waiters \in Seq(Callers) /\ Len(waiters) \in Nat
  BY DEF IInv, TypeOK
<1>1. ASSUME NEW c \in Callers, waiters' = Append(waiters, c)
      PROVE  /\ Len(waiters') = Len(waiters) + 1 /\ waiters'[Len(waiters) + 1] = c
             /\ \A k \in 1..Len(waiters) : waiters'[k] = waiters[k]
  BY <1>0, <1>1
<1>2. ASSUME NEW c \in Requests, NEW op \in {"start", "stop"}, NEW a \in Agents,
             Command(c, op, a)
      PROVE  QueueInv'
  BY <1>0, <1>1, <1>2 DEF Command, QueueInv, IInv, TypeOK
<1>3. ASSUME NEW c \in Requests \cup Agents, CallerNext(c)
      PROVE  QueueInv'
  <2>1. PICK where \in {"idle", "starting", "joining", "stopping"} :
          pc' = [pc EXCEPT ![c] = where]
    BY <1>3, CallerMoves
  <2>2. c \in Callers /\ c # StopAll /\ shutdown' = shutdown /\ DOMAIN pc = Callers
    BY <1>3, CallerMoves DEF IInv, TypeOK
  <2>3. \A d \in Requests : pc'[d] = pc[d] \/ (d = c /\ pc'[d] = where)
    BY <2>1, <2>2
  <2>4. CASE waiters' = waiters
    BY <2>2, <2>3, <2>4 DEF QueueInv
  <2>5. CASE waiters' = Tail(waiters) /\ waiters # <<>> /\ Head(waiters) = c
    <3>1. /\ Len(waiters) > 0 /\ Len(waiters') = Len(waiters) - 1
          /\ waiters[1] = c
          /\ \A k \in 1..Len(waiters') : waiters'[k] = waiters[k + 1]
      BY <1>0, <2>5
    <3>2. \A d \in Requests : pc'[d] = "queued" => d # c /\ pc[d] = "queued"
      BY <2>1, <2>2
    <3>3. ASSUME NEW d \in Requests, pc'[d] = "queued", ~Ending
          PROVE  \E k \in 1..Len(waiters') : waiters'[k] = d
      <4>1. PICK k \in 1..Len(waiters) : waiters[k] = d
        BY <3>2, <3>3 DEF QueueInv
      <4>2. k # 1 /\ k - 1 \in 1..Len(waiters') /\ waiters'[k - 1] = d
        BY <1>0, <3>1, <3>2, <3>3, <4>1
      <4> QED
        BY <4>2
    <3>4. shutdown = "no" => \A k \in 1..Len(waiters') : waiters'[k] # StopAll
      BY <1>0, <3>1 DEF QueueInv
    <3>5. shutdown = "listing" =>
            /\ Len(waiters') > 0 /\ waiters'[Len(waiters')] = StopAll
            /\ \A k \in 1..Len(waiters') - 1 : waiters'[k] # StopAll
      <4>1. ASSUME shutdown = "listing"
            PROVE  /\ waiters[Len(waiters)] = StopAll
                   /\ \A k \in 1..Len(waiters) - 1 : waiters[k] # StopAll
        BY <4>1 DEF QueueInv
      <4>2. ASSUME shutdown = "listing" PROVE Len(waiters) > 1
        BY <1>0, <2>2, <3>1, <4>1, <4>2
      <4>3. ASSUME shutdown = "listing" PROVE waiters'[Len(waiters')] = StopAll
        BY <1>0, <3>1, <4>1, <4>2, <4>3
      <4>4. ASSUME shutdown = "listing", NEW k \in 1..Len(waiters') - 1 PROVE waiters'[k] # StopAll
        BY <1>0, <3>1, <4>1, <4>4
      <4> QED
        BY <1>0, <3>1, <4>2, <4>3, <4>4
    <3> QED
      BY <2>2, <2>3, <3>3, <3>4, <3>5 DEF QueueInv
  <2> QED
    BY <1>3, <2>4, <2>5, CallerMoves
<1>4. ASSUME UNCHANGED <<waiters, pc, shutdown>> PROVE QueueInv'
  BY <1>4 DEF QueueInv
<1>5. ASSUME NEW t \in Tasks, LoopNext(t) PROVE QueueInv'
  BY <1>4, <1>5 DEF LoopNext, LoopBegins, NeverBegins, Wake, StopsItself, TickReturns,
         TickRaises, CancelDelivered, LoopStep, callVars
<1>6. CASE BeginStopAll
  <2>1. /\ shutdown = "no" /\ shutdown' = "listing"
        /\ \A c \in Requests : pc'[c] = pc[c]
    BY <1>6 DEF BeginStopAll, IInv, TypeOK
  <2>2. /\ Len(waiters') = Len(waiters) + 1 /\ waiters'[Len(waiters')] = StopAll
        /\ \A k \in 1..Len(waiters) : waiters'[k] = waiters[k]
    BY <1>1, <1>6 DEF BeginStopAll
  <2>3. \A k \in 1..Len(waiters') - 1 : waiters'[k] # StopAll
    BY <1>0, <2>1, <2>2 DEF QueueInv
  <2> QED
    BY <1>0, <2>1, <2>2, <2>3 DEF QueueInv
<1>7. CASE Gather
  BY <1>7 DEF Gather, QueueInv, IInv, TypeOK
<1>8. CASE Gathered
  BY <1>8 DEF Gathered, QueueInv, IInv, TypeOK, EndInv
<1>9. ASSUME NEW a \in Agents, EnqueueStop(a) PROVE QueueInv'
  <2>1. Ending /\ shutdown' = shutdown /\ \A c \in Requests : pc'[c] = pc[c]
    BY <1>9 DEF EnqueueStop, IInv, TypeOK, GatherInv
  <2> QED
    BY <2>1 DEF QueueInv
<1>10. CASE UNCHANGED vars
  BY <1>4, <1>10 DEF vars, callVars
<1> QED
  BY <1>2, <1>3, <1>5, <1>6, <1>7, <1>8, <1>9, <1>10 DEF Next, StopAllNext

(* A positive length whose last index is not past the first one is one. *)
LEMMA OneLong ==
  ASSUME NEW n \in Nat, n > 0, ~(1 \in 1..n - 1)
  PROVE  n = 1
OBVIOUS

LEMMA EndStep ==
  ASSUME IInv, QueueInv, EndInv, [Next]_vars
  PROVE  EndInv'
<1> USE CallersDistinct DEF Callers, Ending
<1>1. ASSUME NEW c \in Requests, NEW op \in {"start", "stop"}, NEW a \in Agents,
             Command(c, op, a)
      PROVE  EndInv'
  BY <1>1 DEF Command, EndInv, IInv, TypeOK
<1>2. ASSUME NEW c \in Requests \cup Agents, CallerNext(c)
      PROVE  EndInv'
  <2>1. PICK where \in {"idle", "starting", "joining", "stopping"} :
          pc' = [pc EXCEPT ![c] = where]
    BY <1>2, CallerMoves
  <2>2. c \in Callers /\ c # StopAll /\ UNCHANGED <<cmd, shutdown>> /\ pc[c] # "idle"
    BY <1>2, CallerMoves
  <2>3. pc'[StopAll] = pc[StopAll] /\ \A d \in Callers \ {c} : pc'[d] = pc[d]
    BY <2>1, <2>2 DEF IInv, TypeOK
  <2>4. CASE ~Ending
    BY <2>2, <2>3, <2>4 DEF EndInv
  <2>5. CASE Ending
    <3>1. c \in Agents /\ shutdown = "stopping" /\ cmd[c] = [op |-> "stop", agent |-> c]
      BY <2>2, <2>5 DEF EndInv
    <3>2. loop' = loop /\ owner' = owner /\ (pc'[c] = "idle" => LoopsOf(c) = {})
      BY <1>2, <3>1, StopMoves
    <3>3. \A a \in Agents : LoopsOf(a)' = LoopsOf(a)
      BY <3>2 DEF LoopsOf
    <3> QED
      BY <2>2, <2>3, <2>5, <3>1, <3>2, <3>3 DEF EndInv
  <2> QED
    BY <2>4, <2>5
<1>3. ASSUME UNCHANGED <<pc, cmd, shutdown>>, \A a \in Agents : LoopsOf(a)' \subseteq LoopsOf(a)
      PROVE  EndInv'
  BY <1>3 DEF EndInv
<1>4. ASSUME NEW t \in Tasks, LoopNext(t) PROVE EndInv'
  <2>1. UNCHANGED <<pc, cmd, shutdown>>
    BY <1>4 DEF LoopNext, LoopBegins, NeverBegins, Wake, StopsItself, TickReturns,
           TickRaises, CancelDelivered, LoopStep, callVars
  <2>2. owner' = owner /\ \A u \in Tasks : loop'[u] \in Live => loop[u] \in Live
    BY <1>4 DEF LoopNext, LoopBegins, NeverBegins, Wake, StopsItself, TickReturns,
           TickRaises, CancelDelivered, LoopStep, loopVars, Live, IInv, TypeOK
  <2>3. \A a \in Agents : LoopsOf(a)' \subseteq LoopsOf(a)
    BY <2>2 DEF LoopsOf
  <2> QED
    BY <1>3, <2>1, <2>3
<1>5. CASE BeginStopAll
  BY <1>5 DEF BeginStopAll, EndInv, IInv, TypeOK
<1>6. CASE Gather
  <2>1. Len(waiters) = 1
    <3>1. waiters \in Seq(Callers) /\ Len(waiters) \in Nat /\ waiters # <<>> /\ waiters[1] = StopAll
      BY <1>6 DEF Gather, FirstWaiter, IInv, TypeOK
    <3>2. Len(waiters) > 0 /\ \A k \in 1..Len(waiters) - 1 : waiters[k] # StopAll
      BY <1>6 DEF Gather, QueueInv
    <3>3. ~(1 \in 1..Len(waiters) - 1)
      BY <3>1, <3>2
    <3>4. Len(waiters) \in Nat /\ Len(waiters) > 0
      BY <3>1, <3>2
    <3> QED
      BY <3>3, <3>4, OneLong
  <2>2. ASSUME NEW c \in Requests PROVE pc[c] = "idle"
    <3>1. pc[c] # "queued"
      BY <1>6, <2>1 DEF Gather, FirstWaiter, QueueInv
    <3>2. ~Holding(c)
      BY <1>6, NoneAssumption DEF Gather, FirstWaiter, IInv, LockInv
    <3> QED
      BY <3>1, <3>2 DEF QueueInv, IInv, TypeOK, Holding
  <2>3. /\ shutdown' = "stopping" /\ pc'[StopAll] = "gathering"
        /\ \A c \in Requests : pc'[c] = pc[c]
        /\ \A a \in Agents : pc'[a] = "spawned" /\ cmd'[a] = [op |-> "stop", agent |-> a]
    BY <1>6 DEF Gather
  <2> QED
    BY <2>2, <2>3 DEF EndInv
<1>7. CASE Gathered
  <2>1. shutdown = "stopping" /\ shutdown' = "done" /\ \A a \in Agents : pc[a] = "idle"
    BY <1>7 DEF Gathered, EndInv
  <2>2. pc'[StopAll] = "idle" /\ \A c \in Requests \cup Agents : pc'[c] = pc[c]
    BY <1>7 DEF Gathered, IInv, TypeOK
  <2>3. cmd' = cmd /\ \A a \in Agents : LoopsOf(a)' = LoopsOf(a)
    BY <1>7 DEF Gathered, loopVars, LoopsOf
  <2> QED
    BY <2>1, <2>2, <2>3 DEF EndInv
<1>8. ASSUME NEW a \in Agents, EnqueueStop(a) PROVE EndInv'
  <2>1. pc[a] = "spawned" /\ shutdown' = shutdown /\ cmd' = cmd
    BY <1>8 DEF EnqueueStop
  <2>2. shutdown = "stopping"
    BY <2>1 DEF IInv, TypeOK, GatherInv, EndInv
  <2>3. /\ pc'[a] = "queued" /\ pc'[StopAll] = pc[StopAll]
        /\ \A c \in (Requests \cup Agents) \ {a} : pc'[c] = pc[c]
    BY <1>8 DEF EnqueueStop, IInv, TypeOK
  <2>4. \A b \in Agents : LoopsOf(b)' = LoopsOf(b)
    BY <1>8 DEF EnqueueStop, loopVars, LoopsOf
  <2> QED
    BY <2>1, <2>2, <2>3, <2>4 DEF EndInv
<1>9. CASE UNCHANGED vars
  BY <1>3, <1>9 DEF vars, loopVars, callVars, LoopsOf
<1> QED
  BY <1>1, <1>2, <1>4, <1>5, <1>6, <1>7, <1>8, <1>9 DEF Next, StopAllNext

\* After stop_all() no tick loop is left, although commands that had queued for
\* the lock before it still went through.
THEOREM ShutdownClean == Spec => []ShutdownLeavesNoLoop
<1>1. IInv /\ EndInv => ShutdownLeavesNoLoop
  <2> SUFFICES ASSUME IInv, EndInv, shutdown = "done", NEW t \in Tasks, loop[t] \in Live
               PROVE  FALSE
    BY DEF ShutdownLeavesNoLoop
  <2>1. owner[t] \in Agents /\ LoopsOf(owner[t]) = {}
    BY DEF IInv, TypeOK, EndInv, Ending
  <2> QED
    BY <2>1 DEF LoopsOf
<1>2. IInv /\ QueueInv /\ EndInv /\ [Next]_vars => QueueInv' /\ EndInv'
  BY QueueStep, EndStep
<1> QED
  BY <1>1, <1>2, EndInit, Invariance, PTL DEF Spec
-----------------------------------------------------------------------------
(* The control plane.  Every step of it is a step of the Supervisor or leaves *)
(* it alone, so the service keeps what the Supervisor keeps.                 *)

LEMMA SupervisorPart == GatewayNext => [Next]_vars
<1> SUFFICES ASSUME GatewayNext PROVE [Next]_vars
  OBVIOUS
<1>1. ASSUME NEW c \in Requests, Locked(c) \/ Unknown(c) PROVE UNCHANGED vars
  BY <1>1 DEF Locked, Unknown
<1>2. ASSUME NEW c \in Requests, Serve(c) PROVE Next
  BY <1>2 DEF Serve, Next
<1>3. ASSUME NEW c \in Requests, NEW key \in Commands, Duplicate(c, key) PROVE UNCHANGED vars
  BY <1>3 DEF Duplicate
<1>4. ASSUME NEW c \in Requests, NEW key \in Commands, Admit(c, key) PROVE Next
  BY <1>4 DEF Admit, Commands, Next
<1>5. ASSUME NEW key \in Commands, Expire(key) PROVE UNCHANGED vars
  BY <1>5 DEF Expire
<1>6. CASE StatusPoll \/ Cooldown
  BY <1>6 DEF StatusPoll, Cooldown
<1>7. CASE Background
  BY <1>7 DEF Background, Next
<1> QED
  BY <1>1, <1>2, <1>3, <1>4, <1>5, <1>6, <1>7 DEF GatewayNext

\* The Supervisor behind the handlers is the Supervisor: what was proved of it
\* holds for every sequence of requests, repeats, refusals and audit failures.
THEOREM GatewaySupervises == GatewaySpec => Spec
<1>1. [GatewayNext]_allVars => [Next]_vars
  BY SupervisorPart DEF allVars
<1> QED
  BY <1>1, PTL DEF GatewaySpec, GatewayInit, Spec

\* Once open, the breaker stays open until its cooldown: a command that was in
\* flight when it opened may succeed and does not close it (record_success).
THEOREM OpenHolds == GatewaySpec => OpenUntilCooldown
<1>1. [GatewayNext]_allVars => [open /\ ~cooled => open']_allVars
  <2> SUFFICES ASSUME GatewayNext, open, ~cooled PROVE open'
    BY DEF allVars
  <2> USE DEF Allow, Deny
  <2>1. ASSUME NEW c \in Requests, Locked(c) \/ Unknown(c) PROVE open'
    BY <2>1 DEF Locked, Unknown
  <2>2. ASSUME NEW c \in Requests, Serve(c) PROVE open'
    BY <2>2 DEF Serve, RecordSuccess, RecordError, gatewayVars, guardVars
  <2>3. ASSUME NEW c \in Requests, NEW key \in Commands, Duplicate(c, key) \/ Admit(c, key)
        PROVE  open'
    BY <2>3 DEF Duplicate, Admit
  <2>4. ASSUME NEW key \in Commands, Expire(key) PROVE open'
    BY <2>4 DEF Expire
  <2>5. CASE StatusPoll \/ Cooldown
    BY <2>5 DEF StatusPoll, BreakerState, Cooldown
  <2>6. CASE Background
    BY <2>6 DEF Background, gatewayVars, guardVars
  <2> QED
    BY <2>1, <2>2, <2>3, <2>4, <2>5, <2>6 DEF GatewayNext
<1> QED
  BY <1>1, PTL DEF GatewaySpec, OpenUntilCooldown
-----------------------------------------------------------------------------
(* The answer to a stop.  A handler answers in the step in which its call of *)
(* the Supervisor ends, so what the Supervisor promises of a stop holds when *)
(* the answer is sent.                                                       *)

\* A request in work has no reply yet.
ReplyInv ==
  /\ response \in [Requests -> Responses]
  /\ \A c \in Requests : pc[c] # "idle" => reply[c] = "none"

\* A caller gets its reply, of nobody else, when its call ends.
LEMMA RepliesAtEnd ==
  ASSUME IInv, NEW c \in Requests \cup Agents, CallerNext(c)
  PROVE  /\ pc[c] # "idle"
         /\ \A d \in Callers \ {c} : pc'[d] = pc[d] /\ reply'[d] = reply[d]
         /\ pc'[c] # "idle" => reply'[c] = reply[c]
<1> USE DEF IInv, TypeOK
<1>1. c \in Callers
  BY DEF Callers
<1>2. CASE AlreadyStarted(c) \/ RebuildLoop(c) \/ CallAgentStart(c)
  BY <1>1, <1>2 DEF AlreadyStarted, RebuildLoop, CallAgentStart, Enter, FirstWaiter, Release, Suspend
<1>3. CASE StartReturns(c) \/ StartRaises(c)
  BY <1>1, <1>3 DEF StartReturns, StartRaises, Release
<1>4. CASE CancelTask(c) \/ StopIdle(c)
  BY <1>1, <1>4 DEF CancelTask, StopIdle, CallAgentStop, Enter, FirstWaiter, Suspend
<1>5. CASE Joined(c) \/ StopEnds(c)
  BY <1>1, <1>5 DEF Joined, StopEnds, CallAgentStop, Suspend, Release
<1> QED
  BY <1>2, <1>3, <1>4, <1>5 DEF CallerNext

LEMMA ReplyStep == IInv /\ ReplyInv /\ [GatewayNext]_allVars => ReplyInv'
<1> SUFFICES ASSUME IInv, ReplyInv, [GatewayNext]_allVars PROVE ReplyInv'
  OBVIOUS
<1> USE DEF ReplyInv, Responses, Respond, Audited
<1>1. ASSUME UNCHANGED <<pc, reply>>, response' \in [Requests -> Responses] PROVE ReplyInv'
  BY <1>1
<1>2. ASSUME NEW c \in Requests, Locked(c) \/ Unknown(c) PROVE ReplyInv'
  BY <1>1, <1>2 DEF Locked, Unknown, vars, callVars
<1>3. ASSUME NEW c \in Requests, NEW key \in Commands, Duplicate(c, key) PROVE ReplyInv'
  BY <1>1, <1>3 DEF Duplicate, vars, callVars
<1>4. ASSUME NEW c \in Requests, NEW key \in Commands, Admit(c, key) PROVE ReplyInv'
  BY <1>4 DEF Admit, Command, IInv, TypeOK, Callers
<1>5. ASSUME NEW c \in Requests, Serve(c) PROVE ReplyInv'
  <2>1. response' \in [Requests -> Responses]
    BY <1>5 DEF Serve, gatewayVars
  <2> QED
    BY <1>5, <2>1, RepliesAtEnd DEF Serve, Callers
<1>6. CASE Background
  <2>1. response' = response
    BY <1>6 DEF Background, gatewayVars
  <2>2. ASSUME NEW a \in Agents, CallerNext(a) PROVE ReplyInv'
    BY <2>1, <2>2, RepliesAtEnd, CallersDistinct DEF Callers
  <2>3. ASSUME NEW t \in Tasks, LoopNext(t) PROVE ReplyInv'
    BY <1>1, <2>1, <2>3 DEF LoopNext, LoopBegins, NeverBegins, Wake, StopsItself,
       TickReturns, TickRaises, CancelDelivered, LoopStep, callVars
  <2>4. CASE StopAllNext
    BY <2>1, <2>4, CallersDistinct
       DEF StopAllNext, BeginStopAll, Gather, Gathered, EnqueueStop, IInv, TypeOK, Callers
  <2> QED
    BY <1>6, <2>2, <2>3, <2>4 DEF Background
<1>7. CASE StatusPoll \/ Cooldown \/ \E key \in Commands : Expire(key)
  BY <1>1, <1>7 DEF StatusPoll, Cooldown, Expire, vars, callVars
<1>8. CASE UNCHANGED allVars
  BY <1>1, <1>8 DEF allVars, vars, callVars, gatewayVars
<1> QED
  BY <1>2, <1>3, <1>4, <1>5, <1>6, <1>7, <1>8 DEF GatewayNext

\* An answer that says an agent was stopped is true when it is sent: the agent
\* does not run and has no loop (stop_agent, Supervisor.stop).
THEOREM StopAnswerTrue == GatewaySpec => StopResponseIsTrue
<1> DEFINE Told ==
      \A c \in Requests :
        (response[c] = "none" /\ response'[c] = "stopped")
          => ~running'[cmd[c].agent] /\ LoopsOf(cmd[c].agent)' = {}
<1>1. IInv /\ ReplyInv /\ [GatewayNext]_allVars => [Told]_allVars
  <2> SUFFICES ASSUME IInv, ReplyInv, GatewayNext, NEW c \in Requests,
                      response[c] = "none", response'[c] = "stopped"
               PROVE  ~running'[cmd[c].agent] /\ LoopsOf(cmd[c].agent)' = {}
    BY DEF allVars
  <2>1. Serve(c) /\ reply'[c] = "ok" /\ cmd[c].op # "start"
    <3> USE DEF ReplyInv, Respond, Audited
    <3>1. ASSUME NEW d \in Requests, Locked(d) \/ Unknown(d) PROVE FALSE
      BY <3>1 DEF Locked, Unknown
    <3>2. ASSUME NEW d \in Requests, NEW key \in Commands, Duplicate(d, key) \/ Admit(d, key)
          PROVE  FALSE
      BY <3>2 DEF Duplicate, Admit
    <3>3. CASE StatusPoll \/ Cooldown \/ Background \/ \E key \in Commands : Expire(key)
      BY <3>3 DEF StatusPoll, Cooldown, Background, Expire, gatewayVars
    <3>4. ASSUME NEW d \in Requests, Serve(d) PROVE d = c /\ reply'[c] = "ok" /\ cmd[c].op # "start"
      BY <3>4 DEF Serve, gatewayVars
    <3> QED
      BY <3>1, <3>2, <3>3, <3>4 DEF GatewayNext
  <2>2. CallerNext(c)
    BY <2>1 DEF Serve
  <2>3. c \in Callers /\ reply[c] = "none" /\ cmd[c].op = "stop"
    BY <2>1, <2>2, RepliesAtEnd DEF ReplyInv, Callers, IInv, TypeOK, Commands
  <2>4. Next
    BY <2>2 DEF Next
  <2> QED
    BY <2>1, <2>3, <2>4, StopAnswers
<1>2. GatewayInit => ReplyInv
  BY DEF GatewayInit, Init, ReplyInv, Responses, Callers
<1> QED
  BY <1>1, <1>2, ReplyStep, GatewaySupervises, Invariance, PTL DEF GatewaySpec, StopResponseIsTrue
=============================================================================
