# A TLA+ model of AI-SYSTEM

AI-SYSTEM is a FastAPI gateway ("Mother AI") that starts, ticks and stops
background agents, asks operators to approve what the agents want to do,
publishes LinkedIn posts, trades on exchanges in paper or live mode, and learns
policies from what happened. Around it stand a demo dashboard (`app/`), a
Telegram bot and a Streamlit cockpit that call it over HTTP.

This directory holds TLA+ modules of the parts where order, failure and
concurrency decide whether the program is right, TLC configurations that check
them on small instances, and proofs, checked by TLAPS, that hold for every value
of the constants. Paths below are relative to the repository's root.

## 1. Inventory

| Part | State | Operations | Talks to |
|---|---|---|---|
| Supervisor (`ai/supervisor.py`) | `agents`, `tasks`, one `asyncio.Lock`, each agent's `running` | `start`, `stop`, `stop_all`, `_tick_loop` | control plane, agents, shutdown |
| Control plane (`routers/control.py`, `gateway/guards.py`, `gateway.py`) | circuit breaker, idempotency cache, `agent_state` gauge | `POST /start`, `POST /stop`, `GET /status`, startup, shutdown | Supervisor, bot, cockpit |
| Approvals (`services/approvals.py`, `routers/approvals.py`) | table `approval` | `request_approval`, `decide`, `claim_approval`, `finish_approval` | publishing, executive, poller |
| LinkedIn publishing (`agents/linkedin_agent/router.py`, `service.py`, `client.py`, `oauth.py`) | day's quota in memory, token row | OAuth login, `publish_approved`, `post_text`, `post_document` | approvals, LinkedIn |
| LinkedIn scheduler (`scheduler.py`, `storage.py`) | table `scheduled_posts`, poller task | `schedule`, `publish_due`, `mark_done`, `start`, `stop` | approvals |
| Executive (`agents/mother_agent.py`, `routers/executive.py`) | bounded history of decisions, priority heap | `decide`, `approve`, `enqueue` | operators |
| Order routing (`adapters/exchange`, `oms`, `ai/utils/retry.py`) | token bucket per venue | `best_quote`, `execute`, `execute_twap`, `with_retry` | trading agents, exchanges |
| Crypto and gold agents (`agents/crypto_agent.py`, `risk/`, `agents/utils`, `agents/modes`) | portfolio, price cache, cooldowns, breaker, mode, trailing stops, snapshot, trades | `start`, `on_tick`, `stop` | routing, Supervisor, database |
| Learning engine (`ai/learning_engine.py`, `learning/`) | event watermark, active policy, training task, snapshot | `start`, `on_tick`, `stop`, `_run_training` | event tables, policies |
| Policies (`learning/policy`, `services/learning_api.py`) | versions, stages, metrics | `create_policy`, `persist_metrics`, `promote` | learning engine |
| Dashboard backend (`app/backend`) | agent registry, `online`, set of sockets | telemetry loop, start, stop, restart, `/ws/status` | consoles |
| Dashboard console (`app/frontend/src/lib/ws.ts`, `CyberConsoleDashboard.tsx`) | the socket, the reconnect timer, what is shown | connect, disconnect, load, requests | backend |
| Gateway launcher (`streamlit_app.py`) | lock file, launched process | `ensure_backend` | other Streamlit threads and servers |
| Cockpit (`streamlit_app.py`) | session's token, page | login, reruns, start and stop buttons | control plane |
| Telegram bot (`telegram/bot.py`) | sliding window of each user, buttons in the chat | commands, buttons, confirmations | control plane |
| Event bus, status websocket, telemetry, catalog agents, strategies, scripts | see section 6 | | |

How they interact. The gateway runs one event loop. Handlers declared `async`
interleave only at their awaits; handlers declared `def` (among them
`publish_approved`) run in worker threads and interleave anywhere. The
Supervisor's tick loops are tasks of the same loop, and so are the LinkedIn
poller and the scheduler. Approvals are the hand-over between whoever wants to
act (poller, executive, agents) and the operator who allows it. The learning API
and the engine are two processes over one database. The cockpit, the bot and the
dashboard are processes of their own that time out, retry and rerun.

What is hard. Cancelling a task in the middle of a tick; commands queued on the
lock while the agent changes by itself; a breaker that hears of commands it
admitted before it opened; check-then-act over a database from several threads;
actions in the outside world (posts, orders) whose answers are lost and which
are retried; two databases written one after the other by a process that may
crash; a heap whose comparison can raise; events read past a watermark of
timestamps; three transactions that together promote a policy; a lock file that
calls take from each other; stale copies broadcast over sockets that come and
go. `PROJECT.json` lists these hazards line by line, with the properties that
cover them or the reason why none does.

What makes each part right. Supervisor: one loop per agent, every loop owned,
stops that stop. Control plane: truthful answers, a breaker that keeps its
cooldown and closes in the end. Approvals and publishing: nothing without
approval, nothing twice, nothing stuck, nothing before it is taken for due. Scheduler:
every due post handed over, once. Executive: a queue in order of priority that
holds what was answered. Routing: what is booked was filled, and nothing is
filled twice unnoticed. Trading: books that agree with trades, exposure within
its caps. Learning: no event passed over, policies that meet what they were
promoted under. Launcher: no forgotten lock, no forgotten process. User
interfaces: what they say comes to be true, and every click is answered.

## 2. Modules

| Module | Models | Composes / implements |
|---|---|---|
| `Supervisor` | `ai/supervisor.py` at the grain of its awaits | implements `AgentLifecycle` |
| `AgentLifecycle` | abstract: an agent is down, up or draining | |
| `ControlPlane` | `/start`, `/stop`, breaker, idempotency keys, audit, gauge | EXTENDS `Supervisor` |
| `Approvals` | the approval table, `publish_approved` threads, quota | implements `ApprovalLifecycle` |
| `ApprovalLifecycle` | abstract: the life of one approval | |
| `ScheduledPosts` | poller, `publish_due`, `scheduled_posts` | |
| `LinkedIn` | the LinkedIn service: login, token, poller, gate, one process | composes `Approvals` and `ScheduledPosts` |
| `Executive` | decisions, history, heap | |
| `OrderRouting` | one live order: TWAP, failover, retry, quotas | |
| `TradingAgent` | the trading agent in paper mode | |
| `Learning` | the engine, its training, snapshots; policies and their promotion | |
| `Launcher` | `ensure_backend`, system call by system call | |
| `Dashboard` | backend, sockets and one console | |
| `ControlApi` | the control endpoints as their callers see them | |
| `TelegramBot`, `Cockpit` | the chat bot; sessions of the cockpit | EXTEND `ControlApi` |
| `Operators` | both on one gateway | composes `TelegramBot` and `Cockpit` |
| `ControlPlaneProofs` | proofs about `Supervisor` and `ControlPlane` | |
| `LinkedInProofs` | proofs about `Approvals`, `ScheduledPosts` and `LinkedIn` | |
| `OperatorsProofs` | proofs about `Launcher` and `Operators` | |
| `ExecutiveProofs`, `OrderRoutingProofs`, `TradingAgentProofs`, `LearningProofs`, `DashboardProofs` | proofs about the module named | |
| `MC...` | instances for TLC | EXTEND the module named |

Definitions written before another as "Mutant of X" are plausible bugs: X with
its body replaced by the mutant must break the property it is paired with in
`PROJECT.json`. No specification uses them.

### Supervisor

State: the lock with its queue of waiters (`lock`, `waiters`), the task table
(`tasks`), for each task whether it has begun, sleeps, ticks, has a cancellation
pending or has ended (`loop`, `cancel`, `owner`), each agent's `running`, and
for each caller the await it is suspended at (`pc`). An action is the code
between two awaits. `AlreadyStarted`, `RebuildLoop`, `CallAgentStart`,
`StartReturns`, `StartRaises` are `start`; `CancelTask`, `StopIdle`, `Joined`,
`StopEnds` are `stop`; `BeginStopAll`, `Gather`, `EnqueueStop`, `Gathered` are
`stop_all`; `LoopBegins` to `CancelDelivered` are `_tick_loop`. `Release` hands
the lock to the first waiter as `asyncio.Lock` does. `StopsItself` is the crypto
agent's kill switch: it clears `running` inside a tick. `BadInterval` holds the
agents whose `tick_seconds` cannot be converted, which kills the loop outside
its `try`.

### ControlPlane

A handler runs without an await up to `supervisor.start` and from its end to the
response, so responses are part of the Supervisor step that answers. Clock
readings become nondeterministic: a key's TTL is over (`Expire`), the cooldown
is over (`Cooldown`), errors have left the window (inside `RecordError`).

### Approvals

Each service function reads its row in one statement and writes it by key in
another; each is an action, interleaved by `Workers`. `Faults` are: an answer of
LinkedIn that is lost, a write that fails, an event that cannot be recorded
after a write, a crash. `unsettled` and `stranded` are history: posts taken but
recorded as failed, and executions whose thread ended without an outcome.

### ScheduledPosts

`poller` is where the task stands inside `_run` and `publish_due`; the approval
and the mark of the row are separate commits in separate databases. `dead` is
the task after an exception that left `_run`. `clock` is the time, which passes
in instants (`TimePasses`); `RunAt` is a post's `run_at` as the row stores it.
`due_posts` does not compare `run_at` with the time but with
`utcnow().timestamp()` (`storage.py:98`), in which a naive UTC time is taken for
a local one: `ReferenceAt` is the time less the server's UTC offset at that
instant, so `Due` comes early west of UTC, late east of it, and the reference
goes back when summer time begins.

### LinkedIn

The service as one process. `AskApproval` is the poller's hand-over together
with the row it inserts in the gate; `RequestDirect` the operator's own request;
`Login` and `TokenExpires` the token row every publication past the quota needs
(`TokenLoaded`). `Die` and `ShutDown` end the poller, the threads and the quota
together; rows survive. Nothing is served while the process is down (`Up`).
`Waits` is a thread that has sent its post and has no answer: the requests of
`client.py:34,84` have no timeout, so it may wait for ever.
`origin` is history: what an approval was requested for.

### Executive

`Push` is `heapq.heappush` on the list of triples, entry by entry; triples whose
priority and sequence are equal compare dictionaries, which raises after the
entry was appended. `Latest` is the bound on the history.

### OrderRouting

One order of `_execute_order` in live mode. `Quote` spends a token of every
venue that has one; `TakeVenue` takes or skips a venue; `Filled` and `Refused`
are one request of `with_retry`; `AllFailed` is the error that also ends a TWAP.
`Cancelled` is `Supervisor.stop` hitting the tick at an await, with the request
on its way. A venue outside `Implemented` gets the Binance test network's
adapter (`Adapter`), whose orders are refused. `fills` and `lost` are history of
what happened at the venues. `Answered` books all responses at once; that the
booking loop (`crypto_agent.py:547-580`) may raise is a step of `TradingAgent`
(`FillRaises`) and not of this module.

### TradingAgent

`Tick` reads the exposures and ends early as `on_tick` does (breaker, kill
switch, canary halt); then a step per symbol: data and its quality, the trailing
stop, the strategy, the cooldown, the mode and the risk caps (`PreTrade`); the
order is a step of its own because a stop cancels a tick at its awaits.
`EndTick` marks equity, triggers the kill switch and saves the snapshot.
`Restored` is what a start reads back: the latest snapshot, or a new portfolio.
The slices of a TWAP (`crypto_agent.py:502-515`), each with a price and a row of
its own, are taken for one fill; `OrderRouting` has the slices.
Percentages and prices are natural numbers; what the market and the strategy
answer is left open. `GoldTradingAgent` is the same class with other constants.
`counted` is history: the rows of the table of trades that the book includes.

### Learning

Events are stamped before they are committed, and commit in any order
(`AddEvent`). A tick reads the batch behind the watermark. `TickBreaksOff`: an
event whose payload raises, or the database, ends it after part of the batch was
stored; `TickGoesOn`: the watermark moves, and the advice or the snapshot may
still fail to be written. A training suspends after each symbol: `CreatePolicy`,
`PersistMetrics` and `Adopt` are its separate commits, and `Stop` may cancel it
where it sleeps. `loop` is the Supervisor's tick loop. `Stop` lowers `running`
before it saves, does so for an engine that was never started too (`stop_all`),
and may fail to save; `StartFails` has raised `running` and restored nothing, so
the next start is a `Rebuild` of the loop alone. `unsaved` is history: the last
stop could not save, and no start has restored since. `Crash` loses what no
snapshot holds. `PromoteLatest`, `PromoteCheck` and `PromoteUpdate` are the
three transactions of `promote`, in another process. `under` is history: the
thresholds a stage was given under.

### Launcher

A call of `ensure_backend`: the health check, the `O_EXCL` creation, the write
of the pid (into the file that was created, whatever its name is now), the read
of another's pid, the unlink, the launch, the poll, the clean-up. A pid that
cannot be written (`WriteFails`) leaves an empty file, which the next call takes
away. A deadline may pass whenever a call polls; a health check of a serving gateway may still fail.

### Dashboard

Coroutines of the backend interleave where a broadcast sends and nowhere else;
`Copy` is what the telemetry loop has read before it sends. `link` and `inbox`
are the sockets and what is on its way in them; `socket`, `closed` and `timers`
are the fields of `StatusWebSocket`, of which `timers` counts the reconnects that
are scheduled. `shown` is what the console has made of answers and messages in
the order they arrived. A console that restarted the gateway waits and then
refreshes (`Waiting`, `Refresh`); after a failed start or stop it refreshes at
once, after a failed restart not at all (`PostFails`).

### ControlApi, TelegramBot, Cockpit, Operators

`ControlApi` serves a command of a connection in one step: it is handed to the
Supervisor (`Take`), answered from its idempotency key (`Repeat`) or refused. A
caller waits no longer than its timeout; the
gateway carries out what it has received. `TelegramBot` has the sliding window,
roles, buttons and confirmations; `Cockpit` has the sessions: a run of the
script reads the agents, draws the buttons and posts the clicked one, and a
widget used meanwhile ends that run and starts another; what is used before the
next run begins is merged into it (`Merged`). `Operators` runs both
against one gateway. `taken` is history: the commands handed to the Supervisor
within the last TTL.

## 3. Runs

| Run | Instance | Shows |
|---|---|---|
| `supervisor` | 2 agents (1 with a bad interval), 2 callers, 2 tasks | loops are unique, owned and stoppable; `stop_all` leaves none; the Supervisor implements the abstract lifecycle |
| `control` | 1 agent, 2 callers, threshold 2, fair | the breaker keeps its cooldown and closes, a stop's answer is true, commands are answered, shutdown and drains end |
| `approvals` | 2 threads, 2 approvals, 6 posts, 1 midnight, failing writes and events, crashes | only granted approvals are published or executed; the quota is exceeded by less than two posts a worker |
| `claim` (violated) | 2 threads, 1 approval, no fault | the "atomic" claim lets two threads execute one approval |
| `linkedin` | 1 scheduled post, 1 request of an operator, 1 thread, 1 restart, 1 midnight, a server west of UTC, all faults, fair | a post comes out once, and not before the poller takes it for due; marks tell the truth, one approval per post and start; rows follow the life cycle; executions end unless cut off or waiting for LinkedIn; only a dead poller leaves a due post |
| `executive` | 3 decisions of 2 priorities, history of 2 | the heap stays a heap when a comparison raises; what was answered is queued |
| `routing` | 2 slices, 2 venues (1 without an adapter), 3 attempts, 2 tokens, all faults, fair | what is booked was filled; a slice is filled again only after a lost answer; orders end |
| `trading` | 2 symbols, 2 prices, canary, 2 trades, 1 crash | the book is what its trades make of the starting cash; saved trades stay; exposure added in one tick stays within its bound; a tripped breaker stays tripped |
| `learning` | 2 events that may raise, 1 symbol, 2 policies, 1 crash, a database that may refuse, fair | no event in order is passed over; promotions stay justified; only a crash or a save that failed loses progress; an event is learned unless one that raises stands before it |
| `launcher` | 3 threads of 2 servers, 1 fault, fair | no lock file with a pid and without a holder, no process of a failed launch, every call ends |
| `dashboard` | 1 agent, 2 consoles, 3 sockets, 2 mounts, 1 request, 1 fault, fair | the console comes to show what the backend has, over one socket |
| `operators` | 1 agent, 1 chat user, 1 session, fair | a success stands for a command that was taken; the chat limit lifts; every click is answered |

### Bounds and why they are enough

Two callers are enough for every pairwise race on the lock, and `stop_all` adds
one more per agent; two task identities allow an old and a new loop of one agent
at once. With two agents and a loop dead on its interval the two identities can
run out, so liveness is checked in `control`, where they cannot. A claim race
needs two threads. The quota exceeds its limit most when both threads pass the
check around a midnight: one midnight and six posts reach that. In `linkedin`
one restart gives the poller two generations, so that a crash falls between the
two commits of a hand-over and the next start polls the same row; the operator's
own approval competes for the thread and the token. The post's `run_at` is 2 and
the clock ends at 1, so it only comes out because the server is west of UTC: the
run shows that the early post is due by the code's own reckoning and never
before; a reference that goes back is left to the theorem `PublishedDue`. Three
decisions make a heap with two levels and force the history to evict. Two slices, two venues and three
attempts give every transition of retry, failover and TWAP. In `trading` a price
that doubles is enough for an order the price outruns, a loss past the drawdown
limit, a trailing stop, and a second symbol whose check uses exposures read
before the first symbol's trade. In `learning` two events, each of
which may raise, give a batch with one that raises before or behind one that does not, and a late one; events
that name no symbol are left to the theorems. A symbol trained twice gives a
training and a promotion of the policy before it. In `launcher` two threads of one server and
one of another cover a pid that is one's own, a pid of another server, and a pid
of a server that ended. In `dashboard` three sockets give a reconnect during a
remount. One request, of this console or of another one, interleaves with the
telemetry loop and with what the console does by itself; no handler overtakes
another in that run. (They do with `MaxRequests = 2`, which the same properties
pass with one mount and two sockets; remounts, lost sockets and two requests
together exceed five minutes.) Deadlock is checked in `trading` and `learning`; elsewhere the bounds, or the end of the
one order, call or shutdown in question, stop the instance.

### Fairness

`Fairness` of the Supervisor: the event loop runs every ready coroutine, and
`start()` and `stop()` of agents end. Nothing is assumed of `on_tick()`. The
control plane adds that time passes and that `services/scheduler.py` polls the
status. In `LinkedIn` time passes, a worker thread runs on unless it waits for
an answer of LinkedIn (nothing is assumed of that, so `ExecutionEnds` excepts an
execution whose thread waits for ever), the poller is resumed after its sleep
and a process that ended is started again; requests to a venue end
in an answer or an error (`OrderRouting`); the Supervisor ticks a running engine,
not all of its ticks break off where they began, and the loop resumes its
training (`Learning`); a thread of a living server goes
on (`Launcher`); an awaited answer comes or its timeout does, time passes and a
script runs on (`Operators`). In `Dashboard` the backend's coroutines, the
browser and the network go on; the telemetry loop picks an agent with
`random.choice`, so each agent is picked again and again (strong fairness of
`Choose`). Faults, decisions and new requests are never forced.

## 4. Proofs

| Theorem | Says |
|---|---|
| `ControlPlaneProofs!TypeCorrect`, `OneLoop`, `NoOrphan`, `TableLive`, `StopEffective` | the safety of the Supervisor for any agents, callers and tasks |
| `ControlPlaneProofs!FollowsLifecycle`, `ShutdownClean` | the Supervisor refines `AgentLifecycle`; no loop is left after `stop_all` |
| `ControlPlaneProofs!GatewaySupervises`, `OpenHolds`, `StopAnswerTrue` | behind the gateway the Supervisor is the Supervisor; the breaker keeps its cooldown; the answer to a stop is true |
| `LinkedInProofs!TypeCorrect`, `OnlyGranted`, `ExecutedPublished`, `RejectionFinal` | the approval gate for any workers and faults |
| `LinkedInProofs!FollowsLifecycle`, `OncePublished` | for one worker: the rows refine `ApprovalLifecycle`; no unexplained second post |
| `LinkedInProofs!QuotaKept` | how far any number of workers may exceed the daily quota, while LinkedIn's answers arrive |
| `LinkedInProofs!PostsTypeCorrect`, `RequestedApproval`, `HandledFinal`, `OneApproval` | the marks and the single hand-over, for any posts, faults and restarts |
| `LinkedInProofs!Parts`, `PublishedDue` | the composed service is an instance of both parts; posts come out approved, not held back and not before the poller's reference reached their `run_at` |
| `LinkedInProofs!AheadByOffset` | a server at most W west of UTC publishes no post more than W before its `run_at` |
| `ExecutiveProofs!TypeCorrect`, `QueueOrdered`, `AnsweredQueued` | the queue is a heap and holds what was answered, for any length of it |
| `OrderRoutingProofs!OnlyFilledIsBooked`, `FilledOnce`, `NothingLeft` | booking and fills for any venues, slices and attempts |
| `TradingAgentProofs!TypeCorrect`, `BookReplays`, `SavedStays` | the book is the replay of its trades, for any symbols, prices, trades and crashes |
| `TradingAgentProofs!ExposureBounded`, `TrippedStays` | the exposure that one tick adds, for any number of symbols and any caps; the tripped breaker |
| `LearningProofs!SeenUnlessLate`, `PromotionJustified`, `ProgressKept` | the watermark, the promotions and what a stop keeps, for any events, stamps, stages and thresholds |
| `OperatorsProofs!TypeCorrect`, `NoForgottenLock`, `FailedLaunch` | the launcher for any threads, servers, calls and faults |
| `OperatorsProofs!SuccessTaken` | what a success stands for, for any users, sessions and agents |
| `DashboardProofs!OneSocket` | one socket for any sockets, faults and mounts |

Every safety property of the passing runs, invariant or action property, is
stated by one of these theorems; what is left to TLC is liveness.
`AheadByOffset` has no run: its W is a bound on `Offset`.

Assumptions are the `ASSUME`s of the modules (sizes are natural numbers,
`Foreign` is a set of approvals, `Faults` come from `FaultKinds`, connections
belong to a handler or a session; amounts of money and prices are natural
numbers; the priorities are at most 100) and, where the theorem says so,
`OneWorker`, or, for `QuotaKept`, that there are finitely many workers and that
no answer of LinkedIn is lost: a lost answer is a post without a count, and
nothing bounds how often that happens.

*Supervisor.* Uniqueness of loops is not inductive: a step could start a second
loop when the table has lost the first. `IInv` adds that the caller who holds
the lock, and nobody else, is inside `start` or `stop`; that every live task is
in the table of its owner or joined, with its cancellation sent, by the caller
inside `stop`; and that a caller about to create a loop has found no live one.
The proof has one lemma per action. `StopEffective` is an action property and
follows from what `IInv` says of a caller in the last step of `stop`.
The refinement rests on the uniqueness: an agent's phase is read off its one
live loop, and a step changes at most one task, so every other agent stutters.
For the shutdown, `QueueInv` says that the lock is fair: whoever waits is in the
queue and `stop_all` is the last of it, so when it is first every earlier command
has ended and it makes its list. `EndInv` says that from then on only its stops run,
and an agent whose stop has ended has no loop.

*ControlPlane.* Every step of the gateway is a step of the Supervisor or leaves
it alone (`SupervisorPart`), so the Supervisor's theorems hold behind it. A stop
is answered in the step in which its call ends: `ReplyInv` says that a request
in work has no reply yet, `RepliesAtEnd` that a caller's reply is its own, and
`StopAnswers`, part of the argument for `StopEffective`, what holds in that
step.

*Approvals.* `GateInv`: a worker not idle holds a granted approval, whatever
happened to its row since, and a row is approved, executing or executed exactly
when it was granted. This is independent of the number of workers, so the claim
race does not threaten it. With one worker `RowInv` says what was read still
holds when the write follows, and `OnceInv` that an approval which may be
published next has only posts recorded as failed.

The quota is an argument about counts. `QuotaInv`: on the day of a count, the
count and the workers between their check and their count are fewer than the
limit and the workers together; what was sent is in the count, in the hands of
workers that posted and have not counted yet, or it was dropped by the reset
after a midnight, at most once for each worker that had checked before. The
lemmas on counts (`MoveCounts`, `BusyCounts`) say what one worker's move from a
step to the next does to the number of workers at each.

*ScheduledPosts.* `BatchInv`: what `publish_due` still has to handle is pending,
because only the poller writes existing rows. `PostsOnceInv`: a row not yet
handled has no approval from the current start, unless the poller died of it.

*LinkedIn.* `GatePart` and `PollerPart` show that each step of the service is a
step of the gate or leaves it alone, and the same of the poller; the theorem
`Parts` then gives the service every invariant of either. What is left is
`OriginInv`: an approval that names a post was requested when the post was due,
and its row, which was pending, never becomes absent or held again. `Due` is not
stable, as the reference may go back, so the invariant says that the post was
due at some instant up to now (`WasDue`), which no step undoes. From it
`AheadByOffset` follows by arithmetic on the offset of that instant.

*Executive.* `Climb` is a recursion over the halves of a position. `IsWay` says
what it computes: it goes on exactly while the entry is before the parent, and
every position on it but the last of the heap was reached from a child. The
proof takes the least position for which that would fail (`LeastNatural`). From
`IsWay`, `PushOrders` follows by where a position and its parent lie: at the
entry's place, on the way, or off it. `PushAdds` maps the entries of the new
heap onto those of the old one (a surjection), so none is lost.

*OrderRouting.* `PastFilled`: slices behind the current one are filled.
`FirmInv`: slices ahead are untouched and the current one has only fills nobody
was told of.

*TradingAgent.* The value of a book is a sum over the table of trades, so the
lemmas begin with sums over 1..n, a recursive function. What such a function is
needs induction; the library's induction theorems take an operator as a
parameter, so the induction used here is derived from a fact without one: the
order of the naturals is well-founded, hence a non-empty set of naturals has a
least element (`LeastNatural`), hence a set that holds 0 and every successor
holds all (`Induction`). `SumsOfAppend` is then what
a new row does to the sums. `ReplayInv` strengthens the property where it is not
inductive: a start takes the book from the snapshot, so the snapshot has to be
explained by the rows it counts also while the agent is down, and while it runs
those rows have to be among the counted ones, or the next snapshot would lose
them. `ExposureInv` counts the symbols a tick is done with: each adds one trade
at most, and the first one was checked against the total cap.

*Learning.* That nothing in order is missed is not inductive by itself: an event
committed next might be stamped before the watermark. `SeenUpTo` adds that the
watermark, of the state and of the snapshot a crash goes back to, is the stamp
of a committed event, so that such an event is late; `HasLatest` that a batch
has a latest stamp, which is what `Max` picks. For promotions `PolicyInv` ties
the request in work to the metrics it has compared: metrics are only added to a
policy, under names it has not yet (`MeasuredAdds`), so a comparison that was
right stays right up to the update and after it. For the progress `ProgressInv`
says what the next start finds: while the engine is stopped no training is in
work, and no snapshot is older than the state, because it is the stop's own or
the process ended and the state is new, or else the stop could not save
(`unsaved`). `MaxOfInterval` gives a training a
version to adopt, so an active policy is only replaced by another.

*Launcher.* `Calling`: the call in work has a number within the bound, so that
its gateway is its own. `NoForgottenLock` follows from what each step may do to
the file (`StepLocks`): a call leaves the steps in which it owns a file only by
removing whatever file there is, or before its pid is in it, which is what
`LockInv` adds: the file of a call that has still to write has no pid. `FailedLaunch` needs `NoneYet` (no gateway of a
call before its launch) and `FailedExited` (the gateway has ended by the time
the call raises).

*Operators.* `CacheInv`: the keys in the idempotency cache are the commands
taken within the TTL; a success is answered from one of them or makes one.

*Dashboard.* `SocketInv`: while no `connect()` has overtaken an `onclose`, the
field holds the one socket that lives, and a socket whose `onclose` is still to
come lives beside none. Without the second part an `onclose` could forget a
living socket, and the next reconnect would open another.

Only model-checked: liveness (commands, shutdown, drains, breaker, executions,
due posts, orders, events, calls, the console, clicks, the chat
limit), which needs fairness and `ENABLED`.

## 5. Where the program and expectations differ

`claim` is the one run that is meant to be violated: `claim_approval` says that
it claims atomically and does not, and `PROJECT.json` quotes it. Further
disagreements were met while modelling. They are part of the models, as the code
does them, and have no run:

- `/start` answers `running: true` for an agent whose kill switch fired or whose
  tick failed: its loop idles on and `start` takes it for running. The
  `agent_state` gauge keeps 1 in the same cases.
- One failed access to `scheduled_posts` ends polling for good, while the
  scheduler still counts as started; the shutdown that awaits the poller then
  raises its error and skips what follows.
- The caller of a decision can switch off the approval of a high-impact action
  (`agents/mother_agent.py:42`).
- An audit row that cannot be written turns a command that was carried out into
  an answer 500.
- A repeated command is answered ok from its key alone: start, stop and start
  again within five seconds leave the agent down.
- A scheduled post on a server west of UTC is handed over, as one that `reached
  its execution time` (`service.py:104`), hours before its `run_at`; east of UTC
  hours after it.
- A request to LinkedIn that is never answered leaves its approval executing, as
  does a crash.
- A stop of the learning engine whose snapshot cannot be saved takes the next
  start back to an older one; a stop of an engine that was never started saves
  its empty state over the last snapshot; and a start that cannot read the
  snapshot leaves the engine running, to be ticked unrestored after the next.
- A published post is never marked `completed` (`docs/LINKEDIN_AGENT.md:79`).
- Concurrent requests exceed the daily quota, which `QuotaWithinWorkers` bounds,
  and a restart forgets the day's count.
- The thresholds `sharpe_min`, `max_dd_pct` and `qc_rate_max` name no metric
  that a training or back-test writes, so a policy with one of them is never
  promoted.
- A launch that misses its deadline ends a gateway that others may already use
  (`docs/ROADMAP.md:14`: one backend process is reused safely).
- Confirmation buttons of the bot are checked against the sender of the message
  that carries them, which is the bot itself.
- An expired token leaves a cockpit session signed in with every request
  refused; a click is lost when another widget is used before the run that
  serves it reaches its button.
- A configured exchange without an adapter is served by Binance's test network.

## 6. Not modelled, and why

Strategies, indicators, models, back-tests and hyper-parameter search are
functions over floating point; where `TradingAgent` and `Learning` ask them,
their answers are left open. Catalog and scaffold agents return prepared text
and live as the Supervisor's other agents do; their `execute` has no caller.
Telemetry and event inserts only append, and their failures are fault choices of
their callers. The event bus has no subscriber in the application, and
`policy/engine.py` and `streamlit_utils` no importer; `rollback` of policies has no
caller, and nothing uses the refresh token of LinkedIn. The status websocket of
`dashboard/ws.py` shares no state between its clients. Integrations are
configuration lookups and single requests. Scripts and settings have no state at
run time.

Left out of the parts that are modelled: rate limits of slowapi, which stand in
front of every handler and only remove behaviour; the parts of the gateway's
shutdown after `stop_all`; prices and quantities in `OrderRouting`, where no
branch depends on them but the choice of the best venue, which is left open; the
health counters of a venue, which are never read to decide; the upload of a
document before its post; session hours, volatility targets and funding costs of
the trading agent; drift monitoring and advice rows of the engine; log lines and
metric points of the dashboard; read-only commands and wording of the bot.
Clocks other than the poller's are nondeterministic: timeouts, cooldowns, TTLs and
the expiry of tokens come at any time, which covers the same shift in
`TokenBundle.is_expired`. `PROJECT.json` lists every part
with its reason.

What could follow: `TradingAgent` in live mode composed with `OrderRouting`; the
gateway's whole shutdown.
