------------------------------ MODULE Learning ------------------------------
(***************************************************************************)
(* The learning engine and its policies: ai/learning_engine.py ticks over    *)
(* the learning database, reads the events that came since its watermark    *)
(* (learning/jobs/hourly_refresh.py), advises, trains policies in a task of *)
(* its own (learning/jobs/nightly.py) and saves snapshots;                  *)
(* services/learning_api.py is another process that promotes policies       *)
(* (learning/policy/rollout.py).  Writers of events stamp them and commit   *)
(* them later, in any order.                                                *)
(*                                                                          *)
(* A tick does not suspend; a training suspends after each symbol, where a  *)
(* stop cancels it.  The database may refuse any access: what the code does *)
(* by then stays done.  The Supervisor (ai/supervisor.py) starts and stops  *)
(* the engine and keeps its tick loop.  Metrics are low or high.  The advice *)
(* rows, which nothing reads, and the features they hold are left out.      *)
(***************************************************************************)
EXTENDS Naturals, Sequences, FiniteSets, FiniteSetsExt, Functions

CONSTANTS
  N,             \* number of config symbols
  Events,        \* market_snapshot events
  Ts,            \* Event.ts, taken before the commit
  SymbolOf,      \* the symbol in the payload, 0 when it names none
  MayRaise,      \* events whose payload may raise when it is read
  SnapshotEvery, \* snapshot_interval
  Stages,        \* stages a caller of the API promotes to,
  ThresholdSets, \* and thresholds it gives
  MaxPolicies,   \* bound: policies
  MaxCrashes     \* bound: ends of the engine's process

Symbols == 1..N
Levels == {"low", "high"}

ASSUME EventsAssumption ==
  /\ Ts \in [Events -> Nat \ {0}] /\ SymbolOf \in [Events -> 0..N] /\ MayRaise \subseteq Events
ASSUME BoundsAssumption ==
  N \in Nat \ {0} /\ SnapshotEvery \in Nat \ {0} /\ MaxPolicies \in Nat /\ MaxCrashes \in Nat

VARIABLES
  poison,   \* the events whose payload raises
  log,      \* the committed events, in the order of their commits
  running,  \* the engine's flag
  loop,     \* the Supervisor ticks the engine
  state,    \* LearningState: last_event_ts and active_policy_version
  ticks,    \* tick_count, up to the next snapshot
  task,     \* the training task: symbol in work and where it is
  snapshot, \* the latest learning snapshot
  market,   \* symbols with a data set to train on
  policies, \* the policies by version: stage, metrics, thresholds last promoted under
  api,      \* the promotion request in work
  seen,     \* history: events whose features were stored
  unsaved,  \* history: the last stop could not save, and no start restored since
  crashes   \* times the engine's process ended

db == <<log, market, policies>>
engine == <<running, loop, state, ticks, task>>
history == <<poison, seen, unsaved, crashes>>
vars == <<db, engine, snapshot, api, history>>

None == <<>>
NoTask == [symbol |-> 0, at |-> "none"]
NoRequest == [at |-> "none"]
NewState == [watermark |-> 0, active |-> 0]

Init ==
  /\ poison \in SUBSET MayRaise
  /\ log = <<>> /\ market = {} /\ policies = <<>>
  /\ running = FALSE /\ loop = FALSE /\ state = NewState /\ ticks = 0 /\ task = NoTask
  /\ snapshot = None /\ api = NoRequest
  /\ seen = {} /\ unsaved = FALSE /\ crashes = 0
-----------------------------------------------------------------------------
(* The writers.                                                              *)

\* add_event commits an event that was stamped before.
AddEvent(e) ==
  /\ e \notin Range(log)
  /\ log' = Append(log, e)
  /\ UNCHANGED <<market, policies, engine, snapshot, api, history>>

\* add_market_snapshot gives the symbol a data set.
AddMarketSnapshot(s) ==
  /\ s \notin market
  /\ market' = market \cup {s}
  /\ UNCHANGED <<log, policies, engine, snapshot, api, history>>
-----------------------------------------------------------------------------
(* Training.                                                                 *)

\* A training is scheduled when none is in work (and the bound leaves room).
Scheduled == IF task = NoTask /\ Len(policies) + N <= MaxPolicies
             THEN [symbol |-> 1, at |-> "create"] ELSE task

\* The training has not begun, has ended or sleeps: the loop may run the rest.
Yielded == task.at \in {"none", "adopt"} \/ task = [symbol |-> 1, at |-> "create"]

Training(at) == task.at = at /\ task.symbol \in Symbols
OtherThanTraining == <<log, market, running, loop, ticks, snapshot, api, history>>

\* build_offline_dataset is empty without a market snapshot of the symbol.
HasData(s) == s \in market

\* What of train_classifier's metrics a policy gets: no threshold bounds it.
TrainedMetrics == [accuracy |-> "high"]

\* create_policy gives the next version and commits it with its accuracy.
NewPolicy == [stage |-> "shadow", metrics |-> TrainedMetrics, under |-> {}]

\* run_nightly for one symbol: without data nothing is created.
CreatePolicy ==
  /\ Training("create")
  /\ IF HasData(task.symbol)
       THEN /\ policies' = Append(policies, NewPolicy)
            /\ task' = [task EXCEPT !.at = "measure"]
       ELSE task' = [task EXCEPT !.symbol = @ + 1] /\ UNCHANGED policies
  /\ UNCHANGED <<state, OtherThanTraining>>

\* What run_backtest may measure.
Measured == [max_drawdown : Levels, sharpe : {"high"}]

\* _collect_metrics: of two rows with one name the later counts.
Collected(before, after) ==
  [k \in DOMAIN before \cup DOMAIN after |-> IF k \in DOMAIN after THEN after[k] ELSE before[k]]

\* persist_metrics, a transaction of its own; the run then sleeps.
PersistMetrics ==
  /\ Training("measure")
  /\ \E metrics \in Measured :
       policies' = [policies EXCEPT ![Len(policies)].metrics = Collected(@, metrics)]
  /\ task' = [task EXCEPT !.at = "adopt"]
  /\ UNCHANGED <<state, OtherThanTraining>>

LatestShadow ==
  LET shadows == {v \in DOMAIN policies : policies[v].stage = "shadow"}
  IN IF shadows = {} THEN state.active ELSE Max(shadows)

\* The latest policy in stage shadow becomes the active one, whichever it is.
Adopt ==
  /\ Training("adopt")
  /\ state' = [state EXCEPT !.active = LatestShadow]
  /\ task' = [symbol |-> task.symbol + 1, at |-> "create"]
  /\ UNCHANGED <<policies, OtherThanTraining>>

\* The task ends: after the last symbol, or with an exception of the database.
TrainingEnds ==
  /\ task # NoTask
  /\ task' = NoTask
  /\ UNCHANGED <<policies, state, OtherThanTraining>>
-----------------------------------------------------------------------------
(* The agent.                                                                *)

\* load_snapshot: the state of the latest snapshot.
Restored == IF snapshot = None THEN state ELSE snapshot

\* Supervisor.start of an engine that does not run: start restores and schedules
\* a training at once, then the tick loop begins.
Start ==
  /\ ~running
  /\ running' = TRUE /\ loop' = TRUE
  /\ state' = Restored /\ unsaved' = FALSE
  /\ task' = Scheduled
  /\ UNCHANGED <<db, ticks, snapshot, api, poison, seen, crashes>>

\* load_snapshot raises: the flag is up, and nothing else came of the start.
StartFails ==
  /\ ~running
  /\ running' = TRUE
  /\ UNCHANGED <<db, loop, state, ticks, task, snapshot, api, history>>

\* Supervisor.start of an engine that runs without a loop: it restores nothing.
Rebuild ==
  /\ running /\ ~loop
  /\ loop' = TRUE
  /\ UNCHANGED <<db, running, state, ticks, task, snapshot, api, history>>

\* Mutant of Stop: the snapshot is left to the next start.
StopWithoutSnapshot ==
  /\ Yielded
  /\ running' = FALSE /\ loop' = FALSE /\ task' = NoTask
  /\ UNCHANGED <<db, state, ticks, snapshot, api, history>>

\* Supervisor.stop ends the loop; stop, of an engine that runs or not, cancels
\* the training where it sleeps and saves a snapshot, when the database lets it.
Stop ==
  /\ Yielded
  /\ running' = FALSE /\ loop' = FALSE /\ task' = NoTask
  /\ \/ snapshot' = state /\ unsaved' = FALSE
     \/ UNCHANGED snapshot /\ unsaved' = TRUE
  /\ UNCHANGED <<db, state, ticks, api, poison, seen, crashes>>

\* The process of the engine ends.
Crash ==
  /\ crashes < MaxCrashes
  /\ crashes' = crashes + 1
  /\ running' = FALSE /\ loop' = FALSE /\ state' = NewState /\ ticks' = 0 /\ task' = NoTask
  /\ unsaved' = FALSE
  /\ UNCHANGED <<db, snapshot, api, poison, seen>>

\* Mutant of Batch: only the newest row is read.
BatchNewest == {i \in {Len(log)} \ {0} : Ts[log[i]] > state.watermark}

\* list_events_since: the events behind the watermark, in the order of the
\* table, as indexes into it.
Batch == {i \in DOMAIN log : Ts[log[i]] > state.watermark}

\* Mutant of Readable: a batch with an event that raises is not read at all.
ReadableTogether == IF \E i \in Batch : log[i] \in poison THEN {} ELSE Batch

\* The events of the batch that are read before one raises.
Readable == {i \in Batch : \A j \in Batch : j <= i => log[j] \notin poison}

\* refresh_online_features up to the n-th row: an event that names no symbol is
\* passed over, and does not count for the watermark either.
StoredUpTo(n) == {log[i] : i \in {j \in Readable : j <= n /\ SymbolOf[log[j]] # 0}}
Stored == StoredUpTo(Len(log))

\* last_event_ts after a batch that was read to its end.
Watermark == Max({state.watermark} \cup {Ts[e] : e \in Stored})

\* An event that raises, or a store that does, ends the tick: what was read is
\* stored, but the watermark, the training and the snapshot are not reached.
TickBreaksOff ==
  /\ \E n \in 0..Len(log) : seen' = seen \cup StoredUpTo(n)
  /\ UNCHANGED <<state, ticks, task, snapshot>>

\* The watermark moves; then the advice may not be written, and then the
\* snapshot, when it is time for one.
TickGoesOn ==
  /\ Readable = Batch
  /\ seen' = seen \cup Stored
  /\ state' = [state EXCEPT !.watermark = Watermark]
  /\ \/ UNCHANGED <<ticks, task, snapshot>>
     \/ /\ task' \in {task, Scheduled}
        /\ ticks' = (ticks + 1) % SnapshotEvery
        /\ snapshot' \in IF ticks' = 0 THEN {state', snapshot} ELSE {snapshot}

\* on_tick, which catches every exception.
Tick ==
  /\ running /\ loop /\ Yielded
  /\ TickBreaksOff \/ TickGoesOn
  /\ UNCHANGED <<db, running, loop, api, poison, unsaved, crashes>>
-----------------------------------------------------------------------------
(* The learning API.                                                         *)

\* can_promote compares by the form of the name; other names need only be there.
UpperBounded == {"max_drawdown", "max_dd_pct", "qc_rate_max"}
LowerBounded == {"sharpe_min"}

\* Mutant of CanPromote: a metric that is not there does not count.
CanPromoteUnmeasured(metrics, thresholds) ==
  \A k \in thresholds \cap DOMAIN metrics :
    (k \in UpperBounded => metrics[k] = "low") /\ (k \in LowerBounded => metrics[k] = "high")

CanPromote(metrics, thresholds) ==
  \A k \in thresholds :
    /\ k \in DOMAIN metrics
    /\ k \in UpperBounded => metrics[k] = "low"
    /\ k \in LowerBounded => metrics[k] = "high"

\* promote: three transactions.  First, is the policy the latest?
PromoteLatest(version, stage, thresholds) ==
  /\ api = NoRequest
  /\ version = Len(policies) /\ version > 0
  /\ api' = [at |-> "check", version |-> version, stage |-> stage, thresholds |-> thresholds]
  /\ UNCHANGED <<db, engine, snapshot, history>>

\* Then its metrics are compared with the thresholds.
PromoteCheck ==
  /\ api.at = "check"
  /\ api' = IF CanPromote(policies[api.version].metrics, api.thresholds)
            THEN [api EXCEPT !.at = "update"] ELSE NoRequest
  /\ UNCHANGED <<db, engine, snapshot, history>>

\* Then update_stage, by the id alone.
PromoteUpdate ==
  /\ api.at = "update"
  /\ policies' = [policies EXCEPT ![api.version].stage = api.stage,
                                  ![api.version].under = api.thresholds]
  /\ api' = NoRequest
  /\ UNCHANGED <<log, market, engine, snapshot, history>>

\* policy_promote takes any policy, stage and thresholds.
Promote ==
  \/ \E v \in 1..MaxPolicies, stage \in Stages, t \in ThresholdSets : PromoteLatest(v, stage, t)
  \/ PromoteCheck \/ PromoteUpdate

TrainingNext == CreatePolicy \/ PersistMetrics \/ Adopt \/ TrainingEnds

Next ==
  \/ \E e \in Events : AddEvent(e)
  \/ \E s \in Symbols : AddMarketSnapshot(s)
  \/ TrainingNext \/ Start \/ StartFails \/ Rebuild \/ Stop \/ Crash \/ Tick
  \/ Promote

Spec == Init /\ [][Next]_vars

\* The Supervisor ticks a running agent, not all ticks break off where they
\* began, and the event loop resumes the training.
FairSpec == Spec /\ WF_vars(Tick) /\ WF_vars(TrainingNext)
-----------------------------------------------------------------------------
(* Properties.                                                               *)

\* An event is late when an event stamped no earlier was committed before it.
Late(i) == \E j \in 1..i - 1 : Ts[log[j]] >= Ts[log[i]]

\* The watermark passes over no event that names a symbol and came in the order
\* of the stamps, whatever came late and whatever crash took the engine back.
EventsSeenUnlessLate ==
  \A i \in DOMAIN log :
    (SymbolOf[log[i]] # 0 /\ Ts[log[i]] <= state.watermark)
      => log[i] \in seen \/ Late(i)

\* A policy out of shadow still meets the thresholds it was promoted under,
\* although its metrics are committed in pieces and the promotion reads them
\* in one transaction and writes the stage in another.
PromotionStaysJustified ==
  \A v \in DOMAIN policies :
    policies[v].stage = "canary" => CanPromote(policies[v].metrics, policies[v].under)

\* Only the end of the process, or a stop whose snapshot could not be saved,
\* takes the engine back: any other stop, at whatever point of a training, and
\* the start that follows, failing or not, keep the watermark and an active
\* policy.
ProgressIsKept ==
  [][crashes' = crashes /\ ~unsaved =>
       /\ state'.watermark >= state.watermark
       /\ state.active # 0 => state'.active # 0]_vars

\* An event that names a symbol and did not come late is read, unless an event
\* that raises was committed before it and is read again with it, or the ticks
\* end: what raises holds up nothing that came before it.
EventsAreLearned ==
  \A e \in {x \in Events : SymbolOf[x] # 0} :
    (\E i \in DOMAIN log : log[i] = e /\ ~Late(i))
      ~> \/ e \in seen \/ ~loop
         \/ \E i \in DOMAIN log : /\ log[i] = e
              /\ \E j \in 1..i : log[j] \in poison /\ Ts[log[j]] > state.watermark
=============================================================================
