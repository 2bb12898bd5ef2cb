--------------------------- MODULE LearningProofs ----------------------------
(***************************************************************************)
(* What the learning engine reads, keeps and what the API promotes, for any  *)
(* events, symbols, stages, thresholds and bounds.                          *)
(***************************************************************************)
EXTENDS Learning, TLAPS, WellFoundedInduction

USE EventsAssumption, BoundsAssumption
-----------------------------------------------------------------------------
(* The watermark.  It is the stamp of a committed event, so whatever is      *)
(* committed behind it later is late; and it moves over a batch only when   *)
(* the whole batch was read.                                                *)

SeenUpTo(w) ==
  /\ w \in Nat
  /\ w = 0 \/ \E j \in 1..Len(log) : Ts[log[j]] = w
  /\ \A i \in 1..Len(log) :
       (SymbolOf[log[i]] # 0 /\ Ts[log[i]] <= w) => log[i] \in seen \/ Late(i)

\* Among any of the committed events one has the latest stamp.
HasLatest ==
  \A T \in SUBSET (1..Len(log)) :
    T # {} => \E j \in T : \A k \in T : Ts[log[k]] <= Ts[log[j]]

IsState(s) == s = [watermark |-> s.watermark, active |-> s.active]

LogInv ==
  /\ log \in Seq(Events)
  /\ HasLatest
  /\ IsState(state) /\ SeenUpTo(state.watermark)
  /\ snapshot # None => IsState(snapshot) /\ SeenUpTo(snapshot.watermark)

LEMMA LogInit == Init => LogInv
<1> SUFFICES ASSUME Init PROVE LogInv
  OBVIOUS
<1>1. log = <<>> /\ snapshot = None /\ state = [watermark |-> 0, active |-> 0]
  BY DEF Init, NewState
<1>2. Len(log) = 0 /\ log \in Seq(Events) /\ 1..Len(log) = {}
  BY <1>1
<1>3. HasLatest
  BY <1>2 DEF HasLatest
<1>4. IsState(state) /\ SeenUpTo(state.watermark)
  BY <1>1, <1>2 DEF IsState, SeenUpTo
<1> QED
  BY <1>1, <1>2, <1>3, <1>4 DEF LogInv

\* What a commit does to the table.
LEMMA Committed ==
  ASSUME log \in Seq(Events), NEW e \in Events, AddEvent(e)
  PROVE  /\ log' \in Seq(Events) /\ Len(log') = Len(log) + 1 /\ Len(log) \in Nat
         /\ \A i \in 1..Len(log) : log'[i] = log[i] /\ log[i] \in Events
         /\ log'[Len(log) + 1] = e
  BY DEF AddEvent

\* A commit leaves nothing unseen behind the watermark but late events.
LEMMA CommitKeepsSeen ==
  ASSUME log \in Seq(Events), NEW e \in Events, AddEvent(e), NEW w, SeenUpTo(w)
  PROVE  SeenUpTo(w)'
<1>1. /\ Len(log') = Len(log) + 1 /\ Len(log) \in Nat
      /\ \A i \in 1..Len(log) : log'[i] = log[i] /\ log[i] \in Events
      /\ log'[Len(log) + 1] = e
  BY Committed
<1>2. seen' = seen
  BY DEF AddEvent, history
<1>3. w \in Nat /\ (w = 0 \/ \E j \in 1..Len(log') : Ts[log'[j]] = w)
  BY <1>1 DEF SeenUpTo
<1>4. ASSUME NEW i \in 1..Len(log'), SymbolOf[log'[i]] # 0, Ts[log'[i]] <= w
      PROVE  log'[i] \in seen' \/ Late(i)'
  <2>1. CASE i \in 1..Len(log)
    <3>1. log[i] \in seen \/ Late(i)
      BY <1>1, <1>4, <2>1 DEF SeenUpTo
    <3>2. ASSUME NEW j \in 1..(i - 1), Ts[log[j]] >= Ts[log[i]]
          PROVE  Ts[log'[j]] >= Ts[log'[i]]
      <4>1. i \in 1..Len(log) /\ j \in 1..Len(log)
        BY <1>1, <2>1
      <4> QED
        BY <1>1, <3>2, <4>1
    <3>3. Late(i) => Late(i)'
      BY <3>2 DEF Late
    <3> QED
      BY <1>1, <1>2, <2>1, <3>1, <3>3
  <2>2. CASE i = Len(log) + 1
    <3>1. Ts[e] # 0 /\ Ts[e] \in Nat
      OBVIOUS
    <3>2. PICK j \in 1..Len(log) : Ts[log[j]] = w
      BY <1>1, <1>4, <2>2, <3>1 DEF SeenUpTo
    <3>3. j \in 1..(i - 1) /\ Ts[log'[j]] >= Ts[log'[i]]
      BY <1>1, <1>4, <2>2, <3>1, <3>2
    <3> QED
      BY <3>3 DEF Late
  <2> QED
    BY <1>1, <2>1, <2>2
<1> QED
  BY <1>2, <1>3, <1>4 DEF SeenUpTo

LEMMA CommitKeepsLatest ==
  ASSUME log \in Seq(Events), HasLatest, NEW e \in Events, AddEvent(e)
  PROVE  HasLatest'
<1>1. /\ Len(log') = Len(log) + 1 /\ Len(log) \in Nat
      /\ \A i \in 1..Len(log) : log'[i] = log[i] /\ log[i] \in Events
      /\ log'[Len(log) + 1] = e
  BY Committed
<1> DEFINE n == Len(log) + 1
<1>2. SUFFICES ASSUME NEW T \in SUBSET (1..n), T # {}
               PROVE  \E j \in T : \A k \in T : Ts[log'[k]] <= Ts[log'[j]]
  BY <1>1 DEF HasLatest
<1>3. \A k \in T : Ts[log'[k]] \in Nat
  BY <1>1
<1>4. CASE T \ {n} = {}
  BY <1>2, <1>3, <1>4
<1>5. CASE T \ {n} # {}
  <2>1. T \ {n} \in SUBSET (1..Len(log))
    <3>1. ASSUME NEW k \in T, k # n PROVE k \in 1..Len(log)
      <4>1. k \in 1..(Len(log) + 1)
        BY <1>2
      <4> QED
        BY <1>1, <3>1, <4>1
    <3> QED
      BY <3>1
  <2>2. PICK j \in T \ {n} : \A k \in T \ {n} : Ts[log[k]] <= Ts[log[j]]
    BY <1>5, <2>1 DEF HasLatest
  <2>3. \A k \in T \ {n} : log'[k] = log[k]
    BY <1>1, <2>1
  <2>4. \A k \in T \ {n} : Ts[log'[k]] <= Ts[log'[j]]
    BY <2>2, <2>3
  <2>5. CASE n \in T /\ Ts[log'[n]] > Ts[log'[j]]
    <3>1. ASSUME NEW k \in T PROVE Ts[log'[k]] <= Ts[log'[n]]
      <4>1. CASE k = n
        BY <1>3, <4>1
      <4>2. CASE k # n
        <5>1. Ts[log'[k]] <= Ts[log'[j]]
          BY <2>4, <4>2
        <5> QED
          BY <1>3, <2>2, <2>5, <5>1
      <4> QED
        BY <4>1, <4>2
    <3> QED
      BY <2>5, <3>1
  <2>6. CASE ~(n \in T /\ Ts[log'[n]] > Ts[log'[j]])
    <3>1. \A k \in T : Ts[log'[k]] <= Ts[log'[j]]
      BY <1>3, <2>2, <2>4, <2>6
    <3> QED
      BY <2>2, <3>1
  <2> QED
    BY <2>5, <2>6
<1> QED
  BY <1>4, <1>5

\* The watermark of a batch: the stamp of the latest event that was stored, or
\* the watermark before, whichever is later.
LEMMA WatermarkOfBatch ==
  ASSUME log \in Seq(Events), HasLatest, state.watermark \in Nat
  PROVE  /\ Watermark \in Nat /\ Watermark >= state.watermark
         /\ Watermark = state.watermark \/ \E j \in 1..Len(log) : Ts[log[j]] = Watermark
<1> DEFINE S == {j \in Readable : SymbolOf[log[j]] # 0}
<1> DEFINE W == {state.watermark} \cup {Ts[e] : e \in Stored}
<1>1. \A i \in 1..Len(log) : log[i] \in Events
  OBVIOUS
<1>2. S \in SUBSET (1..Len(log))
  BY DEF Readable, Batch
<1>3. Stored = {log[i] : i \in S}
  BY <1>2 DEF Stored, StoredUpTo
<1>4. \A x \in W : x = state.watermark \/ \E j \in S : x = Ts[log[j]]
  BY <1>3
<1>5. \A j \in S : Ts[log[j]] \in W /\ Ts[log[j]] \in Nat
  BY <1>1, <1>2, <1>3
<1>0. state.watermark \in W /\ state.watermark \in Nat
  OBVIOUS
<1> HIDE DEF W, S
<1>6. \E x \in W : \A y \in W : x >= y
  <2>1. CASE S = {}
    <3>1. \A y \in W : y = state.watermark
      BY <1>4, <2>1
    <3> QED
      BY <1>0, <3>1
  <2>2. CASE S # {}
    <3>1. PICK j \in S : \A k \in S : Ts[log[k]] <= Ts[log[j]]
      BY <1>2, <2>2 DEF HasLatest
    <3>2. CASE Ts[log[j]] >= state.watermark
      <4>1. \A y \in W : Ts[log[j]] >= y
        BY <1>4, <1>5, <3>1, <3>2
      <4> QED
        BY <1>5, <4>1
    <3>3. CASE state.watermark > Ts[log[j]]
      <4>1. ASSUME NEW k \in S PROVE state.watermark >= Ts[log[k]]
        BY <1>5, <3>1, <3>3
      <4>2. \A y \in W : state.watermark >= y
        BY <1>4, <1>0, <4>1
      <4> QED
        BY <1>0, <4>2
    <3> QED
      BY <1>5, <3>2, <3>3
  <2> QED
    BY <2>1, <2>2
<1>7. Watermark \in W /\ \A y \in W : Watermark >= y
  <2>1. Watermark = Max(W)
    BY DEF Watermark, W
  <2> QED
    BY <1>6, <2>1 DEF Max
<1> QED
  BY <1>2, <1>4, <1>5, <1>0, <1>7

\* A tick that reads its batch to the end has seen all that is behind the new
\* watermark; one that does not leaves the watermark alone.
LEMMA TickKeepsSeen ==
  ASSUME LogInv, Tick
  PROVE  LogInv'
<1>1. log' = log /\ seen \subseteq seen' /\ \A i : Late(i)' = Late(i)
  BY DEF Tick, TickBreaksOff, TickGoesOn, db, Late
<1>2. \A i \in 1..Len(log) : log[i] \in Events
  BY DEF LogInv
<1>3. ASSUME NEW w, SeenUpTo(w) PROVE SeenUpTo(w)'
  BY <1>1, <1>3 DEF SeenUpTo
<1>4. CASE TickBreaksOff
  BY <1>1, <1>3, <1>4 DEF TickBreaksOff, LogInv, HasLatest, IsState
<1>5. CASE TickGoesOn
  <2>0. /\ Readable = Batch /\ seen' = seen \cup Stored
        /\ state' = [state EXCEPT !.watermark = Watermark]
        /\ snapshot' = state' \/ UNCHANGED snapshot
    BY <1>5 DEF TickGoesOn
  <2>1. IsState(state') /\ state'.watermark = Watermark
    BY <2>0 DEF LogInv, IsState
  <2>2. Watermark \in Nat /\ (Watermark = 0 \/ \E j \in 1..Len(log) : Ts[log[j]] = Watermark)
    BY WatermarkOfBatch DEF LogInv, SeenUpTo
  <2>3. ASSUME NEW i \in 1..Len(log), SymbolOf[log[i]] # 0 PROVE log[i] \in seen' \/ Late(i)
    <3>1. CASE Ts[log[i]] <= state.watermark
      BY <1>1, <2>3, <3>1 DEF LogInv, SeenUpTo
    <3>2. CASE Ts[log[i]] > state.watermark
      <4>1. i \in Readable
        BY <2>0, <3>2 DEF Batch, LogInv
      <4>2. log[i] \in Stored
        BY <2>3, <4>1 DEF Stored, StoredUpTo, Readable, Batch
      <4> QED
        BY <2>0, <4>2
    <3> QED
      BY <1>2, <3>1, <3>2 DEF LogInv, SeenUpTo
  <2>4. SeenUpTo(state.watermark)'
    BY <1>1, <2>1, <2>2, <2>3 DEF SeenUpTo
  <2>5. snapshot' # None => IsState(snapshot') /\ SeenUpTo(snapshot.watermark)'
    <3>1. CASE snapshot' = state'
      BY <2>1, <2>4, <3>1 DEF SeenUpTo
    <3>2. CASE UNCHANGED snapshot
      BY <1>3, <3>2 DEF LogInv, IsState
    <3> QED
      BY <2>0, <3>1, <3>2
  <2> QED
    BY <1>1, <2>1, <2>4, <2>5 DEF LogInv, HasLatest, IsState
<1> QED
  BY <1>4, <1>5 DEF Tick

LEMMA LogStep == LogInv /\ [Next]_vars => LogInv'
<1> SUFFICES ASSUME LogInv, [Next]_vars PROVE LogInv'
  OBVIOUS
<1>1. ASSUME NEW e \in Events, AddEvent(e) PROVE LogInv'
  <2>1. UNCHANGED <<state, snapshot>>
    BY <1>1 DEF AddEvent, engine
  <2>2. log' \in Seq(Events)
    BY <1>1, Committed DEF LogInv
  <2>3. HasLatest'
    BY <1>1, CommitKeepsLatest DEF LogInv
  <2>4. ASSUME NEW w, SeenUpTo(w) PROVE SeenUpTo(w)'
    BY <1>1, <2>4, CommitKeepsSeen DEF LogInv
  <2> QED
    BY <2>1, <2>2, <2>3, <2>4 DEF LogInv, IsState
<1>2. CASE Tick
  BY <1>2, TickKeepsSeen
<1>3. ASSUME UNCHANGED <<log, seen>>,
             IsState(state') /\ (state'.watermark = state.watermark \/ state'.watermark = 0
               \/ (snapshot # None /\ state'.watermark = snapshot.watermark)),
             snapshot' = state \/ UNCHANGED snapshot
      PROVE  LogInv'
  <2>1. ASSUME NEW w PROVE SeenUpTo(w) <=> SeenUpTo(w)'
    BY <1>3 DEF SeenUpTo, Late
  <2>2. SeenUpTo(0)
    BY DEF LogInv, SeenUpTo
  <2>3. SeenUpTo(state'.watermark)
    BY <1>3, <2>2 DEF LogInv
  <2> QED
    BY <1>3, <2>1, <2>3 DEF LogInv, HasLatest, IsState
<1>4. ASSUME UNCHANGED <<log, seen, state, snapshot>> PROVE LogInv'
  BY <1>3, <1>4 DEF LogInv, IsState
<1>5. ASSUME NEW s \in Symbols, AddMarketSnapshot(s) PROVE LogInv'
  BY <1>4, <1>5 DEF AddMarketSnapshot, engine, history
<1>6. CASE CreatePolicy \/ PersistMetrics \/ TrainingEnds
  BY <1>4, <1>6 DEF CreatePolicy, PersistMetrics, TrainingEnds, OtherThanTraining, history
<1>7. CASE Adopt
  BY <1>3, <1>7 DEF Adopt, OtherThanTraining, history, LogInv, IsState
<1>8. CASE Start
  BY <1>3, <1>8 DEF Start, Restored, db, LogInv, IsState
<1>9. CASE Stop
  BY <1>3, <1>9 DEF Stop, db, LogInv, IsState
<1>10. CASE Crash
  BY <1>3, <1>10 DEF Crash, NewState, db, LogInv, IsState
<1>11. CASE Promote
  BY <1>4, <1>11 DEF Promote, PromoteLatest, PromoteCheck, PromoteUpdate, db, engine, history
<1>12. CASE StartFails \/ Rebuild
  BY <1>4, <1>12 DEF StartFails, Rebuild, db, history
<1>13. CASE UNCHANGED vars
  BY <1>4, <1>13 DEF vars, db, engine, history
<1> QED
  BY <1>1, <1>2, <1>5, <1>6, <1>7, <1>8, <1>9, <1>10, <1>11, <1>12, <1>13 DEF Next, TrainingNext

\* No event with features is passed over that came in the order of the stamps
\* (list_events_since, refresh_online_features), whatever came late, raised, was
\* restored from an older snapshot or lost in a crash.
THEOREM SeenUnlessLate == Spec => []EventsSeenUnlessLate
<1>1. LogInv => EventsSeenUnlessLate
  <2>1. LogInv => DOMAIN log = 1..Len(log)
    BY DEF LogInv
  <2> QED
    BY <2>1 DEF LogInv, SeenUpTo, EventsSeenUnlessLate
<1> QED
  BY <1>1, LogInit, LogStep, PTL DEF Spec
-----------------------------------------------------------------------------
(* Promotions.  Metrics are only added to a policy, under names it has not   *)
(* yet, so a comparison that was right once stays right.                    *)

Names == {"accuracy", "max_drawdown", "sharpe"}
Metrics == UNION {[K -> Levels] : K \in SUBSET Names}
Policy == [stage : Stages \cup {"shadow"}, metrics : Metrics, under : ThresholdSets \cup {{}}]
Request == [at : {"check", "update"}, version : Nat, stage : Stages, thresholds : ThresholdSets]

PolicyInv ==
  /\ policies \in Seq(Policy)
  /\ task = [symbol |-> task.symbol, at |-> task.at]
  /\ api = NoRequest \/ (api \in Request /\ api.version \in 1..Len(policies))
  /\ \A v \in 1..Len(policies) :
       policies[v].stage = "canary" => CanPromote(policies[v].metrics, policies[v].under)
  /\ task.at = "measure" =>
       Len(policies) > 0 /\ policies[Len(policies)].metrics = TrainedMetrics
  /\ api.at = "update" => CanPromote(policies[api.version].metrics, api.thresholds)

LEMMA PolicyInit == Init => PolicyInv
  BY DEF Init, PolicyInv, NoTask, NoRequest

LEMMA Trained == TrainedMetrics \in Metrics
<1>1. TrainedMetrics \in [{"accuracy"} -> Levels] /\ {"accuracy"} \in SUBSET Names
  BY DEF TrainedMetrics, Levels, Names
<1> QED
  BY <1>1 DEF Metrics

\* What a backtest adds leaves the accuracy as it was.
LEMMA MeasuredAdds ==
  ASSUME NEW m \in Measured
  PROVE  /\ Collected(TrainedMetrics, m) \in Metrics
         /\ \A t : CanPromote(TrainedMetrics, t) => CanPromote(Collected(TrainedMetrics, m), t)
<1>1. DOMAIN TrainedMetrics = {"accuracy"} /\ TrainedMetrics["accuracy"] = "high"
  BY DEF TrainedMetrics
<1>2. /\ DOMAIN m = {"max_drawdown", "sharpe"}
      /\ m["max_drawdown"] \in Levels /\ m["sharpe"] \in Levels
  BY DEF Measured, Levels
<1>3. /\ Collected(TrainedMetrics, m) \in [Names -> Levels]
      /\ Collected(TrainedMetrics, m)["accuracy"] = TrainedMetrics["accuracy"]
  BY <1>1, <1>2 DEF Collected, Names, Levels
<1>4. Collected(TrainedMetrics, m) \in Metrics
  BY <1>3 DEF Metrics
<1>5. ASSUME NEW t, CanPromote(TrainedMetrics, t)
      PROVE  CanPromote(Collected(TrainedMetrics, m), t)
  <2>1. \A k \in t : k = "accuracy"
    BY <1>1, <1>5 DEF CanPromote
  <2> QED
    BY <1>3, <1>5, <2>1 DEF CanPromote, Names
<1> QED
  BY <1>4, <1>5

\* One element of a sequence is replaced.
LEMMA Replaced ==
  ASSUME NEW S, NEW s \in Seq(S), NEW n \in 1..Len(s), NEW e \in S, NEW t,
         t = [s EXCEPT ![n] = e]
  PROVE  /\ t \in Seq(S) /\ Len(t) = Len(s)
         /\ \A u \in 1..Len(s) : u # n => t[u] = s[u]
         /\ t[n] = e
<1>1. s \in [1..Len(s) -> S] /\ DOMAIN s = 1..Len(s) /\ Len(s) \in Nat
  OBVIOUS
<1>2. t \in [1..Len(s) -> S] /\ t[n] = e /\ \A u \in 1..Len(s) : u # n => t[u] = s[u]
  BY <1>1
<1>3. t \in Seq(S) /\ Len(t) = Len(s)
  BY <1>1, <1>2
<1> QED
  BY <1>2, <1>3

LEMMA PolicyStep == PolicyInv /\ [Next]_vars => PolicyInv'
<1> SUFFICES ASSUME PolicyInv, [Next]_vars PROVE PolicyInv'
  OBVIOUS
<1>1. CASE CreatePolicy
  <2>1. UNCHANGED api
    BY <1>1 DEF CreatePolicy, OtherThanTraining
  <2>2. CASE policies' = Append(policies, NewPolicy) /\ task' = [task EXCEPT !.at = "measure"]
    <3>1. NewPolicy \in Policy /\ NewPolicy.stage = "shadow" /\ NewPolicy.metrics = TrainedMetrics
      BY Trained DEF NewPolicy, Policy
    <3>2. /\ policies' \in Seq(Policy) /\ Len(policies') = Len(policies) + 1 /\ Len(policies) \in Nat
          /\ \A v \in 1..Len(policies) : policies'[v] = policies[v]
          /\ policies'[Len(policies) + 1] = NewPolicy
      BY <2>2, <3>1 DEF PolicyInv
    <3>3. api = NoRequest \/ (api \in Request /\ api.version \in 1..Len(policies))
      BY DEF PolicyInv
    <3>4. api' = NoRequest \/ (api' \in Request /\ api'.version \in 1..Len(policies'))
      BY <2>1, <3>2, <3>3
    <3>5. task' = [symbol |-> task'.symbol, at |-> task'.at]
      BY <2>2 DEF PolicyInv
    <3>6. ASSUME NEW v \in 1..Len(policies'), policies'[v].stage = "canary"
          PROVE  CanPromote(policies'[v].metrics, policies'[v].under)
      BY <3>1, <3>2, <3>6 DEF PolicyInv
    <3>7. Len(policies') > 0 /\ policies'[Len(policies')].metrics = TrainedMetrics
      BY <3>1, <3>2
    <3>8. ASSUME api'.at = "update"
          PROVE  CanPromote(policies'[api'.version].metrics, api'.thresholds)
      BY <2>1, <3>2, <3>3, <3>8 DEF PolicyInv, NoRequest
    <3> QED
      BY <3>2, <3>4, <3>5, <3>6, <3>7, <3>8 DEF PolicyInv
  <2>3. CASE UNCHANGED policies /\ task' = [task EXCEPT !.symbol = @ + 1]
    BY <1>1, <2>1, <2>3 DEF PolicyInv, Training
  <2> QED
    BY <1>1, <2>2, <2>3 DEF CreatePolicy
<1>2. CASE PersistMetrics
  <2>1. UNCHANGED api /\ task' = [task EXCEPT !.at = "adopt"] /\ task.at = "measure"
    BY <1>2 DEF PersistMetrics, OtherThanTraining, Training
  <2> DEFINE n == Len(policies)
  <2> DEFINE measured(m) == [policies[n] EXCEPT !.metrics = Collected(TrainedMetrics, m)]
  <2>2. n \in 1..Len(policies) /\ policies[n].metrics = TrainedMetrics
    BY <2>1 DEF PolicyInv
  <2>3. PICK m \in Measured :
          policies' = [policies EXCEPT ![n].metrics = Collected(@, m)]
    BY <1>2 DEF PersistMetrics
  <2>4. policies' = [policies EXCEPT ![n] = measured(m)]
    BY <2>2, <2>3 DEF PolicyInv
  <2>5. policies[n] \in Policy
    BY <2>2 DEF PolicyInv
  <2>6. /\ measured(m) \in Policy /\ measured(m).metrics = Collected(TrainedMetrics, m)
        /\ measured(m).stage = policies[n].stage /\ measured(m).under = policies[n].under
    BY <2>5, MeasuredAdds DEF Policy
  <2> HIDE DEF measured
  <2>7. /\ policies' \in Seq(Policy) /\ Len(policies') = Len(policies)
        /\ \A v \in 1..Len(policies) : v # n => policies'[v] = policies[v]
        /\ policies'[n].metrics = Collected(TrainedMetrics, m)
        /\ policies'[n].stage = policies[n].stage /\ policies'[n].under = policies[n].under
    <3>1. policies \in Seq(Policy)
      BY DEF PolicyInv
    <3>2. /\ policies' \in Seq(Policy) /\ Len(policies') = Len(policies)
          /\ \A u \in 1..Len(policies) : u # n => policies'[u] = policies[u]
          /\ policies'[n] = measured(m)
      BY <3>1, <2>2, <2>4, <2>6, Replaced
    <3> QED
      BY <2>6, <3>2
  <2>8. ASSUME NEW v \in 1..Len(policies), NEW t, CanPromote(policies[v].metrics, t)
        PROVE  CanPromote(policies'[v].metrics, t)
    BY <2>2, <2>7, <2>8, MeasuredAdds
  <2>9. task'.at = "adopt" /\ task' = [symbol |-> task'.symbol, at |-> task'.at]
    BY <2>1 DEF PolicyInv
  <2>10. ASSUME NEW v \in 1..Len(policies'), policies'[v].stage = "canary"
         PROVE  CanPromote(policies'[v].metrics, policies'[v].under)
    <3>1. policies[v].stage = "canary" /\ policies'[v].under = policies[v].under
      BY <2>7, <2>10
    <3> QED
      BY <2>7, <2>8, <3>1 DEF PolicyInv
  <2>11. api.at = "update" => api.version \in 1..Len(policies)
    BY DEF PolicyInv, NoRequest
  <2> QED
    BY <2>1, <2>7, <2>8, <2>9, <2>10, <2>11 DEF PolicyInv
<1>3. CASE PromoteUpdate
  <2>1. api \in Request /\ api.version \in 1..Len(policies)
    BY <1>3 DEF PromoteUpdate, PolicyInv, NoRequest
  <2> DEFINE v == api.version
  <2> DEFINE promoted == [policies[v] EXCEPT !.stage = api.stage, !.under = api.thresholds]
  <2>2. policies[v] \in Policy
    BY <2>1 DEF PolicyInv
  <2>3. /\ promoted \in Policy /\ promoted.metrics = policies[v].metrics
        /\ promoted.under = api.thresholds
    BY <2>1, <2>2 DEF Policy, Request
  <2>4. policies' = [policies EXCEPT ![v] = promoted]
    BY <1>3, <2>1, <2>2 DEF PromoteUpdate, PolicyInv, Policy
  <2>5. /\ policies' \in Seq(Policy) /\ Len(policies') = Len(policies)
        /\ \A u \in 1..Len(policies) : u # v => policies'[u] = policies[u]
        /\ policies'[v] = promoted
    <3>1. policies \in Seq(Policy)
      BY DEF PolicyInv
    <3> HIDE DEF promoted
    <3> QED
      BY <3>1, <2>1, <2>3, <2>4, Replaced
  <2>6. CanPromote(promoted.metrics, promoted.under)
    BY <1>3, <2>3 DEF PromoteUpdate, PolicyInv
  <2>7. UNCHANGED task /\ api' = NoRequest
    BY <1>3 DEF PromoteUpdate, engine
  <2>8. ASSUME NEW u \in 1..Len(policies'), policies'[u].stage = "canary"
        PROVE  CanPromote(policies'[u].metrics, policies'[u].under)
    <3> HIDE DEF promoted
    <3> QED
      BY <2>5, <2>6, <2>8 DEF PolicyInv
  <2>9. task'.at = "measure" => policies'[Len(policies')].metrics = TrainedMetrics /\ Len(policies') > 0
    <3>1. ASSUME task.at = "measure"
          PROVE  /\ Len(policies) > 0 /\ Len(policies) \in 1..Len(policies)
                 /\ policies[Len(policies)].metrics = TrainedMetrics
      BY <3>1 DEF PolicyInv
    <3> HIDE DEF promoted
    <3> QED
      BY <2>3, <2>5, <2>7, <3>1
  <2>10. task' = [symbol |-> task'.symbol, at |-> task'.at] /\ api'.at = "none"
    BY <2>7 DEF PolicyInv, NoRequest
  <2> QED
    BY <2>5, <2>7, <2>8, <2>9, <2>10 DEF PolicyInv
<1>4. CASE PromoteCheck
  <2>1. UNCHANGED <<policies, task>>
    BY <1>4 DEF PromoteCheck, db, engine
  <2>2. api \in Request /\ api.version \in 1..Len(policies)
    BY <1>4 DEF PromoteCheck, PolicyInv, NoRequest
  <2>3. CASE api' = NoRequest
    BY <2>1, <2>3 DEF PolicyInv, NoRequest
  <2>4. CASE /\ CanPromote(policies[api.version].metrics, api.thresholds)
             /\ api' = [api EXCEPT !.at = "update"]
    <3>1. api' \in Request /\ api'.version = api.version /\ api'.thresholds = api.thresholds
      BY <2>2, <2>4 DEF Request
    <3> QED
      BY <2>1, <2>2, <2>4, <3>1 DEF PolicyInv
  <2> QED
    BY <1>4, <2>3, <2>4 DEF PromoteCheck
<1>5. ASSUME NEW v \in 1..MaxPolicies, NEW stage \in Stages, NEW t \in ThresholdSets,
             PromoteLatest(v, stage, t)
      PROVE  PolicyInv'
  <2>1. UNCHANGED <<policies, task>> /\ v \in 1..Len(policies)
    BY <1>5 DEF PromoteLatest, db, engine, PolicyInv
  <2>2. api' = [at |-> "check", version |-> v, stage |-> stage, thresholds |-> t]
    BY <1>5 DEF PromoteLatest
  <2> QED
    BY <2>1, <2>2 DEF PolicyInv, Request
<1>6. ASSUME UNCHANGED <<policies, api>>,
             task' = [symbol |-> task'.symbol, at |-> task'.at],
             task'.at = "measure" => task.at = "measure"
      PROVE  PolicyInv'
  BY <1>6 DEF PolicyInv
<1>7. CASE Adopt \/ TrainingEnds
  BY <1>6, <1>7 DEF Adopt, TrainingEnds, OtherThanTraining, NoTask
<1>8. CASE Start \/ Tick
  BY <1>6, <1>8 DEF Start, Tick, TickBreaksOff, TickGoesOn, Scheduled, db, PolicyInv
<1>9. CASE Stop \/ Crash
  BY <1>6, <1>9 DEF Stop, Crash, NoTask, db
<1>10. ASSUME UNCHANGED <<policies, api, task>> PROVE PolicyInv'
  BY <1>10 DEF PolicyInv
<1>11. ASSUME NEW e \in Events, AddEvent(e) PROVE PolicyInv'
  BY <1>10, <1>11 DEF AddEvent, engine
<1>12. ASSUME NEW s \in Symbols, AddMarketSnapshot(s) PROVE PolicyInv'
  BY <1>10, <1>12 DEF AddMarketSnapshot, engine
<1>13. CASE StartFails \/ Rebuild
  BY <1>10, <1>13 DEF StartFails, Rebuild, db
<1>14. CASE UNCHANGED vars
  BY <1>10, <1>14 DEF vars, db, engine
<1> QED
  BY <1>1, <1>2, <1>3, <1>4, <1>5, <1>7, <1>8, <1>9, <1>11, <1>12, <1>13, <1>14
     DEF Next, TrainingNext, Promote

\* A policy in stage canary meets the thresholds it was promoted under (promote,
\* can_promote), although the training goes on writing metrics between the
\* three transactions of the promotion and after them.
THEOREM PromotionJustified == Spec => []PromotionStaysJustified
<1>1. PolicyInv => PromotionStaysJustified
  <2>1. PolicyInv => DOMAIN policies = 1..Len(policies)
    BY DEF PolicyInv
  <2> QED
    BY <2>1 DEF PolicyInv, PromotionStaysJustified
<1> QED
  BY <1>1, PolicyInit, PolicyStep, PTL DEF Spec
-----------------------------------------------------------------------------
(* Progress.  While the engine is stopped nothing moves its state, and the   *)
(* start restores nothing older: the latest snapshot was saved by that stop, *)
(* or the process ended and the state is new.  Only a stop that could not    *)
(* save leaves an older snapshot to the start, until one restores it.       *)

ProgressInv ==
  /\ crashes \in Nat /\ running \in BOOLEAN
  /\ ~running => task = NoTask
  /\ ~running /\ ~unsaved /\ snapshot # None =>
       /\ state.watermark <= snapshot.watermark
       /\ state.active # 0 => snapshot.active # 0

\* A set of naturals that is not empty has a least element.
LEMMA LeastNatural ==
  ASSUME NEW T, T \subseteq Nat, T # {}
  PROVE  \E x \in T : \A y \in T : x <= y
<1> DEFINE R == {p \in Nat \X Nat : p[1] < p[2]}
<1>1. IsWellFoundedOn(R, Nat)
  BY NatLessThanWellFounded, Zenon DEF OpToRel
<1>2. \A x, y \in Nat : y < x => <<y, x>> \in R
  OBVIOUS
<1> HIDE DEF R
<1>3. PICK x \in T : \A y \in T : <<y, x>> \notin R
  BY <1>1, WFMin
<1>4. ASSUME NEW y \in T PROVE x <= y
  <2>1. x \in Nat /\ y \in Nat
    BY <1>3
  <2>2. ~(y < x)
    BY <1>2, <1>3, <2>1, Zenon
  <2> QED
    BY <2>1, <2>2
<1> QED
  BY <1>4

\* A bounded set of naturals has a greatest element: the one that is the least
\* below the bound.
LEMMA MaxOfInterval ==
  ASSUME NEW n \in Nat, NEW T \in SUBSET (1..n), T # {}
  PROVE  Max(T) \in T /\ \A k \in T : k <= Max(T)
<1> DEFINE D == {n - k : k \in T}
<1>1. \A k \in T : k \in 1..n /\ n - k \in D /\ k \in Nat /\ n - k \in Nat
  OBVIOUS
<1>2. D \subseteq Nat /\ D # {}
  BY <1>1
<1>3. PICK x \in D : \A y \in D : x <= y
  BY <1>2, LeastNatural
<1>4. PICK k \in T : x = n - k
  BY <1>3
<1>5. ASSUME NEW i \in T PROVE k >= i
  <2>1. x <= n - i
    BY <1>1, <1>3
  <2> QED
    BY <1>1, <1>4, <2>1
<1> QED
  BY <1>1, <1>5 DEF Max

\* A policy that is adopted is one of the table, or the one active before.
LEMMA LatestShadowIsOne ==
  ASSUME policies \in Seq(Policy)
  PROVE  LatestShadow = state.active \/ LatestShadow \in 1..Len(policies)
<1> DEFINE shadows == {v \in DOMAIN policies : policies[v].stage = "shadow"}
<1>1. shadows \in SUBSET (1..Len(policies)) /\ Len(policies) \in Nat
  OBVIOUS
<1>2. LatestShadow = IF shadows = {} THEN state.active ELSE Max(shadows)
  BY DEF LatestShadow
<1> HIDE DEF shadows
<1>3. shadows # {} => Max(shadows) \in shadows
  BY <1>1, MaxOfInterval
<1> QED
  BY <1>1, <1>2, <1>3

LEMMA ProgressInit == Init => ProgressInv
<1>1. Init => running = FALSE /\ task = NoTask /\ snapshot = None /\ crashes = 0
  BY DEF Init
<1>2. Init => running \in BOOLEAN
  BY <1>1, Zenon
<1> QED
  BY <1>1, <1>2 DEF ProgressInv

LEMMA ProgressStep == LogInv /\ ProgressInv /\ [Next]_vars => ProgressInv'
<1> SUFFICES ASSUME LogInv, ProgressInv, [Next]_vars PROVE ProgressInv'
  OBVIOUS
<1>1. CASE Start
  BY <1>1 DEF Start, ProgressInv
<1>2. CASE Stop
  <2>1. /\ crashes' = crashes /\ ~running' /\ running' \in BOOLEAN /\ task' = NoTask
        /\ state' = state /\ (snapshot' = state \/ unsaved')
    BY <1>2 DEF Stop
  <2>2. state.watermark \in Nat
    BY DEF LogInv, SeenUpTo
  <2> QED
    BY <2>1, <2>2 DEF ProgressInv
<1>3. CASE Crash
  <2>1. /\ crashes' = crashes + 1 /\ ~running' /\ running' \in BOOLEAN /\ task' = NoTask
        /\ UNCHANGED snapshot /\ state'.watermark = 0 /\ state'.active = 0
    BY <1>3 DEF Crash, NewState
  <2>2. snapshot # None => snapshot.watermark \in Nat
    BY DEF LogInv, SeenUpTo
  <2> QED
    BY <2>1, <2>2 DEF ProgressInv
<1>4. CASE Tick \/ StartFails \/ Rebuild
  BY <1>4 DEF Tick, StartFails, Rebuild, history, ProgressInv
<1>5. CASE CreatePolicy \/ PersistMetrics \/ Adopt
  <2>1. task.symbol \in Symbols /\ UNCHANGED <<running, crashes>>
    BY <1>5 DEF CreatePolicy, PersistMetrics, Adopt, Training, OtherThanTraining, history
  <2>2. task # NoTask
    BY <2>1 DEF NoTask, Symbols
  <2> QED
    BY <2>1, <2>2 DEF ProgressInv
<1>6. CASE TrainingEnds
  BY <1>6 DEF TrainingEnds, OtherThanTraining, history, ProgressInv
<1>7. ASSUME UNCHANGED <<crashes, unsaved, running, task, state, snapshot>> PROVE ProgressInv'
  BY <1>7 DEF ProgressInv
<1>8. ASSUME NEW e \in Events, AddEvent(e) PROVE ProgressInv'
  BY <1>7, <1>8 DEF AddEvent, engine, history
<1>9. ASSUME NEW s \in Symbols, AddMarketSnapshot(s) PROVE ProgressInv'
  BY <1>7, <1>9 DEF AddMarketSnapshot, engine, history
<1>10. CASE Promote
  BY <1>7, <1>10 DEF Promote, PromoteLatest, PromoteCheck, PromoteUpdate, engine, history
<1>11. CASE UNCHANGED vars
  BY <1>7, <1>11 DEF vars, engine, history
<1> QED
  BY <1>1, <1>2, <1>3, <1>4, <1>5, <1>6, <1>8, <1>9, <1>10, <1>11 DEF Next, TrainingNext

Progress ==
  /\ state'.watermark >= state.watermark
  /\ state.active # 0 => state'.active # 0

LEMMA ProgressOfStep ==
  ASSUME LogInv, PolicyInv, ProgressInv, [Next]_vars, crashes' = crashes, ~unsaved
  PROVE  Progress
<1>1. IsState(state) /\ state.watermark \in Nat
  BY DEF LogInv, SeenUpTo
<1>2. CASE Start
  <2>1. ~running /\ state' = Restored
    BY <1>2 DEF Start
  <2>2. CASE snapshot = None
    BY <1>1, <2>1, <2>2 DEF Restored, Progress
  <2>3. CASE snapshot # None
    <3>1. snapshot.watermark \in Nat
      BY <2>3 DEF LogInv, SeenUpTo
    <3> QED
      BY <1>1, <2>1, <2>3, <3>1 DEF Restored, Progress, ProgressInv
  <2> QED
    BY <2>2, <2>3
<1>3. CASE Tick
  <2>1. CASE UNCHANGED state
    BY <1>1, <2>1 DEF Progress
  <2>2. CASE state' = [state EXCEPT !.watermark = Watermark]
    <3>1. Watermark >= state.watermark
      BY <1>1, WatermarkOfBatch DEF LogInv
    <3>2. state'.watermark = Watermark /\ state'.active = state.active
      BY <1>1, <2>2 DEF IsState
    <3> QED
      BY <3>1, <3>2 DEF Progress
  <2> QED
    BY <1>3, <2>1, <2>2 DEF Tick, TickBreaksOff, TickGoesOn
<1>4. CASE Adopt
  <2>1. state' = [state EXCEPT !.active = LatestShadow]
    BY <1>4 DEF Adopt
  <2>2. state'.watermark = state.watermark /\ state'.active = LatestShadow
    BY <1>1, <2>1 DEF IsState
  <2>3. LatestShadow = state.active \/ LatestShadow \in 1..Len(policies)
    BY LatestShadowIsOne DEF PolicyInv
  <2>4. Len(policies) \in Nat
    BY DEF PolicyInv
  <2>5. state.active # 0 => LatestShadow # 0
    BY <2>3, <2>4
  <2> QED
    BY <1>1, <2>2, <2>5 DEF Progress
<1>5. ~Crash
  BY DEF Crash, ProgressInv
<1>6. ASSUME UNCHANGED state PROVE Progress
  BY <1>1, <1>6 DEF Progress
<1>7. CASE Stop \/ StartFails \/ Rebuild \/ CreatePolicy \/ PersistMetrics \/ TrainingEnds
  BY <1>6, <1>7 DEF Stop, StartFails, Rebuild, CreatePolicy, PersistMetrics, TrainingEnds
<1>8. ASSUME NEW e \in Events, AddEvent(e) PROVE Progress
  BY <1>6, <1>8 DEF AddEvent, engine
<1>9. ASSUME NEW s \in Symbols, AddMarketSnapshot(s) PROVE Progress
  BY <1>6, <1>9 DEF AddMarketSnapshot, engine
<1>10. CASE Promote
  BY <1>6, <1>10 DEF Promote, PromoteLatest, PromoteCheck, PromoteUpdate, engine
<1>11. CASE UNCHANGED vars
  BY <1>6, <1>11 DEF vars, engine
<1> QED
  BY <1>2, <1>3, <1>4, <1>5, <1>7, <1>8, <1>9, <1>10, <1>11 DEF Next, TrainingNext

\* Only the end of the process, and a stop that could not save its snapshot,
\* take the engine back (stop, start, save_snapshot, load_snapshot, on_tick):
\* whichever point of a training a stop cuts, and whatever the database refuses
\* of the rest, the watermark moves forward only and an active policy is
\* replaced by one.
THEOREM ProgressKept == Spec => ProgressIsKept
<1>1. LogInv /\ PolicyInv /\ ProgressInv /\ [Next]_vars
        => [crashes' = crashes /\ ~unsaved =>
              /\ state'.watermark >= state.watermark
              /\ state.active # 0 => state'.active # 0]_vars
  BY ProgressOfStep DEF Progress
<1> QED
  BY <1>1, LogInit, LogStep, PolicyInit, PolicyStep, ProgressInit, ProgressStep, PTL
     DEF Spec, ProgressIsKept
=============================================================================
