---------------------------- MODULE TradingAgent ----------------------------
(***************************************************************************)
(* CryptoTradingAgent of agents/crypto_agent.py in paper mode, one object    *)
(* started, ticked and stopped by the supervisor, with what it is built of: *)
(* Portfolio, the risk caps, the trailing stop, the cooldowns, the mode     *)
(* (shadow, canary, live), the circuit breaker, the snapshots and the table *)
(* of trades.  GoldTradingAgent is the same class with other defaults.      *)
(*                                                                          *)
(* Prices and quantities are natural numbers; a tick is a step per symbol,  *)
(* with a step of its own for the order, because Supervisor.stop cancels a  *)
(* tick at any of its awaits.  What the market and the strategy answer is   *)
(* left open.                                                               *)
(***************************************************************************)
EXTENDS Integers, Sequences, Folds, FiniteSetsExt

CONSTANTS
  N,             \* number of allowed_pairs
  Prices,        \* prices the market may show
  StartingCash, SafetyPct, FeePct, CanaryPct, TrailPct, DrawdownPct,
  MaxNotional, MaxTotal, PerSymbol,   \* RiskCaps
  MaxFailures,   \* CircuitBreakerConfig.max_failures
  MaxErrors,     \* ShadowStats.max_errors
  SnapshotEvery, \* ticks between two snapshots
  Mode,          \* "shadow", "canary" or "live"
  Keys,          \* failures that occur, out of FailureKeys
  MaxTrades,     \* bound: rows of the table of trades
  MaxCrashes     \* bound: ends of the process

FailureKeys == {"market", "qc", "strategy", "risk", "execution"}

ASSUME CountsAssumption == N \in Nat \ {0} /\ SnapshotEvery \in Nat \ {0}
ASSUME MoneyAssumption ==
  /\ Prices \subseteq Nat \ {0}
  /\ {StartingCash, FeePct, CanaryPct, MaxNotional, MaxTotal} \subseteq Nat
ASSUME KeysAssumption == Keys \subseteq FailureKeys

Symbols == 1..N
None == <<>>

VARIABLES
  running, killed, \* the agent's running and kill_switch_triggered
  book,            \* Portfolio: cash and a quantity for each symbol
  prices,          \* price_cache; 0 is an absent key
  highs,           \* TrailingStopTracker.highs; 0 is an absent key
  cooling,         \* <<symbol, side>> whose duplicate cooldown runs
  breaker,         \* CircuitBreaker: failures in the window by key, tripped
  canary,          \* ModeState, read in canary mode: errors in the window, drawdown
                   \* limit passed
  session,         \* session start and high equity, tick_counter
  tick,            \* on_tick: symbol in work, exposures read, order in flight
  snapshot,        \* the latest snapshot row
  trades,          \* the table of trades
  counted,         \* history: the trades the book includes
  crashes          \* times the process ended

memory == <<running, killed, book, prices, highs, cooling, breaker, canary, session, tick>>
disk == <<snapshot, trades, counted, crashes>>
vars == <<memory, disk>>

NoOrder == [side |-> "none", qty |-> 0, price |-> 0]
Idle == [at |-> 0, exposure |-> [s \in Symbols |-> 0], bought |-> 0, order |-> NoOrder]
NewBook == [cash |-> StartingCash, qty |-> [s \in Symbols |-> 0]]
ClearBreaker == [events |-> [k \in FailureKeys |-> 0], tripped |-> FALSE]

\* f[1] + ... + f[n]
SumTo(f, n) ==
  LET upTo[k \in 0..n] == IF k = 0 THEN 0 ELSE upTo[k - 1] + f[k]
  IN upTo[n]

Total(f) == SumTo(f, N)

\* _exposures_from_cache: a symbol without a cached price counts for nothing.
Exposures == [s \in Symbols |-> prices[s] * book.qty[s]]

\* _compute_equity: cash alone while no held symbol has a price, which is also
\* what the sum comes to.
Equity == book.cash + Total(Exposures)

Init ==
  /\ running = FALSE /\ killed = FALSE
  /\ book = NewBook
  /\ prices = [s \in Symbols |-> 0]
  /\ highs = [s \in Symbols |-> 0]
  /\ cooling = {}
  /\ breaker = ClearBreaker
  /\ canary = [errors |-> 0, down |-> FALSE]
  /\ session = [start |-> 0, high |-> 0, ticks |-> 0]
  /\ tick = Idle
  /\ snapshot = None /\ trades = <<>> /\ counted = {} /\ crashes = 0
-----------------------------------------------------------------------------
(* Starting and stopping.                                                    *)

\* Mutant of Restored: the agent always starts from its starting cash.
RestoredIsNew == [book |-> NewBook, prices |-> prices, counted |-> {}]

\* Mutant of Restored: without a snapshot the book of the last run is kept.
RestoredKeepsBook ==
  IF snapshot = None THEN [book |-> book, prices |-> prices, counted |-> {}] ELSE snapshot

\* _restore_snapshot lays the latest snapshot over a new Portfolio.
Restored ==
  IF snapshot = None THEN [book |-> NewBook, prices |-> prices, counted |-> {}] ELSE snapshot

\* start: the kill switch and the session begin anew; the breaker, the mode, the
\* cooldowns and the highs of the object stay.
Start ==
  /\ ~running
  /\ running' = TRUE /\ killed' = FALSE
  /\ book' = Restored.book /\ prices' = Restored.prices /\ counted' = Restored.counted
  /\ session' = [session EXCEPT !.start = Equity', !.high = Equity']
  /\ UNCHANGED <<highs, cooling, breaker, canary, tick, snapshot, trades, crashes>>

\* stop, after the supervisor has cancelled the tick at one of its awaits; the
\* supervisor's loop does the same when an audit row cannot be written.
Stop ==
  /\ running
  /\ running' = FALSE /\ tick' = Idle
  /\ UNCHANGED <<killed, book, prices, highs, cooling, breaker, canary, session, disk>>

\* The process ends: the object is gone, the database stays.
Crash ==
  /\ crashes < MaxCrashes
  /\ crashes' = crashes + 1
  /\ running' = FALSE /\ killed' = FALSE
  /\ book' = NewBook /\ counted' = {}
  /\ prices' = [s \in Symbols |-> 0] /\ highs' = [s \in Symbols |-> 0]
  /\ cooling' = {} /\ breaker' = ClearBreaker
  /\ canary' = [errors |-> 0, down |-> FALSE]
  /\ session' = [start |-> 0, high |-> 0, ticks |-> 0]
  /\ tick' = Idle
  /\ UNCHANGED <<snapshot, trades>>
-----------------------------------------------------------------------------
(* A tick.                                                                   *)

Tripped == [ClearBreaker EXCEPT !.tripped = TRUE]

\* CircuitBreaker.record: entries of the same key that left the window go, the
\* other keys keep theirs.  Once it has tripped nothing reads the entries.
Record(key) ==
  \E n \in 1..breaker.events[key] + 1 :
    LET events == [breaker.events EXCEPT ![key] = n]
        failures == MapThenSumSet(LAMBDA k : events[k], FailureKeys)
    IN breaker' = IF breaker.tripped \/ failures >= MaxFailures THEN Tripped
                  ELSE [breaker EXCEPT !.events = events]

\* ModeState.should_halt.
Halted == Mode = "canary" /\ (canary.errors >= MaxErrors \/ canary.down)

\* Mutant of MayTick: the breaker is not looked at.
MayTickIfNotKilled == running /\ tick.at = 0 /\ ~killed /\ ~Halted

\* The gates of on_tick.
MayTick == running /\ tick.at = 0 /\ ~killed /\ ~breaker.tripped /\ ~Halted

\* on_tick up to its loop; a tick outside the session does not begin either.  A
\* cooldown is looked at once a tick, so those that ran out go at its start.
Tick ==
  /\ MayTick
  /\ tick' = [Idle EXCEPT !.at = 1, !.exposure = Exposures]
  /\ cooling' \in SUBSET cooling
  /\ UNCHANGED <<running, killed, book, prices, highs, breaker, canary, session, disk>>

Working(s) == running /\ tick.at = s /\ tick.order = NoOrder
NextSymbol == tick' = [tick EXCEPT !.at = @ + 1, !.order = NoOrder]

\* The symbol is skipped.
Skips(s, key) ==
  /\ key \in Keys /\ Working(s)
  /\ Record(key)
  /\ NextSymbol
  /\ UNCHANGED <<running, killed, book, highs, cooling, canary, session, disk>>

\* The bars or the quote could not be fetched in three attempts.
FetchFails(s) == Skips(s, "market") /\ UNCHANGED prices

\* validate_ohlcv or validate_ticker refuses the bars or the quote.
DataRefused(s) == Skips(s, "qc") /\ UNCHANGED prices

\* The strategy raises, after the price was cached.
StrategyFails(s, p) == Skips(s, "strategy") /\ prices' = [prices EXCEPT ![s] = p]

\* _position_qty
Held(s) == book.qty[s]

\* TrailingStopTracker.update: the first price of a position is taken as the
\* high and not stored.
High(s, p) == IF highs[s] = 0 THEN p ELSE highs[s]
Triggered(s, p) ==
  /\ Held(s) > 0 /\ TrailPct > 0
  /\ p <= High(s, p) /\ p * 100 <= High(s, p) * (100 - TrailPct)
NewHigh(s, p) ==
  CASE Held(s) = 0 \/ TrailPct <= 0 -> 0
    [] p > High(s, p) \/ Triggered(s, p) -> p
    [] OTHER -> highs[s]

\* What a strategy may answer.
Signals == {"buy", "sell", "hold"}

\* What the quote and the signal lead to: a triggered stop sells, a buy needs
\* an empty position and a sell one that is not.
Side(s, p, signal) ==
  CASE Triggered(s, p) -> "sell"
    [] signal = "buy" /\ Held(s) = 0 -> "buy"
    [] signal = "sell" /\ Held(s) > 0 -> "sell"
    [] OTHER -> "none"

\* What a buy may spend, and any cap up to it that risk_parity_targets and
\* dynamic_notional_cap come to.
Budget == Min({(book.cash * SafetyPct) \div 100, MaxNotional})
Caps == 0..Budget

\* The quantities of _handle_buy and _handle_sell, which takes the whole position.
Quantities(s, side, p) ==
  IF side = "sell" THEN {Held(s)} ELSE {cap \div p : cap \in Caps}

\* Mutant of PreTrade: the total exposure is not looked at.
PreTradeBySymbol(s, notional) ==
  notional <= MaxNotional /\ tick.exposure[s] + notional <= PerSymbol

\* check_pre_trade, with the exposures read at the start of the tick.
PreTrade(s, notional) ==
  /\ notional <= MaxNotional
  /\ Total(tick.exposure) + notional <= MaxTotal
  /\ tick.exposure[s] + notional <= PerSymbol

Observe(s, p) ==
  /\ prices' = [prices EXCEPT ![s] = p]
  /\ highs' = [highs EXCEPT ![s] = NewHigh(s, p)]

\* ModeState.split: the live part of a quantity.
Live(qty) ==
  CASE Mode = "shadow" -> 0
    [] Mode = "canary" -> (qty * CanaryPct) \div 100
    [] OTHER -> qty

\* CooldownState.too_soon, and what it notes.
TooSoon(s, side) == <<s, side>> \in cooling

\* The decision on one symbol.  The cooldown of the side is taken before the
\* order is sized and checked.  A refused order is recorded with the breaker;
\* the live part of an accepted one goes to the executor.
Decide(s, p, signal) ==
  LET side == Side(s, p, signal) IN
  /\ Working(s)
  /\ Observe(s, p)
  /\ \/ /\ side = "none" \/ TooSoon(s, side)
        /\ NextSymbol
        /\ UNCHANGED <<cooling, breaker>>
     \/ /\ side # "none" /\ ~TooSoon(s, side)
        /\ cooling' = cooling \cup {<<s, side>>}
        /\ \E qty \in Quantities(s, side, p) :
             IF qty > 0 /\ ~PreTrade(s, qty * p)
             THEN Record("risk") /\ NextSymbol
             ELSE /\ IF Live(qty) = 0
                       THEN NextSymbol
                       ELSE tick' = [tick EXCEPT
                              !.order = [side |-> side, qty |-> Live(qty), price |-> p],
                              !.bought = IF side = "buy" THEN @ + qty * p ELSE @]
                  /\ UNCHANGED breaker
  /\ UNCHANGED <<running, killed, book, canary, session, disk>>

\* The fee of a paper order, and what it costs with it.
Fee(qty, p) == (qty * p * FeePct) \div 100
Cost(qty, p) == qty * p + Fee(qty, p)

\* Portfolio.buy and Portfolio.sell.
Booked(s, side, qty, p) ==
  IF side = "buy"
  THEN [book EXCEPT !.cash = @ - Cost(qty, p), !.qty[s] = @ + qty]
  ELSE [book EXCEPT !.cash = @ + qty * p - Fee(qty, p), !.qty[s] = @ - qty]

Affordable(side, qty, p) == side = "buy" => Cost(qty, p) <= book.cash

Row(s, side, qty, p) == [symbol |-> s, side |-> side, qty |-> qty, price |-> p]

\* The fill of the order in flight, at a price fetched for it, goes into the
\* book and then into the table of trades.  The slices of a TWAP, at prices of
\* their own and a row each, are taken for one fill.
Fill(s, p) ==
  LET o == tick.order IN
  /\ running /\ tick.at = s /\ o # NoOrder /\ Len(trades) < MaxTrades
  /\ Affordable(o.side, o.qty, p)
  /\ breaker' = ClearBreaker
  /\ book' = Booked(s, o.side, o.qty, p)
  /\ trades' = Append(trades, Row(s, o.side, o.qty, p))
  /\ counted' = counted \cup {Len(trades')}
  /\ NextSymbol
  /\ UNCHANGED <<running, killed, prices, highs, cooling, canary, session, snapshot, crashes>>

\* The booking raises out of the tick, and the supervisor's loop clears
\* running: the cash does not cover the order, or its row cannot be written
\* when the book has it.
FillRaises(s, p) ==
  LET o == tick.order IN
  /\ running /\ tick.at = s /\ o # NoOrder
  /\ breaker' = ClearBreaker
  /\ book' = IF Affordable(o.side, o.qty, p) THEN Booked(s, o.side, o.qty, p) ELSE book
  /\ running' = FALSE /\ tick' = Idle
  /\ UNCHANGED <<killed, prices, highs, cooling, canary, session, disk>>

\* The executor raises: nothing is booked, the breaker and the canary note it
\* (errors beyond MaxErrors are not counted).
OrderFails(s) ==
  /\ running /\ tick.at = s /\ tick.order # NoOrder
  /\ IF Mode = "canary"
       THEN \E n \in 1..Min({canary.errors + 1, MaxErrors}) : canary' = [canary EXCEPT !.errors = n]
       ELSE UNCHANGED canary
  /\ Record("execution")
  /\ NextSymbol
  /\ UNCHANGED <<running, killed, book, prices, highs, cooling, session, disk>>

\* _persist_snapshot, and the row write_snapshot commits.
Saved == [book |-> book, prices |-> prices, counted |-> counted]
WriteSnapshot == snapshot' = Saved

\* The drawdown from the session's high reached its limit.
DrawnDown(high) == Equity * 100 < high * (100 - DrawdownPct)

\* The end of a tick: the drawdown from the session's high may throw the kill
\* switch, and every SnapshotEvery ticks the book is saved; a snapshot that
\* cannot be written raises out of the tick.
EndTick ==
  /\ running /\ tick.at = N + 1
  /\ session' = [session EXCEPT !.high = Max({@, Equity}), !.ticks = (@ + 1) % SnapshotEvery]
  /\ canary' = [canary EXCEPT !.down =
                  @ \/ (Mode = "canary" /\ session.start > 0 /\ (session.start - Equity) * 10 >= session.start)]
  /\ killed' = DrawnDown(session'.high)
  /\ tick' = Idle
  /\ IF session'.ticks = 0
       THEN \/ /\ WriteSnapshot
               /\ running' = ~killed'
            \/ UNCHANGED snapshot /\ running' = FALSE
       ELSE UNCHANGED snapshot /\ running' = ~killed'
  /\ UNCHANGED <<book, prices, highs, cooling, breaker, trades, counted, crashes>>

Next ==
  \/ Start \/ Stop \/ Crash \/ Tick \/ EndTick
  \/ \E s \in Symbols :
       \/ FetchFails(s) \/ DataRefused(s)
       \/ \E p \in Prices : StrategyFails(s, p) \/ Fill(s, p) \/ FillRaises(s, p)
       \/ \E p \in Prices, signal \in Signals : Decide(s, p, signal)
       \/ "execution" \in Keys /\ OrderFails(s)

Spec == Init /\ [][Next]_vars
-----------------------------------------------------------------------------
(* Properties.                                                               *)

\* What one row of the table of trades does to the cash and to the quantity of
\* a symbol.
CashOf(t) ==
  IF t.side = "buy" THEN 0 - Cost(t.qty, t.price)
  ELSE t.qty * t.price - Fee(t.qty, t.price)
QtyOf(t, s) == IF t.symbol # s THEN 0 ELSE IF t.side = "buy" THEN t.qty ELSE 0 - t.qty

\* What the counted rows of a table make of the starting cash and of no position.
CashAfter(table, rows) ==
  StartingCash
    + SumTo([i \in 1..Len(table) |-> IF i \in rows THEN CashOf(table[i]) ELSE 0], Len(table))
QtyAfter(table, rows, s) ==
  SumTo([i \in 1..Len(table) |-> IF i \in rows THEN QtyOf(table[i], s) ELSE 0], Len(table))

Explains(table, rows, b) ==
  /\ b.cash = CashAfter(table, rows)
  /\ \A s \in Symbols : b.qty[s] = QtyAfter(table, rows, s)

\* Whenever the agent runs, the book is what the counted rows of the table of
\* trades make of the starting cash: an order that is cancelled, fails or
\* raises, a stop in the middle of a tick, a crash and a restart from an older
\* snapshot leave no money or position behind that no row explains.
BookIsReplayOfTrades == running => Explains(trades, counted, book)

\* A trade that a snapshot includes is in every later snapshot.
SavedTradesStay ==
  [][snapshot # None => snapshot.counted \subseteq snapshot'.counted]_vars

\* The exposures are read once a tick: what the buys of one tick add may pass
\* max_total_exposure_usdt, by one trade for each symbol but the first.
TickExposureBound ==
  tick.bought > 0 =>
    Total(tick.exposure) + tick.bought <= MaxTotal + (N - 1) * MaxNotional

\* A breaker that a tick leaves tripped stays tripped, through every stop and
\* start, and no order follows, until the process ends: what closes it is an
\* order of the same tick only.
TrippedStaysTripped ==
  [][breaker.tripped /\ tick.at = 0 /\ crashes' = crashes
       => breaker'.tripped /\ tick'.at = 0]_vars
=============================================================================
