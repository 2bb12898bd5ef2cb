---------------------------- MODULE OrderRouting ----------------------------
(***************************************************************************)
(* The way of one live order of CryptoTradingAgent._execute_order:          *)
(* oms/algos.execute_twap cuts it into slices, ExchangeRouter.execute tries *)
(* the venues for each slice, Executor.execute asks a venue up to three     *)
(* times (ai/utils/retry.with_retry), and the agent books what came back.   *)
(*                                                                          *)
(* No client id reaches the venue (adapter.create_order takes symbol, side, *)
(* type and quantity), so an order whose answer is lost is placed again.    *)
(* The health counters of VenueState are never read and are left out.       *)
(***************************************************************************)
EXTENDS Naturals, Sequences, FiniteSets, SequencesExt

CONSTANTS
  Venues,    \* the names of router_exchanges, in their order
  Implemented,  \* the venues with an adapter of their own (only "binance")
  Slices,    \* TWAP slices; 1 for an order that is not cut
  Attempts,  \* with_retry's attempts
  Capacity,  \* rate_limit_per_min: tokens a venue can hold
  Faults     \* what may go wrong, out of FaultKinds

FaultKinds == {"refused", "lost_reply", "cancel"}

ASSUME VenuesAssumption == IsInjective(Venues) /\ Implemented \subseteq Range(Venues)
ASSUME SizesAssumption ==
  Slices \in Nat \ {0} /\ Attempts \in Nat \ {0} /\ Capacity \in Nat
ASSUME FaultsAssumption == Faults \subseteq FaultKinds

VARIABLES
  step,    \* what the order waits for
  slice,   \* the slice under way
  plan,    \* venues left to try for it
  tries,   \* requests made to the first of them
  tokens,  \* VenueState.tokens
  fills,   \* history: fills of each slice at any venue
  lost,    \* history: fills of each slice whose answer never arrived
  booked   \* fills the agent has booked

vars == <<step, slice, plan, tries, tokens, fills, lost, booked>>

Names == Range(Venues)
Waiting == {"quote", "venue", "order", "pause"}
Ended == {"booked", "failed", "cancelled"}

TypeOK ==
  /\ step \in Waiting \cup Ended
  /\ slice \in 1..Slices
  /\ plan \in Seq(Names)
  /\ Len(plan) <= Len(Venues)
  /\ tries \in 0..(Attempts - 1)
  /\ tokens \in [Names -> 0..Capacity]
  /\ fills \in [1..Slices -> Nat]
  /\ lost \in [1..Slices -> Nat]
  /\ booked \in 0..Slices

Init ==
  /\ step = "quote"
  /\ slice = 1
  /\ plan = <<>>
  /\ tries = 0
  /\ tokens \in [Names -> 0..Capacity]
  /\ fills = [s \in 1..Slices |-> 0]
  /\ lost = [s \in 1..Slices |-> 0]
  /\ booked = 0
-----------------------------------------------------------------------------
(* The adapters.  An exchange without one of its own is served by Binance's  *)
(* test network: it quotes prices like any other.                           *)

\* _build_adapter for a live router.
Adapter(v) == IF v \in Implemented THEN "live" ELSE "paper"

\* BinanceAdapter.init gives a paper client no keys, so every create_order of it
\* is refused.
Accepts(v) == Adapter(v) = "live"
-----------------------------------------------------------------------------
(* VenueState.acquire.                                                      *)

CanAcquire(v) == tokens[v] > 0

\* Time refills the buckets.
Refill(v) ==
  /\ tokens[v] < Capacity
  /\ tokens' = [tokens EXCEPT ![v] = @ + 1]
  /\ UNCHANGED <<step, slice, plan, tries, fills, lost, booked>>
-----------------------------------------------------------------------------
(* ExchangeRouter.execute.                                                  *)

\* best_quote takes a token of every venue that has one and asks for a price;
\* the best of those that answer goes first, and when none does the order of
\* the configuration stands.
Quote ==
  /\ step = "quote"
  /\ tokens' = [v \in Names |-> IF CanAcquire(v) THEN tokens[v] - 1 ELSE tokens[v]]
  /\ \/ \E best \in {v \in Names : CanAcquire(v)} :
          plan' = <<best>> \o SelectSeq(Venues, LAMBDA v : v # best)
     \/ plan' = Venues
  /\ step' = "venue"
  /\ UNCHANGED <<slice, tries, fills, lost, booked>>

\* Mutant of TakeVenue: a venue without a token is waited for, not skipped.
TakeVenueOrWait ==
  /\ step = "venue"
  /\ plan # <<>>
  /\ CanAcquire(Head(plan))
  /\ tokens' = [tokens EXCEPT ![Head(plan)] = @ - 1]
  /\ step' = "order"
  /\ UNCHANGED <<slice, plan, tries, fills, lost, booked>>

\* The next venue is asked when it has a token.
TakeVenue ==
  /\ step = "venue"
  /\ plan # <<>>
  /\ IF CanAcquire(Head(plan))
     THEN /\ tokens' = [tokens EXCEPT ![Head(plan)] = @ - 1]
          /\ step' = "order"
          /\ UNCHANGED plan
     ELSE /\ plan' = Tail(plan)
          /\ UNCHANGED <<tokens, step>>
  /\ UNCHANGED <<slice, tries, fills, lost, booked>>

\* "All venues failed to execute order": the error ends the TWAP too, and the
\* responses of its earlier slices with it.
AllFailed ==
  /\ step = "venue"
  /\ plan = <<>>
  /\ step' = "failed"
  /\ UNCHANGED <<slice, plan, tries, tokens, fills, lost, booked>>
-----------------------------------------------------------------------------
(* Executor.execute and with_retry.                                         *)

\* An exception: the venue is asked again, or given up after the last try.
Again ==
  IF tries + 1 < Attempts
  THEN tries' = tries + 1 /\ UNCHANGED <<step, plan>>
  ELSE tries' = 0 /\ step' = "venue" /\ plan' = Tail(plan)

\* Mutant of Answered: the TWAP ends one slice early.
AnsweredEarly ==
  /\ tries' = 0
  /\ UNCHANGED plan
  /\ IF slice + 1 < Slices
     THEN step' = "pause" /\ UNCHANGED booked
     ELSE step' = "booked" /\ booked' = Slices

\* A response: the TWAP pauses before its next slice, or the responses of all
\* slices are booked (a booking that raises is a step of TradingAgent).
Answered ==
  /\ tries' = 0
  /\ UNCHANGED plan
  /\ IF slice < Slices
     THEN step' = "pause" /\ UNCHANGED booked
     ELSE step' = "booked" /\ booked' = Slices

Count(history) == [history EXCEPT ![slice] = @ + 1]

\* The adapter's create_order, in a thread no cancellation stops: the venue fills
\* the order, whoever still waits for the answer.
VenueFills == fills' = Count(fills)

\* Mutant of Filled: the venue is asked again although it answered.
FilledAskedAgain ==
  /\ step = "order"
  /\ Accepts(Head(plan))
  /\ VenueFills
  /\ \/ Answered
     \/ Again /\ UNCHANGED booked
  /\ UNCHANGED <<slice, tokens, lost>>

\* create_order is filled; its answer may be lost.
Filled ==
  /\ step = "order"
  /\ Accepts(Head(plan))
  /\ VenueFills
  /\ \/ Answered /\ UNCHANGED lost
     \/ "lost_reply" \in Faults /\ Again /\ lost' = Count(lost) /\ UNCHANGED booked
  /\ UNCHANGED <<slice, tokens>>

\* create_order raises: it always does on the test network.
Refused ==
  /\ step = "order"
  /\ "refused" \in Faults \/ ~Accepts(Head(plan))
  /\ Again
  /\ UNCHANGED <<slice, tokens, fills, lost, booked>>

\* execute_twap sleeps, then sends the next slice.
NextSlice ==
  /\ step = "pause"
  /\ slice' = slice + 1
  /\ step' = "quote"
  /\ UNCHANGED <<plan, tries, tokens, fills, lost, booked>>

\* Supervisor.stop cancels the tick at whatever it awaits; the cancellation is
\* not an Exception, so nobody on the way catches it.  The order on its way may
\* be filled all the same.
Cancelled ==
  /\ "cancel" \in Faults
  /\ step \in {"quote", "order", "pause"}
  /\ step' = "cancelled"
  /\ \/ UNCHANGED <<fills, lost>>
     \/ /\ step = "order"
        /\ Accepts(Head(plan))
        /\ VenueFills
        /\ lost' = Count(lost)
  /\ UNCHANGED <<slice, plan, tries, tokens, booked>>

OrderNext ==
  Quote \/ TakeVenue \/ AllFailed \/ Filled \/ Refused \/ NextSlice

Next ==
  \/ OrderNext
  \/ Cancelled
  \/ \E v \in Names : Refill(v)

Spec == Init /\ [][Next]_vars

\* The event loop resumes the tick, and every request ends in an answer or an
\* error.
FairSpec == Spec /\ WF_vars(OrderNext)
-----------------------------------------------------------------------------
(* Properties.                                                              *)

\* The agent books only what was filled: each slice of a booked order has a
\* fill of its own, whatever was refused, lost or skipped before.
BookedWasFilled == step = "booked" => \A s \in 1..Slices : fills[s] > 0

\* Retries, skipped venues and failover fill a slice once, and again only after
\* a fill whose answer never arrived.
OneFillPerSlice == \A s \in 1..Slices : fills[s] <= 1 + lost[s]

\* A slice that failed at every venue left nothing at any of them, but for
\* fills whose answer never arrived.
FailedLeavesNothing == step = "failed" => fills[slice] = lost[slice]

\* An order ends, however often venues refuse it and quotas hold it up.
OrderEnds == <>(step \in Ended)
=============================================================================
