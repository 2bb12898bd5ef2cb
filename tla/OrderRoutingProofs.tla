------------------------- MODULE OrderRoutingProofs -------------------------
(* What an order may book, and how often it is filled, for every number of  *)
(* venues, slices and attempts.                                             *)
EXTENDS OrderRouting, TLAPS

USE SizesAssumption

\* The counters of a slice, without the plan of venues: no theorem here needs
\* to know which venues are left.
Counted ==
  /\ step \in Waiting \cup Ended
  /\ slice \in 1..Slices
  /\ fills \in [1..Slices -> Nat]
  /\ step = "pause" => slice < Slices

\* Slices behind the current one are filled, and the current one is while the
\* TWAP pauses after it.
PastFilled ==
  /\ \A s \in 1..Slices : s < slice => fills[s] > 0
  /\ step = "pause" => fills[slice] > 0

Inv == Counted /\ PastFilled /\ BookedWasFilled

LEMMA Inits == Init => Inv
  BY DEF Init, Inv, Counted, PastFilled, BookedWasFilled, Waiting

\* Every step keeps the slices behind the current one filled.
LEMMA Steps == Inv /\ [Next]_vars => Inv'
<1> SUFFICES ASSUME Inv, [Next]_vars PROVE Inv'
  OBVIOUS
<1> USE DEF Inv, Counted, PastFilled, BookedWasFilled, Waiting, Ended
<1>1. CASE Quote
  BY <1>1 DEF Quote
<1>2. CASE TakeVenue
  BY <1>2 DEF TakeVenue
<1>3. CASE AllFailed
  BY <1>3 DEF AllFailed
<1>4. CASE Filled
  <2>1. fills' \in [1..Slices -> Nat] /\ fills'[slice] > 0
    BY <1>4 DEF Filled, VenueFills, Count
  <2>2. \A s \in 1..Slices : fills[s] > 0 => fills'[s] > 0
    BY <1>4 DEF Filled, VenueFills, Count
  <2>3. CASE Answered
    BY <1>4, <2>1, <2>2, <2>3 DEF Filled, Answered
  <2>4. CASE Again /\ UNCHANGED booked
    BY <1>4, <2>1, <2>2, <2>4 DEF Filled, Again
  <2> QED
    BY <1>4, <2>3, <2>4 DEF Filled
<1>5. CASE Refused
  BY <1>5 DEF Refused, Again
<1>6. CASE NextSlice
  BY <1>6 DEF NextSlice
<1>7. CASE Cancelled
  BY <1>7 DEF Cancelled, VenueFills, Count
<1>8. CASE \E v \in Names : Refill(v)
  BY <1>8 DEF Refill
<1>9. CASE UNCHANGED vars
  BY <1>9 DEF vars
<1> QED
  BY <1>1, <1>2, <1>3, <1>4, <1>5, <1>6, <1>7, <1>8, <1>9 DEF Next, OrderNext

\* The inductive invariant behind OnlyFilledIsBooked holds in every execution.
THEOREM Invariance == Spec => []Inv
  BY Inits, Steps, PTL DEF Spec

\* The agent books an order only when each of its slices was filled at a venue
\* (execute_twap, ExchangeRouter.execute), whatever was refused, lost, skipped
\* or cancelled before.
THEOREM OnlyFilledIsBooked == Spec => []BookedWasFilled
  BY Invariance, PTL DEF Inv
-----------------------------------------------------------------------------
(* Fills and the answers that never arrived.                                *)

\* Slices ahead are untouched; the current one has only fills nobody was told
\* of, until it is answered.
Ahead ==
  /\ lost \in [1..Slices -> Nat]
  /\ \A s \in 1..Slices : s > slice => fills[s] = 0 /\ lost[s] = 0
  /\ step \in {"quote", "venue", "order", "failed"} => fills[slice] = lost[slice]

FirmInv == Counted /\ Ahead /\ OneFillPerSlice

LEMMA FirmInits == Init => FirmInv
  BY DEF Init, FirmInv, Counted, Ahead, OneFillPerSlice, Waiting

\* No step fills a slice that has an answered fill.
LEMMA FirmSteps == FirmInv /\ [Next]_vars => FirmInv'
<1> SUFFICES ASSUME FirmInv, [Next]_vars PROVE FirmInv'
  OBVIOUS
<1> USE DEF FirmInv, Counted, Ahead, OneFillPerSlice, Waiting, Ended
<1>1. CASE Quote
  BY <1>1 DEF Quote
<1>2. CASE TakeVenue
  BY <1>2 DEF TakeVenue
<1>3. CASE AllFailed
  BY <1>3 DEF AllFailed
<1>4. CASE Filled
  <2>1. fills[slice] = lost[slice] /\ fills' = [fills EXCEPT ![slice] = @ + 1]
    BY <1>4 DEF Filled, VenueFills, Count
  <2>2. CASE Answered /\ UNCHANGED lost
    BY <1>4, <2>1, <2>2 DEF Filled, Answered
  <2>3. CASE Again /\ lost' = Count(lost) /\ UNCHANGED booked
    <3>1. lost' = [lost EXCEPT ![slice] = @ + 1]
      BY <2>3 DEF Count
    <3>2. step' \in {"order", "venue"} /\ UNCHANGED slice
      BY <1>4, <2>3 DEF Filled, Again
    <3> QED
      BY <2>1, <3>1, <3>2
  <2> QED
    BY <1>4, <2>2, <2>3 DEF Filled
<1>5. CASE Refused
  BY <1>5 DEF Refused, Again
<1>6. CASE NextSlice
  BY <1>6 DEF NextSlice
<1>7. CASE Cancelled
  <2>1. step' = "cancelled" /\ UNCHANGED slice
    BY <1>7 DEF Cancelled
  <2>2. CASE UNCHANGED <<fills, lost>>
    BY <2>1, <2>2
  <2>3. CASE step = "order" /\ VenueFills /\ lost' = Count(lost)
    <3>1. fills' = [fills EXCEPT ![slice] = @ + 1] /\ lost' = [lost EXCEPT ![slice] = @ + 1]
      BY <2>3 DEF VenueFills, Count
    <3> QED
      BY <2>1, <2>3, <3>1
  <2> QED
    BY <1>7, <2>2, <2>3 DEF Cancelled
<1>8. CASE \E v \in Names : Refill(v)
  BY <1>8 DEF Refill
<1>9. CASE UNCHANGED vars
  BY <1>9 DEF vars
<1> QED
  BY <1>1, <1>2, <1>3, <1>4, <1>5, <1>6, <1>7, <1>8, <1>9 DEF Next, OrderNext

\* Retries and failover fill no slice twice, but for fills whose answer never
\* arrived (with_retry, ExchangeRouter.execute).
THEOREM FilledOnce == Spec => []OneFillPerSlice
<1>1. FirmInv => OneFillPerSlice
  BY DEF FirmInv
<1> QED
  BY <1>1, FirmInits, FirmSteps, PTL DEF Spec

\* A slice reported as failed has no fill anywhere, but for those whose answer
\* never arrived (ExchangeRouter.execute, "All venues failed to execute order").
THEOREM NothingLeft == Spec => []FailedLeavesNothing
<1>1. FirmInv => FailedLeavesNothing
  BY DEF FirmInv, Ahead, FailedLeavesNothing
<1> QED
  BY <1>1, FirmInits, FirmSteps, PTL DEF Spec
=============================================================================
