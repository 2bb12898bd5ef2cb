----------------------------- MODULE Executive ------------------------------
(***************************************************************************)
(* MotherAgent (agents/mother_agent.py) behind routers/executive.py:        *)
(* operators make decisions and dispatch them, admins approve them, and     *)
(* dispatched decisions wait in an asyncio.PriorityQueue.                   *)
(*                                                                          *)
(* The endpoints are coroutines that never really wait (the queue has no    *)
(* limit), so each request is one action.  An entry of the queue is the     *)
(* tuple (100 - priority, _sequence, decision): Python compares the         *)
(* decisions, which are dicts, when the first two are equal, and dicts      *)
(* cannot be ordered.                                                       *)
(***************************************************************************)
EXTENDS Integers, Sequences, FiniteSetsExt

CONSTANTS
  Actions,       \* what a decision may ask for
  HighImpact,    \* require_approval_for
  Priorities,    \* priorities asked for
  MaxHistory,    \* max_history
  MaxDecisions,  \* bound: decisions made
  MaxQueue       \* bound: entries of the queue

ASSUME HighImpactAssumption == HighImpact \subseteq Actions
ASSUME PrioritiesAssumption == Priorities \subseteq 0..100
ASSUME BoundsAssumption ==
  MaxHistory \in Nat \ {0} /\ MaxDecisions \in Nat /\ MaxQueue \in Nat

VARIABLES
  sequence,   \* _sequence; the n-th decision has the id "decision-n"
  record,     \* every decision made, by number, also those out of history
  decisions,  \* the history: numbers of the decisions that can be found
  queue,      \* the heap of the PriorityQueue
  answered    \* history: how often the dispatch of a decision was answered ok

vars == <<sequence, record, decisions, queue, answered>>

Decisions ==
  [action : Actions, priority : Priorities, approval_required : BOOLEAN,
   approved : BOOLEAN]
Entries == [rank : 0..100, seq : Nat, decision : Nat]

TypeOK ==
  /\ sequence \in 0..MaxDecisions
  /\ record \in Seq(Decisions) /\ Len(record) = sequence
  /\ decisions \in Seq(1..sequence)
  /\ Len(decisions) <= MaxHistory
  /\ queue \in Seq(Entries)
  /\ answered \in Seq(Nat) /\ Len(answered) = sequence

Init ==
  /\ sequence = 0
  /\ record = <<>>
  /\ decisions = <<>>
  /\ queue = <<>>
  /\ answered = <<>>
-----------------------------------------------------------------------------
(* The heap.  heapq.heappush appends the entry and moves it up while it is   *)
(* less than its parent; when the two cannot be compared the entry stays    *)
(* where it is and TypeError leaves the push.                               *)

Before(e, f) == e.rank < f.rank \/ (e.rank = f.rank /\ e.seq < f.seq)

Incomparable(e, f) ==
  e.rank = f.rank /\ e.seq = f.seq /\ e.decision # f.decision

\* Mutant of Climb: the climb stops below the root.
ClimbBelowRoot(h, e) ==
  LET from[i \in 1..(Len(h) + 1)] ==
        {i} \cup IF i > 3 /\ Before(e, h[i \div 2]) THEN from[i \div 2] ELSE {}
  IN from[Len(h) + 1]

\* The positions the entry comes through, from the end of the heap upwards.
Climb(h, e) ==
  LET from[i \in 1..(Len(h) + 1)] ==
        {i} \cup IF i > 1 /\ Before(e, h[i \div 2]) THEN from[i \div 2] ELSE {}
  IN from[Len(h) + 1]

\* Where it comes to rest.
Slot(h, e) == Min(Climb(h, e))

\* Mutant of Push: the entries on the way are overwritten, not moved down.
PushOverwrites(h, e) ==
  [k \in 1..(Len(h) + 1) |->
     IF k = Slot(h, e) THEN e ELSE IF k <= Len(h) THEN h[k] ELSE h[k \div 2]]

\* The heap after the push: the entries on the way move down by one.
Push(h, e) ==
  [k \in 1..(Len(h) + 1) |->
     IF k = Slot(h, e) THEN e ELSE IF k \in Climb(h, e) THEN h[k \div 2] ELSE h[k]]

PushRaises(h, e) == Slot(h, e) > 1 /\ Incomparable(e, h[Slot(h, e) \div 2])
-----------------------------------------------------------------------------
(* The endpoints.                                                           *)

\* decisions[-max_history:]
Latest(s) == IF Len(s) <= MaxHistory THEN s ELSE SubSeq(s, Len(s) - MaxHistory + 1, Len(s))

Lookup(d) == \E k \in 1..Len(decisions) : decisions[k] = d

\* POST /executive/decide: approval_required is what the caller says, or, when
\* it says nothing, whether the action is of high impact.
Decide(action, priority, override) ==
  LET required == IF override = "none" THEN action \in HighImpact ELSE override = "yes"
  IN /\ sequence < MaxDecisions
     /\ sequence' = sequence + 1
     /\ record' = Append(record, [action |-> action, priority |-> priority,
                                  approval_required |-> required,
                                  approved |-> ~required])
     /\ decisions' = Latest(Append(decisions, sequence'))
     /\ answered' = Append(answered, 0)
     /\ UNCHANGED queue

\* POST /executive/approve
Approve(d) ==
  /\ Lookup(d)
  /\ record' = [record EXCEPT ![d].approved = TRUE]
  /\ UNCHANGED <<sequence, decisions, queue, answered>>

Entry(d) == [rank |-> 100 - record[d].priority, seq |-> sequence, decision |-> d]

\* enqueue refuses a decision that waits for its approval.
Dispatchable(d) ==
  Lookup(d) /\ ~(record[d].approval_required /\ ~record[d].approved)

\* POST /executive/dispatch/{id}; a TypeError of the heap is answered 500.
Dispatch(d) ==
  /\ Dispatchable(d)
  /\ Len(queue) < MaxQueue
  /\ queue' = Push(queue, Entry(d))
  /\ answered' = IF PushRaises(queue, Entry(d)) THEN answered
                 ELSE [answered EXCEPT ![d] = @ + 1]
  /\ UNCHANGED <<sequence, record, decisions>>

Next ==
  \/ \E action \in Actions, priority \in Priorities, override \in {"none", "yes", "no"} :
       Decide(action, priority, override)
  \/ \E d \in 1..sequence : Approve(d) \/ Dispatch(d)

Spec == Init /\ [][Next]_vars
-----------------------------------------------------------------------------
(* Properties.                                                              *)

Queued(d) == {k \in 1..Len(queue) : queue[k].decision = d}

\* The most urgent entry is at the top, and every entry after its parent, also
\* after pushes that raised halfway up.
HeapOrdered ==
  \A k \in 2..Len(queue) : ~Before(queue[k], queue[k \div 2])

\* What a dispatch was answered ok for is in the queue, once per answer.
AnsweredIsQueued ==
  \A d \in 1..sequence : Cardinality(Queued(d)) >= answered[d]
=============================================================================
