--------------------------- MODULE AgentLifecycle ---------------------------
(***************************************************************************)
(* What the Supervisor promises of each agent, without its lock, its task   *)
(* table or its callers: the agent's periodic execution is down, up, or     *)
(* draining after a stop; ticks of one agent never overlap; no tick begins  *)
(* and nothing is launched while it drains; and draining comes to an end.   *)
(***************************************************************************)
CONSTANT Agents

VARIABLES
  phase,    \* [Agents -> {"down", "up", "draining"}]
  ticking   \* [Agents -> BOOLEAN]: a tick is in progress

vars == <<phase, ticking>>

Init ==
  /\ phase = [a \in Agents |-> "down"]
  /\ ticking = [a \in Agents |-> FALSE]

Move(a, from, to) == phase[a] = from /\ phase' = [phase EXCEPT ![a] = to]

Launch(a) == Move(a, "down", "up") /\ UNCHANGED ticking

Drain(a) == Move(a, "up", "draining") /\ UNCHANGED ticking

TickBegins(a) ==
  /\ phase[a] = "up"
  /\ ~ticking[a]
  /\ ticking' = [ticking EXCEPT ![a] = TRUE]
  /\ UNCHANGED phase

TickEnds(a) ==
  /\ phase[a] = "up"
  /\ ticking[a]
  /\ ticking' = [ticking EXCEPT ![a] = FALSE]
  /\ UNCHANGED phase

\* The loop ends on a failure of its own.
Fail(a) ==
  /\ Move(a, "up", "down")
  /\ ticking' = [ticking EXCEPT ![a] = FALSE]

Drained(a) ==
  /\ Move(a, "draining", "down")
  /\ ticking' = [ticking EXCEPT ![a] = FALSE]

Next ==
  \E a \in Agents :
    \/ Launch(a) \/ Drain(a) \/ TickBegins(a) \/ TickEnds(a)
    \/ Fail(a) \/ Drained(a)

Spec == Init /\ [][Next]_vars

FairSpec == Spec /\ \A a \in Agents : WF_vars(Drained(a))
=============================================================================
