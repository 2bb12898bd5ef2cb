---------------------------- MODULE ControlPlane ----------------------------
(***************************************************************************)
(* routers/control.py: the POST /start and POST /stop handlers in front of  *)
(* the Supervisor, with the guards of gateway/guards.py (one circuit        *)
(* breaker and one idempotency cache for the whole process) and the         *)
(* agent_state gauge of gateway/metrics.py.                                 *)
(*                                                                          *)
(* A handler runs without an await up to supervisor.start or stop and from  *)
(* their end to its response, so the response is part of the Supervisor     *)
(* step that answers the call.  Clock readings are abstracted to "the TTL   *)
(* of this key is over", "the cooldown is over" and "so many errors have    *)
(* left the window", each of which may become true at any time.             *)
(***************************************************************************)
EXTENDS Supervisor

CONSTANT Threshold   \* errors in the window that open the breaker

ASSUME ThresholdAssumption == Threshold \in Nat \ {0}

VARIABLES
  seen,     \* IdempotencyCache._store: keys whose TTL is not over
  errors,   \* len(CircuitBreaker._errors)
  open,     \* CircuitBreaker._opened_at is not None
  cooled,   \* the breaker is open and its cooldown is over
  gauge,    \* the agent_state gauge: 1 is TRUE
  response  \* the last HTTP response of each request

guardVars == <<seen, errors, open, cooled>>
gatewayVars == <<guardVars, gauge, response>>
allVars == <<vars, gatewayVars>>

Responses == {"none", "started", "stopped", "duplicate", "locked", "unknown", "failed"}
MaxErrors == Threshold + Cardinality(Requests)

GatewayTypeOK ==
  /\ seen \subseteq Commands
  /\ errors \in 0..MaxErrors
  /\ open \in BOOLEAN
  /\ cooled \in BOOLEAN
  /\ gauge \in [Agents -> BOOLEAN]
  /\ response \in [Requests -> Responses]

\* CircuitBreaker.__init__
BreakerInit == errors = 0 /\ open = FALSE /\ cooled = FALSE

GatewayInit ==
  /\ Init
  /\ seen = {}
  /\ BreakerInit
  /\ gauge = running
  /\ response = [c \in Requests |-> "none"]
-----------------------------------------------------------------------------
(* gateway/guards.py                                                        *)

\* Mutant of Allow: the errors are cleared and _opened_at is not.
AllowKeepsOpen ==
  \/ ~open /\ UNCHANGED <<errors, open, cooled>>
  \/ open /\ cooled /\ errors' = 0 /\ open' = open /\ cooled' = FALSE

\* CircuitBreaker.allow() answers true; an open breaker that cooled is reset.
Allow ==
  \/ ~open /\ UNCHANGED <<errors, open, cooled>>
  \/ open /\ cooled /\ errors' = 0 /\ open' = FALSE /\ cooled' = FALSE

\* CircuitBreaker.allow() answers false.
Deny == open /\ ~cooled /\ UNCHANGED <<errors, open, cooled>>

\* Mutant of RecordSuccess: any success closes the breaker.
SuccessAlwaysCloses == errors' = 0 /\ open' = FALSE /\ cooled' = FALSE

RecordSuccess ==
  \/ (~open \/ cooled) /\ errors' = 0 /\ open' = FALSE /\ cooled' = FALSE
  \/ Deny

\* CircuitBreaker._purge: how many errors it leaves, of those in the window.
Left == 0..errors

\* Errors that left the window are purged before the new one is appended.
RecordError ==
  \E left \in Left :
    /\ errors' = left + 1
    /\ open' = (open \/ errors' >= Threshold)
    /\ UNCHANGED cooled

\* CircuitBreaker.state(), read by every status payload, calls allow().
BreakerState == Allow \/ Deny

\* A status payload is asked for, by a caller or the scheduler's self-check.
StatusPoll ==
  /\ BreakerState
  /\ UNCHANGED <<vars, seen, gauge, response>>

\* cooldown_seconds have passed since the breaker opened.
Cooldown ==
  /\ open /\ ~cooled
  /\ cooled' = TRUE
  /\ UNCHANGED <<vars, seen, errors, open, gauge, response>>

\* ttl_seconds have passed since the key was stored.
Expire(key) ==
  /\ key \in seen
  /\ seen' = seen \ {key}
  /\ UNCHANGED <<vars, errors, open, cooled, gauge, response>>
-----------------------------------------------------------------------------
(* routers/control.py                                                       *)

Respond(c, answer) == response' = [response EXCEPT ![c] = answer]

\* write_audit inserts a row, or raises.
AuditOutcomes == {"written", "raised"}

\* _audit comes last, in the finally clause of a handler: when it raises, the
\* answer the handler has made is lost, and the caller gets a 500.
Audited(c, answer) ==
  \E audit \in AuditOutcomes :
    Respond(c, IF audit = "written" THEN answer ELSE "failed")

\* 423: the breaker is open.
Locked(c) ==
  /\ pc[c] = "idle" /\ shutdown = "no"
  /\ Deny
  /\ Respond(c, "locked")
  /\ UNCHANGED <<vars, seen, gauge>>

\* 404: a key no agent has.  The breaker has been consulted before.
Unknown(c) ==
  /\ pc[c] = "idle" /\ shutdown = "no"
  /\ Allow
  /\ Respond(c, "unknown")
  /\ UNCHANGED <<vars, seen, gauge>>

\* 200 with duplicate: the same command was taken within the TTL.
Duplicate(c, key) ==
  /\ pc[c] = "idle" /\ shutdown = "no"
  /\ Allow
  /\ key \in seen
  /\ Audited(c, "duplicate")
  /\ UNCHANGED <<vars, seen, gauge>>

\* The command is taken and reaches the Supervisor.
Admit(c, key) ==
  /\ Command(c, key.op, key.agent)
  /\ Allow
  /\ key \notin seen
  /\ seen' = seen \cup {key}
  /\ Respond(c, "none")
  /\ UNCHANGED gauge

\* The Supervisor answers the handler, or the handler stays suspended in it.
Serve(c) ==
  /\ CallerNext(c)
  /\ \/ /\ reply'[c] = "none"
        /\ UNCHANGED gatewayVars
     \/ /\ reply'[c] = "ok"
        /\ gauge' = [gauge EXCEPT ![cmd[c].agent] = cmd[c].op = "start"]
        /\ RecordSuccess
        /\ Audited(c, IF cmd[c].op = "start" THEN "started" ELSE "stopped")
        /\ UNCHANGED seen
     \/ /\ reply'[c] = "error"
        /\ RecordError
        /\ Audited(c, "failed")
        /\ UNCHANGED <<seen, gauge>>

\* Steps of the Supervisor no handler is part of.
Background ==
  /\ \/ \E a \in Agents : CallerNext(a)
     \/ \E t \in Tasks : LoopNext(t)
     \/ StopAllNext
  /\ UNCHANGED gatewayVars

GatewayNext ==
  \/ \E c \in Requests : Locked(c) \/ Unknown(c) \/ Serve(c)
  \/ \E c \in Requests, key \in Commands : Duplicate(c, key) \/ Admit(c, key)
  \/ \E key \in Commands : Expire(key)
  \/ StatusPoll \/ Cooldown
  \/ Background

GatewaySpec == GatewayInit /\ [][GatewayNext]_allVars

\* ControlScheduler.start: the self-check, which polls the status, is a job that
\* comes again every five minutes.
SelfChecked == WF_allVars(StatusPoll)

\* The Supervisor's fairness; time passes, and the scheduler polls.
GatewayFairness == Fairness /\ WF_allVars(Cooldown) /\ SelfChecked

GatewayFairSpec == GatewaySpec /\ GatewayFairness
-----------------------------------------------------------------------------
(* Properties.                                                              *)

\* Once open, the breaker stays open until its cooldown: no success of a
\* command that was already in flight closes it early.
OpenUntilCooldown == [][open /\ ~cooled => open']_allVars

\* A stop that was answered with "running": False is true when it is sent: the
\* agent does not run and has no loop.
StopResponseIsTrue ==
  [][\A c \in Requests :
       (response[c] = "none" /\ response'[c] = "stopped")
         => ~running'[cmd[c].agent] /\ LoopsOf(cmd[c].agent)' = {}]_allVars

\* An open breaker closes again without an operator's help.
BreakerCloses == open ~> ~open

\* Every command is carried out or fails, and a shutdown ends: no caller waits for
\* ever for a lock, a tick that never returns, or another caller.
EveryCommandEnds == CommandsAreAnswered /\ ShutdownEnds
=============================================================================
