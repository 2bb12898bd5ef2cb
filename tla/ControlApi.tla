----------------------------- MODULE ControlApi -----------------------------
(***************************************************************************)
(* The control endpoints as the programs that call them see them: POST       *)
(* /start and /stop of routers/control.py behind gateway/auth.py, over HTTP. *)
(*                                                                          *)
(* A caller waits for an answer no longer than its timeout; the gateway      *)
(* carries out a request it has received whether somebody waits or not.      *)
(* What the Supervisor does for a command is one step here (ControlPlane     *)
(* has the detail); the breaker, the rate limit of the endpoints, an unknown *)
(* key and a failed command are all a refusal.                               *)
(***************************************************************************)
EXTENDS Naturals, FiniteSets

CONSTANTS
  Agents,   \* keys of the agents
  Callers   \* connections to the gateway, one request at a time each

VARIABLES
  serving,  \* the gateway process serves requests
  running,  \* agents that run
  seen,     \* IdempotencyCache._store: keys whose TTL is not over
  request,  \* the command a connection carries to the gateway
  answer,   \* what the caller of a connection has got
  taken     \* history: commands handed to the Supervisor within the last TTL

apiVars == <<serving, running, seen, request, answer, taken>>

Commands == [op : {"start", "stop"}, agent : Agents]
None == [op |-> "none"]

\* "lost": the timeout of httpx, or a connection that broke or was refused.
Answers == {"none", "awaited", "ok", "refused", "lost"}

\* _safe_agent_status: the running flag of an agent, also when its status()
\* raises.
AgentStatus(a) == a \in running

\* GET /agents, GET /status: the agents that are said to run.
AgentList == {a \in Agents : AgentStatus(a)}

ApiTypeOK ==
  /\ serving \in BOOLEAN
  /\ running \subseteq Agents
  /\ seen \subseteq Commands
  /\ request \in [Callers -> Commands \cup {None}]
  /\ answer \in [Callers -> Answers]
  /\ taken \subseteq Commands

ApiInit ==
  /\ serving = FALSE
  /\ running = {}
  /\ seen = {}
  /\ request = [c \in Callers |-> None]
  /\ answer = [c \in Callers |-> "none"]
  /\ taken = {}
-----------------------------------------------------------------------------
(* The caller's side.                                                        *)

\* A command is posted on a connection; nobody answers when nobody serves.
Post(c, command) ==
  /\ answer[c] = "none" /\ request[c] = None
  /\ IF serving
     THEN /\ request' = [request EXCEPT ![c] = command]
          /\ answer' = [answer EXCEPT ![c] = "awaited"]
     ELSE /\ answer' = [answer EXCEPT ![c] = "lost"]
          /\ UNCHANGED request
  /\ UNCHANGED <<serving, running, seen, taken>>

\* The timeout of the caller passes; the gateway still has the request.
TimeOut(c) ==
  /\ answer[c] = "awaited"
  /\ answer' = [answer EXCEPT ![c] = "lost"]
  /\ UNCHANGED <<serving, running, seen, request, taken>>

Heard(c) == answer[c] \in {"ok", "refused", "lost"}

\* The caller goes on with the answer.
Close(c) == answer' = [answer EXCEPT ![c] = "none"]
-----------------------------------------------------------------------------
(* The gateway's side.                                                       *)

Respond(c, what) ==
  /\ request' = [request EXCEPT ![c] = None]
  /\ answer' = [answer EXCEPT ![c] = IF @ = "awaited" THEN what ELSE @]

\* Mutant of IdempotencyKey: the key leaves out the operation.
KeyOfAgent(command) == [op |-> "start", agent |-> command.agent]

\* f"start:{agent_key}", f"stop:{agent_key}"
IdempotencyKey(command) == command

\* The command is handed to the Supervisor, which carries it out or fails.
Take(c) ==
  /\ request[c] # None
  /\ IdempotencyKey(request[c]) \notin seen
  /\ seen' = seen \cup {IdempotencyKey(request[c])}
  /\ taken' = taken \cup {request[c]}
  /\ \/ /\ running' = IF request[c].op = "start"
                      THEN running \cup {request[c].agent}
                      ELSE running \ {request[c].agent}
        /\ Respond(c, "ok")
     \/ Respond(c, "refused") /\ UNCHANGED running
  /\ UNCHANGED <<serving>>

\* The command was taken before: a 200 that says so in a field nobody reads.
Repeat(c) ==
  /\ request[c] # None
  /\ IdempotencyKey(request[c]) \in seen
  /\ Respond(c, "ok")
  /\ UNCHANGED <<serving, running, seen, taken>>

\* 401 or 403 of auth.require, 429 of the limiter, 423 of the breaker, 404 of
\* an unknown key.
Refuse(c) ==
  /\ request[c] # None
  /\ Respond(c, "refused")
  /\ UNCHANGED <<serving, running, seen, taken>>

Serve(c) == Take(c) \/ Repeat(c) \/ Refuse(c)

\* ttl_seconds have passed since the key was stored.
Expire(key) ==
  /\ key \in seen
  /\ seen' = seen \ {key}
  /\ taken' = {k \in taken : IdempotencyKey(k) # key}
  /\ UNCHANGED <<serving, running, request, answer>>

\* An agent's loop ends by itself.
AgentEnds(a) ==
  /\ a \in running
  /\ running' = running \ {a}
  /\ UNCHANGED <<serving, seen, request, answer, taken>>

\* on_startup: no agent runs yet, the cache is empty.
GatewayStarts ==
  /\ ~serving
  /\ serving' = TRUE
  /\ UNCHANGED <<running, seen, request, answer, taken>>

\* The process ends, with the connections, the agents and the cache.
GatewayEnds ==
  /\ serving
  /\ serving' = FALSE
  /\ running' = {}
  /\ seen' = {}
  /\ taken' = {}
  /\ request' = [c \in Callers |-> None]
  /\ answer' = [c \in Callers |-> IF answer[c] = "awaited" THEN "lost" ELSE answer[c]]

ApiNext ==
  \/ \E c \in Callers : TimeOut(c) \/ Serve(c)
  \/ \E key \in Commands : Expire(key)
  \/ \E a \in Agents : AgentEnds(a)
  \/ GatewayStarts \/ GatewayEnds
-----------------------------------------------------------------------------
(* Properties.                                                               *)

\* Who is told that a start or a stop was done can rely on it that this very
\* operation was handed to the Supervisor, for this request or in the seconds
\* before it: across repeated requests, timeouts and restarts.
SuccessWasTaken ==
  [][\A c \in Callers :
       answer[c] = "awaited" /\ answer'[c] = "ok" => request[c] \in taken']_apiVars
=============================================================================
