----------------------------- MODULE Dashboard ------------------------------
(***************************************************************************)
(* The dashboard of app/: the backend (backend/main.py and its agent        *)
(* registry), which broadcasts to the status sockets, and one console in a  *)
(* browser, with its StatusWebSocket (frontend/src/lib/ws.ts) and what it   *)
(* shows (CyberConsoleDashboard.tsx).                                       *)
(*                                                                          *)
(* The backend's coroutines interleave where a broadcast sends (to other     *)
(* consoles, before it comes to this one) and nowhere else: the registry's  *)
(* lock is never held across one.  Log lines, loads and metric points are   *)
(* left out; the broadcast of the log line is kept for its suspension.      *)
(***************************************************************************)
EXTENDS Naturals, Sequences, FiniteSets, TLC

CONSTANTS
  Agents,
  Initial,    \* INITIAL_AGENTS: their status
  Handlers,   \* requests the backend handles at one time,
  Own,        \* those of this console; the others are of other consoles
  MaxSockets, \* bound: sockets the console opens
  MaxMounts,  \* bound: times the console is mounted
  MaxRequests,\* bound: requests of all consoles
  MaxFaults,  \* bound: sockets and requests that fail
  MaxInbox    \* bound: messages on their way, where a send waits

ASSUME DashboardAssumption ==
  /\ Initial \in [Agents -> {"running", "stopped"}]
  /\ Own \subseteq Handlers /\ "telemetry" \notin Handlers
  /\ {MaxSockets, MaxMounts, MaxRequests, MaxFaults} \subseteq Nat /\ MaxInbox \in Nat \ {0}

Sockets == 1..MaxSockets
Statuses == {"running", "stopped"}

VARIABLES
  status,      \* AgentRegistry: the status of each agent
  online,      \* state['online']
  connections, \* the sockets the backend sends to
  proc,        \* the coroutines: the telemetry loop and the handlers
  link,        \* the life of each socket
  inbox,       \* messages sent to a socket and not yet delivered
  socket,      \* StatusWebSocket.socket, 0 for null
  closed,      \* closedByUser
  timers,      \* reconnects scheduled
  mounted,     \* the component is mounted and listens
  mounts,
  shown,       \* the agents the console shows, empty before the first refresh,
  shownOnline, \* and whether it shows the gateway as online
  answers,     \* answers of the backend on their way, and a wait for a refresh
  requests,
  overlap,     \* history: connect() was called before an older socket's onclose
  faults

backend == <<status, online, connections, proc, requests>>
ws == <<link, socket, closed, timers, overlap>>
console == <<mounted, mounts, shown, shownOnline>>
vars == <<backend, ws, inbox, console, answers, faults>>

Idle == [at |-> "idle"]

Init ==
  /\ status = Initial /\ online = TRUE /\ connections = {} /\ requests = 0
  /\ proc = [p \in Handlers \cup {"telemetry"} |-> Idle]
  /\ link = [s \in Sockets |-> "unused"] /\ inbox = [s \in Sockets |-> <<>>]
  /\ socket = 0 /\ closed = FALSE /\ timers = 0 /\ overlap = FALSE
  /\ mounted = FALSE /\ mounts = 0 /\ shown = <<>> /\ shownOnline = TRUE
  /\ answers = {} /\ faults = 0
-----------------------------------------------------------------------------
(* Broadcasts.                                                               *)

AgentMsg(a, st) == [agent |-> a, status |-> st]
GatewayMsg(on) == [online |-> on]
LogMsg == [line |-> TRUE]

\* A coroutine that waits for its turn to send.
Sending(at, msg) == [at |-> at, msg |-> msg]

\* A broadcast: every open socket gets the message, where it has room for it;
\* the sockets that are closed are dropped.
Sent(p, at) ==
  LET alive == {s \in connections : link[s] = "open"}
  IN /\ proc[p].at = at
     /\ \A s \in alive : Len(inbox[s]) < MaxInbox
     /\ connections' = alive
     /\ inbox' = IF proc[p].msg = LogMsg THEN inbox
                 ELSE [s \in Sockets |-> IF s \in alive THEN Append(inbox[s], proc[p].msg)
                                         ELSE inbox[s]]

Continue(p, next) == proc' = [proc EXCEPT ![p] = next]
-----------------------------------------------------------------------------
(* The telemetry loop.                                                       *)

\* Mutant of Copy: the loop keeps the copy it made when it began.
CopyOnce(a) == AgentMsg(a, Initial[a])

Copy(a) == AgentMsg(a, status[a])

\* One round: a copy of the registry is made and one agent of it chosen.
Choose(a) ==
  /\ proc["telemetry"] = Idle
  /\ Continue("telemetry", Sending("log", LogMsg) @@ [copy |-> Copy(a)])
  /\ UNCHANGED <<status, online, connections, requests, ws, inbox, console, answers, faults>>

\* The agent's status is sent from the copy, whatever happened meanwhile; the
\* gateway's is read when it is sent.
Telemetry ==
  /\ \/ /\ Sent("telemetry", "log")
        /\ Continue("telemetry", Sending("agent", proc["telemetry"].copy))
     \/ /\ Sent("telemetry", "agent")
        /\ Continue("telemetry", Sending("gateway", GatewayMsg(online)))
     \/ /\ Sent("telemetry", "gateway")
        /\ Continue("telemetry", Idle)
  /\ UNCHANGED <<status, online, requests, ws, console, answers, faults>>
-----------------------------------------------------------------------------
(* The handlers.                                                             *)

\* start_agent and stop_agent: the status is set, broadcast, and answered.
SetStatus(h) ==
  /\ proc[h].at = "posted" /\ "agent" \in DOMAIN proc[h].want
  /\ status' = [status EXCEPT ![proc[h].want.agent] = proc[h].want.status]
  /\ Continue(h, Sending("set", proc[h].want))
  /\ UNCHANGED <<online, connections, requests, ws, inbox, console, answers, faults>>

StatusSent(h) ==
  /\ Sent(h, "set")
  /\ Continue(h, Idle)
  /\ answers' = IF h \in Own THEN answers \cup {proc[h].msg} ELSE answers
  /\ UNCHANGED <<status, online, requests, ws, console, faults>>

\* A restart was answered: the console that asked waits, then refreshes.
Waiting == [wait |-> TRUE]
AnswerRestart(h) == answers' = IF h \in Own THEN answers \cup {Waiting} ELSE answers

\* gateway_restart: nothing while it is off line; otherwise the restore is a
\* task of its own that sleeps first.
Restart(h) ==
  /\ proc[h].at = "posted" /\ "online" \in DOMAIN proc[h].want
  /\ \/ /\ online /\ online' = FALSE
        /\ Continue(h, Sending("restart", GatewayMsg(FALSE))) /\ UNCHANGED answers
     \/ /\ ~online /\ UNCHANGED online
        /\ Continue(h, Idle) /\ AnswerRestart(h)
  /\ UNCHANGED <<status, connections, requests, ws, inbox, console, faults>>

Restore(h) ==
  /\ \/ Sent(h, "restart") /\ Continue(h, [at |-> "asleep"]) /\ AnswerRestart(h) /\ UNCHANGED online
     \/ /\ proc[h].at = "asleep" /\ UNCHANGED <<connections, inbox, answers>>
        /\ online' = TRUE /\ Continue(h, Sending("restore", GatewayMsg(TRUE)))
     \/ Sent(h, "restore") /\ Continue(h, Idle) /\ UNCHANGED <<online, answers>>
  /\ UNCHANGED <<status, requests, ws, console, faults>>

\* status_all.
StatusNow == [agents |-> status, online |-> online]
-----------------------------------------------------------------------------
(* StatusWebSocket.                                                          *)

\* Mutant of Disconnected: connect() does not look at the socket.
DisconnectedOrNot == TRUE

Disconnected == socket = 0

Unused == {s \in Sockets : link[s] = "unused"}

\* connect(), where the socket is null.
NewSocket ==
  LET s == CHOOSE n \in Unused : \A m \in Unused : n <= m
  IN /\ Unused # {}
     /\ socket' = s /\ closed' = FALSE
     /\ link' = [link EXCEPT ![s] = "connecting"]
     /\ overlap' = (overlap \/ \E o \in Sockets : link[o] \in {"closing", "lost"})

\* onopen, and ws_status accepts and adds the socket.
Accept(s) ==
  /\ link[s] = "connecting"
  /\ link' = [link EXCEPT ![s] = "open"]
  /\ connections' = connections \cup {s}
  /\ UNCHANGED <<status, online, proc, requests, socket, closed, timers, overlap, inbox, console, answers, faults>>

\* The network, or onerror.
Lose(s) ==
  /\ link[s] \in {"connecting", "open"} /\ faults < MaxFaults
  /\ link' = [link EXCEPT ![s] = "lost"]
  /\ faults' = faults + 1
  /\ UNCHANGED <<backend, socket, closed, timers, overlap, inbox, console, answers>>

\* onclose forgets whatever socket the field holds by now.
OnClose(s) ==
  /\ link[s] \in {"closing", "lost"}
  /\ link' = [link EXCEPT ![s] = "closed"]
  /\ inbox' = [inbox EXCEPT ![s] = <<>>]
  /\ socket' = 0
  /\ timers' = IF closed THEN timers ELSE timers + 1
  /\ UNCHANGED <<backend, closed, overlap, console, answers, faults>>

\* receive_text raises WebSocketDisconnect.
Drop(s) ==
  /\ s \in connections /\ link[s] # "open"
  /\ connections' = connections \ {s}
  /\ UNCHANGED <<status, online, proc, requests, ws, inbox, console, answers, faults>>

\* The timer of scheduleReconnect.
Reconnect ==
  /\ timers > 0 /\ timers' = timers - 1
  /\ IF Disconnected THEN NewSocket ELSE UNCHANGED <<link, socket, closed, overlap>>
  /\ UNCHANGED <<backend, inbox, console, answers, faults>>

\* onmessage: a listening console shows what the message says.
Deliver(s) ==
  /\ link[s] = "open" /\ inbox[s] # <<>>
  /\ inbox' = [inbox EXCEPT ![s] = Tail(@)]
  /\ LET msg == Head(inbox[s])
         heard == IF mounted THEN DOMAIN msg ELSE {}
     IN /\ shown' = IF "agent" \in heard /\ shown # <<>>
                      THEN [shown EXCEPT ![msg.agent] = msg.status] ELSE shown
        /\ shownOnline' = IF "online" \in heard THEN msg.online ELSE shownOnline
  /\ UNCHANGED <<backend, ws, mounted, mounts, answers, faults>>
-----------------------------------------------------------------------------
(* The console.                                                              *)

\* The effect of the component: refresh, listen and connect.
Mount ==
  /\ ~mounted /\ mounts < MaxMounts
  /\ mounted' = TRUE /\ mounts' = mounts + 1
  /\ answers' = answers \cup {StatusNow}
  /\ IF Disconnected THEN NewSocket ELSE UNCHANGED <<link, socket, closed, overlap>>
  /\ UNCHANGED <<backend, timers, inbox, shown, shownOnline, faults>>

\* Its cleanup: disconnect().
Unmount ==
  /\ mounted /\ mounted' = FALSE
  /\ closed' = TRUE /\ socket' = 0
  /\ link' = IF socket = 0 THEN link ELSE [link EXCEPT ![socket] = "closing"]
  /\ UNCHANGED <<backend, timers, overlap, inbox, mounts, shown, shownOnline, answers, faults>>

Request(h, want) ==
  /\ proc[h] = Idle /\ h \in Own => mounted
  /\ requests < MaxRequests /\ requests' = requests + 1
  /\ Continue(h, [at |-> "posted", want |-> want])
  /\ UNCHANGED <<status, online, connections, ws, inbox, mounted, mounts, answers, faults>>

\* The Start and Stop buttons of AgentList, for what the console shows; that they
\* are off while the last click is in work is left out.
Enabled(a, st) == shown # <<>> /\ shownOnline /\ shown[a] # st

\* handleStart and handleStop show the new status at once.
Toggle(h, a, st) ==
  /\ h \in Own => Enabled(a, st)
  /\ Request(h, AgentMsg(a, st))
  /\ shown' = IF h \in Own /\ shown # <<>> THEN [shown EXCEPT ![a] = st] ELSE shown
  /\ UNCHANGED shownOnline

\* handleRestartGateway.
AskRestart(h) ==
  /\ Request(h, GatewayMsg(FALSE))
  /\ shownOnline' = IF h \in Own THEN FALSE ELSE shownOnline
  /\ UNCHANGED shown

\* parseResponse of api.ts raises: the request did not reach the backend.  After
\* a start or a stop, not after a restart, the console then refreshes.
PostFails(h) ==
  /\ h \in Own /\ proc[h].at = "posted" /\ faults < MaxFaults
  /\ faults' = faults + 1
  /\ Continue(h, Idle)
  /\ answers' = IF "agent" \in DOMAIN proc[h].want THEN answers \cup {StatusNow} ELSE answers
  /\ UNCHANGED <<status, online, connections, requests, ws, inbox, console>>

\* The wait after a restart is over.
Refresh ==
  /\ Waiting \in answers
  /\ answers' = (answers \ {Waiting}) \cup {StatusNow}
  /\ UNCHANGED <<backend, ws, inbox, console, faults>>

\* An answer arrives: of a refresh, or of a start or stop.
Answer(r) ==
  /\ r \in answers \ {Waiting} /\ answers' = answers \ {r}
  /\ shown' = IF "agents" \in DOMAIN r THEN r.agents
              ELSE IF shown # <<>> THEN [shown EXCEPT ![r.agent] = r.status] ELSE shown
  /\ shownOnline' = IF "agents" \in DOMAIN r THEN r.online ELSE shownOnline
  /\ UNCHANGED <<backend, ws, inbox, mounted, mounts, faults>>

Backend ==
  \/ Telemetry
  \/ \E h \in Handlers : SetStatus(h) \/ StatusSent(h) \/ Restart(h) \/ Restore(h)

Browser ==
  \/ Reconnect \/ Refresh
  \/ \E s \in Sockets : Accept(s) \/ OnClose(s) \/ Drop(s)
  \/ \E r \in answers : Answer(r)

Next ==
  \/ Backend \/ Browser \/ \E s \in Sockets : Deliver(s)
  \/ \E a \in Agents : Choose(a)
  \/ Mount \/ Unmount
  \/ \E h \in Handlers : AskRestart(h) \/ PostFails(h) \/ \E a \in Agents, st \in Statuses : Toggle(h, a, st)
  \/ \E s \in Sockets : Lose(s)

Spec == Init /\ [][Next]_vars

\* Both event loops run what is ready, and random.choice comes to every agent.
FairSpec ==
  /\ Spec /\ WF_vars(Backend) /\ WF_vars(Browser) /\ WF_vars(\E s \in Sockets : Deliver(s))
  /\ \A a \in Agents : SF_vars(Choose(a))
-----------------------------------------------------------------------------
(* Properties.                                                               *)

\* A console has one socket, through lost sockets, reconnect timers and remounts,
\* as long as connect() is not called before the onclose of the socket before.
OneSocketUnlessOverlap ==
  ~overlap => Cardinality({s \in Sockets : link[s] \in {"connecting", "open"}}) <= 1

\* When nothing is asked for any more, a console that was loaded comes to show
\* what the backend has, and stays there: answers, broadcasts and copies that
\* were overtaken do not keep the last word, and lost sockets come back.
ConsoleCatchesUp ==
  <>[](mounted /\ shown # <<>> /\ \A h \in Handlers : proc[h] = Idle)
    => <>[](shown = status /\ shownOnline = online)
=============================================================================
