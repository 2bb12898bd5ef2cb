----------------------------- MODULE TelegramBot -----------------------------
(***************************************************************************)
(* telegram/bot.py: chat commands and inline buttons that drive the control *)
(* endpoints.                                                               *)
(*                                                                          *)
(* Handlers run concurrently, one task for each update, and share the       *)
(* sliding window of _rate_limited, which has no await in it.  A tick of    *)
(* the clock is the time between two updates of one user; the window is a   *)
(* number of ticks, and an age past it stands for every older one.          *)
(***************************************************************************)
EXTENDS ControlApi

CONSTANTS
  Users,     \* Telegram users
  Staff,     \* the users telegram_operators or telegram_admins lists
  BotListed, \* the same settings list the bot's own id
  Handlers,  \* bound: connections of handlers that wait for the gateway
  Window,    \* ticks in the 60 s of the sliding window
  Allowance  \* MAX_COMMANDS_PER_MIN

ASSUME BotAssumption ==
  /\ Staff \subseteq Users /\ BotListed \in BOOLEAN
  /\ Handlers \subseteq Callers
  /\ Window \in Nat /\ Allowance \in Nat \ {0}

VARIABLES
  history,     \* _COMMAND_HISTORY: the ages of a user's commands, in ticks
  spoke,       \* bound: users with an update in this tick
  buttons,     \* the chat holds a message with start and stop buttons
  confirmable  \* commands with a Confirm button in the chat

botVars == <<history, spoke, buttons, confirmable>>

Ages == 0..Window

BotTypeOK ==
  /\ history \in [Users -> SUBSET Ages]
  /\ spoke \subseteq Users
  /\ buttons \in BOOLEAN
  /\ confirmable \subseteq Commands

BotInit ==
  /\ history = [u \in Users |-> {}]
  /\ spoke = {}
  /\ buttons = FALSE
  /\ confirmable = {}
-----------------------------------------------------------------------------
(* The limiter.                                                              *)

\* One tick older, without those that `now - history[0] > 60` drops.
Aged(ages) == {age + 1 : age \in ages} \ {Window + 1}

Tick ==
  /\ history' = [u \in Users |-> Aged(history[u])]
  /\ spoke' = {}
  /\ UNCHANGED <<buttons, confirmable, apiVars>>

\* An update of the user reaches a handler.
Speaks(u) == u \notin spoke /\ spoke' = spoke \cup {u}

\* _rate_limited answers False and records the command.
Admitted(u) ==
  /\ Cardinality(history[u]) < Allowance
  /\ history' = [history EXCEPT ![u] = history[u] \cup {0}]

\* Mutant of Limited: the command that is turned down is recorded as well.
LimitedIsRecorded(u) ==
  /\ Cardinality(history[u]) >= Allowance
  /\ history' = [history EXCEPT ![u] = history[u] \cup {0}]

\* _rate_limited answers True.
Limited(u) ==
  /\ Cardinality(history[u]) >= Allowance
  /\ UNCHANGED history
-----------------------------------------------------------------------------
(* The handlers.                                                             *)

\* _ensure_role: for a chat command the user's own role; for a button the role
\* of the author of the message that carries it, which is the bot.
MayCommand(u) == u \in Staff
MayPress == BotListed

\* Too many requests, before anything else is done.
TurnedDown(u) ==
  /\ Speaks(u)
  /\ Limited(u)
  /\ UNCHANGED <<buttons, confirmable, apiVars>>

\* /start: a greeting.
Greet(u) ==
  /\ Speaks(u)
  /\ Admitted(u)
  /\ UNCHANGED <<buttons, confirmable, apiVars>>

\* /help, which the limiter does not see.
Help(u) ==
  /\ Speaks(u)
  /\ UNCHANGED <<history, buttons, confirmable, apiVars>>

\* /status: what the gateway answers, or that it does not.
Status(u) == Greet(u)

\* /logs, and /start_agent or /stop_agent with a wrong number of words.
Logs(u) ==
  /\ MayCommand(u)
  /\ Greet(u)

\* _list_agents: buttons for every agent, when the gateway answers.
Buttons == serving /\ buttons' = TRUE

\* /agents
ListAgents(u) ==
  /\ Speaks(u)
  /\ Admitted(u)
  /\ Buttons
  /\ UNCHANGED <<confirmable, apiVars>>

\* /start_agent and /stop_agent: the role, then the limiter.
Order(u, h, command) ==
  /\ MayCommand(u)
  /\ Speaks(u)
  /\ Admitted(u)
  /\ Post(h, command)
  /\ UNCHANGED <<buttons, confirmable>>

\* A start or stop button: another message, with a Confirm button.
Press(u, command) ==
  /\ buttons
  /\ MayPress
  /\ Speaks(u)
  /\ confirmable' = confirmable \cup {command}
  /\ UNCHANGED <<history, buttons, apiVars>>

\* A Confirm button, which stays in the chat: the limiter only.
Confirm(u, h, command) ==
  /\ command \in confirmable
  /\ Speaks(u)
  /\ Admitted(u)
  /\ Post(h, command)
  /\ UNCHANGED <<buttons, confirmable>>

\* _control reports the answer in the chat; a lost answer raises, and nothing
\* is reported.
Report(h) ==
  /\ Heard(h)
  /\ Close(h)
  /\ UNCHANGED <<serving, running, seen, request, taken, botVars>>

BotNext ==
  \/ Tick
  \/ \E u \in Users : TurnedDown(u) \/ Greet(u) \/ Help(u) \/ Status(u) \/ Logs(u) \/ ListAgents(u)
  \/ \E u \in Users, command \in Commands : Press(u, command)
  \/ \E u \in Users, h \in Handlers, command \in Commands :
       Order(u, h, command) \/ Confirm(u, h, command)
  \/ \E h \in Handlers : Report(h)
-----------------------------------------------------------------------------
(* Properties.                                                               *)

\* A user who has met the limit gets commands through again after a while,
\* although they keep trying.
LimitLifts ==
  \A u \in Users :
    Cardinality(history[u]) >= Allowance ~> Cardinality(history[u]) < Allowance
=============================================================================
