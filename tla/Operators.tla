----------------------------- MODULE Operators -----------------------------
(***************************************************************************)
(* Operators at work: the Telegram bot and the cockpit drive the agents      *)
(* through the same control endpoints, whose idempotency cache serves them   *)
(* all.                                                                      *)
(***************************************************************************)
EXTENDS TelegramBot, Cockpit

\* A connection belongs to a handler of the bot or to a session.
ASSUME CallersAssumption ==
  Callers = Handlers \cup Sessions /\ Handlers \cap Sessions = {}

operatorVars == <<apiVars, botVars, cockpitVars>>

OperatorsTypeOK == ApiTypeOK /\ BotTypeOK /\ CockpitTypeOK

OperatorsInit == ApiInit /\ BotInit /\ CockpitInit

OperatorsNext ==
  \/ ApiNext /\ UNCHANGED <<botVars, cockpitVars>>
  \/ BotNext /\ UNCHANGED cockpitVars
  \/ CockpitNext /\ UNCHANGED botVars

OperatorsSpec == OperatorsInit /\ [][OperatorsNext]_operatorVars

\* Time passes; an awaited answer comes or its timeout does; a script runs on.
OperatorsFairSpec ==
  /\ OperatorsSpec
  /\ WF_operatorVars(Tick /\ UNCHANGED cockpitVars)
  /\ \A c \in Callers :
       WF_operatorVars((TimeOut(c) \/ Serve(c)) /\ UNCHANGED <<botVars, cockpitVars>>)
  /\ \A s \in Sessions : WF_operatorVars(ScriptNext(s) /\ UNCHANGED botVars)
=============================================================================
