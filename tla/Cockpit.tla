------------------------------ MODULE Cockpit ------------------------------
(***************************************************************************)
(* streamlit_app.py: the sessions of the Streamlit cockpit, their login and  *)
(* the start and stop buttons of the home page.                              *)
(*                                                                          *)
(* Streamlit runs the whole script again whenever a widget is used.  A run   *)
(* reads the agents, draws a button for each of them, and the button that    *)
(* was clicked posts its command when the run reaches it.  A widget used     *)
(* during a run ends that run at its next call into Streamlit, and starts    *)
(* another, for which the click the run began with is gone.  The six reads   *)
(* of a run are one step: only the agents decide on what is drawn.           *)
(***************************************************************************)
EXTENDS ControlApi

CONSTANT Sessions   \* browser sessions

ASSUME SessionsAssumption == Sessions \subseteq Callers

VARIABLES
  page,     \* what the script of a session is doing
  token,    \* st.session_state.token
  click,    \* the button the run, or the next one, was started by
  rerun,    \* a widget was used during the run
  pending,  \* history: the last click, until the page answers it
  shown     \* agents drawn as running, or none drawn

cockpitVars == <<page, token, click, rerun, pending, shown>>

Pages == {"login", "loading", "posting", "drawn"}
NotDrawn == {"nothing"}

CockpitTypeOK ==
  /\ page \in [Sessions -> Pages]
  /\ token \in [Sessions -> {"none", "valid", "expired"}]
  /\ click \in [Sessions -> Commands \cup {None}]
  /\ rerun \in [Sessions -> BOOLEAN]
  /\ pending \in [Sessions -> Commands \cup {None}]
  /\ shown \in [Sessions -> SUBSET Agents \cup {NotDrawn}]

CockpitInit ==
  /\ page = [s \in Sessions |-> "login"]
  /\ token = [s \in Sessions |-> "none"]
  /\ click = [s \in Sessions |-> None]
  /\ rerun = [s \in Sessions |-> FALSE]
  /\ pending = [s \in Sessions |-> None]
  /\ shown = [s \in Sessions |-> NotDrawn]
-----------------------------------------------------------------------------
(* Signing in.                                                               *)

\* Client.login: /auth/login exchanges the API key for a token of one hour.
LoginAnswers == serving

\* show_login: the script runs again as a signed-in session of an operator; an
\* error leaves the form.
SignIn(s) ==
  /\ page[s] = "login"
  /\ LoginAnswers
  /\ page' = [page EXCEPT ![s] = "loading"]
  /\ token' = [token EXCEPT ![s] = "valid"]
  /\ UNCHANGED <<click, rerun, pending, shown, apiVars>>

\* The hour of issue_jwt is over.  The session stays authenticated: every
\* request of it is refused, and nothing asks for another login.
TokenExpires(s) ==
  /\ token[s] = "valid"
  /\ token' = [token EXCEPT ![s] = "expired"]
  /\ UNCHANGED <<page, click, rerun, pending, shown, apiVars>>

\* The browser reloads: a new session, which has to sign in.
Reload(s) ==
  /\ page[s] = "drawn"
  /\ page' = [page EXCEPT ![s] = "login"]
  /\ token' = [token EXCEPT ![s] = "none"]
  /\ shown' = [shown EXCEPT ![s] = NotDrawn]
  /\ UNCHANGED <<click, rerun, pending, apiVars>>
-----------------------------------------------------------------------------
(* The home page.                                                            *)

\* The button is enabled for what the page shows, which may be out of date.
Offered(s, command) ==
  /\ shown[s] # NotDrawn
  /\ (command.op = "start") = (command.agent \notin shown[s])

\* Streamlit merges what is used before the next run begins: a click that waits
\* for it is kept, and of two clicks the button that is drawn first is served.
Merged(s, what) ==
  IF rerun[s] /\ click[s] # None THEN {click[s], what} \ {None} ELSE {what}

\* A widget is used, a button or another one (what is None): the next run.
Use(s, what) ==
  /\ page[s] # "login"
  /\ \E served \in Merged(s, what) :
       /\ click' = [click EXCEPT ![s] = served]
       /\ pending' = [pending EXCEPT ![s] = served]
  /\ page' = [page EXCEPT ![s] = IF @ = "drawn" THEN "loading" ELSE @]
  /\ rerun' = [rerun EXCEPT ![s] = page[s] # "drawn"]
  /\ UNCHANGED <<token, shown, apiVars>>

Click(s, command) == Offered(s, command) /\ Use(s, command)

\* Refresh, the other tabs and forms of the page.
Interact(s) == Use(s, None)

\* The run that was overtaken while it loaded gives way to the next one.
Restart(s) ==
  /\ page[s] = "loading"
  /\ rerun[s]
  /\ rerun' = [rerun EXCEPT ![s] = FALSE]
  /\ UNCHANGED <<page, token, click, pending, shown, apiVars>>

\* The reads fail: the page shows the errors, and no agent; a click is over.
LoadFails(s) ==
  /\ page[s] = "loading" /\ ~rerun[s]
  /\ page' = [page EXCEPT ![s] = "drawn"]
  /\ shown' = [shown EXCEPT ![s] = NotDrawn]
  /\ click' = [click EXCEPT ![s] = None]
  /\ pending' = [pending EXCEPT ![s] = None]
  /\ UNCHANGED <<token, rerun, apiVars>>

\* The page is drawn from what the gateway answers.
Draw(s) ==
  /\ page[s] = "loading" /\ ~rerun[s]
  /\ serving /\ token[s] = "valid"
  /\ shown' = [shown EXCEPT ![s] = AgentList]

\* No button was clicked: the run is over.
LoadPage(s) ==
  /\ Draw(s)
  /\ click[s] = None
  /\ page' = [page EXCEPT ![s] = "drawn"]
  /\ UNCHANGED <<token, click, rerun, pending, apiVars>>

\* Mutant of PostClick: a button the page now draws disabled posts nothing.
PostOffered(s) ==
  /\ Draw(s)
  /\ click[s] # None
  /\ click' = [click EXCEPT ![s] = None]
  /\ IF (click[s].op = "start") = (click[s].agent \notin AgentList)
     THEN /\ page' = [page EXCEPT ![s] = "posting"]
          /\ Post(s, click[s])
     ELSE /\ page' = [page EXCEPT ![s] = "drawn"]
          /\ UNCHANGED apiVars
  /\ UNCHANGED <<token, rerun, pending>>

\* The run reaches the button that was clicked, and posts its command whatever
\* the page now shows.
PostClick(s) ==
  /\ Draw(s)
  /\ click[s] # None
  /\ click' = [click EXCEPT ![s] = None]
  /\ page' = [page EXCEPT ![s] = "posting"]
  /\ Post(s, click[s])
  /\ UNCHANGED <<token, rerun, pending>>

\* The answer is shown: a success for a moment, before the page loads again, an
\* error until the next run; an overtaken run ends without showing it.
Answered(s) ==
  /\ page[s] = "posting"
  /\ Heard(s)
  /\ Close(s)
  /\ page' = [page EXCEPT ![s] =
       IF rerun[s] \/ answer[s] = "ok" THEN "loading" ELSE "drawn"]
  /\ rerun' = [rerun EXCEPT ![s] = FALSE]
  /\ pending' = [pending EXCEPT ![s] = click[s]]
  /\ UNCHANGED <<serving, running, seen, request, taken>>
  /\ UNCHANGED <<token, click, shown>>

\* What the script of a session does by itself.
ScriptNext(s) ==
  Restart(s) \/ LoadFails(s) \/ LoadPage(s) \/ PostClick(s) \/ Answered(s)

CockpitNext ==
  \E s \in Sessions :
    \/ SignIn(s) \/ TokenExpires(s) \/ Reload(s) \/ Interact(s)
    \/ \E command \in Commands : Click(s, command)
    \/ ScriptNext(s)
-----------------------------------------------------------------------------
(* Properties.                                                               *)

\* Every click of an operator is answered on the page, with a success or an
\* error, although the agents change, the token expires or the gateway ends
\* between the click and the run that serves it; only another use of the page
\* before the answer takes its place.
ClickIsAnswered ==
  \A s \in Sessions : pending[s] # None ~> pending[s] = None \/ rerun[s]
=============================================================================
