------------------------------ MODULE LinkedIn ------------------------------
(***************************************************************************)
(* The LinkedIn service as one process: the poller of ScheduledPosts hands   *)
(* due posts to the approval gate of Approvals, operators decide on them     *)
(* and publish them, and an OAuth login supplies the token every             *)
(* publication needs (agents/linkedin_agent/oauth.py, storage.py).           *)
(*                                                                          *)
(* The two parts share the process.  When it ends, the poller, the worker    *)
(* threads and the day's quota are gone together, while the approvals, the   *)
(* scheduled posts and the token are rows of two databases and survive.      *)
(* Nothing is served while the process is down.                              *)
(***************************************************************************)
EXTENDS Approvals, ScheduledPosts

VARIABLES
  origin,  \* what an approval was requested for: a post, or an operator's text
  token    \* the row of the tokens table

serviceVars == <<vars, postVars, origin, token>>

\* The ids of the approvals table are given out in order; one start of the
\* service asks for at most one approval of a post.
ASSUME IdsAssumption ==
  /\ Ids = 1..Cardinality(Ids)
  /\ Cardinality(Ids) >= Cardinality(Posts) * (MaxRestarts + 1)

\* Which are no posts.
ASSUME OriginsAssumption == {"none", "operator"} \cap Posts = {}

LinkedInInit ==
  /\ Init
  /\ origin = [i \in Ids |-> "none"]
  /\ PostsInit
  /\ token = "none"
-----------------------------------------------------------------------------
(* Tokens.                                                                   *)

\* The process serves requests between on_startup and its end.
Up == poller # "off"

\* _load_tokens: a bundle is stored and has not expired; nothing refreshes it.
HasToken == token = "valid"

\* save_tokens replaces the one row.
SaveTokens == token' = "valid"

\* The OAuth callback: the code is exchanged and the tokens are saved, also when
\* reading the user's identity fails afterwards; a failed exchange saves nothing.
Login ==
  /\ Up
  /\ SaveTokens
  /\ UNCHANGED <<vars, postVars, origin>>

TokenExpires ==
  /\ token = "valid"
  /\ token' = "expired"
  /\ UNCHANGED <<vars, postVars, origin>>
-----------------------------------------------------------------------------
(* Requests for approval.                                                    *)

\* The row request_approval inserts gets the next id.
Insert(what) ==
  LET i == 1 + Cardinality({j \in Ids : status[j] # "absent"})
  IN /\ i \in Ids
     /\ RequestApproval(i)
     /\ origin' = [origin EXCEPT ![i] = what]

\* Bound: ids the posts that are not handed over may still need.
Reserved ==
  Cardinality({p \in Posts : row[p] \in {"absent", "pending"}}) * (MaxRestarts - restarts + 1)

\* POST .../post/text and .../post/document: an operator asks for an approval.
RequestDirect ==
  /\ Up
  /\ Cardinality({i \in Ids : origin[i] = "none"}) > Reserved
  /\ Insert("operator")
  /\ UNCHANGED <<postVars, token>>

\* publish_due asks for the approval of a due post: the row it inserts is one
\* of the gate.
AskApproval ==
  /\ HandOver
  /\ IF approvals' = approvals THEN UNCHANGED <<vars, origin>> ELSE Insert(current')
  /\ UNCHANGED token
-----------------------------------------------------------------------------
(* Decisions and publications.                                               *)

\* POST /approvals/{id}/decision
Decision(i, approve) ==
  /\ Up
  /\ Decide(i, approve)
  /\ UNCHANGED <<postVars, origin, token>>

\* POST .../approvals/{id}/publish
Publish(w, i) ==
  /\ Up
  /\ AcceptRequest(w, i)
  /\ UNCHANGED <<postVars, origin, token>>

\* Past the quota, post_text and post_document go on with a token only.
TokenLoaded(w) == pc[w] = "claimed" /\ pc'[w] = "posting" => HasToken

\* A step of the thread that publishes.
Work(w) ==
  /\ Up
  /\ WorkerNext(w)
  /\ TokenLoaded(w)
  /\ UNCHANGED <<postVars, origin, token>>
-----------------------------------------------------------------------------
(* The poller and the process.                                               *)

PollerWorks ==
  \/ AskApproval
  \/ /\ Poll \/ MarkRequested \/ MarkFailed
     /\ UNCHANGED <<vars, origin, token>>

\* POST and GET .../schedule.
Agenda ==
  /\ \E p \in Posts, state \in {"pending", "held"} : Up /\ Schedule(p, state)
  /\ UNCHANGED <<vars, origin, token>>

\* on_startup starts the poller.
StartUp == PollerStart /\ UNCHANGED <<vars, origin, token>>

\* on_shutdown comes when no request is served any more; the quota ends with
\* the process.
ShutDown ==
  /\ \A w \in Workers : pc[w] = "idle"
  /\ PollerStop
  /\ Crash
  /\ UNCHANGED <<origin, token>>

\* The process dies: the poller, the threads and the quota with it.
Die ==
  /\ PollerCrash
  /\ Crash
  /\ UNCHANGED <<origin, token>>

Time == TimePasses /\ UNCHANGED <<vars, origin, token>>

NewDay == Midnight /\ UNCHANGED <<postVars, origin, token>>

LinkedInNext ==
  \/ Login \/ TokenExpires
  \/ RequestDirect
  \/ \E i \in Ids, approve \in BOOLEAN : Decision(i, approve)
  \/ \E w \in Workers, i \in Ids : Publish(w, i)
  \/ \E w \in Workers : Work(w)
  \/ Agenda \/ PollerWorks
  \/ StartUp \/ ShutDown \/ Die \/ Time \/ NewDay

LinkedInSpec == LinkedInInit /\ [][LinkedInNext]_serviceVars

\* Time passes, the event loop resumes the poller, a thread runs on that does not
\* wait for LinkedIn, and a process that ended is started again.
LinkedInFairSpec ==
  /\ LinkedInSpec
  /\ WF_serviceVars(Time)
  /\ WF_serviceVars(PollerWorks)
  /\ WF_serviceVars(StartUp)
  /\ \A w \in Workers : WF_serviceVars(~Waits(w) /\ Work(w))
-----------------------------------------------------------------------------
(* Properties.                                                               *)

\* An instant was reached at which the poller takes the post.
WasDue(p) == \E t \in 0..clock : RunAt[p] <= ReferenceAt(t)

\* LinkedIn gets a scheduled post only after the poller's reference has reached
\* its run_at, after an operator has approved it, and never one its author
\* holds back: across the poll, the two databases, the decision, retries,
\* restarts and a reference that goes back.
PublishedWhenDue ==
  \A i \in Ids : published[i] > 0 /\ origin[i] \in Posts =>
    WasDue(origin[i]) /\ i \in granted /\ row[origin[i]] # "held"

\* A scheduled post comes before its run_at by no more than ahead.
EarlyByNoMoreThan(ahead) ==
  \A i \in Ids : published[i] > 0 /\ origin[i] \in Posts => RunAt[origin[i]] <= clock + ahead
=============================================================================
