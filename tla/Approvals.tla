----------------------------- MODULE Approvals ------------------------------
(***************************************************************************)
(* services/approvals.py and its one consumer, the publish endpoint of      *)
(* agents/linkedin_agent/router.py with the quota of service.py.            *)
(*                                                                          *)
(* publish_approved is a plain `def` endpoint: the server runs it in worker *)
(* threads, so requests interleave between any two database operations.     *)
(* Each service function reads the row in one statement and writes it by    *)
(* primary key in another; the write does not repeat the condition the read *)
(* checked.  Decisions are taken by `async def` endpoints without an await, *)
(* one after the other.                                                     *)
(***************************************************************************)
EXTENDS Naturals, FiniteSets

CONSTANTS
  Ids,       \* approvals
  Foreign,   \* those for another capability or target than LinkedIn
  Workers,   \* threads running publish_approved
  Limit,     \* li_daily_post_limit
  MaxPosts,  \* bound: posts LinkedIn accepts per approval
  MaxDays,   \* bound: midnights that pass
  Faults     \* what may go wrong, out of FaultKinds

FaultKinds == {"lost_reply", "database", "event", "crash"}

ASSUME ForeignAssumption == Foreign \subseteq Ids
ASSUME BoundsAssumption == Limit \in Nat /\ MaxPosts \in Nat /\ MaxDays \in Nat
ASSUME FaultsAssumption == Faults \subseteq FaultKinds

VARIABLES
  status,     \* Approval.status; "absent" before the row exists
  granted,    \* history: approvals an operator has approved
  pc,         \* the step of publish_approved each worker is at
  job,        \* the approval each worker publishes
  published,  \* history: posts LinkedIn has accepted for each approval
  sent,       \* history: posts LinkedIn has accepted today, since the process started
  daily,      \* LinkedInService._daily_posts
  newDay,     \* the date is not LinkedInService._daily_reset
  days,       \* midnights passed
  unsettled,  \* history: posts LinkedIn took and the service recorded as failed
  stranded    \* history: executions whose thread ended without an outcome

rowVars == <<status, granted>>
quotaVars == <<sent, daily, newDay, days>>
histVars == <<unsettled, stranded>>
vars == <<rowVars, pc, job, published, quotaVars, histVars>>

Statuses == {"absent", "pending", "approved", "rejected", "executing", "executed"}
Steps == {"idle", "claim", "claiming", "claimed", "posting", "posted",
          "finish", "finishing", "fail", "reverting"}
Claimed == {"claimed", "posting", "posted", "finish", "finishing", "fail", "reverting"}

TypeOK ==
  /\ status \in [Ids -> Statuses]
  /\ granted \subseteq Ids
  /\ pc \in [Workers -> Steps]
  /\ job \in [Workers -> Ids]
  /\ published \in [Ids -> Nat]
  /\ sent \in Nat
  /\ daily \in Nat
  /\ newDay \in BOOLEAN
  /\ days \in Nat
  /\ unsettled \in [Ids -> Nat]
  /\ stranded \subseteq Ids

Init ==
  /\ status = [i \in Ids |-> "absent"]
  /\ granted = {}
  /\ pc = [w \in Workers |-> "idle"]
  /\ job \in {[w \in Workers |-> i] : i \in Ids}
  /\ published = [i \in Ids |-> 0]
  /\ sent = 0
  /\ daily = 0
  /\ newDay = FALSE
  /\ days = 0
  /\ unsettled = [i \in Ids |-> 0]
  /\ stranded = {}
-----------------------------------------------------------------------------
(* Requests and decisions.                                                  *)

SetStatus(i, s) == status' = [status EXCEPT ![i] = s]

\* request_approval: a row is inserted as pending.
RequestApproval(i) ==
  /\ status[i] = "absent"
  /\ SetStatus(i, "pending")
  /\ UNCHANGED <<granted, pc, job, published, quotaVars, histVars>>

\* decide: only a pending approval is decided.
Decide(i, approve) ==
  /\ status[i] = "pending"
  /\ SetStatus(i, IF approve THEN "approved" ELSE "rejected")
  /\ granted' = IF approve THEN granted \cup {i} ELSE granted
  /\ UNCHANGED <<pc, job, published, quotaVars, histVars>>
-----------------------------------------------------------------------------
(* publish_approved in a worker thread.  A request that is refused (404,    *)
(* 409, 400) changes nothing.                                               *)

Goto(w, step) == pc' = [pc EXCEPT ![w] = step]
Strand(ids) == stranded' = stranded \cup ids
Unsettle(i) == unsettled' = [unsettled EXCEPT ![i] = @ + 1]

\* Mutant of AcceptRequest: the endpoint leaves the check to claim_approval.
AcceptPending(w, i) ==
  /\ pc[w] = "idle"
  /\ status[i] \in {"pending", "approved"}
  /\ i \notin Foreign
  /\ job' = [job EXCEPT ![w] = i]
  /\ Goto(w, "claiming")
  /\ UNCHANGED <<rowVars, published, quotaVars, histVars>>

\* get_approval and the endpoint's three checks.
AcceptRequest(w, i) ==
  /\ pc[w] = "idle"
  /\ status[i] = "approved"
  /\ i \notin Foreign
  /\ job' = [job EXCEPT ![w] = i]
  /\ Goto(w, "claim")
  /\ UNCHANGED <<rowVars, published, quotaVars, histVars>>

\* claim_approval reads the row; a row no longer approved ends the request.
ClaimRead(w) ==
  /\ pc[w] = "claim"
  /\ Goto(w, IF status[job[w]] = "approved" THEN "claiming" ELSE "idle")
  /\ UNCHANGED <<rowVars, job, published, quotaVars, histVars>>

\* claim_approval writes "executing"; when the event that follows cannot be
\* recorded its exception ends the request.
ClaimWrite(w) ==
  /\ pc[w] = "claiming"
  /\ SetStatus(job[w], "executing")
  /\ \/ Goto(w, "claimed") /\ UNCHANGED stranded
     \/ "event" \in Faults /\ Goto(w, "idle") /\ Strand({job[w]})
  /\ UNCHANGED <<granted, job, published, quotaVars, unsettled>>

\* Mutant of QuotaCheck: off by one.
QuotaCheckLax(w) ==
  LET used == IF newDay THEN 0 ELSE daily
  IN /\ pc[w] = "claimed"
     /\ daily' = used
     /\ newDay' = FALSE
     /\ \/ used <= Limit /\ Goto(w, "posting")
        \/ Goto(w, "fail")
     /\ UNCHANGED <<rowVars, job, published, sent, days, histVars>>

\* _reset_daily_if_needed and _assert_quota; a missing token or text fails the
\* execution as the limit does.
QuotaCheck(w) ==
  LET used == IF newDay THEN 0 ELSE daily
  IN /\ pc[w] = "claimed"
     /\ daily' = used
     /\ newDay' = FALSE
     /\ \/ used < Limit /\ Goto(w, "posting")
        \/ Goto(w, "fail")
     /\ UNCHANGED <<rowVars, job, published, sent, days, histVars>>

\* The user's identity is asked for, then LinkedIn takes the post; the response
\* may not be read to its end.
PostAccepted(w) ==
  /\ pc[w] = "posting"
  /\ published[job[w]] < MaxPosts
  /\ published' = [published EXCEPT ![job[w]] = @ + 1]
  /\ sent' = sent + 1
  /\ \/ Goto(w, "posted") /\ UNCHANGED unsettled
     \/ "lost_reply" \in Faults /\ Goto(w, "fail") /\ Unsettle(job[w])
  /\ UNCHANGED <<rowVars, job, daily, newDay, days, stranded>>

\* LinkedIn refuses either request or cannot be reached.
PostRefused(w) ==
  /\ pc[w] = "posting"
  /\ Goto(w, "fail")
  /\ UNCHANGED <<rowVars, job, published, quotaVars, histVars>>

CountPost(w) ==
  /\ pc[w] = "posted"
  /\ daily' = daily + 1
  /\ Goto(w, "finish")
  /\ UNCHANGED <<rowVars, job, published, sent, newDay, days, histVars>>

\* finish_approval(success=True) reads the row.
FinishRead(w) ==
  /\ pc[w] = "finish"
  /\ Goto(w, IF status[job[w]] = "executing" THEN "finishing" ELSE "fail")
  /\ UNCHANGED <<rowVars, job, published, quotaVars, histVars>>

\* It writes "executed" and records an event; an exception of either is
\* handled like a failed publication.
FinishWrite(w) ==
  /\ pc[w] = "finishing"
  /\ \/ /\ SetStatus(job[w], "executed")
        /\ Goto(w, "idle") \/ ("event" \in Faults /\ Goto(w, "fail"))
        /\ UNCHANGED unsettled
     \/ /\ "database" \in Faults
        /\ Goto(w, "fail")
        /\ Unsettle(job[w])
        /\ UNCHANGED status
  /\ UNCHANGED <<granted, job, published, quotaVars, stranded>>

\* Mutant of FailRead: the reverting write is not guarded by the status.
FailReadUnchecked(w) ==
  /\ pc[w] = "fail"
  /\ Goto(w, "reverting")
  /\ UNCHANGED <<rowVars, job, published, quotaVars, histVars>>

\* Mutant of FailRead: a failed publication is not reported to the approval.
FailUnreported(w) ==
  /\ pc[w] = "fail"
  /\ Goto(w, "idle")
  /\ UNCHANGED <<rowVars, job, published, quotaVars, histVars>>

\* finish_approval(success=False) reads the row; ValueError when not executing.
FailRead(w) ==
  /\ pc[w] = "fail"
  /\ Goto(w, IF status[job[w]] = "executing" THEN "reverting" ELSE "idle")
  /\ UNCHANGED <<rowVars, job, published, quotaVars, histVars>>

\* It returns the row to "approved" for a retry.
FailWrite(w) ==
  /\ pc[w] = "reverting"
  /\ \/ SetStatus(job[w], "approved") /\ UNCHANGED stranded
     \/ "database" \in Faults /\ UNCHANGED status /\ Strand({job[w]})
  /\ Goto(w, "idle")
  /\ UNCHANGED <<granted, job, published, quotaVars, unsettled>>
-----------------------------------------------------------------------------
(* The environment.                                                         *)

Midnight ==
  /\ days < MaxDays
  /\ days' = days + 1
  /\ newDay' = TRUE
  /\ sent' = 0
  /\ UNCHANGED <<rowVars, pc, job, published, daily, histVars>>

\* The process dies and restarts: rows survive, threads and the quota do not,
\* and nothing at startup looks for executions that were under way.
Crash ==
  /\ "crash" \in Faults
  /\ pc' = [w \in Workers |-> "idle"]
  /\ sent' = 0
  /\ daily' = 0
  /\ newDay' = FALSE
  /\ Strand({job[w] : w \in {v \in Workers : pc[v] \in Claimed}})
  /\ UNCHANGED <<rowVars, job, published, days, unsettled>>

WorkerNext(w) ==
  \/ ClaimRead(w) \/ ClaimWrite(w) \/ QuotaCheck(w)
  \/ PostAccepted(w) \/ PostRefused(w) \/ CountPost(w)
  \/ FinishRead(w) \/ FinishWrite(w) \/ FailRead(w) \/ FailWrite(w)

Next ==
  \/ \E i \in Ids : RequestApproval(i)
  \/ \E i \in Ids, approve \in BOOLEAN : Decide(i, approve)
  \/ \E w \in Workers, i \in Ids : AcceptRequest(w, i)
  \/ \E w \in Workers : WorkerNext(w)
  \/ Midnight
  \/ Crash

Spec == Init /\ [][Next]_vars

\* The requests to LinkedIn have no timeout.
Waits(w) == pc[w] = "posting"
-----------------------------------------------------------------------------
(* Properties.                                                              *)

\* Nothing is published, or even claimed, without an operator's approval, and
\* nothing another capability or target was approved for: under every fault
\* and any number of workers.
OnlyGrantedIsPublished ==
  \A i \in Ids :
    (published[i] > 0 \/ status[i] \in {"executing", "executed"})
      => i \in granted \ Foreign

\* A rejection is final.
RejectionIsFinal ==
  [][\A i \in Ids : status[i] = "rejected" => status'[i] = "rejected"]_vars

\* An approval is marked executed only after LinkedIn took its post.
ExecutedWasPublished ==
  \A i \in Ids : status[i] = "executed" => published[i] > 0

\* Every worker in flight may exceed the limit by one post, and by another
\* one when midnight passes between its quota check and its post; no more than
\* that in one life of the process, which a restart ends with the count, as
\* long as it reads every answer of LinkedIn.
QuotaWithinWorkers == sent + 1 <= Limit + 2 * Cardinality(Workers)

\* With one worker at a time an approval is published a second time only when
\* its post was taken and recorded as failed: the answer of LinkedIn was lost,
\* or the write of "executed" failed.  Crashes and events cause no replay.
PublishedOnce == \A i \in Ids : published[i] <= 1 + unsettled[i]

\* Claimed approvals are executed or can be retried in the end, unless a crash,
\* the event of the claim or the last write of all failed, or the thread waits
\* for LinkedIn for ever.
ExecutionEnds ==
  \A i \in Ids :
    \/ status[i] = "executing" ~> status[i] \in {"executed", "approved"} \/ i \in stranded
    \/ <>[](\E w \in Workers : Waits(w) /\ job[w] = i)

\* "Atomically claim an approved action so it cannot be replayed
\* concurrently": two workers never execute one approval at the same time.
ClaimIsExclusive ==
  \A w, v \in Workers :
    w # v /\ pc[w] \in Claimed /\ pc[v] \in Claimed => job[w] # job[v]
-----------------------------------------------------------------------------
(* The life of an approval as the docstrings of services/approvals.py tell  *)
(* it: claimed by one execution at a time, retried only after a failure.    *)

Lifecycle == INSTANCE ApprovalLifecycle

\* Served by one worker at a time, the rows follow that life.
ImplementsLifecycle == Lifecycle!Spec
=============================================================================
