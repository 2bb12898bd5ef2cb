--------------------------- MODULE ScheduledPosts ---------------------------
(***************************************************************************)
(* The LinkedIn scheduler: agents/linkedin_agent/scheduler.py polls the     *)
(* table of storage.py and LinkedInService.publish_due turns every due post *)
(* into an approval request.                                                *)
(*                                                                          *)
(* The two stores are separate databases: the approval is committed in one, *)
(* then the post is marked in the other.  publish_due does not await, so    *)
(* only the worker threads of the endpoints and a crash come between its    *)
(* steps.  The posts of one poll are taken in run_at order; that order is   *)
(* left open here.                                                          *)
(***************************************************************************)
EXTENDS Integers, FiniteSets

CONSTANTS
  Posts,       \* scheduled posts
  RunAt,       \* scheduled_posts.run_at: the instant run_at.timestamp() gives
  Offset,      \* the server's UTC offset at every instant
  MaxClock,    \* bound: instants that pass
  MaxRestarts, \* bound: times the process ends and starts again
  PostFaults   \* what may go wrong, out of PostFaultKinds

PostFaultKinds == {"storage", "approval", "event", "crash"}

ASSUME PostFaultsAssumption == PostFaults \subseteq PostFaultKinds
ASSUME RestartsAssumption == MaxRestarts \in Nat
ASSUME ClockAssumption ==
  MaxClock \in Nat /\ RunAt \in [Posts -> Int] /\ Offset \in [0..MaxClock -> Int]

VARIABLES
  row,        \* scheduled_posts.status; "absent" before the row exists
  clock,      \* the time
  approvals,  \* approvals inserted for each post
  poller,     \* where the poller task is; "dead" after an exception
  batch,      \* what due_posts returned and publish_due has still to handle
  current,    \* the post publish_due is handling
  restarts    \* times the process ended

pollVars == <<poller, batch, current>>
postVars == <<row, clock, approvals, pollVars, restarts>>

\* "held" stands for any other state the client gave in ScheduleRequest.state.
Rows == {"absent", "pending", "held", "approval_requested", "approval_failed"}
PollerSteps == {"off", "asleep", "request", "mark_requested", "mark_failed", "dead"}

PostsTypeOK ==
  /\ row \in [Posts -> Rows]
  /\ clock \in 0..MaxClock
  /\ approvals \in [Posts -> Nat]
  /\ poller \in PollerSteps
  /\ batch \subseteq Posts
  /\ current \in Posts
  /\ poller \in {"request", "mark_requested", "mark_failed"} => batch # {}
  /\ restarts \in Nat

PostsInit ==
  /\ row = [p \in Posts |-> "absent"]
  /\ clock = 0
  /\ approvals = [p \in Posts |-> 0]
  /\ poller = "off"
  /\ batch = {}
  /\ current \in Posts
  /\ restarts = 0
-----------------------------------------------------------------------------
(* The endpoints and the clock.                                             *)

\* POST /agents/linkedin/schedule: upsert_scheduled_post inserts a row in the
\* state the request names.
Schedule(p, state) ==
  /\ row[p] = "absent"
  /\ row' = [row EXCEPT ![p] = state]
  /\ UNCHANGED <<clock, approvals, pollVars, restarts>>

TimePasses ==
  /\ clock < MaxClock
  /\ clock' = clock + 1
  /\ UNCHANGED <<row, approvals, pollVars, restarts>>
-----------------------------------------------------------------------------
(* The poller task.                                                         *)

\* dt.datetime.utcnow().timestamp(): the naive UTC time is taken for a local
\* one, so a server west of UTC looks ahead and one east of it behind; the
\* value goes back when summer time begins.
ReferenceAt(t) == t - Offset[t]

Due(p) == RunAt[p] <= ReferenceAt(clock)

\* start: the task's first step is a poll.
PollerStart ==
  /\ poller = "off"
  /\ poller' = "asleep"
  /\ UNCHANGED <<row, clock, approvals, batch, current, restarts>>

\* Mutant of DuePosts: the query forgets the time.
PendingPosts == {p \in Posts : row[p] = "pending"}

\* due_posts: the pending rows whose run_at the reference has reached.
DuePosts == {p \in Posts : row[p] = "pending" /\ Due(p)}

\* The sleep is over and publish_due reads the due posts; an exception of the
\* database leaves publish_due, and with it the task.
Poll ==
  /\ poller = "asleep"
  /\ \/ /\ batch' = DuePosts
        /\ poller' = IF batch' = {} THEN "asleep" ELSE "request"
     \/ /\ "storage" \in PostFaults
        /\ poller' = "dead"
        /\ UNCHANGED batch
  /\ UNCHANGED <<row, clock, approvals, current, restarts>>

\* Mutant of HandOver: a failed request is reported as made.
RequestReportsSuccess ==
  /\ poller = "request"
  /\ \E p \in batch :
       /\ current' = p
       /\ poller' = "mark_requested"
       /\ \/ approvals' = [approvals EXCEPT ![p] = @ + 1]
          \/ "approval" \in PostFaults /\ UNCHANGED approvals
  /\ UNCHANGED <<row, clock, batch, restarts>>

\* request_approval for the next post.  It fails before its insert is
\* committed, or after, when the event cannot be recorded.
HandOver ==
  /\ poller = "request"
  /\ \E p \in batch :
       /\ current' = p
       /\ \/ /\ approvals' = [approvals EXCEPT ![p] = @ + 1]
             /\ \/ poller' = "mark_requested"
                \/ "event" \in PostFaults /\ poller' = "mark_failed"
          \/ /\ "approval" \in PostFaults
             /\ poller' = "mark_failed"
             /\ UNCHANGED approvals
  /\ UNCHANGED <<row, clock, batch, restarts>>

Marked(status) ==
  /\ row' = [row EXCEPT ![current] = status]
  /\ batch' = batch \ {current}
  /\ poller' = IF batch' = {} THEN "asleep" ELSE "request"

\* Mutant of MarkRequested: the write is skipped.
MarkForgotten ==
  /\ poller = "mark_requested"
  /\ batch' = batch \ {current}
  /\ poller' = IF batch' = {} THEN "asleep" ELSE "request"
  /\ UNCHANGED <<row, clock, approvals, current, restarts>>

\* mark_done inside the try: its exception is handled like a failed request.
MarkRequested ==
  /\ poller = "mark_requested"
  /\ \/ Marked("approval_requested")
     \/ "storage" \in PostFaults /\ poller' = "mark_failed" /\ UNCHANGED <<row, batch>>
  /\ UNCHANGED <<clock, approvals, current, restarts>>

\* Mutant of MarkFailed: a failed request is left for the next poll.
FailureSkipped ==
  /\ poller = "mark_failed"
  /\ batch' = batch \ {current}
  /\ poller' = IF batch' = {} THEN "asleep" ELSE "request"
  /\ UNCHANGED <<row, clock, approvals, current, restarts>>

\* mark_done in the handler: its exception ends publish_due and the task.
MarkFailed ==
  /\ poller = "mark_failed"
  /\ \/ Marked("approval_failed")
     \/ /\ "storage" \in PostFaults
        /\ poller' = "dead"
        /\ batch' = {}
        /\ UNCHANGED row
  /\ UNCHANGED <<clock, approvals, current, restarts>>
-----------------------------------------------------------------------------
(* The process.                                                             *)

\* on_shutdown stops the scheduler, which sleeps or is dead by then; a new
\* process starts another one.
PollerStop ==
  /\ poller \in {"asleep", "dead"}
  /\ restarts < MaxRestarts
  /\ poller' = "off"
  /\ restarts' = restarts + 1
  /\ UNCHANGED <<row, clock, approvals, batch, current>>

PollerCrash ==
  /\ "crash" \in PostFaults
  /\ restarts < MaxRestarts
  /\ poller' = "off"
  /\ batch' = {}
  /\ restarts' = restarts + 1
  /\ UNCHANGED <<row, clock, approvals, current>>

PollerNext == Poll \/ HandOver \/ MarkRequested \/ MarkFailed

PostsNext ==
  \/ \E p \in Posts, state \in {"pending", "held"} : Schedule(p, state)
  \/ TimePasses
  \/ PollerStart
  \/ PollerNext
  \/ PollerStop
  \/ PollerCrash

PostsSpec == PostsInit /\ [][PostsNext]_postVars

\* Time passes, the event loop resumes the poller after its sleep, and a process
\* that ended is started again.
PostsFairSpec ==
  PostsSpec /\ WF_postVars(TimePasses) /\ WF_postVars(PollerNext) /\ WF_postVars(PollerStart)
-----------------------------------------------------------------------------
(* Properties.                                                              *)

\* A post gets one approval at most from each start of the service: within one
\* the poll after a failure, whichever it was, does not ask again.
OneApprovalPerStart == \A p \in Posts : approvals[p] <= 1 + restarts

\* A post marked as requested has an approval to decide on, whatever failed.
RequestedHasApproval ==
  \A p \in Posts : row[p] = "approval_requested" => approvals[p] > 0

\* A post that was handed over, or that failed to be, is not polled again: no
\* poll changes its row or asks for another approval for it.
HandledIsFinal ==
  [][\A p \in Posts :
       row[p] \in {"approval_requested", "approval_failed", "held"}
         => row'[p] = row[p] /\ approvals'[p] = approvals[p]]_postVars

\* Crashes, restarts and failing requests do not keep a due post from being
\* handed over; only a dead poller does.
DuePostIsHandledByLivePoller ==
  \A p \in Posts :
    (row[p] = "pending" /\ Due(p))
      ~> \/ row[p] \in {"approval_requested", "approval_failed"}
         \/ poller = "dead"
=============================================================================
