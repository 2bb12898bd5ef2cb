--------------------------- MODULE LinkedInProofs ----------------------------
(***************************************************************************)
(* The LinkedIn service and its two parts, for any posts, approvals, workers, *)
(* restarts and faults: first the approval gate of Approvals, with its quota *)
(* and, for one worker, the documented life of its rows; then the poller of  *)
(* ScheduledPosts; then the service, which keeps what its parts keep because *)
(* every step of it is a step of the gate or leaves it alone, and the same  *)
(* of the poller.  What is left to prove of it is where an approval came    *)
(* from.                                                                    *)
(***************************************************************************)
EXTENDS LinkedIn, FiniteSetTheorems, TLAPS
-----------------------------------------------------------------------------
(* The approval gate.                                                        *)

(* Types.                                                                   *)

LEMMA TypeInit == Init => TypeOK
<1> SUFFICES ASSUME Init PROVE TypeOK
  OBVIOUS
<1>1. PICK i \in Ids : job = [w \in Workers |-> i]
  BY DEF Init
<1>2. job \in [Workers -> Ids]
  BY <1>1
<1> QED
  BY <1>2 DEF Init, TypeOK, Statuses, Steps

LEMMA TypeStep == TypeOK /\ [Next]_vars => TypeOK'
<1> SUFFICES ASSUME TypeOK, [Next]_vars PROVE TypeOK'
  OBVIOUS
<1> USE DEF TypeOK, Statuses, Steps, Goto, SetStatus, rowVars, quotaVars, histVars, Strand, Unsettle
<1>1. ASSUME NEW i \in Ids, RequestApproval(i) PROVE TypeOK'
  BY <1>1 DEF RequestApproval
<1>2. ASSUME NEW i \in Ids, NEW approve \in BOOLEAN, Decide(i, approve) PROVE TypeOK'
  BY <1>2 DEF Decide
<1>3. ASSUME NEW w \in Workers, NEW i \in Ids, AcceptRequest(w, i) PROVE TypeOK'
  BY <1>3 DEF AcceptRequest
<1>4. ASSUME NEW w \in Workers, WorkerNext(w) PROVE TypeOK'
  <2>1. CASE ClaimRead(w) BY <2>1 DEF ClaimRead
  <2>2. CASE ClaimWrite(w) BY <2>2 DEF ClaimWrite
  <2>3. CASE QuotaCheck(w) BY <2>3 DEF QuotaCheck
  <2>4. CASE PostAccepted(w) BY <2>4 DEF PostAccepted
  <2>5. CASE PostRefused(w) BY <2>5 DEF PostRefused
  <2>6. CASE CountPost(w) BY <2>6 DEF CountPost
  <2>7. CASE FinishRead(w) BY <2>7 DEF FinishRead
  <2>8. CASE FinishWrite(w) BY <2>8 DEF FinishWrite
  <2>9. CASE FailRead(w) BY <2>9 DEF FailRead
  <2>10. CASE FailWrite(w) BY <2>10 DEF FailWrite
  <2> QED BY <1>4, <2>1, <2>2, <2>3, <2>4, <2>5, <2>6, <2>7, <2>8, <2>9, <2>10 DEF WorkerNext
<1>5. CASE Midnight BY <1>5 DEF Midnight
<1>6. CASE Crash BY <1>6 DEF Crash
<1>7. CASE UNCHANGED vars BY <1>7 DEF vars
<1> QED BY <1>1, <1>2, <1>3, <1>4, <1>5, <1>6, <1>7 DEF Next

\* Every variable keeps its type: the quota counter never goes below zero and
\* a row never has a status the code does not know.
THEOREM TypeCorrect == Spec => []TypeOK
BY TypeInit, TypeStep, PTL DEF Spec
-----------------------------------------------------------------------------
(* The gate.  What makes it inductive: a worker at work holds an approval    *)
(* that was granted, whatever happened to its row since.                     *)

WorkIsGranted ==
  \A w \in Workers : pc[w] # "idle" => job[w] \in granted \ Foreign

RowsAreGranted ==
  \A i \in Ids :
    /\ status[i] \in {"approved", "executing", "executed"} <=> i \in granted
    /\ status[i] \in {"executing", "executed"} => i \notin Foreign

PostsAreGranted == \A i \in Ids : published[i] > 0 => i \in granted \ Foreign

PostsPrecedeFinish ==
  /\ \A w \in Workers :
       pc[w] \in {"posted", "finish", "finishing"} => published[job[w]] > 0
  /\ \A i \in Ids : status[i] = "executed" => published[i] > 0

GateInv ==
  TypeOK /\ WorkIsGranted /\ RowsAreGranted /\ PostsAreGranted /\ PostsPrecedeFinish

LEMMA GateInit == Init => GateInv
<1> SUFFICES ASSUME Init PROVE GateInv OBVIOUS
<1>1. TypeOK BY TypeInit
<1> QED BY <1>1 DEF Init, GateInv, WorkIsGranted, RowsAreGranted, PostsAreGranted, PostsPrecedeFinish

LEMMA GateStep == GateInv /\ [Next]_vars => GateInv'
<1> SUFFICES ASSUME GateInv, [Next]_vars PROVE GateInv'
  OBVIOUS
<1>0. TypeOK' BY TypeStep DEF GateInv
<1> USE <1>0 DEF GateInv, WorkIsGranted, RowsAreGranted, PostsAreGranted, PostsPrecedeFinish,
                 TypeOK, Statuses, Goto, SetStatus, rowVars, quotaVars, histVars, Strand, Unsettle
<1>1. ASSUME NEW i \in Ids, RequestApproval(i) PROVE GateInv'
  BY <1>1 DEF RequestApproval
<1>2. ASSUME NEW i \in Ids, NEW approve \in BOOLEAN, Decide(i, approve) PROVE GateInv'
  BY <1>2 DEF Decide
<1>3. ASSUME NEW w \in Workers, NEW i \in Ids, AcceptRequest(w, i) PROVE GateInv'
  BY <1>3 DEF AcceptRequest
<1>4. ASSUME NEW w \in Workers, WorkerNext(w) PROVE GateInv'
  <2>1. CASE ClaimRead(w) BY <2>1 DEF ClaimRead
  <2>2. CASE ClaimWrite(w) BY <2>2 DEF ClaimWrite
  <2>3. CASE QuotaCheck(w) BY <2>3 DEF QuotaCheck
  <2>4. CASE PostAccepted(w) BY <2>4 DEF PostAccepted
  <2>5. CASE PostRefused(w) BY <2>5 DEF PostRefused
  <2>6. CASE CountPost(w) BY <2>6 DEF CountPost
  <2>7. CASE FinishRead(w) BY <2>7 DEF FinishRead
  <2>8. CASE FinishWrite(w) BY <2>8 DEF FinishWrite
  <2>9. CASE FailRead(w) BY <2>9 DEF FailRead
  <2>10. CASE FailWrite(w) BY <2>10 DEF FailWrite
  <2> QED BY <1>4, <2>1, <2>2, <2>3, <2>4, <2>5, <2>6, <2>7, <2>8, <2>9, <2>10 DEF WorkerNext
<1>5. CASE Midnight BY <1>5 DEF Midnight
<1>6. CASE Crash BY <1>6 DEF Crash
<1>7. CASE UNCHANGED vars BY <1>7 DEF vars
<1> QED BY <1>1, <1>2, <1>3, <1>4, <1>5, <1>6, <1>7 DEF Next

THEOREM GateInvariance == Spec => []GateInv
BY GateInit, GateStep, PTL DEF Spec

\* Nothing is claimed or published that an operator did not approve for
\* LinkedIn, however requests interleave and whatever fails.
THEOREM OnlyGranted == Spec => []OnlyGrantedIsPublished
<1>1. GateInv => OnlyGrantedIsPublished
  BY DEF GateInv, RowsAreGranted, PostsAreGranted, OnlyGrantedIsPublished
<1> QED BY <1>1, GateInvariance, PTL

\* A row reads "executed" only when LinkedIn took the post.
THEOREM ExecutedPublished == Spec => []ExecutedWasPublished
<1>1. GateInv => ExecutedWasPublished
  BY DEF GateInv, PostsPrecedeFinish, ExecutedWasPublished
<1> QED BY <1>1, GateInvariance, PTL

\* A rejected approval stays rejected: no decision, claim, retry or crash
\* revives it.
THEOREM RejectionFinal == Spec => RejectionIsFinal
<1>1. GateInv /\ [Next]_vars
        => [\A i \in Ids : status[i] = "rejected" => status'[i] = "rejected"]_vars
  <2> SUFFICES ASSUME GateInv, Next, NEW i \in Ids, status[i] = "rejected"
               PROVE  status'[i] = "rejected"
    BY DEF vars
  <2>1. i \notin granted BY DEF GateInv, RowsAreGranted
  <2>2. ASSUME NEW w \in Workers, pc[w] # "idle" PROVE job[w] # i
    BY <2>1, <2>2 DEF GateInv, WorkIsGranted
  <2> USE DEF GateInv, TypeOK, Goto, SetStatus, rowVars, quotaVars, histVars, Strand, Unsettle
  <2>3. ASSUME NEW j \in Ids, RequestApproval(j) PROVE status'[i] = "rejected"
    BY <2>3 DEF RequestApproval
  <2>4. ASSUME NEW j \in Ids, NEW approve \in BOOLEAN, Decide(j, approve) PROVE status'[i] = "rejected"
    BY <2>4 DEF Decide
  <2>5. ASSUME NEW w \in Workers, NEW j \in Ids, AcceptRequest(w, j) PROVE status'[i] = "rejected"
    BY <2>5 DEF AcceptRequest
  <2>6. ASSUME NEW w \in Workers, WorkerNext(w) PROVE status'[i] = "rejected"
    <3>1. pc[w] # "idle"
      BY <2>6 DEF WorkerNext, ClaimRead, ClaimWrite, QuotaCheck, PostAccepted, PostRefused,
                  CountPost, FinishRead, FinishWrite, FailRead, FailWrite
    <3>2. job[w] # i BY <2>2, <3>1
    <3> QED
      BY <2>6, <3>2 DEF WorkerNext, ClaimRead, ClaimWrite, QuotaCheck, PostAccepted, PostRefused,
                        CountPost, FinishRead, FinishWrite, FailRead, FailWrite
  <2>7. CASE Midnight \/ Crash BY <2>7 DEF Midnight, Crash
  <2> QED BY <2>3, <2>4, <2>5, <2>6, <2>7 DEF Next
<1> QED BY <1>1, GateInvariance, PTL DEF Spec, RejectionIsFinal
-----------------------------------------------------------------------------
(* One worker at a time.  Between its steps nobody else writes the row it    *)
(* works on, so what claim_approval and finish_approval read still holds     *)
(* when they write.                                                          *)

OneWorker == \A v, w \in Workers : v = w

Executing == {"claimed", "posting", "posted", "finish", "finishing", "reverting"}

RowInv ==
  \A w \in Workers :
    /\ pc[w] = "claiming" => status[job[w]] = "approved"
    /\ pc[w] \in Executing => status[job[w]] = "executing"
    /\ pc[w] = "fail" => status[job[w]] \in {"executing", "executed"}

LEMMA RowInit == Init => RowInv
BY DEF Init, RowInv, Executing

LEMMA RowStep ==
  ASSUME OneWorker, TypeOK, RowInv, [Next]_vars
  PROVE  RowInv'
<1> USE DEF RowInv, Executing, OneWorker, TypeOK, Statuses, Goto, SetStatus, rowVars, quotaVars, histVars, Strand, Unsettle
<1>1. ASSUME NEW i \in Ids, RequestApproval(i) PROVE RowInv'
  BY <1>1 DEF RequestApproval
<1>2. ASSUME NEW i \in Ids, NEW approve \in BOOLEAN, Decide(i, approve) PROVE RowInv'
  BY <1>2 DEF Decide
<1>3. ASSUME NEW w \in Workers, NEW i \in Ids, AcceptRequest(w, i) PROVE RowInv'
  BY <1>3 DEF AcceptRequest
<1>4. ASSUME NEW w \in Workers, WorkerNext(w) PROVE RowInv'
  <2>1. CASE ClaimRead(w) BY <2>1 DEF ClaimRead
  <2>2. CASE ClaimWrite(w) BY <2>2 DEF ClaimWrite
  <2>3. CASE QuotaCheck(w) BY <2>3 DEF QuotaCheck
  <2>4. CASE PostAccepted(w) BY <2>4 DEF PostAccepted
  <2>5. CASE PostRefused(w) BY <2>5 DEF PostRefused
  <2>6. CASE CountPost(w) BY <2>6 DEF CountPost
  <2>7. CASE FinishRead(w) BY <2>7 DEF FinishRead
  <2>8. CASE FinishWrite(w) BY <2>8 DEF FinishWrite
  <2>9. CASE FailRead(w) BY <2>9 DEF FailRead
  <2>10. CASE FailWrite(w) BY <2>10 DEF FailWrite
  <2> QED BY <1>4, <2>1, <2>2, <2>3, <2>4, <2>5, <2>6, <2>7, <2>8, <2>9, <2>10 DEF WorkerNext
<1>5. CASE Midnight BY <1>5 DEF Midnight
<1>6. CASE Crash BY <1>6 DEF Crash
<1>7. CASE UNCHANGED vars BY <1>7 DEF vars
<1> QED BY <1>1, <1>2, <1>3, <1>4, <1>5, <1>6, <1>7 DEF Next

LEMMA StepRefines ==
  ASSUME OneWorker, TypeOK, RowInv, [Next]_vars
  PROVE  [Lifecycle!Next]_status
<1> USE DEF RowInv, Executing, TypeOK, SetStatus, rowVars, Lifecycle!Next, Lifecycle!Move,
            Lifecycle!Request, Lifecycle!Approve, Lifecycle!Reject,
            Lifecycle!Claim, Lifecycle!Finish, Lifecycle!Retry
<1>1. ASSUME NEW i \in Ids, RequestApproval(i) PROVE [Lifecycle!Next]_status
  BY <1>1 DEF RequestApproval
<1>2. ASSUME NEW i \in Ids, NEW approve \in BOOLEAN, Decide(i, approve) PROVE [Lifecycle!Next]_status
  BY <1>2 DEF Decide
<1>3. ASSUME NEW w \in Workers, NEW i \in Ids, AcceptRequest(w, i) PROVE [Lifecycle!Next]_status
  BY <1>3 DEF AcceptRequest
<1>4. ASSUME NEW w \in Workers, WorkerNext(w) PROVE [Lifecycle!Next]_status
  <2>1. CASE ClaimRead(w) BY <2>1 DEF ClaimRead
  <2>2. CASE ClaimWrite(w) BY <2>2 DEF ClaimWrite
  <2>3. CASE QuotaCheck(w) BY <2>3 DEF QuotaCheck
  <2>4. CASE PostAccepted(w) BY <2>4 DEF PostAccepted
  <2>5. CASE PostRefused(w) BY <2>5 DEF PostRefused
  <2>6. CASE CountPost(w) BY <2>6 DEF CountPost
  <2>7. CASE FinishRead(w) BY <2>7 DEF FinishRead
  <2>8. CASE FinishWrite(w) BY <2>8 DEF FinishWrite
  <2>9. CASE FailRead(w) BY <2>9 DEF FailRead
  <2>10. CASE FailWrite(w) BY <2>10 DEF FailWrite
  <2> QED BY <1>4, <2>1, <2>2, <2>3, <2>4, <2>5, <2>6, <2>7, <2>8, <2>9, <2>10 DEF WorkerNext
<1>5. CASE Midnight BY <1>5 DEF Midnight
<1>6. CASE Crash BY <1>6 DEF Crash
<1>7. CASE UNCHANGED vars BY <1>7 DEF vars
<1> QED BY <1>1, <1>2, <1>3, <1>4, <1>5, <1>6, <1>7 DEF Next

\* Served one at a time, every step of the requests, of the faults and of the
\* decisions is a step of the documented life of an approval or none.
THEOREM FollowsLifecycle == ASSUME OneWorker PROVE Spec => ImplementsLifecycle
<1>1. Init => Lifecycle!Init
  BY DEF Init, Lifecycle!Init
<1>2. Spec => []RowInv
  <2>1. TypeOK /\ RowInv /\ [Next]_vars => RowInv'
    BY RowStep, OneWorker
  <2> QED BY <2>1, RowInit, TypeCorrect, PTL DEF Spec
<1>3. TypeOK /\ RowInv /\ [Next]_vars => [Lifecycle!Next]_status
  BY StepRefines, OneWorker
<1> QED BY <1>1, <1>2, <1>3, TypeCorrect, PTL DEF Spec, Lifecycle!Spec, ImplementsLifecycle

\* An approval that may be published next has no post but those recorded as
\* failed.
OnceInv ==
  /\ \A i \in Ids :
       /\ published[i] <= 1 + unsettled[i]
       /\ status[i] \notin {"executing", "executed"} => published[i] <= unsettled[i]
  /\ \A w \in Workers :
       /\ pc[w] \in {"claimed", "posting", "reverting"}
            => published[job[w]] <= unsettled[job[w]]
       /\ pc[w] = "fail" /\ status[job[w]] = "executing"
            => published[job[w]] <= unsettled[job[w]]

LEMMA OnceStep ==
  ASSUME OneWorker, TypeOK, RowInv, OnceInv, [Next]_vars
  PROVE  OnceInv'
<1> USE DEF OnceInv, RowInv, Executing, OneWorker, TypeOK, Statuses, Goto, SetStatus, rowVars, quotaVars, histVars, Strand, Unsettle
<1>1. ASSUME NEW i \in Ids, RequestApproval(i) PROVE OnceInv'
  BY <1>1 DEF RequestApproval
<1>2. ASSUME NEW i \in Ids, NEW approve \in BOOLEAN, Decide(i, approve) PROVE OnceInv'
  BY <1>2 DEF Decide
<1>3. ASSUME NEW w \in Workers, NEW i \in Ids, AcceptRequest(w, i) PROVE OnceInv'
  BY <1>3 DEF AcceptRequest
<1>4. ASSUME NEW w \in Workers, WorkerNext(w) PROVE OnceInv'
  <2>1. CASE ClaimRead(w) BY <2>1 DEF ClaimRead
  <2>2. CASE ClaimWrite(w) BY <2>2 DEF ClaimWrite
  <2>3. CASE QuotaCheck(w) BY <2>3 DEF QuotaCheck
  <2>4. CASE PostAccepted(w) BY <2>4 DEF PostAccepted
  <2>5. CASE PostRefused(w) BY <2>5 DEF PostRefused
  <2>6. CASE CountPost(w) BY <2>6 DEF CountPost
  <2>7. CASE FinishRead(w) BY <2>7 DEF FinishRead
  <2>8. CASE FinishWrite(w) BY <2>8 DEF FinishWrite
  <2>9. CASE FailRead(w) BY <2>9 DEF FailRead
  <2>10. CASE FailWrite(w) BY <2>10 DEF FailWrite
  <2> QED BY <1>4, <2>1, <2>2, <2>3, <2>4, <2>5, <2>6, <2>7, <2>8, <2>9, <2>10 DEF WorkerNext
<1>5. CASE Midnight BY <1>5 DEF Midnight
<1>6. CASE Crash BY <1>6 DEF Crash
<1>7. CASE UNCHANGED vars BY <1>7 DEF vars
<1> QED BY <1>1, <1>2, <1>3, <1>4, <1>5, <1>6, <1>7 DEF Next

\* Served one at a time, no approval is published again unless its post was
\* taken and recorded as failed: not after a crash, nor after an event that
\* could not be recorded.
THEOREM OncePublished ==
  ASSUME OneWorker
  PROVE  Spec => []PublishedOnce
<1>1. Init => RowInv /\ OnceInv
  BY RowInit DEF Init, OnceInv
<1>2. TypeOK /\ RowInv /\ OnceInv /\ [Next]_vars => RowInv' /\ OnceInv'
  BY RowStep, OnceStep, OneWorker
<1>3. OnceInv => PublishedOnce
  BY DEF OnceInv, PublishedOnce
<1> QED BY <1>1, <1>2, <1>3, TypeCorrect, PTL DEF Spec
-----------------------------------------------------------------------------
(* The daily quota.  What was posted today is in the count or in the hands of *)
(* a worker between its post and its count, but for what the first reset     *)
(* after midnight drops: posts of workers that had passed their check before, *)
(* of which each worker has one at most.                                     *)

At(step) == {w \in Workers : pc[w] = step}

QuotaInv ==
  /\ newDay => sent + Cardinality(At("posting")) <= Cardinality(Workers)
  /\ ~newDay =>
       /\ sent <= Cardinality(Workers) + daily + Cardinality(At("posted"))
       /\ daily + Cardinality(At("posting")) + Cardinality(At("posted"))
            < Limit + Cardinality(Workers)

LEMMA AtCounts ==
  ASSUME IsFiniteSet(Workers), NEW S \in SUBSET Workers
  PROVE  Cardinality(S) \in Nat /\ Cardinality(S) <= Cardinality(Workers)
BY FS_Subset, FS_CardinalityType

\* What a worker's move does to the number of workers at a step.
LEMMA MoveCounts ==
  ASSUME IsFiniteSet(Workers), TypeOK, NEW w \in Workers, NEW step, Goto(w, step),
         pc[w] # step, NEW at
  PROVE  LET here == Cardinality(At(at)) IN
           Cardinality(At(at)') = IF at = step THEN here + 1
                                  ELSE IF at = pc[w] THEN here - 1 ELSE here
<1>1. IsFiniteSet(At(at)) /\ Cardinality(At(at)) \in Nat
  BY AtCounts, FS_Subset DEF At
<1>2. CASE at = step
  <2>1. At(at)' = At(at) \cup {w} /\ w \notin At(at)
    BY <1>2 DEF At, Goto, TypeOK
  <2> QED
    BY <1>1, <1>2, <2>1, FS_AddElement
<1>3. CASE at # step /\ at = pc[w]
  <2>1. At(at)' = At(at) \ {w} /\ w \in At(at)
    BY <1>3 DEF At, Goto, TypeOK
  <2> QED
    BY <1>1, <1>3, <2>1, FS_RemoveElement
<1>4. CASE at # step /\ at # pc[w]
  <2>1. At(at)' = At(at)
    BY <1>4 DEF At, Goto, TypeOK
  <2> QED
    BY <1>4, <2>1
<1> QED
  BY <1>2, <1>3, <1>4

\* A worker is at one step: those between check and count are no more than all,
\* and fewer when one is elsewhere.
LEMMA BusyCounts ==
  ASSUME IsFiniteSet(Workers), NEW at
  PROVE  LET posting == {w \in Workers : at[w] = "posting"}
             posted == {w \in Workers : at[w] = "posted"}
         IN /\ Cardinality(posting) + Cardinality(posted) <= Cardinality(Workers)
            /\ \A w \in Workers : at[w] \notin {"posting", "posted"} =>
                 Cardinality(posting) + Cardinality(posted) < Cardinality(Workers)
<1> DEFINE posting == {w \in Workers : at[w] = "posting"}
           posted == {w \in Workers : at[w] = "posted"}
           busy == posting \cup posted
<1>1. /\ posting \in SUBSET Workers /\ posted \in SUBSET Workers /\ busy \in SUBSET Workers
      /\ posting \cap posted = {}
      /\ \A w \in Workers : at[w] \notin {"posting", "posted"} => w \notin busy
  OBVIOUS
<1> HIDE DEF posting, posted, busy
<1>2. IsFiniteSet(posting) /\ IsFiniteSet(posted)
  BY <1>1, FS_Subset
<1>3. /\ Cardinality(posting) \in Nat /\ Cardinality(posted) \in Nat
      /\ Cardinality(busy) \in Nat /\ Cardinality(Workers) \in Nat
  BY <1>1, AtCounts, FS_CardinalityType
<1>4. Cardinality(busy) = Cardinality(posting) + Cardinality(posted)
  <2>1. Cardinality(posting \cup posted)
          = Cardinality(posting) + Cardinality(posted) - Cardinality(posting \cap posted)
    BY <1>2, FS_Union
  <2>2. Cardinality(posting \cap posted) = 0
    BY <1>1, FS_EmptySet
  <2> QED
    BY <1>3, <2>1, <2>2 DEF busy
<1>5. Cardinality(busy) <= Cardinality(Workers)
  BY <1>1, FS_Subset
<1>6. ASSUME NEW w \in Workers, at[w] \notin {"posting", "posted"}
      PROVE  Cardinality(busy) # Cardinality(Workers)
  BY <1>1, <1>6, FS_Subset
<1> QED
  BY <1>3, <1>4, <1>5, <1>6 DEF posting, posted

LEMMA QuotaStep ==
  ASSUME IsFiniteSet(Workers), Workers # {}, "lost_reply" \notin Faults,
         TypeOK, QuotaInv, [Next]_vars
  PROVE  QuotaInv'
<1> DEFINE W == Cardinality(Workers)
           P == Cardinality(At("posting"))
           Q == Cardinality(At("posted"))
<1>1. W \in Nat /\ W > 0 /\ P \in Nat /\ Q \in Nat /\ P' \in Nat /\ Q' \in Nat
  BY AtCounts, FS_CardinalityType, FS_EmptySet DEF At
<1>2. /\ sent \in Nat /\ daily \in Nat /\ Limit \in Nat /\ newDay \in BOOLEAN
      /\ P + Q <= W /\ P' + Q' <= W
  BY BusyCounts, BoundsAssumption DEF TypeOK, At
<1>3. ASSUME UNCHANGED <<sent, daily, newDay>>, P' <= P, Q' <= Q,
             ~newDay => sent <= W + daily + Q'
      PROVE  QuotaInv'
  BY <1>1, <1>2, <1>3 DEF QuotaInv
<1>4. CASE UNCHANGED <<pc, sent, daily, newDay>>
  BY <1>4 DEF QuotaInv, At
<1>5. ASSUME NEW w \in Workers, NEW step, Goto(w, step), pc[w] \notin {"posting", "posted", step},
             step \notin {"posting", "posted"}, UNCHANGED <<sent, daily, newDay>>
      PROVE  QuotaInv'
  <2>1. P' = P /\ Q' = Q
    BY <1>5, MoveCounts
  <2> QED
    BY <1>3, <1>5, <2>1 DEF QuotaInv
<1>6. ASSUME NEW w \in Workers, QuotaCheck(w) PROVE QuotaInv'
  <2>1. /\ pc[w] = "claimed" /\ newDay' = FALSE /\ sent' = sent
        /\ daily' = IF newDay THEN 0 ELSE daily
    BY <1>6 DEF QuotaCheck
  <2>2. P + Q < W
    BY <2>1, BusyCounts DEF At
  <2>3. CASE Goto(w, "posting") /\ daily' < Limit
    <3>1. P' = P + 1 /\ Q' = Q
      BY <2>1, <2>3, MoveCounts
    <3> QED
      BY <1>1, <1>2, <2>1, <2>2, <2>3, <3>1 DEF QuotaInv
  <2>4. CASE Goto(w, "fail")
    <3>1. P' = P /\ Q' = Q
      BY <2>1, <2>4, MoveCounts
    <3> QED
      BY <1>1, <1>2, <2>1, <2>2, <3>1 DEF QuotaInv
  <2> QED
    BY <1>6, <2>3, <2>4 DEF QuotaCheck
<1>7. ASSUME NEW w \in Workers, PostAccepted(w) PROVE QuotaInv'
  <2>1. /\ pc[w] = "posting" /\ Goto(w, "posted")
        /\ sent' = sent + 1 /\ UNCHANGED <<daily, newDay>>
    BY <1>7 DEF PostAccepted
  <2>2. P' = P - 1 /\ Q' = Q + 1
    BY <2>1, MoveCounts
  <2> QED
    BY <1>1, <1>2, <2>1, <2>2 DEF QuotaInv
<1>8. ASSUME NEW w \in Workers, PostRefused(w) PROVE QuotaInv'
  <2>1. pc[w] = "posting" /\ Goto(w, "fail") /\ UNCHANGED <<sent, daily, newDay>>
    BY <1>8 DEF PostRefused, quotaVars
  <2>2. P' = P - 1 /\ Q' = Q
    BY <2>1, MoveCounts
  <2> QED
    BY <1>1, <1>2, <2>1, <2>2 DEF QuotaInv
<1>9. ASSUME NEW w \in Workers, CountPost(w) PROVE QuotaInv'
  <2>1. /\ pc[w] = "posted" /\ Goto(w, "finish")
        /\ daily' = daily + 1 /\ UNCHANGED <<sent, newDay>>
    BY <1>9 DEF CountPost
  <2>2. P' = P /\ Q' = Q - 1
    BY <2>1, MoveCounts
  <2> QED
    BY <1>1, <1>2, <2>1, <2>2 DEF QuotaInv
<1>10. ASSUME NEW w \in Workers, NEW i \in Ids, AcceptRequest(w, i) PROVE QuotaInv'
  BY <1>5, <1>10 DEF AcceptRequest, quotaVars
<1>11. ASSUME NEW w \in Workers, ClaimRead(w) \/ ClaimWrite(w) PROVE QuotaInv'
  BY <1>5, <1>11 DEF ClaimRead, ClaimWrite, quotaVars
<1>12. ASSUME NEW w \in Workers, FinishRead(w) \/ FinishWrite(w) PROVE QuotaInv'
  BY <1>5, <1>12 DEF FinishRead, FinishWrite, quotaVars
<1>13. ASSUME NEW w \in Workers, FailRead(w) \/ FailWrite(w) PROVE QuotaInv'
  BY <1>5, <1>13 DEF FailRead, FailWrite, quotaVars
<1>14. CASE Midnight
  <2>1. newDay' = TRUE /\ sent' = 0 /\ P' = P
    BY <1>14 DEF Midnight, At
  <2> QED
    BY <1>1, <1>2, <2>1 DEF QuotaInv
<1>15. CASE Crash
  <2>1. newDay' = FALSE /\ sent' = 0 /\ daily' = 0 /\ At("posting")' = {} /\ At("posted")' = {}
    BY <1>15 DEF Crash, At
  <2>2. P' = 0 /\ Q' = 0
    BY <2>1, FS_EmptySet
  <2> QED
    BY <1>1, <1>2, <2>1, <2>2 DEF QuotaInv
<1>16. CASE \E i \in Ids : RequestApproval(i) \/ \E approve \in BOOLEAN : Decide(i, approve)
  BY <1>4, <1>16 DEF RequestApproval, Decide, quotaVars
<1>17. CASE UNCHANGED vars
  BY <1>4, <1>17 DEF vars, quotaVars
<1> QED
  BY <1>6, <1>7, <1>8, <1>9, <1>10, <1>11, <1>12, <1>13, <1>14, <1>15, <1>16, <1>17
     DEF Next, WorkerNext

\* The daily limit is passed by the workers in flight only, once for each and
\* once more over a midnight (_assert_quota, _reset_daily_if_needed, publish):
\* for any number of threads, approvals, days and restarts, unless answers of
\* LinkedIn are lost, which posts without a count.
THEOREM QuotaKept ==
  ASSUME IsFiniteSet(Workers), Workers # {}, "lost_reply" \notin Faults
  PROVE  Spec => []QuotaWithinWorkers
<1>1. Cardinality(Workers) \in Nat /\ Cardinality(Workers) > 0
  BY FS_CardinalityType, FS_EmptySet
<1>2. Init => QuotaInv
  <2> SUFFICES ASSUME Init PROVE QuotaInv
    OBVIOUS
  <2>1. At("posting") = {} /\ At("posted") = {}
    BY DEF Init, At
  <2>2. Cardinality(At("posting")) = 0 /\ Cardinality(At("posted")) = 0
    BY <2>1, FS_EmptySet
  <2>3. Limit \in Nat /\ sent = 0 /\ daily = 0 /\ newDay = FALSE
    BY BoundsAssumption DEF Init
  <2> QED
    BY <1>1, <2>2, <2>3 DEF QuotaInv
<1>3. TypeOK /\ QuotaInv /\ [Next]_vars => QuotaInv'
  BY QuotaStep
<1>4. TypeOK /\ QuotaInv => QuotaWithinWorkers
  <2> SUFFICES ASSUME TypeOK, QuotaInv PROVE QuotaWithinWorkers
    OBVIOUS
  <2>1. /\ Cardinality(At("posting")) \in Nat /\ Cardinality(At("posted")) \in Nat
        /\ sent \in Nat /\ daily \in Nat /\ newDay \in BOOLEAN /\ Limit \in Nat
    BY AtCounts, BoundsAssumption DEF TypeOK, At
  <2> QED
    BY <1>1, <2>1 DEF QuotaInv, QuotaWithinWorkers
<1> QED
  BY <1>2, <1>3, <1>4, TypeCorrect, PTL DEF Spec
-----------------------------------------------------------------------------
(* The poller.  What a poll still has to handle is pending and stays so,     *)
(* because only the poller writes a row once it exists (BatchInv).          *)

Marking == poller \in {"mark_requested", "mark_failed"}

BatchInv ==
  /\ \A p \in batch : row[p] = "pending"
  /\ Marking => current \in batch
  /\ poller \in {"off", "asleep", "dead"} => batch = {}

MarkInv ==
  /\ poller = "mark_requested" => approvals[current] > 0
  /\ RequestedHasApproval

IInv == PostsTypeOK /\ BatchInv /\ MarkInv
-----------------------------------------------------------------------------
LEMMA InvInit == PostsInit => IInv
BY ClockAssumption DEF PostsInit, IInv, PostsTypeOK, BatchInv, MarkInv, Marking, RequestedHasApproval, Rows, PollerSteps

LEMMA PostsTypeStep ==
  ASSUME PostsTypeOK, BatchInv, [PostsNext]_postVars
  PROVE  PostsTypeOK'
<1> USE DEF PostsTypeOK, BatchInv, Marking, Rows, PollerSteps, pollVars
<1>1. ASSUME NEW p \in Posts, NEW state \in {"pending", "held"}, Schedule(p, state) PROVE PostsTypeOK'
  BY <1>1 DEF Schedule
<1>2. CASE TimePasses BY <1>2, ClockAssumption DEF TimePasses
<1>3. CASE PollerStart BY <1>3 DEF PollerStart
<1>4. CASE Poll BY <1>4 DEF Poll, DuePosts
<1>5. CASE HandOver BY <1>5 DEF HandOver
<1>6. CASE MarkRequested BY <1>6 DEF MarkRequested, Marked
<1>7. CASE MarkFailed BY <1>7 DEF MarkFailed, Marked
<1>8. CASE PollerStop BY <1>8 DEF PollerStop
<1>9. CASE PollerCrash BY <1>9 DEF PollerCrash
<1>10. CASE UNCHANGED postVars BY <1>10 DEF postVars
<1> QED BY <1>1, <1>2, <1>3, <1>4, <1>5, <1>6, <1>7, <1>8, <1>9, <1>10 DEF PostsNext, PollerNext

LEMMA BatchStep ==
  ASSUME PostsTypeOK, BatchInv, [PostsNext]_postVars
  PROVE  BatchInv'
<1> USE DEF PostsTypeOK, BatchInv, Marking, PollerSteps, pollVars
<1>1. ASSUME NEW p \in Posts, NEW state \in {"pending", "held"}, Schedule(p, state) PROVE BatchInv'
  BY <1>1 DEF Schedule
<1>2. CASE TimePasses BY <1>2 DEF TimePasses
<1>3. CASE PollerStart BY <1>3 DEF PollerStart
<1>4. CASE Poll BY <1>4 DEF Poll, DuePosts
<1>5. CASE HandOver BY <1>5 DEF HandOver
<1>6. CASE MarkRequested BY <1>6 DEF MarkRequested, Marked
<1>7. CASE MarkFailed BY <1>7 DEF MarkFailed, Marked
<1>8. CASE PollerStop BY <1>8 DEF PollerStop
<1>9. CASE PollerCrash BY <1>9 DEF PollerCrash
<1>10. CASE UNCHANGED postVars BY <1>10 DEF postVars
<1> QED BY <1>1, <1>2, <1>3, <1>4, <1>5, <1>6, <1>7, <1>8, <1>9, <1>10 DEF PostsNext, PollerNext

LEMMA MarkStep ==
  ASSUME PostsTypeOK, BatchInv, MarkInv, [PostsNext]_postVars
  PROVE  MarkInv'
<1> USE DEF PostsTypeOK, BatchInv, MarkInv, Marking, RequestedHasApproval, pollVars
<1>1. ASSUME NEW p \in Posts, NEW state \in {"pending", "held"}, Schedule(p, state) PROVE MarkInv'
  BY <1>1 DEF Schedule
<1>2. CASE TimePasses BY <1>2 DEF TimePasses
<1>3. CASE PollerStart BY <1>3 DEF PollerStart
<1>4. CASE Poll BY <1>4 DEF Poll, DuePosts
<1>5. CASE HandOver BY <1>5 DEF HandOver
<1>6. CASE MarkRequested BY <1>6 DEF MarkRequested, Marked
<1>7. CASE MarkFailed BY <1>7 DEF MarkFailed, Marked
<1>8. CASE PollerStop BY <1>8 DEF PollerStop
<1>9. CASE PollerCrash BY <1>9 DEF PollerCrash
<1>10. CASE UNCHANGED postVars BY <1>10 DEF postVars
<1> QED BY <1>1, <1>2, <1>3, <1>4, <1>5, <1>6, <1>7, <1>8, <1>9, <1>10 DEF PostsNext, PollerNext

THEOREM Invariance == PostsSpec => []IInv
<1>1. IInv /\ [PostsNext]_postVars => IInv'
  BY PostsTypeStep, BatchStep, MarkStep DEF IInv
<1> QED BY <1>1, InvInit, PTL DEF PostsSpec

\* The variables keep their types; in particular the poller is never inside
\* its loop with nothing left to handle.
THEOREM PostsTypeCorrect == PostsSpec => []PostsTypeOK
<1>1. IInv => PostsTypeOK BY DEF IInv
<1> QED BY <1>1, Invariance, PTL

\* A post marked approval_requested has an approval, whatever database failed
\* and wherever the process crashed.
THEOREM RequestedApproval == PostsSpec => []RequestedHasApproval
<1>1. IInv => RequestedHasApproval BY DEF IInv, MarkInv
<1> QED BY <1>1, Invariance, PTL

LEMMA FinalStep ==
  ASSUME PostsTypeOK, BatchInv, [PostsNext]_postVars,
         NEW q \in Posts, row[q] \in {"approval_requested", "approval_failed", "held"}
  PROVE  row'[q] = row[q] /\ approvals'[q] = approvals[q]
<1> DEFINE Kept == row'[q] = row[q] /\ approvals'[q] = approvals[q]
<1> USE DEF PostsTypeOK, BatchInv, Marking, pollVars
<1>1. ASSUME NEW p \in Posts, NEW state \in {"pending", "held"}, Schedule(p, state) PROVE Kept
  BY <1>1 DEF Schedule
<1>2. CASE TimePasses BY <1>2 DEF TimePasses
<1>3. CASE PollerStart BY <1>3 DEF PollerStart
<1>4. CASE Poll BY <1>4 DEF Poll, DuePosts
<1>5. CASE HandOver BY <1>5 DEF HandOver
<1>6. CASE MarkRequested BY <1>6 DEF MarkRequested, Marked
<1>7. CASE MarkFailed BY <1>7 DEF MarkFailed, Marked
<1>8. CASE PollerStop BY <1>8 DEF PollerStop
<1>9. CASE PollerCrash BY <1>9 DEF PollerCrash
<1>10. CASE UNCHANGED postVars BY <1>10 DEF postVars
<1> QED BY <1>1, <1>2, <1>3, <1>4, <1>5, <1>6, <1>7, <1>8, <1>9, <1>10 DEF PostsNext, PollerNext

\* A handled post is final: no later poll, restart or failure touches its row
\* or asks for a second approval.
THEOREM HandledFinal == PostsSpec => HandledIsFinal
<1>1. IInv /\ [PostsNext]_postVars
        => [\A p \in Posts :
              row[p] \in {"approval_requested", "approval_failed", "held"}
                => row'[p] = row[p] /\ approvals'[p] = approvals[p]]_postVars
  BY FinalStep DEF IInv
<1> QED BY <1>1, Invariance, PTL DEF PostsSpec, HandledIsFinal
-----------------------------------------------------------------------------
(* Within one start of the service the approval and the mark cannot come     *)
(* apart, unless the poller dies of it.                                     *)

\* Posts the current start of the service has not asked an approval for.
Unasked(p) ==
  /\ row[p] \in {"absent", "pending", "held"}
  /\ poller # "dead"
  /\ ~(Marking /\ current = p)

PostsOnceInv ==
  \A p \in Posts :
    /\ approvals[p] <= 1 + restarts
    /\ Unasked(p) => approvals[p] <= restarts

LEMMA PostsOnceStep ==
  ASSUME PostsTypeOK, BatchInv, PostsOnceInv, [PostsNext]_postVars
  PROVE  PostsOnceInv'
<1> USE DEF PostsTypeOK, BatchInv, PostsOnceInv, Unasked, Marking, pollVars
<1>1. ASSUME NEW p \in Posts, NEW state \in {"pending", "held"}, Schedule(p, state) PROVE PostsOnceInv'
  BY <1>1 DEF Schedule
<1>2. CASE TimePasses BY <1>2 DEF TimePasses
<1>3. CASE PollerStart BY <1>3 DEF PollerStart
<1>4. CASE Poll BY <1>4 DEF Poll, DuePosts
<1>5. CASE HandOver BY <1>5 DEF HandOver
<1>6. CASE MarkRequested BY <1>6 DEF MarkRequested, Marked
<1>7. CASE MarkFailed BY <1>7 DEF MarkFailed, Marked
<1>8. CASE PollerStop BY <1>8 DEF PollerStop
<1>9. CASE PollerCrash BY <1>9 DEF PollerCrash
<1>10. CASE UNCHANGED postVars BY <1>10 DEF postVars
<1> QED BY <1>1, <1>2, <1>3, <1>4, <1>5, <1>6, <1>7, <1>8, <1>9, <1>10 DEF PostsNext, PollerNext

\* No post is handed over twice by one start of the service, however many
\* approval requests, events and accesses to the table fail (publish_due).
THEOREM OneApproval == PostsSpec => []OneApprovalPerStart
<1>1. PostsInit => PostsOnceInv
  BY DEF PostsInit, PostsOnceInv, Unasked
<1>2. IInv /\ PostsOnceInv /\ [PostsNext]_postVars => PostsOnceInv'
  BY PostsOnceStep DEF IInv
<1>3. PostsOnceInv => OneApprovalPerStart
  BY DEF PostsOnceInv, OneApprovalPerStart
<1> QED BY <1>1, <1>2, <1>3, Invariance, PTL DEF PostsSpec
-----------------------------------------------------------------------------
(* The service.                                                              *)

(* The parts.                                                               *)

LEMMA GatePart == LinkedInNext => [Next]_vars
<1> SUFFICES ASSUME LinkedInNext PROVE [Next]_vars
  OBVIOUS
<1>1. CASE Login \/ TokenExpires \/ Agenda \/ StartUp \/ Time
  BY <1>1 DEF Login, TokenExpires, Agenda, StartUp, Time
<1>2. ASSUME NEW what, Insert(what) PROVE Next
  BY <1>2 DEF Insert, Next
<1>3. CASE RequestDirect
  BY <1>2, <1>3 DEF RequestDirect
<1>4. CASE PollerWorks
  BY <1>2, <1>4 DEF PollerWorks, AskApproval
<1>5. ASSUME NEW i \in Ids, NEW approve \in BOOLEAN, Decision(i, approve) PROVE Next
  BY <1>5 DEF Decision, Next
<1>6. ASSUME NEW w \in Workers, NEW i \in Ids, Publish(w, i) PROVE Next
  BY <1>6 DEF Publish, Next
<1>7. ASSUME NEW w \in Workers, Work(w) PROVE Next
  BY <1>7 DEF Work, Next
<1>8. CASE ShutDown \/ Die \/ NewDay
  BY <1>8 DEF ShutDown, Die, NewDay, Next
<1> QED
  BY <1>1, <1>3, <1>4, <1>5, <1>6, <1>7, <1>8 DEF LinkedInNext

LEMMA PollerPart == LinkedInNext => [PostsNext]_postVars
<1> SUFFICES ASSUME LinkedInNext PROVE [PostsNext]_postVars
  OBVIOUS
<1>1. CASE Login \/ TokenExpires \/ RequestDirect \/ NewDay
  BY <1>1 DEF Login, TokenExpires, RequestDirect, NewDay
<1>2. ASSUME NEW i \in Ids, NEW approve \in BOOLEAN, Decision(i, approve) PROVE UNCHANGED postVars
  BY <1>2 DEF Decision
<1>3. ASSUME NEW w \in Workers, NEW i \in Ids, Publish(w, i) PROVE UNCHANGED postVars
  BY <1>3 DEF Publish
<1>4. ASSUME NEW w \in Workers, Work(w) PROVE UNCHANGED postVars
  BY <1>4 DEF Work
<1>5. CASE Agenda
  BY <1>5 DEF Agenda, PostsNext
<1>6. CASE PollerWorks
  BY <1>6 DEF PollerWorks, AskApproval, PostsNext, PollerNext
<1>7. CASE StartUp \/ ShutDown \/ Die \/ Time
  BY <1>7 DEF StartUp, ShutDown, Die, Time, PostsNext
<1> QED
  BY <1>1, <1>2, <1>3, <1>4, <1>5, <1>6, <1>7 DEF LinkedInNext

\* The service is an instance of the approval gate and of the scheduler, so what
\* was proved of either holds for it.
THEOREM Parts == LinkedInSpec => Spec /\ PostsSpec
<1>1. LinkedInInit => Init /\ PostsInit
  BY DEF LinkedInInit
<1>2. [LinkedInNext]_serviceVars => [Next]_vars /\ [PostsNext]_postVars
  BY GatePart, PollerPart DEF serviceVars
<1> QED
  BY <1>1, <1>2, PTL DEF LinkedInSpec, Spec, PostsSpec
-----------------------------------------------------------------------------
(* Where an approval came from.                                             *)

Awaited == {"pending", "approval_requested", "approval_failed"}

\* What is polled was due, and an approval that names a post was asked for when
\* that post was due and pending.
OriginInv ==
  /\ origin \in [Ids -> Posts \cup {"none", "operator"}]
  /\ \A p \in batch : WasDue(p)
  /\ \A i \in Ids : origin[i] \in Posts => WasDue(origin[i]) /\ row[origin[i]] \in Awaited

LEMMA OriginInit == LinkedInInit => OriginInv
  BY OriginsAssumption DEF LinkedInInit, PostsInit, OriginInv

\* Time never goes back, the reference does.
LEMMA WasDueStays ==
  ASSUME PostsTypeOK, [PostsNext]_postVars, NEW p \in Posts
  PROVE  (WasDue(p) => WasDue(p)') /\ (Due(p) => WasDue(p))
<1>1. clock \in Nat /\ clock' \in Nat /\ clock <= clock'
  BY ClockAssumption DEF PostsTypeOK, PostsNext, PollerNext, postVars, pollVars, Schedule,
    TimePasses, PollerStart, Poll, HandOver, MarkRequested, MarkFailed, PollerStop, PollerCrash
<1>2. 0..clock \subseteq 0..clock' /\ clock \in 0..clock
  BY <1>1
<1> QED
  BY <1>2 DEF WasDue, Due, ReferenceAt

\* Rows that exist keep out of "absent" and "held", and what is polled was due.
LEMMA RowsStep ==
  ASSUME PostsTypeOK, BatchInv, OriginInv, [PostsNext]_postVars
  PROVE  /\ \A p \in batch' : WasDue(p)
         /\ \A p \in Posts : row[p] \in Awaited => row'[p] \in Awaited
<1> DEFINE Kept ==
      /\ \A p \in batch' : WasDue(p)
      /\ \A p \in Posts : row[p] \in Awaited => row'[p] \in Awaited
<1> USE DEF PostsTypeOK, OriginInv, Awaited, pollVars
<1>1. ASSUME NEW p \in Posts, NEW state \in {"pending", "held"}, Schedule(p, state) PROVE Kept
  BY <1>1 DEF Schedule
<1>2. CASE TimePasses BY <1>2 DEF TimePasses
<1>3. CASE PollerStart BY <1>3 DEF PollerStart
<1>4. CASE Poll
  <2>1. \A p \in DuePosts : WasDue(p)
    BY WasDueStays DEF DuePosts
  <2> QED
    BY <1>4, <2>1 DEF Poll
<1>5. CASE HandOver BY <1>5 DEF HandOver
<1>6. CASE MarkRequested BY <1>6 DEF MarkRequested, Marked
<1>7. CASE MarkFailed BY <1>7 DEF MarkFailed, Marked
<1>8. CASE PollerStop BY <1>8 DEF PollerStop
<1>9. CASE PollerCrash BY <1>9 DEF PollerCrash
<1>10. CASE UNCHANGED postVars BY <1>10 DEF postVars
<1> QED BY <1>1, <1>2, <1>3, <1>4, <1>5, <1>6, <1>7, <1>8, <1>9, <1>10 DEF PostsNext, PollerNext

\* A new approval names a post only when the poller just asked for it.
LEMMA NewOrigin ==
  ASSUME PostsTypeOK, BatchInv, OriginInv, LinkedInNext
  PROVE  /\ origin' \in [Ids -> Posts \cup {"none", "operator"}]
         /\ \A i \in Ids : origin'[i] \in Posts =>
              origin'[i] = origin[i] \/ (WasDue(origin'[i]) /\ row[origin'[i]] = "pending")
<1> DEFINE Known ==
      /\ origin' \in [Ids -> Posts \cup {"none", "operator"}]
      /\ \A i \in Ids : origin'[i] \in Posts =>
           origin'[i] = origin[i] \/ (WasDue(origin'[i]) /\ row[origin'[i]] = "pending")
<1> USE DEF OriginInv
<1>1. ASSUME UNCHANGED origin PROVE Known
  BY <1>1
<1>2. CASE RequestDirect
  <2>1. PICK i \in Ids : origin' = [origin EXCEPT ![i] = "operator"]
    BY <1>2 DEF RequestDirect, Insert
  <2> QED
    BY <2>1, OriginsAssumption
<1>3. CASE AskApproval
  <2>1. current' \in batch
    BY <1>3 DEF AskApproval, HandOver
  <2>2. current' \in Posts /\ WasDue(current') /\ row[current'] = "pending"
    BY <2>1 DEF PostsTypeOK, BatchInv
  <2>3. CASE UNCHANGED origin
    BY <2>3, <1>1
  <2>4. CASE Insert(current')
    <3>1. PICK i \in Ids : origin' = [origin EXCEPT ![i] = current']
      BY <2>4 DEF Insert
    <3> QED
      BY <2>2, <3>1
  <2> QED
    BY <1>3, <2>3, <2>4 DEF AskApproval
<1>4. CASE PollerWorks
  BY <1>1, <1>3, <1>4 DEF PollerWorks
<1>5. ASSUME NEW i \in Ids, NEW approve \in BOOLEAN, Decision(i, approve) PROVE UNCHANGED origin
  BY <1>5 DEF Decision
<1>6. ASSUME NEW w \in Workers, NEW i \in Ids, Publish(w, i) PROVE UNCHANGED origin
  BY <1>6 DEF Publish
<1>7. ASSUME NEW w \in Workers, Work(w) PROVE UNCHANGED origin
  BY <1>7 DEF Work
<1>8. CASE Login \/ TokenExpires \/ Agenda \/ StartUp \/ ShutDown \/ Die \/ Time \/ NewDay
  BY <1>1, <1>8 DEF Login, TokenExpires, Agenda, StartUp, ShutDown, Die, Time, NewDay
<1> QED
  BY <1>1, <1>2, <1>4, <1>5, <1>6, <1>7, <1>8 DEF LinkedInNext

LEMMA OriginStep == IInv /\ OriginInv /\ [LinkedInNext]_serviceVars => OriginInv'
<1> SUFFICES ASSUME IInv, OriginInv, [LinkedInNext]_serviceVars PROVE OriginInv'
  OBVIOUS
<1>1. CASE LinkedInNext
  <2>1. PostsTypeOK /\ BatchInv
    BY DEF IInv
  <2>2. [PostsNext]_postVars
    BY <1>1, PollerPart
  <2>3. /\ \A p \in batch' : WasDue(p)
        /\ \A p \in Posts : row[p] \in Awaited => row'[p] \in Awaited
    BY <2>1, <2>2, RowsStep
  <2>4. batch' \subseteq Posts
    BY <2>1, <2>2, PostsTypeStep DEF PostsTypeOK
  <2>5. \A p \in Posts : WasDue(p) => WasDue(p)'
    BY <2>1, <2>2, WasDueStays
  <2>6. /\ origin' \in [Ids -> Posts \cup {"none", "operator"}]
        /\ \A i \in Ids : origin'[i] \in Posts =>
             origin'[i] = origin[i] \/ (WasDue(origin'[i]) /\ row[origin'[i]] = "pending")
    BY <1>1, <2>1, NewOrigin
  <2>7. \A p \in batch' : WasDue(p)'
    BY <2>3, <2>4, <2>5
  <2>8. ASSUME NEW i \in Ids, origin'[i] \in Posts
        PROVE  WasDue(origin'[i]) /\ row[origin'[i]] \in Awaited
    BY <2>6, <2>8 DEF OriginInv, Awaited
  <2>9. \A i \in Ids : origin'[i] \in Posts => WasDue(origin[i])' /\ row'[origin'[i]] \in Awaited
    BY <2>3, <2>5, <2>8 DEF WasDue
  <2> QED
    BY <2>6, <2>7, <2>9 DEF OriginInv
<1>2. CASE UNCHANGED serviceVars
  BY <1>2 DEF serviceVars, postVars, pollVars, OriginInv, WasDue
<1> QED
  BY <1>1, <1>2

THEOREM OriginInvariance == LinkedInSpec => []OriginInv
  BY OriginInit, OriginStep, Parts, Invariance, PTL DEF LinkedInSpec

\* LinkedIn gets a scheduled post only after the reference of due_posts reached
\* its run_at, approved and not held back (publish_due, decide,
\* publish_approved), whatever fails, interleaves or restarts in between and
\* whatever the server's time zone.
THEOREM PublishedDue == LinkedInSpec => []PublishedWhenDue
<1>1. OriginInv /\ OnlyGrantedIsPublished => PublishedWhenDue
  BY DEF OriginInv, Awaited, OnlyGrantedIsPublished, PublishedWhenDue
<1> QED
  BY <1>1, OriginInvariance, Parts, OnlyGranted, PTL

\* A server at most W west of UTC publishes no post more than W before its
\* run_at (due_posts); at or east of UTC, W = 0, none before it.
THEOREM AheadByOffset ==
  ASSUME NEW W \in Int, \A t \in 0..MaxClock : -W <= Offset[t]
  PROVE  LinkedInSpec => []EarlyByNoMoreThan(W)
<1>1. PostsTypeOK /\ OriginInv => EarlyByNoMoreThan(W)
  <2> SUFFICES ASSUME PostsTypeOK, OriginInv, NEW i \in Ids, origin[i] \in Posts
               PROVE  RunAt[origin[i]] <= clock + W
    BY DEF EarlyByNoMoreThan
  <2>1. PICK t \in 0..clock : RunAt[origin[i]] <= t - Offset[t]
    BY DEF OriginInv, WasDue, ReferenceAt
  <2>2. clock \in Nat /\ t \in 0..MaxClock /\ t <= clock
    BY ClockAssumption DEF PostsTypeOK
  <2>3. RunAt[origin[i]] \in Int /\ Offset[t] \in Int /\ -W <= Offset[t]
    BY <2>2, ClockAssumption
  <2> QED
    BY <2>1, <2>2, <2>3
<1> QED
  BY <1>1, OriginInvariance, Parts, PostsTypeCorrect, PTL
=============================================================================
