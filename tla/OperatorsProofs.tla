--------------------------- MODULE OperatorsProofs ---------------------------
(***************************************************************************)
(* What the operators can rely on: that the cockpit's script leaves nothing  *)
(* behind when it launches a gateway (Launcher), and what an answer of the   *)
(* control endpoints is worth (Operators), for any number of servers, runs,  *)
(* calls and faults, and any agents, operators, sessions and handlers.       *)
(*                                                                          *)
(* The argument for the launch is where each call stands between its system  *)
(* calls; for the answers, that the cache holds exactly the commands that    *)
(* were handed to the Supervisor and whose key has not expired, so that an   *)
(* answer from the cache is as good as one from the Supervisor.              *)
(***************************************************************************)
EXTENDS Operators, Launcher, TLAPS
-----------------------------------------------------------------------------
(* ensure_backend of the cockpit.                                            *)

\* A call has a number within the bound, so its gateway is one of Launches.
Calling == \A r \in Runs : pc[r] # "idle" => calls[r] > 0

LEMMA TypeInit == Init => TypeOK /\ Calling
  BY LauncherAssumption DEF Init, TypeOK, Calling, Labels, NoLock, Launches

\* The gateway of a call is one of Launches.
LEMMA CurrentLaunch ==
  ASSUME TypeOK, Calling, NEW r \in Runs, pc[r] # "idle"
  PROVE  Current(r) \in Launches
<1>1. calls[r] \in 1..MaxCalls
  BY LauncherAssumption DEF TypeOK, Calling
<1> QED
  BY <1>1 DEF Current, Launches

\* Who takes a step is in a call and goes on to a label; who owns the lock still
\* does, or leaves.
LEMMA StepMoves ==
  ASSUME NEW r \in Runs, Step(r)
  PROVE  /\ pc[r] \notin {"idle", "returned", "raised"}
         /\ UNCHANGED <<calls, up>>
         /\ \E l \in Labels : Goto(r, l) /\ (pc[r] \in Owning => l \in Owning \/ Leave(r) \/ WriteFails(r))
<1> USE DEF At, Labels, Owning
<1>1. CASE Check(r)
  <2>1. PICK healthy \in Healthy : Goto(r, IF healthy THEN "returned" ELSE "create")
    BY <1>1 DEF Check
  <2> QED
    BY <1>1, <2>1 DEF Check
<1>2. CASE CreateLock(r)
  BY <1>2 DEF CreateLock
<1>3. CASE WritePid(r) \/ WriteFails(r)
  BY <1>3 DEF WritePid, WriteFails
<1>4. CASE ReadLock(r)
  BY <1>4 DEF ReadLock
<1>5. CASE TakeAway(r)
  BY <1>5 DEF TakeAway
<1>6. CASE Wait(r) \/ WaitTimesOut(r)
  BY <1>6 DEF Wait, WaitTimesOut
<1>7. CASE Recheck(r)
  <2>1. PICK healthy \in Healthy : Goto(r, IF healthy THEN "leave" ELSE "launch")
    BY <1>7 DEF Recheck
  <2> QED
    BY <1>7, <2>1 DEF Recheck
<1>8. CASE Launch(r) \/ LaunchFails(r)
  BY <1>8 DEF Launch, LaunchFails
<1>9. CASE PollHealthy(r) \/ PollFails(r)
  BY <1>9 DEF PollHealthy, PollFails
<1>10. CASE CleanUp(r)
  BY <1>10 DEF CleanUp
<1>11. CASE Leave(r)
  BY <1>11 DEF Leave
<1> QED
  BY <1>1, <1>2, <1>3, <1>4, <1>5, <1>6, <1>7, <1>8, <1>9, <1>10, <1>11 DEF Step

\* What a step may do to the lock file: create it, fill it, or remove it.
LEMMA StepLocks ==
  ASSUME NEW r \in Runs, Step(r)
  PROVE  \/ UNCHANGED lock
         \/ lock' = [by |-> r, pid |-> FALSE] /\ Goto(r, "write")
         \/ lock.by = r /\ lock' = [lock EXCEPT !.pid = TRUE] /\ Goto(r, "recheck")
         \/ lock' = NoLock
<1>1. CASE CreateLock(r)
  BY <1>1 DEF CreateLock
<1>2. CASE WritePid(r)
  BY <1>2 DEF WritePid
<1>3. CASE TakeAway(r)
  BY <1>3 DEF TakeAway, TakenAway
<1>4. CASE Leave(r)
  BY <1>4 DEF Leave, Released
<1>5. CASE Check(r) \/ ReadLock(r) \/ Wait(r) \/ WaitTimesOut(r) \/ Recheck(r)
  BY <1>5 DEF Check, ReadLock, Wait, WaitTimesOut, Recheck
<1>6. CASE WriteFails(r) \/ Launch(r) \/ LaunchFails(r) \/ PollHealthy(r) \/ PollFails(r) \/ CleanUp(r)
  BY <1>6 DEF WriteFails, Launch, LaunchFails, PollHealthy, PollFails, CleanUp
<1> QED
  BY <1>1, <1>2, <1>3, <1>4, <1>5, <1>6 DEF Step

\* Only the creation of the file leads to its writing.
LEMMA WritesOwn ==
  ASSUME TypeOK, NEW r \in Runs, Step(r), UNCHANGED lock
  PROVE  pc'[r] # "write"
<1> USE DEF At, Goto, TypeOK
<1>1. CASE CreateLock(r)
  BY <1>1, LauncherAssumption DEF CreateLock, NoLock
<1>2. CASE WritePid(r) \/ WriteFails(r) \/ TakeAway(r) \/ Leave(r)
  BY <1>2 DEF WritePid, WriteFails, TakeAway, Leave
<1>3. CASE Check(r) \/ ReadLock(r) \/ Wait(r) \/ WaitTimesOut(r) \/ Recheck(r)
  BY <1>3 DEF Check, ReadLock, Wait, WaitTimesOut, Recheck
<1>4. CASE Launch(r) \/ LaunchFails(r) \/ PollHealthy(r) \/ PollFails(r) \/ CleanUp(r)
  BY <1>4 DEF Launch, LaunchFails, PollHealthy, PollFails, CleanUp
<1> QED
  BY <1>1, <1>2, <1>3, <1>4 DEF Step

\* The labels of a call that has launched nothing yet.
Before == {"check", "create", "write", "read", "unlink", "wait", "recheck", "launch"}

\* Only a launch and a clean-up touch the gateways; no other step leads back before
\* the launch, and one that leads to a failure starts before it or from a failure.
LEMMA StepOrder ==
  ASSUME NEW r \in Runs, Step(r)
  PROVE  \/ Launch(r) \/ CleanUp(r)
         \/ /\ UNCHANGED gateway
            /\ \E l \in Labels : /\ Goto(r, l)
                                 /\ l \in Before => pc[r] \in Before
                                 /\ l \in {"fail", "raised"} => pc[r] \in Before \cup {"fail"}
<1> USE DEF At, Labels, Before
<1>1. CASE Check(r)
  <2>1. PICK healthy \in Healthy : Goto(r, IF healthy THEN "returned" ELSE "create")
    BY <1>1 DEF Check
  <2> QED
    BY <1>1, <2>1 DEF Check
<1>2. CASE CreateLock(r)
  BY <1>2 DEF CreateLock
<1>3. CASE WritePid(r) \/ WriteFails(r)
  BY <1>3 DEF WritePid, WriteFails
<1>4. CASE ReadLock(r)
  BY <1>4 DEF ReadLock
<1>5. CASE TakeAway(r)
  BY <1>5 DEF TakeAway
<1>6. CASE Wait(r) \/ WaitTimesOut(r)
  BY <1>6 DEF Wait, WaitTimesOut
<1>7. CASE Recheck(r)
  <2>1. PICK healthy \in Healthy : Goto(r, IF healthy THEN "leave" ELSE "launch")
    BY <1>7 DEF Recheck
  <2> QED
    BY <1>7, <2>1 DEF Recheck
<1>8. CASE LaunchFails(r)
  BY <1>8 DEF LaunchFails
<1>9. CASE PollHealthy(r) \/ PollFails(r)
  BY <1>9 DEF PollHealthy, PollFails
<1>10. CASE Leave(r)
  BY <1>10 DEF Leave
<1> QED
  BY <1>1, <1>2, <1>3, <1>4, <1>5, <1>6, <1>7, <1>8, <1>9, <1>10 DEF Step

\* Steps do not touch the count of faults.
LEMMA StepFaults ==
  ASSUME NEW r \in Runs, Step(r)
  PROVE  UNCHANGED faults
<1>1. CASE Launch(r) \/ CleanUp(r) \/ CreateLock(r) \/ WritePid(r) \/ TakeAway(r) \/ Leave(r)
  BY <1>1 DEF Launch, CleanUp, CreateLock, WritePid, TakeAway, Leave
<1>2. CASE Check(r) \/ ReadLock(r) \/ Wait(r) \/ WaitTimesOut(r) \/ Recheck(r)
  BY <1>2 DEF Check, ReadLock, Wait, WaitTimesOut, Recheck
<1>3. CASE WriteFails(r) \/ LaunchFails(r) \/ PollHealthy(r) \/ PollFails(r)
  BY <1>3 DEF WriteFails, LaunchFails, PollHealthy, PollFails
<1> QED
  BY <1>1, <1>2, <1>3 DEF Step

\* All variables keep their types, and a call in work keeps its number.
LEMMA TypeStep == TypeOK /\ Calling /\ [Next]_vars => TypeOK' /\ Calling'
<1> SUFFICES ASSUME TypeOK, Calling, [Next]_vars PROVE TypeOK' /\ Calling'
  OBVIOUS
<1>1. ASSUME NEW r \in Runs, Call(r) PROVE TypeOK' /\ Calling'
  <2>1. calls' \in [Runs -> 0..MaxCalls] /\ calls'[r] > 0 /\ \A q \in Runs : calls'[q] >= calls[q]
    BY <1>1, LauncherAssumption DEF Call, TypeOK
  <2>2. pc' \in [Runs -> Labels] /\ \A q \in Runs \ {r} : pc'[q] = pc[q]
    BY <1>1 DEF Call, Goto, TypeOK, Labels
  <2>3. Calling'
    BY <2>1, <2>2 DEF Calling, TypeOK
  <2>4. lock' = lock /\ gateway' = gateway /\ up' = up /\ faults' = faults
    BY <1>1 DEF Call
  <2> QED
    BY <2>1, <2>2, <2>3, <2>4 DEF TypeOK, Launches, NoLock
<1>2. ASSUME NEW r \in Runs, Step(r) PROVE TypeOK' /\ Calling'
  <2>1. /\ pc[r] \notin {"idle", "returned", "raised"} /\ calls' = calls /\ up' = up
        /\ \E l \in Labels : Goto(r, l)
    BY <1>2, StepMoves
  <2>2. faults' = faults
    BY <1>2, StepFaults
  <2>3. pc' \in [Runs -> Labels] /\ Calling'
    BY <2>1 DEF TypeOK, Calling, Goto
  <2>4. lock' \in [by : Runs, pid : BOOLEAN] \cup {NoLock}
    <3>1. CASE lock.by = r /\ lock' = [lock EXCEPT !.pid = TRUE]
      <4>1. CASE lock = NoLock
        BY <3>1, <4>1, LauncherAssumption DEF NoLock
      <4>2. CASE lock \in [by : Runs, pid : BOOLEAN]
        BY <3>1, <4>2
      <4> QED
        BY <4>1, <4>2 DEF TypeOK
    <3>2. CASE lock' = [by |-> r, pid |-> FALSE]
      BY <3>2
    <3>3. CASE lock' = lock \/ lock' = NoLock
      BY <3>3 DEF TypeOK
    <3> QED
      BY <1>2, <3>1, <3>2, <3>3, StepLocks
  <2>5. gateway' \in [Launches -> {"none", "starting", "serving", "exited"}]
    <3>1. CASE Launch(r) \/ CleanUp(r)
      BY <3>1 DEF Launch, CleanUp, Terminated, TypeOK
    <3>2. CASE UNCHANGED gateway
      BY <3>2 DEF TypeOK
    <3> QED
      BY <1>2, <3>1, <3>2, StepOrder
  <2> QED
    BY <2>1, <2>2, <2>3, <2>4, <2>5 DEF TypeOK, Launches, NoLock
<1>3. ASSUME NEW g \in Launches, Bind(g) PROVE TypeOK' /\ Calling'
  <2>1. gateway' \in [Launches -> {"none", "starting", "serving", "exited"}]
    BY <1>3 DEF Bind, TypeOK
  <2> QED
    BY <1>3, <2>1 DEF Bind, TypeOK, Calling, Launches, NoLock
<1>4. ASSUME NEW g \in Launches, StartupFails(g) \/ Exit(g) PROVE TypeOK' /\ Calling'
  <2>1. gateway' \in [Launches -> {"none", "starting", "serving", "exited"}]
    BY <1>4 DEF StartupFails, Exit, TypeOK
  <2>2. faults' \in 0..MaxFaults
    BY <1>4, LauncherAssumption DEF StartupFails, Exit, TypeOK
  <2> QED
    BY <1>4, <2>1, <2>2 DEF StartupFails, Exit, TypeOK, Calling, Launches, NoLock
<1>5. ASSUME NEW s \in Servers, ServerEnds(s) PROVE TypeOK' /\ Calling'
  <2>1. faults' \in 0..MaxFaults
    BY <1>5, LauncherAssumption DEF ServerEnds, TypeOK
  <2> QED
    BY <1>5, <2>1 DEF ServerEnds, TypeOK, Calling, Launches, NoLock
<1>6. CASE UNCHANGED vars
  BY <1>6 DEF vars, TypeOK, Calling, Launches, NoLock
<1> QED
  BY <1>1, <1>2, <1>3, <1>4, <1>5, <1>6 DEF Next

\* All variables keep their types, for any threads, servers, calls and faults.
THEOREM TypeCorrect == Spec => []TypeOK
  BY TypeInit, TypeStep, PTL DEF Spec

\* The file of a call that has still to write has no pid.
LockInv ==
  /\ LockHasHolder
  /\ \A r \in Runs : pc[r] = "write" /\ lock.by = r => ~lock.pid

\* Every step keeps the lock with a call in work or a server that was killed.
LEMMA LockStep == TypeOK /\ LockInv /\ [Next]_vars => LockInv'
<1> SUFFICES ASSUME TypeOK, LockInv, [Next]_vars PROVE LockInv'
  OBVIOUS
<1>0. lock # NoLock => lock.by \in Runs
  BY DEF TypeOK
<1>1. ASSUME NEW r \in Runs, Call(r) PROVE LockInv'
  <2>1. \A q \in Runs : /\ pc[q] \in Owning => pc'[q] \in Owning
                        /\ pc'[q] = "write" => pc[q] = "write"
    BY <1>1 DEF Call, Goto, Owning, TypeOK
  <2> QED
    BY <1>0, <1>1, <2>1 DEF Call, LockInv, LockHasHolder, NoLock
<1>2. ASSUME NEW r \in Runs, Step(r) PROVE LockInv'
  <2>1. up' = up /\ \E l \in Labels : Goto(r, l)
    BY <1>2, StepMoves
  <2>2. \A q \in Runs : q # r => pc'[q] = pc[q]
    BY <2>1 DEF Goto, TypeOK
  <2>3. CASE lock' = NoLock
    BY <2>3 DEF LockInv, LockHasHolder, NoLock
  <2>4. CASE lock' = [by |-> r, pid |-> FALSE] /\ Goto(r, "write")
    BY <2>4 DEF LockInv, LockHasHolder
  <2>5. CASE lock.by = r /\ lock' = [lock EXCEPT !.pid = TRUE] /\ Goto(r, "recheck")
    <3>1. pc'[r] = "recheck" /\ lock'.by = r
      BY <2>5, <1>0, LauncherAssumption DEF Goto, TypeOK, NoLock
    <3> QED
      BY <3>1 DEF LockInv, LockHasHolder, Owning
  <2>6. CASE UNCHANGED lock
    <3>1. pc'[r] = "write" => FALSE
      BY <1>2, <2>6, WritesOwn
    <3>2. CASE Leave(r)
      BY <3>2 DEF Leave, Released, LockInv, LockHasHolder, NoLock
    <3>3. CASE WriteFails(r)
      <4>1. pc[r] = "write"
        BY <3>3 DEF WriteFails, At
      <4>2. lock.by = r => ~lock.pid
        BY <4>1 DEF LockInv
      <4> QED
        BY <1>0, <2>1, <2>2, <2>6, <3>1, <4>2 DEF LockInv, LockHasHolder
    <3>4. CASE ~Leave(r) /\ ~WriteFails(r)
      <4>1. \A q \in Runs : pc[q] \in Owning => pc'[q] \in Owning
        BY <1>2, <3>4, StepMoves DEF Goto, TypeOK
      <4> QED
        BY <1>0, <2>1, <2>2, <2>6, <3>1, <4>1 DEF LockInv, LockHasHolder
    <3> QED
      BY <3>2, <3>3, <3>4
  <2> QED
    BY <1>2, <2>3, <2>4, <2>5, <2>6, StepLocks
<1>3. ASSUME NEW g \in Launches, Bind(g) \/ StartupFails(g) \/ Exit(g) PROVE LockInv'
  BY <1>3 DEF Bind, StartupFails, Exit, LockInv, LockHasHolder, NoLock
<1>4. ASSUME NEW s \in Servers, ServerEnds(s) PROVE LockInv'
  BY <1>4 DEF ServerEnds, LockInv, LockHasHolder, NoLock
<1>5. CASE UNCHANGED vars
  BY <1>5 DEF vars, LockInv, LockHasHolder, NoLock
<1> QED
  BY <1>1, <1>2, <1>3, <1>4, <1>5 DEF Next

\* No file is left that a later call would wait for: a lock with a pid belongs to
\* a call in work or to a server that was killed, however many threads take each
\* other's files away and fail to write their own.
THEOREM NoForgottenLock == Spec => []LockHasHolder
<1>1. Init => LockInv
  BY DEF Init, LockInv, LockHasHolder
<1>2. LockInv => LockHasHolder
  BY DEF LockInv
<1> QED
  BY TypeInit, TypeStep, LockStep, <1>1, <1>2, PTL DEF Spec
-----------------------------------------------------------------------------
\* A call has no gateway before it launches one, and none that runs once it has
\* failed; a later call has none yet.
NoneYet ==
  \A r \in Runs :
    /\ pc[r] \in Before => gateway[Current(r)] = "none"
    /\ \A n \in 1..MaxCalls : n > calls[r] => gateway[<<r, n>>] = "none"

FailedExited ==
  \A r \in Runs : pc[r] \in {"fail", "raised"} => gateway[Current(r)] \in {"none", "exited"}

LaunchInv == TypeOK /\ Calling /\ NoneYet /\ FailedExited

\* Every step keeps a call to one launch, and a failed call without a gateway.
LEMMA LaunchStep == LaunchInv /\ [Next]_vars => NoneYet' /\ FailedExited'
<1> SUFFICES ASSUME TypeOK, Calling, NoneYet, FailedExited, [Next]_vars
             PROVE  NoneYet' /\ FailedExited'
  BY DEF LaunchInv
<1>1. ASSUME NEW r \in Runs, Call(r) PROVE NoneYet' /\ FailedExited'
  <2>1. /\ gateway' = gateway
        /\ pc' = [pc EXCEPT ![r] = "check"] /\ calls' = [calls EXCEPT ![r] = @ + 1]
        /\ calls[r] \in Nat /\ calls[r] < MaxCalls
    BY <1>1, LauncherAssumption DEF Call, Goto, TypeOK
  <2>2. calls[r] + 1 \in 1..MaxCalls
    BY <2>1, LauncherAssumption
  <2>3. gateway[<<r, calls[r] + 1>>] = "none"
    BY <2>1, <2>2 DEF NoneYet
  <2>4. \A q \in Runs : q # r => pc'[q] = pc[q] /\ calls'[q] = calls[q]
    BY <2>1 DEF TypeOK
  <2>5. pc'[r] = "check" /\ calls'[r] = calls[r] + 1
    BY <2>1 DEF TypeOK
  <2>6. ASSUME NEW q \in Runs
        PROVE  /\ pc'[q] \in Before => gateway[<<q, calls'[q]>>] = "none"
               /\ \A n \in 1..MaxCalls : n > calls'[q] => gateway[<<q, n>>] = "none"
    <3>1. CASE q = r
      BY <2>1, <2>3, <2>5, <3>1 DEF NoneYet
    <3>2. CASE q # r
      BY <2>4, <3>2 DEF NoneYet, Current
    <3> QED
      BY <3>1, <3>2
  <2>7. FailedExited'
    BY <2>1, <2>4, <2>5 DEF FailedExited, Current
  <2> QED
    BY <2>1, <2>6, <2>7 DEF NoneYet, Current
<1>2. ASSUME NEW r \in Runs, Step(r) PROVE NoneYet' /\ FailedExited'
  <2>1. calls' = calls /\ pc[r] \notin {"idle", "returned", "raised"}
    BY <1>2, StepMoves
  <2>2. ASSUME NEW l \in Labels, UNCHANGED gateway, Goto(r, l),
               l \in Before => pc[r] \in Before,
               l \in {"fail", "raised"} => pc[r] \in Before \cup {"fail"}
        PROVE  NoneYet' /\ FailedExited'
    <3>1. pc'[r] = l /\ \A q \in Runs : q # r => pc'[q] = pc[q]
      BY <2>2 DEF Goto, TypeOK
    <3> QED
      BY <2>1, <2>2, <3>1 DEF NoneYet, FailedExited, Current
  <2>3. ASSUME NEW l \in {"poll", "fail"}, NEW v \in {"starting", "exited"}, Goto(r, l),
               l = "fail" => v = "exited",
               gateway' = [gateway EXCEPT ![Current(r)] = v]
        PROVE  NoneYet' /\ FailedExited'
    <3>1. Current(r) \in Launches
      BY <2>1, CurrentLaunch
    <3>2. pc'[r] = l /\ \A q \in Runs : q # r => pc'[q] = pc[q]
      BY <2>3 DEF Goto, TypeOK
    <3>3. gateway'[Current(r)] = v
      BY <2>3, <3>1 DEF TypeOK
    <3>4. \A h \in Launches : h # Current(r) => gateway'[h] = gateway[h]
      BY <2>3, <3>1 DEF TypeOK
    <3>5. ASSUME NEW q \in Runs, NEW n \in 1..MaxCalls, q = r => n > calls[r]
          PROVE  gateway'[<<q, n>>] = gateway[<<q, n>>]
      <4>1. <<q, n>> \in Launches
        BY DEF Launches
      <4>2. <<q, n>> # Current(r)
        BY <3>5, LauncherAssumption DEF Current, TypeOK
      <4> QED
        BY <3>4, <4>1, <4>2
    <3>6. ASSUME NEW q \in Runs, q # r, pc[q] # "idle"
          PROVE  gateway'[Current(q)] = gateway[Current(q)]
      <4>1. Current(q) \in Launches /\ Current(q) # Current(r)
        BY <3>6, CurrentLaunch DEF Current
      <4> QED
        BY <3>4, <4>1
    <3>7. \A q \in Runs : Current(q)' = Current(q)
      BY <2>1 DEF Current
    <3>8. NoneYet'
      <4>1. ASSUME NEW q \in Runs, pc'[q] \in Before PROVE gateway'[Current(q)] = "none"
        <5>1. q # r /\ pc[q] \in Before /\ pc[q] # "idle"
          BY <2>3, <3>2, <4>1 DEF Before
        <5> QED
          BY <3>6, <5>1 DEF NoneYet
      <4>2. ASSUME NEW q \in Runs, NEW n \in 1..MaxCalls, n > calls[q]
            PROVE  gateway'[<<q, n>>] = "none"
        BY <3>5, <4>2 DEF NoneYet
      <4> QED
        BY <2>1, <3>7, <4>1, <4>2 DEF NoneYet
    <3>9. FailedExited'
      <4>1. ASSUME NEW q \in Runs, pc'[q] \in {"fail", "raised"}
            PROVE  gateway'[Current(q)] \in {"none", "exited"}
        <5>1. CASE q = r
          BY <2>3, <3>2, <3>3, <4>1, <5>1
        <5>2. CASE q # r
          <6>1. pc[q] \in {"fail", "raised"}
            BY <3>2, <4>1, <5>2
          <6> QED
            BY <3>6, <5>2, <6>1 DEF FailedExited
        <5> QED
          BY <5>1, <5>2
      <4> QED
        BY <3>7, <4>1 DEF FailedExited
    <3> QED
      BY <3>8, <3>9
  <2>4. CASE Launch(r)
    BY <2>3, <2>4 DEF Launch
  <2>5. CASE CleanUp(r)
    BY <2>3, <2>5 DEF CleanUp, Terminated
  <2> QED
    BY <1>2, <2>2, <2>4, <2>5, StepOrder
<1>3. ASSUME NEW g \in Launches, Bind(g) \/ StartupFails(g) \/ Exit(g) PROVE NoneYet' /\ FailedExited'
  <2>1. gateway[g] \in {"starting", "serving"} /\ pc' = pc /\ calls' = calls
    BY <1>3 DEF Bind, StartupFails, Exit
  <2>2. \A h \in Launches : gateway[h] \in {"none", "exited"} => gateway'[h] = gateway[h]
    BY <1>3, <2>1 DEF Bind, StartupFails, Exit, TypeOK
  <2>3. \A q \in Runs : Current(q)' = Current(q) /\ (pc[q] # "idle" => Current(q) \in Launches)
    BY <2>1, CurrentLaunch DEF Current
  <2>4. NoneYet'
    <3>1. \A q \in Runs, n \in 1..MaxCalls : <<q, n>> \in Launches
      BY DEF Launches
    <3> QED
      BY <2>1, <2>2, <2>3, <3>1 DEF NoneYet, Before
  <2>5. FailedExited'
    BY <2>1, <2>2, <2>3 DEF FailedExited
  <2> QED
    BY <2>4, <2>5
<1>4. ASSUME NEW s \in Servers, ServerEnds(s) PROVE NoneYet' /\ FailedExited'
  BY <1>4 DEF ServerEnds, NoneYet, FailedExited, Current
<1>5. CASE UNCHANGED vars
  BY <1>5 DEF vars, NoneYet, FailedExited, Current
<1> QED
  BY <1>1, <1>2, <1>3, <1>4, <1>5 DEF Next

\* A call that raised leaves no gateway running that it launched, for any threads,
\* servers and faults.
THEOREM FailedLaunch == Spec => []FailedLaunchLeavesNothing
<1>1. Init => LaunchInv
  BY TypeInit DEF Init, LaunchInv, NoneYet, FailedExited, Before, Launches, Current
<1>2. LaunchInv /\ [Next]_vars => LaunchInv'
  BY TypeStep, LaunchStep DEF LaunchInv
<1>3. LaunchInv => FailedLaunchLeavesNothing
  BY DEF LaunchInv, FailedExited, FailedLaunchLeavesNothing
<1> QED
  BY <1>1, <1>2, <1>3, PTL DEF Spec
-----------------------------------------------------------------------------
(* The control endpoints.                                                    *)

CacheInv ==
  /\ answer \in [Callers -> Answers]
  /\ seen = taken

LEMMA CacheInit == OperatorsInit => CacheInv
  BY DEF OperatorsInit, ApiInit, CacheInv, Answers

\* The state the endpoints leave to their callers, by the kind of the step.
Asked == \E c \in Callers : \E command : Post(c, command)
Closed == \E c \in Callers :
  Heard(c) /\ Close(c) /\ UNCHANGED <<serving, running, seen, request, taken>>

\* Whatever the bot and the sessions do, towards the endpoints it is a request,
\* the end of one, or nothing.
LEMMA CallersPart ==
  OperatorsNext => ApiNext \/ Asked \/ Closed \/ UNCHANGED apiVars
<1> SUFFICES ASSUME OperatorsNext PROVE ApiNext \/ Asked \/ Closed \/ UNCHANGED apiVars
  OBVIOUS
<1>1. CASE BotNext
  <2>1. CASE Tick
    BY <2>1 DEF Tick
  <2>2. ASSUME NEW u \in Users,
               TurnedDown(u) \/ Greet(u) \/ Help(u) \/ Status(u) \/ Logs(u) \/ ListAgents(u)
        PROVE  UNCHANGED apiVars
    BY <2>2 DEF TurnedDown, Greet, Help, Status, Logs, ListAgents
  <2>3. ASSUME NEW u \in Users, NEW command \in Commands, Press(u, command)
        PROVE  UNCHANGED apiVars
    BY <2>3 DEF Press
  <2>4. ASSUME NEW u \in Users, NEW h \in Handlers, NEW command \in Commands,
               Order(u, h, command) \/ Confirm(u, h, command)
        PROVE  Asked
    BY <2>4, BotAssumption DEF Order, Confirm, Asked
  <2>5. ASSUME NEW h \in Handlers, Report(h) PROVE Closed
    BY <2>5, BotAssumption DEF Report, Closed
  <2> QED
    BY <1>1, <2>1, <2>2, <2>3, <2>4, <2>5 DEF BotNext
<1>2. CASE CockpitNext
  <2>1. ASSUME NEW s \in Sessions,
               SignIn(s) \/ TokenExpires(s) \/ Reload(s) \/ Interact(s)
        PROVE  UNCHANGED apiVars
    BY <2>1 DEF SignIn, TokenExpires, Reload, Interact, Use
  <2>2. ASSUME NEW s \in Sessions, NEW command \in Commands, Click(s, command)
        PROVE  UNCHANGED apiVars
    BY <2>2 DEF Click, Use
  <2>3. ASSUME NEW s \in Sessions, Restart(s) \/ LoadFails(s) \/ LoadPage(s)
        PROVE  UNCHANGED apiVars
    BY <2>3 DEF Restart, LoadFails, LoadPage
  <2>4. ASSUME NEW s \in Sessions, PostClick(s) PROVE Asked
    BY <2>4, SessionsAssumption DEF PostClick, Asked
  <2>5. ASSUME NEW s \in Sessions, Answered(s) PROVE Closed
    BY <2>5, SessionsAssumption DEF Answered, Closed
  <2> QED
    BY <1>2, <2>1, <2>2, <2>3, <2>4, <2>5 DEF CockpitNext, ScriptNext
<1> QED
  BY <1>1, <1>2 DEF OperatorsNext

\* The cache and the history of the Supervisor change together, and an awaited
\* answer becomes a success only for a command in them.
LEMMA ServedStep ==
  ASSUME CacheInv, NEW c \in Callers, Serve(c)
  PROVE  /\ CacheInv'
         /\ \A d \in Callers : answer[d] = "awaited" /\ answer'[d] = "ok" => request[d] \in taken'
<1> USE DEF CacheInv, Respond, Answers, IdempotencyKey
<1>1. CASE Take(c) BY <1>1 DEF Take
<1>2. CASE Repeat(c) BY <1>2 DEF Repeat
<1>3. CASE Refuse(c) BY <1>3 DEF Refuse
<1> QED BY <1>1, <1>2, <1>3 DEF Serve

LEMMA CacheStep ==
  ASSUME CacheInv, [OperatorsNext]_operatorVars
  PROVE  /\ CacheInv'
         /\ \A d \in Callers : answer[d] = "awaited" /\ answer'[d] = "ok" => request[d] \in taken'
<1> DEFINE Kept ==
      /\ CacheInv'
      /\ \A d \in Callers : answer[d] = "awaited" /\ answer'[d] = "ok" => request[d] \in taken'
<1> USE DEF CacheInv, Answers
<1>1. ASSUME NEW c \in Callers, TimeOut(c) PROVE Kept
  BY <1>1 DEF TimeOut
<1>2. ASSUME NEW c \in Callers, Serve(c) PROVE Kept
  BY <1>2, ServedStep
<1>3. ASSUME NEW key \in Commands, Expire(key) PROVE Kept
  BY <1>3 DEF Expire, IdempotencyKey
<1>4. ASSUME NEW a \in Agents, AgentEnds(a) PROVE Kept
  BY <1>4 DEF AgentEnds
<1>5. CASE GatewayStarts
  BY <1>5 DEF GatewayStarts
<1>6. CASE GatewayEnds
  BY <1>6 DEF GatewayEnds
<1>7. CASE ApiNext
  BY <1>1, <1>2, <1>3, <1>4, <1>5, <1>6, <1>7 DEF ApiNext
<1>8. CASE Asked
  BY <1>8 DEF Asked, Post
<1>9. CASE Closed
  BY <1>9 DEF Closed, Close, Heard
<1>10. CASE UNCHANGED apiVars
  BY <1>10 DEF apiVars
<1> QED
  BY <1>7, <1>8, <1>9, <1>10, CallersPart DEF operatorVars

\* A success that an operator is told, in the chat or on the page, stands for a
\* command the Supervisor was handed, for this request or within the TTL before
\* it (IdempotencyCache.allow, start_agent, stop_agent).
THEOREM SuccessTaken == OperatorsSpec => SuccessWasTaken
<1>1. CacheInv /\ [OperatorsNext]_operatorVars => CacheInv'
  BY CacheStep
<1>2. CacheInv /\ [OperatorsNext]_operatorVars
        => [\A c \in Callers :
              answer[c] = "awaited" /\ answer'[c] = "ok" => request[c] \in taken']_apiVars
  BY CacheStep
<1> QED
  BY <1>1, <1>2, CacheInit, PTL DEF OperatorsSpec, SuccessWasTaken
=============================================================================
