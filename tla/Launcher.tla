------------------------------ MODULE Launcher ------------------------------
(***************************************************************************)
(* ensure_backend of streamlit_app.py: every run of the Streamlit script     *)
(* makes sure that a gateway serves, and launches one otherwise.  The runs  *)
(* are threads of one or several Streamlit servers; they share a lock file  *)
(* and the gateway's port.                                                  *)
(*                                                                          *)
(* A call is modelled at the grain of its system calls: a health check, the *)
(* O_EXCL creation of the lock file, the write of the pid into it (into the *)
(* file that was created, whether or not it still has its name), the read   *)
(* of the pid, the unlink, the launch.  _BACKEND_PROCESS is a global of the *)
(* script, which Streamlit executes anew for every run: it is None when a   *)
(* call begins.  A deadline may pass whenever a call polls.                 *)
(***************************************************************************)
EXTENDS Naturals

CONSTANTS
  Runs,      \* threads that run the script
  Servers,   \* Streamlit servers, each with a pid
  ServerOf,  \* the server of a thread
  MaxCalls,  \* bound: calls of one thread
  MaxFaults, \* bound: Streamlit servers and serving gateways that end by themselves
  NoRun

ASSUME LauncherAssumption ==
  /\ ServerOf \in [Runs -> Servers]
  /\ MaxCalls \in Nat /\ MaxFaults \in Nat
  /\ NoRun \notin Runs

VARIABLES
  pc,      \* where the call of a thread is
  calls,   \* calls a thread has made
  up,      \* the servers that run
  lock,    \* the lock file: the thread whose call created it, and whether the pid is in it
  gateway, \* the gateway each call launched
  faults

vars == <<pc, calls, up, lock, gateway, faults>>

NoLock == [by |-> NoRun, pid |-> FALSE]

\* Every call launches at most one gateway: it is named by the thread and the
\* number of the call.
Launches == Runs \X (1..MaxCalls)

\* /healthz answers when a gateway serves.
Serving == \E g \in Launches : gateway[g] = "serving"

\* The answers of _healthy: none that comes in time is always possible.
Healthy == IF Serving THEN BOOLEAN ELSE {FALSE}

Init ==
  /\ pc = [r \in Runs |-> "idle"] /\ calls = [r \in Runs |-> 0]
  /\ up = Servers
  /\ lock = NoLock
  /\ gateway = [g \in Launches |-> "none"]
  /\ faults = 0

At(r, label) == pc[r] = label /\ ServerOf[r] \in up
Goto(r, label) == pc' = [pc EXCEPT ![r] = label]
Current(r) == <<r, calls[r]>>
-----------------------------------------------------------------------------
(* A call of ensure_backend.                                                 *)

\* The script is run, or run again.
Call(r) ==
  /\ pc[r] \in {"idle", "returned", "raised"} /\ ServerOf[r] \in up
  /\ calls[r] < MaxCalls
  /\ calls' = [calls EXCEPT ![r] = @ + 1]
  /\ Goto(r, "check")
  /\ UNCHANGED <<up, lock, gateway, faults>>

\* The first health check.
Check(r) ==
  /\ At(r, "check")
  /\ \E healthy \in Healthy : Goto(r, IF healthy THEN "returned" ELSE "create")
  /\ UNCHANGED <<calls, up, lock, gateway, faults>>

\* os.open with O_CREAT | O_EXCL: the owner creates an empty file.
CreateLock(r) ==
  /\ At(r, "create")
  /\ IF lock = NoLock
       THEN lock' = [by |-> r, pid |-> FALSE] /\ Goto(r, "write")
       ELSE Goto(r, "read") /\ UNCHANGED lock
  /\ UNCHANGED <<calls, up, gateway, faults>>

\* The pid reaches the file that was created, if that is still the lock.
WritePid(r) ==
  /\ At(r, "write")
  /\ lock' = IF lock.by = r THEN [lock EXCEPT !.pid = TRUE] ELSE lock
  /\ Goto(r, "recheck")
  /\ UNCHANGED <<calls, up, gateway, faults>>

\* The pid cannot be written: the empty file stays.
WriteFails(r) ==
  /\ At(r, "write") /\ Goto(r, "raised")
  /\ UNCHANGED <<calls, up, lock, gateway, faults>>

\* _lock_pid and _pid_alive: the file is there, has a pid, and the process runs.
HolderLives == lock # NoLock /\ lock.pid /\ ServerOf[lock.by] \in up

\* The file exists: wait for its holder, or take the file away.
ReadLock(r) ==
  /\ At(r, "read")
  /\ Goto(r, IF HolderLives THEN "wait" ELSE "unlink")
  /\ UNCHANGED <<calls, up, lock, gateway, faults>>

\* Mutant of TakenAway: a file without a pid is left to whoever created it.
TakenAwayIfDead == IF lock.pid THEN NoLock ELSE lock

TakenAway == NoLock

\* _release_lock of whatever file has the name by now, and a new attempt.
TakeAway(r) ==
  /\ At(r, "unlink")
  /\ lock' = TakenAway
  /\ Goto(r, "check")
  /\ UNCHANGED <<calls, up, gateway, faults>>

\* Who does not own the lock polls until the deadline.
Wait(r) ==
  /\ At(r, "wait")
  /\ TRUE \in Healthy /\ Goto(r, "returned")
  /\ UNCHANGED <<calls, up, lock, gateway, faults>>

WaitTimesOut(r) ==
  /\ At(r, "wait") /\ Goto(r, "raised")
  /\ UNCHANGED <<calls, up, lock, gateway, faults>>

\* The owner looks again before it launches.
Recheck(r) ==
  /\ At(r, "recheck")
  /\ \E healthy \in Healthy : Goto(r, IF healthy THEN "leave" ELSE "launch")
  /\ UNCHANGED <<calls, up, lock, gateway, faults>>

Launch(r) ==
  /\ At(r, "launch")
  /\ gateway' = [gateway EXCEPT ![Current(r)] = "starting"]
  /\ Goto(r, "poll")
  /\ UNCHANGED <<calls, up, lock, faults>>

\* The log file cannot be opened, or the process cannot be made.
LaunchFails(r) ==
  /\ At(r, "launch") /\ Goto(r, "fail")
  /\ UNCHANGED <<calls, up, lock, gateway, faults>>

\* The owner polls; its process may have exited, or the deadline may pass.
PollHealthy(r) ==
  /\ At(r, "poll") /\ TRUE \in Healthy /\ Goto(r, "leave")
  /\ UNCHANGED <<calls, up, lock, gateway, faults>>

PollFails(r) ==
  /\ At(r, "poll") /\ Goto(r, "clean up")
  /\ UNCHANGED <<calls, up, lock, gateway, faults>>

\* Mutant of Terminated: a gateway that already serves is spared.
TerminatedWhileStarting(g) == IF gateway[g] = "starting" THEN "exited" ELSE gateway[g]

Terminated(g) == "exited"

\* _cleanup_failed_process: terminate, and kill after five seconds.
CleanUp(r) ==
  /\ At(r, "clean up")
  /\ gateway' = [gateway EXCEPT ![Current(r)] = Terminated(Current(r))]
  /\ Goto(r, "fail")
  /\ UNCHANGED <<calls, up, lock, faults>>

\* Mutant of Released: only a failure removes the file.
ReleasedOnFailure(r) == IF pc[r] = "fail" THEN NoLock ELSE lock

Released(r) == NoLock

\* The finally clause: the file is removed, whoever created it.
Leave(r) ==
  /\ ServerOf[r] \in up
  /\ \/ pc[r] = "leave" /\ Goto(r, "returned")
     \/ pc[r] = "fail" /\ Goto(r, "raised")
  /\ lock' = Released(r)
  /\ UNCHANGED <<calls, up, gateway, faults>>
-----------------------------------------------------------------------------
(* The gateways and the servers.                                             *)

\* The gateway has started up and binds its port: one can, another exits.
Bind(g) ==
  /\ gateway[g] = "starting"
  /\ gateway' = [gateway EXCEPT ![g] = IF Serving THEN "exited" ELSE "serving"]
  /\ UNCHANGED <<pc, calls, up, lock, faults>>

\* The registry is not valid, or an agent of it cannot be imported or made: the
\* gateway exits before it binds its port.
StartupFails(g) ==
  /\ gateway[g] = "starting" /\ faults < MaxFaults
  /\ gateway' = [gateway EXCEPT ![g] = "exited"]
  /\ faults' = faults + 1
  /\ UNCHANGED <<pc, calls, up, lock>>

\* A gateway ends while it serves.
Exit(g) ==
  /\ gateway[g] = "serving" /\ faults < MaxFaults
  /\ gateway' = [gateway EXCEPT ![g] = "exited"]
  /\ faults' = faults + 1
  /\ UNCHANGED <<pc, calls, up, lock>>

\* A Streamlit server is killed: its threads stop where they are; the lock file
\* and the gateways stay.
ServerEnds(s) ==
  /\ s \in up /\ faults < MaxFaults
  /\ up' = up \ {s}
  /\ faults' = faults + 1
  /\ UNCHANGED <<pc, calls, lock, gateway>>

Step(r) ==
  \/ Check(r) \/ CreateLock(r) \/ WritePid(r) \/ WriteFails(r) \/ ReadLock(r)
  \/ TakeAway(r) \/ Wait(r) \/ WaitTimesOut(r)
  \/ Recheck(r) \/ Launch(r) \/ LaunchFails(r) \/ PollHealthy(r) \/ PollFails(r)
  \/ CleanUp(r) \/ Leave(r)

Next ==
  \/ \E r \in Runs : Call(r) \/ Step(r)
  \/ \E g \in Launches : Bind(g) \/ StartupFails(g) \/ Exit(g)
  \/ \E s \in Servers : ServerEnds(s)

Spec == Init /\ [][Next]_vars

\* A thread of a server that runs is scheduled, and deadlines pass.
FairSpec == Spec /\ \A r \in Runs : WF_vars(Step(r))
-----------------------------------------------------------------------------
(* Properties.                                                               *)

Labels == {"idle", "check", "create", "write", "read", "unlink", "wait", "recheck", "launch",
           "poll", "clean up", "fail", "leave", "returned", "raised"}

TypeOK ==
  /\ pc \in [Runs -> Labels]
  /\ calls \in [Runs -> 0..MaxCalls]
  /\ up \subseteq Servers
  /\ lock \in [by : Runs, pid : BOOLEAN] \cup {NoLock}
  /\ gateway \in [Launches -> {"none", "starting", "serving", "exited"}]
  /\ faults \in 0..MaxFaults

Owning == {"write", "recheck", "launch", "poll", "clean up", "fail", "leave"}

\* A lock file with a pid belongs to a call that is still in work, or to a
\* server that was killed: however calls take each other's files away, none is
\* left behind that a later call would wait for.
LockHasHolder ==
  lock # NoLock /\ lock.pid => pc[lock.by] \in Owning \/ ServerOf[lock.by] \notin up

\* A call that raised leaves no gateway behind that it launched, though the
\* gateway may have begun to serve, and others to use it, when the call gave up.
FailedLaunchLeavesNothing ==
  \A r \in Runs : pc[r] = "raised" => gateway[Current(r)] \in {"none", "exited"}

\* Every call ends, though calls may unlink each other's files and start over.
CallsEnd ==
  \A r \in Runs :
    pc[r] = "check" ~> (pc[r] \in {"returned", "raised"} \/ ServerOf[r] \notin up)
=============================================================================
