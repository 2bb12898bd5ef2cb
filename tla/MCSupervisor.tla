---------------------------- MODULE MCSupervisor ----------------------------
(* Small instances of Supervisor for TLC.                                   *)
EXTENDS Supervisor, TLC

\* Requests and tasks are interchangeable, agents are too when none has a bad
\* interval.
MCSymmetry == Permutations(Requests) \cup Permutations(Tasks)
=============================================================================
