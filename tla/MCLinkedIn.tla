----------------------------- MODULE MCLinkedIn -----------------------------
(* One scheduled post, one request of an operator, one worker thread.  The     *)
(* server is west of UTC: the poller takes the post an instant too early.      *)
EXTENDS LinkedIn

MCRunAt == [p \in Posts |-> 2]
MCOffset == [t \in 0..MaxClock |-> -1]
=============================================================================
