---------------------------- MODULE MCDashboard -----------------------------
(* One agent; a request, of this console (h1) or of another one.              *)
EXTENDS Dashboard, TLC

CONSTANTS a1, h1, h2

MCInitial == [a \in Agents |-> "running"]
=============================================================================
