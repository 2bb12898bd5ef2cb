----------------------------- MODULE MCOperators -----------------------------
(* One agent, one operator in the chat who may press buttons, one session.   *)
EXTENDS Operators
=============================================================================
