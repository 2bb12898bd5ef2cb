----------------------------- MODULE MCLauncher -----------------------------
(* Three threads of two Streamlit servers.                             *)
EXTENDS Launcher, TLC

CONSTANTS r1, r2, r3, s1, s2

MCServerOf == r1 :> s1 @@ r2 :> s1 @@ r3 :> s2
=============================================================================
