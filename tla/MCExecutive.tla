---------------------------- MODULE MCExecutive -----------------------------
(* Small instances of Executive for TLC.                                    *)
EXTENDS Executive
=============================================================================
