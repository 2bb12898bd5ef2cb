---------------------------- MODULE MCApprovals -----------------------------
(* Small instances of Approvals for TLC.                                    *)
EXTENDS Approvals, TLC

\* Threads are interchangeable.
MCSymmetry == Permutations(Workers)
=============================================================================
