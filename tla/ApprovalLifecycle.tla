------------------------- MODULE ApprovalLifecycle --------------------------
(***************************************************************************)
(* The life of an approval that services/approvals.py promises: requested,  *)
(* decided once, claimed, and then either executed for good or returned to  *)
(* approved for a retry.                                                    *)
(***************************************************************************)
CONSTANT Ids

VARIABLE status   \* [Ids -> Statuses]

Init == status = [i \in Ids |-> "absent"]

Move(i, from, to) == status[i] = from /\ status' = [status EXCEPT ![i] = to]

Request(i) == Move(i, "absent", "pending")
Approve(i) == Move(i, "pending", "approved")
Reject(i) == Move(i, "pending", "rejected")
Claim(i) == Move(i, "approved", "executing")
Finish(i) == Move(i, "executing", "executed")
Retry(i) == Move(i, "executing", "approved")

Next ==
  \E i \in Ids :
    \/ Request(i) \/ Approve(i) \/ Reject(i)
    \/ Claim(i) \/ Finish(i) \/ Retry(i)

Spec == Init /\ [][Next]_status
=============================================================================
