------------------------------ MODULE Delivery ------------------------------
(***************************************************************************)
(* What receiving a file promises: the destination is written at most      *)
(* once, the user is told one outcome, a success only when all of it is    *)
(* there, and after a failure nothing appears any more.  Cancelling does   *)
(* not promise that: the file may just have been received.  A directory    *)
(* that cannot be unpacked may be left in part.                            *)
(***************************************************************************)

VARIABLES destination, outcome

TypeOK ==
    /\ destination \in {"absent", "partial", "whole"}
    /\ outcome \in {"pending", "finished", "failed", "canceled"}

Init ==
    /\ destination = "absent"
    /\ outcome = "pending"

Place ==
    /\ destination = "absent"
    /\ outcome # "failed"
    /\ destination' \in {"partial", "whole"}
    /\ UNCHANGED outcome

Finish ==
    /\ outcome = "pending"
    /\ destination = "whole"
    /\ outcome' = "finished"
    /\ UNCHANGED destination

Fail ==
    /\ outcome = "pending"
    /\ destination # "whole"
    /\ outcome' = "failed"
    /\ UNCHANGED destination

Cancel ==
    /\ outcome = "pending"
    /\ outcome' = "canceled"
    /\ UNCHANGED destination

Next == Place \/ Finish \/ Fail \/ Cancel

Spec == Init /\ [][Next]_<<destination, outcome>>

=============================================================================
