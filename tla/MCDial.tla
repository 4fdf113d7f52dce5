------------------------------- MODULE MCDial -------------------------------
(* A small instance of Dial for TLC. *)
EXTENDS Dial, TLC

Record(tls, priority, weight) ==
    [host |-> "srv", tls |-> tls, priority |-> priority, weight |-> weight]

\* A record of each service that is as good as one of the other's, a lighter
\* one and one of a worse priority.
SomeRecords ==
    {Record(TRUE, 1, 5), Record(TRUE, 2, 9), Record(FALSE, 1, 5), Record(FALSE, 1, 1)}
=============================================================================
