------------------------------ MODULE MCJobs ------------------------------
(* Small instances of Jobs: compile jobs that share one artifact, so that   *)
(* they compete for the lock, the receipt and the journal record.           *)
EXTENDS Jobs

CONSTANTS c1, c2, n1, a1

TwoOnOne == [j \in Compile |-> a1]
=============================================================================
