------------------------------- MODULE MCIntake -------------------------------
(* A small instance of Intake: three contents of one file name, one of which *)
(* is also uploaded under another name, and a batch of two files.            *)
EXTENDS Intake, TLC

CONSTANTS n1, n2, k1, k2, k3, s1, s2, s3, w1, w2, r1, r2

Single(n, k) == <<[name |-> n, content |-> k]>>
Batches     == {Single(n1, k1), Single(n2, k2), Single(n1, k3) \o Single(n1, k2)}
Symmetry    == Permutations(Requests) \cup Permutations(Sources) \cup Permutations(Workspaces)
=============================================================================
