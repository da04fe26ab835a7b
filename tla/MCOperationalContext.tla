----------------------- MODULE MCOperationalContext -----------------------
(* Small instances of OperationalContext: candidates that compete for one   *)
(* slot, with a value each.                                               *)
EXTENDS OperationalContext, TLC

CONSTANTS c1, c2, c3, i1, i2, i3, r1, r2, s1

OneSlot   == [x \in Candidates |-> s1]
OwnValue  == [x \in Candidates |-> x]
Symmetry  == Permutations(Items) \cup Permutations(Requests)
                \cup Permutations(Candidates)
=============================================================================
