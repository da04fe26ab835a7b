----------------------------- MODULE MCAnswers -----------------------------
(* Small instances of Answers: two candidates for one slot, from one text. *)
EXTENDS Answers, TLC

CONSTANTS c1, c2, i1, i2, r1, s1, v1, d1

OneSlot     == [x \in Candidates |-> s1]
OwnValue    == [x \in Candidates |-> x]
OneText     == [x \in Candidates |-> v1]
AllStandard == [x \in Candidates |-> "standard"]

\* One candidate has been confirmed, the other waits.
Filled ==
    /\ lifecycle = [i \in Items |-> IF i = i1 THEN "active" ELSE "none"]
    /\ origin = [i \in Items |-> IF i = i1 THEN c1 ELSE NoCandidate]
    /\ supersedes = [i \in Items |-> NoItem]
    /\ ambiguity = [s \in Slots |-> Undisputed]
    /\ state = [c \in Candidates |-> IF c = c1 THEN "confirmed" ELSE "pending"]
    /\ replaces = [c \in Candidates |-> NoItem]
    /\ at = [r \in Requests |-> "idle"]
    /\ cand = [r \in Requests |-> NoCandidate]
    /\ target = [r \in Requests |-> NoItem]
    /\ batch = NoBatch
    /\ batches = MaxBatches
    /\ NoTurns
FilledSpec == Filled /\ [][AnswersNext]_all /\ TurnsEnd

=============================================================================
