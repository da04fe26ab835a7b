----------------------------- MODULE Authority -----------------------------
(***************************************************************************)
(* What the operational context of a project promises to everybody who     *)
(* reads it, whatever goes on in the review queue: every authority slot    *)
(* (a kind and a subject) has at most one item in force; an item comes     *)
(* into force once, is replaced in one step or retired, and never returns. *)
(***************************************************************************)
CONSTANTS Slots, Items

VARIABLES
    force,   \* the items in force in each slot
    past     \* the items that were in force in each slot

vars == <<force, past>>

Used == UNION {force[s] \cup past[s] : s \in Slots}

TypeOK ==
    /\ force \in [Slots -> SUBSET Items]
    /\ past \in [Slots -> SUBSET Items]

Init ==
    /\ force = [s \in Slots |-> {}]
    /\ past = [s \in Slots |-> {}]

\* create: the first item of a slot, or the first after a retirement.
Promote(s, i) ==
    /\ force[s] = {}
    /\ i \notin Used
    /\ force' = [force EXCEPT ![s] = {i}]
    /\ UNCHANGED past

\* replace: the old item leaves in the step that brings the new one.
Replace(s, old, i) ==
    /\ force[s] = {old}
    /\ i \notin Used
    /\ force' = [force EXCEPT ![s] = {i}]
    /\ past' = [past EXCEPT ![s] = @ \cup {old}]

Retire(s, old) ==
    /\ force[s] = {old}
    /\ force' = [force EXCEPT ![s] = {}]
    /\ past' = [past EXCEPT ![s] = @ \cup {old}]

Next == \E s \in Slots, i \in Items :
            \/ Promote(s, i)
            \/ \E old \in Items : Replace(s, old, i)
            \/ Retire(s, i)

Spec == Init /\ [][Next]_vars
=============================================================================
