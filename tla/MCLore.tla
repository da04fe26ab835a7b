------------------------------- MODULE MCLore -------------------------------
(* Small instances of Lore: a group of one file; a project of its memory, a  *)
(* document and a transcript, each one section.                              *)
EXTENDS Lore, TLC

CONSTANTS r1, r2, g, m, p1, p2, g1, m1, m2, m3, s1, s2, a, b, c

CardOf(place, line, words, bonus, authority, central, size) ==
    [place |-> place, line |-> line, words |-> words, bonus |-> bonus,
     authority |-> authority, central |-> central, size |-> size,
     links |-> {}, kin |-> FALSE, summary |-> FALSE]

\* The memory is rewritten: m2 gives way to m3 at the same place.
Cards == [x \in Sections |->
    CASE x = g1 -> CardOf(1, 1, {}, 0, 0, 4, 2)
      [] x = m1 -> [CardOf(1, 1, {b}, 1, 8, 0, 1) EXCEPT !.links = {m3}, !.summary = TRUE]
      [] x = m2 -> CardOf(2, 5, {a, c}, 0, 4, 6, 3)
      [] x = m3 -> [CardOf(2, 5, {c}, -1, 4, 0, 2) EXCEPT !.kin = TRUE]
      [] x = s1 -> CardOf(1, 1, {a, b}, 0, 12, 0, 2)
      [] x = s2 -> CardOf(1, 1, {a}, 2, 12, 0, 5)]

Texts == [f \in Files |->
    CASE f = g -> {{g1}} [] f = m -> {{m1, m2}, {m1, m3}} [] f = p1 -> {{s1}} [] f = p2 -> {{s2}}]

SomeQueries == {[base |-> {a}, rewrite |-> {}, more |-> {c}],
                [base |-> {a, b, c}, rewrite |-> {b}, more |-> {}],
                [base |-> {}, rewrite |-> {}, more |-> {c}]}

SomeItems   == {<<>>, <<2, 3>>, <<3, 2, 1>>}
SomeLengths == {0, 3, 9}

\* The files have been written, but for the memory, which is open for writing.
Filled ==
    /\ disk = [f \in Files |->
         CASE f = g -> [stamp |-> 1, text |-> {g1}] [] f = m -> [stamp |-> 2, text |-> {}]
           [] f = p1 -> [stamp |-> 3, text |-> {s1}] [] f = p2 -> [stamp |-> 4, text |-> {s2}]]
    /\ clock = 4
    /\ cache = [k \in 1..2 |-> NoIndex]
    /\ reader = [r \in Readers |-> NoReader]
    /\ shown = NoShown
FilledSpec == Filled /\ [][Next]_vars

=============================================================================
