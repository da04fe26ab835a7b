----------------------------- MODULE MCProjects -----------------------------
EXTENDS Projects, TLC
CONSTANTS r1, r2, r3
MCAsks    == (r1 :> {"update"}) @@ (r2 :> {"create", "update"}) @@ (r3 :> {"repair"})
MCFounded == "one" :> "A"
MCStray   == <<"one", "I", "memory">>
MCRank    == [c \in {"A", "C", "I"} |-> CASE c = "A" -> 1 [] c = "I" -> 2 [] c = "C" -> 3]
=============================================================================
