----------------------------- MODULE LoreProofs -----------------------------
(* For any number of requests, files and changes: what is remembered of a   *)
(* file is what the file has, and nothing older than the question answers   *)
(* it. And for any memory, question and order the model may ask for: what   *)
(* the selection, the plan of the evidence and the shared budget promise.   *)
EXTENDS Lore, SequenceTheorems, FiniteSetTheorems, WellFoundedInduction, TLAPS

Written == {{}} \cup UNION {TextsOf[f] : f \in Files}
Texts == [stamp : Nat, text : Written]
Busy  == {"stating", "comparing", "reading", "storing"}

\* A request has its fields.
Shaped(t) ==
    /\ DOMAIN t = {"at", "part", "todo", "sig", "texts", "have", "floor", "rebuild", "keep",
                   "dropped", "out"}
    /\ t.part \in 1..2 /\ t.todo \subseteq Files /\ t.rebuild \in BOOLEAN
    /\ t.sig \in [Files -> Nat] /\ t.floor \in [Files -> Nat]
    /\ t.texts \in [Files -> Texts] /\ t.have \in [Files -> Texts]

\* A reading x of the file f that is now y: a document's may have failed.
Gives(f, x, y) == x = y \/ (f \in Documents /\ x = [y EXCEPT !.text = {}])

\* A text x of f that was read after stamp s was seen, at a file that is now y.
ReadAfter(f, s, x, y) ==
    /\ s = 0 => x.stamp = 0
    /\ s # 0 => x.stamp = 0 \/ x.stamp >= s
    /\ (s # 0 /\ s = y.stamp) => Gives(f, x, y)

\* The file f is another than when the request t began.
Other(t, f, d) == t.floor[f] = 0 \/ d[f].stamp # t.floor[f]

\* What is remembered, when the files are d and the clock is c.
Remembers(x, d, c) ==
    /\ x.sig \in [Files -> Nat] /\ x.texts \in [Files -> Texts]
    /\ \A f \in Files : x.sig[f] <= c /\ ReadAfter(f, x.sig[f], x.texts[f], d[f])

\* What a request has seen of the part it is at: a stamp not older than its
\* beginning, and nothing of a file only when that has changed.
Seen(t, f, d) ==
    /\ t.sig[f] # 0 => /\ t.sig[f] >= t.floor[f]
                       /\ t.sig[f] > t.floor[f] => Other(t, f, d)
    /\ (t.sig[f] = 0 /\ (t.at = "stating" => f \notin t.todo)) => Other(t, f, d)

\* What it has in hand of a file, as Fresh wants it.
Good(t, f, x, d) ==
    \/ x.stamp # 0 /\ x.stamp >= t.floor[f]
    \/ x.stamp = 0 /\ Other(t, f, d)
    \/ x.stamp = 0 /\ f \in ProjectFiles /\ Other(t, MemoryFile, d)

First(t)   == IF t.rebuild THEN 2 ELSE 1
Done(t, k) == t.at = "selecting" \/ (t.at \in Busy \cup {"listing"} /\ t.part # First(t) /\ k = First(t))

Reads(t, d, c) ==
    /\ Shaped(t)
    /\ \A f \in Files : /\ t.floor[f] <= c /\ t.sig[f] <= c
                        /\ \/ d[f].stamp = 0
                           \/ d[f].stamp >= t.floor[f] /\ d[f].stamp >= t.sig[f]
    /\ t.at \in Busy => \A f \in Parts[t.part] : Seen(t, f, d)
    /\ t.at = "listing" => t.sig = Unsigned
    /\ t.at \in {"listing", "stating", "comparing"} => t.texts = Absent
    /\ t.at = "reading" => \A f \in t.todo : t.sig[f] # 0
    /\ t.at \in {"reading", "storing"} =>
         \A f \in Files : (t.at = "storing" \/ f \notin t.todo) => ReadAfter(f, t.sig[f], t.texts[f], d[f])
    /\ \A k \in 1..2 : Done(t, k) => \A f \in Parts[k] : Good(t, f, t.have[f], d)

Disk(d, c) == d \in [Files -> Texts] /\ \A f \in Files : d[f].stamp <= c

IInv ==
    /\ clock \in Nat /\ Disk(disk, clock)
    /\ cache = [k \in 1..2 |-> cache[k]] /\ \A k \in 1..2 : Remembers(cache[k], disk, clock)
    /\ reader = [r \in Readers |-> reader[r]] /\ \A r \in Readers : Reads(reader[r], disk, clock)

-----------------------------------------------------------------------------
(* The parts, and the literals.                                             *)

LEMMA PartFacts ==
    /\ Parts[1] = GroupFiles /\ Parts[2] = ProjectFiles
    /\ \A k \in 1..2 : Parts[k] \subseteq Files
    /\ \A k \in 1..2 : Parts[k] \cap Parts[3 - k] = {}
    /\ MemoryFile \in Files
BY LoreAssumption DEF Parts, Files

LEMMA EmptyFacts ==
    /\ Empty \in Texts /\ Empty.stamp = 0
    /\ Absent \in [Files -> Texts] /\ \A f \in Files : Absent[f] = Empty
    /\ Unsigned \in [Files -> Nat] /\ \A f \in Files : Unsigned[f] = 0
BY DEF Empty, Absent, Unsigned, Texts, Written

\* A request that has nothing in hand.
LEMMA Idle ==
    ASSUME NEW d, NEW c \in Nat, Disk(d, c), NEW t, Shaped(t),
           t.sig = Unsigned, t.floor = Unsigned,
           t.at \notin Busy \cup {"listing", "selecting"}
    PROVE  Reads(t, d, c)
BY EmptyFacts DEF Reads, Done, Busy, Disk, Texts

LEMMA NoReaderShaped == Shaped(NoReader) /\ NoReader.sig = Unsigned /\ NoReader.floor = Unsigned /\ NoReader.at = "idle"
BY EmptyFacts DEF Shaped, NoReader

LEMMA Reset == ASSUME NEW d, NEW c \in Nat, Disk(d, c) PROVE Reads(NoReader, d, c)
BY Idle, NoReaderShaped DEF Busy

-----------------------------------------------------------------------------
(* The files change: what was seen, read and remembered stays true.         *)

\* A file gets a stamp that none has had, or none at all.
Changes(d, c, e, b) ==
    /\ Disk(e, b) /\ b \in Nat /\ b >= c
    /\ \A f \in Files : e[f] = d[f] \/ e[f].stamp = 0 \/ e[f].stamp > c

LEMMA RememberedStays ==
    ASSUME NEW d, NEW e, NEW b \in Nat, NEW c \in Nat, Changes(d, c, e, b), NEW x, Remembers(x, d, c)
    PROVE  Remembers(x, e, b)
BY DEF Remembers, Changes, ReadAfter, Disk, Texts

LEMMA OtherStays ==
    ASSUME NEW d, NEW e, NEW b \in Nat, NEW c \in Nat, Disk(d, c), Changes(d, c, e, b),
           NEW t, Shaped(t), NEW f \in Files, t.floor[f] <= c, Other(t, f, d)
    PROVE  Other(t, f, e)
BY DEF Other, Changes, Disk, Shaped, Texts

LEMMA ReadingStays ==
    ASSUME NEW d, NEW e, NEW b \in Nat, NEW c \in Nat, Disk(d, c), Changes(d, c, e, b), NEW t, Reads(t, d, c)
    PROVE  Reads(t, e, b)
<1>1. Shaped(t) BY DEF Reads
<1>2. \A f \in Files : t.floor[f] <= c /\ t.sig[f] <= c BY DEF Reads
<1>3. \A f \in Files : Other(t, f, d) => Other(t, f, e) BY <1>1, <1>2, OtherStays
<1>4. \A f \in Files : /\ t.floor[f] <= b /\ t.sig[f] <= b
                       /\ \/ e[f].stamp = 0
                          \/ e[f].stamp >= t.floor[f] /\ e[f].stamp >= t.sig[f]
  <2>. TAKE f \in Files
  <2>1. t.floor[f] \in Nat /\ t.sig[f] \in Nat BY <1>1 DEF Shaped
  <2>2. e[f].stamp \in Nat /\ d[f].stamp \in Nat BY DEF Changes, Disk, Texts
  <2>3. d[f].stamp = 0 \/ (d[f].stamp >= t.floor[f] /\ d[f].stamp >= t.sig[f]) BY DEF Reads
  <2>. QED BY <1>2, <2>1, <2>2, <2>3 DEF Changes
<1>5. t.at \in Busy => \A f \in Parts[t.part] : Seen(t, f, e)
  <2>. SUFFICES ASSUME t.at \in Busy, NEW f \in Parts[t.part] PROVE Seen(t, f, e)
    OBVIOUS
  <2>1. f \in Files BY <1>1, PartFacts DEF Shaped
  <2>2. Seen(t, f, d) BY DEF Reads
  <2>. QED BY <1>3, <2>1, <2>2 DEF Seen
<1>6. t.at \in {"reading", "storing"} =>
         \A f \in Files : (t.at = "storing" \/ f \notin t.todo) => ReadAfter(f, t.sig[f], t.texts[f], e[f])
  <2>. SUFFICES ASSUME t.at \in {"reading", "storing"}, NEW f \in Files, t.at = "storing" \/ f \notin t.todo
                PROVE  ReadAfter(f, t.sig[f], t.texts[f], e[f])
    OBVIOUS
  <2>1. ReadAfter(f, t.sig[f], t.texts[f], d[f]) BY DEF Reads
  <2>2. t.sig[f] \in Nat /\ e[f].stamp \in Nat BY <1>1 DEF Shaped, Changes, Disk, Texts
  <2>. QED BY <1>2, <2>1, <2>2 DEF ReadAfter, Changes
<1>7. \A k \in 1..2 : Done(t, k) => \A f \in Parts[k] : Good(t, f, t.have[f], e)
  <2>. SUFFICES ASSUME NEW k \in 1..2, Done(t, k), NEW f \in Parts[k] PROVE Good(t, f, t.have[f], e)
    OBVIOUS
  <2>1. f \in Files /\ MemoryFile \in Files BY PartFacts
  <2>2. Good(t, f, t.have[f], d) BY DEF Reads
  <2>. QED BY <1>3, <2>1, <2>2 DEF Good
<1>. QED BY <1>1, <1>4, <1>5, <1>6, <1>7 DEF Reads

-----------------------------------------------------------------------------
(* One request takes a step, the files stay.                                *)

LEMMA Local ==
    ASSUME IInv, NEW r \in Readers, NEW u, Becomes(r, u), UNCHANGED <<disk, clock, cache>>,
           Reads(u, disk, clock)
    PROVE  IInv'
BY DEF IInv, Becomes

LEMMA Raises ==
    ASSUME IInv, NEW r \in Readers, Raise(r), UNCHANGED <<disk, clock, cache>>
    PROVE  IInv'
<1>1. Shaped([NoReader EXCEPT !.at = "raised"]) BY EmptyFacts DEF Shaped, NoReader
<1>2. Reads([NoReader EXCEPT !.at = "raised"], disk, clock)
  BY <1>1, Idle DEF IInv, Busy, NoReader
<1>. QED BY <1>2, Local DEF Raise

\* A part is done when every file of it is good.
LEMMA PartDone ==
    ASSUME NEW d, NEW c \in Nat, Disk(d, c), NEW t, Reads(t, d, c), t.at \in Busy \cup {"listing"},
           NEW texts \in [Files -> Texts], \A f \in Parts[t.part] : Good(t, f, texts[f], d)
    PROVE  Reads(GoOn(t, texts), d, c)
<1>. DEFINE u == GoOn(t, texts)
<1>1. Shaped(t) BY DEF Reads
<1>2. /\ u.at = IF (t.part = 1) = t.rebuild THEN "selecting" ELSE "listing"
      /\ u.part = 3 - t.part /\ u.part \in 1..2 /\ u.rebuild = t.rebuild /\ u.floor = t.floor
      /\ u.sig = Unsigned /\ u.texts = Absent /\ u.todo = {}
      /\ u.have = [f \in Files |-> IF f \in Parts[t.part] THEN texts[f] ELSE t.have[f]]
  BY <1>1 DEF Shaped, GoOn
<1>3. Shaped(u) BY <1>1, <1>2, EmptyFacts DEF Shaped, GoOn
<1>4. \A f \in Files : /\ u.floor[f] <= c /\ u.sig[f] <= c
                       /\ \/ d[f].stamp = 0
                          \/ d[f].stamp >= u.floor[f] /\ d[f].stamp >= u.sig[f]
  BY <1>2, EmptyFacts DEF Reads, Disk, Texts
<1>5. First(u) = First(t) BY <1>2 DEF First
<1>6. ASSUME NEW k \in 1..2, Done(u, k), NEW f \in Parts[k]
      PROVE  Good(u, f, u.have[f], d)
  <2>1. f \in Files BY PartFacts
  <2>2. CASE k = t.part BY <1>2, <2>1, <2>2 DEF Good, Other
  <2>3. CASE k # t.part
    <3>1. t.part # First(t) /\ k = First(t)
      BY <1>1, <1>2, <1>5, <1>6, <2>3 DEF Done, First, Shaped, Busy
    <3>2. Done(t, k) BY <3>1 DEF Done
    <3>3. Good(t, f, t.have[f], d) BY <3>2 DEF Reads
    <3>4. t.part = 3 - k BY <1>1, <2>3 DEF Shaped
    <3>5. f \notin Parts[t.part] BY <3>4, PartFacts
    <3>. QED BY <1>2, <2>1, <3>3, <3>5 DEF Good, Other
  <2>. QED BY <2>2, <2>3
<1>. QED BY <1>2, <1>3, <1>4, <1>6 DEF Reads, Busy

LEMMA BeginKeeps ==
    ASSUME IInv, NEW r \in Readers, NEW rebuild \in BOOLEAN, NEW keep, Begin(r, rebuild, keep)
    PROVE  IInv'
<1>. DEFINE u == [NoReader EXCEPT !.at = "listing",
                    !.floor = [f \in Files |-> disk[f].stamp],
                    !.part = IF rebuild THEN 2 ELSE 1,
                    !.rebuild = rebuild, !.keep = keep,
                    !.dropped = IF rebuild THEN shown.ids \ keep ELSE {}]
<1>1. Becomes(r, u) /\ UNCHANGED <<disk, clock, cache>> BY DEF Begin
<1>2. /\ u.at = "listing" /\ u.floor = [f \in Files |-> disk[f].stamp] /\ u.rebuild = rebuild
      /\ u.part = (IF rebuild THEN 2 ELSE 1) /\ u.sig = Unsigned /\ u.texts = Absent
  BY DEF NoReader
<1>3. u.floor \in [Files -> Nat] BY <1>2 DEF IInv, Disk, Texts
<1>4. Shaped(u) BY <1>3, EmptyFacts DEF Shaped, NoReader
<1>5. \A k \in 1..2 : ~Done(u, k) BY <1>2 DEF Done, First
<1>6. \A f \in Files : /\ u.floor[f] <= clock /\ u.sig[f] <= clock
                       /\ \/ disk[f].stamp = 0
                          \/ disk[f].stamp >= u.floor[f] /\ disk[f].stamp >= u.sig[f]
  <2>. TAKE f \in Files
  <2>1. disk[f].stamp \in Nat /\ disk[f].stamp <= clock /\ clock \in Nat BY DEF IInv, Disk, Texts
  <2>2. u.floor[f] = disk[f].stamp /\ u.sig[f] = 0 BY <1>2, EmptyFacts
  <2>. QED BY <2>1, <2>2
<1>7. Reads(u, disk, clock) BY <1>2, <1>4, <1>5, <1>6 DEF Reads, Busy
<1>. QED BY <1>1, <1>7, Local

LEMMA ListKeeps == ASSUME IInv, NEW r \in Readers, List(r) PROVE IInv'
<1>. DEFINE t == reader[r]
            files == {f \in Parts[t.part] : Exists(f)}
            u == [t EXCEPT !.at = "stating", !.todo = files]
<1>1. Reads(t, disk, clock) /\ Shaped(t) /\ t.at = "listing" /\ Disk(disk, clock) /\ clock \in Nat
  BY DEF IInv, List, Reads
<1>2. UNCHANGED <<disk, clock, cache>> BY DEF List
<1>3. t.sig = Unsigned /\ t.texts = Absent BY <1>1 DEF Reads
<1>4. \A f \in Files : ~Exists(f) => Other(t, f, disk) BY DEF Exists, Other
<1>5. CASE files = {} \/ (t.part = 2 /\ ~Exists(MemoryFile))
  <2>1. Becomes(r, GoOn(t, Absent)) BY <1>5 DEF List
  <2>2. ASSUME NEW f \in Parts[t.part] PROVE Good(t, f, Absent[f], disk)
    <3>1. f \in Files /\ MemoryFile \in Files BY <1>1, PartFacts DEF Shaped
    <3>2. CASE files = {} BY <1>4, <3>1, <3>2, EmptyFacts DEF Good
    <3>3. CASE t.part = 2 /\ ~Exists(MemoryFile) BY <1>4, <3>1, <3>3, EmptyFacts, PartFacts DEF Good
    <3>. QED BY <1>5, <3>2, <3>3
  <2>3. Reads(GoOn(t, Absent), disk, clock) BY <1>1, <2>2, EmptyFacts, PartDone
  <2>. QED BY <1>2, <2>1, <2>3, Local
<1>6. CASE ~(files = {} \/ (t.part = 2 /\ ~Exists(MemoryFile)))
  <2>1. Becomes(r, u) BY <1>6 DEF List
  <2>2. /\ u.at = "stating" /\ u.todo = files /\ u.part = t.part /\ u.sig = t.sig /\ u.texts = t.texts
        /\ u.have = t.have /\ u.floor = t.floor /\ u.rebuild = t.rebuild
    BY <1>1 DEF Shaped
  <2>3. files \subseteq Files BY <1>1, PartFacts DEF Shaped
  <2>4. Shaped(u) BY <1>1, <2>3 DEF Shaped
  <2>5. ASSUME NEW f \in Parts[u.part] PROVE Seen(u, f, disk)
    <3>1. f \in Files BY <1>1, <2>2, PartFacts DEF Shaped
    <3>. QED BY <1>3, <1>4, <2>2, <3>1, EmptyFacts DEF Seen, Other
  <2>6. \A k \in 1..2 : Done(u, k) => Done(t, k) BY <1>1, <2>2 DEF Done, First
  <2>7. Reads(u, disk, clock) BY <1>1, <1>3, <2>2, <2>4, <2>5, <2>6 DEF Reads, Good, Other
  <2>. QED BY <1>2, <2>1, <2>7, Local
<1>. QED BY <1>5, <1>6

LEMMA StatKeeps == ASSUME IInv, NEW r \in Readers, NEW f \in Files, StatFile(r, f) PROVE IInv'
<1>. DEFINE t == reader[r]
            w == [t EXCEPT !.todo = @ \ {f}, !.sig[f] = disk[f].stamp]
            u == [w EXCEPT !.at = IF w.todo = {} THEN "comparing" ELSE @]
<1>1. /\ Reads(t, disk, clock) /\ Shaped(t) /\ Disk(disk, clock) /\ clock \in Nat
      /\ t.at = "stating" /\ f \in t.todo
  BY DEF IInv, StatFile, Reads
<1>2. UNCHANGED <<disk, clock, cache>> BY DEF StatFile
<1>3. CASE ~Exists(f)
  <2>1. Raise(r) BY <1>3 DEF StatFile
  <2>. QED BY <1>2, <2>1, Raises
<1>4. CASE Exists(f)
  <2>1. Becomes(r, u) BY <1>4 DEF StatFile
  <2>2. /\ u.at = (IF t.todo \ {f} = {} THEN "comparing" ELSE "stating") /\ u.todo = t.todo \ {f}
        /\ u.part = t.part /\ u.texts = t.texts /\ u.have = t.have /\ u.floor = t.floor
        /\ u.rebuild = t.rebuild /\ u.sig = [t.sig EXCEPT ![f] = disk[f].stamp]
    BY <1>1 DEF Shaped
  <2>3. disk[f].stamp \in Nat /\ disk[f].stamp # 0 BY <1>1, <1>4 DEF Disk, Texts, Exists
  <2>4. Shaped(u) BY <1>1, <2>2, <2>3 DEF Shaped
  <2>5. u.sig[f] = disk[f].stamp /\ \A g \in Files \ {f} : u.sig[g] = t.sig[g]
    BY <1>1, <2>2 DEF Shaped
  <2>6. \A g \in Files : /\ u.floor[g] <= clock /\ u.sig[g] <= clock
                         /\ \/ disk[g].stamp = 0
                            \/ disk[g].stamp >= u.floor[g] /\ disk[g].stamp >= u.sig[g]
    BY <1>1, <2>2, <2>3, <2>5 DEF Reads, Disk
  <2>7. ASSUME NEW g \in Parts[u.part] PROVE Seen(u, g, disk)
    <3>1. g \in Files /\ Seen(t, g, disk) BY <1>1, <2>2, PartFacts DEF Shaped, Reads, Busy
    <3>2. t.floor[g] \in Nat BY <1>1, <3>1 DEF Shaped
    <3>3. CASE g = f BY <2>2, <2>3, <2>5, <2>6, <3>2, <3>3 DEF Seen, Other
    <3>4. CASE g # f BY <1>1, <2>2, <2>5, <3>1, <3>4 DEF Seen, Other
    <3>. QED BY <3>3, <3>4
  <2>8. \A k \in 1..2 : Done(u, k) => Done(t, k) BY <1>1, <2>2 DEF Done, First, Busy
  <2>9. \A k \in 1..2 : Done(u, k) => \A g \in Parts[k] : Good(u, g, u.have[g], disk)
    BY <1>1, <2>2, <2>8 DEF Reads, Good, Other
  <2>10. u.at \in {"stating", "comparing"} BY <2>2
  <2>11. u.texts = Absent BY <1>1, <2>2 DEF Reads
  <2>12. Reads(u, disk, clock)
    BY <2>4, <2>6, <2>7, <2>9, <2>10, <2>11 DEF Reads
  <2>. QED BY <1>2, <2>1, <2>12, Local
<1>. QED BY <1>3, <1>4

LEMMA GivesFacts ==
    ASSUME NEW f, NEW y \in Texts, NEW x, Gives(f, x, y)
    PROVE  x \in Texts /\ x.stamp = y.stamp
<1>1. {} \in Written BY DEF Written
<1>2. CASE x = y BY <1>2
<1>3. CASE x = [y EXCEPT !.text = {}] BY <1>1, <1>3 DEF Texts
<1>. QED BY <1>2, <1>3 DEF Gives

\* Texts that were read after what the request has seen of a part are good.
LEMMA SeenThenRead ==
    ASSUME NEW d, NEW c \in Nat, Disk(d, c), NEW t, Reads(t, d, c), t.at \in Busy \ {"stating"},
           NEW texts \in [Files -> Texts], NEW f \in Parts[t.part],
           ReadAfter(f, t.sig[f], texts[f], d[f])
    PROVE  Good(t, f, texts[f], d)
<1>1. f \in Files /\ Seen(t, f, d) BY PartFacts DEF Reads, Shaped, Busy
<1>2. t.sig[f] \in Nat /\ t.floor[f] \in Nat /\ texts[f].stamp \in Nat /\ d[f].stamp \in Nat
  BY <1>1 DEF Reads, Shaped, Disk, Texts
<1>3. CASE t.sig[f] = 0 BY <1>1, <1>3 DEF Seen, Good, ReadAfter, Busy
<1>4. CASE t.sig[f] # 0 /\ texts[f].stamp # 0 BY <1>1, <1>2, <1>4 DEF Seen, Good, ReadAfter
<1>5. CASE t.sig[f] # 0 /\ texts[f].stamp = 0
  <2>1. t.sig[f] # d[f].stamp
    <3>1. d[f] \in Texts BY <1>1 DEF Disk
    <3>. QED BY <1>5, <3>1, GivesFacts DEF ReadAfter
  <2>2. Other(t, f, d) BY <1>1, <1>2, <1>5, <2>1 DEF Seen, Other
  <2>. QED BY <1>5, <2>2 DEF Good
<1>. QED BY <1>3, <1>4, <1>5

LEMMA CompareKeeps == ASSUME IInv, NEW r \in Readers, Compare(r) PROVE IInv'
<1>. DEFINE t == reader[r]
            x == cache[t.part]
            u == [t EXCEPT !.at = "reading", !.todo = {f \in Files : t.sig[f] # 0}]
<1>1. /\ Reads(t, disk, clock) /\ Shaped(t) /\ Disk(disk, clock) /\ clock \in Nat
      /\ t.at = "comparing"
  BY DEF IInv, Compare, Reads
<1>2. UNCHANGED <<disk, clock, cache>> BY DEF Compare
<1>3. CASE Hit(t)
  <2>1. Becomes(r, GoOn(t, x.texts)) BY <1>3 DEF Compare
  <2>2. Remembers(x, disk, clock) BY <1>1 DEF IInv, Shaped
  <2>3. x.texts \in [Files -> Texts] /\ x.sig = t.sig BY <1>3, <2>2 DEF Remembers, Hit
  <2>4. \A f \in Parts[t.part] : Good(t, f, x.texts[f], disk)
    <3>. TAKE f \in Parts[t.part]
    <3>1. f \in Files BY <1>1, PartFacts DEF Shaped
    <3>2. ReadAfter(f, t.sig[f], x.texts[f], disk[f]) BY <2>2, <2>3, <3>1 DEF Remembers
    <3>. QED BY <1>1, <2>3, <3>2, SeenThenRead DEF Busy
  <2>5. Reads(GoOn(t, x.texts), disk, clock) BY <1>1, <2>3, <2>4, PartDone DEF Busy
  <2>. QED BY <1>2, <2>1, <2>5, Local
<1>4. CASE ~Hit(t)
  <2>1. Becomes(r, u) BY <1>4 DEF Compare
  <2>2. /\ u.at = "reading" /\ u.todo = {f \in Files : t.sig[f] # 0} /\ u.part = t.part
        /\ u.sig = t.sig /\ u.texts = t.texts /\ u.have = t.have /\ u.floor = t.floor
        /\ u.rebuild = t.rebuild
    BY <1>1 DEF Shaped
  <2>3. Shaped(u) BY <1>1, <2>2 DEF Shaped
  <2>4. t.texts = Absent BY <1>1 DEF Reads
  <2>5. \A f \in Files : f \notin u.todo => ReadAfter(f, u.sig[f], u.texts[f], disk[f])
    BY <2>2, <2>4, EmptyFacts DEF ReadAfter
  <2>6. \A f \in Parts[u.part] : Seen(u, f, disk)
    BY <1>1, <2>2 DEF Reads, Seen, Other, Busy
  <2>7. \A k \in 1..2 : Done(u, k) => Done(t, k) BY <1>1, <2>2 DEF Done, First, Busy
  <2>8. \A k \in 1..2 : Done(u, k) => \A f \in Parts[k] : Good(u, f, u.have[f], disk)
    BY <1>1, <2>2, <2>7 DEF Reads, Good, Other
  <2>9. \A f \in Files : /\ u.floor[f] <= clock /\ u.sig[f] <= clock
                         /\ \/ disk[f].stamp = 0
                            \/ disk[f].stamp >= u.floor[f] /\ disk[f].stamp >= u.sig[f]
    BY <1>1, <2>2 DEF Reads
  <2>10. Reads(u, disk, clock)
    BY <2>2, <2>3, <2>5, <2>6, <2>8, <2>9 DEF Reads
  <2>. QED BY <1>2, <2>1, <2>10, Local
<1>. QED BY <1>3, <1>4

\* A reading keeps the stamp of the file, and is a text of it or none.
LEMMA ReadingFacts ==
    ASSUME NEW f \in Files, disk[f] \in Texts, NEW x \in Reading(f)
    PROVE  x \in Texts /\ x.stamp = disk[f].stamp /\ Gives(f, x, disk[f])
<1>1. x = disk[f] \/ (f \in Documents /\ x = NoText(f)) BY DEF Reading
<1>2. Gives(f, x, disk[f]) BY <1>1 DEF NoText, Gives
<1>. QED BY <1>2, GivesFacts

LEMMA ReadKeeps == ASSUME IInv, NEW r \in Readers, NEW f \in Files, ReadFile(r, f) PROVE IInv'
<1>. DEFINE t == reader[r]
            w == [t EXCEPT !.todo = @ \ {f}, !.at = IF t.todo = {f} THEN "storing" ELSE @]
            u(x) == [w EXCEPT !.texts[f] = x]
<1>1. /\ Reads(t, disk, clock) /\ Shaped(t) /\ Disk(disk, clock) /\ clock \in Nat
      /\ t.at = "reading" /\ f \in t.todo
  BY DEF IInv, ReadFile, Reads
<1>2. UNCHANGED <<disk, clock, cache>> BY DEF ReadFile
<1>3. CASE Raise(r) BY <1>2, <1>3, Raises
<1>4. ASSUME NEW x \in Reading(f), Becomes(r, u(x)) PROVE IInv'
  <2>. DEFINE v == u(x)
  <2>1. /\ v.at = (IF t.todo = {f} THEN "storing" ELSE "reading") /\ v.todo = t.todo \ {f}
        /\ v.part = t.part /\ v.sig = t.sig /\ v.have = t.have /\ v.floor = t.floor
        /\ v.rebuild = t.rebuild /\ v.texts = [t.texts EXCEPT ![f] = x]
    BY <1>1 DEF Shaped
  <2>2. x \in Texts /\ x.stamp = disk[f].stamp /\ Gives(f, x, disk[f])
    BY <1>1, ReadingFacts DEF Disk
  <2>3. Shaped(v) BY <1>1, <2>1, <2>2 DEF Shaped
  <2>4. v.texts[f] = x /\ \A g \in Files \ {f} : v.texts[g] = t.texts[g]
    BY <1>1, <2>1 DEF Shaped
  <2>5. ReadAfter(f, v.sig[f], v.texts[f], disk[f])
    <3>1. t.sig[f] # 0 /\ (disk[f].stamp = 0 \/ disk[f].stamp >= t.sig[f]) BY <1>1 DEF Reads
    <3>. QED BY <2>1, <2>2, <2>4, <3>1 DEF ReadAfter
  <2>6. \A g \in Files : (v.at = "storing" \/ g \notin v.todo) => ReadAfter(g, v.sig[g], v.texts[g], disk[g])
    BY <1>1, <2>1, <2>4, <2>5 DEF Reads
  <2>7. \A g \in Parts[v.part] : Seen(v, g, disk)
    BY <1>1, <2>1 DEF Reads, Seen, Other, Busy
  <2>8. \A k \in 1..2 : Done(v, k) => Done(t, k) BY <1>1, <2>1 DEF Done, First, Busy
  <2>9. \A k \in 1..2 : Done(v, k) => \A g \in Parts[k] : Good(v, g, v.have[g], disk)
    BY <1>1, <2>1, <2>8 DEF Reads, Good, Other
  <2>10. \A g \in Files : /\ v.floor[g] <= clock /\ v.sig[g] <= clock
                          /\ \/ disk[g].stamp = 0
                             \/ disk[g].stamp >= v.floor[g] /\ disk[g].stamp >= v.sig[g]
    BY <1>1, <2>1 DEF Reads
  <2>11. \A g \in v.todo : v.sig[g] # 0 BY <1>1, <2>1 DEF Reads
  <2>12. v.at \in {"reading", "storing"} BY <2>1
  <2>13. Reads(v, disk, clock)
    BY <2>3, <2>6, <2>7, <2>9, <2>10, <2>11, <2>12 DEF Reads
  <2>. QED BY <1>2, <1>4, <2>13, Local
<1>. QED BY <1>3, <1>4 DEF ReadFile

LEMMA StoreKeeps == ASSUME IInv, NEW r \in Readers, StoreIndex(r) PROVE IInv'
<1>. DEFINE t == reader[r]
            x == [sig |-> t.sig, texts |-> t.texts]
<1>1. /\ Reads(t, disk, clock) /\ Shaped(t) /\ Disk(disk, clock) /\ clock \in Nat
      /\ t.at = "storing"
  BY DEF IInv, StoreIndex, Reads
<1>2. /\ cache' = [cache EXCEPT ![t.part] = x] /\ Becomes(r, GoOn(t, t.texts))
      /\ UNCHANGED <<disk, clock>>
  BY DEF StoreIndex
<1>3. \A f \in Files : ReadAfter(f, t.sig[f], t.texts[f], disk[f]) BY <1>1 DEF Reads
<1>4. \A f \in Parts[t.part] : Good(t, f, t.texts[f], disk)
  <2>. TAKE f \in Parts[t.part]
  <2>1. f \in Files /\ t.texts \in [Files -> Texts] BY <1>1, PartFacts DEF Shaped
  <2>. QED BY <1>1, <1>3, <2>1, SeenThenRead DEF Busy
<1>5. Reads(GoOn(t, t.texts), disk, clock) BY <1>1, <1>4, PartDone DEF Busy, Shaped
<1>6. Remembers(x, disk, clock) BY <1>1, <1>3 DEF Remembers, Reads, Shaped
<1>7. cache' = [k \in 1..2 |-> cache'[k]] /\ \A k \in 1..2 : Remembers(cache'[k], disk, clock)
  <2>1. t.part \in 1..2 BY <1>1 DEF Shaped
  <2>. QED BY <1>2, <1>6, <2>1 DEF IInv
<1>8. reader' = [q \in Readers |-> reader'[q]] /\ \A q \in Readers : Reads(reader'[q], disk, clock)
  BY <1>2, <1>5 DEF IInv, Becomes
<1>. QED BY <1>1, <1>2, <1>7, <1>8 DEF IInv

-----------------------------------------------------------------------------
(* What comes after the reading has nothing in hand; the files; the end.    *)

LEMMA Ends ==
    ASSUME IInv, NEW r \in Readers, UNCHANGED <<disk, clock, cache>>, NEW u, Becomes(r, u),
           DOMAIN u = DOMAIN NoReader, u.at \in {"selected", "rebuilt", "composed", "idle"},
           u.part = 1, u.todo = {}, u.sig = Unsigned, u.floor = Unsigned, u.texts = Absent,
           u.have = Absent, u.rebuild = FALSE
    PROVE  IInv'
<1>0. DOMAIN u = {"at", "part", "todo", "sig", "texts", "have", "floor", "rebuild", "keep",
                  "dropped", "out"}
  BY NoReaderShaped, Zenon DEF Shaped
<1>1. Shaped(u)
  <2>0. 1 \in 1..2 /\ {} \subseteq Files /\ FALSE \in BOOLEAN OBVIOUS
  <2>1. u.part \in 1..2 /\ u.todo \subseteq Files /\ u.rebuild \in BOOLEAN BY <2>0, Zenon
  <2>2. u.sig \in [Files -> Nat] /\ u.floor \in [Files -> Nat] BY EmptyFacts
  <2>3. u.texts \in [Files -> Texts] /\ u.have \in [Files -> Texts] BY EmptyFacts
  <2>. QED BY <1>0, <2>1, <2>2, <2>3, Zenon DEF Shaped
<1>2. Reads(u, disk, clock) BY <1>1, Idle DEF IInv, Busy
<1>. QED BY <1>2, Local

LEMMA SelectKeeps == ASSUME IInv, NEW r \in Readers, Select(r) PROVE IInv'
<1>1. PICK q \in Queries :
        LET S == Known(reader[r].have)
            cands == IF Missing(S, q) THEN <<>> ELSE Candidates(S, q) IN
        \E picks \in Picks(cands) :
          LET sel == Selection(Reranked(cands, picks, Focus(q)), Central(S, q)) IN
          Becomes(r, [NoReader EXCEPT !.at = "selected", !.out.memory = S, !.out.query = q,
                        !.out.sel = sel, !.out.plan = Evidence(S, sel, Terms(q), Focus(q))])
  BY DEF Select
<1>2. PICK S, sel, plan :
        Becomes(r, [NoReader EXCEPT !.at = "selected", !.out.memory = S, !.out.query = q,
                      !.out.sel = sel, !.out.plan = plan])
  BY <1>1
<1>. DEFINE u == [NoReader EXCEPT !.at = "selected", !.out.memory = S, !.out.query = q,
                    !.out.sel = sel, !.out.plan = plan]
<1>3. /\ DOMAIN u = DOMAIN NoReader /\ u.at = "selected" /\ u.part = 1 /\ u.todo = {}
      /\ u.sig = Unsigned /\ u.floor = Unsigned /\ u.texts = Absent /\ u.have = Absent
      /\ u.rebuild = FALSE
  BY DEF NoReader
<1>4. UNCHANGED <<disk, clock, cache>> BY DEF Select
<1>. QED BY <1>2, <1>3, <1>4, Ends

LEMMA RebuildKeeps == ASSUME IInv, NEW r \in Readers, Rebuild(r) PROVE IInv'
<1>1. PICK sel, plan :
        Becomes(r, [NoReader EXCEPT !.at = "rebuilt", !.dropped = reader[r].dropped,
                      !.out.sel = sel, !.out.plan = plan])
  BY DEF Rebuild
<1>. DEFINE u == [NoReader EXCEPT !.at = "rebuilt", !.dropped = reader[r].dropped,
                    !.out.sel = sel, !.out.plan = plan]
<1>2. /\ DOMAIN u = DOMAIN NoReader /\ u.at = "rebuilt" /\ u.part = 1 /\ u.todo = {}
      /\ u.sig = Unsigned /\ u.floor = Unsigned /\ u.texts = Absent /\ u.have = Absent
      /\ u.rebuild = FALSE
  BY DEF NoReader
<1>3. UNCHANGED <<disk, clock, cache>> BY DEF Rebuild
<1>. QED BY <1>1, <1>2, <1>3, Ends

LEMMA ComposeKeeps == ASSUME IInv, NEW r \in Readers, Compose(r) PROVE IInv'
<1>1. PICK offered, length, context, taken :
        Becomes(r, [NoReader EXCEPT !.at = "composed", !.out.offered = offered,
                      !.out.context = context, !.out.length = length, !.out.taken = taken])
  BY DEF Compose
<1>. DEFINE u == [NoReader EXCEPT !.at = "composed", !.out.offered = offered,
                    !.out.context = context, !.out.length = length, !.out.taken = taken]
<1>2. /\ DOMAIN u = DOMAIN NoReader /\ u.at = "composed" /\ u.part = 1 /\ u.todo = {}
      /\ u.sig = Unsigned /\ u.floor = Unsigned /\ u.texts = Absent /\ u.have = Absent
      /\ u.rebuild = FALSE
  BY DEF NoReader
<1>3. UNCHANGED <<disk, clock, cache>> BY DEF Compose
<1>. QED BY <1>1, <1>2, <1>3, Ends

LEMMA FinishKeeps == ASSUME IInv, NEW r \in Readers, Finish(r) PROVE IInv'
<1>1. Reads(NoReader, disk, clock) BY Reset DEF IInv
<1>. QED BY <1>1, Local DEF Finish

LEMMA KillKeeps == ASSUME IInv, Kill PROVE IInv'
<1>1. Disk(disk, clock) /\ clock \in Nat BY DEF IInv
<1>2. Remembers(NoIndex, disk, clock) BY <1>1, EmptyFacts DEF Remembers, NoIndex, ReadAfter
<1>3. Reads(NoReader, disk, clock) BY <1>1, Reset
<1>. QED BY <1>1, <1>2, <1>3 DEF IInv, Kill

LEMMA FilesChange ==
    ASSUME IInv, NEW f \in Files, Change(f)
    PROVE  Changes(disk, clock, disk', clock') /\ UNCHANGED <<cache, reader>>
<1>1. PICK x \in Texts : /\ disk' = [disk EXCEPT ![f] = x]
                        /\ \/ x.stamp = 0 /\ clock' = clock
                           \/ x.stamp = clock + 1 /\ clock' = clock + 1
  <2>1. CASE RemoveFile(f) BY <2>1, EmptyFacts DEF RemoveFile
  <2>2. ASSUME NEW text \in Written, Put(f, text)
        PROVE  \E x \in Texts : disk' = [disk EXCEPT ![f] = x] /\ x.stamp = clock + 1 /\ clock' = clock + 1
    <3>1. [stamp |-> clock + 1, text |-> text] \in Texts BY DEF IInv, Texts
    <3>. QED BY <2>2, <3>1 DEF Put
  <2>3. CASE \E text \in Written : Put(f, text) BY <2>2, <2>3
  <2>4. TextsOf[f] \subseteq Written /\ {} \in Written BY DEF Written
  <2>. QED BY <2>1, <2>3, <2>4 DEF Change, Write, OpenFile, FillFile
<1>2. UNCHANGED <<cache, reader>> BY DEF Change, Write, OpenFile, FillFile, RemoveFile, Put
<1>3. clock \in Nat /\ clock' \in Nat /\ clock' >= clock /\ Disk(disk, clock) BY <1>1 DEF IInv
<1>4. disk' \in [Files -> Texts] /\ disk'[f].stamp <= clock' /\ \A g \in Files \ {f} : disk'[g] = disk[g]
  BY <1>1, <1>3 DEF Disk
<1>5. Disk(disk', clock') BY <1>3, <1>4 DEF Disk, Texts
<1>6. Changes(disk, clock, disk', clock') BY <1>1, <1>3, <1>4, <1>5 DEF Changes, Disk
<1>. QED BY <1>2, <1>6

LEMMA ChangeKeeps == ASSUME IInv, NEW f \in Files, Change(f) PROVE IInv'
<1>1. Changes(disk, clock, disk', clock') /\ UNCHANGED <<cache, reader>> BY FilesChange
<1>2. clock \in Nat /\ clock' \in Nat /\ Disk(disk, clock) /\ Disk(disk', clock')
  BY <1>1 DEF IInv, Changes
<1>3. \A k \in 1..2 : Remembers(cache[k], disk', clock') BY <1>1, <1>2, RememberedStays DEF IInv
<1>4. \A r \in Readers : Reads(reader[r], disk', clock') BY <1>1, <1>2, ReadingStays DEF IInv
<1>. QED BY <1>1, <1>2, <1>3, <1>4 DEF IInv

-----------------------------------------------------------------------------
(* The theorems                                                             *)

LEMMA InitOK == Init => IInv
<1>. SUFFICES ASSUME Init PROVE IInv OBVIOUS
<1>1. Disk(disk, clock) /\ clock \in Nat BY EmptyFacts DEF Init, Disk
<1>2. Remembers(NoIndex, disk, clock) BY <1>1, EmptyFacts DEF Remembers, NoIndex, ReadAfter
<1>3. Reads(NoReader, disk, clock) BY <1>1, Reset
<1>. QED BY <1>1, <1>2, <1>3 DEF IInv, Init

LEMMA StepOK == IInv /\ [Next]_vars => IInv'
<1>. SUFFICES ASSUME IInv, [Next]_vars PROVE IInv' OBVIOUS
<1>1. CASE UNCHANGED vars BY <1>1 DEF vars, IInv
<1>2. ASSUME NEW f \in Files, Change(f) PROVE IInv' BY <1>2, ChangeKeeps
<1>3. ASSUME NEW r \in Readers, NEW rebuild \in BOOLEAN, NEW keep, Begin(r, rebuild, keep) PROVE IInv'
  BY <1>3, BeginKeeps
<1>4. ASSUME NEW r \in Readers, Work(r) PROVE IInv'
  BY <1>4, ListKeeps, CompareKeeps, StoreKeeps, SelectKeeps, RebuildKeeps, ComposeKeeps,
     FinishKeeps, StatKeeps, ReadKeeps DEF Work
<1>5. CASE Kill BY <1>5, KillKeeps
<1>. QED BY <1>1, <1>2, <1>3, <1>4, <1>5 DEF Next

LEMMA Always == Spec => []IInv
BY InitOK, StepOK, PTL DEF Spec

\* The memory index never remembers the text of another version under the stamp a
\* file has (a document whose extraction failed it remembers as empty),
\* for any number of requests and files and whatever is written between the
\* look at the stamp and the reading (project_memory_sections).
THEOREM CacheHolds == Spec => []CacheTruthful
<1>1. IInv => CacheTruthful
  <2>. SUFFICES ASSUME IInv, NEW k \in 1..2, NEW f \in Parts[k],
                       cache[k].sig[f] # 0, cache[k].sig[f] = disk[f].stamp
                PROVE  cache[k].texts[f] \in Reading(f)
    BY DEF CacheTruthful
  <2>1. f \in Files BY PartFacts
  <2>. QED BY <2>1 DEF IInv, Remembers, ReadAfter, Gives, Reading, NoText
<1>. QED BY <1>1, Always, PTL

-----------------------------------------------------------------------------
(* What is in hand under the stamp that a file has is a text of that file.  *)

Held(f, x, y, c) == x.stamp <= c /\ (x.stamp # 0 /\ x.stamp = y.stamp => Gives(f, x, y))
AllHeld(texts, d, c) == \A f \in Files : Held(f, texts[f], d[f], c)

HInv ==
    /\ \A k \in 1..2 : AllHeld(cache[k].texts, disk, clock)
    /\ \A r \in Readers : AllHeld(reader[r].texts, disk, clock) /\ AllHeld(reader[r].have, disk, clock)

LEMMA HeldAbsent == ASSUME NEW d, NEW c \in Nat PROVE AllHeld(Absent, d, c)
BY EmptyFacts DEF AllHeld, Held

LEMMA HeldStays ==
    ASSUME NEW d, NEW e, NEW b \in Nat, NEW c \in Nat, Disk(d, c), Changes(d, c, e, b),
           NEW texts \in [Files -> Texts], AllHeld(texts, d, c)
    PROVE  AllHeld(texts, e, b)
<1>. SUFFICES ASSUME NEW f \in Files PROVE Held(f, texts[f], e[f], b) BY DEF AllHeld
<1>1. texts[f].stamp \in Nat /\ e[f].stamp \in Nat /\ Held(f, texts[f], d[f], c)
  BY DEF Texts, Changes, Disk, AllHeld
<1>2. e[f] = d[f] \/ e[f].stamp = 0 \/ e[f].stamp > c BY DEF Changes
<1>. QED BY <1>1, <1>2 DEF Held, Changes

LEMMA HeldGoOn ==
    ASSUME NEW d, NEW c \in Nat, NEW t, Shaped(t), NEW texts,
           AllHeld(t.have, d, c), AllHeld(texts, d, c)
    PROVE  AllHeld(GoOn(t, texts).texts, d, c) /\ AllHeld(GoOn(t, texts).have, d, c)
<1>1. /\ GoOn(t, texts).texts = Absent
      /\ GoOn(t, texts).have = [f \in Files |-> IF f \in Parts[t.part] THEN texts[f] ELSE t.have[f]]
  BY DEF Shaped, GoOn
<1>. QED BY <1>1, HeldAbsent DEF AllHeld

\* One request takes a step, and what it has in hand is held.
LEMMA HeldStep ==
    ASSUME IInv, HInv, NEW r \in Readers, NEW u, Becomes(r, u), UNCHANGED <<disk, clock, cache>>,
           AllHeld(u.texts, disk, clock), AllHeld(u.have, disk, clock)
    PROVE  HInv'
BY DEF IInv, HInv, Becomes, AllHeld

LEMMA HeldIdle ==
    ASSUME IInv, HInv, NEW r \in Readers, NEW u, Becomes(r, u), UNCHANGED <<disk, clock, cache>>,
           u.texts = Absent, u.have = Absent
    PROVE  HInv'
<1>1. AllHeld(Absent, disk, clock) BY HeldAbsent DEF IInv
<1>. QED BY <1>1, HeldStep

LEMMA HeldRaise ==
    ASSUME IInv, HInv, NEW r \in Readers, Raise(r), UNCHANGED <<disk, clock, cache>>
    PROVE  HInv'
<1>1. /\ [NoReader EXCEPT !.at = "raised"].texts = Absent
      /\ [NoReader EXCEPT !.at = "raised"].have = Absent
  BY DEF NoReader
<1>. QED BY <1>1, HeldIdle DEF Raise

LEMMA HeldWork == ASSUME IInv, HInv, NEW r \in Readers, Work(r) PROVE HInv'
<1>. DEFINE t == reader[r]
<1>1. /\ Shaped(t) /\ clock \in Nat /\ Disk(disk, clock)
      /\ AllHeld(t.texts, disk, clock) /\ AllHeld(t.have, disk, clock)
      /\ AllHeld(Absent, disk, clock)
  BY HeldAbsent DEF IInv, HInv, Reads
<1>2. ASSUME NEW texts, AllHeld(texts, disk, clock), Becomes(r, GoOn(t, texts)),
             UNCHANGED <<disk, clock, cache>>
      PROVE  HInv'
  BY <1>1, <1>2, HeldGoOn, HeldStep
<1>3. CASE List(r)
  <2>1. CASE Becomes(r, GoOn(t, Absent)) BY <1>1, <1>2, <1>3, <2>1 DEF List
  <2>2. ASSUME NEW files, Becomes(r, [t EXCEPT !.at = "stating", !.todo = files]) PROVE HInv'
    <3>1. /\ [t EXCEPT !.at = "stating", !.todo = files].texts = t.texts
          /\ [t EXCEPT !.at = "stating", !.todo = files].have = t.have
      BY <1>1 DEF Shaped
    <3>. QED BY <1>1, <1>3, <2>2, <3>1, HeldStep DEF List
  <2>. QED BY <1>3, <2>1, <2>2 DEF List
<1>4. ASSUME NEW f \in Files, StatFile(r, f) PROVE HInv'
  <2>. DEFINE w == [t EXCEPT !.todo = @ \ {f}, !.sig[f] = disk[f].stamp]
              u == [w EXCEPT !.at = IF w.todo = {} THEN "comparing" ELSE @]
  <2>1. u.texts = t.texts /\ u.have = t.have BY <1>1 DEF Shaped
  <2>2. (Becomes(r, u) \/ Raise(r)) /\ UNCHANGED <<disk, clock, cache>> BY <1>4 DEF StatFile
  <2>. QED BY <1>1, <2>1, <2>2, HeldStep, HeldRaise
<1>5. CASE Compare(r)
  <2>. DEFINE u == [t EXCEPT !.at = "reading", !.todo = {f \in Files : t.sig[f] # 0}]
  <2>1. u.texts = t.texts /\ u.have = t.have BY <1>1 DEF Shaped
  <2>2. AllHeld(cache[t.part].texts, disk, clock) BY <1>1 DEF HInv, Shaped
  <2>3. /\ Becomes(r, u) \/ Becomes(r, GoOn(t, cache[t.part].texts))
        /\ UNCHANGED <<disk, clock, cache>>
    BY <1>5 DEF Compare
  <2>. QED BY <1>1, <1>2, <2>1, <2>2, <2>3, HeldStep
<1>6. ASSUME NEW f \in Files, ReadFile(r, f) PROVE HInv'
  <2>. DEFINE w == [t EXCEPT !.todo = @ \ {f}, !.at = IF t.todo = {f} THEN "storing" ELSE @]
              u(x) == [w EXCEPT !.texts[f] = x]
  <2>1. UNCHANGED <<disk, clock, cache>> BY <1>6 DEF ReadFile
  <2>2. CASE Raise(r) BY <2>1, <2>2, HeldRaise
  <2>3. ASSUME NEW x \in Reading(f), Becomes(r, u(x)) PROVE HInv'
    <3>1. u(x).texts = [t.texts EXCEPT ![f] = x] /\ u(x).have = t.have BY <1>1 DEF Shaped
    <3>2. x.stamp = disk[f].stamp /\ Gives(f, x, disk[f]) /\ disk[f].stamp <= clock
      BY <1>1, ReadingFacts DEF Disk
    <3>3. AllHeld(u(x).texts, disk, clock) BY <1>1, <3>1, <3>2 DEF AllHeld, Held, Shaped
    <3>. QED BY <1>1, <2>1, <2>3, <3>1, <3>3, HeldStep
  <2>. QED BY <1>6, <2>2, <2>3 DEF ReadFile
<1>7. CASE StoreIndex(r)
  <2>1. /\ cache' = [cache EXCEPT ![t.part] = [sig |-> t.sig, texts |-> t.texts]]
        /\ Becomes(r, GoOn(t, t.texts)) /\ disk' = disk /\ clock' = clock
    BY <1>7 DEF StoreIndex
  <2>2. /\ AllHeld(GoOn(t, t.texts).texts, disk, clock)
        /\ AllHeld(GoOn(t, t.texts).have, disk, clock)
    BY <1>1, HeldGoOn
  <2>3. \A k \in 1..2 : AllHeld(cache'[k].texts, disk, clock)
    BY <1>1, <2>1 DEF IInv, HInv
  <2>4. \A q \in Readers : AllHeld(reader'[q].texts, disk, clock) /\ AllHeld(reader'[q].have, disk, clock)
    BY <2>1, <2>2 DEF IInv, HInv, Becomes
  <2>. QED BY <2>1, <2>3, <2>4 DEF HInv
<1>8. CASE Select(r) \/ Rebuild(r) \/ Compose(r) \/ Finish(r)
  <2>1. PICK u : /\ Becomes(r, u) /\ u.texts = Absent /\ u.have = Absent
    <3>1. NoReader.texts = Absent /\ NoReader.have = Absent BY DEF NoReader
    <3>2. CASE Select(r)
      <4>1. PICK S, q, sel, plan :
              Becomes(r, [NoReader EXCEPT !.at = "selected", !.out.memory = S, !.out.query = q,
                            !.out.sel = sel, !.out.plan = plan])
        BY <3>2 DEF Select
      <4>. DEFINE u == [NoReader EXCEPT !.at = "selected", !.out.memory = S, !.out.query = q,
                          !.out.sel = sel, !.out.plan = plan]
      <4>2. u.texts = Absent /\ u.have = Absent BY DEF NoReader
      <4>. QED BY <4>1, <4>2
    <3>3. CASE Rebuild(r)
      <4>1. PICK dropped, sel, plan :
              Becomes(r, [NoReader EXCEPT !.at = "rebuilt", !.dropped = dropped,
                            !.out.sel = sel, !.out.plan = plan])
        BY <3>3 DEF Rebuild
      <4>. DEFINE u == [NoReader EXCEPT !.at = "rebuilt", !.dropped = dropped,
                          !.out.sel = sel, !.out.plan = plan]
      <4>2. u.texts = Absent /\ u.have = Absent BY DEF NoReader
      <4>. QED BY <4>1, <4>2
    <3>4. CASE Compose(r)
      <4>1. PICK offered, length, context, taken :
              Becomes(r, [NoReader EXCEPT !.at = "composed", !.out.offered = offered,
                            !.out.context = context, !.out.length = length, !.out.taken = taken])
        BY <3>4 DEF Compose
      <4>. DEFINE u == [NoReader EXCEPT !.at = "composed", !.out.offered = offered,
                          !.out.context = context, !.out.length = length, !.out.taken = taken]
      <4>2. u.texts = Absent /\ u.have = Absent BY DEF NoReader
      <4>. QED BY <4>1, <4>2
    <3>5. CASE Finish(r) BY <3>1, <3>5 DEF Finish
    <3>. QED BY <1>8, <3>2, <3>3, <3>4, <3>5
  <2>2. UNCHANGED <<disk, clock, cache>> BY <1>8 DEF Select, Rebuild, Compose, Finish
  <2>. QED BY <2>1, <2>2, HeldIdle
<1>. QED BY <1>3, <1>4, <1>5, <1>6, <1>7, <1>8 DEF Work

LEMMA HeldInit == Init => HInv
<1>. SUFFICES ASSUME Init PROVE HInv OBVIOUS
<1>1. AllHeld(Absent, disk, clock) BY HeldAbsent DEF Init
<1>. QED BY <1>1 DEF Init, HInv, NoIndex, NoReader

LEMMA HeldNext == IInv /\ HInv /\ [Next]_vars => HInv'
<1>. SUFFICES ASSUME IInv, HInv, [Next]_vars PROVE HInv' OBVIOUS
<1>1. CASE UNCHANGED vars BY <1>1 DEF vars, HInv
<1>2. ASSUME NEW f \in Files, Change(f) PROVE HInv'
  <2>1. Changes(disk, clock, disk', clock') /\ UNCHANGED <<cache, reader>> BY <1>2, FilesChange
  <2>2. clock \in Nat /\ clock' \in Nat /\ Disk(disk, clock) BY <2>1 DEF IInv, Changes
  <2>3. \A k \in 1..2 : cache[k].texts \in [Files -> Texts] BY DEF IInv, Remembers
  <2>4. \A r \in Readers : reader[r].texts \in [Files -> Texts] /\ reader[r].have \in [Files -> Texts]
    BY DEF IInv, Reads, Shaped
  <2>5. \A k \in 1..2 : AllHeld(cache[k].texts, disk', clock')
    BY <2>1, <2>2, <2>3, HeldStays DEF HInv
  <2>6. \A r \in Readers : AllHeld(reader[r].texts, disk', clock') /\ AllHeld(reader[r].have, disk', clock')
    BY <2>1, <2>2, <2>4, HeldStays DEF HInv
  <2>. QED BY <2>1, <2>5, <2>6 DEF HInv
<1>3. ASSUME NEW r \in Readers, NEW rebuild \in BOOLEAN, NEW keep, Begin(r, rebuild, keep) PROVE HInv'
  <2>. DEFINE u == [NoReader EXCEPT !.at = "listing",
                      !.floor = [f \in Files |-> disk[f].stamp],
                      !.part = IF rebuild THEN 2 ELSE 1,
                      !.rebuild = rebuild, !.keep = keep,
                      !.dropped = IF rebuild THEN shown.ids \ keep ELSE {}]
  <2>1. Becomes(r, u) /\ u.texts = Absent /\ u.have = Absent BY <1>3 DEF Begin, NoReader
  <2>. QED BY <1>3, <2>1, HeldIdle DEF Begin
<1>4. ASSUME NEW r \in Readers, Work(r) PROVE HInv' BY <1>4, HeldWork
<1>5. CASE Kill
  <2>1. AllHeld(Absent, disk, clock) BY HeldAbsent DEF IInv
  <2>. QED BY <1>5, <2>1 DEF Kill, HInv, NoIndex, NoReader
<1>. QED BY <1>1, <1>2, <1>3, <1>4, <1>5 DEF Next

\* A request works with nothing older than the files were when it began, and
\* what it has of a file that has not changed since is a reading of that file,
\* for any number of requests that share the cache (project_memory_sections).
THEOREM NothingStale == Spec => []Fresh
<1>1. IInv /\ HInv => Fresh
  <2>. SUFFICES ASSUME IInv, HInv, NEW r \in Readers, reader[r].at = "selecting", NEW f \in Files
                PROVE  LET t == reader[r] IN
                       \/ /\ t.have[f].stamp # 0 /\ t.have[f].stamp >= t.floor[f]
                          /\ t.have[f].stamp = disk[f].stamp => t.have[f] \in Reading(f)
                       \/ t.have[f].stamp = 0 /\ Changed(t, f)
                       \/ t.have[f].stamp = 0 /\ f \in ProjectFiles /\ Changed(t, MemoryFile)
    BY DEF Fresh
  <2>1. PICK k \in 1..2 : f \in Parts[k] BY PartFacts DEF Files
  <2>2. Done(reader[r], k) BY DEF Done
  <2>3. Good(reader[r], f, reader[r].have[f], disk) BY <2>1, <2>2 DEF IInv, Reads
  <2>4. Held(f, reader[r].have[f], disk[f], clock) BY DEF HInv, AllHeld
  <2>. QED BY <2>3, <2>4 DEF Good, Other, Changed, Held, Gives, Reading, NoText
<1>2. Spec => []HInv BY HeldInit, HeldNext, Always, PTL DEF Spec
<1>. QED BY <1>1, <1>2, Always, PTL

-----------------------------------------------------------------------------
(* Induction and recursion over numbers: from the well-foundedness of Nat,  *)
(* with sets and functions in the place of predicates and operators.        *)

LEMMA LeastNumber ==
    ASSUME NEW T \in SUBSET Nat, T # {}
    PROVE  \E x \in T : \A y \in T : x <= y
<1> DEFINE R == OpToRel(<, Nat)
<1>1. IsWellFoundedOn(R, Nat) BY NatLessThanWellFounded
<1>2. \A y, x \in Nat : <<y, x>> \in R <=> y < x BY DEF OpToRel
<1> HIDE DEF R
<1>3. PICK x \in T : \A y \in T : ~(<<y, x>> \in R) BY <1>1, WFMin
<1>4. \A y \in T : x \in Nat /\ y \in Nat /\ ~(y < x) BY <1>2, <1>3
<1>5. \A y \in T : x <= y BY <1>4
<1> QED BY <1>5

LEMMA Induct ==
    ASSUME NEW P, 0 \in P, \A n \in Nat : n \in P => n + 1 \in P
    PROVE  Nat \subseteq P
<1> SUFFICES ASSUME Nat \ P # {} PROVE FALSE OBVIOUS
<1>1. PICK x \in Nat \ P : \A y \in Nat \ P : x <= y BY LeastNumber
<1>2. x # 0 /\ x - 1 \in Nat BY <1>1
<1>3. x - 1 \in P BY <1>1, <1>2
<1> QED BY <1>1, <1>2, <1>3

\* What takes N steps by g from b; and that two functions take the same N steps.
Stepper(g, X, N)    == g \in [X \X (1..N) -> X]
Steps(h, b, g, X, N) == h \in [0..N -> X] /\ h[0] = b /\ \A n \in 1..N : h[n] = g[<<h[n - 1], n>>]
InStep(c, h, N)     == c[0] = h[0] /\ \A n \in 1..N : c[n - 1] = h[n - 1] => c[n] = h[n]
SameTo(c, h, N)     == \A n \in 0..N : c[n] = h[n]

LEMMA Recursion ==
    ASSUME NEW X, NEW b \in X, NEW N \in Nat, NEW g, Stepper(g, X, N)
    PROVE  \E h : Steps(h, b, g, X, N)
<1> DEFINE P == {n \in Nat : n <= N => \E h : Steps(h, b, g, X, n)}
<1>1. 0 \in P
  <2> DEFINE h == [i \in 0..0 |-> b]
  <2>1. Steps(h, b, g, X, 0) BY DEF Steps
  <2> QED BY <2>1
<1>2. ASSUME NEW n \in Nat, n \in P PROVE n + 1 \in P
  <2> SUFFICES ASSUME n + 1 <= N PROVE \E h : Steps(h, b, g, X, n + 1) OBVIOUS
  <2>1. PICK h : Steps(h, b, g, X, n) BY <1>2
  <2> DEFINE k == [i \in 0..(n + 1) |-> IF i = n + 1 THEN g[<<h[n], n + 1>>] ELSE h[i]]
  <2>2. h \in [0..n -> X] /\ h[n] \in X /\ n + 1 \in 1..N BY <2>1 DEF Steps
  <2>3. g[<<h[n], n + 1>>] \in X BY <2>2 DEF Stepper
  <2>4. k \in [0..(n + 1) -> X] BY <2>2, <2>3
  <2>5. k[0] = b BY <2>1 DEF Steps
  <2>6. \A i \in 1..(n + 1) : k[i] = g[<<k[i - 1], i>>]
    <3> SUFFICES ASSUME NEW i \in 1..(n + 1) PROVE k[i] = g[<<k[i - 1], i>>] OBVIOUS
    <3>0. \A j \in 0..n : k[j] = h[j] OBVIOUS
    <3>1. CASE i = n + 1
      <4>1. k[i] = g[<<h[n], n + 1>>] BY <3>1
      <4>2. k[i - 1] = h[n] BY <3>0, <3>1
      <4> QED BY <3>1, <4>1, <4>2
    <3>2. CASE i # n + 1
      <4>1. i \in 1..n BY <3>2
      <4>2. k[i] = h[i] /\ k[i - 1] = h[i - 1] BY <3>0, <4>1
      <4> QED BY <2>1, <4>1, <4>2 DEF Steps
    <3> QED BY <3>1, <3>2
  <2> HIDE DEF k
  <2>7. Steps(k, b, g, X, n + 1) BY <2>4, <2>5, <2>6 DEF Steps
  <2> QED BY <2>7
<1> HIDE DEF P
<1>3. Nat \subseteq P BY <1>1, <1>2, Induct
<1>4. N \in P BY <1>3
<1> QED BY <1>4 DEF P

LEMMA SameSteps ==
    ASSUME NEW N \in Nat, NEW c, NEW h, InStep(c, h, N)
    PROVE  SameTo(c, h, N)
<1> DEFINE P == {n \in Nat : n <= N => c[n] = h[n]}
<1>1. 0 \in P BY DEF InStep
<1>2. ASSUME NEW n \in Nat, n \in P PROVE n + 1 \in P
  <2> SUFFICES ASSUME n + 1 <= N PROVE c[n + 1] = h[n + 1] OBVIOUS
  <2>1. c[n] = h[n] BY <1>2
  <2>2. n + 1 \in 1..N /\ (n + 1) - 1 = n OBVIOUS
  <2> QED BY <2>1, <2>2 DEF InStep
<1> HIDE DEF P
<1>3. Nat \subseteq P BY <1>1, <1>2, Induct
<1> QED BY <1>3 DEF P, SameTo

-----------------------------------------------------------------------------
(* Sums.                                                                    *)

LEMMA SumIs ==
    ASSUME NEW q \in Seq(Nat)
    PROVE  \E h \in [0..Len(q) -> Nat] : /\ h[0] = 0
                                         /\ \A n \in 1..Len(q) : h[n] = h[n - 1] + q[n]
                                         /\ Sum(q) = h[Len(q)]
<1> DEFINE N == Len(q)
           D(k) == k = [n \in 0..N |-> IF n = 0 THEN 0 ELSE k[n - 1] + q[n]]
           c == CHOOSE k : D(k)
           g == [x \in Nat \X (1..N) |-> x[1] + q[x[2]]]
<1>0. 0 \in Nat OBVIOUS
<1>1. N \in Nat /\ \A n \in 1..N : q[n] \in Nat OBVIOUS
<1>2. g \in [Nat \X (1..N) -> Nat] BY <1>1
<1>3. \A m \in Nat, n \in 1..N : g[<<m, n>>] = m + q[n] OBVIOUS
<1>4. Sum(q) = c[N] BY DEF Sum
<1> HIDE DEF g, N
<1>5. PICK h \in [0..N -> Nat] : h[0] = 0 /\ \A n \in 1..N : h[n] = g[<<h[n - 1], n>>]
  <2>1. PICK h : Steps(h, 0, g, Nat, N) BY <1>0, <1>1, <1>2, Recursion DEF Stepper
  <2> QED BY <2>1 DEF Steps
<1>6. \A n \in 1..N : h[n] = h[n - 1] + q[n]
  <2>1. \A n \in 1..N : n - 1 \in 0..N BY <1>1
  <2>2. \A n \in 1..N : h[n - 1] \in Nat BY <2>1
  <2> QED BY <1>3, <1>5, <2>2
<1>7. D(h) BY <1>1, <1>5, <1>6
<1> HIDE DEF D
<1>8. D(c) BY <1>7
<1> USE DEF D
<1>9. c[0] = h[0] /\ \A n \in 1..N : c[n - 1] = h[n - 1] => c[n] = h[n]
  <2> HIDE DEF c
  <2> QED BY <1>1, <1>5, <1>6, <1>8
<1> HIDE DEF c, D
<1>10. SameTo(c, h, N) BY <1>1, <1>9, SameSteps DEF InStep
<1>11. c[N] = h[N] BY <1>1, <1>10 DEF SameTo
<1> QED BY <1>4, <1>5, <1>6, <1>11 DEF N

LEMMA SumAppend ==
    ASSUME NEW q \in Seq(Nat), NEW x \in Nat
    PROVE  Sum(Append(q, x)) = Sum(q) + x /\ Sum(q) \in Nat
<1> DEFINE p == Append(q, x)
<1>1. p \in Seq(Nat) /\ Len(p) = Len(q) + 1 /\ p[Len(q) + 1] = x /\ \A i \in 1..Len(q) : p[i] = q[i]
  BY AppendProperties
<1>2. Len(q) \in Nat OBVIOUS
<1> HIDE DEF p
<1>3. PICK h \in [0..Len(q) -> Nat] : /\ h[0] = 0
                                      /\ \A n \in 1..Len(q) : h[n] = h[n - 1] + q[n]
                                      /\ Sum(q) = h[Len(q)]
  BY SumIs
<1>4. PICK k \in [0..Len(p) -> Nat] : /\ k[0] = 0
                                      /\ \A n \in 1..Len(p) : k[n] = k[n - 1] + p[n]
                                      /\ Sum(p) = k[Len(p)]
  BY <1>1, SumIs
<1>5. \A n \in 1..Len(q) : k[n - 1] = h[n - 1] => k[n] = h[n] BY <1>1, <1>2, <1>3, <1>4
<1>6. SameTo(k, h, Len(q)) BY <1>2, <1>3, <1>4, <1>5, SameSteps DEF InStep
<1>7. k[Len(q) + 1] = k[Len(q)] + x
  <2>1. Len(q) + 1 \in 1..Len(p) /\ (Len(q) + 1) - 1 = Len(q) BY <1>1, <1>2
  <2> QED BY <1>1, <1>4, <2>1
<1> QED BY <1>1, <1>2, <1>3, <1>4, <1>6, <1>7 DEF p, SameTo

LEMMA SumZero ==
    ASSUME NEW q \in Seq(Nat), \A i \in 1..Len(q) : q[i] = 0
    PROVE  Sum(q) = 0
<1>1. PICK h \in [0..Len(q) -> Nat] : /\ h[0] = 0
                                      /\ \A n \in 1..Len(q) : h[n] = h[n - 1] + q[n]
                                      /\ Sum(q) = h[Len(q)]
  BY SumIs
<1> DEFINE z == [n \in 0..Len(q) |-> 0]
<1>2. Len(q) \in Nat OBVIOUS
<1>3. \A n \in 0..Len(q) : z[n] = 0 OBVIOUS
<1>4. z[0] = 0 /\ z[Len(q)] = 0 BY <1>2
<1> HIDE DEF z
<1>6. ASSUME NEW n \in 1..Len(q), h[n - 1] = z[n - 1] PROVE h[n] = z[n]
  <2>1. n \in 0..Len(q) /\ n - 1 \in 0..Len(q) BY <1>2
  <2>2. z[n] = 0 /\ h[n - 1] = 0 BY <1>3, <1>6, <2>1
  <2> QED BY <1>1, <2>2
<1>5. SameTo(h, z, Len(q)) BY <1>1, <1>2, <1>4, <1>6, SameSteps DEF InStep
<1> QED BY <1>1, <1>2, <1>4, <1>5 DEF SameTo

\* One of the numbers is greater by d.
LEMMA SumChange ==
    ASSUME NEW q \in Seq(Nat), NEW p \in Seq(Nat), Len(p) = Len(q), NEW d \in Nat,
           NEW m \in 1..Len(q), p[m] = q[m] + d, \A i \in 1..Len(q) : i # m => p[i] = q[i]
    PROVE  Sum(p) = Sum(q) + d
<1>1. PICK h \in [0..Len(q) -> Nat] : /\ h[0] = 0
                                      /\ \A n \in 1..Len(q) : h[n] = h[n - 1] + q[n]
                                      /\ Sum(q) = h[Len(q)]
  BY SumIs
<1>2. PICK k \in [0..Len(q) -> Nat] : /\ k[0] = 0
                                      /\ \A n \in 1..Len(q) : k[n] = k[n - 1] + p[n]
                                      /\ Sum(p) = k[Len(q)]
  BY SumIs
<1> DEFINE z == [n \in 0..Len(q) |-> IF n < m THEN h[n] ELSE h[n] + d]
<1>3. Len(q) \in Nat /\ \A i \in 1..Len(q) : q[i] \in Nat /\ p[i] \in Nat
  BY LenProperties, ElementOfSeq
<1>4. k[0] = z[0] BY <1>1, <1>2, <1>3
<1>5. ASSUME NEW n \in 1..Len(q), k[n - 1] = z[n - 1] PROVE k[n] = z[n]
  <2>1. k[n] = k[n - 1] + p[n] /\ h[n] = h[n - 1] + q[n] /\ n \in 0..Len(q) /\ n - 1 \in 0..Len(q)
    BY <1>1, <1>2, <1>3
  <2>2. h[n - 1] \in Nat /\ q[n] \in Nat BY <1>3, <2>1
  <2>3. CASE n < m
    <3>1. z[n - 1] = h[n - 1] /\ z[n] = h[n] BY <2>1, <2>3
    <3> QED BY <1>5, <2>1, <2>3, <3>1
  <2>4. CASE n = m
    <3>1. z[n - 1] = h[n - 1] /\ z[n] = h[n] + d BY <2>1, <2>4
    <3> QED BY <1>5, <2>1, <2>2, <2>4, <3>1
  <2>5. CASE n > m
    <3>1. z[n - 1] = h[n - 1] + d /\ z[n] = h[n] + d BY <2>1, <2>5
    <3> QED BY <1>5, <2>1, <2>2, <2>5, <3>1
  <2> QED BY <2>3, <2>4, <2>5
<1>6. z[Len(q)] = h[Len(q)] + d BY <1>1, <1>3
<1> HIDE DEF z
<1>7. SameTo(k, z, Len(q)) BY <1>3, <1>4, <1>5, SameSteps DEF InStep
<1> QED BY <1>1, <1>2, <1>3, <1>6, <1>7 DEF SameTo

-----------------------------------------------------------------------------
(* Sorts.                                                                   *)

Keys == Int \X Int \X Int

LEMMA LessIs ==
    ASSUME NEW a \in Keys, NEW b \in Keys
    PROVE  Less(a, b) <=> \/ a[1] < b[1]
                          \/ a[1] = b[1] /\ a[2] < b[2]
                          \/ a[1] = b[1] /\ a[2] = b[2] /\ a[3] < b[3]
<1>1. 1..3 = {1, 2, 3} /\ 1..(1 - 1) = {} /\ 1..(2 - 1) = {1} /\ 1..(3 - 1) = {1, 2} OBVIOUS
<1>2. Less(a, b) <=> \E i \in {1, 2, 3} : a[i] < b[i] /\ \A j \in 1..(i - 1) : a[j] = b[j]
  BY <1>1 DEF Less
<1>3. @ <=> \/ a[1] < b[1] /\ \A j \in 1..(1 - 1) : a[j] = b[j]
            \/ a[2] < b[2] /\ \A j \in 1..(2 - 1) : a[j] = b[j]
            \/ a[3] < b[3] /\ \A j \in 1..(3 - 1) : a[j] = b[j]
  OBVIOUS
<1>4. @ <=> \/ a[1] < b[1]
            \/ a[2] < b[2] /\ a[1] = b[1]
            \/ a[3] < b[3] /\ a[1] = b[1] /\ a[2] = b[2]
  BY <1>1
<1> QED BY <1>2, <1>3, <1>4

LEMMA LessOrder ==
    /\ \A a \in Keys : ~Less(a, a)
    /\ \A a, b, c \in Keys : Less(a, b) /\ Less(b, c) => Less(a, c)
<1>1. ASSUME NEW a \in Keys PROVE ~Less(a, a)
  BY LessIs DEF Keys
<1>2. ASSUME NEW a \in Keys, NEW b \in Keys, NEW c \in Keys, Less(a, b), Less(b, c) PROVE Less(a, c)
  <2>1. \A i \in {1, 2, 3} : a[i] \in Int /\ b[i] \in Int /\ c[i] \in Int BY DEF Keys
  <2>2. \/ a[1] < b[1]
        \/ a[1] = b[1] /\ a[2] < b[2]
        \/ a[1] = b[1] /\ a[2] = b[2] /\ a[3] < b[3]
    BY <1>2, LessIs
  <2>3. \/ b[1] < c[1]
        \/ b[1] = c[1] /\ b[2] < c[2]
        \/ b[1] = c[1] /\ b[2] = c[2] /\ b[3] < c[3]
    BY <1>2, LessIs
  <2>4. \/ a[1] < c[1]
        \/ a[1] = c[1] /\ a[2] < c[2]
        \/ a[1] = c[1] /\ a[2] = c[2] /\ a[3] < c[3]
    BY <2>1, <2>2, <2>3
  <2> QED BY <2>4, LessIs
<1> QED BY <1>1, <1>2

\* The first of a set is one of it, and nothing in it comes before: take one that
\* the fewest come before.
LEMMA BestIs ==
    ASSUME NEW X, IsFiniteSet(X), X # {}, NEW key, \A x \in X : key[x] \in Keys
    PROVE  Best(X, key) \in X /\ \A y \in X : ~Less(key[y], key[Best(X, key)])
<1> DEFINE Below(x) == {y \in X : Less(key[y], key[x])}
           T == {Cardinality(Below(x)) : x \in X}
           P(x) == x \in X /\ \A y \in X : ~Less(key[y], key[x])
<1>1. \A x \in X : IsFiniteSet(Below(x)) /\ Cardinality(Below(x)) \in Nat
  <2> SUFFICES ASSUME NEW x \in X PROVE IsFiniteSet(Below(x)) /\ Cardinality(Below(x)) \in Nat OBVIOUS
  <2>1. Below(x) \in SUBSET X OBVIOUS
  <2> HIDE DEF Below
  <2> QED BY <2>1, FS_Subset, FS_CardinalityType
<1>2. T \in SUBSET Nat /\ T # {} BY <1>1
<1>3. PICK n \in T : \A m \in T : n <= m BY <1>2, LeastNumber
<1>4. PICK x \in X : n = Cardinality(Below(x)) BY <1>3
<1>5. ASSUME NEW y \in X, Less(key[y], key[x]) PROVE FALSE
  <2>1. Below(y) \in SUBSET Below(x) BY <1>4, <1>5, LessOrder
  <2>2. y \in Below(x) /\ y \notin Below(y) BY <1>5, LessOrder
  <2>3. Cardinality(Below(y)) \in T /\ Cardinality(Below(x)) <= Cardinality(Below(y)) BY <1>3, <1>4
  <2>4. IsFiniteSet(Below(x)) /\ Cardinality(Below(x)) \in Nat /\ Cardinality(Below(y)) \in Nat BY <1>1
  <2> HIDE DEF Below, T
  <2>5. Cardinality(Below(y)) <= Cardinality(Below(x)) BY <2>1, <2>4, FS_Subset
  <2>6. Cardinality(Below(x)) = Cardinality(Below(y)) BY <2>3, <2>4, <2>5
  <2>7. Below(x) = Below(y) BY <2>1, <2>4, <2>6, FS_Subset
  <2> QED BY <2>2, <2>7
<1>6. P(x) BY <1>4, <1>5
<1> DEFINE z == CHOOSE v : P(v)
<1> HIDE DEF P
<1>7. P(z) BY <1>6
<1>8. Best(X, key) = z
  <2> DEFINE Q(v) == \A y \in X : ~Less(key[y], key[v])
  <2>1. Best(X, key) = CHOOSE v \in X : Q(v) BY DEF Best
  <2>2. \A v : P(v) <=> v \in X /\ Q(v) BY DEF P
  <2> HIDE DEF Q
  <2> QED BY <2>1, <2>2
<1> QED BY <1>7, <1>8 DEF P

\* The elements of a sequence.
LEMMA SetOf ==
    ASSUME NEW S, NEW q \in Seq(S)
    PROVE  /\ ToSet(q) \in SUBSET S /\ \A i \in 1..Len(q) : q[i] \in ToSet(q)
           /\ \A x \in ToSet(q) : \E i \in 1..Len(q) : x = q[i]
           /\ IsFiniteSet(ToSet(q)) /\ Cardinality(ToSet(q)) <= Len(q)
<1>1. Len(q) \in Nat /\ DOMAIN q = 1..Len(q) /\ q \in [1..Len(q) -> S] BY LenProperties
<1>2. /\ ToSet(q) \in SUBSET S /\ \A i \in 1..Len(q) : q[i] \in ToSet(q)
      /\ \A x \in ToSet(q) : \E i \in 1..Len(q) : x = q[i]
  BY <1>1 DEF ToSet
<1>3. IsFiniteSet(1..Len(q)) /\ Cardinality(1..Len(q)) = Len(q)
  <2>1. IsFiniteSet(1..Len(q)) /\ Cardinality(1..Len(q)) = IF 1 > Len(q) THEN 0 ELSE Len(q) - 1 + 1
    BY <1>1, FS_Interval
  <2> QED BY <1>1, <2>1
<1>4. q \in Surjection(1..Len(q), ToSet(q)) BY <1>1, <1>2 DEF Surjection, ToSet
<1>5. IsFiniteSet(ToSet(q)) /\ Cardinality(ToSet(q)) <= Cardinality(1..Len(q)) BY <1>3, <1>4, FS_Surjection
<1> QED BY <1>2, <1>3, <1>5

LEMMA SetOfAppend ==
    ASSUME NEW S, NEW q \in Seq(S), NEW e \in S
    PROVE  ToSet(Append(q, e)) = ToSet(q) \cup {e}
<1> DEFINE p == Append(q, e)
<1>1. /\ p \in Seq(S) /\ Len(p) = Len(q) + 1
      /\ p[Len(q) + 1] = e /\ \A i \in 1..Len(q) : p[i] = q[i] /\ Len(q) \in Nat
  BY AppendProperties
<1> HIDE DEF p
<1>2. ASSUME NEW x \in ToSet(p) PROVE x \in ToSet(q) \cup {e}
  <2>1. PICK i \in 1..Len(p) : x = p[i] BY <1>1, <1>2, SetOf
  <2>2. i \in 1..Len(q) \/ i = Len(q) + 1 BY <1>1, <2>1
  <2> QED BY <1>1, <2>1, <2>2, SetOf
<1>3. ASSUME NEW x \in ToSet(q) PROVE x \in ToSet(p)
  <2>1. PICK i \in 1..Len(q) : x = q[i] BY <1>3, SetOf
  <2>2. i \in 1..Len(p) BY <1>1
  <2> QED BY <1>1, <2>1, <2>2, SetOf
<1>4. e \in ToSet(p)
  <2>1. Len(q) + 1 \in 1..Len(p) BY <1>1, LenProperties
  <2> QED BY <1>1, <2>1, SetOf
<1> QED BY <1>2, <1>3, <1>4 DEF p

LEMMA SetOfConcat ==
    ASSUME NEW S, NEW q \in Seq(S), NEW p \in Seq(S)
    PROVE  ToSet(q \o p) = ToSet(q) \cup ToSet(p)
<1> DEFINE s == q \o p
<1>1. /\ s \in Seq(S) /\ Len(s) = Len(q) + Len(p) /\ Len(q) \in Nat /\ Len(p) \in Nat
      /\ \A i \in 1..(Len(q) + Len(p)) : s[i] = IF i <= Len(q) THEN q[i] ELSE p[i - Len(q)]
  BY ConcatProperties
<1> HIDE DEF s
<1>2. ASSUME NEW x \in ToSet(s) PROVE x \in ToSet(q) \cup ToSet(p)
  <2>1. PICK i \in 1..Len(s) : x = s[i] BY <1>1, <1>2, SetOf
  <2>2. CASE i <= Len(q)
    <3>1. i \in 1..Len(q) /\ x = q[i] BY <1>1, <2>1, <2>2
    <3> QED BY <3>1, SetOf
  <2>3. CASE ~(i <= Len(q))
    <3>1. i - Len(q) \in 1..Len(p) /\ x = p[i - Len(q)] BY <1>1, <2>1, <2>3
    <3> QED BY <3>1, SetOf
  <2> QED BY <2>2, <2>3
<1>3. ASSUME NEW x \in ToSet(q) PROVE x \in ToSet(s)
  <2>1. PICK i \in 1..Len(q) : x = q[i] BY <1>3, SetOf
  <2>2. i \in 1..Len(s) /\ s[i] = q[i] BY <1>1
  <2> QED BY <1>1, <2>1, <2>2, SetOf
<1>4. ASSUME NEW x \in ToSet(p) PROVE x \in ToSet(s)
  <2>1. PICK i \in 1..Len(p) : x = p[i] BY <1>4, SetOf
  <2>2. i + Len(q) \in 1..(Len(q) + Len(p)) /\ ~(i + Len(q) <= Len(q)) /\ (i + Len(q)) - Len(q) = i
    BY <1>1
  <2>3. i + Len(q) \in 1..Len(s) /\ s[i + Len(q)] = p[(i + Len(q)) - Len(q)] BY <1>1, <2>2
  <2> QED BY <1>1, <2>1, <2>2, <2>3, SetOf
<1> QED BY <1>2, <1>3, <1>4 DEF s

\* A set is sorted once and for all: every element has one place, and of two the
\* later does not come before the other.
InOrder(q, key) == \A i, j \in 1..Len(q) : i < j => ~Less(key[q[j]], key[q[i]])
Distinct(q)     == \A i, j \in 1..Len(q) : i # j => q[i] # q[j]

Sorting(h, X, key, N) ==
    h[0] = <<>> /\ \A n \in 1..N : h[n] = Append(h[n - 1], Best(X \ ToSet(h[n - 1]), key))

LEMMA SortedSteps ==
    ASSUME NEW X, IsFiniteSet(X), NEW key, \A x \in X : key[x] \in Keys
    PROVE  \E h : Sorting(h, X, key, Cardinality(X)) /\ Sorted(X, key) = h[Cardinality(X)]
<1> DEFINE N == Cardinality(X)
           V == X \cup {Best({}, key)}
           D(k) == k = [n \in 0..N |-> IF n = 0 THEN <<>>
                                       ELSE LET p == k[n - 1] IN Append(p, Best(X \ ToSet(p), key))]
           c == CHOOSE k : D(k)
           g == [x \in Seq(V) \X (1..N) |-> Append(x[1], Best(X \ ToSet(x[1]), key))]
<1>1. N \in Nat BY FS_CardinalityType
<1>2. \A p : Best(X \ ToSet(p), key) \in V
  <2> TAKE p
  <2>1. IsFiniteSet(X \ ToSet(p)) BY FS_Difference
  <2>2. CASE X \ ToSet(p) = {} BY <2>2
  <2>3. CASE X \ ToSet(p) # {}
    <3>1. Best(X \ ToSet(p), key) \in X \ ToSet(p) BY <2>1, <2>3, BestIs
    <3> QED BY <3>1
  <2> QED BY <2>2, <2>3
<1> HIDE DEF V
<1>3. \A p \in Seq(V), n \in 1..N : g[<<p, n>>] = Append(p, Best(X \ ToSet(p), key)) OBVIOUS
<1>4. g \in [Seq(V) \X (1..N) -> Seq(V)]
  <2>1. \A p \in Seq(V) : Append(p, Best(X \ ToSet(p), key)) \in Seq(V) BY <1>2, AppendProperties
  <2> QED BY <2>1
<1>5. Sorted(X, key) = c[N] BY DEF Sorted
<1> HIDE DEF g, N
<1>6. <<>> \in Seq(V) BY EmptySeq
<1>7. PICK h \in [0..N -> Seq(V)] : h[0] = <<>> /\ \A n \in 1..N : h[n] = g[<<h[n - 1], n>>]
  <2>1. PICK h : Steps(h, <<>>, g, Seq(V), N) BY <1>1, <1>4, <1>6, Recursion DEF Stepper
  <2> QED BY <2>1 DEF Steps
<1>8. \A n \in 1..N : h[n] = Append(h[n - 1], Best(X \ ToSet(h[n - 1]), key))
  <2>1. \A n \in 1..N : n - 1 \in 0..N BY <1>1
  <2>2. \A n \in 1..N : h[n - 1] \in Seq(V) BY <1>7, <2>1
  <2> QED BY <1>3, <1>7, <2>2
<1>9. D(h)
  <2> DEFINE w == [n \in 0..N |-> IF n = 0 THEN <<>> ELSE Append(h[n - 1], Best(X \ ToSet(h[n - 1]), key))]
  <2>1. ASSUME NEW n \in 0..N PROVE h[n] = w[n]
    <3>1. CASE n = 0 BY <1>7, <3>1
    <3>2. CASE n # 0
      <4>1. n \in 1..N BY <1>1, <3>2
      <4> QED BY <1>8, <3>2, <4>1
    <3> QED BY <3>1, <3>2
  <2>2. h = w BY <1>7, <2>1
  <2> QED BY <2>2
<1> HIDE DEF D
<1>10. D(c) BY <1>9
<1>11. ASSUME NEW n \in 1..N, c[n - 1] = h[n - 1] PROVE c[n] = h[n]
  <2> HIDE DEF c
  <2>1. n \in 0..N /\ n # 0 BY <1>1
  <2>2. c[n] = Append(c[n - 1], Best(X \ ToSet(c[n - 1]), key)) BY <1>10, <2>1 DEF D
  <2> QED BY <1>8, <1>11, <2>2
<1>12. c[0] = h[0]
  <2> HIDE DEF c
  <2> QED BY <1>1, <1>7, <1>10 DEF D
<1> HIDE DEF c
<1>13. SameTo(c, h, N) BY <1>1, <1>11, <1>12, SameSteps DEF InStep
<1>14. c[N] = h[N] BY <1>1, <1>13 DEF SameTo
<1> QED BY <1>5, <1>7, <1>8, <1>14 DEF N, Sorting

LEMMA SortedIs ==
    ASSUME NEW X, IsFiniteSet(X), NEW key, \A x \in X : key[x] \in Keys
    PROVE  /\ Sorted(X, key) \in Seq(X) /\ ToSet(Sorted(X, key)) = X
           /\ Distinct(Sorted(X, key)) /\ InOrder(Sorted(X, key), key)
<1> DEFINE N == Cardinality(X)
           Ahead(q) == \A i \in 1..Len(q) : \A y \in X \ ToSet(q) : ~Less(key[y], key[q[i]])
           OK(q) == Distinct(q) /\ InOrder(q, key) /\ Ahead(q)
<1>1. N \in Nat BY FS_CardinalityType
<1>2. PICK h : /\ h[0] = <<>> /\ Sorted(X, key) = h[N]
               /\ \A n \in 1..N : h[n] = Append(h[n - 1], Best(X \ ToSet(h[n - 1]), key))
  <2>1. PICK h : Sorting(h, X, key, N) /\ Sorted(X, key) = h[N] BY SortedSteps
  <2> QED BY <2>1 DEF Sorting
<1> HIDE DEF N
<1> DEFINE Q == {n \in Nat : n <= N => h[n] \in Seq(X) /\ Len(h[n]) = n /\ OK(h[n])}
<1>3. 0 \in Q
  <2>1. <<>> \in Seq(X) /\ Len(<<>>) = 0 BY EmptySeq
  <2>2. 1..0 = {} OBVIOUS
  <2>3. OK(<<>>) BY <2>1, <2>2 DEF Distinct, InOrder
  <2> QED BY <1>2, <2>1, <2>3
<1>4. ASSUME NEW n \in Nat, n \in Q PROVE n + 1 \in Q
  <2> SUFFICES ASSUME n + 1 <= N PROVE h[n + 1] \in Seq(X) /\ Len(h[n + 1]) = n + 1 /\ OK(h[n + 1])
    OBVIOUS
  <2> DEFINE p == h[n]
             q == h[n + 1]
             b == Best(X \ ToSet(p), key)
  <2>1. p \in Seq(X) /\ Len(p) = n /\ OK(p) BY <1>1, <1>4
  <2>2. q = Append(p, b)
    <3>1. n + 1 \in 1..N /\ (n + 1) - 1 = n BY <1>1
    <3> QED BY <1>2, <3>1
  <2>3. X \ ToSet(p) # {}
    <3>1. ToSet(p) \in SUBSET X /\ Cardinality(ToSet(p)) <= n BY <2>1, SetOf
    <3>2. ToSet(p) # X BY <1>1, <3>1 DEF N
    <3> QED BY <3>1, <3>2
  <2>4. IsFiniteSet(X \ ToSet(p)) BY FS_Difference
  <2>5. b \in X \ ToSet(p) /\ \A y \in X \ ToSet(p) : ~Less(key[y], key[b])
    <3> HIDE DEF p
    <3> QED BY <2>3, <2>4, BestIs
  <2> HIDE DEF p, q, b
  <2>6. /\ q \in Seq(X) /\ Len(q) = n + 1 /\ q[n + 1] = b /\ \A i \in 1..n : q[i] = p[i]
        /\ ToSet(q) = ToSet(p) \cup {b}
    <3>1. b \in X BY <2>5
    <3> QED BY <2>1, <2>2, <3>1, AppendProperties, SetOfAppend
  <2>7. \A i \in 1..n : p[i] \in ToSet(p) BY <2>1, SetOf
  <2>8. \A i \in 1..(n + 1) : i \in 1..n \/ i = n + 1 OBVIOUS
  <2>9. Distinct(q)
    <3> SUFFICES ASSUME NEW i \in 1..(n + 1), NEW j \in 1..(n + 1), i # j PROVE q[i] # q[j]
      BY <2>6 DEF Distinct
    <3>1. CASE i \in 1..n /\ j \in 1..n BY <2>1, <2>6, <3>1 DEF Distinct
    <3>2. CASE i = n + 1 /\ j \in 1..n BY <2>5, <2>6, <2>7, <3>2
    <3>3. CASE j = n + 1 /\ i \in 1..n BY <2>5, <2>6, <2>7, <3>3
    <3> QED BY <2>8, <3>1, <3>2, <3>3
  <2>10. InOrder(q, key)
    <3> SUFFICES ASSUME NEW i \in 1..(n + 1), NEW j \in 1..(n + 1), i < j
                 PROVE  ~Less(key[q[j]], key[q[i]])
      BY <2>6 DEF InOrder
    <3>0. i \in 1..n OBVIOUS
    <3>1. CASE j \in 1..n BY <2>1, <2>6, <3>0, <3>1 DEF InOrder
    <3>2. CASE j = n + 1 BY <2>1, <2>5, <2>6, <3>0, <3>2
    <3> QED BY <2>8, <3>1, <3>2
  <2>11. Ahead(q)
    <3> SUFFICES ASSUME NEW i \in 1..(n + 1), NEW y \in X \ ToSet(q) PROVE ~Less(key[y], key[q[i]])
      BY <2>6
    <3>0. y \in X \ ToSet(p) BY <2>6
    <3>1. CASE i \in 1..n BY <2>1, <2>6, <3>0, <3>1
    <3>2. CASE i = n + 1 BY <2>5, <2>6, <3>0, <3>2
    <3> QED BY <2>8, <3>1, <3>2
  <2> QED BY <2>6, <2>9, <2>10, <2>11 DEF q
<1> HIDE DEF Q, OK
<1>5. Nat \subseteq Q BY <1>3, <1>4, Induct
<1>6. h[N] \in Seq(X) /\ Len(h[N]) = N /\ OK(h[N]) BY <1>1, <1>5 DEF Q
<1>7. ToSet(h[N]) = X
  <2> DEFINE q == h[N]
  <2>1. q \in Seq(X) /\ Len(q) = N /\ Distinct(q) BY <1>6 DEF OK
  <2> HIDE DEF q
  <2>2. q \in [1..N -> X] BY <2>1, LenProperties
  <2>3. q \in Injection(1..N, X) BY <2>1, <2>2 DEF Injection, IsInjective, Distinct
  <2>4. Cardinality(1..N) = N
    <3>1. Cardinality(1..N) = IF 1 > N THEN 0 ELSE N - 1 + 1 BY <1>1, FS_Interval
    <3> QED BY <1>1, <3>1
  <2>5. q \in Surjection(1..N, X) BY <2>3, <2>4, FS_Injection DEF N
  <2>6. \A x \in X : \E i \in 1..N : q[i] = x BY <2>5 DEF Surjection
  <2>7. \A x \in X : x \in ToSet(q) BY <2>1, <2>6, SetOf
  <2> QED BY <2>1, <2>7, SetOf DEF q
<1> QED BY <1>2, <1>6, <1>7 DEF OK

\* The elements of a sequence that are in a set, as they come.
LEMMA KeepIs ==
    ASSUME NEW A, NEW s \in Seq(A), NEW Y
    PROVE  Keep(s, Y) \in Seq(A) /\ ToSet(Keep(s, Y)) = ToSet(s) \cap Y
<1> DEFINE N == Len(s)
           Step(p, n) == IF s[n] \in Y THEN Append(p, s[n]) ELSE p
           D(k) == k = [n \in 0..N |-> IF n = 0 THEN <<>>
                                       ELSE LET p == k[n - 1] IN IF s[n] \in Y THEN Append(p, s[n]) ELSE p]
           c == CHOOSE k : D(k)
           g == [x \in Seq(A) \X (1..N) |-> Step(x[1], x[2])]
<1>1. N \in Nat /\ \A n \in 1..N : s[n] \in A BY LenProperties, ElementOfSeq
<1>2. Keep(s, Y) = c[N] BY DEF Keep
<1>3. \A p \in Seq(A), n \in 1..N : g[<<p, n>>] = Step(p, n) OBVIOUS
<1>4. g \in [Seq(A) \X (1..N) -> Seq(A)]
  <2>1. \A p \in Seq(A), n \in 1..N : Step(p, n) \in Seq(A) BY <1>1, AppendProperties
  <2> HIDE DEF Step
  <2> QED BY <2>1
<1> HIDE DEF g, N
<1>5. <<>> \in Seq(A) BY EmptySeq
<1>6. PICK h \in [0..N -> Seq(A)] : h[0] = <<>> /\ \A n \in 1..N : h[n] = g[<<h[n - 1], n>>]
  <2>1. PICK h : Steps(h, <<>>, g, Seq(A), N) BY <1>1, <1>4, <1>5, Recursion DEF Stepper
  <2> QED BY <2>1 DEF Steps
<1>7. \A n \in 1..N : h[n - 1] \in Seq(A) /\ h[n] = Step(h[n - 1], n)
  <2>1. \A n \in 1..N : n - 1 \in 0..N BY <1>1
  <2>2. \A n \in 1..N : h[n - 1] \in Seq(A) BY <1>6, <2>1
  <2> HIDE DEF Step
  <2> QED BY <1>3, <1>6, <2>2
<1>8. D(h)
  <2> DEFINE w == [n \in 0..N |-> IF n = 0 THEN <<>> ELSE Step(h[n - 1], n)]
  <2>1. ASSUME NEW n \in 0..N PROVE h[n] = w[n]
    <3>1. CASE n = 0 BY <1>6, <3>1
    <3>2. CASE n # 0
      <4>1. n \in 1..N BY <1>1, <3>2
      <4> HIDE DEF Step
      <4> QED BY <1>7, <3>2, <4>1
    <3> QED BY <3>1, <3>2
  <2>2. h = w BY <1>6, <2>1
  <2> QED BY <2>2
<1> HIDE DEF D
<1>9. D(c) BY <1>8
<1>10. ASSUME NEW n \in 1..N, c[n - 1] = h[n - 1] PROVE c[n] = h[n]
  <2> HIDE DEF c
  <2>1. n \in 0..N /\ n # 0 BY <1>1
  <2>2. c[n] = Step(c[n - 1], n) BY <1>9, <2>1 DEF D
  <2> QED BY <1>7, <1>10, <2>2
<1>11. c[0] = h[0]
  <2> HIDE DEF c
  <2> QED BY <1>1, <1>6, <1>9 DEF D
<1> HIDE DEF c
<1>12. SameTo(c, h, N) BY <1>1, <1>10, <1>11, SameSteps DEF InStep
<1>13. c[N] = h[N] BY <1>1, <1>12 DEF SameTo
<1> DEFINE Q == {n \in Nat : n <= N => h[n] \in Seq(A) /\ ToSet(h[n]) = {s[i] : i \in 1..n} \cap Y}
<1>14. 0 \in Q
  <2>1. 1..0 = {} /\ ToSet(<<>>) = {} BY DEF ToSet
  <2> QED BY <1>5, <1>6, <2>1
<1>15. ASSUME NEW n \in Nat, n \in Q PROVE n + 1 \in Q
  <2> SUFFICES ASSUME n + 1 <= N
               PROVE  h[n + 1] \in Seq(A) /\ ToSet(h[n + 1]) = {s[i] : i \in 1..(n + 1)} \cap Y
    OBVIOUS
  <2>1. h[n] \in Seq(A) /\ ToSet(h[n]) = {s[i] : i \in 1..n} \cap Y BY <1>1, <1>15
  <2>2. n + 1 \in 1..N /\ (n + 1) - 1 = n BY <1>1
  <2>3. h[n + 1] = Step(h[n], n + 1) BY <1>7, <2>2
  <2>4. {s[i] : i \in 1..(n + 1)} = {s[i] : i \in 1..n} \cup {s[n + 1]}
    <3>1. 1..(n + 1) = 1..n \cup {n + 1} OBVIOUS
    <3> QED BY <3>1
  <2>5. s[n + 1] \in A BY <1>1, <2>2
  <2>6. CASE s[n + 1] \in Y
    <3>1. h[n + 1] = Append(h[n], s[n + 1]) BY <2>3, <2>6
    <3>2. h[n + 1] \in Seq(A) /\ ToSet(h[n + 1]) = ToSet(h[n]) \cup {s[n + 1]}
      BY <2>1, <2>5, <3>1, AppendProperties, SetOfAppend
    <3> QED BY <2>1, <2>4, <2>6, <3>2
  <2>7. CASE s[n + 1] \notin Y
    <3>1. h[n + 1] = h[n] BY <2>3, <2>7
    <3> QED BY <2>1, <2>4, <2>7, <3>1
  <2> QED BY <2>6, <2>7
<1> HIDE DEF Q
<1>16. Nat \subseteq Q BY <1>14, <1>15, Induct
<1>17. h[N] \in Seq(A) /\ ToSet(h[N]) = {s[i] : i \in 1..N} \cap Y
  <2>1. N \in Q /\ N <= N BY <1>1, <1>16
  <2> QED BY <2>1 DEF Q
<1>18. {s[i] : i \in 1..N} = ToSet(s) BY LenProperties DEF ToSet, N
<1> QED BY <1>2, <1>13, <1>17, <1>18

\* The first n of a sequence.
LEMMA FirstsIs ==
    ASSUME NEW A, NEW s \in Seq(A), NEW n \in Nat
    PROVE  /\ Firsts(s, n) \in Seq(A) /\ Len(Firsts(s, n)) = IF Len(s) < n THEN Len(s) ELSE n
           /\ \A i \in 1..Len(Firsts(s, n)) : Firsts(s, n)[i] = s[i]
<1> DEFINE m == IF Len(s) < n THEN Len(s) ELSE n
<1>1. Len(s) \in Nat /\ m \in Nat /\ m <= Len(s) BY LenProperties
<1>2. \A i \in 1..m : s[i] \in A BY <1>1, ElementOfSeq
<1>3. /\ SubSeq(s, 1, m) \in Seq(A) /\ Len(SubSeq(s, 1, m)) = IF 1 <= m THEN m - 1 + 1 ELSE 0
      /\ \A i \in 1..(m - 1 + 1) : SubSeq(s, 1, m)[i] = s[1 + i - 1]
  BY <1>1, <1>2, SubSeqProperties
<1>4. Firsts(s, n) = SubSeq(s, 1, m) BY DEF Firsts
<1> HIDE DEF m
<1>5. Len(SubSeq(s, 1, m)) = m /\ \A i \in 1..m : SubSeq(s, 1, m)[i] = s[i] BY <1>1, <1>3
<1> QED BY <1>3, <1>4, <1>5 DEF m

-----------------------------------------------------------------------------
(* The selection.                                                           *)

\* Occurrences of a memory: their sections have cards.
Occurs(A) == A \subseteq Files \X Sections

LEMMA CardOf ==
    ASSUME NEW A, Occurs(A), NEW x \in A
    PROVE  /\ x[1] \in Files /\ x[2] \in Sections /\ x = <<x[1], x[2]>>
           /\ Card[x[2]].size \in Nat /\ Card[x[2]].line \in Nat /\ Card[x[2]].authority \in Nat
           /\ Card[x[2]].central \in Nat /\ Card[x[2]].bonus \in Int /\ IsFiniteSet(Card[x[2]].words)
<1>1. x[1] \in Files /\ x[2] \in Sections /\ x = <<x[1], x[2]>> BY DEF Occurs
<1> QED BY <1>1, CardsAssumption

LEMMA CharsIs ==
    /\ Chars(<<>>) = 0
    /\ \A A : Occurs(A) => \A sel \in Seq(A), x \in A :
         Chars(Append(sel, x)) = Chars(sel) + Card[x[2]].size /\ Chars(sel) \in Nat
<1>1. Chars(<<>>) = 0
  <2>1. [i \in DOMAIN <<>> |-> Card[<<>>[i][2]].size] = <<>> OBVIOUS
  <2>2. <<>> \in Seq(Nat) /\ 1..Len(<<>>) = {} OBVIOUS
  <2> QED BY <2>1, <2>2, SumZero DEF Chars
<1>2. ASSUME NEW A, Occurs(A), NEW sel \in Seq(A), NEW x \in A
      PROVE  Chars(Append(sel, x)) = Chars(sel) + Card[x[2]].size /\ Chars(sel) \in Nat
  <2> DEFINE q == [i \in 1..Len(sel) |-> Card[sel[i][2]].size]
             p == Append(sel, x)
             v == [i \in 1..Len(p) |-> Card[p[i][2]].size]
             z == Card[x[2]].size
  <2>1. Len(sel) \in Nat /\ DOMAIN sel = 1..Len(sel) /\ \A i \in 1..Len(sel) : sel[i] \in A
    BY LenProperties, ElementOfSeq
  <2>2. /\ p \in Seq(A) /\ Len(p) = Len(sel) + 1 /\ p[Len(sel) + 1] = x
        /\ \A i \in 1..Len(sel) : p[i] = sel[i]
    BY AppendProperties
  <2>3. \A i \in 1..Len(sel) : Card[sel[i][2]].size \in Nat BY <1>2, <2>1, CardOf
  <2>4. z \in Nat BY <1>2, CardOf
  <2>5. DOMAIN p = 1..Len(p) /\ Len(p) \in Nat /\ \A i \in 1..Len(p) : p[i] \in A
    BY <2>2, LenProperties, ElementOfSeq
  <2> HIDE DEF p
  <2>6. \A i \in 1..Len(p) : Card[p[i][2]].size \in Nat BY <1>2, <2>5, CardOf
  <2>7. q \in Seq(Nat) /\ Len(q) = Len(sel) BY <2>1, <2>3
  <2>8. v \in Seq(Nat) /\ Len(v) = Len(sel) + 1 BY <2>2, <2>5, <2>6
  <2>9. v = Append(q, z)
    <3>1. /\ Append(q, z) \in Seq(Nat) /\ Len(Append(q, z)) = Len(sel) + 1
          /\ Append(q, z)[Len(sel) + 1] = z /\ \A i \in 1..Len(sel) : Append(q, z)[i] = q[i]
      <4> HIDE DEF q, z
      <4> QED BY <2>4, <2>7, AppendProperties
    <3>2. \A i \in 1..Len(v) : v[i] = Append(q, z)[i]
      <4> SUFFICES ASSUME NEW i \in 1..Len(v) PROVE v[i] = Append(q, z)[i] OBVIOUS
      <4>1. i \in 1..Len(sel) \/ i = Len(sel) + 1 BY <2>1, <2>8
      <4>2. v[i] = Card[p[i][2]].size BY <2>2, <2>8
      <4>3. CASE i \in 1..Len(sel)
        <5>1. Append(q, z)[i] = q[i] BY <3>1, <4>3
        <5>2. q[i] = Card[sel[i][2]].size BY <4>3
        <5>3. p[i] = sel[i] BY <2>2, <4>3
        <5> QED BY <4>2, <5>1, <5>2, <5>3
      <4>4. CASE i = Len(sel) + 1 BY <2>2, <3>1, <4>2, <4>4
      <4> QED BY <4>1, <4>3, <4>4
    <3> HIDE DEF v, q, z
    <3> QED BY <2>8, <3>1, <3>2, SeqEqual
  <2>10. Chars(sel) = Sum(q) BY <2>1 DEF Chars
  <2>11. Chars(p) = Sum(v) BY <2>5 DEF Chars
  <2> HIDE DEF v, q, z
  <2> QED BY <2>4, <2>7, <2>9, <2>10, <2>11, SumAppend DEF p, z
<1> QED BY <1>1, <1>2

\* What a selection is at every step, and which sections it has passed over.
Chosen(sel, A) ==
    /\ sel \in Seq(A)
    /\ IsFiniteSet(Ids(ToSet(sel))) /\ Cardinality(Ids(ToSet(sel))) = Len(sel)
    /\ Len(sel) <= MaxSections
    /\ Len(sel) > 1 => Chars(sel) <= MaxChars

Passed(sel, x) ==
    Id(x) \in Ids(ToSet(sel)) \/ ~Room(sel) \/ Chars(sel) + Card[x[2]].size > MaxChars

LEMMA CharsNat == ASSUME NEW A, Occurs(A), NEW sel \in Seq(A) PROVE Chars(sel) \in Nat
<1>1. CASE sel = <<>> BY <1>1, CharsIs
<1>2. CASE sel # <<>>
  <2>1. Len(sel) \in Nat \ {0} BY <1>2, EmptySeq
  <2>2. sel[1] \in A BY <2>1, ElementOfSeq
  <2> QED BY <2>2, CharsIs
<1> QED BY <1>1, <1>2

LEMMA IdsAppend ==
    ASSUME NEW A, NEW sel \in Seq(A), NEW x \in A
    PROVE  Ids(ToSet(Append(sel, x))) = Ids(ToSet(sel)) \cup {Id(x)}
<1>1. ToSet(Append(sel, x)) = ToSet(sel) \cup {x} BY SetOfAppend
<1> QED BY <1>1 DEF Ids

LEMMA AdmitKeeps ==
    ASSUME NEW A, Occurs(A), NEW sel, Chosen(sel, A), NEW x \in A
    PROVE  /\ Chosen(Admit(sel, x), A) /\ Passed(Admit(sel, x), x)
           /\ \A y \in A : Passed(sel, y) => Passed(Admit(sel, x), y)
<1> DEFINE p == Append(sel, x)
<1>1. /\ Chars(p) = Chars(sel) + Card[x[2]].size /\ Chars(sel) \in Nat /\ Card[x[2]].size \in Nat
      /\ p \in Seq(A) /\ Len(p) = Len(sel) + 1 /\ Len(sel) \in Nat
      /\ Ids(ToSet(p)) = Ids(ToSet(sel)) \cup {Id(x)}
  BY CharsIs, CardOf, IdsAppend, AppendProperties, LenProperties DEF Chosen
<1>2. MaxSections \in Nat \ {0} /\ MaxChars \in Nat \ {0} BY BudgetAssumption
<1> HIDE DEF p
<1>3. CASE Room(sel) /\ Id(x) \notin Ids(ToSet(sel)) /\ Fits(sel, x)
  <2>1. Admit(sel, x) = p BY <1>3 DEF Admit, p
  <2>2. IsFiniteSet(Ids(ToSet(p))) /\ Cardinality(Ids(ToSet(p))) = Len(p)
    BY <1>1, <1>3, FS_AddElement DEF Chosen
  <2>3. Len(p) <= MaxSections BY <1>1, <1>2, <1>3 DEF Room
  <2>4. Len(p) > 1 => Chars(p) <= MaxChars
    <3> SUFFICES ASSUME Len(p) > 1 PROVE Chars(p) <= MaxChars OBVIOUS
    <3>1. sel # <<>> BY <1>1, EmptySeq
    <3> QED BY <1>1, <1>3, <3>1 DEF Fits
  <2>5. Chosen(p, A) BY <1>1, <2>2, <2>3, <2>4 DEF Chosen
  <2>6. Passed(p, x) BY <1>1 DEF Passed
  <2>7. \A y \in A : Card[y[2]].size \in Nat BY CardOf
  <2>8. ASSUME NEW y \in A, Passed(sel, y) PROVE Passed(p, y)
    <3>1. CASE Id(y) \in Ids(ToSet(sel)) BY <1>1, <3>1 DEF Passed
    <3>2. CASE Chars(sel) + Card[y[2]].size > MaxChars BY <1>1, <1>2, <2>7, <3>2 DEF Passed
    <3> QED BY <1>3, <2>8, <3>1, <3>2 DEF Passed
  <2> QED BY <2>1, <2>5, <2>6, <2>8
<1>4. CASE ~(Room(sel) /\ Id(x) \notin Ids(ToSet(sel)) /\ Fits(sel, x))
  <2>1. Admit(sel, x) = sel BY <1>4 DEF Admit
  <2>2. Passed(sel, x) BY <1>1, <1>2, <1>4 DEF Passed, Fits
  <2> QED BY <2>1, <2>2
<1> QED BY <1>3, <1>4

LEMMA ChosenEmpty == ASSUME NEW A PROVE Chosen(<<>>, A)
<1>1. <<>> \in Seq(A) /\ Len(<<>>) = 0 /\ ToSet(<<>>) = {} BY EmptySeq DEF ToSet
<1>2. Ids(ToSet(<<>>)) = {} BY <1>1 DEF Ids
<1>3. IsFiniteSet(Ids(ToSet(<<>>))) /\ Cardinality(Ids(ToSet(<<>>))) = 0 BY <1>2, FS_EmptySet
<1>4. 0 <= MaxSections /\ ~(0 > 1) BY BudgetAssumption
<1> QED BY <1>1, <1>3, <1>4 DEF Chosen

\* A selection is admitted one after the other, and what it has passed over stays so.
LEMMA SelectionIs ==
    ASSUME NEW A, Occurs(A), NEW cands \in Seq(A), NEW central \in Seq(A)
    PROVE  /\ Chosen(Selection(cands, central), A)
           /\ \A x \in ToSet(cands) : Passed(Selection(cands, central), x)
<1> DEFINE s == cands \o central
           N == Len(s)
           D(k) == k = [n \in 0..N |-> IF n = 0 THEN <<>> ELSE Admit(k[n - 1], s[n])]
           c == CHOOSE k : D(k)
           V == {sel \in Seq(A) : Chosen(sel, A)}
           g == [x \in V \X (1..N) |-> Admit(x[1], s[x[2]])]
<1>1. s \in Seq(A) /\ N \in Nat /\ \A n \in 1..N : s[n] \in A
  <2>1. s \in Seq(A) BY ConcatProperties
  <2> HIDE DEF s
  <2> QED BY <2>1, LenProperties, ElementOfSeq
<1>2. Selection(cands, central) = c[N] BY DEF Selection
<1>3. \A p \in V, n \in 1..N : g[<<p, n>>] = Admit(p, s[n]) OBVIOUS
<1>4. g \in [V \X (1..N) -> V]
  <2>1. ASSUME NEW p \in V, NEW n \in 1..N PROVE Admit(p, s[n]) \in V
    <3>1. Chosen(p, A) /\ s[n] \in A BY <1>1
    <3>2. Chosen(Admit(p, s[n]), A) BY <3>1, AdmitKeeps
    <3> QED BY <3>2 DEF Chosen
  <2> HIDE DEF V
  <2> QED BY <2>1
<1>5. <<>> \in V BY ChosenEmpty, EmptySeq
<1>6. \A p \in V : Chosen(p, A) OBVIOUS
<1> HIDE DEF g, N, V, s
<1>7. PICK h \in [0..N -> V] : h[0] = <<>> /\ \A n \in 1..N : h[n] = g[<<h[n - 1], n>>]
  <2>1. PICK h : Steps(h, <<>>, g, V, N) BY <1>1, <1>4, <1>5, Recursion DEF Stepper
  <2> QED BY <2>1 DEF Steps
<1>8. \A n \in 1..N : h[n - 1] \in V /\ h[n] = Admit(h[n - 1], s[n])
  <2>1. \A n \in 1..N : n - 1 \in 0..N BY <1>1
  <2>2. \A n \in 1..N : h[n - 1] \in V BY <1>7, <2>1
  <2> QED BY <1>3, <1>7, <2>2
<1>9. D(h)
  <2> DEFINE w == [n \in 0..N |-> IF n = 0 THEN <<>> ELSE Admit(h[n - 1], s[n])]
  <2>1. ASSUME NEW n \in 0..N PROVE h[n] = w[n]
    <3>1. CASE n = 0 BY <1>7, <3>1
    <3>2. CASE n # 0
      <4>1. n \in 1..N BY <1>1, <3>2
      <4> QED BY <1>8, <3>2, <4>1
    <3> QED BY <3>1, <3>2
  <2>2. h = w BY <1>7, <2>1
  <2> QED BY <2>2
<1> HIDE DEF D
<1>10. D(c) BY <1>9
<1>11. ASSUME NEW n \in 1..N, c[n - 1] = h[n - 1] PROVE c[n] = h[n]
  <2> HIDE DEF c
  <2>1. n \in 0..N /\ n # 0 BY <1>1
  <2>2. c[n] = Admit(c[n - 1], s[n]) BY <1>10, <2>1 DEF D
  <2> QED BY <1>8, <1>11, <2>2
<1>12. c[0] = h[0]
  <2> HIDE DEF c
  <2> QED BY <1>1, <1>7, <1>10 DEF D
<1> HIDE DEF c
<1>13. SameTo(c, h, N) BY <1>1, <1>11, <1>12, SameSteps DEF InStep
<1>14. c[N] = h[N] /\ h[N] \in V BY <1>1, <1>7, <1>13 DEF SameTo
<1> DEFINE Q == {n \in Nat : n <= N => \A i \in 1..n : Passed(h[n], s[i])}
<1>15. 0 \in Q
  <2>1. 1..0 = {} OBVIOUS
  <2> QED BY <2>1
<1>16. ASSUME NEW n \in Nat, n \in Q PROVE n + 1 \in Q
  <2> SUFFICES ASSUME n + 1 <= N, NEW i \in 1..(n + 1) PROVE Passed(h[n + 1], s[i]) OBVIOUS
  <2>1. n + 1 \in 1..N /\ (n + 1) - 1 = n /\ n <= N BY <1>1
  <2>2. h[n] \in V /\ h[n + 1] = Admit(h[n], s[n + 1]) BY <1>8, <2>1
  <2>3. Chosen(h[n], A) /\ s[n + 1] \in A BY <1>1, <1>6, <2>1, <2>2
  <2>4. CASE i = n + 1 BY <2>2, <2>3, <2>4, AdmitKeeps
  <2>5. CASE i # n + 1
    <3>1. i \in 1..n /\ i \in 1..N BY <1>1, <2>1, <2>5
    <3>2. Passed(h[n], s[i]) /\ s[i] \in A BY <1>1, <1>16, <2>1, <3>1
    <3> QED BY <2>2, <2>3, <3>2, AdmitKeeps
  <2> QED BY <2>4, <2>5
<1> HIDE DEF Q
<1>17. Nat \subseteq Q BY <1>15, <1>16, Induct
<1>18. \A i \in 1..N : Passed(h[N], s[i])
  <2>1. N \in Q /\ N <= N BY <1>1, <1>17
  <2> QED BY <2>1 DEF Q
<1>19. \A x \in ToSet(cands) : \E i \in 1..N : x = s[i]
  <2>1. ToSet(s) = ToSet(cands) \cup ToSet(central) BY SetOfConcat DEF s
  <2> QED BY <1>1, <2>1, SetOf DEF N
<1> QED BY <1>2, <1>6, <1>14, <1>18, <1>19

\* The model names candidates.
LEMMA PicksIs ==
    ASSUME NEW A, NEW cands \in Seq(A), NEW picks \in Picks(cands)
    PROVE  picks \in Seq(ToSet(cands)) /\ ToSet(picks) \subseteq ToSet(cands)
<1>1. PICK s \in SUBSET ToSet(cands) : picks \in [1..Cardinality(s) -> s]
  BY DEF Picks, SetToAllKPermutations, SetToSeqs
<1>2. IsFiniteSet(ToSet(cands)) BY SetOf
<1>3. Cardinality(s) \in Nat BY <1>2, FS_Subset, FS_CardinalityType
<1>4. picks \in Seq(ToSet(cands)) BY <1>1, <1>3
<1> QED BY <1>4, SetOf

\* Whatever it names, no candidate is lost.
LEMMA RerankedIs ==
    ASSUME NEW A, NEW cands \in Seq(A), NEW picks \in Picks(cands), NEW focus
    PROVE  Reranked(cands, picks, focus) \in Seq(A)
           /\ ToSet(cands) \subseteq ToSet(Reranked(cands, picks, focus))
<1> DEFINE k == Keep(cands, ToSet(cands) \ ToSet(picks))
<1>1. picks \in Seq(A)
  <2>1. picks \in Seq(ToSet(cands)) /\ ToSet(cands) \subseteq A BY PicksIs, SetOf
  <2> QED BY <2>1, SeqMonotonic
<1>2. k \in Seq(A) /\ ToSet(k) = ToSet(cands) \cap (ToSet(cands) \ ToSet(picks)) BY KeepIs
<1> HIDE DEF k
<1>3. picks \o k \in Seq(A) /\ ToSet(picks \o k) = ToSet(picks) \cup ToSet(k)
  BY <1>1, <1>2, ConcatProperties, SetOfConcat
<1>4. Reranked(cands, picks, focus) \in {cands, picks \o k} BY DEF Reranked, k
<1> QED BY <1>2, <1>3, <1>4

-----------------------------------------------------------------------------
(* What is sorted has keys.                                                 *)

LEMMA ScoreInt == ASSUME NEW A, Occurs(A), NEW x \in A, NEW terms PROVE Score(x, terms) \in Int
<1>1. Card[x[2]].bonus \in Int /\ IsFiniteSet(Card[x[2]].words) BY CardOf
<1>2. Cardinality(Card[x[2]].words \cap terms) \in Nat BY <1>1, FS_Intersection, FS_CardinalityType
<1> QED BY <1>1, <1>2 DEF Score

LEMMA RankKey ==
    ASSUME NEW A, Occurs(A), NEW x \in A, NEW score \in Int
    PROVE  RankOf(x, score) \in Keys
<1>1. Card[x[2]].authority \in Nat /\ Card[x[2]].line \in Nat BY CardOf
<1>2. Card[x[2]].authority \div 4 \in Int BY <1>1
<1>3. -(score + Card[x[2]].authority \div 4) \in Int /\ -Card[x[2]].authority \in Int BY <1>1, <1>2
<1> QED BY <1>1, <1>3 DEF RankOf, Keys

LEMMA TrustKey == ASSUME NEW A, Occurs(A), NEW x \in A PROVE Trust(A)[x] \in Keys
<1>1. Card[x[2]].authority \in Nat /\ Card[x[2]].line \in Nat BY CardOf
<1>2. Trust(A)[x] = <<-Card[x[2]].authority, Card[x[2]].line, 0>> BY DEF Trust
<1> QED BY <1>1, <1>2 DEF Keys

LEMMA FoundKey == ASSUME NEW A, Occurs(A), NEW x \in A, NEW terms PROVE Found(A, terms)[x] \in Keys
<1>1. Card[x[2]].authority \in Nat /\ Card[x[2]].line \in Nat BY CardOf
<1>2. Found(A, terms)[x] = <<-Score(x, terms), -Card[x[2]].authority, Card[x[2]].line>> BY DEF Found
<1>3. Score(x, terms) \in Int BY ScoreInt
<1> QED BY <1>1, <1>2, <1>3 DEF Keys

\* Nothing answers a query without a focus; with one every answer is a candidate.
LEMMA CandidatesIs ==
    ASSUME NEW S, Occurs(S), IsFiniteSet(S), NEW q
    PROVE  /\ Candidates(S, q) \in Seq(S)
           /\ Focus(q) # {} => Direct(S, q) \subseteq ToSet(Candidates(S, q))
           /\ Focus(q) = {} => Direct(S, q) = {}
<1> DEFINE linked == Linked(S, q)
           merged == Direct(S, q) \cup linked \cup Related(S, q)
           found  == {x \in S : Score(x, Terms(q)) > 0}
           score(x) == IF x \in linked /\ Score(x, Terms(q)) < 8 THEN 8 ELSE Score(x, Terms(q))
           byRank == [x \in merged |-> RankOf(x, score(x))]
           byScore == [x \in found |-> <<-Score(x, Terms(q)), Card[x[2]].line, 0>>]
<1>1. linked \subseteq S /\ Direct(S, q) \subseteq S /\ Related(S, q) \subseteq S
  BY DEF Linked, Direct, Related
<1>2. \A x \in S : Score(x, Terms(q)) \in Int BY ScoreInt
<1> HIDE DEF linked
<1>3. merged \subseteq S /\ IsFiniteSet(merged) BY <1>1, FS_Subset
<1>4. found \subseteq S /\ IsFiniteSet(found)
  <2>1. found \subseteq S OBVIOUS
  <2> HIDE DEF found
  <2> QED BY <2>1, FS_Subset
<1>5. \A x \in S : score(x) \in Int BY <1>2
<1> HIDE DEF score
<1>6. \A x \in merged : byRank[x] \in Keys
  <2> TAKE x \in merged
  <2>1. x \in S BY <1>3
  <2>2. RankOf(x, score(x)) \in Keys BY <1>5, <2>1, RankKey
  <2> QED BY <2>2
<1>7. \A x \in found : byScore[x] \in Keys
  <2> TAKE x \in found
  <2>1. x \in S /\ byScore[x] = <<-Score(x, Terms(q)), Card[x[2]].line, 0>> OBVIOUS
  <2>2. Card[x[2]].line \in Nat /\ Score(x, Terms(q)) \in Int BY <1>2, <2>1, CardOf
  <2> HIDE DEF byScore
  <2> QED BY <2>1, <2>2 DEF Keys
<1>8. Candidates(S, q) = IF Focus(q) # {} THEN Sorted(merged, byRank) ELSE Sorted(found, byScore)
  BY DEF Candidates, linked, score
<1> HIDE DEF merged, found, byRank, byScore
<1>9. Sorted(merged, byRank) \in Seq(merged) /\ ToSet(Sorted(merged, byRank)) = merged
  BY <1>3, <1>6, SortedIs
<1>10. Sorted(found, byScore) \in Seq(found) BY <1>4, <1>7, SortedIs
<1>11. Sorted(merged, byRank) \in Seq(S) /\ Sorted(found, byScore) \in Seq(S)
  BY <1>3, <1>4, <1>9, <1>10, SeqMonotonic
<1>12. Direct(S, q) \subseteq merged BY DEF merged
<1>13. ASSUME Focus(q) = {} PROVE Direct(S, q) = {}
  <2>1. q.base = {} /\ q.rewrite = {} BY <1>13 DEF Focus
  <2>2. ASSUME NEW x PROVE ~Covers(x, {})
    <3>1. Cardinality({}) = 0 BY FS_EmptySet
    <3>2. Cardinality({}) <= 2 BY <3>1
    <3> QED BY <3>2 DEF Covers
  <2> QED BY <2>1, <2>2 DEF Direct
<1> QED BY <1>8, <1>9, <1>11, <1>12, <1>13

LEMMA CentralIs ==
    ASSUME NEW S, Occurs(S), IsFiniteSet(S), NEW q
    PROVE  Central(S, q) \in Seq(S)
<1> DEFINE core == {x \in S : Card[x[2]].central > 0}
           key == [x \in core |-> <<-Card[x[2]].central, Card[x[2]].line, 0>>]
           n == IF MaxSections < 2 THEN MaxSections ELSE 2
<1>1. core \subseteq S OBVIOUS
<1>2. \A x \in core : key[x] \in Keys
  <2> TAKE x \in core
  <2>1. key[x] = <<-Card[x[2]].central, Card[x[2]].line, 0>> OBVIOUS
  <2>2. Card[x[2]].line \in Nat /\ Card[x[2]].central \in Nat BY CardOf
  <2> HIDE DEF key
  <2> QED BY <2>1, <2>2 DEF Keys
<1>3. n \in Nat BY BudgetAssumption
<1>4. CentralAlways(S, q) = Firsts(Sorted(core, key), n) BY DEF CentralAlways
<1> HIDE DEF core, key, n
<1>5. IsFiniteSet(core) BY <1>1, FS_Subset
<1>6. Sorted(core, key) \in Seq(S) BY <1>1, <1>2, <1>5, SortedIs, SeqMonotonic
<1>7. CentralAlways(S, q) \in Seq(S) BY <1>3, <1>4, <1>6, FirstsIs
<1> QED BY <1>7, EmptySeq DEF Central

-----------------------------------------------------------------------------
(* The evidence.                                                            *)

\* Of each file its best section leads.
LEMMA LeadingIs ==
    ASSUME NEW S, Occurs(S), NEW X, X \subseteq S, IsFiniteSet(X)
    PROVE  /\ Leading(X) \subseteq X /\ IsFiniteSet(Leading(X))
           /\ \A f \in Paths(X) : \E x \in Leading(X) : x[1] = f
<1> DEFINE Of(f) == {x \in X : x[1] = f}
           path == [x \in X |-> x[1]]
           best == [f \in Paths(X) |-> Best(Of(f), Trust(X))]
<1>1. \A x \in X : Trust(X)[x] \in Keys BY TrustKey DEF Occurs
<1>2. ASSUME NEW f \in Paths(X) PROVE Best(Of(f), Trust(X)) \in Of(f)
  <2>1. Of(f) # {} BY DEF Paths
  <2>2. Of(f) \in SUBSET X OBVIOUS
  <2> HIDE DEF Of
  <2>3. IsFiniteSet(Of(f)) /\ \A x \in Of(f) : Trust(X)[x] \in Keys BY <1>1, <2>2, FS_Subset
  <2> QED BY <2>1, <2>3, BestIs
<1>3. IsFiniteSet(Paths(X))
  <2>1. path \in Surjection(X, Paths(X)) BY DEF Surjection, Paths
  <2> QED BY <2>1, FS_Surjection
<1>4. Leading(X) = {best[f] : f \in Paths(X)} BY DEF Leading
<1>5. IsFiniteSet(Leading(X))
  <2> HIDE DEF best
  <2>1. best \in Surjection(Paths(X), Leading(X))
    <3>1. DOMAIN best = Paths(X) /\ best = [f \in DOMAIN best |-> best[f]] BY DEF best
    <3> QED BY <1>4, <3>1 DEF Surjection
  <2> QED BY <1>3, <2>1, FS_Surjection
<1>6. \A f \in Paths(X) : best[f] \in X /\ best[f][1] = f BY <1>2
<1> HIDE DEF best
<1> QED BY <1>4, <1>5, <1>6

\* The sections that confirm: the selected first, no section twice, and all of them
\* when there is place.
ConfirmedOK(C, S, sel, asked) ==
    /\ C \in Seq(Backing(S, asked)) /\ Len(C) <= MaxEvidence
    /\ \A i, j \in 1..Len(C) : i < j => C[i] # C[j] /\ (C[j] \in ToSet(sel) => C[i] \in ToSet(sel))
    /\ Len(C) = MaxEvidence \/ Paths(Backing(S, asked)) \subseteq {C[i][1] : i \in 1..Len(C)}

LEMMA ConfirmedIs ==
    ASSUME NEW S, Occurs(S), IsFiniteSet(S), NEW sel \in Seq(S), NEW terms, NEW asked
    PROVE  ConfirmedOK(Confirmed(S, sel, terms, asked), S, sel, asked)
<1> DEFINE backing == Backing(S, asked)
           chosen == Backing(ToSet(sel), asked)
           others == {x \in backing : x[1] \notin Paths(chosen)}
           P == Sorted(Leading(chosen), Trust(Leading(chosen)))
           R == Sorted(others, Found(others, terms))
           Z == P \o R
           C == Firsts(Z, MaxEvidence)
<1>1. ToSet(sel) \subseteq S BY SetOf
<1>2. backing \subseteq S /\ chosen \subseteq backing /\ others \subseteq backing
  BY <1>1 DEF Backing
<1>3. IsFiniteSet(chosen) /\ IsFiniteSet(others) /\ others \subseteq S /\ chosen \subseteq S
  BY <1>2, FS_Subset
<1>4. Confirmed(S, sel, terms, asked) = C BY DEF Confirmed
<1>5. others \cap ToSet(sel) = {} /\ chosen \subseteq ToSet(sel) BY DEF Backing, Paths
<1>6. \A x \in backing : x \in others \/ x[1] \in Paths(chosen) OBVIOUS
<1>7. \A x \in chosen, y \in others : x # y BY DEF Paths
<1> HIDE DEF backing, chosen, others
<1>8. /\ Leading(chosen) \subseteq chosen /\ IsFiniteSet(Leading(chosen))
      /\ \A f \in Paths(chosen) : \E x \in Leading(chosen) : x[1] = f
  BY <1>3, LeadingIs
<1>9. P \in Seq(Leading(chosen)) /\ ToSet(P) = Leading(chosen) /\ Distinct(P)
  <2>1. Occurs(Leading(chosen)) BY <1>3, <1>8 DEF Occurs
  <2>2. \A x \in Leading(chosen) : Trust(Leading(chosen))[x] \in Keys BY <2>1, TrustKey
  <2> QED BY <1>8, <2>2, SortedIs
<1>10. R \in Seq(others) /\ ToSet(R) = others /\ Distinct(R)
  <2>1. Occurs(others) BY <1>3 DEF Occurs
  <2>2. \A x \in others : Found(others, terms)[x] \in Keys BY <2>1, FoundKey
  <2> QED BY <1>3, <2>2, SortedIs
<1> HIDE DEF P, R
<1>11. P \in Seq(backing) /\ R \in Seq(backing)
  <2>1. Leading(chosen) \subseteq backing BY <1>2, <1>8
  <2> QED BY <1>2, <1>9, <1>10, <2>1, SeqMonotonic
<1>12. /\ Z \in Seq(backing) /\ Len(Z) = Len(P) + Len(R) /\ Len(P) \in Nat /\ Len(R) \in Nat
       /\ \A i \in 1..(Len(P) + Len(R)) : Z[i] = IF i <= Len(P) THEN P[i] ELSE R[i - Len(P)]
       /\ ToSet(Z) = ToSet(P) \cup ToSet(R)
  BY <1>11, ConcatProperties, LenProperties, SetOfConcat
<1> HIDE DEF Z
<1>13. \A i \in 1..Len(Z) :
         \/ i \in 1..Len(P) /\ Z[i] = P[i] /\ P[i] \in chosen
         \/ i - Len(P) \in 1..Len(R) /\ i > Len(P) /\ Z[i] = R[i - Len(P)] /\ R[i - Len(P)] \in others
  <2> TAKE i \in 1..Len(Z)
  <2>1. CASE i <= Len(P)
    <3>1. i \in 1..Len(P) /\ Z[i] = P[i] BY <1>12, <2>1
    <3>2. P[i] \in chosen BY <1>8, <1>9, <3>1, ElementOfSeq
    <3> QED BY <3>1, <3>2
  <2>2. CASE ~(i <= Len(P))
    <3>1. i - Len(P) \in 1..Len(R) /\ i > Len(P) /\ Z[i] = R[i - Len(P)] BY <1>12, <2>2
    <3>2. R[i - Len(P)] \in others BY <1>10, <3>1, ElementOfSeq
    <3> QED BY <3>1, <3>2
  <2> QED BY <2>1, <2>2
<1>14. \A i, j \in 1..Len(Z) : i < j => Z[i] # Z[j] /\ (Z[j] \in ToSet(sel) => Z[i] \in ToSet(sel))
  <2> SUFFICES ASSUME NEW i \in 1..Len(Z), NEW j \in 1..Len(Z), i < j
               PROVE  Z[i] # Z[j] /\ (Z[j] \in ToSet(sel) => Z[i] \in ToSet(sel))
    OBVIOUS
  <2>1. CASE i \in 1..Len(P) /\ j \in 1..Len(P)
    <3>1. Z[i] = P[i] /\ P[i] \in chosen /\ Z[j] = P[j] BY <1>12, <1>13, <2>1
    <3>2. P[i] # P[j] BY <1>9, <2>1 DEF Distinct
    <3> QED BY <1>5, <3>1, <3>2
  <2>2. CASE i \in 1..Len(P) /\ j \notin 1..Len(P)
    <3>1. Z[i] \in chosen /\ Z[j] \in others BY <1>12, <1>13, <2>2
    <3> QED BY <1>5, <1>7, <3>1
  <2>3. CASE i \notin 1..Len(P)
    <3>1. j \notin 1..Len(P) BY <1>12, <2>3
    <3>2. /\ i - Len(P) \in 1..Len(R) /\ Z[i] = R[i - Len(P)]
          /\ j - Len(P) \in 1..Len(R) /\ Z[j] = R[j - Len(P)] /\ R[j - Len(P)] \in others
      BY <1>13, <2>3, <3>1
    <3>3. i - Len(P) # j - Len(P) BY <1>12
    <3>4. R[i - Len(P)] # R[j - Len(P)] BY <1>10, <3>2, <3>3 DEF Distinct
    <3> QED BY <1>5, <3>2, <3>4
  <2> QED BY <2>1, <2>2, <2>3
<1>15. /\ C \in Seq(backing) /\ Len(C) = IF Len(Z) < MaxEvidence THEN Len(Z) ELSE MaxEvidence
       /\ \A i \in 1..Len(C) : C[i] = Z[i]
  BY <1>12, BudgetAssumption, FirstsIs
<1> HIDE DEF C
<1>16. MaxEvidence \in Nat /\ Len(Z) \in Nat BY <1>12, BudgetAssumption
<1>17. Len(C) <= MaxEvidence /\ Len(C) \in 0..Len(Z) BY <1>15, <1>16
<1>18. \A i, j \in 1..Len(C) : i < j => C[i] # C[j] /\ (C[j] \in ToSet(sel) => C[i] \in ToSet(sel))
  BY <1>14, <1>15, <1>16, <1>17
<1>19. ASSUME Len(C) # MaxEvidence, NEW f \in Paths(backing) PROVE \E i \in 1..Len(C) : C[i][1] = f
  <2>1. Len(C) = Len(Z) BY <1>15, <1>16, <1>19
  <2>2. PICK x \in backing : x[1] = f BY <1>19 DEF Paths
  <2>3. \E y \in ToSet(Z) : y[1] = f
    <3>1. CASE x \in others BY <1>10, <1>12, <2>2, <3>1
    <3>2. CASE x[1] \in Paths(chosen) BY <1>8, <1>9, <1>12, <2>2, <3>2
    <3> QED BY <1>6, <3>1, <3>2
  <2>4. PICK y \in ToSet(Z) : y[1] = f BY <2>3
  <2>5. PICK i \in 1..Len(Z) : y = Z[i] BY <1>12, SetOf
  <2> QED BY <1>15, <2>1, <2>4, <2>5
<1>20. Len(C) = MaxEvidence \/ Paths(backing) \subseteq {C[i][1] : i \in 1..Len(C)}
  BY <1>19
<1>21. backing = Backing(S, asked) BY DEF backing
<1>22. ConfirmedOK(C, S, sel, asked) BY <1>15, <1>17, <1>18, <1>20, <1>21 DEF ConfirmedOK
<1> QED BY <1>4, <1>22

\* The plan: what confirms comes first, and there is something in it.
PlanOK(plan, S, sel, asked) ==
    LET told == {i \in DOMAIN plan : plan[i].status = "confirmed"} IN
    /\ plan # <<>> /\ Len(plan) <= MaxEvidence
    /\ \A i \in told : plan[i].of \in Backing(S, asked) /\ 1..i \subseteq told
    /\ \A i, j \in told : i < j =>
         plan[i].of # plan[j].of /\ (plan[j].of \in ToSet(sel) => plan[i].of \in ToSet(sel))
    /\ Cardinality(told) = MaxEvidence \/ Paths(Backing(S, asked)) \subseteq {plan[i].of[1] : i \in told}

Items(A) == [status : {"confirmed", "partial"}, of : A]

LEMMA SeqOfAll ==
    ASSUME NEW V, NEW n \in Nat, NEW f, f \in [1..n -> V]
    PROVE  f \in Seq(V) /\ Len(f) = n
OBVIOUS

LEMMA ItemIs ==
    ASSUME NEW A, NEW q \in Seq(A), NEW status \in {"confirmed", "partial"}
    PROVE  /\ Item(status, q) \in Seq(Items(A)) /\ Len(Item(status, q)) = Len(q)
           /\ \A i \in 1..Len(q) : Item(status, q)[i] = [status |-> status, of |-> q[i]]
<1>1. Len(q) \in Nat /\ DOMAIN q = 1..Len(q) /\ \A i \in 1..Len(q) : q[i] \in A
  BY LenProperties, ElementOfSeq
<1>2. Item(status, q) = [i \in 1..Len(q) |-> [status |-> status, of |-> q[i]]] BY <1>1 DEF Item
<1>3. \A i \in 1..Len(q) : [status |-> status, of |-> q[i]] \in Items(A) BY <1>1 DEF Items
<1>4. Item(status, q) \in [1..Len(q) -> Items(A)] BY <1>2, <1>3
<1>5. Item(status, q) \in Seq(Items(A)) /\ Len(Item(status, q)) = Len(q) BY <1>1, <1>4, SeqOfAll
<1> QED BY <1>1, <1>2, <1>5

LEMMA EvidenceIs ==
    ASSUME NEW S, Occurs(S), IsFiniteSet(S), NEW sel \in Seq(S), sel # <<>>, NEW terms, NEW focus
    PROVE  PlanOK(Evidence(S, sel, terms, focus), S, sel, Asked(terms, focus))
<1> DEFINE asked == Asked(terms, focus)
           C == Confirmed(S, sel, terms, asked)
           kept == Keep(sel, {x \in ToSet(sel) : Card[x[2]].summary})
           T == Firsts(kept, MaxEvidence - Len(C))
           plan == Evidence(S, sel, terms, focus)
           told == {i \in DOMAIN plan : plan[i].status = "confirmed"}
<1>1. ConfirmedOK(C, S, sel, asked) BY ConfirmedIs
<1>2. plan = IF C \o T = <<>> THEN Item("partial", Firsts(sel, 1))
             ELSE Item("confirmed", C) \o Item("partial", T)
  BY DEF Evidence
<1>3. MaxEvidence \in Nat \ {0} BY BudgetAssumption
<1>4. kept \in Seq(S) BY KeepIs
<1> HIDE DEF C, kept, plan, asked
<1>5. Len(C) \in Nat /\ Len(C) <= MaxEvidence /\ C \in Seq(S)
  <2>1. Backing(S, asked) \subseteq S BY DEF Backing
  <2> QED BY <1>1, <2>1, LenProperties, SeqMonotonic DEF ConfirmedOK
<1>6. T \in Seq(S) /\ Len(T) <= MaxEvidence - Len(C) /\ Len(T) \in Nat
  <2>1. MaxEvidence - Len(C) \in Nat BY <1>3, <1>5
  <2>2. T \in Seq(S) /\ Len(T) = IF Len(kept) < MaxEvidence - Len(C) THEN Len(kept) ELSE MaxEvidence - Len(C)
    BY <1>4, <2>1, FirstsIs
  <2>3. Len(T) \in Nat /\ Len(kept) \in Nat BY <1>4, <2>2, LenProperties
  <2> HIDE DEF T
  <2> QED BY <2>1, <2>2, <2>3
<1> HIDE DEF T
<1>7. C \o T = <<>> => C = <<>> /\ T = <<>> BY <1>5, <1>6, ConcatEqualIffEmpty
<1>8. CASE C \o T = <<>>
  <2> DEFINE f == Firsts(sel, 1)
  <2>1. Len(sel) \in Nat \ {0} BY EmptySeq
  <2>2. f \in Seq(S) /\ Len(f) = 1
    <3>1. f \in Seq(S) /\ Len(f) = IF Len(sel) < 1 THEN Len(sel) ELSE 1 BY FirstsIs
    <3> QED BY <2>1, <3>1
  <2>3. plan = Item("partial", f) BY <1>2, <1>8
  <2> HIDE DEF f
  <2>4. plan \in Seq(Items(S)) /\ Len(plan) = 1 /\ plan[1] = [status |-> "partial", of |-> f[1]]
    <3>1. plan \in Seq(Items(S)) /\ Len(plan) = Len(f)
          /\ \A i \in 1..Len(f) : plan[i] = [status |-> "partial", of |-> f[i]]
      BY <2>2, <2>3, ItemIs
    <3>2. 1 \in 1..Len(f) BY <2>2
    <3> QED BY <2>2, <3>1, <3>2
  <2>5. told = {}
    <3>1. DOMAIN plan = 1..1 BY <2>4, LenProperties
    <3> QED BY <2>4, <3>1
  <2>6. plan # <<>>
    <3> DEFINE e == <<>>
    <3>1. Len(e) = 0 BY EmptySeq
    <3> HIDE DEF e
    <3>2. plan # e BY <2>4, <3>1
    <3> QED BY <3>2 DEF e
  <2>7. Len(C) = 0 BY <1>7, <1>8, EmptySeq
  <2>8. Paths(Backing(S, asked)) \subseteq {C[i][1] : i \in 1..Len(C)} BY <1>1, <1>3, <2>7 DEF ConfirmedOK
  <2>9. Paths(Backing(S, asked)) = {} BY <2>7, <2>8
  <2> QED BY <1>3, <2>4, <2>5, <2>6, <2>9 DEF PlanOK, plan, asked
<1>9. CASE C \o T # <<>>
  <2> DEFINE U == Item("confirmed", C)
             V == Item("partial", T)
  <2>1. /\ U \in Seq(Items(S)) /\ Len(U) = Len(C)
        /\ \A i \in 1..Len(C) : U[i] = [status |-> "confirmed", of |-> C[i]]
    BY <1>5, ItemIs
  <2>2. /\ V \in Seq(Items(S)) /\ Len(V) = Len(T)
        /\ \A i \in 1..Len(T) : V[i] = [status |-> "partial", of |-> T[i]]
    BY <1>6, ItemIs
  <2>3. plan = U \o V BY <1>2, <1>9
  <2> HIDE DEF U, V
  <2>4. /\ plan \in Seq(Items(S)) /\ Len(plan) = Len(C) + Len(T)
        /\ \A i \in 1..(Len(C) + Len(T)) : plan[i] = IF i <= Len(C) THEN U[i] ELSE V[i - Len(C)]
    <3> DEFINE R == Items(S)
    <3>1. U \in Seq(R) /\ V \in Seq(R) BY <2>1, <2>2
    <3> HIDE DEF R
    <3>2. /\ U \o V \in Seq(R) /\ Len(U \o V) = Len(U) + Len(V)
          /\ \A i \in 1..(Len(U) + Len(V)) : (U \o V)[i] = IF i <= Len(U) THEN U[i] ELSE V[i - Len(U)]
      BY <3>1, ConcatProperties
    <3> QED BY <2>1, <2>2, <2>3, <3>2 DEF R
  <2>5. DOMAIN plan = 1..(Len(C) + Len(T)) BY <2>4, LenProperties
  <2>6. ASSUME NEW i \in 1..Len(C)
        PROVE  i \in DOMAIN plan /\ plan[i].status = "confirmed" /\ plan[i].of = C[i]
    <3>1. i \in 1..(Len(C) + Len(T)) /\ i <= Len(C) BY <1>5, <1>6
    <3>2. plan[i] = U[i] BY <2>4, <3>1
    <3>3. plan[i] = [status |-> "confirmed", of |-> C[i]] BY <2>1, <3>2
    <3> QED BY <2>5, <3>1, <3>3
  <2>7. ASSUME NEW i \in DOMAIN plan, i \notin 1..Len(C) PROVE plan[i].status = "partial"
    <3>1. i - Len(C) \in 1..Len(T) /\ ~(i <= Len(C)) /\ i \in 1..(Len(C) + Len(T))
      BY <1>5, <1>6, <2>5, <2>7
    <3>2. plan[i] = V[i - Len(C)] BY <2>4, <3>1
    <3>3. plan[i] = [status |-> "partial", of |-> T[i - Len(C)]] BY <2>2, <3>1, <3>2
    <3> QED BY <3>3
  <2>8. told = 1..Len(C)
    <3>1. \A i \in told : i \in 1..Len(C) BY <2>7
    <3> QED BY <2>6, <3>1
  <2> HIDE DEF told
  <2>9. Cardinality(told) = Len(C)
    <3> DEFINE n == Len(C)
    <3>0. n \in Nat BY <1>5
    <3> HIDE DEF n
    <3>1. Cardinality(1..n) = IF 1 > n THEN 0 ELSE n - 1 + 1 BY <3>0, FS_Interval
    <3>2. Cardinality(1..n) = n BY <3>0, <3>1
    <3> QED BY <2>8, <3>2 DEF n
  <2>10. plan # <<>>
    <3>1. C # <<>> \/ T # <<>> BY <1>5, <1>6, <1>9, ConcatEqualIffEmpty
    <3>2. Len(C) # 0 \/ Len(T) # 0 BY <1>5, <1>6, <3>1, EmptySeq
    <3>3. Len(plan) # 0 BY <1>5, <1>6, <2>4, <3>2
    <3> QED BY <3>3, EmptySeq
  <2>11. Len(plan) <= MaxEvidence BY <1>3, <1>5, <1>6, <2>4
  <2>12. \A i \in told : plan[i].of \in Backing(S, asked) /\ 1..i \subseteq told
    <3> TAKE i \in told
    <3>1. C[i] \in Backing(S, asked) BY <1>1, <2>8, ElementOfSeq DEF ConfirmedOK
    <3>2. 1..i \subseteq told BY <1>5, <2>8
    <3> QED BY <2>6, <2>8, <3>1, <3>2
  <2>13. \A i, j \in told : i < j =>
           plan[i].of # plan[j].of /\ (plan[j].of \in ToSet(sel) => plan[i].of \in ToSet(sel))
    BY <1>1, <2>6, <2>8 DEF ConfirmedOK
  <2>14. Cardinality(told) = MaxEvidence \/ Paths(Backing(S, asked)) \subseteq {plan[i].of[1] : i \in told}
    <3>1. {plan[i].of[1] : i \in told} = {C[i][1] : i \in 1..Len(C)} BY <2>6, <2>8
    <3> QED BY <1>1, <2>9, <3>1 DEF ConfirmedOK
  <2> QED BY <2>10, <2>11, <2>12, <2>13, <2>14 DEF PlanOK, plan, asked, told
<1> QED BY <1>8, <1>9

-----------------------------------------------------------------------------
(* The budget.                                                              *)

Part(items, places) == [i \in 1..Len(items) |-> IF i \in places THEN items[i] ELSE 0]

LEMMA CostIs ==
    ASSUME NEW items \in Seq(Nat)
    PROVE  /\ Cost(items, {}) = 0
           /\ \A p \in SUBSET (1..Len(items)), n \in 1..Len(items) :
                n \notin p => Cost(items, p \cup {n}) = Cost(items, p) + items[n]
<1>1. Len(items) \in Nat /\ DOMAIN items = 1..Len(items) /\ \A i \in 1..Len(items) : items[i] \in Nat
  BY LenProperties, ElementOfSeq
<1>2. \A p : Cost(items, p) = Sum(Part(items, p)) BY <1>1 DEF Cost, Part
<1>3. \A p : Part(items, p) \in Seq(Nat) /\ Len(Part(items, p)) = Len(items)
  <2> TAKE p
  <2>1. Part(items, p) \in [1..Len(items) -> Nat] BY <1>1 DEF Part
  <2> QED BY <1>1, <2>1, SeqOfAll
<1>4. \A p, i : i \in 1..Len(items) => Part(items, p)[i] = IF i \in p THEN items[i] ELSE 0 BY DEF Part
<1>5. Cost(items, {}) = 0
  <2>1. \A i \in 1..Len(items) : Part(items, {})[i] = 0 BY <1>4
  <2> QED BY <1>2, <1>3, <2>1, SumZero
<1>6. ASSUME NEW p \in SUBSET (1..Len(items)), NEW n \in 1..Len(items), n \notin p
      PROVE  Cost(items, p \cup {n}) = Cost(items, p) + items[n]
  <2> DEFINE a == Part(items, p)
             b == Part(items, p \cup {n})
             d == items[n]
  <2>1. a \in Seq(Nat) /\ b \in Seq(Nat) /\ Len(a) = Len(items) /\ Len(b) = Len(items) BY <1>3
  <2>2. a[n] = 0 /\ b[n] = d BY <1>4, <1>6
  <2>3. \A i \in 1..Len(items) : i # n => b[i] = a[i] BY <1>4
  <2>4. d \in Nat BY <1>1
  <2> HIDE DEF a, b, d
  <2>5. Sum(b) = Sum(a) + d
    <3>1. b[n] = a[n] + d /\ Len(b) = Len(a) /\ n \in 1..Len(a) BY <2>1, <2>2, <2>4
    <3>2. \A i \in 1..Len(a) : i # n => b[i] = a[i] BY <2>1, <2>3
    <3> QED BY <2>1, <2>4, <3>1, <3>2, SumChange
  <2> QED BY <1>2, <2>5 DEF a, b, d
<1> QED BY <1>5, <1>6

\* A context fits, and each of the items left out would have been too much.
Fitted(items, capacity, p, n) ==
    /\ p \in SUBSET (1..n) /\ Cost(items, p) \in Nat /\ Cost(items, p) <= capacity
    /\ \A i \in (1..n) \ p : Cost(items, p) + items[i] > capacity

LEMMA FitIs ==
    ASSUME NEW items \in Seq(Nat), NEW capacity \in Nat
    PROVE  Fitted(items, capacity, FitContext(items, capacity), Len(items))
<1> DEFINE N == Len(items)
           Step(p, n) == IF Cost(items, p) + items[n] <= capacity THEN p \cup {n} ELSE p
           D(k) == k = [n \in 0..N |-> IF n = 0 THEN {}
                                       ELSE LET p == k[n - 1]
                                            IN  IF Cost(items, p) + items[n] <= capacity THEN p \cup {n} ELSE p]
           c == CHOOSE k : D(k)
           V == SUBSET (1..N)
           g == [x \in V \X (1..N) |-> Step(x[1], x[2])]
<1>1. N \in Nat /\ \A n \in 1..N : items[n] \in Nat BY LenProperties, ElementOfSeq
<1>2. FitContext(items, capacity) = c[N] BY DEF FitContext
<1>3. \A p \in V, n \in 1..N : g[<<p, n>>] = Step(p, n) OBVIOUS
<1>4. g \in [V \X (1..N) -> V] OBVIOUS
<1>5. {} \in V OBVIOUS
<1>6. Cost(items, {}) = 0
      /\ \A p \in V, n \in 1..N : n \notin p => Cost(items, p \cup {n}) = Cost(items, p) + items[n]
  BY CostIs
<1> HIDE DEF g, N
<1>7. PICK h \in [0..N -> V] : h[0] = {} /\ \A n \in 1..N : h[n] = g[<<h[n - 1], n>>]
  <2>1. PICK h : Steps(h, {}, g, V, N) BY <1>1, <1>4, <1>5, Recursion DEF Stepper
  <2> QED BY <2>1 DEF Steps
<1>8. \A n \in 1..N : h[n - 1] \in V /\ h[n] = Step(h[n - 1], n)
  <2>1. \A n \in 1..N : n - 1 \in 0..N BY <1>1
  <2> HIDE DEF V
  <2>2. \A n \in 1..N : h[n - 1] \in V BY <1>7, <2>1
  <2> HIDE DEF Step
  <2> QED BY <1>3, <1>7, <2>2
<1>9. D(h)
  <2> DEFINE w == [n \in 0..N |-> IF n = 0 THEN {} ELSE Step(h[n - 1], n)]
  <2>1. ASSUME NEW n \in 0..N PROVE h[n] = w[n]
    <3>1. CASE n = 0 BY <1>7, <3>1
    <3>2. CASE n # 0
      <4>1. n \in 1..N BY <1>1, <3>2
      <4> HIDE DEF Step
      <4> QED BY <1>8, <3>2, <4>1
    <3> QED BY <3>1, <3>2
  <2>2. h = w BY <1>7, <2>1
  <2> QED BY <2>2
<1> HIDE DEF D
<1>10. D(c) BY <1>9
<1>11. ASSUME NEW n \in 1..N, c[n - 1] = h[n - 1] PROVE c[n] = h[n]
  <2> HIDE DEF c
  <2>1. n \in 0..N /\ n # 0 BY <1>1
  <2>2. c[n] = Step(c[n - 1], n) BY <1>10, <2>1 DEF D
  <2> QED BY <1>8, <1>11, <2>2
<1>12. c[0] = h[0]
  <2> HIDE DEF c
  <2> QED BY <1>1, <1>7, <1>10 DEF D
<1> HIDE DEF c
<1>13. SameTo(c, h, N) BY <1>1, <1>11, <1>12, SameSteps DEF InStep
<1>14. c[N] = h[N] BY <1>1, <1>13 DEF SameTo
<1> DEFINE Q == {n \in Nat : n <= N => Fitted(items, capacity, h[n], n)}
<1>15. 0 \in Q
  <2>1. 1..0 = {} OBVIOUS
  <2>2. Fitted(items, capacity, {}, 0) BY <1>6, <2>1 DEF Fitted
  <2> QED BY <1>7, <2>2
<1>16. ASSUME NEW n \in Nat, n \in Q PROVE n + 1 \in Q
  <2> SUFFICES ASSUME n + 1 <= N PROVE Fitted(items, capacity, h[n + 1], n + 1) OBVIOUS
  <2> DEFINE p == h[n]
             m == n + 1
  <2>1. m \in 1..N /\ m - 1 = n BY <1>1
  <2>2. p \in V /\ h[m] = Step(p, m) BY <1>8, <2>1
  <2>3. Fitted(items, capacity, p, n) BY <1>1, <1>16
  <2>4. items[m] \in Nat /\ m \notin p
    <3>1. p \in SUBSET (1..n) BY <2>3 DEF Fitted
    <3> QED BY <1>1, <2>1, <3>1
  <2> HIDE DEF p
  <2>5. \A i \in 1..m : i \in 1..n \/ i = m BY <2>1
  <2>6. 1..n \subseteq 1..m BY <2>1
  <2>7. \A i \in 1..n : items[i] \in Nat BY <1>1, <2>1
  <2> HIDE DEF m
  <2>8. CASE Cost(items, p) + items[m] <= capacity
    <3>1. h[m] = p \cup {m} BY <2>2, <2>8
    <3>2. Cost(items, p \cup {m}) = Cost(items, p) + items[m]
      <4> HIDE DEF V
      <4> QED BY <1>6, <2>1, <2>2, <2>4
    <3>3. p \cup {m} \in SUBSET (1..m)
      <4>1. m \in 1..m BY <2>1
      <4> QED BY <2>3, <2>6, <4>1 DEF Fitted
    <3>4. \A i \in (1..m) \ (p \cup {m}) : Cost(items, p \cup {m}) + items[i] > capacity
      <4> TAKE i \in (1..m) \ (p \cup {m})
      <4>1. i \in (1..n) \ p BY <2>5
      <4>2. Cost(items, p) + items[i] > capacity /\ Cost(items, p) \in Nat BY <2>3, <4>1 DEF Fitted
      <4> QED BY <2>4, <2>7, <3>2, <4>1, <4>2
    <3>5. Cost(items, p \cup {m}) \in Nat /\ Cost(items, p \cup {m}) <= capacity
      BY <2>3, <2>4, <2>8, <3>2 DEF Fitted
    <3> QED BY <3>1, <3>3, <3>4, <3>5 DEF Fitted, m
  <2>9. CASE ~(Cost(items, p) + items[m] <= capacity)
    <3>1. h[m] = p BY <2>2, <2>9
    <3>2. \A i \in (1..m) \ p : Cost(items, p) + items[i] > capacity
      BY <2>3, <2>4, <2>5, <2>9 DEF Fitted
    <3>3. p \in SUBSET (1..m) BY <2>3, <2>6 DEF Fitted
    <3> QED BY <2>3, <3>1, <3>2, <3>3 DEF Fitted, m
  <2> QED BY <2>8, <2>9
<1> HIDE DEF Q
<1>17. Nat \subseteq Q BY <1>15, <1>16, Induct
<1>18. Fitted(items, capacity, h[N], N)
  <2>1. N \in Q /\ N <= N BY <1>1, <1>17
  <2> QED BY <2>1 DEF Q
<1> QED BY <1>2, <1>14, <1>18 DEF N

\* What the context and the memory of a dialogue get.
Shared(items, context, length, taken) ==
    LET used == Cost(items, context) IN
    /\ used + taken <= TotalChars
    /\ \A i \in DOMAIN items \ context :
         used + items[i] > ReservedChars /\ used + items[i] + taken > TotalChars
    /\ taken < length => used + taken = TotalChars

LEMMA SharedOut ==
    ASSUME NEW items \in Seq(Nat), NEW length \in Nat
    PROVE  LET context == FitContext(items, Capacity(length))
           IN  Shared(items, context, length, ShortOf(length, TotalChars - Cost(items, context)))
<1> DEFINE capacity == Capacity(length)
           context == FitContext(items, capacity)
           used == Cost(items, context)
           taken == ShortOf(length, TotalChars - used)
<1>1. TotalChars \in Nat /\ ReservedChars \in Nat /\ ReservedChars <= TotalChars BY BudgetAssumption
<1>2. /\ capacity \in Nat /\ capacity <= TotalChars /\ capacity >= ReservedChars
      /\ capacity + length >= TotalChars
  BY <1>1 DEF Capacity, ShortOf
<1> HIDE DEF capacity
<1>3. Fitted(items, capacity, context, Len(items)) BY <1>2, FitIs
<1> HIDE DEF context
<1>4. used \in Nat /\ used <= capacity /\ \A i \in (1..Len(items)) \ context : used + items[i] > capacity
  BY <1>3 DEF Fitted
<1> HIDE DEF used
<1>5. /\ taken \in Nat /\ used + taken <= TotalChars /\ (taken < length => used + taken = TotalChars)
      /\ taken = length \/ used + taken = TotalChars
  BY <1>1, <1>2, <1>4 DEF ShortOf
<1> HIDE DEF taken
<1>6. ASSUME NEW i \in DOMAIN items \ context
      PROVE  used + items[i] > ReservedChars /\ used + items[i] + taken > TotalChars
  <2>1. i \in (1..Len(items)) \ context /\ items[i] \in Nat BY LenProperties, ElementOfSeq
  <2>2. used + items[i] > capacity BY <1>4, <2>1
  <2> QED BY <1>1, <1>2, <1>4, <1>5, <2>1, <2>2
<1>7. Shared(items, context, length, taken) BY <1>5, <1>6 DEF Shared, used
<1> QED BY <1>7 DEF capacity, context, used, taken

-----------------------------------------------------------------------------
(* What a request has made of the memory.                                   *)

LEMMA WrittenIs ==
    ASSUME NEW text \in Written
    PROVE  /\ IsFiniteSet(text) /\ text \subseteq Sections
           /\ \A s, t \in text : Card[s].place = Card[t].place => s = t
<1>1. CASE text = {} BY <1>1, FS_EmptySet
<1>2. CASE text # {}
  <2>1. PICK f \in Files : text \in TextsOf[f] BY <1>2 DEF Written
  <2> QED BY <2>1, PlacesAssumption, LoreAssumption
<1> QED BY <1>1, <1>2

\* A memory is finite, and no two of its sections have the same place.
LEMMA KnownIs ==
    ASSUME NEW have \in [Files -> Texts]
    PROVE  /\ Occurs(Known(have)) /\ IsFiniteSet(Known(have))
           /\ \A x, y \in Known(have) : Id(x) = Id(y) => x = y
<1> DEFINE S == Known(have)
           text == [f \in Files |-> have[f].text]
           T == {text[f] : f \in Files}
<1>1. \A f \in Files : text[f] = have[f].text /\ text[f] \in Written BY DEF Texts
<1> HIDE DEF text
<1>2. ASSUME NEW x \in S PROVE \E f \in Files : \E s \in text[f] : x = <<f, s>>
  BY <1>1 DEF Known
<1>3. \A f \in Files : text[f] \subseteq Sections /\ IsFiniteSet(text[f]) BY <1>1, WrittenIs
<1>4. Occurs(S) BY <1>2, <1>3 DEF Occurs
<1>5. IsFiniteSet(S)
  <2>1. text \in Surjection(Files, T) BY DEF Surjection, text
  <2>2. IsFiniteSet(T) BY <2>1, PlacesAssumption, FS_Surjection
  <2>3. \A t \in T : IsFiniteSet(t) BY <1>3
  <2> HIDE DEF T
  <2>4. IsFiniteSet(UNION T) BY <2>2, <2>3, FS_UNION
  <2>5. IsFiniteSet(Files \X UNION T) BY <2>4, PlacesAssumption, FS_Product
  <2>6. S \subseteq Files \X UNION T BY <1>2 DEF T
  <2> QED BY <2>5, <2>6, FS_Subset
<1>6. ASSUME NEW x \in S, NEW y \in S, Id(x) = Id(y) PROVE x = y
  <2>1. PICK f \in Files : \E s \in text[f] : x = <<f, s>> BY <1>2
  <2>2. PICK s \in text[f] : x = <<f, s>> BY <2>1
  <2>3. PICK g \in Files : \E t \in text[g] : y = <<g, t>> BY <1>2
  <2>4. PICK t \in text[g] : y = <<g, t>> BY <2>3
  <2>5. f = g /\ Card[s].place = Card[t].place BY <1>6, <2>2, <2>4 DEF Id
  <2>6. s = t BY <1>1, <2>5, WrittenIs
  <2> QED BY <2>2, <2>4, <2>5, <2>6
<1> QED BY <1>4, <1>5, <1>6

\* A selection keeps to its budget and to the question, loses no answer that there
\* is room for, and its plan begins with what confirms it.
Answer(S, q, sel, plan) ==
    /\ Occurs(S) /\ Chosen(sel, S)
    /\ (Focus(q) # {} /\ sel # <<>>) => Direct(S, q) # {}
    /\ \A x \in Direct(S, q) \ ToSet(sel) : ~Room(sel) \/ Chars(sel) + Card[x[2]].size > MaxChars
    /\ sel # <<>> => PlanOK(plan, S, sel, Asked(Terms(q), Focus(q)))

LEMMA AnswerOut ==
    ASSUME NEW have \in [Files -> Texts], NEW q,
           NEW cands, cands = IF Missing(Known(have), q) THEN <<>> ELSE Candidates(Known(have), q),
           NEW picks \in Picks(cands),
           NEW sel, sel = Selection(Reranked(cands, picks, Focus(q)), Central(Known(have), q))
    PROVE  Answer(Known(have), q, sel, Evidence(Known(have), sel, Terms(q), Focus(q)))
<1> DEFINE S == Known(have)
           ranked == Reranked(cands, picks, Focus(q))
           central == Central(S, q)
<1>1. /\ Occurs(S) /\ IsFiniteSet(S)
      /\ \A x, y \in S : Id(x) = Id(y) => x = y
  BY KnownIs
<1> HIDE DEF S
<1>2. cands \in Seq(S) BY <1>1, CandidatesIs, EmptySeq DEF S
<1>3. ranked \in Seq(S) /\ ToSet(cands) \subseteq ToSet(ranked) BY <1>2, RerankedIs
<1>4. central \in Seq(S) BY <1>1, CentralIs
<1>5. sel = Selection(ranked, central) BY DEF S
<1> HIDE DEF ranked, central
<1>6. Chosen(sel, S) /\ \A x \in ToSet(ranked) : Passed(sel, x) BY <1>1, <1>3, <1>4, <1>5, SelectionIs
<1>7. ASSUME Missing(S, q), sel # <<>> PROVE FALSE
  <2>1. cands = <<>> /\ central = <<>> BY <1>7 DEF central, Central, S
  <2>2. cands \in Seq({}) /\ central \in Seq({}) /\ Occurs({}) BY <2>1, EmptySeq DEF Occurs
  <2>3. ranked \in Seq({}) BY <2>2, RerankedIs DEF ranked
  <2>4. Chosen(sel, {}) BY <1>5, <2>2, <2>3, SelectionIs
  <2>5. sel \in Seq({}) BY <2>4 DEF Chosen
  <2>6. Len(sel) \in Nat \ {0} BY <1>7, <2>5, EmptySeq
  <2>7. 1 \in 1..Len(sel) BY <2>6
  <2>8. sel[1] \in {} BY <2>5, <2>7, ElementOfSeq
  <2> QED BY <2>8
<1>8. ASSUME NEW x \in Direct(S, q) \ ToSet(sel)
      PROVE  ~Room(sel) \/ Chars(sel) + Card[x[2]].size > MaxChars
  <2>1. Focus(q) # {} BY <1>1, <1>8, CandidatesIs
  <2>2. ~Missing(S, q) BY <1>8 DEF Missing
  <2>3. x \in ToSet(ranked) BY <1>1, <1>3, <1>8, <2>1, <2>2, CandidatesIs DEF S
  <2>4. Passed(sel, x) BY <1>6, <2>3
  <2>5. ToSet(sel) \subseteq S /\ x \in S BY <1>6, <1>8, SetOf DEF Chosen, Direct
  <2>6. Id(x) \notin Ids(ToSet(sel)) BY <1>1, <1>8, <2>5 DEF Ids
  <2> QED BY <2>4, <2>6 DEF Passed
<1>9. ASSUME sel # <<>>
      PROVE  PlanOK(Evidence(S, sel, Terms(q), Focus(q)), S, sel, Asked(Terms(q), Focus(q)))
  <2>1. sel \in Seq(S) BY <1>6 DEF Chosen
  <2> QED BY <1>1, <1>9, <2>1, EvidenceIs
<1>10. (Focus(q) # {} /\ sel # <<>>) => Direct(S, q) # {} BY <1>7 DEF Missing
<1>11. Answer(S, q, sel, Evidence(S, sel, Terms(q), Focus(q))) BY <1>1, <1>6, <1>8, <1>9, <1>10 DEF Answer
<1> QED BY <1>11 DEF S

-----------------------------------------------------------------------------
(* Everything has its type, and what a request has made stays as it was.    *)

Tidy(t) ==
    /\ t.at \in {"idle", "raised", "selected", "rebuilt", "composed"} => t.have = Absent
    /\ t.at \notin {"stating", "reading"} => t.todo = {}
    /\ t.at = "stating" => t.todo \subseteq Parts[t.part]
    /\ t.at \in Busy => \A f \in Files : t.sig[f] # 0 => f \in Parts[t.part]
    /\ t.at = "selected" => Answer(t.out.memory, t.out.query, t.out.sel, t.out.plan)
    /\ t.at = "composed" => Shared(t.out.offered, t.out.context, t.out.length, t.out.taken)

TInv ==
    /\ clock <= MaxStamp
    /\ \A k \in 1..2 : \A f \in Files : cache[k].sig[f] # 0 => f \in Parts[k]
    /\ \A r \in Readers : Tidy(reader[r])
    /\ \A x \in shown.ids : x[1] \in Files

LEMMA TidyIdle == Tidy(NoReader) /\ Tidy([NoReader EXCEPT !.at = "raised"])
BY DEF Tidy, NoReader, Busy

LEMMA TidyStep ==
    ASSUME IInv, TInv, NEW r \in Readers, NEW u, Becomes(r, u), Tidy(u), UNCHANGED <<clock, cache>>,
           \A x \in shown'.ids : x[1] \in Files
    PROVE  TInv'
BY DEF IInv, TInv, Becomes

LEMMA TidyGoOn == ASSUME NEW t, Shaped(t), NEW texts PROVE Tidy(GoOn(t, texts))
<1>1. GoOn(t, texts).at \in {"selecting", "listing"} /\ GoOn(t, texts).todo = {} BY DEF Shaped, GoOn
<1> QED BY <1>1 DEF Tidy, Busy

LEMMA ListTidy == ASSUME IInv, TInv, NEW r \in Readers, List(r) PROVE TInv'
<1> DEFINE t == reader[r]
           files == {f \in Parts[t.part] : Exists(f)}
           u == [t EXCEPT !.at = "stating", !.todo = files]
<1>1. Shaped(t) /\ t.at = "listing" /\ t.sig = Unsigned BY DEF IInv, List, Reads
<1>2. UNCHANGED <<clock, cache, shown>> BY DEF List
<1>3. /\ u.at = "stating" /\ u.todo = files /\ u.part = t.part /\ u.sig = t.sig BY <1>1 DEF Shaped
<1>4. Tidy(u) BY <1>1, <1>3, EmptyFacts DEF Tidy, Busy
<1>5. Becomes(r, GoOn(t, Absent)) \/ Becomes(r, u) BY DEF List
<1> QED BY <1>1, <1>2, <1>4, <1>5, TidyGoOn, TidyStep DEF TInv

LEMMA StatTidy == ASSUME IInv, TInv, NEW r \in Readers, NEW f \in Files, StatFile(r, f) PROVE TInv'
<1> DEFINE t == reader[r]
           w == [t EXCEPT !.todo = @ \ {f}, !.sig[f] = disk[f].stamp]
           u == [w EXCEPT !.at = IF w.todo = {} THEN "comparing" ELSE @]
<1>1. Shaped(t) /\ Tidy(t) /\ t.at = "stating" /\ f \in t.todo BY DEF IInv, TInv, StatFile, Reads
<1>2. UNCHANGED <<clock, cache, shown>> BY DEF StatFile
<1>3. /\ u.at = (IF t.todo \ {f} = {} THEN "comparing" ELSE "stating") /\ u.todo = t.todo \ {f}
      /\ u.part = t.part /\ u.sig = [t.sig EXCEPT ![f] = disk[f].stamp]
  BY <1>1 DEF Shaped
<1>4. \A g \in Files \ {f} : u.sig[g] = t.sig[g] BY <1>1, <1>3 DEF Shaped
<1>5. f \in Parts[t.part] /\ \A g \in Files : t.sig[g] # 0 => g \in Parts[t.part]
  BY <1>1 DEF Tidy, Busy
<1>6. Tidy(u) BY <1>1, <1>3, <1>4, <1>5 DEF Tidy
<1>7. Becomes(r, u) \/ Raise(r) BY DEF StatFile
<1> QED BY <1>2, <1>6, <1>7, TidyIdle, TidyStep DEF TInv, Raise

LEMMA CompareTidy == ASSUME IInv, TInv, NEW r \in Readers, Compare(r) PROVE TInv'
<1> DEFINE t == reader[r]
           u == [t EXCEPT !.at = "reading", !.todo = {f \in Files : t.sig[f] # 0}]
<1>1. Shaped(t) /\ Tidy(t) /\ t.at = "comparing" BY DEF IInv, TInv, Compare, Reads
<1>2. UNCHANGED <<clock, cache, shown>> BY DEF Compare
<1>3. u.at = "reading" /\ u.part = t.part /\ u.sig = t.sig BY <1>1 DEF Shaped
<1>4. Tidy(u) BY <1>1, <1>3 DEF Tidy, Busy
<1>5. Becomes(r, GoOn(t, cache[t.part].texts)) \/ Becomes(r, u) BY DEF Compare
<1> QED BY <1>1, <1>2, <1>4, <1>5, TidyGoOn, TidyStep DEF TInv

LEMMA ReadTidy == ASSUME IInv, TInv, NEW r \in Readers, NEW f \in Files, ReadFile(r, f) PROVE TInv'
<1> DEFINE t == reader[r]
           w == [t EXCEPT !.todo = @ \ {f}, !.at = IF t.todo = {f} THEN "storing" ELSE @]
           u(x) == [w EXCEPT !.texts[f] = x]
<1>1. Shaped(t) /\ Tidy(t) /\ t.at = "reading" BY DEF IInv, TInv, ReadFile, Reads
<1>2. UNCHANGED <<clock, cache, shown>> BY DEF ReadFile
<1>3. ASSUME NEW x PROVE Tidy(u(x))
  <2>1. /\ u(x).at = (IF t.todo = {f} THEN "storing" ELSE "reading") /\ u(x).todo = t.todo \ {f}
        /\ u(x).part = t.part /\ u(x).sig = t.sig
    BY <1>1 DEF Shaped
  <2> QED BY <1>1, <2>1 DEF Tidy, Busy
<1>4. (\E x \in Reading(f) : Becomes(r, u(x))) \/ Raise(r) BY DEF ReadFile
<1> QED BY <1>2, <1>3, <1>4, TidyIdle, TidyStep DEF TInv, Raise

LEMMA StoreTidy == ASSUME IInv, TInv, NEW r \in Readers, StoreIndex(r) PROVE TInv'
<1> DEFINE t == reader[r]
           x == [sig |-> t.sig, texts |-> t.texts]
<1>1. Shaped(t) /\ Tidy(t) /\ t.at = "storing" BY DEF IInv, TInv, StoreIndex, Reads
<1>2. /\ cache' = [cache EXCEPT ![t.part] = x] /\ Becomes(r, GoOn(t, t.texts))
      /\ UNCHANGED <<clock, shown>>
  BY DEF StoreIndex
<1>3. \A f \in Files : t.sig[f] # 0 => f \in Parts[t.part] BY <1>1 DEF Tidy, Busy
<1>4. \A k \in 1..2 : \A f \in Files : cache'[k].sig[f] # 0 => f \in Parts[k]
  BY <1>2, <1>3 DEF IInv, TInv
<1>5. \A q \in Readers : Tidy(reader'[q]) BY <1>1, <1>2, TidyGoOn DEF IInv, TInv, Becomes
<1> QED BY <1>2, <1>4, <1>5 DEF TInv

LEMMA SelectTidy == ASSUME IInv, TInv, NEW r \in Readers, Select(r) PROVE TInv'
<1> DEFINE S == Known(reader[r].have)
<1>1. reader[r].have \in [Files -> Texts] BY DEF IInv, Reads, Shaped
<1>2. PICK q \in Queries :
        LET cands == IF Missing(S, q) THEN <<>> ELSE Candidates(S, q) IN
        \E picks \in Picks(cands) :
          LET sel == Selection(Reranked(cands, picks, Focus(q)), Central(S, q)) IN
          /\ Becomes(r, [NoReader EXCEPT !.at = "selected", !.out.memory = S, !.out.query = q,
                           !.out.sel = sel, !.out.plan = Evidence(S, sel, Terms(q), Focus(q))])
          /\ shown' = [ids |-> Ids(ToSet(sel)), base |-> q.base]
  BY DEF Select
<1> DEFINE cands == IF Missing(S, q) THEN <<>> ELSE Candidates(S, q)
<1>3. PICK picks \in Picks(cands) :
        LET sel == Selection(Reranked(cands, picks, Focus(q)), Central(S, q)) IN
        /\ Becomes(r, [NoReader EXCEPT !.at = "selected", !.out.memory = S, !.out.query = q,
                         !.out.sel = sel, !.out.plan = Evidence(S, sel, Terms(q), Focus(q))])
        /\ shown' = [ids |-> Ids(ToSet(sel)), base |-> q.base]
  BY <1>2
<1> DEFINE sel == Selection(Reranked(cands, picks, Focus(q)), Central(S, q))
           plan == Evidence(S, sel, Terms(q), Focus(q))
           u == [NoReader EXCEPT !.at = "selected", !.out.memory = S, !.out.query = q,
                   !.out.sel = sel, !.out.plan = plan]
<1>4. Becomes(r, u) /\ shown' = [ids |-> Ids(ToSet(sel)), base |-> q.base] BY <1>3
<1>5. Answer(S, q, sel, plan) BY <1>1, AnswerOut
<1> HIDE DEF S, sel, plan
<1>6. u.at = "selected" /\ u.have = Absent /\ u.todo = {} BY DEF NoReader
<1>10. u.out = [NoOut EXCEPT !.memory = S, !.query = q, !.sel = sel, !.plan = plan] BY DEF NoReader
<1>11. u.out.memory = S /\ u.out.query = q /\ u.out.sel = sel /\ u.out.plan = plan
  <2> HIDE DEF u
  <2> QED BY <1>10 DEF NoOut
<1>7. Tidy(u)
  <2> HIDE DEF u
  <2> QED BY <1>5, <1>6, <1>11 DEF Tidy, Busy
<1>8. \A x \in shown'.ids : x[1] \in Files
  <2>1. ToSet(sel) \subseteq S /\ Occurs(S) BY <1>5, SetOf DEF Answer, Chosen
  <2>2. \A y \in ToSet(sel) : Id(y)[1] \in Files BY <2>1 DEF Id, Occurs
  <2> QED BY <1>4, <2>2 DEF Ids
<1>9. UNCHANGED <<clock, cache>> BY DEF Select
<1> HIDE DEF u
<1> QED BY <1>4, <1>7, <1>8, <1>9, TidyStep

LEMMA RebuildTidy == ASSUME IInv, TInv, NEW r \in Readers, Rebuild(r) PROVE TInv'
<1>1. PICK sel, plan :
        Becomes(r, [NoReader EXCEPT !.at = "rebuilt", !.dropped = reader[r].dropped,
                      !.out.sel = sel, !.out.plan = plan])
  BY DEF Rebuild
<1> DEFINE u == [NoReader EXCEPT !.at = "rebuilt", !.dropped = reader[r].dropped,
                   !.out.sel = sel, !.out.plan = plan]
<1>2. u.at = "rebuilt" /\ u.have = Absent /\ u.todo = {} BY DEF NoReader
<1>3. Tidy(u) BY <1>2 DEF Tidy, Busy
<1>4. UNCHANGED <<clock, cache, shown>> BY DEF Rebuild
<1> QED BY <1>1, <1>3, <1>4, TidyStep DEF TInv

LEMMA ComposeTidy == ASSUME IInv, TInv, NEW r \in Readers, Compose(r) PROVE TInv'
<1>1. PICK offered \in Trusted, length \in Lengths :
        LET context == FitContext(offered, Capacity(length)) IN
        Becomes(r, [NoReader EXCEPT !.at = "composed", !.out.offered = offered,
                      !.out.context = context, !.out.length = length,
                      !.out.taken = ShortOf(length, TotalChars - Cost(offered, context))])
  BY DEF Compose
<1> DEFINE context == FitContext(offered, Capacity(length))
           taken == ShortOf(length, TotalChars - Cost(offered, context))
           u == [NoReader EXCEPT !.at = "composed", !.out.offered = offered,
                   !.out.context = context, !.out.length = length, !.out.taken = taken]
<1>2. Becomes(r, u) BY <1>1
<1>3. offered \in Seq(Nat) /\ length \in Nat BY BudgetAssumption
<1>4. Shared(offered, context, length, taken) BY <1>3, SharedOut
<1> HIDE DEF context, taken
<1>5. u.at = "composed" /\ u.have = Absent /\ u.todo = {} BY DEF NoReader
<1>8. u.out = [NoOut EXCEPT !.offered = offered, !.context = context, !.length = length, !.taken = taken]
  BY DEF NoReader
<1> HIDE DEF u
<1>9. /\ u.out.offered = offered /\ u.out.context = context
      /\ u.out.length = length /\ u.out.taken = taken
  BY <1>8 DEF NoOut
<1>6. Tidy(u) BY <1>4, <1>5, <1>9 DEF Tidy, Busy
<1>7. UNCHANGED <<clock, cache, shown>> BY DEF Compose
<1> QED BY <1>2, <1>6, <1>7, TidyStep DEF TInv

LEMMA BeginTidy ==
    ASSUME IInv, TInv, NEW r \in Readers, NEW rebuild \in BOOLEAN, NEW keep, Begin(r, rebuild, keep)
    PROVE  TInv'
<1> DEFINE u == [NoReader EXCEPT !.at = "listing",
                   !.floor = [f \in Files |-> disk[f].stamp],
                   !.part = IF rebuild THEN 2 ELSE 1,
                   !.rebuild = rebuild, !.keep = keep,
                   !.dropped = IF rebuild THEN shown.ids \ keep ELSE {}]
<1>0. Becomes(r, u) BY DEF Begin
<1>1. Becomes(r, u) /\ u.at = "listing" /\ u.todo = {} BY <1>0 DEF NoReader
<1> HIDE DEF u
<1>2. Tidy(u) BY <1>1 DEF Tidy, Busy
<1>3. UNCHANGED <<clock, cache, shown>> BY DEF Begin
<1> QED BY <1>1, <1>2, <1>3, TidyStep DEF TInv

LEMMA TypesKept == IInv /\ TInv /\ [Next]_vars => TInv'
<1> SUFFICES ASSUME IInv, TInv, [Next]_vars PROVE TInv' OBVIOUS
<1>1. CASE UNCHANGED vars BY <1>1 DEF vars, TInv
<1>2. ASSUME NEW f \in Files, Change(f) PROVE TInv'
  <2>1. UNCHANGED <<cache, reader, shown>> /\ clock' <= MaxStamp
    BY <1>2, LoreAssumption DEF IInv, TInv, Change, Write, OpenFile, FillFile, RemoveFile, Put
  <2> QED BY <2>1 DEF TInv
<1>3. ASSUME NEW r \in Readers, NEW rebuild \in BOOLEAN, NEW keep, Begin(r, rebuild, keep) PROVE TInv'
  BY <1>3, BeginTidy
<1>4. ASSUME NEW r \in Readers, Finish(r) PROVE TInv'
  BY <1>4, TidyIdle, TidyStep DEF Finish, TInv
<1>5. ASSUME NEW r \in Readers, Work(r) PROVE TInv'
  BY <1>4, <1>5, ListTidy, CompareTidy, StoreTidy, SelectTidy, RebuildTidy, ComposeTidy,
     StatTidy, ReadTidy DEF Work
<1>6. CASE Kill
  <2>1. \A k \in 1..2 : cache'[k] = NoIndex BY <1>6 DEF Kill
  <2>2. \A f \in Files : NoIndex.sig[f] = 0 BY EmptyFacts DEF NoIndex
  <2>3. shown'.ids = {} /\ clock' = clock BY <1>6 DEF Kill, NoShown
  <2>4. \A r \in Readers : reader'[r] = NoReader BY <1>6 DEF Kill
  <2> QED BY <2>1, <2>2, <2>3, <2>4, TidyIdle DEF TInv
<1> QED BY <1>1, <1>2, <1>3, <1>5, <1>6 DEF Next

LEMMA TypesStart == Init => TInv
<1> SUFFICES ASSUME Init PROVE TInv OBVIOUS
<1>1. \A f \in Files : NoIndex.sig[f] = 0 BY EmptyFacts DEF NoIndex
<1> QED BY <1>1, TidyIdle, LoreAssumption DEF Init, TInv, NoShown

LEMMA AlwaysTidy == Spec => [](IInv /\ TInv)
<1>1. Init => IInv /\ TInv BY InitOK, TypesStart
<1>2. IInv /\ TInv /\ [Next]_vars => (IInv /\ TInv)' BY StepOK, TypesKept
<1> QED BY <1>1, <1>2, PTL DEF Spec

-----------------------------------------------------------------------------
(* What a selection, its plan and its prompt promise.                       *)

\* Every variable has its type, and of any memory, for any question and whatever
\* order the model asks for, a selection keeps to its number and its length, has no
\* section twice, is empty when nothing answers the question, and passes over an
\* answer only for want of room (select_project_memory).
THEOREM SelectionHolds == Spec => []SelectionSound
<1>1. IInv /\ TInv => LoreOK
  <2> SUFFICES ASSUME IInv, TInv PROVE LoreOK OBVIOUS
  <2>1. clock \in 0..MaxStamp BY LoreAssumption DEF IInv, TInv
  <2>2. ASSUME NEW f \in Files PROVE disk[f].stamp \in 0..clock /\ disk[f].text \subseteq Sections
    <3>1. disk[f].stamp \in Nat /\ disk[f].text \in Written /\ disk[f].stamp <= clock /\ clock \in Nat
      BY DEF IInv, Disk, Texts
    <3> QED BY <3>1, WrittenIs
  <2>3. ASSUME NEW r \in Readers
        PROVE  LET t == reader[r] IN
               /\ t.at \in {"idle", "raised", "selected", "rebuilt", "composed"} => t.have = Absent
               /\ t.at \notin {"stating", "reading"} => t.todo = {}
               /\ t.at \in {"comparing", "storing"} =>
                    \A f \in Files : t.sig[f] # 0 => f \in Parts[t.part]
    BY DEF TInv, Tidy, Busy
  <2> QED BY <2>1, <2>2, <2>3 DEF TInv, LoreOK
<1>2. IInv /\ TInv => WithinBudget /\ FocusOrNothing /\ NothingFitsMore
  <2> SUFFICES ASSUME IInv, TInv PROVE WithinBudget /\ FocusOrNothing /\ NothingFitsMore OBVIOUS
  <2>1. \A r \in Readers : reader[r].at = "selected" =>
          LET o == reader[r].out IN Answer(o.memory, o.query, o.sel, o.plan)
    BY DEF TInv, Tidy
  <2>2. WithinBudget BY <2>1 DEF WithinBudget, Answer, Chosen
  <2>3. FocusOrNothing BY <2>1 DEF FocusOrNothing, Answer
  <2>4. NothingFitsMore BY <2>1 DEF NothingFitsMore, Answer
  <2> QED BY <2>2, <2>3, <2>4
<1>3. IInv /\ TInv => SelectionSound BY <1>1, <1>2 DEF SelectionSound
<1> QED BY <1>3, AlwaysTidy, PTL

\* Of any memory and for any question the plan of an answer begins with the primary
\* sources that confirm it, the selected first and each once, and a file that could
\* confirm it is left out only when the plan is full (build_evidence_plan).
THEOREM EvidenceHolds == Spec => []EvidenceFirst
<1>1. IInv /\ TInv => EvidenceFirst
  <2> SUFFICES ASSUME IInv, TInv PROVE EvidenceFirst OBVIOUS
  <2>1. \A r \in Readers : (reader[r].at = "selected" /\ reader[r].out.sel # <<>>) =>
          LET o == reader[r].out IN
          PlanOK(o.plan, o.memory, o.sel, Asked(Terms(o.query), Focus(o.query)))
    BY DEF TInv, Tidy, Answer
  <2> QED BY <2>1 DEF EvidenceFirst, PlanOK
<1> QED BY <1>1, AlwaysTidy, PTL

\* However long the memory and however many trusted items there are, the memory takes
\* nothing of the reserve of the context, and neither is cut while there is room
\* (compose_dialogue_context).
THEOREM ReserveHolds == Spec => []ReserveKept
<1>1. IInv /\ TInv => ReserveKept
  <2> SUFFICES ASSUME IInv, TInv PROVE ReserveKept OBVIOUS
  <2>1. \A r \in Readers : reader[r].at = "composed" =>
          LET o == reader[r].out IN Shared(o.offered, o.context, o.length, o.taken)
    BY DEF TInv, Tidy
  <2> QED BY <2>1 DEF ReserveKept, Shared
<1> QED BY <1>1, AlwaysTidy, PTL
=============================================================================
