-------------------------------- MODULE Lore --------------------------------
(***************************************************************************)
(* How the memory of a project is read, selected and put into a prompt     *)
(* while it is being written: the index and its cache (memory.py), the     *)
(* local model beside it (lore_rerank.py, lore_assist.py), the rebuilding  *)
(* of a prompt (rebuild.py) and the budget that the memory shares with the *)
(* context of a dialogue (context_assembler.py).                           *)
(*                                                                         *)
(* Readers are threads of the server: they take no lock, share the cache   *)
(* and look at one file after the other.  Gaia replaces a file as a whole; *)
(* another editor of the vault empties it and then fills it.  Every change *)
(* gives it a stamp (time and size) that no file has had before.  Words,   *)
(* lengths and scores are what a section's card says; an occurrence        *)
(* <<f, s>> is section s in file f.                                        *)
(***************************************************************************)
EXTENDS Integers, FiniteSets, SequencesExt

CONSTANTS
    Readers,       \* requests that read the memory of one project
    GroupFiles,    \* files of the group the project is in
    ProjectFiles,  \* memory, registers, graph and primary sources
    MemoryFile,    \* without it a project has no memory
    Primary,       \* files below Исходники and Транскрипции
    Documents,     \* those of them that an extractor reads: .pdf, .docx, .xlsx
    TextsOf,       \* what a file may hold: sets of sections
    Sections,
    Card,          \* place, line, words, bonus, authority, central, ... of a section
    Queries,       \* terms of a query, of its rewriting and of the profile
    Strong,        \* terms that cover a query alone: mvp and a number
    MaxSections,   \* 8 in the code
    MaxChars,      \* 60 000 in the code
    MaxEvidence,   \* 3 in the code
    TotalChars, ReservedChars,  \* 60 000 and 12 000: DialogueContextBudget
    Trusted,       \* lengths of the trusted items of a dialogue, in their order
    Lengths,       \* lengths of the text of a selection
    MaxStamp       \* bound of clock

Files == GroupFiles \cup ProjectFiles
Parts == <<GroupFiles, ProjectFiles>>

ASSUME LoreAssumption ==
    /\ GroupFiles \cap ProjectFiles = {}
    /\ MemoryFile \in ProjectFiles
    /\ Documents \subseteq Primary /\ Primary \subseteq ProjectFiles
    /\ TextsOf \in [Files -> SUBSET SUBSET Sections]
    /\ MaxStamp \in Nat

\* Two sections of a text begin at two lines.
ASSUME PlacesAssumption ==
    /\ IsFiniteSet(Files)
    /\ \A f \in Files : \A text \in TextsOf[f] :
         IsFiniteSet(text) /\ \A s, t \in text : Card[s].place = Card[t].place => s = t

ASSUME CardsAssumption ==
    \A s \in Sections : /\ {Card[s].line, Card[s].authority, Card[s].central, Card[s].size} \subseteq Nat
                       /\ Card[s].bonus \in Int /\ IsFiniteSet(Card[s].words)

\* DialogueContextBudget refuses a reserve above the whole.
ASSUME BudgetAssumption ==
    /\ {MaxSections, MaxChars, MaxEvidence} \subseteq Nat \ {0}
    /\ TotalChars \in Nat /\ ReservedChars \in 0..TotalChars
    /\ Trusted \subseteq Seq(Nat) /\ Lengths \subseteq Nat

VARIABLES
    disk,     \* a file: its stamp and its text
    clock,    \* the last stamp
    cache,    \* INDEX_CACHE
    reader,   \* memory of a request
    shown     \* the last package: the ids of its sources and its query

vars == <<disk, clock, cache, reader, shown>>

-----------------------------------------------------------------------------
Empty    == [stamp |-> 0, text |-> {}]
Absent   == [f \in Files |-> Empty]
Unsigned == [f \in Files |-> 0]
NoIndex  == [sig |-> Unsigned, texts |-> Absent]
NoShown  == [ids |-> {}, base |-> {}]
NoQuery  == [base |-> {}, rewrite |-> {}, more |-> {}]
NoOut    == [memory |-> {}, query |-> NoQuery, sel |-> <<>>, plan |-> <<>>,
             offered |-> <<>>, context |-> {}, length |-> 0, taken |-> 0]
NoReader == [at |-> "idle", part |-> 1, todo |-> {}, sig |-> Unsigned, texts |-> Absent,
             have |-> Absent, floor |-> Unsigned,
             rebuild |-> FALSE, keep |-> {}, dropped |-> {}, out |-> NoOut]

Exists(f)     == disk[f].stamp # 0
Becomes(r, t) == reader' = [reader EXCEPT ![r] = t]
Raise(r)      == Becomes(r, [NoReader EXCEPT !.at = "raised"])

-----------------------------------------------------------------------------
(* The files: Scribe, the registry of projects, the user's editor.          *)

Put(f, text) ==
    /\ clock < MaxStamp
    /\ clock' = clock + 1
    /\ disk' = [disk EXCEPT ![f] = [stamp |-> clock + 1, text |-> text]]
    /\ UNCHANGED <<cache, reader, shown>>

\* atomic_write_text
Write(f) == \E text \in TextsOf[f] : Put(f, text)

\* Opening makes or empties the file.
OpenFile(f) == Put(f, {})
FillFile(f) == Exists(f) /\ disk[f].text = {} /\ \E text \in TextsOf[f] : Put(f, text)

\* It gets another name, with its folder or alone.
RemoveFile(f) ==
    /\ Exists(f)
    /\ disk' = [disk EXCEPT ![f] = Empty]
    /\ UNCHANGED <<clock, cache, reader, shown>>

-----------------------------------------------------------------------------
(* The index                                                                *)

\* select_project_memory, or rebuild_prompt with what the user keeps of the
\* sources that were shown.
Begin(r, rebuild, keep) ==
    /\ reader[r].at = "idle"
    /\ IF rebuild THEN keep \subseteq shown.ids /\ shown.ids # {} ELSE keep = {}
    /\ Becomes(r, [NoReader EXCEPT !.at = "listing",
                                   !.floor = [f \in Files |-> disk[f].stamp],
                                   !.part = IF rebuild THEN 2 ELSE 1,
                                   !.rebuild = rebuild, !.keep = keep,
                                   !.dropped = IF rebuild THEN shown.ids \ keep ELSE {}])
    /\ UNCHANGED <<disk, clock, cache, shown>>

\* The part is done, and its texts go to the rest: first the group and then
\* the project, the other way round in rebuild_prompt.
GoOn(t, texts) ==
    [t EXCEPT !.at = IF (t.part = 1) = t.rebuild THEN "selecting" ELSE "listing",
              !.part = 3 - t.part,
              !.have = [f \in Files |-> IF f \in Parts[t.part] THEN texts[f] ELSE t.have[f]],
              !.sig = Unsigned, !.texts = Absent, !.todo = {}]

List(r) ==
    LET t == reader[r]
        files == {f \in Parts[t.part] : Exists(f)} IN
    /\ t.at = "listing"
    /\ IF files = {} \/ (t.part = 2 /\ ~Exists(MemoryFile))
          THEN Becomes(r, GoOn(t, Absent))
          ELSE Becomes(r, [t EXCEPT !.at = "stating", !.todo = files])
    /\ UNCHANGED <<disk, clock, cache, shown>>

\* The signature: a file that has gone since it was listed raises.
StatFile(r, f) ==
    LET t == reader[r]
        u == [t EXCEPT !.todo = @ \ {f}, !.sig[f] = disk[f].stamp] IN
    /\ t.at = "stating" /\ f \in t.todo
    /\ IF Exists(f) THEN Becomes(r, [u EXCEPT !.at = IF u.todo = {} THEN "comparing" ELSE @])
                    ELSE Raise(r)
    /\ UNCHANGED <<disk, clock, cache, shown>>

HitByName(t) == {f \in Files : cache[t.part].sig[f] # 0} = {f \in Files : t.sig[f] # 0}
Hit(t)       == cache[t.part].sig = t.sig

Compare(r) ==
    LET t == reader[r] IN
    /\ t.at = "comparing"
    /\ IF Hit(t) THEN Becomes(r, GoOn(t, cache[t.part].texts))
       ELSE Becomes(r, [t EXCEPT !.at = "reading", !.todo = {f \in Files : t.sig[f] # 0}])
    /\ UNCHANGED <<disk, clock, cache, shown>>

\* What a reading of the file gives: a document whose extraction fails is empty.
NoText(f)  == [disk[f] EXCEPT !.text = {}]
Reading(f) == IF f \in Documents THEN {disk[f], NoText(f)} ELSE {disk[f]}

\* A document that has gone is empty too; a text raises.
ReadFile(r, f) ==
    LET t == reader[r]
        u == [t EXCEPT !.todo = @ \ {f}, !.at = IF t.todo = {f} THEN "storing" ELSE @] IN
    /\ t.at = "reading" /\ f \in t.todo
    /\ \/ /\ Exists(f) \/ f \in Documents
          /\ \E read \in Reading(f) : Becomes(r, [u EXCEPT !.texts[f] = read])
       \/ ~Exists(f) /\ f \notin Documents /\ Raise(r)
    /\ UNCHANGED <<disk, clock, cache, shown>>

\* The texts are remembered with the stamps that were looked at before.
StoreIndex(r) ==
    LET t == reader[r] IN
    /\ t.at = "storing"
    /\ cache' = [cache EXCEPT ![t.part] = [sig |-> t.sig, texts |-> t.texts]]
    /\ Becomes(r, GoOn(t, t.texts))
    /\ UNCHANGED <<disk, clock, shown>>

-----------------------------------------------------------------------------
(* Sections and terms                                                       *)

Known(have) == UNION {{<<f, s>> : s \in have[f].text} : f \in Files}

\* section_identifier: the path, the heading and the lines, not the text.
Id(x)   == <<x[1], Card[x[2]].place>>
Ids(X)  == {Id(x) : x \in X}

\* Words that match, and a bonus for where the section lies and what is asked.
\* A section "Graph links" has no words.
Score(x, terms) ==
    LET hits == Cardinality(Card[x[2]].words \cap terms)
        score == hits + Card[x[2]].bonus
    IN  IF hits = 0 THEN 0 ELSE IF score < 1 THEN 1 ELSE score

\* has_focus_coverage, has_evidence_coverage.
Covers(x, terms) ==
    LET hits == Card[x[2]].words \cap terms IN
    IF Cardinality(terms) <= 2 THEN hits # {}
                               ELSE Cardinality(hits) >= 2 \/ hits \cap Strong # {}

Firsts(q, n) == SubSeq(q, 1, IF Len(q) < n THEN Len(q) ELSE n)

\* The elements of a sequence that are in a set, as they come.
Keep(s, X) ==
    LET kept[n \in 0..Len(s)] ==
          IF n = 0 THEN <<>>
          ELSE LET p == kept[n - 1] IN IF s[n] \in X THEN Append(p, s[n]) ELSE p
    IN  kept[Len(s)]

Sum(q) == LET sum[n \in 0..Len(q)] == IF n = 0 THEN 0 ELSE sum[n - 1] + q[n] IN sum[Len(q)]

\* A sort by a key of three numbers; of those that tie any may be the first.
Less(a, b)   == \E i \in 1..3 : a[i] < b[i] /\ \A j \in 1..(i - 1) : a[j] = b[j]
Best(X, key) == CHOOSE x \in X : \A y \in X : ~Less(key[y], key[x])
Sorted(X, key) ==
    LET sorted[n \in 0..Cardinality(X)] ==
          IF n = 0 THEN <<>>
          ELSE LET p == sorted[n - 1] IN Append(p, Best(X \ ToSet(p), key))
    IN  sorted[Cardinality(X)]

Focus(q) == q.base \cup q.rewrite
Terms(q) == Focus(q) \cup q.more

\* The sections that answer the query themselves.
Direct(S, q)  == {x \in S : Covers(x, q.base) \/ Covers(x, q.rewrite)}
Missing(S, q) == Focus(q) # {} /\ Direct(S, q) = {}

RankOf(x, score) ==
    LET authority == Card[x[2]].authority
    IN  <<-(score + authority \div 4), -authority, Card[x[2]].line>>

\* The best three of them lead to the sections they link to, and to the
\* branches, decisions, questions and risks with a term.
Linked(S, q) ==
    LET D    == Direct(S, q)
        best == Firsts(Sorted(D, [x \in D |-> RankOf(x, Score(x, Terms(q)))]), 3)
    IN  {x \in S : \E i \in DOMAIN best : x[2] \in Card[best[i][2]].links}

Related(S, q) == {x \in S : Card[x[2]].kin /\ Score(x, Terms(q)) > 0}

\* merge_candidates, best first; without a focus whatever has a term.
Candidates(S, q) ==
    LET linked == Linked(S, q)
        merged == Direct(S, q) \cup linked \cup Related(S, q)
        found  == {x \in S : Score(x, Terms(q)) > 0}
        score(x) == IF x \in linked /\ Score(x, Terms(q)) < 8 THEN 8 ELSE Score(x, Terms(q))
    IN  IF Focus(q) # {} THEN Sorted(merged, [x \in merged |-> RankOf(x, score(x))])
        ELSE Sorted(found, [x \in found |-> <<-Score(x, Terms(q)), Card[x[2]].line, 0>>])

\* The core of a project and its maps, which belong to every answer.
CentralAlways(S, q) ==
    LET core == {x \in S : Card[x[2]].central > 0}
    IN  Firsts(Sorted(core, [x \in core |-> <<-Card[x[2]].central, Card[x[2]].line, 0>>]),
               IF MaxSections < 2 THEN MaxSections ELSE 2)
Central(S, q) == IF Missing(S, q) THEN <<>> ELSE CentralAlways(S, q)

\* The local model names candidates in an order of its own, or is of no use.
Picks(cands) == {p \in SetToAllKPermutations(ToSet(cands)) : Len(p) <= MaxSections}

RerankedOnly(cands, picks, focus) == IF picks = <<>> THEN cands ELSE picks
Reranked(cands, picks, focus) ==
    IF picks = <<>> \/ (focus # {} /\ ~\E i \in DOMAIN picks : Covers(picks[i], focus))
    THEN cands
    ELSE picks \o Keep(cands, ToSet(cands) \ ToSet(picks))

-----------------------------------------------------------------------------
(* The selection                                                            *)

Chars(sel) == Sum([i \in DOMAIN sel |-> Card[sel[i][2]].size])

Room(sel) == Len(sel) < MaxSections /\ Chars(sel) < MaxChars

Fits(sel, x) == sel = <<>> \/ Chars(sel) + Card[x[2]].size <= MaxChars

\* One after the other, and what does not fit is passed over.
Admit(sel, x) ==
    IF Room(sel) /\ Id(x) \notin Ids(ToSet(sel)) /\ Fits(sel, x) THEN Append(sel, x) ELSE sel

Selection(cands, central) ==
    LET s == cands \o central
        selected[n \in 0..Len(s)] == IF n = 0 THEN <<>> ELSE Admit(selected[n - 1], s[n])
    IN  selected[Len(s)]

\* Primary sources with the terms: of each file the best section that was selected,
\* then what the other files have; then summaries of sources; then whatever comes first.
Trust(X)        == [x \in X |-> <<-Card[x[2]].authority, Card[x[2]].line, 0>>]
Found(X, terms) == [x \in X |-> <<-Score(x, terms), -Card[x[2]].authority, Card[x[2]].line>>]

Backing(X, asked) == {x \in X : x[1] \in Primary /\ Covers(x, asked)}
Paths(X)          == {x[1] : x \in X}
Leading(X)        == {Best({x \in X : x[1] = f}, Trust(X)) : f \in Paths(X)}

Confirmed(S, sel, terms, asked) ==
    LET chosen == Backing(ToSet(sel), asked)
        others == {x \in Backing(S, asked) : x[1] \notin Paths(chosen)}
    IN  Firsts(Sorted(Leading(chosen), Trust(Leading(chosen))) \o Sorted(others, Found(others, terms)),
               MaxEvidence)

Asked(terms, focus) == IF focus = {} THEN terms ELSE focus
Item(status, q)     == [i \in DOMAIN q |-> [status |-> status, of |-> q[i]]]

Evidence(S, sel, terms, focus) ==
    LET confirmed == Confirmed(S, sel, terms, Asked(terms, focus))
        summaries == Firsts(Keep(sel, {x \in ToSet(sel) : Card[x[2]].summary}), MaxEvidence - Len(confirmed))
    IN  IF sel = <<>> THEN <<>>
        ELSE IF confirmed \o summaries = <<>> THEN Item("partial", Firsts(sel, 1))
        ELSE Item("confirmed", confirmed) \o Item("partial", summaries)

\* A package is made of it, which the job keeps.
Select(r) ==
    LET t == reader[r]
        S == Known(t.have) IN
    /\ t.at = "selecting" /\ ~t.rebuild
    /\ \E q \in Queries :
         LET cands == IF Missing(S, q) THEN <<>> ELSE Candidates(S, q) IN
         \E picks \in Picks(cands) :
           LET sel == Selection(Reranked(cands, picks, Focus(q)), Central(S, q)) IN
           /\ Becomes(r, [NoReader EXCEPT !.at = "selected",
                            !.out.memory = S, !.out.query = q, !.out.sel = sel,
                            !.out.plan = Evidence(S, sel, Terms(q), Focus(q))])
           /\ shown' = [ids |-> Ids(ToSet(sel)), base |-> q.base]
    /\ UNCHANGED <<disk, clock, cache>>

\* What is kept, as the files are now; what has moved in its file is left out.
Rebuild(r) ==
    LET t == reader[r]
        S == Known(t.have)
        sel == SetToSeq({x \in S : Id(x) \in t.keep}) IN
    /\ t.at = "selecting" /\ t.rebuild
    /\ Becomes(r, [NoReader EXCEPT !.at = "rebuilt", !.dropped = t.dropped,
                     !.out.sel = sel, !.out.plan = Evidence(S, sel, shown.base, shown.base)])
    /\ UNCHANGED <<disk, clock, cache, shown>>

-----------------------------------------------------------------------------
(* The budget of a dialogue                                                 *)

\* The context first, with its reserve and what the memory does not need.
ShortOf(a, b) == IF a < b THEN a ELSE b
CapacityLeft(length) == TotalChars - length
Capacity(length)     == TotalChars - ShortOf(length, TotalChars - ReservedChars)

\* The context is told by the places of the items it has.
Cost(items, places) == Sum([i \in DOMAIN items |-> IF i \in places THEN items[i] ELSE 0])

FitContext(items, capacity) ==
    LET fit[n \in 0..Len(items)] ==
          IF n = 0 THEN {}
          ELSE LET p == fit[n - 1]
               IN  IF Cost(items, p) + items[n] <= capacity THEN p \cup {n} ELSE p
    IN  fit[Len(items)]

Compose(r) ==
    /\ reader[r].at = "selected"
    /\ \E offered \in Trusted, length \in Lengths :
         LET context == FitContext(offered, Capacity(length)) IN
         Becomes(r, [NoReader EXCEPT !.at = "composed",
                       !.out.offered = offered, !.out.context = context, !.out.length = length,
                       !.out.taken = ShortOf(length, TotalChars - Cost(offered, context))])
    /\ UNCHANGED <<disk, clock, cache, shown>>

Finish(r) ==
    /\ reader[r].at \in {"selected", "rebuilt", "composed", "raised"}
    /\ Becomes(r, NoReader)
    /\ UNCHANGED <<disk, clock, cache, shown>>

\* The process ends: the cache and the packages are gone.
Kill ==
    /\ cache' = [k \in 1..2 |-> NoIndex]
    /\ reader' = [r \in Readers |-> NoReader]
    /\ shown' = NoShown
    /\ UNCHANGED <<disk, clock>>

Init ==
    /\ disk = Absent
    /\ clock = 0
    /\ cache = [k \in 1..2 |-> NoIndex]
    /\ reader = [r \in Readers |-> NoReader]
    /\ shown = NoShown

Change(f) == Write(f) \/ OpenFile(f) \/ FillFile(f) \/ RemoveFile(f)

Work(r) ==
    \/ List(r) \/ Compare(r) \/ StoreIndex(r) \/ Select(r) \/ Rebuild(r) \/ Compose(r) \/ Finish(r)
    \/ \E f \in Files : StatFile(r, f) \/ ReadFile(r, f)

Next ==
    \/ \E f \in Files : Change(f)
    \/ \E r \in Readers : \E rebuild \in BOOLEAN : \E keep \in SUBSET shown.ids :
         Begin(r, rebuild, keep)
    \/ \E r \in Readers : Work(r)
    \/ Kill

Spec == Init /\ [][Next]_vars

-----------------------------------------------------------------------------
(* Properties                                                               *)

\* Every variable has its type, and a request keeps texts only while it reads.
LoreOK ==
    /\ clock \in 0..MaxStamp
    /\ \A f \in Files : disk[f].stamp \in 0..clock /\ disk[f].text \subseteq Sections
    /\ \A k \in 1..2 : \A f \in Files : cache[k].sig[f] # 0 => f \in Parts[k]
    /\ \A r \in Readers :
         LET t == reader[r] IN
         /\ t.at \in {"idle", "raised", "selected", "rebuilt", "composed"} => t.have = Absent
         /\ t.at \notin {"stating", "reading"} => t.todo = {}
         /\ t.at \in {"comparing", "storing"} =>
              \A f \in Files : t.sig[f] # 0 => f \in Parts[t.part]
    /\ \A x \in shown.ids : x[1] \in Files

\* The cache never answers for a file with the text of another version: where
\* the remembered stamp is the file's, so is the text, whatever was written
\* between the look at the stamp and the reading; a document whose extraction
\* failed is remembered as empty (project_memory_sections, read_primary_source_text).
CacheTruthful ==
    \A k \in 1..2 : \A f \in Parts[k] :
       (cache[k].sig[f] # 0 /\ cache[k].sig[f] = disk[f].stamp) => cache[k].texts[f] \in Reading(f)

\* A request works with nothing older than the files were when it began: what
\* Scribe wrote before a question is in its answer.  A file is left out only
\* when it, or the memory file, was not there or has changed since, and what a
\* file that has not changed gives is its text, or nothing if it is a document
\* whose extraction has failed since it was written.
Changed(t, f) == t.floor[f] = 0 \/ disk[f].stamp # t.floor[f]
Fresh ==
    \A r \in Readers : reader[r].at = "selecting" =>
      LET t == reader[r] IN
      \A f \in Files :
         \/ /\ t.have[f].stamp # 0 /\ t.have[f].stamp >= t.floor[f]
            /\ t.have[f].stamp = disk[f].stamp => t.have[f] \in Reading(f)
         \/ t.have[f].stamp = 0 /\ Changed(t, f)
         \/ t.have[f].stamp = 0 /\ f \in ProjectFiles /\ Changed(t, MemoryFile)

\* Whatever order the model asks for, a selection has no section twice, keeps
\* to its number and, from the second section on, to its length
\* (select_project_memory).
WithinBudget ==
    \A r \in Readers : reader[r].at = "selected" =>
      LET sel == reader[r].out.sel IN
      /\ Cardinality(Ids(ToSet(sel))) = Len(sel)
      /\ Len(sel) <= MaxSections
      /\ Len(sel) > 1 => Chars(sel) <= MaxChars

\* A question about something is answered from the memory only when a section
\* is about it: neither what is linked, nor the core of the project, nor the
\* model stands in for an answer (focus_missing in select_project_memory).
FocusOrNothing ==
    \A r \in Readers : reader[r].at = "selected" =>
      LET o == reader[r].out IN
      (Focus(o.query) # {} /\ o.sel # <<>>) => Direct(o.memory, o.query) # {}

\* A section that answers the question is left out only for want of room, also
\* when the model did not name it (semantic_rerank_candidates).
NothingFitsMore ==
    \A r \in Readers : reader[r].at = "selected" =>
      LET o == reader[r].out IN
      \A x \in Direct(o.memory, o.query) \ ToSet(o.sel) :
         ~Room(o.sel) \/ Chars(o.sel) + Card[x[2]].size > MaxChars

\* A selection keeps to the question and to its budget, and loses no answer.
SelectionSound == LoreOK /\ WithinBudget /\ FocusOrNothing /\ NothingFitsMore

\* Whenever something is selected, the primary sources that confirm it come first,
\* the selected before the others and each once; nothing else is called confirmed,
\* and a file that could confirm it goes without mention only when the plan is full
\* (build_evidence_plan).
EvidenceFirst ==
    \A r \in Readers : (reader[r].at = "selected" /\ reader[r].out.sel # <<>>) =>
      LET o == reader[r].out
          q == o.query
          backing == Backing(o.memory, Asked(Terms(q), Focus(q)))
          told == {i \in DOMAIN o.plan : o.plan[i].status = "confirmed"}
      IN  /\ o.plan # <<>> /\ Len(o.plan) <= MaxEvidence
          /\ \A i \in told : o.plan[i].of \in backing /\ 1..i \subseteq told
          /\ \A i, j \in told : i < j =>
               /\ o.plan[i].of # o.plan[j].of
               /\ o.plan[j].of \in ToSet(o.sel) => o.plan[i].of \in ToSet(o.sel)
          /\ Cardinality(told) = MaxEvidence \/ Paths(backing) \subseteq {o.plan[i].of[1] : i \in told}

\* However long the memory is, it takes the context no part of its reserve, and
\* neither is cut while there is room for it (compose_dialogue_context).
ReserveKept ==
    \A r \in Readers : reader[r].at = "composed" =>
      LET o == reader[r].out
          used == Cost(o.offered, o.context)
      IN  /\ used + o.taken <= TotalChars
          /\ \A i \in DOMAIN o.offered \ o.context :
               used + o.offered[i] > ReservedChars /\ used + o.offered[i] + o.taken > TotalChars
          /\ o.taken < o.length => used + o.taken = TotalChars

=============================================================================
