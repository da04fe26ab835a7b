--------------------------- MODULE ProjectsProofs ---------------------------
(***************************************************************************)
(* Proofs about Projects for any founded projects, titles, codes, groups   *)
(* and number of requests: creations, updates and repairs interleaved look *)
(* by look and write by write, any of which may raise in between.          *)
(***************************************************************************)
EXTENDS Projects, FiniteSetTheorems, TLAPS

-----------------------------------------------------------------------------
(* Types.  What a request remembers depends on what was asked and on how    *)
(* far it came.                                                             *)

Origins  == DOMAIN Founded
AllCodes == Codes \cup {Inferred}
Values   == Held \cup Requests \cup {None}
Metas    == [code : AllCodes, title : Titles, status : {"active", "archived"}, group : Groups \cup {None}]
Wants    == [code : Codes \cup {Keep}, title : Titles \cup {Keep}, status : {"archived", Keep},
             group : Groups \cup {Keep}]

Idles   == [pc : {"idle"}]
Creates == [pc : {"mkdir", "fill", "meta", "sync", "write"}, kind : {"create"}, at : Titles, new : Metas]
Waits   == [pc : {"wait"}, kind : {"update"}, at : Titles, want : Wants]
Updates == [pc : {"list", "names", "meta", "sync", "write", "move"}, kind : {"update"}, at : Titles, want : Wants,
            old : Metas, new : Metas, of : Values, checked : SUBSET Kinds, left : SUBSET Kinds, to : Titles]
Reads   == [pc : {"read"}, kind : {"repair"}, at : Titles]
Fixes   == [pc : {"sync", "write"}, kind : {"repair"}, at : Titles, new : Metas]
Failed  == [pc : {"refused", "failed"}, kind : {"create", "update", "repair"}]
Made    == [pc : {"done"}, kind : {"create", "repair"}]
Changed == [pc : {"done"}, kind : {"update"}, of : Values, status : {"archived", Keep}]
Asked   == Idles \cup Creates \cup Waits \cup Updates \cup Reads \cup Fixes \cup Failed \cup Made \cup Changed

Types ==
    /\ there \subseteq Titles /\ bare \subseteq there /\ groups \subseteq Groups
    /\ meta \in [Titles -> Metas \cup {None}]
    /\ file \in [Titles -> [Names -> Values]]
    /\ lock \in [Titles -> Requests \cup {None}]
    /\ req \in [Requests -> Asked]
    /\ failures \in 0..MaxFailures
    /\ crossed \subseteq Titles

\* An update is at work from the moment it has the lock.
Working(r) == req[r].pc \in {"list", "names", "meta", "sync", "write", "move"} /\ req[r].kind = "update"

\* The lock of a folder is held by the update that works on it.
Locked == \A r \in Requests, t \in Titles : lock[t] = r <=> (Working(r) /\ req[r].at = t)

\* A folder that holds something exists and is not a new one; an update that has
\* written the metadata of its folder finds the folder there until it moves it.
Full  == \A t \in Titles : (meta[t] # None \/ file[t] # NoFiles) => t \in there \ bare
Stand == \A r \in Requests : (Working(r) /\ req[r].pc \in {"sync", "write", "move"}) => req[r].at \in there \ bare

\* The files an update found, or has yet to rename, are there; and nothing that
\* belongs to anyone has the new name of one whose names were checked.
Due(q)  == IF q.pc = "list" THEN q.checked ELSE q.left
Free(q) == \A k \in Due(q) : /\ file[q.at][<<q.old.code, k>>] # None
                             /\ k \in q.checked => file[q.at][<<q.new.code, k>>] \notin Held
Renaming == \A r \in Requests : req[r].pc \in {"list", "names"} => req[r].new.code # req[r].old.code /\ Free(req[r])

TypeInv == Types /\ Locked /\ Full /\ Stand /\ Renaming

-----------------------------------------------------------------------------
(* Where the texts of the founded projects are, and who works there.        *)

Memory(t, c)  == file[t][<<c, "memory">>]
HasMemory(o)  == \E t \in Titles, c \in AllCodes : Memory(t, c) = o
OneHome       == \A o \in Origins : \A t, u \in Homes(o) : t = u
OneMemory     == \A o \in Origins, t \in Titles, u \in Titles, c \in AllCodes, d \in AllCodes :
                   (Memory(t, c) = o /\ Memory(u, d) = o) => t = u /\ c = d

\* The code that leads to the memory while an update is at work.
Lead(q) == IF q.pc = "list" \/ (q.pc = "names" /\ "memory" \in q.left) THEN q.old.code ELSE q.new.code
Sound   == \A r \in Requests : req[r].pc # "failed"

\* Of the memories in the home of a project the others are those of repairs.
Tidy(o, h) == \A c \in AllCodes : Memory(h, c) \in {o, "stray", None} \cup Repairs

Leads(o, h) ==
    /\ meta[h] # None
    /\ AtWork(h) = {} => Memory(h, meta[h].code) = o
    /\ \A q \in AtWork(h) : Memory(h, Lead(req[q])) = o
    /\ Tidy(o, h)

\* The request was answered that the project is archived.
ToldArchived(r, o) == req[r].pc = "done" /\ req[r].kind = "update" /\ req[r].status = "archived" /\ req[r].of = o

Archived(h) ==
    /\ meta[h] # None /\ meta[h].status = "archived"
    /\ \A q \in AtWork(h) : req[q].new.status = "archived"

\* Only updates work on the folder of a project, and what they wrote stands there.
HomeOf(o, h) ==
    /\ \A q \in AtWork(h) : req[q].kind = "update"
    /\ \A q \in AtWork(h) : req[q].pc \in {"sync", "write", "move"} => meta[h] = req[q].new
    /\ (Sound /\ HasMemory(o)) => Leads(o, h)
    /\ \A r \in Requests : ToldArchived(r, o) => Archived(h)

\* An update that is at work on a project's folder is in its only home.
OfHome == \A r \in Requests, o \in Origins : (Working(r) /\ req[r].of = o) => Homes(o) \subseteq {req[r].at}

Archiving == \A r \in Requests : (Working(r) /\ req[r].want.status = "archived") => req[r].new.status = "archived"

HomeInv == /\ OneHome /\ OneMemory /\ OfHome /\ Archiving
           /\ \A o \in Origins : \A h \in Homes(o) \ crossed : HomeOf(o, h)

IInv == TypeInv /\ HomeInv

-----------------------------------------------------------------------------
(* Lemmas about the constants and the shapes.                               *)

LEMMA Nothing == /\ None \notin Metas /\ None \notin Held /\ None \notin Requests
                 /\ Held \cap Requests = {} /\ Origins \subseteq Held
<1>1. None \notin Metas
  BY NoneAssumption DEF Metas, AllCodes
<1> QED
  BY <1>1, FoundedAssumption, TextsAssumption, NoneAssumption DEF Held, Origins

LEMMA Shapes ==
  ASSUME Types, NEW r \in Requests
  PROVE  /\ req[r] \in Asked
         /\ req[r].pc \in {"mkdir", "fill"} => req[r] \in Creates
         /\ req[r].pc \in {"list", "names", "move"} => req[r] \in Updates
         /\ req[r].pc = "meta" => req[r] \in Creates \/ req[r] \in Updates
         /\ req[r].pc \in {"sync", "write"} => req[r] \in Creates \/ req[r] \in Updates \/ req[r] \in Fixes
         /\ req[r].pc = "wait" => req[r] \in Waits
         /\ req[r].pc = "read" => req[r] \in Reads
         /\ Working(r) => req[r] \in Updates
         /\ req[r].pc \in Open => req[r].at \in Titles /\ req[r].kind \in {"create", "update", "repair"}
<1>1. req[r] \in Asked
  BY DEF Types
<1>2. CASE req[r] \in Idles
  BY <1>1, <1>2 DEF Idles, Working, Open
<1>3. CASE req[r] \in Creates
  BY <1>1, <1>3 DEF Creates, Working, Open
<1>4. CASE req[r] \in Waits
  BY <1>1, <1>4 DEF Waits, Working, Open
<1>5. CASE req[r] \in Updates
  BY <1>1, <1>5 DEF Updates, Working, Open
<1>6. CASE req[r] \in Reads
  BY <1>1, <1>6 DEF Reads, Working, Open
<1>7. CASE req[r] \in Fixes
  BY <1>1, <1>7 DEF Fixes, Working, Open
<1>8. CASE req[r] \in Failed \cup Made \cup Changed
  BY <1>1, <1>8 DEF Failed, Made, Changed, Working, Open
<1> QED
  BY <1>1, <1>2, <1>3, <1>4, <1>5, <1>6, <1>7, <1>8 DEF Asked

LEMMA KindNames ==
  ASSUME NEW c \in AllCodes, NEW k \in Kinds
  PROVE  <<c, k>> \in Names /\ <<c, "memory">> \in Names
BY DEF Names, AllCodes, Kinds

\* The first memory by name is one of those there are.
LEMMA FirstType ==
  ASSUME NEW t, Memories(t) # {}
  PROVE  First(t) \in Memories(t)
<1>1. Memories(t) \in SUBSET (Codes \cup {Inferred})
  BY DEF Memories
<1>2. \E c \in Memories(t) : \A d \in Memories(t) : Rank[c] <= Rank[d]
  BY <1>1, OrderAssumption
<1> QED
  BY <1>2 DEF First

LEMMA MetaOfType ==
  ASSUME Types, NEW t \in Titles
  PROVE  /\ MetaOf(t) \in Metas
         /\ meta[t] # None => MetaOf(t) = meta[t]
<1> DEFINE c == IF Memories(t) = {} THEN Inferred ELSE First(t)
<1>1. c \in AllCodes
  BY FirstType DEF Memories, AllCodes
<1>2. Record(c, t, "active", None) \in Metas
  BY <1>1 DEF Record, Metas
<1>3. meta[t] # None => meta[t] \in Metas
  BY DEF Types
<1> QED
  BY <1>2, <1>3 DEF MetaOf

LEMMA WantedType ==
  ASSUME NEW m \in Metas, NEW w \in Wants
  PROVE  /\ Wanted(m, w) \in Metas
         /\ (w.status = "archived" \/ m.status = "archived") => Wanted(m, w).status = "archived"
<1>1. DOMAIN m = {"code", "title", "status", "group"}
  BY DEF Metas
<1>2. Wanted(m, w) = [f \in {"code", "title", "status", "group"} |-> IF w[f] = Keep THEN m[f] ELSE w[f]]
  BY <1>1 DEF Wanted
<1> DEFINE n == Wanted(m, w)
<1>3. n = [code |-> n.code, title |-> n.title, status |-> n.status, group |-> n.group]
  BY <1>2
<1>4. n.code \in AllCodes /\ n.title \in Titles /\ n.status \in {"active", "archived"} /\ n.group \in Groups \cup {None}
  BY <1>2 DEF Metas, Wants, Keep, AllCodes
<1>5. (w.status = "archived" \/ m.status = "archived") => n.status = "archived"
  BY <1>2 DEF Wants, Keep
<1> QED
  BY <1>3, <1>4, <1>5 DEF Metas

-----------------------------------------------------------------------------
(* What each action does to the requests.                                   *)

\* The others stay as they are; its own goes on at the same place with the same
\* thing to write, or is over.
Typed    == req' \in [Requests -> Asked]
Alone(r) == \A q \in Requests \ {r} : req'[q] = req[q]
Same(r)  == /\ Alone(r) /\ req'[r].at = req[r].at /\ req'[r].kind = req[r].kind /\ req'[r].new = req[r].new
            /\ req[r] \in Updates => /\ req'[r] \in Updates /\ req'[r].of = req[r].of /\ req'[r].want = req[r].want
                                     /\ req'[r].old = req[r].old /\ req'[r].checked = req[r].checked
Ended(r) == Alone(r) /\ req'[r].pc \in Over /\ req'[r].kind = req[r].kind

LEMMA Sets ==
  ASSUME Types, NEW r \in Requests, NEW x \in Asked, Set(r, x)
  PROVE  Typed /\ Alone(r) /\ req'[r] = x
BY DEF Types, Set, Typed, Alone

LEMMA Goes ==
  ASSUME Types, NEW r \in Requests, NEW l, Goto(r, l),
         \/ req[r] \in Creates /\ l \in {"fill", "meta", "sync", "write"}
         \/ req[r] \in Updates /\ l \in {"meta", "sync", "write", "move"}
         \/ req[r] \in Fixes /\ l = "write"
  PROVE  /\ Typed /\ Same(r) /\ req'[r].pc = l
         /\ req[r] \in Updates => req'[r].left = req[r].left
<1>1. req' = [req EXCEPT ![r] = [req[r] EXCEPT !.pc = l]] /\ req \in [Requests -> Asked]
  BY DEF Goto, Types
<1>2. req'[r] = [req[r] EXCEPT !.pc = l] /\ Alone(r)
  BY <1>1 DEF Alone
<1>3. CASE req[r] \in Creates /\ l \in {"fill", "meta", "sync", "write"}
  <2>1. [req[r] EXCEPT !.pc = l] \in Creates
    BY <1>3 DEF Creates
  <2>2. req[r] \notin Updates
    BY <1>3 DEF Creates, Updates
  <2> QED
    BY <1>1, <1>2, <1>3, <2>1, <2>2 DEF Creates, Typed, Same, Asked
<1>4. CASE req[r] \in Updates /\ l \in {"meta", "sync", "write", "move"}
  <2>1. [req[r] EXCEPT !.pc = l] \in Updates
    BY <1>4 DEF Updates
  <2> QED
    BY <1>1, <1>2, <1>4, <2>1 DEF Updates, Typed, Same, Asked
<1>5. CASE req[r] \in Fixes /\ l = "write"
  <2>1. [req[r] EXCEPT !.pc = l] \in Fixes
    BY <1>5 DEF Fixes
  <2>2. req[r] \notin Updates
    BY <1>5 DEF Fixes, Updates
  <2> QED
    BY <1>1, <1>2, <1>5, <2>1, <2>2 DEF Fixes, Typed, Same, Asked
<1> QED
  BY <1>3, <1>4, <1>5

LEMMA EndsAs ==
  ASSUME Types, NEW r \in Requests, NEW l \in Over, End(r, l), req[r].kind \in {"create", "update", "repair"},
         l = "done" => req[r].kind # "update"
  PROVE  /\ Typed /\ Ended(r) /\ req'[r].pc = l
         /\ \A o : ~ToldArchived(r, o)'
<1>1. [pc |-> l, kind |-> req[r].kind] \in Asked
  BY DEF Asked, Failed, Made, Over
<1>2. Typed /\ Alone(r) /\ req'[r] = [pc |-> l, kind |-> req[r].kind]
  BY <1>1, Sets DEF End
<1> QED
  BY <1>2 DEF Ended, ToldArchived

LEMMA AsksOnly ==
  ASSUME Types, NEW r \in Requests, AskCreate(r) \/ AskUpdate(r) \/ AskRepair(r)
  PROVE  /\ Typed /\ Alone(r) /\ req[r].pc = "idle" /\ req'[r].pc \in {"mkdir", "wait", "read", "refused"}
         /\ UNCHANGED <<disk, groups, lock, failures, crossed>>
<1>1. CASE AskCreate(r)
  <2>1. PICK c \in Codes, t \in Titles, g \in groups \cup {None} :
          Set(r, IF t \in there THEN [pc |-> "refused", kind |-> "create"]
                 ELSE [pc |-> "mkdir", kind |-> "create", at |-> t, new |-> Record(c, t, "active", g)])
    BY <1>1 DEF AskCreate
  <2>2. Record(c, t, "active", g) \in Metas
    BY DEF Types, Record, Metas, AllCodes
  <2>3. /\ [pc |-> "mkdir", kind |-> "create", at |-> t, new |-> Record(c, t, "active", g)] \in Asked
        /\ [pc |-> "refused", kind |-> "create"] \in Asked
    BY <2>2 DEF Creates, Failed, Asked
  <2> QED
    BY <1>1, <2>1, <2>3, Sets DEF AskCreate
<1>2. CASE AskUpdate(r)
  <2>1. PICK t \in there, c \in Codes \cup {Keep}, n \in Titles \cup {Keep}, s \in {"archived", Keep}, g \in Groups \cup {Keep} :
          Set(r, [pc |-> "wait", kind |-> "update", at |-> t, want |-> [code |-> c, title |-> n, status |-> s, group |-> g]])
    BY <1>2 DEF AskUpdate
  <2>2. [code |-> c, title |-> n, status |-> s, group |-> g] \in Wants
    BY DEF Wants
  <2>3. [pc |-> "wait", kind |-> "update", at |-> t, want |-> [code |-> c, title |-> n, status |-> s, group |-> g]] \in Asked
    BY <2>2 DEF Waits, Types, Asked
  <2> QED
    BY <1>2, <2>1, <2>3, Sets DEF AskUpdate
<1>3. CASE AskRepair(r)
  <2>1. PICK t \in there : Set(r, [pc |-> "read", kind |-> "repair", at |-> t])
    BY <1>3 DEF AskRepair
  <2>2. [pc |-> "read", kind |-> "repair", at |-> t] \in Asked
    BY DEF Reads, Types, Asked
  <2> QED
    BY <1>3, <2>1, <2>2, Sets DEF AskRepair
<1> QED
  BY <1>1, <1>2, <1>3

LEMMA ReadsOnly ==
  ASSUME Types, NEW r \in Requests, ReadCode(r)
  PROVE  /\ Typed /\ Alone(r) /\ req[r].pc = "read" /\ req'[r].pc = "sync" /\ req'[r].kind = "repair" /\ req[r].kind = "repair"
         /\ UNCHANGED <<disk, groups, lock, failures, crossed>>
<1>1. req[r] \in Reads /\ req[r].pc = "read"
  BY Shapes DEF ReadCode
<1>2. req[r].at \in Titles /\ MetaOf(req[r].at) \in Metas
  BY <1>1, MetaOfType DEF Reads
<1>3. [pc |-> "sync", kind |-> "repair", at |-> req[r].at, new |-> MetaOf(req[r].at)] \in Asked
  BY <1>2 DEF Fixes, Asked
<1> QED
  BY <1>1, <1>3, Sets DEF ReadCode, Reads

LEMMA MakesOnly ==
  ASSUME Types, NEW r \in Requests, MakeFolder(r) \/ FillFolder(r)
  PROVE  /\ Typed /\ req[r] \in Creates /\ req[r].pc \in {"mkdir", "fill"}
         /\ \/ Ended(r) /\ req'[r].pc \in {"refused", "failed"}
            \/ Same(r) /\ req'[r].pc \in {"fill", "meta"}
         /\ MakeFolder(r) /\ req[r].at \in there => req'[r].pc = "refused"
         /\ UNCHANGED <<meta, file, groups, lock, failures, crossed>>
<1>1. CASE MakeFolder(r)
  <2>1. req[r] \in Creates /\ req[r].pc = "mkdir" /\ req[r].kind = "create"
    BY <1>1, Shapes DEF MakeFolder, Creates
  <2>2. CASE req[r].at \in there
    BY <1>1, <2>1, <2>2, EndsAs DEF MakeFolder, Over, disk
  <2>3. CASE req[r].at \notin there
    BY <1>1, <2>1, <2>3, Goes DEF MakeFolder
  <2> QED
    BY <2>2, <2>3
<1>2. CASE FillFolder(r)
  <2>1. req[r] \in Creates /\ req[r].pc = "fill" /\ req[r].kind = "create"
    BY <1>2, Shapes DEF FillFolder, Creates
  <2>2. CASE End(r, "failed")
    BY <1>2, <2>1, <2>2, EndsAs DEF FillFolder, MakeFolder, Over
  <2>3. CASE Goto(r, "meta")
    BY <1>2, <2>1, <2>3, Goes DEF FillFolder, MakeFolder
  <2> QED
    BY <1>2, <2>2, <2>3 DEF FillFolder
<1> QED
  BY <1>1, <1>2

LEMMA WritesOnly ==
  ASSUME Types, NEW r \in Requests, WriteMeta(r)
  PROVE  /\ Typed /\ Same(r) /\ (req[r] \in Creates \/ req[r] \in Updates)
         /\ req[r].at \in Titles /\ req[r].new \in Metas
         /\ req[r].pc = "meta" /\ req'[r].pc = "sync"
<1>1. (req[r] \in Creates \/ req[r] \in Updates) /\ req[r].pc = "meta"
  BY Shapes DEF WriteMeta
<1>2. Typed /\ Same(r) /\ req'[r].pc = "sync"
  BY <1>1, Goes DEF WriteMeta
<1> QED
  BY <1>1, <1>2 DEF Creates, Updates

LEMMA FillsOnly ==
  ASSUME Types, NEW r \in Requests, Sync(r) \/ Write(r)
  PROVE  /\ Typed /\ Alone(r)
         /\ req[r] \in Creates \/ req[r] \in Updates \/ req[r] \in Fixes
         /\ req[r].pc \in {"sync", "write"} /\ req[r].at \in Titles /\ req[r].new.code \in AllCodes
         /\ \/ Same(r) /\ req'[r].pc \in {"write", "move"}
            \/ Ended(r) /\ req'[r].pc = "done" /\ req[r].kind # "update" /\ \A o : ~ToldArchived(r, o)'
         /\ UNCHANGED <<meta, groups, lock, failures, crossed>>
         /\ Write(r) => req[r].pc = "write" /\ req'[r].pc # "write"
         /\ Sync(r) => file' = file
         /\ Write(r) => file' = [file EXCEPT ![req[r].at][<<req[r].new.code, "memory">>] = r]
<1>1. /\ req[r] \in Creates \/ req[r] \in Updates \/ req[r] \in Fixes
      /\ req[r].pc \in {"sync", "write"}
  BY Shapes DEF Sync, Write
<1>2. req[r].at \in Titles /\ req[r].new \in Metas /\ req[r].kind \in {"create", "update", "repair"}
  BY <1>1 DEF Creates, Updates, Fixes
<1>3. req[r].kind = "update" <=> req[r] \in Updates
  BY <1>1 DEF Creates, Updates, Fixes
<1>4. /\ UNCHANGED <<meta, groups, lock, failures, crossed>>
      /\ Sync(r) => req[r].pc = "sync" /\ file' = file
      /\ Write(r) => req[r].pc = "write" /\ file' = [file EXCEPT ![req[r].at][<<req[r].new.code, "memory">>] = r]
  BY DEF Sync, Write
<1>5. CASE Sync(r) /\ Goto(r, "write")
  <2>1. Typed /\ Same(r) /\ req'[r].pc = "write"
    BY <1>1, <1>5, Goes
  <2> QED
    BY <1>1, <1>2, <1>4, <1>5, <2>1 DEF Same, Metas
<1>6. CASE req[r].kind = "update" /\ Goto(r, "move")
  <2>1. Typed /\ Same(r) /\ req'[r].pc = "move"
    BY <1>3, <1>6, Goes
  <2> QED
    BY <1>1, <1>2, <1>4, <2>1 DEF Same, Metas
<1>7. CASE req[r].kind # "update" /\ End(r, "done")
  <2>1. Typed /\ Ended(r) /\ req'[r].pc = "done" /\ \A o : ~ToldArchived(r, o)'
    BY <1>2, <1>7, EndsAs DEF Over
  <2> QED
    BY <1>1, <1>2, <1>4, <1>7, <2>1 DEF Ended, Metas
<1> QED
  BY <1>5, <1>6, <1>7 DEF Sync, Write, Synced

LEMMA ListsOnly ==
  ASSUME Types, NEW r \in Requests, ListNames(r)
  PROVE  /\ Typed /\ Same(r) /\ req[r] \in Updates /\ req[r].pc = "list" /\ req'[r].pc = "names"
         /\ req'[r].left = Named(req[r].at, req[r].old.code)
         /\ UNCHANGED <<disk, groups, lock, failures, crossed>>
<1> DEFINE x == [req[r] EXCEPT !.pc = "names", !.left = Named(req[r].at, req[r].old.code)]
<1>1. req[r] \in Updates /\ req[r].pc = "list"
  BY Shapes DEF ListNames
<1>2. Named(req[r].at, req[r].old.code) \in SUBSET Kinds
  BY DEF Named
<1>3. x \in Updates
  BY <1>1, <1>2 DEF Updates
<1>4. Typed /\ Alone(r) /\ req'[r] = x
  BY <1>3, Sets DEF ListNames, Asked
<1>5. /\ x.pc = "names" /\ x.left = Named(req[r].at, req[r].old.code) /\ x.at = req[r].at /\ x.kind = req[r].kind
      /\ x.new = req[r].new /\ x.of = req[r].of /\ x.want = req[r].want /\ x.old = req[r].old /\ x.checked = req[r].checked
  BY <1>1 DEF Updates
<1> QED
  BY <1>1, <1>3, <1>4, <1>5 DEF ListNames, Same

\* What an update remembers when it takes the lock of its folder.
Took(r) ==
    LET t == req[r].at IN
    /\ lock[t] = None /\ lock' = [lock EXCEPT ![t] = r]
    /\ req'[r] \in Updates /\ req'[r].at = t /\ req'[r].want = req[r].want
    /\ req'[r].old = MetaOf(t) /\ req'[r].new = Wanted(MetaOf(t), req[r].want)
    /\ req'[r].of = Memory(t, MetaOf(t).code)
    /\ req'[r].checked = Named(t, MetaOf(t).code)
    /\ req'[r].pc = IF req'[r].new.code # req'[r].old.code THEN "list" ELSE "meta"
    /\ ~Refused(t, req'[r].old, req'[r].new)

LEMMA TakesOnly ==
  ASSUME Types, NEW r \in Requests, TakeUpdate(r)
  PROVE  /\ Typed /\ Alone(r) /\ req[r] \in Waits /\ req[r].pc = "wait" /\ req[r].at \in Titles
         /\ UNCHANGED <<disk, groups, failures, crossed>>
         /\ \/ Ended(r) /\ req'[r].pc = "refused" /\ lock' = lock
            \/ Took(r)
<1> DEFINE t == req[r].at
           old == MetaOf(t)
           new == Wanted(old, req[r].want)
           x == [pc |-> IF new.code # old.code THEN "list" ELSE "meta", kind |-> "update",
                 at |-> t, want |-> req[r].want, old |-> old, new |-> new,
                 of |-> file[t][<<old.code, "memory">>], checked |-> Named(t, old.code), left |-> {},
                 to |-> IF new.title \in {old.title, t} THEN t ELSE new.title]
<1>1. req[r] \in Waits /\ req[r].pc = "wait" /\ lock[t] = None /\ UNCHANGED <<disk, groups, failures, crossed>>
  BY Shapes DEF TakeUpdate
<1>2. t \in Titles /\ req[r].want \in Wants /\ req[r].kind = "update"
  BY <1>1 DEF Waits
<1>3. old \in Metas /\ new \in Metas
  BY <1>2, MetaOfType, WantedType
<1>4. x \in Updates
  <2>1. file[t][<<old.code, "memory">>] \in Values
    BY <1>2, <1>3, KindNames DEF Metas, Types, Kinds
  <2> HIDE DEF old, new
  <2>2. Named(t, old.code) \in SUBSET Kinds
    BY DEF Named
  <2>3. (IF new.title \in {old.title, t} THEN t ELSE new.title) \in Titles
    BY <1>2, <1>3 DEF Metas
  <2> HIDE DEF t
  <2> QED
    BY <1>2, <1>3, <2>1, <2>2, <2>3 DEF Updates
<1>5. CASE Refused(t, old, new)
  <2>1. End(r, "refused") /\ lock' = lock
    BY <1>5 DEF TakeUpdate
  <2> QED
    BY <1>1, <1>2, <2>1, EndsAs DEF Ended, Over
<1>6. CASE ~Refused(t, old, new)
  <2>1. Set(r, x) /\ lock' = [lock EXCEPT ![t] = r]
    BY <1>6 DEF TakeUpdate
  <2>2. req'[r] = x /\ Alone(r) /\ Typed
    BY <1>4, <2>1, Sets DEF Asked
  <2>3. Took(r)
    <3> HIDE DEF old, new
    <3>1. /\ req'[r].at = t /\ req'[r].want = req[r].want /\ req'[r].old = old /\ req'[r].new = new
          /\ req'[r].of = file[t][<<old.code, "memory">>] /\ req'[r].checked = Named(t, old.code)
          /\ req'[r].pc = IF new.code # old.code THEN "list" ELSE "meta"
      BY <2>2
    <3> USE DEF old, new
    <3> QED
      BY <1>1, <1>4, <1>6, <2>1, <2>2, <3>1 DEF Took, Memory
  <2> QED
    BY <1>1, <1>2, <2>2, <2>3
<1> QED
  BY <1>5, <1>6

\* One file is renamed, or there is none left.
Renamed(r, k) ==
    /\ k \in req[r].left /\ req'[r].left = req[r].left \ {k} /\ req'[r].pc = "names"
    /\ file' = [file EXCEPT ![req[r].at][<<req[r].new.code, k>>] = file[req[r].at][<<req[r].old.code, k>>],
                            ![req[r].at][<<req[r].old.code, k>>] = None]

LEMMA RenamesOnly ==
  ASSUME Types, NEW r \in Requests, RenameFile(r)
  PROVE  /\ Typed /\ Same(r) /\ req[r] \in Updates /\ req[r].pc = "names"
         /\ req[r].at \in Titles /\ req[r].new.code \in AllCodes /\ req[r].old.code \in AllCodes
         /\ UNCHANGED <<there, bare, meta, groups, lock, failures, crossed>>
         /\ \/ req'[r].pc = "meta" /\ req[r].left = {} /\ file' = file
            \/ \E k \in Kinds : Renamed(r, k)
<1>1. /\ req[r] \in Updates /\ req[r].pc = "names" /\ req[r].at \in Titles
      /\ req[r].new.code \in AllCodes /\ req[r].old.code \in AllCodes
      /\ UNCHANGED <<there, bare, meta, groups, lock, failures, crossed>>
  BY Shapes DEF RenameFile, Updates, Metas
<1>2. CASE req[r].left = {}
  BY <1>1, <1>2, Goes DEF RenameFile
<1>3. CASE req[r].left # {}
  <2>1. PICK k \in req[r].left :
            /\ file' = [file EXCEPT ![req[r].at][<<req[r].new.code, k>>] = file[req[r].at][<<req[r].old.code, k>>],
                                    ![req[r].at][<<req[r].old.code, k>>] = None]
            /\ Set(r, [req[r] EXCEPT !.left = @ \ {k}])
    BY <1>1, <1>3 DEF RenameFile
  <2>2. [req[r] EXCEPT !.left = @ \ {k}] \in Updates
    BY <1>1 DEF Updates
  <2>3. req'[r] = [req[r] EXCEPT !.left = @ \ {k}] /\ Alone(r) /\ Typed
    BY <2>1, <2>2, Sets DEF Asked
  <2>4. Same(r) /\ req'[r].left = req[r].left \ {k} /\ req'[r].pc = "names"
    BY <1>1, <2>2, <2>3 DEF Updates, Same
  <2>5. k \in Kinds
    BY <1>1 DEF Updates
  <2> QED
    BY <1>1, <2>1, <2>3, <2>4, <2>5 DEF Renamed
<1> QED
  BY <1>2, <1>3

LEMMA MovesOnly ==
  ASSUME Types, NEW r \in Requests, MoveFolder(r)
  PROVE  /\ Typed /\ Ended(r) /\ req[r] \in Updates /\ req[r].pc = "move" /\ Working(r)
         /\ req[r].at \in Titles /\ req[r].to \in Titles
         /\ \A o : ToldArchived(r, o)' => req[r].of = o /\ req[r].want.status = "archived"
         /\ lock' = [lock EXCEPT ![req[r].at] = None] /\ UNCHANGED <<groups, failures>>
<1>1. req[r] \in Updates /\ req[r].pc = "move"
  BY Shapes DEF MoveFolder
<1>2. /\ req[r].at \in Titles /\ req[r].to \in Titles /\ req[r].kind = "update" /\ req[r].want.status \in {"archived", Keep}
      /\ req[r].of \in Values
  BY <1>1 DEF Updates, Wants
<1>3. End(r, "failed") \/ Answer(r)
  BY DEF MoveFolder
<1>4. lock' = [lock EXCEPT ![req[r].at] = None] /\ UNCHANGED <<groups, failures>>
  BY DEF MoveFolder, Release
<1>5. CASE End(r, "failed")
  BY <1>1, <1>2, <1>4, <1>5, EndsAs DEF Over, Working
<1>6. CASE Answer(r)
  <2> DEFINE x == [pc |-> "done", kind |-> "update", of |-> req[r].of, status |-> req[r].want.status]
  <2>1. x \in Asked
    BY <1>2 DEF Asked, Changed
  <2>2. Typed /\ Alone(r) /\ req'[r] = x
    BY <1>6, <2>1, Sets DEF Answer
  <2> QED
    BY <1>1, <1>2, <1>4, <2>2 DEF Ended, Over, Working, ToldArchived
<1> QED
  BY <1>3, <1>5, <1>6

LEMMA RaisesOnly ==
  ASSUME Types, NEW r \in Requests, Raise(r)
  PROVE  /\ Typed /\ Ended(r) /\ req'[r].pc = "failed" /\ req[r].pc \in Open /\ req[r].at \in Titles
         /\ UNCHANGED <<disk, groups, crossed>> /\ failures' \in 0..MaxFailures
         /\ lock' = IF lock[req[r].at] = r THEN [lock EXCEPT ![req[r].at] = None] ELSE lock
<1>1. req[r].pc \in Open /\ req[r].at \in Titles /\ req[r].kind \in {"create", "update", "repair"}
  BY Shapes DEF Raise
<1>2. Typed /\ Ended(r) /\ req'[r].pc = "failed"
  BY <1>1, EndsAs DEF Raise, Over
<1>3. failures' \in 0..MaxFailures
  BY LimitAssumption DEF Raise, Types
<1> QED
  BY <1>1, <1>2, <1>3 DEF Raise, Release

-----------------------------------------------------------------------------
(* What an action does to the folders and files.                            *)

\* What a rename of a folder does.
MovedTo(r) ==
    /\ req[r].to # req[r].at /\ req[r].to \notin there \ bare
    /\ there' = (there \ {req[r].at}) \cup {req[r].to} /\ bare' = bare \ {req[r].to}
    /\ meta' = [meta EXCEPT ![req[r].to] = meta[req[r].at], ![req[r].at] = None]
    /\ file' = [file EXCEPT ![req[r].to] = file[req[r].at], ![req[r].at] = NoFiles]
    /\ crossed' = IF req[r].at \in crossed \/ AtWork(req[r].to) # {} THEN crossed \cup {req[r].to} ELSE crossed

LEMMA MovesOrNot ==
  ASSUME NEW r \in Requests, MoveFolder(r)
  PROVE  UNCHANGED <<disk, crossed>> \/ MovedTo(r)
BY DEF MoveFolder, MovedTo

\* A folder that is not there, or has just been made, is empty.
LEMMA MovedFiles ==
  ASSUME Types, Full, NEW r \in Requests, MoveFolder(r), MovedTo(r)
  PROVE  /\ req[r].at \in Titles /\ req[r].to \in Titles /\ req[r].to # req[r].at
         /\ file[req[r].to] = NoFiles /\ file'[req[r].to] = file[req[r].at] /\ file'[req[r].at] = NoFiles
         /\ meta'[req[r].to] = meta[req[r].at]
         /\ \A u \in Titles \ {req[r].at, req[r].to} : file'[u] = file[u] /\ meta'[u] = meta[u]
<1>1. req[r].at \in Titles /\ req[r].to \in Titles
  BY MovesOnly
<1>2. file[req[r].to] = NoFiles
  BY <1>1 DEF MovedTo, Full
<1> QED
  BY <1>1, <1>2 DEF MovedTo, Types

LEMMA WrittenFile ==
  ASSUME Types, NEW r \in Requests, Write(r), NEW u \in Titles, NEW n \in Names
  PROVE  file'[u][n] = IF u = req[r].at /\ n = <<req[r].new.code, "memory">> THEN r ELSE file[u][n]
<1>1. req[r].at \in Titles /\ <<req[r].new.code, "memory">> \in Names
  BY FillsOnly, KindNames DEF Kinds
<1>2. file' = [file EXCEPT ![req[r].at][<<req[r].new.code, "memory">>] = r]
  BY FillsOnly
<1> QED
  BY <1>1, <1>2 DEF Types

LEMMA RenamedFiles ==
  ASSUME Types, Renaming, NEW r \in Requests, RenameFile(r), NEW k \in Kinds, Renamed(r, k), NEW u \in Titles, NEW n \in Names
  PROVE  /\ u # req[r].at => file'[u] = file[u]
         /\ file'[u][n] = IF u = req[r].at /\ n = <<req[r].new.code, k>> THEN file[u][<<req[r].old.code, k>>]
                          ELSE IF u = req[r].at /\ n = <<req[r].old.code, k>> THEN None
                          ELSE file[u][n]
<1>1. /\ req[r].at \in Titles /\ <<req[r].new.code, k>> \in Names /\ <<req[r].old.code, k>> \in Names
      /\ req[r].new.code # req[r].old.code
  BY KindNames, RenamesOnly DEF Renaming
<1>2. /\ \A v \in Titles : v # req[r].at => file'[v] = file[v]
      /\ file'[req[r].at] = [file[req[r].at] EXCEPT ![<<req[r].new.code, k>>] = file[req[r].at][<<req[r].old.code, k>>],
                                                  ![<<req[r].old.code, k>>] = None]
  BY <1>1 DEF Types, Renamed
<1>3. file[req[r].at] \in [Names -> Values] /\ <<req[r].new.code, k>> # <<req[r].old.code, k>>
  BY <1>1 DEF Types
<1> QED
  BY <1>1, <1>2, <1>3

\* All but the two names stay as they are.
LEMMA RenamedElse ==
  ASSUME Types, Renaming, NEW r \in Requests, RenameFile(r), NEW k \in Kinds, Renamed(r, k), NEW u \in Titles, NEW n \in Names,
         ~(u = req[r].at /\ n = <<req[r].new.code, k>>), ~(u = req[r].at /\ n = <<req[r].old.code, k>>)
  PROVE  file'[u][n] = file[u][n]
<1>1. file'[u][n] = IF u = req[r].at /\ n = <<req[r].new.code, k>> THEN file[u][<<req[r].old.code, k>>]
                    ELSE IF u = req[r].at /\ n = <<req[r].old.code, k>> THEN None
                    ELSE file[u][n]
  BY RenamedFiles
<1> QED
  BY <1>1

\* The actions that leave the files alone, and those that only ask or look.
LEMMA FilesSame ==
  ASSUME Types, NEW r \in Requests, \/ AskCreate(r) \/ AskUpdate(r) \/ AskRepair(r) \/ ReadCode(r) \/ MakeFolder(r)
                                    \/ FillFolder(r) \/ WriteMeta(r) \/ Sync(r) \/ TakeUpdate(r) \/ ListNames(r) \/ Raise(r)
  PROVE  file' = file
BY DEF AskCreate, AskUpdate, AskRepair, ReadCode, MakeFolder, FillFolder, WriteMeta, Sync, TakeUpdate, ListNames, Raise, disk

-----------------------------------------------------------------------------
(* What one step leaves of the types.                                       *)

LEMMA InitTypes == Init => Types
<1> SUFFICES ASSUME Init
             PROVE  Types
  OBVIOUS
<1>1. meta \in [Titles -> Metas \cup {None}]
  <2>1. \A t \in Origins : Record(Founded[t], t, "active", None) \in Metas
    BY FoundedAssumption DEF Origins, Record, Metas, AllCodes
  <2> QED
    BY <2>1 DEF Init, Origins
<1>2. file \in [Titles -> [Names -> Values]]
  BY DEF Init, Values, Held
<1>3. \A r \in Requests : req[r] \in Asked
  BY DEF Init, Asked, Idles
<1> QED
  BY <1>1, <1>2, <1>3, FoundedAssumption, LimitAssumption DEF Init, Types

LEMMA StepTypes ==
  ASSUME TypeInv, [Next]_vars
  PROVE  Types'
<1> USE DEF TypeInv
<1>1. ASSUME NEW r \in Requests, AskCreate(r) \/ AskUpdate(r) \/ AskRepair(r)
      PROVE  Types'
  BY <1>1, AsksOnly DEF Types, disk, Typed
<1>2. ASSUME NEW r \in Requests, ReadCode(r)
      PROVE  Types'
  BY <1>2, ReadsOnly DEF Types, disk, Typed
<1>3. ASSUME NEW r \in Requests, MakeFolder(r) \/ FillFolder(r)
      PROVE  Types'
  <2>1. Typed /\ req[r].at \in Titles /\ UNCHANGED <<meta, file, groups, lock, failures, crossed>>
    BY <1>3, MakesOnly DEF Creates
  <2>2. there' \subseteq Titles /\ bare' \subseteq there'
    BY <1>3, <2>1 DEF MakeFolder, FillFolder, Types, disk
  <2> QED
    BY <2>1, <2>2 DEF Types, Typed
<1>4. ASSUME NEW r \in Requests, WriteMeta(r)
      PROVE  Types'
  <2>1. Typed /\ req[r].at \in Titles /\ req[r].new \in Metas
    BY <1>4, WritesOnly
  <2>2. meta' \in [Titles -> Metas \cup {None}]
    BY <1>4, <2>1 DEF WriteMeta, Types
  <2> QED
    BY <1>4, <2>1, <2>2 DEF WriteMeta, Types, Typed
<1>5. ASSUME NEW r \in Requests, Sync(r)
      PROVE  Types'
  <2>1. Typed /\ req[r].at \in Titles /\ UNCHANGED <<meta, file, groups, lock, failures, crossed>>
    BY <1>5, FillsOnly
  <2>2. there' = there \cup {req[r].at} /\ bare' = bare \cup ({req[r].at} \ there)
    BY <1>5 DEF Sync
  <2> QED
    BY <2>1, <2>2 DEF Types, Typed
<1>6. ASSUME NEW r \in Requests, Write(r)
      PROVE  Types'
  <2>1. /\ Typed /\ req[r].at \in Titles /\ <<req[r].new.code, "memory">> \in Names
        /\ UNCHANGED <<meta, groups, lock, failures, crossed>>
        /\ file' = [file EXCEPT ![req[r].at][<<req[r].new.code, "memory">>] = r]
    BY <1>6, FillsOnly, KindNames DEF Kinds
  <2>2. file' \in [Titles -> [Names -> Values]]
    BY <2>1 DEF Types, Values
  <2>3. there' = there \cup {req[r].at} /\ bare' = bare \ {req[r].at}
    BY <1>6 DEF Write
  <2> QED
    BY <2>1, <2>2, <2>3 DEF Types, Typed
<1>7. ASSUME NEW r \in Requests, TakeUpdate(r)
      PROVE  Types'
  <2>1. Typed /\ UNCHANGED <<disk, groups, failures, crossed>> /\ req[r].at \in Titles
    BY <1>7, TakesOnly
  <2>2. lock' \in [Titles -> Requests \cup {None}]
    BY <1>7, TakesOnly DEF Took, Types
  <2> QED
    BY <2>1, <2>2 DEF Types, Typed, disk
<1>8. ASSUME NEW r \in Requests, ListNames(r)
      PROVE  Types'
  BY <1>8, ListsOnly DEF Types, disk, Typed
<1>9. ASSUME NEW r \in Requests, RenameFile(r)
      PROVE  Types'
  <2>1. Typed /\ UNCHANGED <<there, bare, meta, groups, lock, failures, crossed>>
    BY <1>9, RenamesOnly
  <2>2. CASE file' = file
    BY <2>1, <2>2 DEF Types, Typed
  <2>3. ASSUME NEW k \in Kinds, Renamed(r, k)
        PROVE  Types'
    <3>1. <<req[r].new.code, k>> \in Names /\ <<req[r].old.code, k>> \in Names /\ req[r].at \in Titles
      BY <1>9, RenamesOnly, KindNames
    <3>2. file[req[r].at][<<req[r].old.code, k>>] \in Values /\ None \in Values
      BY <3>1 DEF Types, Values
    <3>3. file' \in [Titles -> [Names -> Values]]
      BY <2>3, <3>1, <3>2, ZenonT(60) DEF Types, Renamed
    <3> QED
      BY <2>1, <3>3 DEF Types, Typed
  <2> QED
    BY <1>9, <2>2, <2>3, RenamesOnly
<1>10. ASSUME NEW r \in Requests, MoveFolder(r)
       PROVE  Types'
  <2>1. Typed /\ UNCHANGED <<groups, failures>> /\ req[r].at \in Titles /\ req[r].to \in Titles
        /\ lock' = [lock EXCEPT ![req[r].at] = None] /\ req[r].at \in there \ bare
    BY <1>10, MovesOnly DEF Stand
  <2>2. lock' \in [Titles -> Requests \cup {None}]
    BY <2>1 DEF Types
  <2>3. CASE UNCHANGED <<disk, crossed>>
    BY <2>1, <2>2, <2>3 DEF Types, Typed, disk
  <2>4. CASE MovedTo(r)
    <3>1. NoFiles \in [Names -> Values]
      BY DEF NoFiles, Values
    <3>2. file' \in [Titles -> [Names -> Values]]
      BY <2>1, <2>4, <3>1 DEF Types, MovedTo
    <3>3. meta' \in [Titles -> Metas \cup {None}]
      BY <2>1, <2>4 DEF Types, MovedTo
    <3>4. there' \subseteq Titles /\ bare' \subseteq there' /\ crossed' \subseteq Titles
      BY <2>1, <2>4 DEF Types, MovedTo
    <3> QED
      BY <2>1, <2>2, <3>2, <3>3, <3>4 DEF Types, Typed
  <2> QED
    BY <1>10, <2>3, <2>4, MovesOrNot
<1>11. ASSUME NEW r \in Requests, Raise(r)
       PROVE  Types'
  <2>1. lock' \in [Titles -> Requests \cup {None}]
    BY <1>11, RaisesOnly DEF Types
  <2> QED
    BY <1>11, <2>1, RaisesOnly DEF Types, Typed, disk
<1>12. ASSUME NEW g \in Groups, CreateGroup(g)
       PROVE  Types'
  BY <1>12 DEF CreateGroup, Types, disk
<1>13. CASE UNCHANGED vars
  BY <1>13 DEF vars, disk, Types
<1> QED
  BY <1>1, <1>2, <1>3, <1>4, <1>5, <1>6, <1>7, <1>8, <1>9, <1>10, <1>11, <1>12, <1>13 DEF Next, Step

-----------------------------------------------------------------------------
(* What one step leaves of the locks, the folders and the renaming.         *)

LEMMA LockKept ==
  ASSUME Locked, NEW r \in Requests, lock' = lock, Alone(r),
         Working(r)' <=> Working(r), Working(r) => req'[r].at = req[r].at
  PROVE  Locked'
BY DEF Locked, Working, Alone

LEMMA LockGiven ==
  ASSUME Types, Locked, NEW r \in Requests, NEW t \in Titles, lock' = [lock EXCEPT ![t] = None], Alone(r), ~Working(r)',
         lock[t] = r
  PROVE  Locked'
<1>1. lock \in [Titles -> Requests \cup {None}]
  BY DEF Types
<1> QED
  BY <1>1, Nothing DEF Locked, Working, Alone

LEMMA StepLocked ==
  ASSUME TypeInv, [Next]_vars
  PROVE  Locked'
<1> USE DEF TypeInv
<1>1. ASSUME NEW r \in Requests, AskCreate(r) \/ AskUpdate(r) \/ AskRepair(r)
      PROVE  Locked'
  BY <1>1, AsksOnly, LockKept DEF Working
<1>2. ASSUME NEW r \in Requests, ReadCode(r)
      PROVE  Locked'
  BY <1>2, ReadsOnly, LockKept DEF Working
<1>3. ASSUME NEW r \in Requests, MakeFolder(r) \/ FillFolder(r)
      PROVE  Locked'
  BY <1>3, MakesOnly, LockKept DEF Working, Same, Ended, Creates
<1>4. ASSUME NEW r \in Requests, WriteMeta(r)
      PROVE  Locked'
  BY <1>4, WritesOnly, LockKept DEF Working, WriteMeta, Same
<1>5. ASSUME NEW r \in Requests, Sync(r) \/ Write(r)
      PROVE  Locked'
  BY <1>5, FillsOnly, LockKept DEF Working, Same, Ended
<1>6. ASSUME NEW r \in Requests, TakeUpdate(r)
      PROVE  Locked'
  <2>1. CASE Ended(r) /\ req'[r].pc = "refused" /\ lock' = lock
    BY <1>6, <2>1, TakesOnly, LockKept DEF Working
  <2>2. CASE Took(r)
    <3>1. lock' = [lock EXCEPT ![req[r].at] = r] /\ lock[req[r].at] = None /\ req[r].at \in Titles
      BY <1>6, <2>2, TakesOnly DEF Took
    <3>2. Working(r)' /\ req'[r].at = req[r].at /\ ~Working(r)
      BY <1>6, <2>2, TakesOnly DEF Took, Updates, Working
    <3>3. Alone(r)
      BY <1>6, TakesOnly
    <3>4. lock \in [Titles -> Requests \cup {None}]
      BY DEF Types
    <3> QED
      BY <3>1, <3>2, <3>3, <3>4, Nothing DEF Locked, Working, Alone
  <2> QED
    BY <1>6, <2>1, <2>2, TakesOnly
<1>7. ASSUME NEW r \in Requests, ListNames(r)
      PROVE  Locked'
  BY <1>7, ListsOnly, LockKept DEF Working, Same
<1>8. ASSUME NEW r \in Requests, RenameFile(r)
      PROVE  Locked'
  <2>1. Same(r) /\ req[r].pc = "names" /\ req'[r].pc \in {"names", "meta"} /\ lock' = lock
    BY <1>8, RenamesOnly DEF Renamed
  <2> QED
    BY <2>1, LockKept DEF Working, Same
<1>9. ASSUME NEW r \in Requests, MoveFolder(r)
      PROVE  Locked'
  <2>1. Working(r) /\ ~Working(r)' /\ Alone(r) /\ req[r].at \in Titles /\ lock' = [lock EXCEPT ![req[r].at] = None]
    BY <1>9, MovesOnly DEF Working, Ended, Over
  <2>2. lock[req[r].at] = r
    BY <2>1 DEF Locked
  <2> QED
    BY <2>1, <2>2, LockGiven
<1>10. ASSUME NEW r \in Requests, Raise(r)
       PROVE  Locked'
  <2>1. ~Working(r)' /\ Alone(r) /\ req[r].at \in Titles
    BY <1>10, RaisesOnly DEF Working, Ended
  <2>2. CASE lock[req[r].at] = r
    BY <1>10, <2>1, <2>2, RaisesOnly, LockGiven
  <2>3. CASE lock[req[r].at] # r
    <3>1. lock' = lock /\ ~Working(r)
      BY <1>10, <2>1, <2>3, RaisesOnly DEF Locked
    <3> QED
      BY <2>1, <3>1, LockKept
  <2> QED
    BY <2>2, <2>3
<1>11. ASSUME NEW g \in Groups, CreateGroup(g)
       PROVE  Locked'
  BY <1>11 DEF CreateGroup, Locked, Working
<1>12. CASE UNCHANGED vars
  BY <1>12 DEF vars, Locked, Working
<1> QED
  BY <1>1, <1>2, <1>3, <1>4, <1>5, <1>6, <1>7, <1>8, <1>9, <1>10, <1>11, <1>12 DEF Next, Step

LEMMA OneWorker ==
  ASSUME Types, Locked, NEW q \in Requests, NEW r \in Requests, Working(q), Working(r), req[q].at = req[r].at
  PROVE  q = r
BY Shapes DEF Locked, Updates

LEMMA StepFull ==
  ASSUME TypeInv, [Next]_vars
  PROVE  Full'
<1> USE DEF TypeInv
<1>1. ASSUME NEW r \in Requests, \/ AskCreate(r) \/ AskUpdate(r) \/ AskRepair(r) \/ ReadCode(r) \/ TakeUpdate(r)
                                 \/ ListNames(r) \/ Raise(r)
      PROVE  Full'
  BY <1>1 DEF AskCreate, AskUpdate, AskRepair, ReadCode, TakeUpdate, ListNames, Raise, disk, Full
<1>2. ASSUME NEW r \in Requests, MakeFolder(r) \/ FillFolder(r) \/ WriteMeta(r) \/ Sync(r)
      PROVE  Full'
  BY <1>2 DEF MakeFolder, FillFolder, WriteMeta, Sync, disk, Full, Types
<1>3. ASSUME NEW r \in Requests, Write(r)
      PROVE  Full'
  <2>1. there' = there \cup {req[r].at} /\ bare' = bare \ {req[r].at} /\ meta' = meta
    BY <1>3 DEF Write
  <2>2. \A u \in Titles \ {req[r].at} : file'[u] = file[u]
    BY <1>3, FillsOnly DEF Types
  <2> QED
    BY <2>1, <2>2 DEF Full
<1>4. ASSUME NEW r \in Requests, RenameFile(r)
      PROVE  Full'
  <2>1. UNCHANGED <<there, bare, meta>> /\ req[r].at \in Titles
    BY <1>4, RenamesOnly
  <2>2. CASE file' = file
    BY <2>1, <2>2 DEF Full
  <2>3. ASSUME NEW k \in Kinds, Renamed(r, k)
        PROVE  Full'
    <3>1. Free(req[r]) /\ k \in Due(req[r]) /\ <<req[r].old.code, k>> \in Names
      BY <1>4, <2>3, RenamesOnly, KindNames DEF Renaming, Renamed, Due
    <3>2. file[req[r].at] # NoFiles
      BY <3>1 DEF Free, NoFiles
    <3>3. \A u \in Titles : u # req[r].at => file'[u] = file[u]
      BY <1>4, <2>3, <3>1, RenamedFiles
    <3> QED
      BY <2>1, <3>2, <3>3 DEF Full
  <2> QED
    BY <1>4, <2>2, <2>3, RenamesOnly
<1>5. ASSUME NEW r \in Requests, MoveFolder(r)
      PROVE  Full'
  <2>1. CASE MovedTo(r)
    <3>1. req[r].at \in Titles /\ req[r].to \in Titles
      BY <1>5, MovesOnly
    <3> QED
      BY <2>1, <3>1 DEF MovedTo, Full, Types
  <2>2. CASE UNCHANGED disk
    BY <2>2 DEF disk, Full
  <2> QED
    BY <1>5, <2>1, <2>2, MovesOrNot
<1>6. ASSUME NEW g \in Groups, CreateGroup(g)
      PROVE  Full'
  BY <1>6 DEF CreateGroup, Full, disk
<1>7. CASE UNCHANGED vars
  BY <1>7 DEF vars, Full, disk
<1> QED
  BY <1>1, <1>2, <1>3, <1>4, <1>5, <1>6, <1>7 DEF Next, Step

LEMMA StandKept ==
  ASSUME Stand, NEW r \in Requests, Alone(r), req'[r].pc \notin {"sync", "write", "move"} \/ req'[r].kind # "update",
         there \subseteq there', bare' \cap there \subseteq bare
  PROVE  Stand'
BY DEF Stand, Working, Alone

LEMMA StepStand ==
  ASSUME TypeInv, [Next]_vars
  PROVE  Stand'
<1> USE DEF TypeInv
<1>1. ASSUME NEW r \in Requests, AskCreate(r) \/ AskUpdate(r) \/ AskRepair(r)
      PROVE  Stand'
  BY <1>1, AsksOnly, StandKept DEF disk
<1>2. ASSUME NEW r \in Requests, ReadCode(r)
      PROVE  Stand'
  BY <1>2, ReadsOnly, StandKept DEF disk
<1>3. ASSUME NEW r \in Requests, MakeFolder(r) \/ FillFolder(r)
      PROVE  Stand'
  <2>1. Alone(r) /\ req'[r].pc \notin {"sync", "write", "move"}
    BY <1>3, MakesOnly DEF Ended, Same
  <2>2. there \subseteq there' /\ bare' \cap there \subseteq bare
    BY <1>3 DEF MakeFolder, FillFolder, disk
  <2> QED
    BY <2>1, <2>2, StandKept
<1>4. ASSUME NEW r \in Requests, WriteMeta(r)
      PROVE  Stand'
  <2>1. Same(r) /\ there' = there \cup {req[r].at} /\ bare' = bare \ {req[r].at}
    BY <1>4, WritesOnly DEF WriteMeta
  <2>2. \A q \in Requests \ {r} : req'[q] = req[q]
    BY <2>1 DEF Same, Alone
  <2>3. ASSUME NEW q \in Requests, Working(q)', req'[q].pc \in {"sync", "write", "move"}
        PROVE  req'[q].at \in there' \ bare'
    BY <2>1, <2>2, <2>3 DEF Stand, Working, Same
  <2> QED
    BY <2>3 DEF Stand
<1>5. ASSUME NEW r \in Requests, Sync(r) \/ Write(r)
      PROVE  Stand'
  <2>1. there \subseteq there' /\ bare' \cap there \subseteq bare /\ req[r].pc \in {"sync", "write"}
    BY <1>5 DEF Sync, Write
  <2>2. Alone(r)
    BY <1>5, FillsOnly
  <2>3. CASE Same(r)
    BY <2>1, <2>2, <2>3 DEF Stand, Working, Alone, Same
  <2>4. CASE Ended(r)
    BY <2>1, <2>2, <2>4, StandKept DEF Ended, Over
  <2> QED
    BY <1>5, <2>3, <2>4, FillsOnly
<1>6. ASSUME NEW r \in Requests, TakeUpdate(r)
      PROVE  Stand'
  BY <1>6, TakesOnly, StandKept DEF Took, disk
<1>7. ASSUME NEW r \in Requests, ListNames(r)
      PROVE  Stand'
  BY <1>7, ListsOnly, StandKept DEF Same, disk
<1>8. ASSUME NEW r \in Requests, RenameFile(r)
      PROVE  Stand'
  <2>1. Alone(r) /\ req'[r].pc \in {"names", "meta"} /\ UNCHANGED <<there, bare>>
    BY <1>8, RenamesOnly DEF Renamed, Same
  <2> QED
    BY <2>1, StandKept
<1>9. ASSUME NEW r \in Requests, MoveFolder(r)
      PROVE  Stand'
  <2>1. Alone(r) /\ req'[r].pc \notin {"sync", "write", "move"} /\ Working(r)
    BY <1>9, MovesOnly DEF Ended, Over
  <2>2. \A q \in Requests \ {r} : Working(q) => req[q].at # req[r].at
    BY <2>1, OneWorker
  <2>3. \A u \in Titles : u \in there \ bare /\ u # req[r].at => u \in (there \ bare)'
    BY <1>9, MovesOrNot DEF MovedTo, disk
  <2> QED
    BY <2>1, <2>2, <2>3, Shapes DEF Stand, Working, Alone, Updates
<1>10. ASSUME NEW r \in Requests, Raise(r)
       PROVE  Stand'
  BY <1>10, RaisesOnly, StandKept DEF Ended, disk
<1>11. ASSUME NEW g \in Groups, CreateGroup(g)
       PROVE  Stand'
  BY <1>11 DEF CreateGroup, Stand, Working, disk
<1>12. CASE UNCHANGED vars
  BY <1>12 DEF vars, Stand, Working, disk
<1> QED
  BY <1>1, <1>2, <1>3, <1>4, <1>5, <1>6, <1>7, <1>8, <1>9, <1>10, <1>11, <1>12 DEF Next, Step

\* What another update has still to rename, after a step that is not its own.
LEMMA FreeKept ==
  ASSUME TypeInv, NEW q \in Requests, req[q].pc \in {"list", "names"}, req'[q] = req[q],
         \A k \in Kinds, c \in AllCodes :
           LET n == <<c, k>> IN
           /\ file[req[q].at][n] # None => file'[req[q].at][n] # None
           /\ file'[req[q].at][n] \in Held => file[req[q].at][n] \in Held
  PROVE  req'[q].new.code # req'[q].old.code /\ Free(req[q])'
<1>1. req[q] \in Updates /\ req[q].new.code # req[q].old.code /\ Free(req[q])
  BY Shapes DEF TypeInv, Renaming
<1>2. req[q].new.code \in AllCodes /\ req[q].old.code \in AllCodes /\ Due(req[q]) \subseteq Kinds
  BY <1>1 DEF Updates, Metas, Due
<1>3. Due(req'[q]) = Due(req[q])
  BY DEF Due
<1> QED
  BY <1>1, <1>2, <1>3 DEF Free

\* When no file changes, only the request that steps has to be looked at.
LEMMA OneRenaming ==
  ASSUME Renaming, NEW r \in Requests, Alone(r), file' = file,
         req'[r].new.code # req'[r].old.code /\ Free(req[r])'
  PROVE  Renaming'
<1> SUFFICES ASSUME NEW q \in Requests, q # r, req'[q].pc \in {"list", "names"}
             PROVE  req'[q].new.code # req'[q].old.code /\ Free(req[q])'
  BY DEF Renaming
<1>1. req'[q] = req[q]
  BY DEF Alone
<1>2. req[q].new.code # req[q].old.code /\ Free(req[q])
  BY <1>1 DEF Renaming
<1> QED
  BY <1>1, <1>2 DEF Free, Due

LEMMA StepRenaming ==
  ASSUME TypeInv, [Next]_vars
  PROVE  Renaming'
<1> USE DEF TypeInv
<1>1. ASSUME NEW r \in Requests, Alone(r), req'[r].pc \notin {"list", "names"}, file' = file
      PROVE  Renaming'
  BY <1>1 DEF Renaming, Alone, Free, Due
<1>2. ASSUME NEW r \in Requests, \/ AskCreate(r) \/ AskUpdate(r) \/ AskRepair(r) \/ ReadCode(r) \/ MakeFolder(r)
                                 \/ FillFolder(r) \/ WriteMeta(r) \/ Sync(r) \/ Raise(r)
      PROVE  Renaming'
  <2>1. Alone(r) /\ req'[r].pc \notin {"list", "names"}
    BY <1>2, AsksOnly, ReadsOnly, MakesOnly, WritesOnly, FillsOnly, RaisesOnly DEF Same, Ended
  <2> QED
    BY <1>1, <1>2, <2>1, FilesSame
<1>3. ASSUME NEW r \in Requests, Write(r)
      PROVE  Renaming'
  <2>1. Alone(r) /\ req'[r].pc \notin {"list", "names"}
    BY <1>3, FillsOnly DEF Same, Ended
  <2>2. SUFFICES ASSUME NEW q \in Requests, q # r, req[q].pc \in {"list", "names"}
                 PROVE  req'[q].new.code # req'[q].old.code /\ Free(req[q])'
    BY <2>1 DEF Renaming, Alone, Free, Due
  <2>3. req'[q] = req[q] /\ req[q].at \in Titles
    BY <2>1, <2>2, Shapes DEF Alone, Updates
  <2>4. ASSUME NEW k \in Kinds, NEW c \in AllCodes
        PROVE  /\ file[req[q].at][<<c, k>>] # None => file'[req[q].at][<<c, k>>] # None
               /\ file'[req[q].at][<<c, k>>] \in Held => file[req[q].at][<<c, k>>] \in Held
    <3>1. <<c, k>> \in Names
      BY KindNames
    <3>2. file'[req[q].at][<<c, k>>] \in {r, file[req[q].at][<<c, k>>]}
      BY <1>3, <2>3, <3>1, WrittenFile
    <3>3. r \notin Held /\ r # None
      BY Nothing
    <3> QED
      BY <3>2, <3>3
  <2> QED
    BY <2>2, <2>3, <2>4, FreeKept
<1>4. ASSUME NEW r \in Requests, TakeUpdate(r)
      PROVE  Renaming'
  <2>1. file' = file /\ Alone(r)
    BY <1>4, TakesOnly DEF disk
  <2>2. CASE req'[r].pc \notin {"list", "names"}
    BY <1>1, <2>1, <2>2
  <2>3. CASE Took(r) /\ req'[r].pc = "list"
    <3> DEFINE t == req[r].at
               old == req'[r].old.code
               new == req'[r].new.code
    <3>1. new # old /\ Named(t, old) \cap Named(t, new) = {} /\ req'[r].checked = Named(t, old) /\ req'[r].at = t
      BY <2>3 DEF Took, Refused
    <3>2. \A k \in req'[r].checked : file'[t][<<old, k>>] # None /\ file'[t][<<new, k>>] \notin Held
      BY <2>1, <3>1, Nothing DEF Named
    <3>3. Free(req[r])'
      BY <2>3, <3>1, <3>2 DEF Free, Due
    <3> QED
      BY <2>1, <2>3, <3>1, <3>3, OneRenaming DEF Took
  <2> QED
    BY <1>4, <2>2, <2>3, TakesOnly DEF Took
<1>5. ASSUME NEW r \in Requests, ListNames(r)
      PROVE  Renaming'
  <2>1. /\ Same(r) /\ Alone(r) /\ req[r] \in Updates /\ req[r].pc = "list" /\ req'[r].pc = "names" /\ file' = file
        /\ req'[r].left = Named(req[r].at, req[r].old.code)
        /\ req'[r].old = req[r].old /\ req'[r].new = req[r].new /\ req'[r].checked = req[r].checked /\ req'[r].at = req[r].at
    BY <1>5, ListsOnly DEF Same, disk
  <2>2. req[r].new.code # req[r].old.code /\ Free(req[r])
    BY <2>1 DEF Renaming
  <2>3. \A k \in req'[r].left : file[req[r].at][<<req[r].old.code, k>>] # None
    BY <2>1 DEF Named
  <2>4. \A k \in req[r].checked : file[req[r].at][<<req[r].new.code, k>>] \notin Held
    BY <2>1, <2>2 DEF Free, Due
  <2>5. Free(req[r])'
    BY <2>1, <2>3, <2>4 DEF Free, Due
  <2> QED
    BY <2>1, <2>2, <2>5, OneRenaming
<1>6. ASSUME NEW r \in Requests, RenameFile(r)
      PROVE  Renaming'
  <2>1. Same(r) /\ Alone(r) /\ req[r] \in Updates /\ req[r].pc = "names" /\ Working(r)
    BY <1>6, RenamesOnly DEF Same, Working, Updates
  <2>2. CASE req'[r].pc = "meta" /\ file' = file
    BY <1>1, <2>1, <2>2
  <2>3. ASSUME NEW k \in Kinds, Renamed(r, k)
        PROVE  Renaming'
    <3>1. req[r].new.code # req[r].old.code /\ Free(req[r]) /\ k \in req[r].left
      BY <2>1, <2>3 DEF Renaming, Renamed
    <3>2. ASSUME NEW q \in Requests, q # r, req[q].pc \in {"list", "names"}
          PROVE  req'[q].new.code # req'[q].old.code /\ Free(req[q])'
      <4>1. req[q] \in Updates /\ Working(q) /\ req[q].at \in Titles
        BY <3>2, Shapes DEF Working, Updates
      <4>2. req[q].at # req[r].at
        BY <2>1, <3>2, <4>1, OneWorker
      <4>3. <<req[r].new.code, k>> \in Names
        BY <1>6, RenamesOnly, KindNames
      <4>4. file'[req[q].at] = file[req[q].at]
        BY <1>6, <2>3, <4>1, <4>2, <4>3, RenamedFiles
      <4> QED
        BY <2>1, <3>2, <4>4, FreeKept DEF Alone
    <3>3. Free(req[r])'
      <4>1. /\ req'[r].at = req[r].at /\ req'[r].old = req[r].old /\ req'[r].new = req[r].new
            /\ req'[r].checked = req[r].checked /\ req'[r].left = req[r].left \ {k} /\ req'[r].pc = "names"
        BY <2>1, <2>3 DEF Same, Renamed
      <4>2. SUFFICES ASSUME NEW j \in req[r].left, j # k
                     PROVE  /\ file'[req[r].at][<<req[r].old.code, j>>] # None
                            /\ j \in req[r].checked => file'[req[r].at][<<req[r].new.code, j>>] \notin Held
        BY <4>1 DEF Free, Due
      <4>3. <<req[r].new.code, j>> \in Names /\ <<req[r].old.code, j>> \in Names /\ req[r].at \in Titles
        BY <1>6, <2>1, RenamesOnly, KindNames DEF Updates
      <4>4. /\ file'[req[r].at][<<req[r].new.code, j>>] = file[req[r].at][<<req[r].new.code, j>>]
            /\ file'[req[r].at][<<req[r].old.code, j>>] = file[req[r].at][<<req[r].old.code, j>>]
        <5>1. \A c, d : <<c, j>> # <<d, k>>
          BY <4>2
        <5>2. ASSUME NEW n \in Names, n # <<req[r].new.code, k>>, n # <<req[r].old.code, k>>
              PROVE  file'[req[r].at][n] = file[req[r].at][n]
          BY <1>6, <2>3, <4>3, <5>2, RenamedElse
        <5> QED
          BY <4>3, <5>1, <5>2
      <4> QED
        BY <2>1, <3>1, <4>4 DEF Free, Due
    <3> QED
      BY <2>1, <3>1, <3>2, <3>3 DEF Renaming, Alone, Same, Free, Due
  <2> QED
    BY <1>6, <2>2, <2>3, RenamesOnly
<1>7. ASSUME NEW r \in Requests, MoveFolder(r)
      PROVE  Renaming'
  <2>1. Alone(r) /\ req'[r].pc \notin {"list", "names"} /\ Working(r)
    BY <1>7, MovesOnly DEF Ended, Over
  <2>2. CASE UNCHANGED disk
    BY <1>1, <2>1, <2>2 DEF disk
  <2>3. CASE MovedTo(r)
    <3>1. SUFFICES ASSUME NEW q \in Requests, q # r, req[q].pc \in {"list", "names"}
                   PROVE  req'[q].new.code # req'[q].old.code /\ Free(req[q])'
      BY <2>1 DEF Renaming, Alone, Free, Due
    <3>2. req[q] \in Updates /\ Working(q) /\ req[q].at # req[r].at /\ req[q].at \in Titles /\ req'[q] = req[q]
      BY <2>1, <3>1, Shapes, OneWorker DEF Working, Updates, Alone
    <3>3. CASE req[q].at # req[r].to
      <4>1. file'[req[q].at] = file[req[q].at]
        BY <1>7, <2>3, <3>2, <3>3, MovedFiles
      <4> QED
        BY <3>1, <3>2, <4>1, FreeKept
    <3>4. CASE req[q].at = req[r].to
      <4>1. file[req[q].at] = NoFiles /\ req[q].new.code # req[q].old.code /\ Free(req[q])
        BY <1>7, <2>3, <3>1, <3>4, MovedFiles DEF Renaming
      <4>2. Due(req[q]) = {}
        <5>1. \A k \in Due(req[q]) : <<req[q].old.code, k>> \in Names
          BY <3>2, KindNames DEF Updates, Metas, Due
        <5> QED
          BY <4>1, <5>1 DEF Free, NoFiles
      <4> QED
        BY <3>2, <4>1, <4>2 DEF Free, Due
    <3> QED
      BY <3>3, <3>4
  <2> QED
    BY <1>7, <2>2, <2>3, MovesOrNot
<1>8. ASSUME NEW g \in Groups, CreateGroup(g)
      PROVE  Renaming'
  BY <1>8 DEF CreateGroup, Renaming, Free, Due, disk
<1>9. CASE UNCHANGED vars
  BY <1>9 DEF vars, Renaming, Free, Due, disk
<1> QED
  BY <1>2, <1>3, <1>4, <1>5, <1>6, <1>7, <1>8, <1>9 DEF Next, Step

LEMMA InitInv == Init => TypeInv
<1> SUFFICES ASSUME Init
             PROVE  TypeInv
  OBVIOUS
<1>1. Locked /\ Stand /\ Renaming
  BY Nothing DEF Init, Locked, Stand, Renaming, Working
<1>2. ASSUME NEW t \in Titles, t \notin DOMAIN Founded
      PROVE  meta[t] = None /\ file[t] = NoFiles
  <2>1. meta[t] = None
    BY <1>2 DEF Init
  <2>2. file[t] = [n \in Names |-> IF t \in DOMAIN Founded /\ n[1] = Founded[t] THEN t
                                  ELSE IF <<t, n[1], n[2]>> = Stray THEN "stray" ELSE None]
    BY DEF Init
  <2>3. \A n \in Names : file[t][n] = None
    BY <1>2, <2>2, StrayAssumption
  <2> QED
    BY <2>1, <2>2, <2>3 DEF NoFiles
<1>3. Full
  BY <1>2 DEF Full, Init
<1> QED
  BY <1>1, <1>3, InitTypes DEF TypeInv

LEMMA StepInv == TypeInv /\ [Next]_vars => TypeInv'
BY StepTypes, StepLocked, StepFull, StepStand, StepRenaming DEF TypeInv


-----------------------------------------------------------------------------
(* What one step does to the texts.                                         *)

\* A step that changes the files writes one, renames one or renames a folder.
LEMMA FileSteps ==
  ASSUME TypeInv, [Next]_vars
  PROVE  \/ file' = file
         \/ \E r \in Requests : Write(r)
         \/ \E r \in Requests, k \in Kinds : RenameFile(r) /\ Renamed(r, k)
         \/ \E r \in Requests : MoveFolder(r) /\ MovedTo(r)
<1>1. ASSUME NEW r \in Requests, \/ AskCreate(r) \/ AskUpdate(r) \/ AskRepair(r) \/ ReadCode(r) \/ MakeFolder(r)
                                 \/ FillFolder(r) \/ WriteMeta(r) \/ Sync(r) \/ TakeUpdate(r) \/ ListNames(r) \/ Raise(r)
      PROVE  file' = file
  BY <1>1, FilesSame DEF TypeInv
<1>2. ASSUME NEW r \in Requests, RenameFile(r)
      PROVE  file' = file \/ \E k \in Kinds : Renamed(r, k)
  BY <1>2, RenamesOnly DEF TypeInv
<1>3. ASSUME NEW r \in Requests, MoveFolder(r)
      PROVE  file' = file \/ MovedTo(r)
  BY <1>3, MovesOrNot DEF disk
<1>4. ASSUME \E g \in Groups : CreateGroup(g)
      PROVE  file' = file
  BY <1>4 DEF CreateGroup, disk
<1>5. ASSUME UNCHANGED vars
      PROVE  file' = file
  BY <1>5 DEF vars, disk
<1> QED
  BY <1>1, <1>2, <1>3, <1>4, <1>5 DEF Next, Step

\* A rename keeps the text it renames and destroys at most the one that has the new name.
LEMMA RenameKeeps ==
  ASSUME TypeInv, NEW r \in Requests, NEW k \in Kinds, RenameFile(r), Renamed(r, k), NEW u \in Titles, NEW n \in Names
  PROVE  \/ file'[u][n] = file[u][n]
         \/ n[2] = k /\ u = req[r].at /\ <<req[r].new.code, k>> \in Names /\ file'[u][<<req[r].new.code, k>>] = file[u][n]
         \/ u = req[r].at /\ n = <<req[r].new.code, k>>
<1>1. <<req[r].new.code, k>> \in Names /\ req[r].at \in Titles
  BY RenamesOnly, KindNames DEF TypeInv
<1>2. file'[req[r].at][<<req[r].new.code, k>>] = file[req[r].at][<<req[r].old.code, k>>]
  BY <1>1, RenamedFiles DEF TypeInv
<1>3. CASE u = req[r].at /\ n = <<req[r].new.code, k>>
  BY <1>3
<1>4. CASE u = req[r].at /\ n = <<req[r].old.code, k>>
  <2>1. n[2] = k
    BY <1>4
  <2> QED
    BY <1>1, <1>2, <1>4, <2>1
<1>5. CASE ~(u = req[r].at /\ n = <<req[r].new.code, k>>) /\ ~(u = req[r].at /\ n = <<req[r].old.code, k>>)
  BY <1>5, RenamedElse DEF TypeInv
<1> QED
  BY <1>3, <1>4, <1>5

LEMMA StepTexts ==
  ASSUME TypeInv, [Next]_vars
  PROVE  \A x \in Texts(file) \ Texts(file') : \E r \in Requests : Overtaken(r, x) /\ req'[r] # req[r]
<1> USE DEF TypeInv
<1>1. SUFFICES ASSUME NEW u \in Titles, NEW n \in Names, file[u][n] \in Held, n[2] \in Kinds
               PROVE  \/ \E v \in Titles, m \in Names : file'[v][m] = file[u][n] /\ m[2] = n[2]
                      \/ \E r \in Requests : Overtaken(r, <<file[u][n], n[2]>>) /\ req'[r] # req[r]
  BY DEF Texts, Names
<1>2. CASE file'[u][n] = file[u][n]
  BY <1>1, <1>2
<1>3. ASSUME NEW r \in Requests, Write(r), file'[u][n] # file[u][n]
      PROVE  Overtaken(r, <<file[u][n], n[2]>>) /\ req'[r] # req[r]
  <2>1. u = req[r].at /\ n = <<req[r].new.code, "memory">>
    BY <1>3, WrittenFile
  <2>2. n[2] = "memory"
    BY <2>1
  <2>3. req[r].pc = "write" /\ req'[r].pc # "write"
    BY <1>3, FillsOnly
  <2> QED
    BY <2>1, <2>2, <2>3 DEF Overtaken
<1>4. ASSUME NEW r \in Requests, NEW k \in Kinds, RenameFile(r), Renamed(r, k), u = req[r].at, n = <<req[r].new.code, k>>
      PROVE  Overtaken(r, <<file[u][n], n[2]>>) /\ req'[r] # req[r]
  <2>1. n[2] = k
    BY <1>4
  <2>2. req[r].pc = "names" /\ k \in req[r].left /\ req'[r].left # req[r].left
    BY <1>4, RenamesOnly DEF Renamed
  <2>3. Free(req[r]) /\ Due(req[r]) = req[r].left
    BY <2>2 DEF Renaming, Due
  <2>4. k \notin req[r].checked
    BY <1>1, <1>4, <2>2, <2>3 DEF Free
  <2> QED
    BY <1>4, <2>1, <2>2, <2>4 DEF Overtaken
<1>5. ASSUME NEW r \in Requests, MoveFolder(r), MovedTo(r)
      PROVE  \E v \in Titles, m \in Names : file'[v][m] = file[u][n] /\ m[2] = n[2]
  <2>1. file[u] # NoFiles
    BY <1>1, Nothing DEF NoFiles
  <2>2. u # req[r].to
    BY <1>5, <2>1, MovedFiles
  <2>3. CASE u = req[r].at
    BY <1>5, <2>3, MovedFiles
  <2>4. CASE u # req[r].at
    BY <1>5, <2>2, <2>4, MovedFiles
  <2> QED
    BY <2>3, <2>4
<1>6. ASSUME NEW r \in Requests, NEW k \in Kinds, RenameFile(r), Renamed(r, k), n[2] = k, <<req[r].new.code, k>> \in Names,
             file'[u][<<req[r].new.code, k>>] = file[u][n]
      PROVE  \E v \in Titles, m \in Names : file'[v][m] = file[u][n] /\ m[2] = n[2]
  BY <1>6
<1>7. CASE file' = file
  BY <1>2, <1>7
<1>8. CASE \E r \in Requests : Write(r)
  BY <1>2, <1>3, <1>8
<1>9. ASSUME NEW r \in Requests, NEW k \in Kinds, RenameFile(r), Renamed(r, k)
      PROVE  \/ \E v \in Titles, m \in Names : file'[v][m] = file[u][n] /\ m[2] = n[2]
             \/ Overtaken(r, <<file[u][n], n[2]>>) /\ req'[r] # req[r]
  <2>1. CASE file'[u][n] = file[u][n]
    BY <1>2, <2>1
  <2>2. CASE n[2] = k /\ <<req[r].new.code, k>> \in Names /\ file'[u][<<req[r].new.code, k>>] = file[u][n]
    BY <1>6, <1>9, <2>2
  <2>3. CASE u = req[r].at /\ n = <<req[r].new.code, k>>
    BY <1>4, <1>9, <2>3
  <2> QED
    BY <1>9, <2>1, <2>2, <2>3, RenameKeeps
<1> QED
  BY <1>5, <1>7, <1>8, <1>9, FileSteps

-----------------------------------------------------------------------------
(* Where the texts of a project are after a step.                           *)

\* A folder that has a text of the project had one before, or is what such a folder is
\* renamed to.
LEMMA HomesAfter ==
  ASSUME TypeInv, [Next]_vars, NEW o \in Origins, NEW h \in Homes(o)'
  PROVE  /\ h \in Titles
         /\ \/ h \in Homes(o) /\ \A r \in Requests : MoveFolder(r) /\ MovedTo(r) => req[r].at # h
            \/ \E r \in Requests : MoveFolder(r) /\ MovedTo(r) /\ h = req[r].to /\ req[r].at \in Homes(o)
<1> USE DEF TypeInv
<1>1. o \in Held /\ o # None /\ o \notin Requests
  BY Nothing
<1>2. h \in Titles
  BY DEF Homes
<1>3. PICK n \in Names : file'[h][n] = o
  BY DEF Homes
<1>4. ASSUME NEW r \in Requests, MoveFolder(r), MovedTo(r)
      PROVE  /\ req[r].at # h
             /\ h \in Homes(o) \/ (h = req[r].to /\ req[r].at \in Homes(o))
  <2>1. req[r].at # h
    BY <1>1, <1>3, <1>4, MovedFiles DEF NoFiles
  <2>2. CASE h = req[r].to
    BY <1>3, <1>4, <2>2, MovedFiles DEF Homes
  <2>3. CASE h # req[r].to
    BY <1>2, <1>3, <1>4, <2>1, <2>3, MovedFiles DEF Homes
  <2> QED
    BY <2>1, <2>2, <2>3
<1>5. ASSUME NEW r \in Requests, Write(r)
      PROVE  h \in Homes(o)
  BY <1>1, <1>2, <1>3, <1>5, WrittenFile DEF Homes
<1>6. ASSUME NEW r \in Requests, NEW k \in Kinds, RenameFile(r), Renamed(r, k)
      PROVE  h \in Homes(o)
  <2>1. <<req[r].old.code, k>> \in Names
    BY <1>6, RenamesOnly, KindNames
  <2>2. file'[h][n] \in {file[h][n], file[h][<<req[r].old.code, k>>], None}
    BY <1>2, <1>6, RenamedFiles
  <2> QED
    BY <1>1, <1>2, <1>3, <2>1, <2>2 DEF Homes
<1>7. ASSUME file' = file
      PROVE  h \in Homes(o)
  BY <1>2, <1>3, <1>7 DEF Homes
<1>8. CASE \E r \in Requests : MoveFolder(r) /\ MovedTo(r)
  <2>1. PICK r \in Requests : MoveFolder(r) /\ MovedTo(r)
    BY <1>8
  <2>2. CASE h = req[r].to /\ req[r].at \in Homes(o)
    BY <1>2, <2>1, <2>2
  <2>3. CASE h \in Homes(o)
    <3>1. \A q \in Requests : MoveFolder(q) /\ MovedTo(q) => req[q].at # h
      BY <1>4
    <3> QED
      BY <1>2, <2>3, <3>1
  <2> QED
    BY <1>4, <2>1, <2>2, <2>3
<1>9. CASE ~\E r \in Requests : MoveFolder(r) /\ MovedTo(r)
  <2>1. h \in Homes(o)
    BY <1>5, <1>6, <1>7, <1>9, FileSteps
  <2> QED
    BY <1>2, <1>9, <2>1
<1> QED
  BY <1>8, <1>9

LEMMA CrossedGrows ==
  ASSUME [Next]_vars
  PROVE  crossed \subseteq crossed'
BY DEF Next, Step, AskCreate, AskUpdate, AskRepair, ReadCode, MakeFolder, FillFolder, WriteMeta, Sync, Write, TakeUpdate,
       ListNames, RenameFile, MoveFolder, Raise, CreateGroup, vars

LEMMA OneMover ==
  ASSUME TypeInv, NEW q \in Requests, NEW r \in Requests, MoveFolder(q), MoveFolder(r), req[q].at = req[r].at
  PROVE  q = r
BY MovesOnly, OneWorker DEF TypeInv

LEMMA StepOneHome ==
  ASSUME TypeInv, OneHome, [Next]_vars
  PROVE  OneHome'
<1>1. SUFFICES ASSUME NEW o \in Origins, NEW t \in Homes(o)', NEW u \in Homes(o)'
               PROVE  t = u
  BY DEF OneHome
<1>2. \A v, w \in Homes(o) : v = w
  BY DEF OneHome
<1>3. CASE t \in Homes(o) /\ \A r \in Requests : MoveFolder(r) /\ MovedTo(r) => req[r].at # t
  BY <1>2, <1>3, HomesAfter
<1>4. ASSUME NEW r \in Requests, MoveFolder(r), MovedTo(r), t = req[r].to, req[r].at \in Homes(o)
      PROVE  t = u
  <2>1. ASSUME NEW q \in Requests, MoveFolder(q), MovedTo(q), u = req[q].to, req[q].at \in Homes(o)
        PROVE  t = u
    BY <1>2, <1>4, <2>1, OneMover
  <2>2. CASE u \in Homes(o) /\ \A q \in Requests : MoveFolder(q) /\ MovedTo(q) => req[q].at # u
    BY <1>2, <1>4, <2>2
  <2> QED
    BY <2>1, <2>2, HomesAfter
<1> QED
  BY <1>3, <1>4, HomesAfter

\* The memory of a project after a step is the one that was there, renamed perhaps.
LEMMA StepOneMemory ==
  ASSUME TypeInv, OneMemory, [Next]_vars
  PROVE  /\ OneMemory'
         /\ \A o \in Origins : HasMemory(o)' => HasMemory(o)
<1> USE DEF TypeInv
<1>1. SUFFICES ASSUME NEW o \in Origins, NEW t \in Titles, NEW c \in AllCodes, Memory(t, c)' = o
               PROVE  /\ HasMemory(o)
                      /\ \A u \in Titles, d \in AllCodes : Memory(u, d)' = o => t = u /\ c = d
  BY DEF OneMemory, HasMemory
<1>2. o \in Held /\ o # None /\ o \notin Requests
  BY Nothing
<1>3. ASSUME \A u \in Titles, d \in AllCodes : Memory(u, d)' = o => Memory(u, d) = o
      PROVE  /\ HasMemory(o)
             /\ \A u \in Titles, d \in AllCodes : Memory(u, d)' = o => t = u /\ c = d
  BY <1>1, <1>3 DEF OneMemory, HasMemory
<1>4. CASE file' = file
  BY <1>3, <1>4 DEF Memory
<1>5. ASSUME NEW r \in Requests, Write(r), NEW u \in Titles, NEW d \in AllCodes, Memory(u, d)' = o
      PROVE  Memory(u, d) = o
  <2>1. <<d, "memory">> \in Names
    BY KindNames DEF Kinds
  <2> QED
    BY <1>2, <1>5, <2>1, WrittenFile DEF Memory
<1>6. ASSUME NEW r \in Requests, NEW k \in Kinds, RenameFile(r), Renamed(r, k)
      PROVE  /\ HasMemory(o)
             /\ \A u \in Titles, d \in AllCodes : Memory(u, d)' = o => t = u /\ c = d
  <2> DEFINE new == req[r].new.code
             old == req[r].old.code
             at  == req[r].at
  <2>1. new \in AllCodes /\ old \in AllCodes /\ at \in Titles /\ new # old
    BY <1>6, RenamesOnly DEF Renaming
  <2>2. ASSUME NEW u \in Titles, NEW d \in AllCodes
        PROVE  Memory(u, d)' = IF k = "memory" /\ u = at /\ d = new THEN Memory(u, old)
                               ELSE IF k = "memory" /\ u = at /\ d = old THEN None
                               ELSE Memory(u, d)
    <3>1. <<d, "memory">> \in Names
      BY KindNames DEF Kinds
    <3>2. /\ <<d, "memory">> = <<new, k>> <=> d = new /\ k = "memory"
          /\ <<d, "memory">> = <<old, k>> <=> d = old /\ k = "memory"
      OBVIOUS
    <3>3. file'[u][<<d, "memory">>] = IF u = at /\ <<d, "memory">> = <<new, k>> THEN file[u][<<old, k>>]
                                      ELSE IF u = at /\ <<d, "memory">> = <<old, k>> THEN None
                                      ELSE file[u][<<d, "memory">>]
      BY <1>6, <3>1, RenamedFiles
    <3> HIDE DEF new, old, at
    <3> QED
      BY <3>2, <3>3 DEF Memory
  <2> HIDE DEF new, old, at
  <2>3. ASSUME NEW u \in Titles, NEW d \in AllCodes, Memory(u, d)' = o
        PROVE  IF k = "memory" /\ u = at /\ d = new THEN Memory(at, old) = o
               ELSE Memory(u, d) = o /\ ~(k = "memory" /\ u = at /\ d = old)
    BY <1>2, <2>2, <2>3
  <2>4. HasMemory(o)
    BY <1>1, <2>1, <2>3 DEF HasMemory
  <2>5. ASSUME NEW u \in Titles, NEW d \in AllCodes, Memory(u, d)' = o
        PROVE  t = u /\ c = d
    <3>1. \A v, w \in Titles, e, f \in AllCodes : Memory(v, e) = o /\ Memory(w, f) = o => v = w /\ e = f
      BY DEF OneMemory
    <3>2. CASE k = "memory" /\ u = at /\ d = new
      BY <1>1, <2>1, <2>3, <2>5, <3>1, <3>2
    <3>3. CASE k = "memory" /\ t = at /\ c = new
      BY <1>1, <2>1, <2>3, <2>5, <3>1, <3>3
    <3>4. CASE ~(k = "memory" /\ u = at /\ d = new) /\ ~(k = "memory" /\ t = at /\ c = new)
      BY <1>1, <2>3, <2>5, <3>1, <3>4
    <3> QED
      BY <3>2, <3>3, <3>4
  <2> QED
    BY <2>4, <2>5
<1>7. ASSUME NEW r \in Requests, MoveFolder(r), MovedTo(r)
      PROVE  /\ HasMemory(o)
             /\ \A u \in Titles, d \in AllCodes : Memory(u, d)' = o => t = u /\ c = d
  <2> DEFINE at == req[r].at
             to == req[r].to
  <2>1. at \in Titles /\ to \in Titles /\ at # to
    BY <1>7, MovedFiles
  <2>2. ASSUME NEW u \in Titles, NEW d \in AllCodes, Memory(u, d)' = o
        PROVE  IF u = to THEN Memory(at, d) = o ELSE Memory(u, d) = o /\ u # at
    <3>1. <<d, "memory">> \in Names
      BY KindNames DEF Kinds
    <3>2. NoFiles[<<d, "memory">>] # o
      BY <1>2, <3>1 DEF NoFiles
    <3> QED
      BY <1>7, <2>2, <3>2, MovedFiles DEF Memory
  <2> HIDE DEF at, to
  <2>3. HasMemory(o)
    BY <1>1, <2>1, <2>2 DEF HasMemory
  <2>4. ASSUME NEW u \in Titles, NEW d \in AllCodes, Memory(u, d)' = o
        PROVE  t = u /\ c = d
    BY <1>1, <2>1, <2>2, <2>4 DEF OneMemory
  <2> QED
    BY <2>3, <2>4
<1> QED
  BY <1>3, <1>4, <1>5, <1>6, <1>7, FileSteps

\* An update at work has just begun, or goes on with what it began.
LEMMA WorksOn ==
  ASSUME TypeInv, [Next]_vars, NEW r \in Requests, Working(r)'
  PROVE  \/ TakeUpdate(r) /\ Took(r)
         \/ /\ Working(r) /\ req'[r].of = req[r].of /\ req'[r].at = req[r].at
            /\ req'[r].want = req[r].want /\ req'[r].new = req[r].new /\ ~MoveFolder(r)
<1> USE DEF TypeInv
<1>1. ASSUME NEW q \in Requests, q # r, Alone(q), ~MoveFolder(r)
      PROVE  /\ Working(r) /\ req'[r].of = req[r].of /\ req'[r].at = req[r].at
             /\ req'[r].want = req[r].want /\ req'[r].new = req[r].new /\ ~MoveFolder(r)
  BY <1>1 DEF Alone, Working
<1>2. ~MoveFolder(r)
  BY MovesOnly DEF Ended, Over, Working
<1>3. CASE \E q \in Requests : q # r /\ Alone(q)
  BY <1>1, <1>2, <1>3
<1>4. CASE TakeUpdate(r)
  BY <1>4, TakesOnly DEF Working
<1>5. CASE AskCreate(r) \/ AskUpdate(r) \/ AskRepair(r) \/ ReadCode(r) \/ MakeFolder(r) \/ FillFolder(r) \/ Raise(r)
  <2>1. ~(AskCreate(r) \/ AskUpdate(r) \/ AskRepair(r))
    BY AsksOnly DEF Working
  <2>2. ~ReadCode(r)
    BY ReadsOnly DEF Working
  <2>3. ~(MakeFolder(r) \/ FillFolder(r))
    BY MakesOnly DEF Working, Same, Ended, Creates
  <2>4. ~Raise(r)
    BY RaisesOnly DEF Working
  <2> QED
    BY <1>5, <2>1, <2>2, <2>3, <2>4
<1>6. CASE WriteMeta(r) \/ Sync(r) \/ Write(r) \/ ListNames(r) \/ RenameFile(r)
  <2>1. Same(r) /\ req[r].pc \in {"meta", "sync", "write", "list", "names"}
    BY <1>6, WritesOnly, FillsOnly, ListsOnly, RenamesOnly DEF Working, Ended, Over
  <2>2. Working(r)
    BY <2>1 DEF Working, Same
  <2>3. req[r] \in Updates
    BY <2>2, Shapes
  <2> QED
    BY <1>2, <2>1, <2>2, <2>3 DEF Same
<1>7. CASE UNCHANGED req
  BY <1>2, <1>7 DEF Working
<1>8. ASSUME NEW q \in Requests, AskCreate(q) \/ AskUpdate(q) \/ AskRepair(q) \/ Step(q) \/ Raise(q)
      PROVE  Alone(q)
  BY <1>8, AsksOnly, ReadsOnly, MakesOnly, WritesOnly, FillsOnly, TakesOnly, ListsOnly, RenamesOnly, MovesOnly, RaisesOnly
     DEF Step, Same, Ended
<1> QED
  BY <1>2, <1>3, <1>4, <1>5, <1>6, <1>7, <1>8 DEF Next, Step, CreateGroup, vars

LEMMA StepOfHome ==
  ASSUME TypeInv, OneHome, OfHome, [Next]_vars
  PROVE  OfHome'
<1> USE DEF TypeInv
<1>1. SUFFICES ASSUME NEW r \in Requests, Working(r)', NEW o \in Origins, req'[r].of = o, NEW h \in Homes(o)'
               PROVE  h = req'[r].at
  BY DEF OfHome
<1>2. CASE Working(r) /\ req'[r].of = req[r].of /\ req'[r].at = req[r].at /\ ~MoveFolder(r)
  <2>1. Homes(o) \subseteq {req[r].at}
    BY <1>1, <1>2 DEF OfHome
  <2>2. ASSUME NEW q \in Requests, MoveFolder(q), req[q].at = req[r].at
        PROVE  FALSE
    BY <1>2, <2>2, MovesOnly, OneWorker
  <2> QED
    BY <1>1, <1>2, <2>1, <2>2, HomesAfter
<1>3. CASE TakeUpdate(r) /\ Took(r)
  <2>1. req[r].at \in Titles /\ file' = file /\ req'[r].at = req[r].at
    BY <1>3, TakesOnly DEF disk, Took
  <2>2. <<MetaOf(req[r].at).code, "memory">> \in Names
    BY <2>1, MetaOfType, KindNames DEF Metas, AllCodes, Kinds
  <2>3. req[r].at \in Homes(o)
    BY <1>1, <1>3, <2>1, <2>2 DEF Took, Homes, Memory
  <2>4. h \in Homes(o)
    BY <2>1 DEF Homes
  <2> QED
    BY <2>1, <2>3, <2>4 DEF OneHome
<1> QED
  BY <1>1, <1>2, <1>3, WorksOn

LEMMA StepArchiving ==
  ASSUME TypeInv, Archiving, [Next]_vars
  PROVE  Archiving'
<1> USE DEF TypeInv
<1>1. SUFFICES ASSUME NEW r \in Requests, Working(r)', req'[r].want.status = "archived"
               PROVE  req'[r].new.status = "archived"
  BY DEF Archiving
<1>2. CASE Working(r) /\ req'[r].want = req[r].want /\ req'[r].new = req[r].new
  BY <1>1, <1>2 DEF Archiving
<1>3. CASE TakeUpdate(r) /\ Took(r)
  <2>1. req[r].at \in Titles /\ req[r] \in Waits
    BY <1>3, TakesOnly
  <2>2. MetaOf(req[r].at) \in Metas /\ req[r].want \in Wants
    BY <2>1, MetaOfType DEF Waits
  <2> QED
    BY <1>1, <1>3, <2>2, WantedType DEF Took
<1> QED
  BY <1>1, <1>2, <1>3, WorksOn

\* Who is a repair remains one.
LEMMA RepairsGrow ==
  ASSUME TypeInv, [Next]_vars
  PROVE  Repairs \subseteq Repairs'
<1> USE DEF TypeInv
<1>1. SUFFICES ASSUME NEW r \in Requests, req[r].pc # "idle", req[r].kind = "repair"
               PROVE  req'[r].pc # "idle" /\ req'[r].kind = "repair"
  BY DEF Repairs
<1>2. ASSUME NEW q \in Requests, q # r, Alone(q)
      PROVE  req'[r].pc # "idle" /\ req'[r].kind = "repair"
  BY <1>1, <1>2 DEF Alone
<1>3. CASE AskCreate(r) \/ AskUpdate(r) \/ AskRepair(r) \/ TakeUpdate(r)
  BY <1>1, <1>3, AsksOnly, TakesOnly DEF Waits
<1>4. CASE MakeFolder(r) \/ FillFolder(r) \/ WriteMeta(r) \/ ListNames(r) \/ RenameFile(r) \/ MoveFolder(r)
  BY <1>1, <1>4, MakesOnly, WritesOnly, ListsOnly, RenamesOnly, MovesOnly DEF Creates, Updates
<1>5. CASE ReadCode(r)
  BY <1>5, ReadsOnly
<1>6. CASE Sync(r) \/ Write(r)
  BY <1>1, <1>6, FillsOnly DEF Same, Ended, Over
<1>7. CASE Raise(r)
  BY <1>1, <1>7, RaisesOnly DEF Ended
<1>8. CASE UNCHANGED req
  BY <1>1, <1>8
<1>9. ASSUME NEW q \in Requests, AskCreate(q) \/ AskUpdate(q) \/ AskRepair(q) \/ Step(q) \/ Raise(q)
      PROVE  Alone(q)
  BY <1>9, AsksOnly, ReadsOnly, MakesOnly, WritesOnly, FillsOnly, TakesOnly, ListsOnly, RenamesOnly, MovesOnly, RaisesOnly
     DEF Step, Same, Ended
<1> QED
  BY <1>2, <1>3, <1>4, <1>5, <1>6, <1>7, <1>8, <1>9 DEF Next, Step, CreateGroup, vars

-----------------------------------------------------------------------------
(* A home of a project after a step that leaves it where it is.             *)

\* The step of r leaves the home as it was: who works there, and with what.  As long as
\* none has raised and the memory of the project is not destroyed, it stays, and nothing
\* comes to the home but the memory of a repair.
Undisturbed(r, o, h) ==
    /\ Alone(r) /\ req[r].pc \notin Over /\ meta'[h] = meta[h]
    /\ (Sound' /\ HasMemory(o)') =>
         /\ \A c \in AllCodes : /\ Memory(h, c) = o => Memory(h, c)' = o
                                /\ Memory(h, c)' \in {Memory(h, c)} \cup Repairs'
         /\ r \in AtWork(h)' => Lead(req'[r]) = Lead(req[r])
    /\ r \in AtWork(h)' => /\ r \in AtWork(h)
                           /\ req'[r].kind = req[r].kind /\ req'[r].new = req[r].new
                           /\ req'[r].pc \in {"sync", "write", "move"} => req[r].pc \in {"sync", "write", "move"}
    /\ r \in AtWork(h) => r \in AtWork(h)' \/ req'[r].pc = "failed"
    /\ ~ToldArchived(r, o)'

LEMMA WorkersAfter ==
  ASSUME NEW r \in Requests, NEW h, Alone(r)
  PROVE  \A q \in Requests \ {r} : q \in AtWork(h)' <=> q \in AtWork(h)
BY DEF Alone, AtWork

LEMMA LeadCodes ==
  ASSUME Types, NEW h \in Titles
  PROVE  /\ meta[h] # None => meta[h] \in Metas /\ meta[h].code \in AllCodes
         /\ \A q \in AtWork(h) : req[q].kind = "update" => req[q] \in Updates /\ Lead(req[q]) \in AllCodes
<1>1. meta[h] # None => meta[h] \in Metas /\ meta[h].code \in AllCodes
  BY DEF Types, Metas
<1>2. ASSUME NEW q \in AtWork(h), req[q].kind = "update"
      PROVE  req[q] \in Updates /\ Lead(req[q]) \in AllCodes
  <2>1. req[q] \in Updates
    BY <1>2, Shapes DEF AtWork, Writing, Open, Working, Creates
  <2> QED
    BY <2>1 DEF Updates, Metas, Lead
<1> QED
  BY <1>1, <1>2

\* What was true before, if it is true that none has raised and the memory is there.
LEMMA Before ==
  ASSUME TypeInv, HomeInv, [Next]_vars, NEW o \in Origins, NEW h, HomeOf(o, h), Sound', HasMemory(o)',
         NEW r \in Requests, Alone(r), req[r].pc \notin Over
  PROVE  Leads(o, h) /\ Repairs \subseteq Repairs' /\ req'[r].pc # "failed"
<1>1. HasMemory(o) /\ Repairs \subseteq Repairs'
  BY StepOneMemory, RepairsGrow DEF HomeInv
<1>2. Sound /\ req'[r].pc # "failed"
  BY DEF Sound, Over, Alone
<1> QED
  BY <1>1, <1>2 DEF HomeOf

LEMMA UndisturbedHome ==
  ASSUME TypeInv, HomeInv, [Next]_vars, NEW r \in Requests, NEW o \in Origins, NEW h \in Titles, HomeOf(o, h),
         Undisturbed(r, o, h)
  PROVE  HomeOf(o, h)'
<1>1. /\ Alone(r) /\ req[r].pc \notin Over /\ meta'[h] = meta[h]
      /\ (Sound' /\ HasMemory(o)') =>
           /\ \A c \in AllCodes : /\ Memory(h, c) = o => Memory(h, c)' = o
                                  /\ Memory(h, c)' \in {Memory(h, c)} \cup Repairs'
           /\ r \in AtWork(h)' => Lead(req'[r]) = Lead(req[r])
      /\ r \in AtWork(h)' => /\ r \in AtWork(h)
                             /\ req'[r].kind = req[r].kind /\ req'[r].new = req[r].new
                             /\ req'[r].pc \in {"sync", "write", "move"} => req[r].pc \in {"sync", "write", "move"}
      /\ r \in AtWork(h) => r \in AtWork(h)' \/ req'[r].pc = "failed"
      /\ ~ToldArchived(r, o)'
  BY DEF Undisturbed
<1>2. \A q \in Requests \ {r} : req'[q] = req[q] /\ (q \in AtWork(h)' <=> q \in AtWork(h))
  BY <1>1, WorkersAfter DEF Alone
<1>3. \A q \in AtWork(h)' : q \in AtWork(h) /\ q \in Requests
  BY <1>1, <1>2 DEF AtWork
<1>4. \A q \in AtWork(h)' : req'[q].kind = "update"
  BY <1>1, <1>2, <1>3 DEF HomeOf
<1>5. \A q \in AtWork(h)' : req'[q].pc \in {"sync", "write", "move"} => meta'[h] = req'[q].new
  BY <1>1, <1>2, <1>3 DEF HomeOf
<1>6. ASSUME Sound', HasMemory(o)'
      PROVE  Leads(o, h)'
  <2>1. Leads(o, h) /\ Repairs \subseteq Repairs' /\ req'[r].pc # "failed"
    BY <1>1, <1>6, Before
  <2>2. AtWork(h)' = AtWork(h)
    BY <1>1, <1>2, <1>3, <2>1 DEF AtWork
  <2>3. ASSUME NEW q \in AtWork(h)
        PROVE  Memory(h, Lead(req[q]))' = o
    <3>1. Lead(req'[q]) = Lead(req[q])
      BY <1>1, <1>2, <1>3, <1>6, <2>2
    <3>2. Lead(req[q]) \in AllCodes
      BY LeadCodes DEF HomeOf, TypeInv
    <3>3. file'[h][<<Lead(req[q]), "memory">>] = o
      BY <1>1, <1>6, <2>1, <3>2 DEF Leads, Memory
    <3> QED
      BY <3>1, <3>3 DEF Memory, Lead
  <2>4. AtWork(h) = {} => file'[h][<<meta'[h].code, "memory">>] = o
    BY <1>1, <1>6, <2>1, LeadCodes DEF Leads, TypeInv, Memory
  <2>5. Tidy(o, h)'
    BY <1>1, <1>6, <2>1 DEF Leads, Tidy
  <2> QED
    BY <1>1, <2>1, <2>2, <2>3, <2>4, <2>5 DEF Leads, Memory
<1>7. ASSUME NEW q \in Requests, ToldArchived(q, o)'
      PROVE  Archived(h)'
  <2>1. ToldArchived(q, o)
    BY <1>1, <1>2, <1>7 DEF ToldArchived
  <2>2. Archived(h)
    BY <2>1 DEF HomeOf
  <2>3. \A p \in AtWork(h)' : req'[p].new.status = "archived"
    BY <1>1, <1>2, <1>3, <2>2 DEF Archived
  <2> QED
    BY <1>1, <2>2, <2>3 DEF Archived
<1> QED
  BY <1>4, <1>5, <1>6, <1>7 DEF HomeOf

-----------------------------------------------------------------------------
(* The steps, at a home of a project that stays where it is.                *)

LEMMA InHome ==
  ASSUME TypeInv, NEW o \in Origins, NEW h \in Homes(o)
  PROVE  h \in Titles /\ h \in there \ bare
<1>1. PICK n \in Names : file[h][n] = o
  BY DEF Homes
<1>2. h \in Titles /\ file[h] # NoFiles
  BY <1>1, Nothing DEF Homes, NoFiles
<1> QED
  BY <1>2 DEF TypeInv, Full

LEMMA Worker ==
  ASSUME TypeInv, NEW o \in Origins, NEW h \in Titles, HomeOf(o, h), NEW q \in AtWork(h)
  PROVE  /\ q \in Requests /\ req[q] \in Updates /\ Working(q) /\ req[q].at = h /\ lock[h] = q
         /\ AtWork(h) = {q}
<1>1. ASSUME NEW p \in AtWork(h)
      PROVE  p \in Requests /\ Working(p) /\ req[p].at = h /\ req[p] \in Updates
  <2>1. p \in Requests /\ req[p].pc \in Writing /\ req[p].at = h /\ req[p].kind = "update"
    BY <1>1 DEF AtWork, HomeOf
  <2>2. req[p].pc # "fill"
    BY <2>1, Shapes DEF TypeInv, Creates
  <2>3. Working(p)
    BY <2>1, <2>2 DEF Working, Writing, Open
  <2> QED
    BY <2>1, <2>3, Shapes DEF TypeInv
<1>2. \A p \in AtWork(h) : p = q
  BY <1>1, OneWorker DEF TypeInv
<1>3. lock[h] = q
  BY <1>1 DEF TypeInv, Locked
<1> QED
  BY <1>1, <1>2, <1>3

LEMMA NotThere ==
  ASSUME NEW r \in Requests, NEW h
  PROVE  /\ req[r].at # h \/ req[r].pc \notin Writing \/ req[r].kind = "repair" => r \notin AtWork(h)
         /\ req'[r].at # h \/ req'[r].pc \notin Writing \/ req'[r].kind = "repair" => r \notin AtWork(h)'
         /\ req[r].at = h /\ req[r].pc \in Writing /\ req[r].kind # "repair" => r \in AtWork(h)
         /\ req'[r].at = h /\ req'[r].pc \in Writing /\ req'[r].kind # "repair" => r \in AtWork(h)'
BY DEF AtWork

\* A request that does not work there and leaves the files alone.
LEMMA Elsewhere ==
  ASSUME NEW r \in Requests, NEW o, NEW h, Alone(r), req[r].pc \notin Over,
         r \notin AtWork(h), r \notin AtWork(h)', ~ToldArchived(r, o)', meta'[h] = meta[h], file'[h] = file[h]
  PROVE  Undisturbed(r, o, h)
BY DEF Undisturbed, Memory

LEMMA AskHome ==
  ASSUME TypeInv, NEW o \in Origins, NEW h \in Titles, NEW r \in Requests,
         AskCreate(r) \/ AskUpdate(r) \/ AskRepair(r) \/ ReadCode(r)
  PROVE  Undisturbed(r, o, h)
<1>1. /\ Alone(r) /\ req[r].pc \in {"idle", "read"} /\ UNCHANGED disk
      /\ req'[r].pc \in {"mkdir", "wait", "read", "refused"} \/ (req'[r].pc = "sync" /\ req'[r].kind = "repair")
  BY AsksOnly, ReadsOnly DEF TypeInv
<1>2. r \notin AtWork(h) /\ r \notin AtWork(h)' /\ ~ToldArchived(r, o)' /\ req[r].pc \notin Over
  BY <1>1, NotThere DEF Over, Writing, Open, ToldArchived
<1> QED
  BY <1>1, <1>2, Elsewhere DEF disk

LEMMA MakeHome ==
  ASSUME TypeInv, NEW o \in Origins, NEW h \in Homes(o), HomeOf(o, h),
         NEW r \in Requests, MakeFolder(r) \/ FillFolder(r)
  PROVE  Undisturbed(r, o, h)
<1>1. /\ req[r] \in Creates /\ Alone(r) /\ req[r].pc \in {"mkdir", "fill"} /\ UNCHANGED <<meta, file>>
      /\ req'[r].pc \in {"refused", "failed", "fill", "meta"}
      /\ req'[r].pc \in {"fill", "meta"} => req'[r].at = req[r].at
  BY MakesOnly DEF TypeInv, Ended, Same
<1>2. req[r].pc \notin Over /\ ~ToldArchived(r, o)'
  BY <1>1 DEF Over, ToldArchived
<1>3. r \notin AtWork(h)
  BY <1>1 DEF HomeOf, Creates
<1>4. r \notin AtWork(h)'
  <2>1. CASE req[r].at # h
    BY <1>1, <2>1, NotThere DEF Writing, Open
  <2>2. CASE req[r].at = h /\ MakeFolder(r)
    BY <1>1, <2>2, InHome, MakesOnly, NotThere DEF TypeInv, Writing, Open
  <2>3. CASE req[r].at = h /\ FillFolder(r)
    <3>1. req[r].pc = "fill" /\ req[r].kind = "create"
      BY <1>1, <2>3 DEF FillFolder, Creates
    <3> QED
      BY <1>3, <2>3, <3>1, NotThere DEF Writing, Open
  <2> QED
    BY <2>1, <2>2, <2>3
<1> QED
  BY <1>1, <1>2, <1>3, <1>4, Elsewhere

LEMMA RaiseHome ==
  ASSUME TypeInv, NEW o \in Origins, NEW h \in Homes(o), HomeOf(o, h), NEW r \in Requests, Raise(r)
  PROVE  Undisturbed(r, o, h)
<1>1. Alone(r) /\ req[r].pc \in Open /\ req'[r].pc = "failed" /\ UNCHANGED <<meta, file>>
  BY RaisesOnly DEF TypeInv, Ended, disk
<1>2. r \notin AtWork(h)'
  BY <1>1, NotThere DEF Writing, Open
<1> QED
  BY <1>1, <1>2 DEF Undisturbed, ToldArchived, Over, Open, Memory

\* The memory a request makes, or writes over one: where the project's own is, it is the
\* end of it.
LEMMA WriteKeeps ==
  ASSUME TypeInv, HomeInv, NEW o \in Origins, NEW h \in Titles, NEW r \in Requests, Write(r), HasMemory(o)',
         NEW c \in AllCodes
  PROVE  /\ Memory(h, c) = o => Memory(h, c)' = o /\ ~(req[r].at = h /\ req[r].new.code = c)
         /\ Memory(h, c)' \in {Memory(h, c)} \cup {r}
         /\ req[r].at # h => Memory(h, c)' = Memory(h, c)
<1>1. <<c, "memory">> \in Names /\ r # o
  BY KindNames, Nothing DEF Kinds
<1>2. Memory(h, c)' = IF h = req[r].at /\ <<c, "memory">> = <<req[r].new.code, "memory">> THEN r ELSE Memory(h, c)
  BY <1>1, WrittenFile DEF Memory, TypeInv
<1>3. PICK u \in Titles, d \in AllCodes : Memory(u, d)' = o
  BY DEF HasMemory
<1>4. Memory(u, d) = o
  <2>1. <<d, "memory">> \in Names
    BY KindNames DEF Kinds
  <2> QED
    BY <1>1, <1>3, <2>1, WrittenFile DEF Memory, TypeInv
<1>5. Memory(h, c) = o => h = u /\ c = d
  BY <1>4 DEF HomeInv, OneMemory
<1>6. Memory(h, c) = o => Memory(h, c)' = o
  BY <1>3, <1>5
<1> QED
  BY <1>1, <1>2, <1>6

LEMMA FillHome ==
  ASSUME TypeInv, HomeInv, [Next]_vars, NEW o \in Origins, NEW h \in Homes(o), HomeOf(o, h),
         NEW r \in Requests, Sync(r) \/ Write(r)
  PROVE  Undisturbed(r, o, h)
<1>1. /\ Alone(r) /\ req[r].pc \in {"sync", "write"} /\ meta' = meta
      /\ req[r] \in Creates \/ req[r] \in Updates \/ req[r] \in Fixes
      /\ \/ Same(r) /\ req'[r].pc \in {"write", "move"}
         \/ req'[r].pc = "done" /\ req[r].kind # "update" /\ req'[r].kind = req[r].kind
      /\ ~ToldArchived(r, o)'
  BY FillsOnly DEF TypeInv, Ended, ToldArchived
<1>2. h \in Titles /\ req[r].pc \notin Over
  BY <1>1, InHome DEF Over
<1>3. r \in AtWork(h) => req[r] \in Updates
  BY <1>1, <1>2, LeadCodes DEF HomeOf, TypeInv
<1>4. r \in AtWork(h)' => /\ r \in AtWork(h) /\ req'[r].kind = req[r].kind /\ req'[r].new = req[r].new
                          /\ req'[r].pc \in {"sync", "write", "move"} /\ Lead(req'[r]) = Lead(req[r])
  BY <1>1 DEF AtWork, Same, Writing, Open, Lead
<1>5. r \in AtWork(h) => r \in AtWork(h)'
  BY <1>1, <1>3 DEF AtWork, Same, Writing, Open, Updates, HomeOf
<1>6. ASSUME Sound', HasMemory(o)', NEW c \in AllCodes
      PROVE  /\ Memory(h, c) = o => Memory(h, c)' = o
             /\ Memory(h, c)' \in {Memory(h, c)} \cup Repairs'
  <2>1. CASE Sync(r)
    <3>1. file' = file
      BY <2>1, FillsOnly DEF TypeInv
    <3> QED
      BY <3>1 DEF Memory
  <2>2. CASE Write(r)
    <3>1. Leads(o, h) /\ Repairs \subseteq Repairs'
      BY <1>1, <1>2, <1>6, Before
    <3>2. CASE req[r] \in Fixes
      <4>1. r \in Repairs
        BY <1>1, <3>2 DEF Fixes, Repairs
      <4> QED
        BY <1>2, <1>6, <2>2, <3>1, <4>1, WriteKeeps
    <3>3. CASE r \notin AtWork(h) /\ req[r] \notin Fixes
      <4>1. req[r].at # h
        BY <1>1, <3>3, NotThere DEF Creates, Updates, Writing, Open
      <4> QED
        BY <1>2, <1>6, <2>2, <4>1, WriteKeeps
    <3>4. CASE r \in AtWork(h)
      <4>1. req[r].at = h /\ Lead(req[r]) = req[r].new.code /\ req[r].new.code \in AllCodes
        BY <1>1, <1>3, <3>4 DEF AtWork, Lead, Updates, Metas
      <4>2. Memory(h, req[r].new.code) = o
        BY <3>1, <3>4, <4>1 DEF Leads
      <4> QED
        BY <1>2, <1>6, <2>2, <4>1, <4>2, WriteKeeps
    <3> QED
      BY <3>2, <3>3, <3>4
  <2> QED
    BY <2>1, <2>2
<1> QED
  BY <1>1, <1>2, <1>4, <1>5, <1>6 DEF Undisturbed

LEMMA ListHome ==
  ASSUME TypeInv, HomeInv, [Next]_vars, NEW o \in Origins, NEW h \in Homes(o), HomeOf(o, h),
         NEW r \in Requests, ListNames(r)
  PROVE  Undisturbed(r, o, h)
<1>1. /\ Alone(r) /\ Same(r) /\ req[r] \in Updates /\ req[r].pc = "list" /\ req'[r].pc = "names" /\ UNCHANGED disk
      /\ req'[r].left = Named(req[r].at, req[r].old.code) /\ req'[r].old = req[r].old
  BY ListsOnly DEF TypeInv, Same
<1>2. r \in AtWork(h)' <=> r \in AtWork(h)
  BY <1>1 DEF AtWork, Same, Writing, Open
<1>3. ASSUME Sound', HasMemory(o)', r \in AtWork(h)
      PROVE  Lead(req'[r]) = Lead(req[r])
  <2>1. Leads(o, h)
    BY <1>1, <1>3, Before DEF Over
  <2>2. Lead(req[r]) = req[r].old.code /\ req[r].at = h
    BY <1>1, <1>3 DEF Lead, AtWork
  <2>3. Memory(h, req[r].old.code) # None
    BY <1>3, <2>1, <2>2, Nothing DEF Leads
  <2>4. "memory" \in req'[r].left
    BY <1>1, <2>2, <2>3 DEF Named, Kinds, Memory
  <2> QED
    BY <1>1, <2>2, <2>4 DEF Lead
<1>4. ~ToldArchived(r, o)' /\ req[r].pc \notin Over
  BY <1>1 DEF ToldArchived, Over
<1> QED
  BY <1>1, <1>2, <1>3, <1>4 DEF Undisturbed, Same, disk, Memory

LEMMA WriteHome ==
  ASSUME TypeInv, HomeInv, [Next]_vars, NEW o \in Origins, NEW h \in Homes(o), HomeOf(o, h),
         NEW r \in Requests, WriteMeta(r)
  PROVE  HomeOf(o, h)'
<1>1. Same(r) /\ Alone(r) /\ req[r].pc = "meta" /\ req'[r].pc = "sync" /\ file' = file
  BY WritesOnly DEF TypeInv, WriteMeta, Same
<1>2. h \in Titles
  BY InHome
<1>3. meta' = [meta EXCEPT ![req[r].at] = req[r].new]
  BY DEF WriteMeta
<1>4. CASE req[r].at # h
  <2>1. meta'[h] = meta[h]
    BY <1>2, <1>3, <1>4 DEF TypeInv, Types
  <2>2. r \notin AtWork(h) /\ r \notin AtWork(h)' /\ ~ToldArchived(r, o)' /\ req[r].pc \notin Over
    BY <1>1, <1>4, NotThere DEF Same, Over, ToldArchived
  <2>3. Undisturbed(r, o, h)
    BY <1>1, <2>1, <2>2, Elsewhere
  <2> QED
    BY <1>2, <2>3, UndisturbedHome
<1>5. CASE req[r].at = h
  <2>0. req[r] \in Creates \/ req[r] \in Updates
    BY WritesOnly DEF TypeInv
  <2>1. r \in AtWork(h)
    BY <1>1, <1>5, <2>0, NotThere DEF Writing, Open, Creates, Updates
  <2>2. /\ req[r] \in Updates /\ Working(r) /\ AtWork(h) = {r}
    BY <1>2, <2>1, Worker
  <2>3. AtWork(h)' = {r}
    BY <1>1, <1>5, <2>2, WorkersAfter DEF AtWork, Same, Writing, Open, Updates
  <2>4. req'[r].kind = "update" /\ req'[r].new = req[r].new /\ meta'[h] = req[r].new /\ req[r].new \in Metas
    BY <1>1, <1>2, <1>3, <1>5, <2>2 DEF Same, Updates, TypeInv, Types
  <2>5. ASSUME Sound', HasMemory(o)'
        PROVE  Leads(o, h)'
    <3>1. Leads(o, h) /\ Repairs \subseteq Repairs'
      BY <1>1, <2>5, Before DEF Over
    <3>2. Lead(req[r]) = req[r].new.code /\ Lead(req'[r]) = req[r].new.code
      BY <1>1, <2>4 DEF Lead
    <3>3. file'[h][<<req[r].new.code, "memory">>] = o
      BY <1>1, <2>1, <3>1, <3>2 DEF Leads, Memory
    <3>4. Tidy(o, h)'
      BY <1>1, <3>1 DEF Leads, Tidy, Memory
    <3> QED
      BY <2>3, <2>4, <3>2, <3>3, <3>4, Nothing DEF Leads, Memory
  <2>6. ASSUME NEW q \in Requests, ToldArchived(q, o)'
        PROVE  Archived(h)'
    <3>1. ToldArchived(q, o)
      BY <1>1, <2>6 DEF ToldArchived, Alone
    <3>2. req[r].new.status = "archived"
      BY <2>1, <3>1 DEF HomeOf, Archived
    <3> QED
      BY <2>3, <2>4, <3>2, Nothing DEF Archived
  <2> QED
    BY <2>3, <2>4, <2>5, <2>6 DEF HomeOf
<1> QED
  BY <1>4, <1>5

LEMMA TakeHome ==
  ASSUME TypeInv, HomeInv, [Next]_vars, NEW o \in Origins, NEW h \in Homes(o), HomeOf(o, h),
         NEW r \in Requests, TakeUpdate(r)
  PROVE  HomeOf(o, h)'
<1>1. /\ Alone(r) /\ req[r] \in Waits /\ req[r].pc = "wait" /\ req[r].at \in Titles /\ UNCHANGED <<meta, file>>
      /\ req[r].pc \notin Over /\ r \notin AtWork(h)
  BY TakesOnly, NotThere DEF TypeInv, disk, Over, Writing
<1>2. h \in Titles
  BY InHome
<1>3. CASE req'[r].pc = "refused"
  <2>1. r \notin AtWork(h)' /\ ~ToldArchived(r, o)'
    BY <1>3, NotThere DEF Writing, Open, ToldArchived
  <2>2. Undisturbed(r, o, h)
    BY <1>1, <2>1, Elsewhere
  <2> QED
    BY <1>2, <2>2, UndisturbedHome
<1>4. CASE Took(r) /\ req[r].at # h
  <2>1. r \notin AtWork(h)' /\ ~ToldArchived(r, o)'
    BY <1>4, NotThere DEF Took, ToldArchived
  <2>2. Undisturbed(r, o, h)
    BY <1>1, <2>1, Elsewhere
  <2> QED
    BY <1>2, <2>2, UndisturbedHome
<1>5. CASE Took(r) /\ req[r].at = h
  <2>1. /\ lock[h] = None /\ req'[r] \in Updates /\ req'[r].at = h
        /\ req'[r].old = MetaOf(h) /\ req'[r].new = Wanted(MetaOf(h), req[r].want)
        /\ req'[r].pc = IF req'[r].new.code # req'[r].old.code THEN "list" ELSE "meta"
    BY <1>5 DEF Took
  <2>2. AtWork(h) = {}
    BY <1>2, <2>1, Worker, Nothing
  <2>3. req'[r].kind = "update" /\ req'[r].pc \notin {"sync", "write", "move"} /\ req'[r].pc \in Writing
    BY <2>1 DEF Updates, Writing, Open
  <2>4. AtWork(h)' = {r}
    BY <1>1, <2>1, <2>2, <2>3, WorkersAfter DEF AtWork
  <2>5. ASSUME Sound', HasMemory(o)'
        PROVE  Leads(o, h)'
    <3>1. Leads(o, h) /\ Repairs \subseteq Repairs'
      BY <1>1, <2>5, Before
    <3>2. meta[h] # None /\ file[h][<<meta[h].code, "memory">>] = o
      BY <2>2, <3>1 DEF Leads, Memory
    <3>3. MetaOf(h) = meta[h]
      BY <1>2, <3>2, MetaOfType DEF TypeInv
    <3>4. Lead(req'[r]) = meta[h].code
      BY <2>1, <3>3 DEF Lead
    <3>5. Tidy(o, h)'
      BY <1>1, <3>1 DEF Leads, Tidy, Memory
    <3> QED
      BY <1>1, <2>4, <3>2, <3>4, <3>5 DEF Leads, Memory
  <2>6. ASSUME NEW q \in Requests, ToldArchived(q, o)'
        PROVE  Archived(h)'
    <3>1. ToldArchived(q, o)
      BY <1>1, <2>1, <2>6 DEF ToldArchived, Alone
    <3>2. meta[h] # None /\ meta[h].status = "archived"
      BY <3>1 DEF HomeOf, Archived
    <3>3. MetaOf(h) = meta[h] /\ meta[h] \in Metas /\ req[r].want \in Wants
      BY <1>1, <1>2, <3>2, MetaOfType DEF TypeInv, Waits
    <3>4. req'[r].new.status = "archived"
      BY <2>1, <3>2, <3>3, WantedType
    <3> QED
      BY <1>1, <2>4, <3>2, <3>4 DEF Archived
  <2> QED
    BY <2>3, <2>4, <2>5, <2>6 DEF HomeOf
<1> QED
  BY <1>3, <1>4, <1>5, TakesOnly DEF TypeInv

\* The memories after a rename.
LEMMA RenamedMemory ==
  ASSUME TypeInv, NEW r \in Requests, NEW k \in Kinds, RenameFile(r), Renamed(r, k), NEW h \in Titles, NEW c \in AllCodes
  PROVE  Memory(h, c)' = IF k = "memory" /\ h = req[r].at /\ c = req[r].new.code THEN Memory(h, req[r].old.code)
                         ELSE IF k = "memory" /\ h = req[r].at /\ c = req[r].old.code THEN None
                         ELSE Memory(h, c)
<1>1. <<c, "memory">> \in Names
  BY KindNames DEF Kinds
<1>2. \A d : <<c, "memory">> = <<d, k>> <=> c = d /\ k = "memory"
  OBVIOUS
<1>3. file'[h][<<c, "memory">>] = IF h = req[r].at /\ <<c, "memory">> = <<req[r].new.code, k>> THEN file[h][<<req[r].old.code, k>>]
                                  ELSE IF h = req[r].at /\ <<c, "memory">> = <<req[r].old.code, k>> THEN None
                                  ELSE file[h][<<c, "memory">>]
  BY <1>1, RenamedFiles DEF TypeInv
<1> DEFINE new == req[r].new.code
           old == req[r].old.code
           at  == req[r].at
<1>4. /\ <<c, "memory">> = <<new, k>> <=> c = new /\ k = "memory"
      /\ <<c, "memory">> = <<old, k>> <=> c = old /\ k = "memory"
  BY <1>2
<1> HIDE DEF new, old, at
<1>5. file'[h][<<c, "memory">>] = IF h = at /\ c = new /\ k = "memory" THEN file[h][<<old, k>>]
                                  ELSE IF h = at /\ c = old /\ k = "memory" THEN None
                                  ELSE file[h][<<c, "memory">>]
  BY <1>3, <1>4 DEF new, old, at
<1>6. Memory(h, c)' = IF k = "memory" /\ h = at /\ c = new THEN Memory(h, old)
                      ELSE IF k = "memory" /\ h = at /\ c = old THEN None
                      ELSE Memory(h, c)
  BY <1>5 DEF Memory
<1> QED
  BY <1>6 DEF new, old, at

LEMMA RenameHome ==
  ASSUME TypeInv, HomeInv, [Next]_vars, NEW o \in Origins, NEW h \in Homes(o), HomeOf(o, h),
         NEW r \in Requests, RenameFile(r)
  PROVE  HomeOf(o, h)'
<1>1. /\ req[r] \in Updates /\ req[r].pc = "names" /\ Same(r) /\ Alone(r) /\ req'[r].old = req[r].old
      /\ req[r].new.code # req[r].old.code /\ meta' = meta /\ req[r].kind = "update" /\ req'[r].kind = "update"
      /\ req'[r].at = req[r].at /\ req'[r].new = req[r].new /\ req'[r].pc \in {"names", "meta"}
      /\ req[r].new.code \in AllCodes /\ req[r].old.code \in AllCodes
  BY RenamesOnly DEF TypeInv, Renaming, Same, Updates, Renamed
<1>2. h \in Titles /\ req[r].pc \notin Over /\ ~ToldArchived(r, o)'
  BY <1>1, InHome DEF Over, ToldArchived
<1>3. CASE req'[r].pc = "meta" /\ req[r].left = {} /\ file' = file
  <2>1. Lead(req'[r]) = Lead(req[r])
    BY <1>1, <1>3 DEF Lead
  <2>2. r \in AtWork(h) <=> r \in AtWork(h)'
    BY <1>1 DEF AtWork, Writing, Open
  <2>3. Undisturbed(r, o, h)
    BY <1>1, <1>2, <1>3, <2>1, <2>2 DEF Undisturbed, Memory
  <2> QED
    BY <1>2, <2>3, UndisturbedHome
<1>4. ASSUME NEW k \in Kinds, Renamed(r, k)
      PROVE  HomeOf(o, h)'
  <2>1. k \in req[r].left /\ req'[r].left = req[r].left \ {k} /\ req'[r].pc = "names"
    BY <1>4 DEF Renamed
  <2>2. CASE req[r].at # h
    <3>1. r \notin AtWork(h) /\ r \notin AtWork(h)'
      BY <1>1, <2>2, NotThere
    <3>2. \A c \in AllCodes : Memory(h, c)' = Memory(h, c)
      BY <1>2, <1>4, <2>2, RenamedMemory
    <3>3. Undisturbed(r, o, h)
      BY <1>1, <1>2, <3>1, <3>2 DEF Undisturbed
    <3> QED
      BY <1>2, <3>3, UndisturbedHome
  <2>3. CASE req[r].at = h
    <3>1. r \in AtWork(h)
      BY <1>1, <2>3 DEF AtWork, Writing, Open
    <3>2. AtWork(h) = {r}
      BY <1>2, <3>1, Worker
    <3>3. AtWork(h)' = {r}
      BY <1>1, <2>1, <2>3, <3>2, WorkersAfter DEF AtWork, Writing, Open
    <3>4. ASSUME Sound', HasMemory(o)'
          PROVE  Leads(o, h)'
      <4>1. Leads(o, h) /\ Repairs \subseteq Repairs'
        BY <1>1, <1>2, <3>4, Before
      <4>2. meta[h] # None /\ Memory(h, Lead(req[r])) = o
        BY <3>1, <4>1 DEF Leads
      <4>3. ASSUME NEW c \in AllCodes
            PROVE  Memory(h, c)' \in {o, "stray", None} \cup Repairs'
        <5>1. Memory(h, c)' \in {Memory(h, c), Memory(h, req[r].old.code), None}
          BY <1>2, <1>4, RenamedMemory
        <5> QED
          BY <1>1, <4>1, <5>1 DEF Leads, Tidy
      <4>4. file'[h][<<Lead(req'[r]), "memory">>] = o
        <5>1. CASE k = "memory"
          <6>1. Lead(req[r]) = req[r].old.code /\ Lead(req'[r]) = req[r].new.code
            BY <1>1, <2>1, <5>1 DEF Lead
          <6>2. Memory(h, req[r].new.code)' = Memory(h, req[r].old.code)
            BY <1>1, <1>2, <1>4, <2>3, <5>1, RenamedMemory
          <6> QED
            BY <1>1, <4>2, <6>1, <6>2 DEF Memory
        <5>2. CASE k # "memory"
          <6>1. Lead(req'[r]) = Lead(req[r]) /\ Lead(req[r]) \in AllCodes
            BY <1>1, <2>1, <5>2 DEF Lead
          <6>2. \A c \in AllCodes : Memory(h, c)' = Memory(h, c)
            BY <1>2, <1>4, <5>2, RenamedMemory
          <6> QED
            BY <4>2, <6>1, <6>2 DEF Memory
        <5> QED
          BY <5>1, <5>2
      <4>5. \A q \in AtWork(h)' : Memory(h, Lead(req[q]))' = o
        BY <3>3, <4>4 DEF Memory, Lead
      <4> QED
        BY <1>1, <3>3, <4>2, <4>3, <4>5 DEF Leads, Tidy
    <3>5. ASSUME NEW q \in Requests, ToldArchived(q, o)'
          PROVE  Archived(h)'
      <4>1. ToldArchived(q, o)
        BY <1>1, <2>1, <3>5 DEF ToldArchived, Alone
      <4>2. Archived(h)
        BY <4>1 DEF HomeOf
      <4> QED
        BY <1>1, <3>1, <3>3, <4>2 DEF Archived
    <3> QED
      BY <1>1, <2>1, <3>3, <3>4, <3>5 DEF HomeOf
  <2> QED
    BY <2>2, <2>3
<1> QED
  BY <1>3, <1>4, RenamesOnly DEF TypeInv

\* The step of an update that ends: the folder stays, or another project's is renamed.
LEMMA MoveHome ==
  ASSUME TypeInv, HomeInv, [Next]_vars, NEW o \in Origins, NEW h \in Homes(o), HomeOf(o, h), NEW r \in Requests,
         MoveFolder(r), ~(MovedTo(r) /\ req[r].at = h)
  PROVE  HomeOf(o, h)'
<1>1. /\ req[r] \in Updates /\ Alone(r) /\ Working(r) /\ req[r].pc = "move" /\ req'[r].pc \in Over
      /\ req[r].at \in Titles /\ req[r].to \in Titles /\ req[r].pc \notin Over /\ req[r].kind = "update"
      /\ ToldArchived(r, o)' => req[r].of = o /\ req[r].want.status = "archived"
  BY MovesOnly DEF TypeInv, Ended, Over, Updates
<1>2. h \in Titles /\ h \in there \ bare
  BY InHome
<1>3. meta'[h] = meta[h] /\ file'[h] = file[h]
  <2>1. CASE UNCHANGED disk
    BY <2>1 DEF disk
  <2>2. CASE MovedTo(r)
    <3>1. h # req[r].to /\ h # req[r].at
      BY <1>2, <2>2 DEF MovedTo
    <3> QED
      BY <1>2, <2>2, <3>1, MovedFiles DEF TypeInv
  <2> QED
    BY <2>1, <2>2, MovesOrNot
<1>4. r \notin AtWork(h)'
  BY <1>1, NotThere DEF Over, Writing, Open
<1>5. CASE req[r].at # h
  <2>1. ~ToldArchived(r, o)'
    BY <1>1, <1>5 DEF HomeInv, OfHome
  <2>2. r \notin AtWork(h)
    BY <1>5, NotThere
  <2>3. Undisturbed(r, o, h)
    BY <1>1, <1>3, <1>4, <2>1, <2>2, Elsewhere
  <2> QED
    BY <1>2, <2>3, UndisturbedHome
<1>6. CASE req[r].at = h
  <2>1. r \in AtWork(h)
    BY <1>1, <1>6, NotThere DEF Writing, Open
  <2>2. AtWork(h) = {r}
    BY <1>2, <2>1, Worker
  <2>3. AtWork(h)' = {}
    BY <1>1, <1>4, <2>2, WorkersAfter DEF AtWork
  <2>4. meta[h] = req[r].new /\ req[r].new \in Metas
    BY <1>1, <2>1 DEF HomeOf, Updates
  <2>5. ASSUME Sound', HasMemory(o)'
        PROVE  Leads(o, h)'
    <3>1. Leads(o, h) /\ Repairs \subseteq Repairs'
      BY <1>1, <2>5, Before
    <3>2. Lead(req[r]) = req[r].new.code
      BY <1>1 DEF Lead
    <3>3. Memory(h, req[r].new.code) = o
      BY <2>1, <3>1, <3>2 DEF Leads
    <3>4. Tidy(o, h)'
      BY <1>3, <3>1 DEF Leads, Tidy, Memory
    <3> QED
      BY <1>3, <2>3, <2>4, <3>3, <3>4, Nothing DEF Leads, Memory
  <2>6. ASSUME NEW q \in Requests, ToldArchived(q, o)'
        PROVE  Archived(h)'
    <3>1. req[r].new.status = "archived"
      <4>1. CASE q = r
        BY <1>1, <2>6, <4>1 DEF HomeInv, Archiving
      <4>2. CASE q # r
        <5>1. ToldArchived(q, o)
          BY <1>1, <2>6, <4>2 DEF ToldArchived, Alone
        <5> QED
          BY <2>1, <5>1 DEF HomeOf, Archived
      <4> QED
        BY <4>1, <4>2
    <3> QED
      BY <1>3, <2>3, <2>4, <3>1, Nothing DEF Archived
  <2> QED
    BY <2>3, <2>5, <2>6 DEF HomeOf
<1> QED
  BY <1>5, <1>6

\* The folder of the project is renamed to n, where nobody works.
LEMMA MovedHome ==
  ASSUME TypeInv, HomeInv, [Next]_vars, NEW o \in Origins, NEW h \in Homes(o), NEW r \in Requests, MoveFolder(r),
         MovedTo(r), req[r].at = h, NEW n, n = req[r].to, n \notin crossed'
  PROVE  HomeOf(o, n)'
<1>1. /\ req[r] \in Updates /\ Alone(r) /\ Working(r) /\ req[r].pc = "move" /\ req'[r].pc \in Over
      /\ h \in Titles /\ n \in Titles /\ n # h /\ req[r].pc \notin Over /\ req[r].kind = "update"
      /\ ToldArchived(r, o)' => req[r].of = o /\ req[r].want.status = "archived"
  BY MovesOnly DEF TypeInv, Ended, Over, Updates, MovedTo
<1>2. h \notin crossed /\ AtWork(n) = {}
  BY DEF MovedTo
<1>3. HomeOf(o, h)
  BY <1>2 DEF HomeInv
<1>4. meta'[n] = meta[h] /\ file'[n] = file[h]
  BY MovedFiles DEF TypeInv
<1>5. AtWork(n)' = {}
  <2>1. r \notin AtWork(n)'
    BY <1>1, NotThere DEF Over, Writing, Open
  <2> QED
    BY <1>1, <1>2, <2>1, WorkersAfter DEF AtWork
<1>6. r \in AtWork(h)
  BY <1>1, NotThere DEF Writing, Open
<1>7. meta[h] = req[r].new /\ req[r].new \in Metas
  BY <1>1, <1>3, <1>6 DEF HomeOf, Updates
<1>8. ASSUME Sound', HasMemory(o)'
      PROVE  Leads(o, n)'
  <2>1. Leads(o, h) /\ Repairs \subseteq Repairs'
    BY <1>1, <1>3, <1>8, Before
  <2>2. Lead(req[r]) = req[r].new.code
    BY <1>1 DEF Lead
  <2>3. Memory(h, req[r].new.code) = o
    BY <1>6, <2>1, <2>2 DEF Leads
  <2>4. Tidy(o, n)'
    BY <1>4, <2>1 DEF Leads, Tidy, Memory
  <2> QED
    BY <1>4, <1>5, <1>7, <2>3, <2>4, Nothing DEF Leads, Memory
<1>9. ASSUME NEW q \in Requests, ToldArchived(q, o)'
      PROVE  Archived(n)'
  <2>1. req[r].new.status = "archived"
    <3>1. CASE q = r
      BY <1>1, <1>9, <3>1 DEF HomeInv, Archiving
    <3>2. CASE q # r
      <4>1. ToldArchived(q, o)
        BY <1>1, <1>9, <3>2 DEF ToldArchived, Alone
      <4> QED
        BY <1>3, <1>6, <4>1 DEF HomeOf, Archived
    <3> QED
      BY <3>1, <3>2
  <2> QED
    BY <1>4, <1>5, <1>7, <2>1, Nothing DEF Archived
<1> QED
  BY <1>5, <1>8, <1>9 DEF HomeOf

LEMMA StepHomeOf ==
  ASSUME TypeInv, HomeInv, [Next]_vars, NEW o \in Origins, NEW n \in Homes(o)' \ crossed'
  PROVE  HomeOf(o, n)'
<1>1. ASSUME NEW r \in Requests, MoveFolder(r), MovedTo(r), n = req[r].to, req[r].at \in Homes(o)
      PROVE  HomeOf(o, n)'
  BY <1>1, MovedHome
<1>2. CASE n \in Homes(o) /\ \A r \in Requests : MoveFolder(r) /\ MovedTo(r) => req[r].at # n
  <2>1. n \notin crossed /\ n \in Titles
    BY CrossedGrows, HomesAfter
  <2>2. HomeOf(o, n)
    BY <1>2, <2>1 DEF HomeInv
  <2>3. ASSUME NEW r \in Requests, \/ AskCreate(r) \/ AskUpdate(r) \/ AskRepair(r) \/ ReadCode(r) \/ MakeFolder(r)
                                   \/ FillFolder(r) \/ Sync(r) \/ Write(r) \/ ListNames(r) \/ Raise(r)
        PROVE  HomeOf(o, n)'
    <3>1. Undisturbed(r, o, n)
      BY <1>2, <2>1, <2>2, <2>3, AskHome, MakeHome, FillHome, ListHome, RaiseHome
    <3> QED
      BY <2>1, <2>2, <3>1, UndisturbedHome
  <2>4. ASSUME NEW r \in Requests, WriteMeta(r) \/ TakeUpdate(r) \/ RenameFile(r)
        PROVE  HomeOf(o, n)'
    BY <1>2, <2>2, <2>4, WriteHome, TakeHome, RenameHome
  <2>5. ASSUME NEW r \in Requests, MoveFolder(r)
        PROVE  HomeOf(o, n)'
    BY <1>2, <2>2, <2>5, MoveHome
  <2>6. ASSUME UNCHANGED <<meta, file, req>>
        PROVE  HomeOf(o, n)'
    BY <2>2, <2>6 DEF HomeOf, AtWork, Sound, HasMemory, Memory, Leads, Tidy, Repairs, ToldArchived, Archived
  <2> QED
    BY <2>3, <2>4, <2>5, <2>6 DEF Next, Step, CreateGroup, disk, vars
<1> QED
  BY <1>1, <1>2, HomesAfter

LEMMA InitHome == Init => HomeInv
<1> SUFFICES ASSUME Init
             PROVE  HomeInv
  OBVIOUS
<1>1. \A r \in Requests : req[r].pc = "idle"
  BY DEF Init
<1>2. ASSUME NEW o \in Origins, NEW t \in Titles, NEW n \in Names, file[t][n] = o
      PROVE  t = o /\ n[1] = Founded[o]
  BY <1>2, Nothing, TextsAssumption DEF Init, Origins
<1>3. ASSUME NEW o \in Origins
      PROVE  /\ o \in Titles /\ meta[o] # None /\ Memory(o, meta[o].code) = o
             /\ \A c \in AllCodes : Memory(o, c) \in {o, "stray", None}
  <2>1. o \in Titles /\ Founded[o] \in Codes
    BY FoundedAssumption DEF Origins
  <2>2. meta[o] = Record(Founded[o], o, "active", None)
    BY <2>1 DEF Init, Origins
  <2>3. meta[o] \in Metas /\ meta[o].code = Founded[o]
    BY <2>1, <2>2 DEF Record, Metas, AllCodes
  <2>4. ASSUME NEW c \in AllCodes
        PROVE  /\ c = Founded[o] => Memory(o, c) = o
               /\ Memory(o, c) \in {o, "stray", None}
    <3>1. <<c, "memory">> \in Names /\ <<c, "memory">>[1] = c
      BY KindNames DEF Kinds
    <3> QED
      BY <2>1, <3>1 DEF Init, Origins, Memory
  <2> QED
    BY <2>1, <2>3, <2>4, Nothing DEF AllCodes
<1>4. \A h : AtWork(h) = {}
  BY <1>1 DEF AtWork, Writing, Open
<1>5. OneHome
  BY <1>2 DEF OneHome, Homes
<1>6. OneMemory
  <2> SUFFICES ASSUME NEW o \in Origins, NEW t \in Titles, NEW u \in Titles, NEW c \in AllCodes, NEW d \in AllCodes,
                      Memory(t, c) = o, Memory(u, d) = o
               PROVE  t = u /\ c = d
    BY DEF OneMemory
  <2>1. <<c, "memory">> \in Names /\ <<d, "memory">> \in Names
    BY KindNames DEF Kinds
  <2>2. t = o /\ <<c, "memory">>[1] = Founded[o] /\ u = o /\ <<d, "memory">>[1] = Founded[o]
    BY <1>2, <2>1 DEF Memory
  <2> QED
    BY <2>2
<1>7. OfHome /\ Archiving
  BY <1>1 DEF OfHome, Archiving, Working
<1>8. ASSUME NEW o \in Origins, NEW h \in Homes(o)
      PROVE  HomeOf(o, h)
  <2>1. h = o
    BY <1>2 DEF Homes
  <2>2. Leads(o, o)
    BY <1>3, <1>4 DEF Leads, Tidy
  <2>3. \A r \in Requests : ~ToldArchived(r, o)
    BY <1>1 DEF ToldArchived
  <2> QED
    BY <1>4, <2>1, <2>2, <2>3 DEF HomeOf
<1> QED
  BY <1>5, <1>6, <1>7, <1>8 DEF HomeInv

LEMMA StepHome == TypeInv /\ HomeInv /\ [Next]_vars => HomeInv'
<1> SUFFICES ASSUME TypeInv, HomeInv, [Next]_vars
             PROVE  HomeInv'
  OBVIOUS
<1>1. OneHome' /\ OneMemory' /\ OfHome' /\ Archiving'
  BY StepOneHome, StepOneMemory, StepOfHome, StepArchiving DEF HomeInv
<1>2. ASSUME NEW o \in Origins, NEW n \in Homes(o)' \ crossed'
      PROVE  HomeOf(o, n)'
  BY <1>2, StepHomeOf
<1> QED
  BY <1>1, <1>2 DEF HomeInv

-----------------------------------------------------------------------------
(* The theorems.                                                            *)

\* The invariant of everything below: the shapes, the locks and the folders, and the
\* home of each project.
THEOREM Registry == Spec => []IInv
<1>1. Init => IInv
  BY InitInv, InitHome DEF IInv
<1>2. IInv /\ [Next]_vars => IInv'
  BY StepInv, StepHome DEF IInv
<1> QED
  BY <1>1, <1>2, PTL DEF Spec

\* The registry is whole, the texts of a project are in one folder, and once nobody works
\* on it and none has raised, the metadata there leads to the project's own memory, and
\* the first memory by name is that one, a file that was there from the start or one that
\* a repair made (projects.py:117-178, 294-298), however many creations, updates and
\* repairs are interleaved.
THEOREM WholeRegistry == Spec => []RegistryLeads
<1>1. ASSUME IInv
      PROVE  RegistryLeads
  <2>1. TypeOK
    <3>1. \A t \in Titles : meta[t] # None => meta[t] \in Metas
      BY <1>1 DEF IInv, TypeInv, Types
    <3> QED
      BY <1>1, <3>1 DEF IInv, TypeInv, Types, Full, TypeOK, Metas, AllCodes
  <2>2. ASSUME NEW o \in DOMAIN Founded
        PROVE  Cardinality(Homes(o)) <= 1
    <3>1. \A t, u \in Homes(o) : t = u
      BY <1>1 DEF IInv, HomeInv, OneHome, Origins
    <3>2. CASE Homes(o) = {}
      <4>1. Cardinality({}) = 0
        BY FS_EmptySet
      <4> QED
        BY <3>2, <4>1
    <3>3. CASE Homes(o) # {}
      <4>1. PICK h : Homes(o) = {h}
        BY <3>1, <3>3
      <4>2. Cardinality({h}) = 1
        BY FS_Singleton
      <4> QED
        BY <4>1, <4>2
    <3> QED
      BY <3>2, <3>3
  <2>3. ASSUME NEW o \in DOMAIN Founded, NEW h \in Homes(o) \ crossed, Quiet(h), Sound, <<o, "memory">> \in Texts(file)
        PROVE  /\ meta[h] # None /\ file[h][<<meta[h].code, "memory">>] = o
               /\ file[h][<<First(h), "memory">>] \in {o, "stray"} \cup Repairs
    <3>1. AtWork(h) = {}
      BY <2>3 DEF Quiet, AtWork, Writing
    <3>2. HomeOf(o, h) /\ h \in Titles
      BY <1>1, <2>3 DEF IInv, HomeInv, Origins, Homes
    <3>3. HasMemory(o)
      <4>1. PICK t \in Titles, n \in Names : file[t][n] = o /\ n[2] = "memory"
        BY <2>3 DEF Texts
      <4>2. n = <<n[1], "memory">> /\ n[1] \in AllCodes
        BY <4>1 DEF Names, AllCodes
      <4> QED
        BY <4>1, <4>2 DEF HasMemory, Memory
    <3>4. Leads(o, h)
      BY <2>3, <3>2, <3>3 DEF HomeOf
    <3>5. meta[h] # None /\ meta[h].code \in AllCodes /\ Memory(h, meta[h].code) = o
      BY <1>1, <3>1, <3>2, <3>4, LeadCodes DEF Leads, IInv, TypeInv
    <3>6. Memories(h) # {}
      BY <2>3, <3>5, Nothing DEF Memories, Memory, AllCodes, Origins
    <3>7. First(h) \in AllCodes /\ Memory(h, First(h)) # None
      BY <3>6, FirstType DEF Memories, Memory, AllCodes
    <3>8. Memory(h, First(h)) \in {o, "stray"} \cup Repairs
      BY <3>4, <3>7 DEF Leads, Tidy
    <3> QED
      BY <3>5, <3>8 DEF Memory
  <2>4. OwnMemory
    BY <2>2, <2>3 DEF OwnMemory, Sound
  <2> QED
    BY <2>1, <2>4 DEF RegistryLeads
<1> QED
  BY <1>1, Registry, PTL

\* A project that was answered as archived stays archived (projects.py:127-143), whatever
\* other updates of it were waiting for the lock.
THEOREM ArchivedForGood == Spec => []ArchivedStays
<1>1. ASSUME IInv
      PROVE  ArchivedStays
  <2>1. SUFFICES ASSUME NEW r \in Requests, req[r].pc = "done", req[r].kind = "update",
                        req[r].status = "archived", req[r].of \in Origins,
                        NEW h \in Homes(req[r].of) \ crossed
                 PROVE  meta[h].status = "archived"
    BY DEF ArchivedStays, Origins
  <2>2. HomeOf(req[r].of, h) /\ ToldArchived(r, req[r].of)
    BY <1>1, <2>1 DEF IInv, HomeInv, ToldArchived
  <2> QED
    BY <2>2 DEF HomeOf, Archived
<1> QED
  BY <1>1, Registry, PTL

\* A text is destroyed in two windows only (projects.py:144-157, 182-196, 382-388,
\* 560-563): by a rename over a file whose name was not checked, and by a memory written
\* where none was when it was looked for.
THEOREM KeepsTexts == Spec => TextsKept
<1>1. IInv /\ [Next]_vars =>
        [\A x \in Texts(file) \ Texts(file') : \E r \in Requests : Overtaken(r, x) /\ req'[r] # req[r]]_vars
  BY StepTexts DEF IInv
<1> QED
  BY <1>1, Registry, PTL DEF Spec, TextsKept
=============================================================================
