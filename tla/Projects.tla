------------------------------ MODULE Projects ------------------------------
(***************************************************************************)
(* The project registry (projects.py and its handlers in server.py): the   *)
(* folders of the projects, the metadata file in each and the files that   *)
(* carry the project's code in their names.  There is no registry but the  *)
(* file system.  An update runs under the lock of the metadata file of the *)
(* folder it was asked about; a creation and a repair run without a lock.  *)
(* Each of them is a sequence of looks and writes that may raise between   *)
(* any two: what it saw may have changed when it writes.                   *)
(*                                                                         *)
(* A text is the project it belongs to: a file keeps it when it is renamed *)
(* for a new code and when its folder is renamed for a new title.          *)
(***************************************************************************)
EXTENDS Naturals, FiniteSets

CONSTANTS Requests, Titles, Codes,
          Asks,        \* what each request may be: a creation, an update, a repair
          Founded,     \* the projects there are: title -> code
          Stray,       \* a file already there: <<title, code, kind>>
          Groups,      \* codes of groups that may be made
          Inferred,    \* the code inferred for a folder without metadata and memory
          Rank,        \* the order of the codes by name
          None,
          MaxFailures  \* requests that raise in the middle

Kinds   == {"memory", "node"}
Names   == (Codes \cup {Inferred}) \X Kinds
Keep    == "keep"
Open    == {"mkdir", "fill", "meta", "sync", "write", "wait", "read", "list", "names", "move"}
Writing == Open \ {"mkdir", "wait", "read"}
Over    == {"done", "refused", "failed"}

VARIABLES there,   \* folders that exist
          bare,    \* folders made by a creation that has put nothing into them yet
          meta,    \* the metadata file of each folder
          file,    \* the texts in each folder, by code and kind
          groups,  \* folders of groups that exist
          lock,    \* who holds the lock of the metadata file of each folder
          req, failures,
          crossed  \* history: places a folder came to where another request writes, or from such a place

disk == <<there, bare, meta, file>>
vars == <<there, bare, meta, file, groups, lock, req, failures, crossed>>

ASSUME FoundedAssumption == DOMAIN Founded \subseteq Titles /\ \A t \in DOMAIN Founded : Founded[t] \in Codes
ASSUME TextsAssumption   == "stray" \notin DOMAIN Founded /\ Requests \cap (DOMAIN Founded \cup {"stray"}) = {}
ASSUME NoneAssumption    == /\ None \notin Requests \cup Titles \cup {"stray"}
                            /\ \A c \in Codes \cup {Inferred}, t \in Titles, s \in {"active", "archived"}, g \in Groups \cup {None} :
                                 None # [code |-> c, title |-> t, status |-> s, group |-> g]
ASSUME StrayAssumption   == \A t \in Titles, n \in Names : <<t, n[1], n[2]>> = Stray => t \in DOMAIN Founded
ASSUME OrderAssumption   == /\ Rank \in [Codes \cup {Inferred} -> Nat]
                            /\ \A S \in SUBSET (Codes \cup {Inferred}) : S # {} => \E c \in S : \A d \in S : Rank[c] <= Rank[d]
ASSUME LimitAssumption   == MaxFailures \in Nat

Record(code, title, status, group) == [code |-> code, title |-> title, status |-> status, group |-> group]
NoFiles == [n \in Names |-> None]

Init == /\ there = DOMAIN Founded /\ bare = {}
        /\ meta = [t \in Titles |-> IF t \in DOMAIN Founded THEN Record(Founded[t], t, "active", None) ELSE None]
        /\ file = [t \in Titles |-> [n \in Names |->
                     IF t \in DOMAIN Founded /\ n[1] = Founded[t] THEN t
                     ELSE IF <<t, n[1], n[2]>> = Stray THEN "stray" ELSE None]]
        /\ groups = {} /\ failures = 0 /\ crossed = {}
        /\ lock = [t \in Titles |-> None]
        /\ req = [r \in Requests |-> [pc |-> "idle"]]

\* The creations and updates that write to a place.
AtWork(t) == {r \in Requests : req[r].pc \in Writing /\ req[r].kind # "repair" /\ req[r].at = t}

Set(r, x)  == req' = [req EXCEPT ![r] = x]
Goto(r, l) == req' = [req EXCEPT ![r].pc = l]
End(r, l)  == Set(r, [pc |-> l, kind |-> req[r].kind])

\* An update is answered: of the project whose memory it found, that it has this status.
Answer(r) == Set(r, [pc |-> "done", kind |-> "update", of |-> req[r].of, status |-> req[r].want.status])

\* project_memory_path: of the memories in a folder, the first by name.
Memories(t) == {c \in Codes \cup {Inferred} : file[t][<<c, "memory">>] # None}
First(t)    == CHOOSE c \in Memories(t) : \A d \in Memories(t) : Rank[c] <= Rank[d]

\* project_meta: what the file says, or what can be told without it.
MetaOf(t) == IF meta[t] # None THEN meta[t]
             ELSE Record(IF Memories(t) = {} THEN Inferred ELSE First(t), t, "active", None)

\* After the missing files only an update has something left to do.
Synced(r) == IF req[r].kind = "update" THEN Goto(r, "move") ELSE End(r, "done")

-----------------------------------------------------------------------------
(* Groups. *)

CreateGroup(g) ==
    /\ g \notin groups /\ groups' = groups \cup {g}
    /\ UNCHANGED <<disk, lock, req, failures, crossed>>

-----------------------------------------------------------------------------
(* POST /api/projects: the folder, its subfolders, its metadata, its files. *)

AskCreate(r) ==
    /\ req[r].pc = "idle" /\ "create" \in Asks[r]
    /\ \E c \in Codes, t \in Titles, g \in groups \cup {None} :
         Set(r, IF t \in there THEN [pc |-> "refused", kind |-> "create"]
                ELSE [pc |-> "mkdir", kind |-> "create", at |-> t, new |-> Record(c, t, "active", g)])
    /\ UNCHANGED <<disk, groups, lock, failures, crossed>>

MakeFolder(r) ==
    /\ req[r].pc = "mkdir"
    /\ LET t == req[r].at IN
       IF t \in there THEN End(r, "refused") /\ UNCHANGED disk
       ELSE /\ there' = there \cup {t} /\ bare' = bare \cup {t}
            /\ Goto(r, "fill") /\ UNCHANGED <<meta, file>>
    /\ UNCHANGED <<groups, lock, failures, crossed>>

\* The subfolders: in a folder that was renamed meanwhile the first of them raises.
FillFolder(r) ==
    /\ req[r].pc = "fill"
    /\ \/ req[r].at \notin there /\ End(r, "failed") /\ UNCHANGED <<there, bare>>
       \/ Goto(r, "meta") /\ there' = there \cup {req[r].at} /\ bare' = bare \ {req[r].at}
    /\ UNCHANGED <<meta, file, groups, lock, failures, crossed>>

\* write_meta waits for whoever holds the lock of the same file.
WriteMeta(r) ==
    /\ req[r].pc = "meta" /\ lock[req[r].at] \in {None, r}
    /\ meta' = [meta EXCEPT ![req[r].at] = req[r].new]
    /\ there' = there \cup {req[r].at} /\ bare' = bare \ {req[r].at}
    /\ Goto(r, "sync")
    /\ UNCHANGED <<file, groups, lock, failures, crossed>>

-----------------------------------------------------------------------------
(* PATCH /api/projects/<title>: code, title, status, group. *)

AskUpdate(r) ==
    /\ req[r].pc = "idle" /\ "update" \in Asks[r]
    /\ \E t \in there, c \in Codes \cup {Keep}, n \in Titles \cup {Keep}, s \in {"archived", Keep}, g \in Groups \cup {Keep} :
         /\ <<c, n, s, g>> # <<Keep, Keep, Keep, Keep>>
         /\ Set(r, [pc |-> "wait", kind |-> "update", at |-> t, want |-> [code |-> c, title |-> n, status |-> s, group |-> g]])
    /\ UNCHANGED <<disk, groups, lock, failures, crossed>>

\* A status that is not asked for is the default one.
WantedDefault(m, want) == [f \in DOMAIN m |-> IF want[f] # Keep THEN want[f] ELSE IF f = "status" THEN "active" ELSE m[f]]

Wanted(m, want) == [f \in DOMAIN m |-> IF want[f] = Keep THEN m[f] ELSE want[f]]
Named(t, code)  == {k \in Kinds : file[t][<<code, k>>] # None}

\* A file that has the new name already is not looked for.
RefusedBlind(t, old, new) ==
    \/ new.group \notin groups \cup {None}
    \/ new.title \notin {old.title, t} /\ new.title \in there

\* Everything that refuses an update is looked at before anything is changed.
Refused(t, old, new) ==
    \/ new.group \notin groups \cup {None}
    \/ new.title \notin {old.title, t} /\ new.title \in there
    \/ new.code # old.code /\ Named(t, old.code) \cap Named(t, new.code) # {}

TakeUpdate(r) ==
    /\ req[r].pc = "wait" /\ lock[req[r].at] = None
    /\ LET t == req[r].at
           old == MetaOf(t)
           new == Wanted(old, req[r].want)
       IN  IF Refused(t, old, new) THEN End(r, "refused") /\ UNCHANGED lock
           ELSE /\ lock' = [lock EXCEPT ![t] = r]
                /\ Set(r, [pc |-> IF new.code # old.code THEN "list" ELSE "meta", kind |-> "update",
                           at |-> t, want |-> req[r].want, old |-> old, new |-> new,
                           of |-> file[t][<<old.code, "memory">>], checked |-> Named(t, old.code), left |-> {},
                           to |-> IF new.title \in {old.title, t} THEN t ELSE new.title])
    /\ UNCHANGED <<disk, groups, failures, crossed>>

\* The files to rename are listed once more, after what was checked.
ListNames(r) ==
    /\ req[r].pc = "list"
    /\ Set(r, [req[r] EXCEPT !.pc = "names", !.left = Named(req[r].at, req[r].old.code)])
    /\ UNCHANGED <<disk, groups, lock, failures, crossed>>

\* A file left over by the new code is taken for the project's own.
RenameFileLeavesMemory(r) ==
    /\ req[r].pc = "names"
    /\ LET t == req[r].at IN
       IF req[r].left \subseteq {"memory"} THEN Goto(r, "meta") /\ UNCHANGED file
       ELSE \E k \in req[r].left \ {"memory"} :
              /\ file' = [file EXCEPT ![t][<<req[r].new.code, k>>] = file[t][<<req[r].old.code, k>>],
                                      ![t][<<req[r].old.code, k>>] = None]
              /\ Set(r, [req[r] EXCEPT !.left = @ \ {k}])
    /\ UNCHANGED <<there, bare, meta, groups, lock, failures, crossed>>

\* The files of the old code are renamed one by one, over whatever has the new name.
RenameFile(r) ==
    /\ req[r].pc = "names"
    /\ LET t == req[r].at IN
       IF req[r].left = {} THEN Goto(r, "meta") /\ UNCHANGED file
       ELSE \E k \in req[r].left :
              /\ file' = [file EXCEPT ![t][<<req[r].new.code, k>>] = file[t][<<req[r].old.code, k>>],
                                      ![t][<<req[r].old.code, k>>] = None]
              /\ Set(r, [req[r] EXCEPT !.left = @ \ {k}])
    /\ UNCHANGED <<there, bare, meta, groups, lock, failures, crossed>>

-----------------------------------------------------------------------------
(* POST /api/projects/<title>/repair: the missing files, without a lock. *)

AskRepair(r) ==
    /\ req[r].pc = "idle" /\ "repair" \in Asks[r]
    /\ \E t \in there : Set(r, [pc |-> "read", kind |-> "repair", at |-> t])
    /\ UNCHANGED <<disk, groups, lock, failures, crossed>>

ReadCode(r) ==
    /\ req[r].pc = "read"
    /\ Set(r, [pc |-> "sync", kind |-> "repair", at |-> req[r].at, new |-> MetaOf(req[r].at)])
    /\ UNCHANGED <<disk, groups, lock, failures, crossed>>

-----------------------------------------------------------------------------
(* sync_project_files, at the end of each of the three. *)

\* ensure_text looks whether the memory is there, in a folder it makes if need be ...
Sync(r) ==
    /\ req[r].pc = "sync"
    /\ LET t == req[r].at IN
       /\ there' = there \cup {t} /\ bare' = bare \cup ({t} \ there)
       /\ IF file[t][<<req[r].new.code, "memory">>] = None THEN Goto(r, "write") ELSE Synced(r)
    /\ UNCHANGED <<meta, file, groups, lock, failures, crossed>>

\* ... and writes it afterwards, over whatever has come meanwhile.
Write(r) ==
    /\ req[r].pc = "write" /\ Synced(r)
    /\ LET t == req[r].at IN
       /\ there' = there \cup {t} /\ bare' = bare \ {t}
       /\ file' = [file EXCEPT ![t][<<req[r].new.code, "memory">>] = r]
    /\ UNCHANGED <<meta, groups, lock, failures, crossed>>

-----------------------------------------------------------------------------
(* The end of an update, and of a request that raises. *)

Release(t) == lock' = [lock EXCEPT ![t] = None]

\* The folder is renamed last.  A folder that came meanwhile stops it, with the new
\* title in the metadata already, unless there is nothing in that folder yet.
MoveFolder(r) ==
    /\ req[r].pc = "move"
    /\ LET t == req[r].at
           n == req[r].to
       IN  /\ Release(t)
           /\ IF n = t THEN Answer(r) /\ UNCHANGED <<disk, crossed>>
              ELSE IF n \in there \ bare THEN End(r, "failed") /\ UNCHANGED <<disk, crossed>>
              ELSE /\ there' = (there \ {t}) \cup {n} /\ bare' = bare \ {n}
                   /\ meta' = [meta EXCEPT ![n] = meta[t], ![t] = None]
                   /\ file' = [file EXCEPT ![n] = file[t], ![t] = NoFiles]
                   /\ crossed' = IF t \in crossed \/ AtWork(n) # {} THEN crossed \cup {n} ELSE crossed
                   /\ Answer(r)
    /\ UNCHANGED <<groups, failures>>

\* The lock is not released by a request that raises.
RaiseHolding(r) ==
    /\ req[r].pc \in Open \ {"wait"} /\ failures < MaxFailures
    /\ failures' = failures + 1 /\ End(r, "failed")
    /\ UNCHANGED <<disk, groups, lock, crossed>>

\* A request raises between two of its steps: what it wrote stays, its lock does not.
Raise(r) ==
    /\ req[r].pc \in Open \ {"wait"} /\ failures < MaxFailures
    /\ failures' = failures + 1 /\ End(r, "failed")
    /\ IF lock[req[r].at] = r THEN Release(req[r].at) ELSE UNCHANGED lock
    /\ UNCHANGED <<disk, groups, crossed>>

Step(r) == \/ MakeFolder(r) \/ FillFolder(r) \/ WriteMeta(r) \/ Sync(r) \/ Write(r)
           \/ TakeUpdate(r) \/ ListNames(r) \/ RenameFile(r) \/ MoveFolder(r) \/ ReadCode(r)

Next == \/ \E r \in Requests : AskCreate(r) \/ AskUpdate(r) \/ AskRepair(r) \/ Step(r) \/ Raise(r)
        \/ \E g \in Groups : CreateGroup(g)

Spec == Init /\ [][Next]_vars /\ \A r \in Requests : WF_vars(Step(r))

-----------------------------------------------------------------------------
(* Properties. *)

\* Folders, metadata, files and locks have the shape the code gives them, a folder
\* that holds something exists, and one that was just made holds nothing.
TypeOK ==
    /\ bare \subseteq there /\ there \subseteq Titles /\ groups \subseteq Groups
    /\ \A t \in Titles :
                        /\ lock[t] \in Requests \cup {None}
                        /\ (meta[t] # None => (meta[t].title \in Titles /\ meta[t].code \in Codes \cup {Inferred}))
                        /\ (meta[t] # None \/ file[t] # NoFiles) => t \in there \ bare
    /\ failures \in 0..MaxFailures

Held     == DOMAIN Founded \cup {"stray"}
Texts(f) == {<<f[t][n], n[2]>> : t \in Titles, n \in Names} \cap (Held \X Kinds)

\* The window in which request r writes over the text x: it renames a file of the old
\* code that came after the names were checked, or makes a memory that was missing when
\* it looked.
Overtaken(r, x) ==
    LET over(k) == <<file[req[r].at][<<req[r].new.code, k>>], k>>
    IN  \/ req[r].pc = "names" /\ \E k \in req[r].left \ req[r].checked : x = over(k)
        \/ req[r].pc = "write" /\ x = over("memory")

\* No text that is there, of a project or a file that was in its folder, is ever
\* destroyed: not by a code whose names are taken, a title that is taken, a request
\* that raises halfway, a repair beside an update, or two requests for one title.
\* There are two windows in which the code does destroy one, and no other.
TextsKept ==
    [][\A x \in Texts(file) \ Texts(file') : \E r \in Requests : Overtaken(r, x) /\ req'[r] # req[r]]_vars

Homes(o) == {t \in Titles : \E n \in Names : file[t][n] = o}
Quiet(t) == \A r \in Requests : req[r].pc \in Open => req[r].at # t
Repairs  == {r \in Requests : req[r].pc # "idle" /\ req[r].kind = "repair"}

\* The texts of a project are never in two folders.  When no request works on its
\* folder, none has raised and its memory was not destroyed in a window of TextsKept,
\* the memory has the code the metadata has; and the memory that the registry and the
\* answers take, the first by name, is that one, a file that was there from the start
\* or an empty one that a repair made: never one of another project, a creation or an
\* update.
OwnMemory ==
    \A o \in DOMAIN Founded :
      /\ Cardinality(Homes(o)) <= 1
      /\ \A h \in Homes(o) \ crossed :
           (Quiet(h) /\ (\A r \in Requests : req[r].pc # "failed") /\ <<o, "memory">> \in Texts(file)) =>
             /\ meta[h] # None /\ file[h][<<meta[h].code, "memory">>] = o
             /\ file[h][<<First(h), "memory">>] \in {o, "stray"} \cup Repairs

\* The registry is whole and leads every project to its own memory.
RegistryLeads == TypeOK /\ OwnMemory

\* A project that was answered as archived is archived for good, whatever other
\* updates of it were waiting for their turn or overtake the answer; only a folder
\* renamed to a place that another request writes to is excepted.
ArchivedStays ==
    \A r \in Requests :
      (req[r].pc = "done" /\ req[r].kind = "update" /\ req[r].status = "archived" /\ req[r].of \in DOMAIN Founded) =>
        \A h \in Homes(req[r].of) \ crossed : meta[h].status = "archived"

\* Every request gets an answer: an update that raises lets the next one in.
EveryRequestAnswered == \A r \in Requests : req[r].pc \in Open ~> req[r].pc \in Over
=============================================================================
