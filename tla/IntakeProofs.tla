----------------------------- MODULE IntakeProofs -----------------------------
(* What admission guarantees for any number of uploads, files, failures and  *)
(* kills.  First the types and what holds whatever is wiped; on these, each  *)
(* by itself, the versions of a file, the bytes behind the records, the one  *)
(* workspace of the project, and how far its sources are processed.          *)
EXTENDS Intake, SequenceTheorems, TLAPS

Processing == {"keying", "superseding", "linking", "verifying", "extracting",
               "extracted", "cleaning", "cleaned", "reporting", "remembering"}
Holding    == {"writing"} \cup Processing
Opening    == {"new registry", "looking", "new operations", "opening"}
Unhoused   == {"idle", "mapping"} \cup Opening

-----------------------------------------------------------------------------
(* Types.                                                                  *)

\* What the memory of a request m has at its step.
Shaped(m) ==
    /\ m \in Memory
    /\ m.at \notin {"idle", "saving"} => m.files # <<>>
    /\ m.at \notin {"idle"} \cup Opening => m.ws \in Workspaces
    /\ m.at \in Holding => m.src \in Sources
    /\ m.at \in {"superseding", "linking"} => m.prior \in Sources

TypeInv == TypeOK /\ \A r \in Requests : Shaped(req[r])

LEMMA IdleShaped == Shaped(Idle)
BY DEF Shaped, Idle, Memory, Steps, Opening, Holding, Processing

LEMMA FileOf ==
    ASSUME TypeInv, NEW r \in Requests, ~At(r, "idle"), ~At(r, "saving")
    PROVE  File(r) \in Files /\ Tail(req[r].files) \in Seq(Files)
<1>1. req[r].files \in Seq(Files) /\ req[r].files # <<>>
  BY DEF TypeInv, Shaped, Memory, At
<1>2. QED
  BY <1>1, HeadTailProperties DEF File

\* A request that moves, and nothing that has a type of its own to keep.
LEMMA MoveShape ==
    ASSUME TypeInv, NEW r \in Requests, NEW m, Shaped(m), Keep(r, m)
    PROVE  req' \in [Requests -> Memory] /\ \A q \in Requests : Shaped(req'[q])
BY DEF TypeInv, TypeOK, Keep, Shaped

LEMMA TypeOpen ==
    ASSUME TypeInv, NEW r \in Requests, Open(r)
    PROVE  TypeInv'
<1>0. ASSUME NEW step \in {"accepting", "mapping"}, NEW w \in Workspaces
      PROVE  LET m == [req[r] EXCEPT !.at = step, !.ws = w]
             IN  m \in Memory /\ m.at = step /\ m.ws = w /\ m.files = req[r].files
  BY DEF TypeInv, Shaped, Memory, Steps
<1>1. ASSUME NEW upload \in Uploads, Ask(r, upload) PROVE TypeInv'
  <2>1. upload \in Seq(Files) /\ upload # <<>>
    BY <1>1, IntakeAssumption
  <2>2. \A step \in Opening : Shaped([Idle EXCEPT !.at = step, !.files = upload])
    BY <2>1 DEF Shaped, Idle, Memory, Steps, Opening, Holding, Processing
  <2>3. \E step \in Opening : Keep(r, [Idle EXCEPT !.at = step, !.files = upload])
    BY <1>1 DEF Ask, Opening
  <2>4. QED
    BY <1>1, <2>2, <2>3, MoveShape DEF TypeInv, TypeOK, Ask, ReadOnly, Outside, files, registry, operations
<1>2. CASE FindWorkspace(r)
  <2>1. home \in Workspaces /\ req[r].files # <<>>
    BY <1>2 DEF FindWorkspace, TypeInv, TypeOK, Shaped, At
  <2>2. Shaped([req[r] EXCEPT !.at = "accepting", !.ws = home])
    BY <1>0, <2>1 DEF Shaped, Opening, Holding, Processing
  <2>3. QED
    BY <1>2, <2>2, MoveShape DEF TypeInv, TypeOK, FindWorkspace, ReadOnly, Outside, files, registry, operations
<1>3. CASE CreateWorkspace(r)
  <2>1. PICK w \in Workspaces :
           /\ workspaces' = workspaces \cup {w}
           /\ Keep(r, [req[r] EXCEPT !.at = "mapping", !.ws = w])
    BY <1>3 DEF CreateWorkspace
  <2>2. Shaped([req[r] EXCEPT !.at = "mapping", !.ws = w])
    <3>1. req[r].files # <<>>
      BY <1>3 DEF CreateWorkspace, TypeInv, Shaped, At
    <3> QED BY <1>0, <3>1 DEF Shaped, Opening, Holding, Processing
  <2>3. QED
    BY <1>3, <2>1, <2>2, MoveShape DEF TypeInv, TypeOK, CreateWorkspace, OnlyWorkspaces, Outside, files, operations
<1>4. CASE MapWorkspace(r)
  <2>1. Shaped([req[r] EXCEPT !.at = "accepting"]) /\ req[r].ws \in Workspaces
    <3>1. req[r].files # <<>> /\ req[r].ws \in Workspaces
      BY <1>4 DEF MapWorkspace, TypeInv, Shaped, At, Opening
    <3>2. [req[r] EXCEPT !.at = "accepting"] = [req[r] EXCEPT !.at = "accepting", !.ws = req[r].ws]
      BY DEF TypeInv, Shaped, Memory
    <3>3. Shaped([req[r] EXCEPT !.at = "accepting", !.ws = req[r].ws])
      BY <1>0, <3>1 DEF Shaped, Opening, Holding, Processing
    <3> QED BY <3>1, <3>2, <3>3
  <2>2. QED
    BY <1>4, <2>1, MoveShape DEF TypeInv, TypeOK, MapWorkspace, Goto, OnlyOperations, Outside, files, registry
<1>5. \A step \in Opening : req[r].at \in Opening => Shaped([req[r] EXCEPT !.at = step])
  <2> SUFFICES ASSUME NEW step \in Opening, req[r].at \in Opening
               PROVE  Shaped([req[r] EXCEPT !.at = step])
    OBVIOUS
  <2> DEFINE m == [req[r] EXCEPT !.at = step]
  <2>1. req[r] \in Memory /\ req[r].files # <<>>
    BY DEF TypeInv, Shaped, Opening
  <2>2. m \in Memory /\ m.at = step /\ m.files = req[r].files
    BY <2>1 DEF Memory, Steps, Opening
  <2>3. QED
    BY <2>1, <2>2 DEF Shaped, Opening, Holding, Processing
<1>6. CASE LookForOperations(r)
  <2>1. req[r].at \in Opening /\ \E step \in Opening : Goto(r, step)
    BY <1>6 DEF LookForOperations, At, Opening
  <2>2. QED
    BY <1>5, <1>6, <2>1, MoveShape DEF LookForOperations, Goto, TypeInv, TypeOK,
       ReadOnly, Outside, files, registry, operations
<1>7. CASE NewRegistry(r)
  <2>1. NoRecord \in Records
    BY DEF NoRecord, Records, Statuses
  <2>2. source' \in [Sources -> Records] /\ derived' \in [Sources -> SUBSET Artifacts]
    BY <1>7, <2>1 DEF NewRegistry, TypeInv, TypeOK
  <2>3. Shaped([req[r] EXCEPT !.at = "looking"])
    BY <1>5, <1>7 DEF NewRegistry, At, Opening
  <2>4. QED
    BY <1>7, <2>2, <2>3, MoveShape DEF NewRegistry, Goto, TypeInv, TypeOK, operations
<1>8. CASE NewOperations(r)
  <2>1. Shaped([req[r] EXCEPT !.at = "opening"])
    BY <1>5, <1>8 DEF NewOperations, At, Opening
  <2>2. QED
    BY <1>8, <2>1, MoveShape DEF NewOperations, Goto, TypeInv, TypeOK, registry
<1>9. QED
  BY <1>1, <1>2, <1>3, <1>4, <1>6, <1>7, <1>8 DEF Open

LEMMA TypeAccept ==
    ASSUME TypeInv, NEW r \in Requests, Accept(r)
    PROVE  TypeInv'
<1>1. CASE RefuseDuplicate(r)
  BY <1>1, IdleShaped, MoveShape DEF TypeInv, TypeOK, RefuseDuplicate, Done, ReadOnly,
     Outside, files, registry, operations
<1>2. CASE WriteOriginal(r)
  <2>1. PICK s \in Sources :
           /\ originals' = originals \cup {s}
           /\ Keep(r, [req[r] EXCEPT !.at = "writing", !.src = s])
    BY <1>2 DEF WriteOriginal
  <2>2. Shaped([req[r] EXCEPT !.at = "writing", !.src = s])
    BY <1>2 DEF WriteOriginal, TypeInv, Shaped, Memory, Steps, Opening, Holding, Processing, At
  <2>3. QED
    BY <1>2, <2>1, <2>2, MoveShape DEF TypeInv, TypeOK, WriteOriginal, OnlyOriginals,
       Outside, files, registry, operations
<1>3. CASE Register(r)
  <2>1. File(r) \in Files
    BY <1>3, FileOf DEF Register, At
  <2>2. Shaped([req[r] EXCEPT !.at = "keying"]) /\ req[r].ws \in Workspaces
    BY <1>3 DEF Register, TypeInv, Shaped, Memory, Steps, Opening, Holding, Processing, At
  <2>3. source' \in [Sources -> Records]
    BY <1>3, <2>1, <2>2 DEF Register, TypeInv, TypeOK, Records, Statuses, Files
  <2>4. QED
    BY <1>3, <2>2, <2>3, MoveShape DEF TypeInv, TypeOK, Register, Goto, OnlySource,
       Outside, files, operations
<1>4. CASE RegisterRaises(r)
  BY <1>4, IdleShaped, MoveShape DEF TypeInv, TypeOK, RegisterRaises, Done, OnlyOriginals,
     Outside, files, registry, operations
<1>5. QED
  BY <1>1, <1>2, <1>3, <1>4 DEF Accept

LEMMA TypeReplace ==
    ASSUME TypeInv, NEW r \in Requests, Replace(r)
    PROVE  TypeInv'
<1>1. CASE ReadKey(r)
  <2>1. File(r) \in Files /\ req[r].ws \in Workspaces
    BY <1>1, FileOf DEF ReadKey, At, TypeInv, Shaped, Opening
  <2>2. Key(r) \in Workspaces \X Names
    BY <2>1 DEF Key, Files
  <2>3. keys[Key(r)] \in Sources \cup {NoSource}
    BY <2>2 DEF TypeInv, TypeOK
  <2>4. CASE keys[Key(r)] \in {NoSource, req[r].src}
    <3>1. Shaped([req[r] EXCEPT !.at = "verifying"])
      BY <1>1 DEF ReadKey, TypeInv, Shaped, Memory, Steps, Opening, Holding, Processing, At
    <3>2. QED
      BY <1>1, <2>4, <3>1, MoveShape DEF TypeInv, TypeOK, ReadKey, Goto, ReadOnly,
         Outside, files, registry, operations
  <2>5. CASE keys[Key(r)] \notin {NoSource, req[r].src}
    <3>1. Shaped([req[r] EXCEPT !.at = "superseding", !.prior = keys[Key(r)]])
      BY <1>1, <2>3, <2>5 DEF ReadKey, TypeInv, Shaped, Memory, Steps, Opening, Holding, Processing, At
    <3>2. QED
      BY <1>1, <2>5, <3>1, MoveShape DEF TypeInv, TypeOK, ReadKey, ReadOnly,
         Outside, files, registry, operations
  <2>6. QED
    BY <2>4, <2>5
<1>2. CASE SupersedePrevious(r)
  <2>1. Shaped([req[r] EXCEPT !.at = "linking"]) /\ req[r].prior \in Sources
    BY <1>2 DEF SupersedePrevious, TypeInv, Shaped, Memory, Steps, Opening, Holding, Processing, At
  <2>2. source' \in [Sources -> Records]
    <3>1. source \in [Sources -> Records] /\ req[r].prior \in Sources
      BY <2>1 DEF TypeInv, TypeOK
    <3>2. [source[req[r].prior] EXCEPT !.current = FALSE, !.status = "superseded"] \in Records
      BY <3>1 DEF Records, Statuses
    <3>3. QED
      BY <1>2, <3>1, <3>2 DEF SupersedePrevious
  <2>3. QED
    BY <1>2, <2>1, <2>2, MoveShape DEF TypeInv, TypeOK, SupersedePrevious, Goto, OnlySource,
       Outside, files, operations
<1>3. CASE LinkVersion(r)
  <2>1. /\ Shaped([req[r] EXCEPT !.at = "verifying"])
        /\ req[r].prior \in Sources /\ req[r].src \in Sources
    BY <1>3 DEF LinkVersion, TypeInv, Shaped, Memory, Steps, Opening, Holding, Processing, At
  <2>2. source' \in [Sources -> Records]
    BY <1>3, <2>1 DEF LinkVersion, TypeInv, TypeOK, Records, Statuses
  <2>3. QED
    BY <1>3, <2>1, <2>2, MoveShape DEF TypeInv, TypeOK, LinkVersion, Goto, OnlySource,
       Outside, files, operations
<1>4. QED
  BY <1>1, <1>2, <1>3 DEF Replace

LEMMA TypeMake ==
    ASSUME TypeInv, NEW r \in Requests, NEW now \in Processing, NEW next \in Processing,
           NEW artifact \in Artifacts, next \notin {"superseding", "linking"},
           Make(r, now, artifact, next)
    PROVE  TypeInv'
<1>1. Shaped([req[r] EXCEPT !.at = next]) /\ req[r].src \in Sources
  BY DEF Make, TypeInv, Shaped, Memory, Steps, Opening, Holding, Processing, At
<1>2. derived' \in [Sources -> SUBSET Artifacts]
  BY <1>1 DEF Make, TypeInv, TypeOK
<1>3. QED
  BY <1>1, <1>2, MoveShape DEF TypeInv, TypeOK, Make, Goto, OnlyDerived, Outside, files,
     registry, operations

LEMMA TypeProcess ==
    ASSUME TypeInv, NEW r \in Requests, Process(r)
    PROVE  TypeInv'
<1>1. CASE Verify(r)
  <2>1. Shaped([req[r] EXCEPT !.at = "extracting"]) /\ req[r].src \in Sources
    BY <1>1 DEF Verify, TypeInv, Shaped, Memory, Steps, Opening, Holding, Processing, At
  <2>2. source' \in [Sources -> Records]
    BY <1>1, <2>1 DEF Verify, TypeInv, TypeOK, Records, Statuses
  <2>3. CASE req[r].src \in originals
    BY <1>1, <2>1, <2>2, <2>3, MoveShape DEF TypeInv, TypeOK, Verify, Goto, OnlySource,
       Outside, files, operations
  <2>4. CASE req[r].src \notin originals
    BY <1>1, <2>2, <2>4, IdleShaped, MoveShape DEF TypeInv, TypeOK, Verify, Done, OnlySource,
       Outside, files, operations
  <2>5. QED
    BY <2>3, <2>4
<1>2. CASE WriteExtraction(r)
  BY <1>2, TypeMake DEF WriteExtraction, Processing, Artifacts
<1>3. CASE AddExtraction(r)
  BY <1>3, TypeMake DEF AddExtraction, Processing, Artifacts
<1>4. CASE WriteCleaned(r)
  BY <1>4, TypeMake DEF WriteCleaned, Processing, Artifacts
<1>5. CASE AddCleaned(r)
  BY <1>5, TypeMake DEF AddCleaned, Processing, Artifacts
<1>6. CASE SaveReport(r)
  BY <1>6, TypeMake DEF SaveReport, Processing, Artifacts
<1>7. CASE Fail(r)
  BY <1>7, IdleShaped, MoveShape DEF TypeInv, TypeOK, Fail, Done, ReadOnly, Outside, files,
     registry, operations
<1>8. QED
  BY <1>1, <1>2, <1>3, <1>4, <1>5, <1>6, <1>7 DEF Process

LEMMA TypeFinish ==
    ASSUME TypeInv, NEW r \in Requests, Finish(r)
    PROVE  TypeInv'
<1>1. CASE RememberSourceKey(r)
  <2>1. /\ File(r) \in Files /\ Tail(req[r].files) \in Seq(Files)
        /\ req[r].ws \in Workspaces /\ req[r].src \in Sources
    BY <1>1, FileOf DEF RememberSourceKey, At, TypeInv, Shaped, Opening, Holding, Processing
  <2>2. keys' \in [Workspaces \X Names -> Sources \cup {NoSource}]
    BY <1>1, <2>1 DEF RememberSourceKey, TypeInv, TypeOK
  <2>3. ASSUME NEW step \in {"saving", "accepting"},
               step = IF Tail(req[r].files) = <<>> THEN "saving" ELSE "accepting"
        PROVE  Shaped([req[r] EXCEPT !.at = step, !.files = Tail(req[r].files),
                                     !.done = @ \cup {req[r].src},
                                     !.src = NoSource, !.prior = NoSource])
    BY <1>1, <2>1, <2>3 DEF RememberSourceKey, TypeInv, Shaped, Memory, Steps, Opening, Holding,
       Processing, At
  <2>4. QED
    BY <1>1, <2>2, <2>3, MoveShape DEF TypeInv, TypeOK, RememberSourceKey, OnlyOperations,
       Outside, files, registry
<1>2. CASE SaveOperation(r)
  <2>1. req[r].done \subseteq Sources
    BY DEF TypeInv, Shaped, Memory
  <2>2. QED
    BY <1>2, <2>1, IdleShaped, MoveShape DEF TypeInv, TypeOK, SaveOperation, Done,
       OnlyOperations, Outside, files, registry
<1>3. QED
  BY <1>1, <1>2 DEF Finish

LEMMA TypeRecover ==
    ASSUME TypeInv, Recover
    PROVE  TypeInv'
<1>1. UNCHANGED <<made, wiped, workspaces, home, source, derived, keys, listed, req, crashes>>
  BY DEF files, Recover, ReadKnown, ListFiles, EndRecover, DeleteOrphan, ReadOnly, OnlyOriginals,
     registry, operations
<1>2. originals' \subseteq Sources
  BY DEF TypeInv, TypeOK, Recover, ReadKnown, ListFiles, EndRecover, DeleteOrphan, ReadOnly
<1>3. sweep' \in Sweeps
  <2>1. NoSweep \in Sweeps
    BY DEF NoSweep, Sweeps
  <2>2. CASE ReadKnown
    BY <2>2 DEF ReadKnown, NoSweep, Sweeps, Registered
  <2>3. CASE ListFiles
    BY <2>3 DEF ListFiles, Sweeps, TypeInv, TypeOK
  <2>4. ASSUME NEW s \in Sources, DeleteOrphan(s) PROVE sweep' \in Sweeps
    BY <2>1, <2>4 DEF DeleteOrphan, Sweeps, TypeInv, TypeOK
  <2>5. QED
    BY <2>1, <2>2, <2>3, <2>4 DEF Recover, EndRecover
<1>4. QED
  BY <1>1, <1>2, <1>3 DEF TypeInv, TypeOK, Shaped

LEMMA TypeCrash ==
    ASSUME TypeInv, Crash
    PROVE  TypeInv'
<1>1. Idle \in Memory /\ NoSweep \in Sweeps
  BY IdleShaped DEF Shaped, NoSweep, Sweeps
<1>2. QED
  BY <1>1, IdleShaped, IntakeAssumption DEF TypeInv, TypeOK, Crash, ReadOnly, files, registry, operations

LEMMA TypeStart == Init => TypeInv
<1>1. Idle \in Memory /\ NoSweep \in Sweeps /\ NoRecord \in Records
  BY IdleShaped DEF Shaped, NoSweep, Sweeps, NoRecord, Records, Statuses
<1>2. QED
  BY <1>1, IdleShaped, IntakeAssumption DEF Init, TypeInv, TypeOK

LEMMA TypeStep == TypeInv /\ [Next]_vars => TypeInv'
<1> SUFFICES ASSUME TypeInv, [Next]_vars PROVE TypeInv'
  OBVIOUS
<1>1. CASE UNCHANGED vars
  BY <1>1 DEF TypeInv, TypeOK, vars, Shaped
<1>2. CASE Next
  BY <1>2, TypeOpen, TypeAccept, TypeReplace, TypeProcess, TypeFinish, TypeRecover,
     TypeCrash DEF Next
<1>3. QED
  BY <1>1, <1>2

\* The store, the records, the requests and recover keep their types.
THEOREM TypeCorrect == Spec => []TypeOK
<1>1. TypeInv => TypeOK
  BY DEF TypeInv
<1>2. QED
  BY <1>1, TypeStart, TypeStep, PTL DEF Spec

-----------------------------------------------------------------------------
(* What holds whatever is wiped: each source has one writer, a content is  *)
(* one source of its workspace, and the report of a source is the last     *)
(* thing that is made of it.                                               *)

Single(step) == \A q, r \in Requests : At(q, step) /\ At(r, step) => q = r
Owned == \A q, r \in Requests :
    req[q].at \in Holding /\ req[r].at \in Holding /\ req[q].src = req[r].src => q = r
NewContent ==
    \A r \in Requests : At(r, "writing") =>
        /\ req[r].src \notin Registered
        /\ \A t \in Registered : source[t].ws = req[r].ws
                                    => source[t].content # File(r).content
UniqueHere ==
    \A s, t \in Registered :
        source[s].content = source[t].content /\ source[s].ws = source[t].ws => s = t

Reported   == {s \in Sources : "report" \in derived[s]}
Reports(m) ==
    /\ m.at \in Holding \ {"remembering"} => m.src \notin Reported
    /\ m.at = "remembering" => m.src \in Reported
    /\ m.at \in {"superseding", "linking"} => m.prior \in Reported
    /\ m.done \subseteq Reported
Remembered ==
    /\ \A k \in Workspaces \X Names : keys[k] # NoSource => keys[k] \in Reported
    /\ listed \subseteq Reported

Own   == /\ Single("mapping") /\ Single("writing") /\ Owned /\ NewContent /\ UniqueHere
         /\ (\A r \in Requests : Reports(req[r])) /\ Remembered
Basis == TypeInv /\ Own

\* Who and what a source is does not change, but for the ones that are lost.
SameIdentity ==
    \A s \in Registered' : /\ s \in Registered
                            /\ source'[s].ws = source[s].ws
                            /\ source'[s].content = source[s].content

LEMMA SameRecords ==
    ASSUME UNCHANGED source
    PROVE  SameIdentity
BY DEF SameIdentity, Registered

\* The memory of the requests after one of them has moved.
LEMMA KeepIs ==
    ASSUME TypeInv, NEW r \in Requests, NEW m, Keep(r, m)
    PROVE  req'[r] = m /\ \A q \in Requests \ {r} : req'[q] = req[q]
BY DEF Keep, TypeInv, TypeOK

LEMMA GotoIs ==
    ASSUME TypeInv, NEW r \in Requests, NEW step, Goto(r, step)
    PROVE  /\ req'[r] = [req[r] EXCEPT !.at = step]
           /\ req'[r].at = step /\ req'[r].files = req[r].files /\ req'[r].ws = req[r].ws
           /\ req'[r].src = req[r].src /\ req'[r].prior = req[r].prior
           /\ req'[r].done = req[r].done
           /\ \A q \in Requests \ {r} : req'[q] = req[q]
BY KeepIs DEF Goto, TypeInv, Shaped, Memory

LEMMA DoneIs ==
    ASSUME TypeInv, NEW r \in Requests, Done(r)
    PROVE  req'[r] = Idle /\ \A q \in Requests \ {r} : req'[q] = req[q]
BY KeepIs DEF Done

\* What the other steps make of the memory of a request.
LEMMA MoveIs ==
    ASSUME TypeInv, NEW r \in Requests
    PROVE  /\ \A q \in Requests \ {r} : Open(r) \/ Accept(r) \/ Replace(r) \/ Process(r) \/ Finish(r)
                                            => req'[q] = req[q]
           /\ \A upload \in Uploads : Ask(r, upload) =>
                req'[r].at \in {"looking", "new registry"} /\ req'[r].done = {}
           /\ FindWorkspace(r) => /\ req'[r].at = "accepting" /\ req'[r].ws = home
                                  /\ req'[r].done = req[r].done
           /\ CreateWorkspace(r) => /\ req'[r].at = "mapping" /\ req'[r].ws \in Workspaces
                                    /\ req'[r].done = req[r].done
           /\ WriteOriginal(r) =>
                /\ req'[r].at = "writing" /\ NewSource(req'[r].src) /\ req'[r].src \in Sources
                /\ originals' = originals \cup {req'[r].src}
                /\ req'[r].ws = req[r].ws /\ req'[r].files = req[r].files
                /\ req'[r].done = req[r].done
           /\ ReadKey(r) /\ keys[Key(r)] \notin {NoSource, req[r].src} =>
                /\ req'[r].at = "superseding" /\ req'[r].prior = keys[Key(r)]
                /\ req'[r].ws = req[r].ws /\ req'[r].src = req[r].src
                /\ req'[r].done = req[r].done
           /\ RememberSourceKey(r) =>
                /\ req'[r].at \in {"saving", "accepting"} /\ req'[r].ws = req[r].ws
                /\ req'[r].done = req[r].done \cup {req[r].src}
<1>1. req[r] \in Memory
  BY DEF TypeInv, Shaped
<1>2. ASSUME NEW q \in Requests \ {r}, Open(r) \/ Accept(r) \/ Replace(r) \/ Process(r) \/ Finish(r)
      PROVE  req'[q] = req[q]
  <2>1. \E m : Keep(r, m)
    BY <1>2 DEF Open, Ask, LookForOperations, NewRegistry, NewOperations,
       FindWorkspace, CreateWorkspace, MapWorkspace, Accept, RefuseDuplicate, WriteOriginal,
       Register, RegisterRaises, Replace, ReadKey, SupersedePrevious, LinkVersion, Process,
       Verify, WriteExtraction, AddExtraction, WriteCleaned, AddCleaned, SaveReport, Make, Fail,
       Finish, RememberSourceKey, SaveOperation, Goto, Done
  <2> QED BY <2>1, KeepIs
<1>3. ASSUME NEW upload \in Uploads, Ask(r, upload)
      PROVE  req'[r].at \in {"looking", "new registry"} /\ req'[r].done = {}
  <2>1. \E step \in {"looking", "new registry"} :
           req'[r] = [Idle EXCEPT !.at = step, !.files = upload]
    BY <1>3, KeepIs DEF Ask
  <2> QED BY <2>1 DEF Idle
<1>4. ASSUME FindWorkspace(r)
      PROVE  req'[r].at = "accepting" /\ req'[r].ws = home /\ req'[r].done = req[r].done
  <2>1. req'[r] = [req[r] EXCEPT !.at = "accepting", !.ws = home]
    BY <1>4, KeepIs DEF FindWorkspace
  <2> QED BY <1>1, <2>1 DEF Memory
<1>5. ASSUME CreateWorkspace(r)
      PROVE  req'[r].at = "mapping" /\ req'[r].ws \in Workspaces /\ req'[r].done = req[r].done
  <2>1. PICK w \in Workspaces : Keep(r, [req[r] EXCEPT !.at = "mapping", !.ws = w])
    BY <1>5 DEF CreateWorkspace
  <2>2. req'[r] = [req[r] EXCEPT !.at = "mapping", !.ws = w]
    BY <2>1, KeepIs
  <2> QED BY <1>1, <2>2 DEF Memory
<1>6. ASSUME WriteOriginal(r)
      PROVE  /\ req'[r].at = "writing" /\ NewSource(req'[r].src) /\ req'[r].src \in Sources
             /\ originals' = originals \cup {req'[r].src}
             /\ req'[r].ws = req[r].ws /\ req'[r].files = req[r].files
             /\ req'[r].done = req[r].done
  <2>1. PICK s \in Sources : /\ NewSource(s) /\ originals' = originals \cup {s}
                             /\ Keep(r, [req[r] EXCEPT !.at = "writing", !.src = s])
    BY <1>6 DEF WriteOriginal
  <2>2. req'[r] = [req[r] EXCEPT !.at = "writing", !.src = s]
    BY <2>1, KeepIs
  <2> QED BY <1>1, <2>1, <2>2 DEF Memory
<1>7. ASSUME ReadKey(r), keys[Key(r)] \notin {NoSource, req[r].src}
      PROVE  /\ req'[r].at = "superseding" /\ req'[r].prior = keys[Key(r)]
             /\ req'[r].ws = req[r].ws /\ req'[r].src = req[r].src
             /\ req'[r].done = req[r].done
  <2>1. req'[r] = [req[r] EXCEPT !.at = "superseding", !.prior = keys[Key(r)]]
    BY <1>7, KeepIs DEF ReadKey
  <2> QED BY <1>1, <2>1 DEF Memory
<1>8. ASSUME RememberSourceKey(r)
      PROVE  /\ req'[r].at \in {"saving", "accepting"} /\ req'[r].ws = req[r].ws
             /\ req'[r].done = req[r].done \cup {req[r].src}
  <2>1. req'[r] = [req[r] EXCEPT
                     !.at = IF Tail(req[r].files) = <<>> THEN "saving" ELSE "accepting",
                     !.files = Tail(req[r].files), !.done = @ \cup {req[r].src},
                     !.src = NoSource, !.prior = NoSource]
    BY <1>8, KeepIs DEF RememberSourceKey
  <2> QED BY <1>1, <2>1 DEF Memory
<1> QED BY <1>2, <1>3, <1>4, <1>5, <1>6, <1>7, <1>8

\* A request that moves on with its source, or without one, and takes no lock
\* over the end of the step.
LEMMA OwnMove ==
    ASSUME Basis, NEW r \in Requests, \A q \in Requests \ {r} : req'[q] = req[q],
           SameIdentity, UNCHANGED Reported, Remembered', Reports(req'[r]),
           req'[r].at \notin {"mapping", "writing"},
           req'[r].at \in Holding => req[r].at \in Holding /\ req'[r].src = req[r].src
    PROVE  Own'
<1>1. Single("mapping")' /\ Single("writing")' /\ Owned'
  BY DEF Basis, Own, Single, Owned, At
<1>2. NewContent'
  BY DEF Basis, Own, NewContent, SameIdentity, At, File
<1>3. UniqueHere'
  BY DEF Basis, Own, UniqueHere, SameIdentity
<1>4. \A q \in Requests : Reports(req[q])'
  BY DEF Basis, Own, Reports
<1> QED BY <1>1, <1>2, <1>3, <1>4 DEF Own

\* The names and the saved operations are left alone, or emptied.
LEMMA StillRemembered ==
    ASSUME Basis, UNCHANGED Reported,
           \/ UNCHANGED <<keys, listed>>
           \/ listed' = {} /\ keys' = [k \in Workspaces \X Names |-> NoSource]
    PROVE  Remembered'
BY DEF Basis, Own, Remembered

LEMMA OwnIdle ==
    ASSUME Basis, NEW r \in Requests, Done(r), SameIdentity, UNCHANGED <<Reported, keys, listed>>
    PROVE  Own'
<1>1. req'[r] = Idle /\ \A q \in Requests \ {r} : req'[q] = req[q]
  BY DoneIs DEF Basis
<1>2. Reports(Idle) /\ Idle.at = "idle"
  BY DEF Reports, Idle, Holding, Processing
<1> QED BY <1>1, <1>2, OwnMove, StillRemembered DEF Holding, Processing

LEMMA OwnGoto ==
    ASSUME Basis, NEW r \in Requests, NEW step, Goto(r, step), SameIdentity,
           UNCHANGED Reported, Remembered',
           step \notin {"mapping", "writing", "remembering", "superseding"},
           step \in Holding => req[r].at \in Holding \ {"remembering"},
           step = "linking" => req[r].at = "superseding"
    PROVE  Own'
<1>1. /\ req'[r].at = step /\ req'[r].src = req[r].src /\ req'[r].prior = req[r].prior
      /\ req'[r].done = req[r].done /\ \A q \in Requests \ {r} : req'[q] = req[q]
  BY GotoIs DEF Basis
<1>2. Reports(req'[r])
  BY <1>1 DEF Basis, Own, Reports
<1> QED BY <1>1, <1>2, OwnMove

\* A request that has no source yet.
LEMMA OwnEarly ==
    ASSUME Basis, NEW r \in Requests, Open(r), SameIdentity, UNCHANGED Reported, Remembered',
           req'[r].at \in Opening \cup {"accepting"}, req'[r].done \subseteq req[r].done
    PROVE  Own'
<1>1. Reports(req'[r]) /\ req'[r].at \notin Holding
  BY DEF Basis, Own, Reports, Holding, Processing, Opening
<1> QED BY <1>1, MoveIs, OwnMove DEF Basis, Opening

LEMMA OwnOpen ==
    ASSUME Basis, NEW r \in Requests, Open(r)
    PROVE  Own'
<1>1. UNCHANGED Reported /\ SameIdentity
  <2>1. CASE NewRegistry(r)
    <3>1. Registered' = {}
      BY <2>1 DEF NewRegistry, Registered, NoRecord
    <3>2. Reported' = Reported
      BY <2>1 DEF NewRegistry, Reported, InRegistry
    <3> QED BY <3>1, <3>2 DEF SameIdentity
  <2>2. CASE ~NewRegistry(r)
    <3>1. UNCHANGED <<source, derived>>
      BY <2>2 DEF Open, Ask, LookForOperations, NewOperations, FindWorkspace,
         CreateWorkspace, MapWorkspace, ReadOnly, OnlyWorkspaces, OnlyOperations, registry
    <3> QED BY <3>1, SameRecords DEF Reported
  <2> QED BY <2>1, <2>2
<1>2. Remembered'
  <2>1. \/ UNCHANGED <<keys, listed>>
        \/ listed' = {} /\ keys' = [k \in Workspaces \X Names |-> NoSource]
    BY DEF Open, Ask, LookForOperations, NewRegistry, NewOperations, FindWorkspace,
       CreateWorkspace, MapWorkspace, ReadOnly, OnlyWorkspaces, OnlyOperations, operations
  <2> QED BY <1>1, <2>1, StillRemembered
<1>3. CASE CreateWorkspace(r)
  <2>1. /\ req'[r].at = "mapping" /\ req'[r].done = req[r].done
        /\ \A q \in Requests \ {r} : req'[q] = req[q]
        /\ \A q \in Requests : ~At(q, "mapping")
    BY <1>3, MoveIs DEF Basis, CreateWorkspace, OperationsFree
  <2>2. Single("mapping")' /\ Single("writing")' /\ Owned'
    BY <2>1 DEF Basis, Own, Single, Owned, At, Holding, Processing
  <2>3. NewContent' /\ UniqueHere'
    <3>1. UNCHANGED source
      BY <1>3 DEF CreateWorkspace, OnlyWorkspaces
    <3> QED BY <2>1, <3>1 DEF Basis, Own, NewContent, UniqueHere, Registered, At, File
  <2>4. \A q \in Requests : Reports(req[q])'
    BY <1>1, <2>1 DEF Basis, Own, Reports, Holding, Processing
  <2> QED BY <1>2, <2>2, <2>3, <2>4 DEF Own
<1>4. CASE ~CreateWorkspace(r)
  <2>1. req'[r].at \in Opening \cup {"accepting"} /\ req'[r].done \subseteq req[r].done
    <3>1. ASSUME NEW step \in Opening \cup {"accepting"}, Goto(r, step)
          PROVE  req'[r].at = step /\ req'[r].done = req[r].done
      BY <3>1, GotoIs DEF Basis
    <3>2. \/ \E upload \in Uploads : Ask(r, upload)
          \/ FindWorkspace(r)
          \/ \E step \in Opening \cup {"accepting"} : Goto(r, step)
      BY <1>4 DEF Open, LookForOperations, NewRegistry, NewOperations,
         MapWorkspace, Opening
    <3> QED BY <3>1, <3>2, MoveIs DEF Basis, Opening
  <2> QED BY <1>1, <1>2, <2>1, OwnEarly
<1> QED BY <1>3, <1>4

LEMMA OwnAccept ==
    ASSUME Basis, NEW r \in Requests, Accept(r)
    PROVE  Own'
<1>1. UNCHANGED <<derived, keys, listed>> /\ UNCHANGED Reported
  BY DEF Accept, RefuseDuplicate, WriteOriginal, Register, RegisterRaises, ReadOnly,
     OnlyOriginals, OnlySource, registry, operations, Reported
<1>2. Remembered'
  BY <1>1, StillRemembered
<1>3. CASE RefuseDuplicate(r) \/ RegisterRaises(r)
  BY <1>1, <1>3, SameRecords, OwnIdle
  DEF RefuseDuplicate, RegisterRaises, ReadOnly, OnlyOriginals, registry
<1>4. CASE WriteOriginal(r)
  <2>1. /\ req'[r].at = "writing" /\ NewSource(req'[r].src) /\ req'[r].src \in Sources
        /\ req'[r].ws = req[r].ws /\ req'[r].files = req[r].files /\ req'[r].done = req[r].done
        /\ \A q \in Requests \ {r} : req'[q] = req[q]
    BY <1>4, MoveIs DEF Basis, Accept
  <2>2. /\ \A q \in Requests : ~At(q, "writing")
        /\ UNCHANGED source /\ Same(r) = {}
    BY <1>4 DEF WriteOriginal, RegistryFree, OnlyOriginals, registry
  <2>3. Single("mapping")' /\ Single("writing")' /\ Owned'
    BY <2>1, <2>2 DEF Basis, Own, Single, Owned, NewSource, At
  <2>4. NewContent'
    BY <2>1, <2>2 DEF NewContent, NewSource, Registered, Same, At, File
  <2>5. UniqueHere'
    BY <2>2 DEF Basis, Own, UniqueHere, Registered
  <2>6. \A q \in Requests : Reports(req[q])'
    BY <1>1, <2>1 DEF Basis, Own, Reports, NewSource, Reported
  <2> QED BY <1>2, <2>3, <2>4, <2>5, <2>6 DEF Own
<1>5. CASE Register(r)
  <2>1. /\ req[r].at = "writing" /\ req[r].src \in Sources \ Registered
        /\ \A t \in Registered : source[t].ws = req[r].ws => source[t].content # File(r).content
    BY <1>5 DEF Register, At, Basis, Own, NewContent, TypeInv, Shaped, Holding
  <2>2. /\ req'[r].at = "keying" /\ req'[r].src = req[r].src /\ req'[r].done = req[r].done
        /\ \A q \in Requests \ {r} : req'[q] = req[q] /\ ~At(q, "writing")
    BY <1>5, <2>1, GotoIs DEF Register, Basis, Own, Single, At
  <2>3. /\ source'[req[r].src].ws = req[r].ws
        /\ source'[req[r].src].content = File(r).content
        /\ source'[req[r].src].status = "accepted"
        /\ \A s \in Sources \ {req[r].src} : source'[s] = source[s]
    BY <1>5, <2>1 DEF Register, Basis, TypeInv, TypeOK
  <2>4. Registered' = Registered \cup {req[r].src}
    BY <2>1, <2>3 DEF Registered
  <2>5. Single("mapping")' /\ Single("writing")' /\ Owned'
    BY <2>1, <2>2 DEF Basis, Own, Single, Owned, At, Holding, Processing
  <2>6. NewContent'
    BY <2>2 DEF NewContent, At
  <2>7. UniqueHere'
    BY <2>1, <2>3, <2>4 DEF Basis, Own, UniqueHere, Registered
  <2>8. \A q \in Requests : Reports(req[q])'
    BY <1>1, <2>1, <2>2 DEF Basis, Own, Reports, Holding, Processing
  <2> QED BY <1>2, <2>5, <2>6, <2>7, <2>8 DEF Own
<1> QED BY <1>3, <1>4, <1>5 DEF Accept

\* The steps that write to a record leave the other records, and who it is.
LEMMA OneRecord ==
    ASSUME TypeInv, NEW t \in Registered, \A s \in Sources \ {t} : source'[s] = source[s],
           source'[t].ws = source[t].ws, source'[t].content = source[t].content
    PROVE  SameIdentity
BY DEF SameIdentity, Registered

LEMMA RecordIs ==
    ASSUME TypeInv, NEW r \in Requests
    PROVE  /\ SupersedePrevious(r) =>
                /\ req[r].prior \in Registered /\ req[r].src \in Registered
                /\ source'[req[r].prior] =
                     [source[req[r].prior] EXCEPT !.current = FALSE, !.status = "superseded"]
                /\ source'[req[r].prior].ws = source[req[r].prior].ws
                /\ source'[req[r].prior].content = source[req[r].prior].content
                /\ source'[req[r].prior].status = "superseded"
                /\ \A s \in Sources \ {req[r].prior} : source'[s] = source[s]
           /\ LinkVersion(r) =>
                /\ req[r].src \in Registered
                /\ source'[req[r].src] = [source[req[r].src] EXCEPT
                     !.previous = req[r].prior, !.current = TRUE, !.status = "ready"]
                /\ source'[req[r].src].ws = source[req[r].src].ws
                /\ source'[req[r].src].content = source[req[r].src].content
                /\ source'[req[r].src].status = "ready"
                /\ \A s \in Sources \ {req[r].src} : source'[s] = source[s]
           /\ Verify(r) /\ req[r].src \notin originals =>
                /\ req[r].src \in Registered
                /\ source'[req[r].src] =
                     [source[req[r].src] EXCEPT !.status = "requires_reintake"]
                /\ source'[req[r].src].ws = source[req[r].src].ws
                /\ source'[req[r].src].content = source[req[r].src].content
                /\ source'[req[r].src].status = "requires_reintake"
                /\ \A s \in Sources \ {req[r].src} : source'[s] = source[s]
<1>1. \A s \in Registered : s \in Sources /\ source[s] \in Records
  BY DEF TypeInv, TypeOK, Registered
<1>2. source \in [Sources -> Records]
  BY DEF TypeInv, TypeOK
<1>3. ASSUME SupersedePrevious(r)
      PROVE  /\ req[r].prior \in Registered /\ req[r].src \in Registered
             /\ source'[req[r].prior] =
                  [source[req[r].prior] EXCEPT !.current = FALSE, !.status = "superseded"]
             /\ \A s \in Sources \ {req[r].prior} : source'[s] = source[s]
  BY <1>1, <1>2, <1>3 DEF SupersedePrevious
<1>4. ASSUME LinkVersion(r)
      PROVE  /\ req[r].src \in Registered
             /\ source'[req[r].src] = [source[req[r].src] EXCEPT
                  !.previous = req[r].prior, !.current = TRUE, !.status = "ready"]
             /\ \A s \in Sources \ {req[r].src} : source'[s] = source[s]
  BY <1>1, <1>2, <1>4 DEF LinkVersion
<1>5. ASSUME Verify(r), req[r].src \notin originals
      PROVE  /\ req[r].src \in Registered
             /\ source'[req[r].src] = [source[req[r].src] EXCEPT !.status = "requires_reintake"]
             /\ \A s \in Sources \ {req[r].src} : source'[s] = source[s]
  BY <1>1, <1>2, <1>5 DEF Verify
<1> QED BY <1>1, <1>3, <1>4, <1>5 DEF Records

\* These writes lose no record, and the others leave the records alone.
LEMMA SameInRequest ==
    ASSUME TypeInv, NEW r \in Requests, Replace(r) \/ Process(r) \/ Finish(r)
    PROVE  SameIdentity
<1>1. \/ UNCHANGED source \/ SupersedePrevious(r) \/ LinkVersion(r)
      \/ Verify(r) /\ req[r].src \notin originals
  BY DEF Replace, ReadKey, Process, Verify, WriteExtraction, AddExtraction, WriteCleaned,
     AddCleaned, SaveReport, Make, Fail, Finish, RememberSourceKey, SaveOperation, ReadOnly,
     OnlyDerived, OnlyOperations, registry
<1> QED BY <1>1, SameRecords, RecordIs, OneRecord

LEMMA OwnReplace ==
    ASSUME Basis, NEW r \in Requests, Replace(r)
    PROVE  Own'
<1>1. SameIdentity
  BY SameInRequest DEF Basis
<1>2. UNCHANGED <<keys, listed>> /\ UNCHANGED Reported
  BY DEF Replace, ReadKey, SupersedePrevious, LinkVersion, ReadOnly, OnlySource, operations,
     Reported
<1>3. Remembered'
  BY <1>2, StillRemembered
<1>4. CASE ReadKey(r) /\ keys[Key(r)] \notin {NoSource, req[r].src}
  <2>1. /\ req'[r].at = "superseding" /\ req'[r].prior = keys[Key(r)]
        /\ req'[r].src = req[r].src /\ req'[r].done = req[r].done
        /\ \A q \in Requests \ {r} : req'[q] = req[q]
    BY <1>4, MoveIs DEF Basis
  <2>2. Key(r) \in Workspaces \X Names /\ req[r].at = "keying"
    BY <1>4, FileOf DEF ReadKey, At, Basis, TypeInv, Shaped, Opening, Key, Files
  <2>3. keys[Key(r)] \in Reported
    BY <1>4, <2>2 DEF Basis, Own, Remembered
  <2>4. Reports(req'[r])
    BY <2>1, <2>2, <2>3 DEF Basis, Own, Reports, Holding, Processing
  <2> QED BY <1>1, <1>2, <1>3, <2>1, <2>2, <2>4, OwnMove DEF Holding, Processing
<1>5. CASE ~(ReadKey(r) /\ keys[Key(r)] \notin {NoSource, req[r].src})
  <2>1. \/ At(r, "keying") /\ Goto(r, "verifying")
        \/ At(r, "superseding") /\ Goto(r, "linking")
        \/ At(r, "linking") /\ Goto(r, "verifying")
    BY <1>5 DEF Replace, ReadKey, SupersedePrevious, LinkVersion
  <2> QED BY <1>1, <1>2, <1>3, <2>1, OwnGoto DEF At, Holding, Processing
<1> QED BY <1>4, <1>5

LEMMA OwnProcess ==
    ASSUME Basis, NEW r \in Requests, Process(r)
    PROVE  Own'
<1>1. SameIdentity
  BY SameInRequest DEF Basis
<1>2. UNCHANGED <<keys, listed>>
  BY DEF Process, Verify, WriteExtraction, AddExtraction, WriteCleaned, AddCleaned, SaveReport,
     Make, Fail, ReadOnly, OnlySource, OnlyDerived, operations
<1>3. CASE SaveReport(r)
  <2>1. /\ req'[r].at = "remembering" /\ req'[r].src = req[r].src /\ req'[r].done = req[r].done
        /\ req[r].at = "reporting" /\ \A q \in Requests \ {r} : req'[q] = req[q]
    BY <1>3, GotoIs DEF SaveReport, Make, At, Basis
  <2>2. req[r].src \in Sources
    BY <2>1 DEF Basis, TypeInv, Shaped, Holding, Processing
  <2>3. Reported' = Reported \cup {req[r].src}
    BY <1>3, <2>2 DEF SaveReport, Make, Reported, Basis, TypeInv, TypeOK
  <2>4. Single("mapping")' /\ Single("writing")' /\ Owned'
    BY <2>1 DEF Basis, Own, Single, Owned, At, Holding, Processing
  <2>5. NewContent' /\ UniqueHere'
    BY <1>1, <2>1 DEF Basis, Own, NewContent, UniqueHere, SameIdentity, At, File
  <2>6. \A q \in Requests \ {r} : req[q].at \in Holding => req[q].src # req[r].src
    BY <2>1 DEF Basis, Own, Owned, Holding, Processing
  <2>7. \A q \in Requests : Reports(req[q])'
    BY <2>1, <2>3, <2>6 DEF Basis, Own, Reports, Holding, Processing
  <2>8. Remembered'
    BY <1>2, <2>3 DEF Basis, Own, Remembered
  <2> QED BY <2>4, <2>5, <2>7, <2>8 DEF Own
<1>4. CASE ~SaveReport(r)
  <2>1. Reported' = Reported
    <3>1. CASE UNCHANGED derived
      BY <3>1 DEF Reported
    <3>2. ASSUME NEW artifact \in Artifacts \ {"report"},
                 derived' = [derived EXCEPT ![req[r].src] = @ \cup {artifact}]
          PROVE  Reported' = Reported
      <4>1. \A s \in Sources : derived'[s] \in {derived[s], derived[s] \cup {artifact}}
        BY <3>2 DEF Basis, TypeInv, TypeOK
      <4> QED BY <4>1 DEF Reported
    <3>3. \/ UNCHANGED derived
          \/ \E artifact \in Artifacts \ {"report"} :
               derived' = [derived EXCEPT ![req[r].src] = @ \cup {artifact}]
      BY <1>4 DEF Process, Verify, WriteExtraction, AddExtraction, WriteCleaned, AddCleaned, Make,
         Fail, ReadOnly, OnlySource, Artifacts
    <3> QED BY <3>1, <3>2, <3>3
  <2>2. Remembered'
    BY <1>2, <2>1, StillRemembered
  <2>3. \/ Done(r)
        \/ /\ req[r].at \in Holding \ {"remembering"}
           /\ \E step \in {"extracting", "extracted", "cleaning", "cleaned", "reporting"} : Goto(r, step)
    BY <1>4 DEF Process, Verify, WriteExtraction, AddExtraction, WriteCleaned, AddCleaned, Make,
       Fail, At, Holding, Processing
  <2> QED BY <1>1, <1>2, <2>1, <2>2, <2>3, OwnIdle, OwnGoto
<1> QED BY <1>3, <1>4

LEMMA OwnFinish ==
    ASSUME Basis, NEW r \in Requests, Finish(r)
    PROVE  Own'
<1>1. SameIdentity /\ UNCHANGED Reported
  BY SameInRequest DEF Basis, Finish, RememberSourceKey, SaveOperation, OnlyOperations, Reported
<1>2. CASE RememberSourceKey(r)
  <2>1. /\ req'[r].at \in {"saving", "accepting"}
        /\ req'[r].done = req[r].done \cup {req[r].src}
        /\ \A q \in Requests \ {r} : req'[q] = req[q]
    BY <1>2, MoveIs DEF Basis, Finish
  <2>2. req[r].src \in Reported
    BY <1>2 DEF RememberSourceKey, At, Basis, Own, Reports
  <2>3. Reports(req'[r])
    BY <2>1, <2>2 DEF Basis, Own, Reports, Holding, Processing
  <2>4. \A k \in Workspaces \X Names : keys'[k] \in {keys[k], req[r].src}
    BY <1>2 DEF RememberSourceKey, Basis, TypeInv, TypeOK
  <2>5. Remembered'
    BY <1>1, <1>2, <2>2, <2>4 DEF RememberSourceKey, Basis, Own, Remembered
  <2> QED BY <1>1, <2>1, <2>3, <2>5, OwnMove DEF Holding, Processing
<1>3. CASE SaveOperation(r)
  <2>1. Remembered'
    BY <1>1, <1>3 DEF SaveOperation, Basis, Own, Remembered, Reports
  <2>2. req'[r] = Idle /\ \A q \in Requests \ {r} : req'[q] = req[q]
    BY <1>3, DoneIs DEF SaveOperation, Basis
  <2>3. Reports(Idle) /\ Idle.at = "idle"
    BY DEF Reports, Idle, Holding, Processing
  <2> QED BY <1>1, <2>1, <2>2, <2>3, OwnMove DEF Holding, Processing
<1> QED BY <1>2, <1>3 DEF Finish

LEMMA BasisStart == Init => Basis
<1> SUFFICES ASSUME Init PROVE Own
  BY TypeStart DEF Basis
<1>1. \A r \in Requests : req[r].at = "idle" /\ req[r].done = {}
  BY DEF Init, Idle
<1>2. Registered = {}
  BY DEF Init, Registered, NoRecord
<1> QED BY <1>1, <1>2 DEF Init, Own, Single, Owned, NewContent, UniqueHere, Reports, Remembered,
     Holding, Processing, At

LEMMA BasisStep == Basis /\ [Next]_vars => Basis'
<1> SUFFICES ASSUME Basis, [Next]_vars PROVE Own'
  BY TypeStep DEF Basis
<1>1. CASE UNCHANGED <<source, derived, keys, listed, req>>
  <2>1. Registered' = Registered /\ Reported' = Reported
    BY <1>1 DEF Registered, Reported
  <2> QED BY <1>1, <2>1 DEF Basis, Own, Single, Owned, NewContent, UniqueHere, Reports,
       Remembered, At, File
<1>2. CASE Recover
  BY <1>1, <1>2 DEF Recover, ReadKnown, ListFiles, EndRecover, DeleteOrphan, ReadOnly,
     OnlyOriginals, registry, operations
<1>3. CASE Crash
  <2>1. /\ UNCHANGED <<source, derived, keys, listed>>
        /\ \A r \in Requests : req'[r].at = "idle" /\ req'[r].done = {}
    BY <1>3 DEF Crash, ReadOnly, registry, operations, Idle
  <2>2. Registered' = Registered /\ Reported' = Reported
    BY <2>1 DEF Registered, Reported
  <2> QED BY <2>1, <2>2 DEF Basis, Own, Single, Owned, NewContent, UniqueHere, Reports,
       Remembered, Holding, Processing, At
<1> QED BY <1>1, <1>2, <1>3, OwnOpen, OwnAccept, OwnReplace, OwnProcess, OwnFinish
   DEF Next, vars, Basis

-----------------------------------------------------------------------------
(* The versions of a file.                                                 *)

Young           == {"keying", "superseding", "linking", "verifying"}
Retired(record) == record.status = "superseded" /\ ~record.current

\* Nobody can know a source that is young, so nobody supersedes it; what it
\* replaces is retired before it is linked.
Linked(m) ==
    /\ m.at \in Young => source[m.src].status # "superseded"
    /\ m.at = "linking" /\ m.src \in Registered => Retired(source[m.prior])

LineInv == ReplacedNotCurrent /\ \A r \in Requests : Linked(req[r])

\* A step of a request that changes one record.
LEMMA LineChange ==
    ASSUME Basis, LineInv, NEW r \in Requests, NEW m, Keep(r, m), Linked(m)',
           NEW t \in Sources, \A s \in Sources \ {t} : source'[s] = source[s],
           Retired(source[t]) => Retired(source'[t]),
           \A q \in Requests \ {r} : req[q].at \in Young => req[q].src # t,
           \/ source'[t].previous = NoSource
           \/ source'[t].previous = source[t].previous /\ t \in Registered
           \/ source'[t].previous \in Sources /\ Retired(source'[source'[t].previous])
    PROVE  LineInv'
<1>1. \A s \in Sources : Retired(source[s]) => Retired(source'[s])
  BY DEF Retired
<1>2. \A s \in Registered : source[s].previous # NoSource =>
           source[s].previous \in Sources /\ Retired(source[source[s].previous])
  BY DEF LineInv, ReplacedNotCurrent, Retired, Basis, TypeInv, TypeOK, Records,
     Registered
<1>3. ReplacedNotCurrent'
  <2> SUFFICES ASSUME NEW s \in Registered', source'[s].previous # NoSource
               PROVE  Retired(source'[source'[s].previous])
    BY DEF ReplacedNotCurrent, Retired
  <2>1. CASE s = t
    BY <1>1, <1>2, <2>1 DEF Retired
  <2>2. CASE s # t
    <3>1. s \in Registered /\ source'[s].previous = source[s].previous
      BY <2>2 DEF Registered
    <3>2. QED
      BY <1>1, <1>2, <3>1 DEF Retired
  <2>3. QED
    BY <2>1, <2>2
<1>4. /\ req'[r] = m
      /\ \A q \in Requests \ {r} : req'[q] = req[q]
  BY DEF Keep, Basis, TypeInv, TypeOK
<1>5. ASSUME NEW q \in Requests \ {r} PROVE Linked(req[q])'
  <2>1. req[q].at \in Young => req[q].src \in Sources \ {t}
    BY DEF Basis, TypeInv, Shaped, Young, Holding, Processing
  <2>2. req[q].at = "linking" => req[q].prior \in Sources
    BY DEF Basis, TypeInv, Shaped
  <2>3. /\ Linked(req[q]) /\ req'[q] = req[q]
        /\ req[q].at \in Young => source'[req[q].src] = source[req[q].src]
    BY <1>4, <2>1 DEF LineInv
  <2>4. req[q].at = "linking" /\ req[q].src \in Registered' => req[q].src \in Registered
    BY <2>1, <2>3 DEF Registered, Young
  <2>5. req[q].at = "linking" /\ req[q].src \in Registered' => Retired(source'[req[q].prior])
    BY <1>1, <2>2, <2>3, <2>4 DEF Linked
  <2>6. QED
    BY <2>3, <2>5 DEF Linked
<1>6. \A q \in Requests : Linked(req[q])'
  BY <1>4, <1>5 DEF Linked
<1>7. QED
  BY <1>3, <1>6 DEF LineInv

\* A step of a request that changes no record.
LEMMA LineMove ==
    ASSUME Basis, LineInv, NEW r \in Requests, NEW m, Keep(r, m),
           UNCHANGED source,
           m.at \in Young => req[r].at \in Young /\ m.src = req[r].src,
           m.at # "linking"
    PROVE  LineInv'
<1>1. /\ req'[r] = m
      /\ \A q \in Requests \ {r} : req'[q] = req[q]
  BY DEF Keep, Basis, TypeInv, TypeOK
<1>2. \A q \in Requests : Linked(req[q])'
  <2>1. Registered' = Registered
    BY DEF Registered
  <2> QED BY <1>1, <2>1 DEF LineInv, Linked, Retired
<1>3. ReplacedNotCurrent'
  BY DEF LineInv, ReplacedNotCurrent, Registered
<1>4. QED
  BY <1>2, <1>3 DEF LineInv

LEMMA LineIdle ==
    ASSUME Basis, LineInv, NEW r \in Requests, Done(r), UNCHANGED source
    PROVE  LineInv'
BY LineMove DEF Done, Idle, Young

LEMMA LineGoto ==
    ASSUME Basis, LineInv, NEW r \in Requests, NEW step, Goto(r, step),
           UNCHANGED source, step \in Young => req[r].at \in Young, step # "linking"
    PROVE  LineInv'
<1>1. PICK m : m = [req[r] EXCEPT !.at = step] /\ Keep(r, m)
  BY DEF Goto
<1>2. m.at = step /\ m.src = req[r].src
  BY <1>1 DEF Basis, TypeInv, Shaped, Memory
<1>3. QED
  BY <1>1, <1>2, LineMove

LEMMA LineRegister ==
    ASSUME Basis, LineInv, NEW r \in Requests, Register(r)
    PROVE  LineInv'
<1>1. req[r].at = "writing" /\ req[r].src \in Sources \ Registered
  BY DEF Register, At, Basis, TypeInv, Shaped, Holding, Own, NewContent
<1>2. /\ \A s \in Sources \ {req[r].src} : source'[s] = source[s]
      /\ source'[req[r].src].previous = NoSource
      /\ source'[req[r].src].status = "accepted"
  BY <1>1 DEF Register, Basis, TypeInv, TypeOK
<1>3. PICK m : m = [req[r] EXCEPT !.at = "keying"] /\ Keep(r, m)
  BY DEF Register, Goto
<1>4. m.at = "keying" /\ m.src = req[r].src
  BY <1>3 DEF Basis, TypeInv, Shaped, Memory
<1>5. Linked(m)'
  BY <1>2, <1>4 DEF Linked
<1>6. \A q \in Requests \ {r} : req[q].at \in Young => req[q].src # req[r].src
  BY <1>1 DEF Basis, Own, Owned, Holding, Processing, Young
<1>7. ~Retired(source[req[r].src])
  BY <1>1 DEF Retired, Registered
<1>8. QED
  BY <1>1, <1>2, <1>3, <1>5, <1>6, <1>7, LineChange

LEMMA LineSupersede ==
    ASSUME Basis, LineInv, NEW r \in Requests, SupersedePrevious(r)
    PROVE  LineInv'
<1> DEFINE t == req[r].prior
<1>1. req[r].at = "superseding" /\ t \in Registered /\ t \in Reported
  BY RecordIs DEF SupersedePrevious, At, Basis, Own, Reports
<1>2. t \in Sources
  BY <1>1 DEF Registered
<1>3. /\ \A s \in Sources \ {t} : source'[s] = source[s]
      /\ source'[t] = [source[t] EXCEPT !.current = FALSE, !.status = "superseded"]
  BY RecordIs DEF Basis
<1>4. /\ source'[t].status = "superseded" /\ ~source'[t].current
      /\ source'[t].previous = source[t].previous
  BY <1>2, <1>3 DEF Basis, TypeInv, TypeOK, Records
<1>5. PICK m : m = [req[r] EXCEPT !.at = "linking"] /\ Keep(r, m)
  BY DEF SupersedePrevious, Goto
<1>6. m.at = "linking" /\ m.src = req[r].src /\ m.prior = t
  BY <1>5 DEF Basis, TypeInv, Shaped, Memory
<1>7. \A q \in Requests : req[q].at \in Young => req[q].src \in Sources \ {t}
  BY <1>1 DEF Young, Basis, Own, Reports, TypeInv, Shaped, Holding, Processing
<1>8. Retired(source'[t])
  BY <1>4 DEF Retired
<1>9. Linked(m)'
  <2>1. source'[m.src] = source[m.src]
    BY <1>1, <1>3, <1>6, <1>7 DEF Young
  <2>2. source[m.src].status # "superseded"
    BY <1>1, <1>6 DEF LineInv, Linked, Young
  <2>3. QED
    BY <1>4, <1>6, <2>1, <2>2 DEF Linked, Retired
<1>10. QED
  BY <1>1, <1>2, <1>3, <1>4, <1>5, <1>7, <1>8, <1>9, LineChange

LEMMA LineLink ==
    ASSUME Basis, LineInv, NEW r \in Requests, LinkVersion(r)
    PROVE  LineInv'
<1> DEFINE t == req[r].src
<1>1. /\ req[r].at = "linking" /\ t \in Sources /\ req[r].prior \in Sources
      /\ source[t].status # "superseded" /\ Retired(source[req[r].prior])
  BY RecordIs DEF LinkVersion, At, LineInv, Linked, Young, Basis, TypeInv, Shaped, Holding,
     Processing
<1>2. /\ \A s \in Sources \ {t} : source'[s] = source[s]
      /\ source'[t] = [source[t] EXCEPT !.previous = req[r].prior, !.current = TRUE,
                                        !.status = "ready"]
  BY <1>1 DEF LinkVersion, Basis, TypeInv, TypeOK
<1>3. source'[t].previous = req[r].prior /\ source'[t].status = "ready"
  BY <1>1, <1>2 DEF Basis, TypeInv, TypeOK, Records
<1>4. req[r].prior # t /\ ~Retired(source[t])
  BY <1>1 DEF Retired
<1>5. Retired(source'[source'[t].previous])
  BY <1>1, <1>2, <1>3, <1>4 DEF Retired
<1>6. PICK m : m = [req[r] EXCEPT !.at = "verifying"] /\ Keep(r, m)
  BY DEF LinkVersion, Goto
<1>7. m.at = "verifying" /\ m.src = t
  BY <1>6 DEF Basis, TypeInv, Shaped, Memory
<1>8. Linked(m)'
  BY <1>3, <1>7 DEF Linked
<1>9. \A q \in Requests \ {r} : req[q].at \in Young => req[q].src # t
  BY <1>1 DEF Basis, Own, Owned, Holding, Processing, Young
<1>10. source'[t].previous \in Sources
  BY <1>1, <1>3
<1>11. QED
  BY <1>1, <1>2, <1>4, <1>5, <1>6, <1>8, <1>9, <1>10, LineChange

LEMMA LineOpen ==
    ASSUME Basis, LineInv, NEW r \in Requests, Open(r) \/ WriteOriginal(r)
    PROVE  LineInv'
<1>1. /\ req'[r].at \notin Young
      /\ \A q \in Requests \ {r} : req'[q] = req[q]
  <2>1. ASSUME NEW step, step \in {"looking", "new operations", "opening", "accepting"}, Goto(r, step)
        PROVE  req'[r].at = step
    BY <2>1, GotoIs DEF Basis
  <2>2. \/ \E upload \in Uploads : Ask(r, upload)
        \/ FindWorkspace(r) \/ CreateWorkspace(r) \/ WriteOriginal(r)
        \/ \E step \in {"looking", "new operations", "opening", "accepting"} : Goto(r, step)
    BY DEF Open, LookForOperations, NewRegistry, NewOperations, MapWorkspace
  <2> QED BY <2>1, <2>2, MoveIs DEF Basis, Young, Accept
<1>2. CASE NewRegistry(r)
  <2>1. Registered' = {} /\ \A s \in Sources : source'[s].status = "none"
    BY <1>2 DEF NewRegistry, Registered, NoRecord
  <2>2. \A q \in Requests : req'[q].at \in Young => req'[q].src \in Sources
    BY <1>1 DEF Basis, TypeInv, Shaped, Young, Holding, Processing
  <2> QED BY <1>1, <2>1, <2>2 DEF LineInv, ReplacedNotCurrent, Linked, Young
<1>3. CASE ~NewRegistry(r)
  <2>1. UNCHANGED source
    BY <1>3 DEF Open, Ask, LookForOperations, NewOperations, FindWorkspace,
       CreateWorkspace, MapWorkspace, WriteOriginal, ReadOnly, OnlyWorkspaces, OnlyOperations,
       OnlyOriginals, registry
  <2>2. Registered' = Registered
    BY <2>1 DEF Registered
  <2> QED BY <1>1, <2>1, <2>2 DEF LineInv, ReplacedNotCurrent, Linked, Young
<1> QED BY <1>2, <1>3

LEMMA LineReadKey ==
    ASSUME Basis, LineInv, NEW r \in Requests, ReadKey(r)
    PROVE  LineInv'
<1>1. UNCHANGED source /\ req[r].at \in Young
  BY DEF ReadKey, ReadOnly, registry, At, Young
<1>2. CASE keys[Key(r)] \in {NoSource, req[r].src}
  BY <1>1, <1>2, LineGoto DEF ReadKey
<1>3. CASE keys[Key(r)] \notin {NoSource, req[r].src}
  <2>1. PICK m : m = [req[r] EXCEPT !.at = "superseding", !.prior = keys[Key(r)]] /\ Keep(r, m)
    BY <1>3 DEF ReadKey
  <2>2. m.at = "superseding" /\ m.src = req[r].src
    BY <2>1 DEF Basis, TypeInv, Shaped, Memory
  <2>3. QED
    BY <1>1, <2>1, <2>2, LineMove
<1>4. QED
  BY <1>2, <1>3

LEMMA LineProcess ==
    ASSUME Basis, LineInv, NEW r \in Requests, Process(r)
    PROVE  LineInv'
<1>1. CASE Verify(r) /\ req[r].src \in originals
  BY <1>1, LineGoto DEF Verify, Young
<1>2. CASE Verify(r) /\ req[r].src \notin originals
  <2> DEFINE t == req[r].src
  <2>1. req[r].at = "verifying" /\ t \in Registered
    BY <1>2 DEF Verify, At
  <2>2. t \in Sources /\ ~Retired(source[t])
    BY <2>1 DEF LineInv, Linked, Young, Retired, Registered
  <2>3. /\ \A s \in Sources \ {t} : source'[s] = source[s]
        /\ source'[t] = [source[t] EXCEPT !.status = "requires_reintake"]
    BY <1>2, <2>2 DEF Verify, Basis, TypeInv, TypeOK
  <2>4. source'[t].previous = source[t].previous
    BY <2>2, <2>3 DEF Basis, TypeInv, TypeOK, Records
  <2>5. PICK m : m = Idle /\ Keep(r, m)
    BY <1>2 DEF Verify, Done
  <2>6. Linked(m)'
    BY <2>5 DEF Linked, Idle, Young
  <2>7. \A q \in Requests \ {r} : req[q].at \in Young => req[q].src # t
    BY <2>1 DEF Basis, Own, Owned, Holding, Processing, Young
  <2>8. QED
    BY <2>1, <2>2, <2>3, <2>4, <2>5, <2>6, <2>7, LineChange
<1>3. CASE Fail(r)
  BY <1>3, LineIdle DEF Fail, ReadOnly, registry
<1>4. ASSUME NEW now, NEW artifact, NEW next, next \notin Young, Make(r, now, artifact, next)
      PROVE  LineInv'
  BY <1>4, LineGoto DEF Make, OnlyDerived, registry, Young
<1>5. QED
  BY <1>1, <1>2, <1>3, <1>4 DEF Process, WriteExtraction, AddExtraction, WriteCleaned,
     AddCleaned, SaveReport, Young

LEMMA LineFinish ==
    ASSUME Basis, LineInv, NEW r \in Requests, Finish(r)
    PROVE  LineInv'
<1>1. UNCHANGED source
  BY DEF Finish, RememberSourceKey, SaveOperation, OnlyOperations, registry
<1>2. CASE RememberSourceKey(r)
  <2>1. PICK m : /\ Keep(r, m)
                 /\ m = [req[r] EXCEPT
                           !.at = IF Tail(req[r].files) = <<>> THEN "saving" ELSE "accepting",
                           !.files = Tail(req[r].files), !.done = @ \cup {req[r].src},
                           !.src = NoSource, !.prior = NoSource]
    BY <1>2 DEF RememberSourceKey
  <2>2. m.at \in {"saving", "accepting"}
    BY <2>1 DEF Basis, TypeInv, Shaped, Memory
  <2>3. QED
    BY <1>1, <2>1, <2>2, LineMove DEF Young
<1>3. CASE SaveOperation(r)
  BY <1>1, <1>3, LineIdle DEF SaveOperation
<1>4. QED
  BY <1>2, <1>3 DEF Finish

LEMMA LineStart == Init => LineInv
<1> SUFFICES ASSUME Init PROVE LineInv
  OBVIOUS
<1>1. \A r \in Requests : Linked(req[r])
  BY DEF Init, Idle, Linked, Young
<1>2. ReplacedNotCurrent
  BY DEF Init, NoRecord, Registered, ReplacedNotCurrent
<1>3. QED
  BY <1>1, <1>2 DEF LineInv

LEMMA LineStep == Basis /\ LineInv /\ [Next]_vars => LineInv'
<1> SUFFICES ASSUME Basis, LineInv, [Next]_vars PROVE LineInv'
  OBVIOUS
<1>1. CASE UNCHANGED <<source, req>>
  BY <1>1 DEF LineInv, ReplacedNotCurrent, Linked, Registered
<1>2. CASE Recover
  BY <1>1, <1>2 DEF Recover, ReadKnown, ListFiles, EndRecover, DeleteOrphan, ReadOnly,
     OnlyOriginals, registry
<1>3. CASE Crash
  <2>1. UNCHANGED source /\ \A r \in Requests : req'[r].at = "idle"
    BY <1>3 DEF Crash, ReadOnly, registry, Idle
  <2>2. QED
    BY <2>1 DEF LineInv, ReplacedNotCurrent, Linked, Registered, Young
<1>4. ASSUME NEW r \in Requests, Accept(r) \/ Replace(r) PROVE LineInv'
  <2>1. CASE RefuseDuplicate(r) \/ RegisterRaises(r)
    BY <2>1, LineIdle DEF RefuseDuplicate, RegisterRaises, ReadOnly, OnlyOriginals, registry
  <2>2. QED
    BY <1>4, <2>1, LineOpen, LineRegister, LineReadKey, LineSupersede, LineLink
    DEF Accept, Replace
<1>5. QED
  BY <1>1, <1>2, <1>3, <1>4, LineOpen, LineProcess, LineFinish DEF Next, vars

\* The only records that a step changes while they are superseded are the
\* ones that it supersedes once more.
LEMMA StaysSuperseded ==
    ASSUME Basis, LineInv, [Next]_vars, NEW s \in Sources, source[s].status = "superseded"
    PROVE  source'[s].status = "superseded" \/ Registered' = {}
<1>1. CASE UNCHANGED source
  BY <1>1
<1>2. ASSUME NEW r \in Requests,
             Register(r) \/ SupersedePrevious(r) \/ LinkVersion(r) \/ Verify(r)
      PROVE  source'[s].status = "superseded"
  <2>1. CASE Register(r)
    <3>1. req[r].src # s
      BY <2>1 DEF Register, Basis, Own, NewContent, Registered
    <3>2. QED
      BY <2>1, <3>1 DEF Register, Basis, TypeInv, TypeOK
  <2>2. CASE SupersedePrevious(r)
    BY <2>2 DEF SupersedePrevious, Basis, TypeInv, TypeOK, Records
  <2>3. CASE LinkVersion(r)
    <3>1. req[r].src # s
      BY <2>3 DEF LinkVersion, At, LineInv, Linked, Young
    <3>2. QED
      BY <2>3, <3>1 DEF LinkVersion, Basis, TypeInv, TypeOK
  <2>4. CASE Verify(r)
    <3>1. req[r].src # s
      BY <2>4 DEF Verify, At, LineInv, Linked, Young
    <3>2. QED
      BY <2>4, <3>1 DEF Verify, Basis, TypeInv, TypeOK
  <2>5. QED
    BY <1>2, <2>1, <2>2, <2>3, <2>4
<1>3. ASSUME NEW r \in Requests, NewRegistry(r) PROVE Registered' = {}
  BY <1>3 DEF NewRegistry, Registered, NoRecord
<1>4. QED
  BY <1>1, <1>2, <1>3 DEF Next, vars, Open, Ask, LookForOperations, NewOperations,
     FindWorkspace, CreateWorkspace, MapWorkspace,
     Accept, RefuseDuplicate, WriteOriginal, RegisterRaises, Replace, ReadKey, Process,
     WriteExtraction, AddExtraction, WriteCleaned, AddCleaned, SaveReport, Make, Fail,
     Finish, RememberSourceKey, SaveOperation, Recover, ReadKnown, ListFiles, EndRecover,
     DeleteOrphan, Crash, ReadOnly, OnlyWorkspaces, OnlyOperations, OnlyOriginals,
     OnlyDerived, registry

\* What a version names as its previous one is not current, whatever uploads
\* of one name race and wherever one of them stops: the two writes of the
\* registry come in the order that makes it so.
THEOREM OneVersionAtATime == Spec => []ReplacedNotCurrent
<1> DEFINE Inv == Basis /\ LineInv
<1>1. Init => Inv
  BY BasisStart, LineStart
<1>2. Inv /\ [Next]_vars => Inv'
  BY BasisStep, LineStep
<1>3. Inv => ReplacedNotCurrent
  BY DEF LineInv
<1>4. QED
  BY <1>1, <1>2, <1>3, PTL DEF Spec

\* A superseded version stays one: a source that others may replace has been
\* through every write that its own admission makes of its record.
THEOREM ReplacedForGood == Spec => SupersededStays
<1> DEFINE Inv == Basis /\ LineInv
<1>1. Init => Inv
  BY BasisStart, LineStart
<1>2. Inv /\ [Next]_vars => Inv'
  BY BasisStep, LineStep
<1>3. Inv /\ [Next]_vars =>
          [\A s \in Sources : source[s].status = "superseded"
                                 => source'[s].status = "superseded" \/ Registered' = {}]_vars
  BY StaysSuperseded
<1>4. QED
  BY <1>1, <1>2, <1>3, PTL DEF Spec, SupersededStays

-----------------------------------------------------------------------------
(* The bytes behind the records, when recover runs alone.                  *)

Resting == \A r \in Requests : At(r, "idle")

Stored ==
    /\ Registered \subseteq originals
    /\ \A r \in Requests : At(r, "writing") => req[r].src \in originals
    /\ sweep # NoSweep => Resting
    /\ sweep.at = "listing" => sweep.known = Registered
    /\ sweep.at = "deleting" => sweep.orphans = originals \ Registered

\* A step of a request that takes no original away.
LEMMA StoredRequest ==
    ASSUME Basis, Stored, NEW r \in Requests, ~At(r, "idle"),
           \A q \in Requests \ {r} : req'[q] = req[q],
           originals \subseteq originals', sweep' = sweep,
           Registered' \subseteq originals',
           At(r, "writing")' => req'[r].src \in originals'
    PROVE  Stored'
<1>1. sweep = NoSweep /\ sweep.at = "idle"
  BY DEF Stored, Resting, NoSweep
<1>2. QED
  BY <1>1 DEF Stored, At

\* Steps of a request between its first and its last, but for the ones under
\* the lock of the registry.
LEMMA StoredBetween ==
    ASSUME Basis, Stored, NEW r \in Requests, ~At(r, "idle"),
           Open(r) \/ RefuseDuplicate(r) \/ Replace(r) \/ Process(r) \/ Finish(r)
    PROVE  Stored'
<1>1. UNCHANGED <<originals, sweep>> /\ ~At(r, "writing")
  BY DEF Open, Ask, LookForOperations, NewRegistry, NewOperations, FindWorkspace,
     CreateWorkspace, MapWorkspace, RefuseDuplicate, Replace, ReadKey, SupersedePrevious,
     LinkVersion, Process, Verify, WriteExtraction, AddExtraction, WriteCleaned, AddCleaned,
     SaveReport, Make, Fail, Finish, RememberSourceKey, SaveOperation, ReadOnly,
     OnlyWorkspaces, OnlyOperations, OnlySource, OnlyDerived, Outside, At
<1>2. req'[r].at # "writing"
  <2>1. \A step \in Steps : Goto(r, step) => req'[r].at = step
    BY GotoIs DEF Basis
  <2>2. Done(r) => req'[r].at = "idle"
    BY DoneIs DEF Basis, Idle
  <2>3. CASE Open(r)
    BY <2>1, <2>3, MoveIs DEF Basis, Open, LookForOperations, NewRegistry, NewOperations, MapWorkspace, Steps
  <2>4. CASE RefuseDuplicate(r) \/ Finish(r)
    BY <2>2, <2>4, MoveIs DEF Basis, RefuseDuplicate, Finish, SaveOperation
  <2>5. CASE Replace(r)
    BY <2>1, <2>5, MoveIs DEF Basis, Replace, ReadKey, SupersedePrevious, LinkVersion, Steps
  <2>6. CASE Process(r)
    BY <2>1, <2>2, <2>6 DEF Process, Verify, WriteExtraction, AddExtraction, WriteCleaned,
       AddCleaned, SaveReport, Make, Fail, Steps
  <2> QED BY <2>3, <2>4, <2>5, <2>6
<1>3. \A q \in Requests \ {r} : req'[q] = req[q]
  BY MoveIs DEF Basis, Accept
<1>4. Registered' \subseteq Registered
  <2>1. CASE Replace(r) \/ Process(r) \/ Finish(r)
    BY <2>1, SameInRequest DEF Basis, SameIdentity
  <2>2. CASE NewRegistry(r)
    BY <2>2 DEF NewRegistry, Registered, NoRecord
  <2>3. CASE RefuseDuplicate(r) \/ (Open(r) /\ ~NewRegistry(r))
    BY <2>3 DEF Open, Ask, LookForOperations, NewOperations, FindWorkspace,
       CreateWorkspace, MapWorkspace, RefuseDuplicate, ReadOnly, OnlyWorkspaces,
       OnlyOperations, registry, Registered
  <2> QED BY <2>1, <2>2, <2>3
<1>5. QED
  BY <1>1, <1>2, <1>3, <1>4, StoredRequest DEF Stored, At

LEMMA StoredAccept ==
    ASSUME Basis, Stored, NEW r \in Requests, WriteOriginal(r) \/ Register(r) \/ RegisterRaises(r)
    PROVE  Stored'
<1>1. CASE WriteOriginal(r)
  <2>1. originals' = originals \cup {req'[r].src} /\ \A q \in Requests \ {r} : req'[q] = req[q]
    BY <1>1, MoveIs DEF Basis, Accept
  <2>5. ~At(r, "idle") /\ sweep' = sweep /\ Registered' = Registered
    BY <1>1 DEF WriteOriginal, At, OnlyOriginals, Outside, registry, Registered
  <2>6. Registered' \subseteq originals'
    BY <2>1, <2>5 DEF Stored
  <2>7. QED
    BY <2>1, <2>5, <2>6, StoredRequest
<1>2. CASE Register(r)
  <2>1. req[r].at = "writing" /\ req[r].src \in originals
    BY <1>2 DEF Register, At, Stored
  <2>2. req'[r].at = "keying" /\ \A q \in Requests \ {r} : req'[q] = req[q]
    BY <1>2 DEF Register, Goto, Keep, Basis, TypeInv, TypeOK, Memory
  <2>3. \A s \in Sources \ {req[r].src} : source'[s] = source[s]
    BY <1>2 DEF Register, Basis, TypeInv, TypeOK
  <2>4. Registered' \subseteq originals /\ originals' = originals /\ sweep' = sweep
    BY <1>2, <2>1, <2>3 DEF Registered, Stored, Register, OnlySource, Outside
  <2>5. QED
    BY <2>1, <2>2, <2>4, StoredRequest DEF At
<1>3. CASE RegisterRaises(r)
  <2>1. /\ req[r].at = "writing" /\ req[r].src \notin Registered
        /\ \A q \in Requests \ {r} : ~At(q, "writing")
    BY <1>3 DEF RegisterRaises, At, Basis, Own, NewContent, Single
  <2>2. /\ sweep = NoSweep /\ sweep.at = "idle" /\ sweep' = sweep
        /\ originals' = originals \ {req[r].src} /\ Registered' = Registered
    BY <1>3, <2>1 DEF RegisterRaises, Stored, Resting, At, NoSweep, Outside, OnlyOriginals,
       registry, Registered
  <2>3. req'[r].at = "idle" /\ \A q \in Requests \ {r} : req'[q] = req[q]
    BY <1>3 DEF RegisterRaises, Done, Keep, Idle, Basis, TypeInv, TypeOK
  <2>4. QED
    BY <2>1, <2>2, <2>3 DEF Stored, At
<1>4. QED
  BY <1>1, <1>2, <1>3

LEMMA StoredRecover ==
    ASSUME Basis, RecoverAlone, Stored, Recover
    PROVE  Stored'
<1>1. Registered' = Registered /\ req' = req
  BY DEF Recover, ReadKnown, ListFiles, EndRecover, DeleteOrphan, ReadOnly, OnlyOriginals,
     registry, Registered
<1>2. CASE ReadKnown
  BY <1>1, <1>2 DEF ReadKnown, ReadOnly, NoSweep, Stored, Resting, At
<1>3. sweep \in Sweeps
  BY DEF Basis, TypeInv, TypeOK
<1>4. sweep.at # "idle" => Resting
  BY DEF Stored, NoSweep
<1>5. CASE ListFiles
  <2>1. sweep'.at = "deleting" /\ sweep'.orphans = originals \ Registered
    BY <1>3, <1>5 DEF ListFiles, Sweeps, Stored
  <2>2. QED
    BY <1>1, <1>4, <1>5, <2>1 DEF ListFiles, ReadOnly, Stored, Resting, At
<1>6. ASSUME NEW s \in Sources, DeleteOrphan(s) PROVE Stored'
  <2>1. /\ sweep.orphans = originals \ Registered /\ s \in sweep.orphans
        /\ originals' = originals \ {s}
        /\ sweep' = [sweep EXCEPT !.orphans = @ \ {s}]
    BY <1>6 DEF DeleteOrphan, Stored
  <2>2. sweep'.at = "deleting" /\ sweep'.orphans = originals' \ Registered
    BY <1>3, <1>6, <2>1 DEF DeleteOrphan, Sweeps
  <2>3. Resting
    BY <1>4, <1>6 DEF DeleteOrphan
  <2>4. QED
    BY <1>1, <2>1, <2>2, <2>3 DEF Stored, Resting, At
<1>7. CASE EndRecover
  BY <1>1, <1>4, <1>7 DEF EndRecover, ReadOnly, NoSweep, Stored, Resting, At
<1>8. QED
  BY <1>2, <1>5, <1>6, <1>7 DEF Recover

StoredInv == Basis /\ (RecoverAlone => Stored)

LEMMA StoredStart == Init => StoredInv
BY BasisStart DEF Init, StoredInv, Stored, Registered, NoRecord, Idle, NoSweep, At

LEMMA StoredStep == StoredInv /\ [Next]_vars => StoredInv'
<1> SUFFICES ASSUME Basis, RecoverAlone, Stored, [Next]_vars PROVE Stored'
  BY BasisStep DEF StoredInv
<1>1. CASE UNCHANGED vars
  BY <1>1 DEF vars, Stored, Resting, At, Registered
<1>2. ASSUME NEW r \in Requests, NEW upload \in Uploads, Ask(r, upload) PROVE Stored'
  <2>1. /\ UNCHANGED <<originals, source, sweep>> /\ sweep = NoSweep /\ sweep.at = "idle"
    BY <1>2 DEF Ask, ReadOnly, Outside, registry, NoSweep
  <2>2. /\ req'[r].at \in {"looking", "new registry"}
        /\ \A q \in Requests \ {r} : req'[q] = req[q]
    BY <1>2, MoveIs DEF Basis, Open
  <2>3. QED
    BY <2>1, <2>2 DEF Stored, At, Registered
<1>3. CASE Crash
  <2>1. /\ UNCHANGED <<originals, source>> /\ sweep' = NoSweep /\ sweep'.at = "idle"
        /\ \A r \in Requests : req'[r].at = "idle"
    BY <1>3 DEF Crash, ReadOnly, registry, Idle, NoSweep
  <2>2. QED
    BY <2>1 DEF Stored, Resting, At, Registered
<1>4. ASSUME NEW r \in Requests, At(r, "idle"),
             Open(r) \/ Accept(r) \/ Replace(r) \/ Process(r) \/ Finish(r)
      PROVE  \E upload \in Uploads : Ask(r, upload)
  BY <1>4 DEF At, Open, LookForOperations, NewRegistry, NewOperations,
     FindWorkspace, CreateWorkspace, MapWorkspace, Accept, RefuseDuplicate, WriteOriginal,
     Register, RegisterRaises, Replace, ReadKey, SupersedePrevious, LinkVersion, Process,
     Verify, WriteExtraction, AddExtraction, WriteCleaned, AddCleaned, SaveReport, Make, Fail,
     Finish, RememberSourceKey, SaveOperation
<1>5. QED
  BY <1>1, <1>2, <1>3, <1>4, StoredBetween, StoredAccept, StoredRecover DEF Next, Accept

\* Behind every record are its bytes, provided that recover runs while nothing
\* is admitted: an original is written and registered, or taken back, in one
\* step of the lock of the registry.
THEOREM BytesBehindRecords == Spec => []OriginalBehindRecord
<1>1. StoredInv => OriginalBehindRecord
  BY DEF StoredInv, Stored, OriginalBehindRecord
<1>2. QED
  BY <1>1, StoredStart, StoredStep, PTL DEF Spec

\* recover that has run to its end leaves no bytes without a record: alone, it
\* knows every record and lists every file there is.
THEOREM NothingLeft == Spec => RecoveryLeavesNoOrphan
<1>1. StoredInv => (RecoverAlone /\ EndRecover => originals \subseteq Registered)
  BY DEF StoredInv, Stored, EndRecover
<1>2. QED
  BY <1>1, StoredStart, StoredStep, PTL DEF Spec, RecoveryLeavesNoOrphan

-----------------------------------------------------------------------------
(* One workspace, as long as nothing is wiped.                             *)

Homeless ==
    home = NoWorkspace => /\ Registered = {}
                          /\ \A r \in Requests : req[r].at \in Unhoused
Mapped ==
    /\ home # NoWorkspace => \A r \in Requests : ~At(r, "mapping")
    /\ \A s \in Registered : source[s].ws = home
    /\ \A r \in Requests : req[r].at \notin Unhoused => req[r].ws = home
HomeInv == wiped = {} => Homeless /\ Mapped

\* A request that moves in the workspace of the project, or has none yet.
LEMMA HomeMove ==
    ASSUME Basis, Homeless, Mapped, NEW r \in Requests,
           \A q \in Requests \ {r} : req'[q] = req[q],
           home' = home, SameIdentity, req'[r].at # "mapping",
           req'[r].at \notin Unhoused => home # NoWorkspace /\ req'[r].ws = home
    PROVE  Homeless' /\ Mapped'
<1>1. Homeless'
  BY DEF Homeless, SameIdentity
<1>2. Mapped'
  BY DEF Mapped, SameIdentity, At
<1> QED BY <1>1, <1>2

LEMMA HomeOpen ==
    ASSUME Basis, Homeless, Mapped, NEW r \in Requests, Open(r), wiped' = {}
    PROVE  Homeless' /\ Mapped'
<1>1. \A q \in Requests \ {r} : req'[q] = req[q]
  BY MoveIs DEF Basis
<1>2. CASE CreateWorkspace(r)
  <2>1. /\ req'[r].at = "mapping" /\ home = NoWorkspace /\ UNCHANGED <<home, source>>
    BY <1>2, MoveIs DEF Basis, CreateWorkspace, OnlyWorkspaces, operations
  <2> QED BY <1>1, <2>1 DEF Homeless, Mapped, Registered, Unhoused
<1>3. CASE MapWorkspace(r)
  <2>1. /\ home = NoWorkspace /\ source' = source /\ Registered = {}
        /\ \A q \in Requests : req[q].at \in Unhoused
        /\ \A q \in Requests \ {r} : ~At(q, "mapping")
    BY <1>3 DEF MapWorkspace, Basis, Own, Homeless, Mapped, Single, At, OnlyOperations, registry
  <2>2. req'[r].at = "accepting" /\ req'[r].ws = req[r].ws
    BY <1>3, GotoIs DEF MapWorkspace, Basis
  <2>3. home' = req[r].ws /\ req[r].ws \in Workspaces
    BY <1>3 DEF MapWorkspace, Basis, TypeInv, Shaped, At, Opening
  <2>4. Registered' = {}
    BY <2>1 DEF Registered
  <2> QED BY <1>1, <2>1, <2>2, <2>3, <2>4, IntakeAssumption DEF Homeless, Mapped, Unhoused, At
<1>4. CASE FindWorkspace(r)
  <2>1. home # NoWorkspace /\ UNCHANGED <<home, source>>
    BY <1>4 DEF FindWorkspace, ReadOnly, registry, operations
  <2>2. req'[r].at = "accepting" /\ req'[r].ws = home
    BY <1>4, MoveIs DEF Basis
  <2> QED BY <1>1, <2>1, <2>2, HomeMove, SameRecords
<1>5. CASE ~CreateWorkspace(r) /\ ~MapWorkspace(r) /\ ~FindWorkspace(r)
  <2>1. req'[r].at \in Opening
    <3>1. \A step \in Opening : Goto(r, step) => req'[r].at = step
      BY GotoIs DEF Basis
    <3>2. (\E upload \in Uploads : Ask(r, upload)) \/ (\E step \in Opening : Goto(r, step))
      BY <1>5 DEF Open, LookForOperations, NewRegistry, NewOperations, Opening
    <3> QED BY <3>1, <3>2, MoveIs DEF Basis, Opening
  <2>2. home' = home
    BY <1>5 DEF Open, Ask, LookForOperations, NewRegistry, NewOperations, ReadOnly,
       operations, NothingSaved
  <2>3. SameIdentity
    <3>1. CASE NewRegistry(r)
      <4>1. Registered' = {}
        BY <3>1 DEF NewRegistry, Registered, NoRecord
      <4> QED BY <4>1 DEF SameIdentity
    <3>2. CASE ~NewRegistry(r)
      BY <1>5, <3>2, SameRecords DEF Open, Ask, LookForOperations, NewOperations,
         ReadOnly, registry
    <3> QED BY <3>1, <3>2
  <2> QED BY <1>1, <2>1, <2>2, <2>3, HomeMove DEF Unhoused, Opening
<1> QED BY <1>2, <1>3, <1>4, <1>5

LEMMA HomeAccept ==
    ASSUME Basis, Homeless, Mapped, NEW r \in Requests, Accept(r)
    PROVE  Homeless' /\ Mapped'
<1>1. \A q \in Requests \ {r} : req'[q] = req[q]
  BY MoveIs DEF Basis
<1>2. req[r].at \notin Unhoused /\ home' = home
  BY DEF Accept, RefuseDuplicate, WriteOriginal, Register, RegisterRaises, At, Unhoused, Opening,
     ReadOnly, OnlyOriginals, OnlySource, operations
<1>3. req[r].ws = home /\ home # NoWorkspace
  BY <1>2 DEF Homeless, Mapped
<1>4. CASE RefuseDuplicate(r) \/ RegisterRaises(r)
  <2>1. req'[r].at = "idle"
    BY <1>4, DoneIs DEF RefuseDuplicate, RegisterRaises, Basis, Idle
  <2>2. UNCHANGED source
    BY <1>4 DEF RefuseDuplicate, RegisterRaises, ReadOnly, OnlyOriginals, registry
  <2> QED BY <1>1, <1>2, <2>1, <2>2, HomeMove, SameRecords DEF Unhoused
<1>5. CASE WriteOriginal(r)
  <2>1. req'[r].at = "writing" /\ req'[r].ws = req[r].ws /\ UNCHANGED source
    BY <1>5, MoveIs DEF Basis, WriteOriginal, OnlyOriginals, registry
  <2> QED BY <1>1, <1>2, <1>3, <2>1, HomeMove, SameRecords
<1>6. CASE Register(r)
  <2>1. req[r].src \in Sources
    BY <1>6 DEF Register, At, Basis, TypeInv, Shaped, Holding
  <2>2. req'[r].at = "keying" /\ req'[r].ws = req[r].ws
    BY <1>6, GotoIs DEF Register, Basis
  <2>3. /\ source'[req[r].src].ws = req[r].ws
        /\ \A s \in Sources \ {req[r].src} : source'[s] = source[s]
    BY <1>6, <2>1 DEF Register, Basis, TypeInv, TypeOK
  <2>4. Registered' \subseteq Registered \cup {req[r].src}
    BY <2>3 DEF Registered
  <2>5. \A s \in Registered' : source'[s].ws = home
    BY <1>3, <2>3, <2>4 DEF Mapped, Registered
  <2> QED BY <1>1, <1>2, <1>3, <2>2, <2>5 DEF Homeless, Mapped, At
<1> QED BY <1>4, <1>5, <1>6 DEF Accept

\* The rest of the admission stays in its workspace, or ends.
LEMMA HomeInside ==
    ASSUME Basis, Homeless, Mapped, NEW r \in Requests, Replace(r) \/ Process(r) \/ Finish(r)
    PROVE  Homeless' /\ Mapped'
<1>1. \A q \in Requests \ {r} : req'[q] = req[q]
  BY MoveIs DEF Basis
<1>2. SameIdentity /\ home' = home
  BY SameInRequest DEF Basis, Replace, ReadKey, SupersedePrevious, LinkVersion, Process, Verify,
     WriteExtraction, AddExtraction, WriteCleaned, AddCleaned, SaveReport, Make, Fail, Finish,
     RememberSourceKey, SaveOperation, ReadOnly, OnlySource, OnlyDerived, OnlyOperations,
     operations
<1>3. CASE Done(r)
  <2>1. req'[r].at = "idle"
    BY <1>3, DoneIs DEF Basis, Idle
  <2> QED BY <1>1, <1>2, <2>1, HomeMove DEF Unhoused
<1>4. CASE ~Done(r)
  <2>1. req[r].at \in Processing
    BY <1>4 DEF Replace, ReadKey, SupersedePrevious, LinkVersion, Process, Verify,
       WriteExtraction, AddExtraction, WriteCleaned, AddCleaned, SaveReport, Make, Fail, Finish,
       RememberSourceKey, SaveOperation, At, Processing
  <2>2. req'[r].at \notin Unhoused /\ req'[r].ws = req[r].ws
    <3>1. \A step \in Processing : Goto(r, step) => req'[r].at = step /\ req'[r].ws = req[r].ws
      BY GotoIs DEF Basis
    <3>2. \/ \E step \in Processing : Goto(r, step)
          \/ ReadKey(r) /\ keys[Key(r)] \notin {NoSource, req[r].src}
          \/ RememberSourceKey(r)
      BY <1>4 DEF Replace, ReadKey, SupersedePrevious, LinkVersion, Process, Verify,
         WriteExtraction, AddExtraction, WriteCleaned, AddCleaned, SaveReport, Make, Fail,
         Finish, SaveOperation, Processing
    <3> QED BY <3>1, <3>2, MoveIs DEF Basis, Unhoused, Opening, Processing
  <2>3. req[r].ws = home /\ home # NoWorkspace
    BY <2>1 DEF Homeless, Mapped, Unhoused, Opening, Processing
  <2> QED BY <1>1, <1>2, <2>2, <2>3, HomeMove DEF Unhoused
<1> QED BY <1>3, <1>4

LEMMA HomeStart == Init => HomeInv
BY DEF Init, HomeInv, Homeless, Mapped, Registered, NoRecord, Idle, Unhoused, At

\* What was once wiped stays in the history.
LEMMA WipedGrows == [Next]_vars => wiped \subseteq wiped'
BY DEF Next, vars, Open, Ask, LookForOperations, NewRegistry, NewOperations,
   FindWorkspace, CreateWorkspace, MapWorkspace, Accept, RefuseDuplicate, WriteOriginal,
   Register, RegisterRaises, Replace, ReadKey, SupersedePrevious, LinkVersion, Process, Verify,
   WriteExtraction, AddExtraction, WriteCleaned, AddCleaned, SaveReport, Make, Fail, Finish,
   RememberSourceKey, SaveOperation, Recover, ReadKnown, ListFiles, EndRecover, DeleteOrphan,
   Crash, Outside, files

LEMMA HomeStep == Basis /\ HomeInv /\ [Next]_vars => HomeInv'
<1> SUFFICES ASSUME Basis, Homeless, Mapped, [Next]_vars, wiped' = {}
             PROVE  Homeless' /\ Mapped'
  BY WipedGrows DEF HomeInv
<1>1. CASE UNCHANGED <<home, source, req>>
  BY <1>1 DEF Homeless, Mapped, Registered, At
<1>2. CASE Recover
  BY <1>1, <1>2 DEF Recover, ReadKnown, ListFiles, EndRecover, DeleteOrphan, ReadOnly,
     OnlyOriginals, registry, operations
<1>3. CASE Crash
  <2>1. source' = source /\ home' = home /\ \A r \in Requests : req'[r].at = "idle"
    BY <1>3 DEF Crash, ReadOnly, registry, operations, Idle
  <2> QED BY <2>1 DEF Homeless, Mapped, Registered, At, Unhoused
<1> QED BY <1>1, <1>2, <1>3, HomeOpen, HomeAccept, HomeInside DEF Next, vars

\* No content of a project becomes two sources, however many uploads of it
\* are admitted at once: a content is compared and registered in one step of
\* the lock of the registry, and the project has one workspace although each
\* of the uploads may be the first.  Only a file that was emptied while it was
\* in use can give it a second workspace, and that one has each content once.
THEOREM ContentOnce == Spec => []OneSourcePerContent
<1> DEFINE Inv == Basis /\ HomeInv
<1>1. Init => Inv
  BY BasisStart, HomeStart
<1>2. Inv /\ [Next]_vars => Inv'
  BY BasisStep, HomeStep
<1>3. Inv => OneSourcePerContent
  BY DEF Basis, Own, UniqueHere, HomeInv, Mapped, OneSourcePerContent
<1>4. QED
  BY <1>1, <1>2, <1>3, PTL DEF Spec

-----------------------------------------------------------------------------
(* How far a source is processed, as long as the registry is not wiped.    *)

Complete(s) == s \in Registered /\ derived[s] = Artifacts

\* What a request m has made, what it replaces, and what it has finished.
Staged(m) ==
    /\ m.at \in {"writing", "extracting"} \cup Young => derived[m.src] = {}
    /\ m.at = "extracted" => derived[m.src] = {"extraction text"}
    /\ m.at = "cleaning" => derived[m.src] = {"extraction text", "extraction"}
    /\ m.at = "cleaned" => derived[m.src] = {"extraction text", "extraction", "cleaned text"}
    /\ m.at = "reporting" => derived[m.src] = Artifacts \ {"report"}
    /\ m.at = "remembering" => derived[m.src] = Artifacts
    /\ m.at \in Processing => m.src \in Registered
    /\ m.at \in {"superseding", "linking"} => Complete(m.prior)
    /\ \A s \in m.done : Complete(s)
Admitted ==
    \A s \in Sources :
        s \in listed \/ (\E k \in Workspaces \X Names : keys[k] = s) => Complete(s)

Whole    == (\A r \in Requests : Staged(req[r])) /\ Admitted
WholeInv == "registry" \notin wiped => Whole

\* A request that moves while nothing is made.
LEMMA WholeMove ==
    ASSUME Basis, Whole, NEW r \in Requests, \A q \in Requests \ {r} : req'[q] = req[q],
           UNCHANGED derived, Registered \subseteq Registered', Admitted', Staged(req[r])'
    PROVE  Whole'
<1>1. \A s : Complete(s) => Complete(s)'
  BY DEF Complete
<1>2. \A q \in Requests \ {r} : Staged(req[q])'
  BY <1>1, ZenonT(40) DEF Whole, Staged
<1> QED BY <1>2 DEF Whole

LEMMA StillAdmitted ==
    ASSUME Whole, UNCHANGED <<derived, keys, listed>>, Registered \subseteq Registered'
    PROVE  Admitted'
BY DEF Whole, Admitted, Complete

LEMMA StillDone ==
    ASSUME Whole, NEW r \in Requests, UNCHANGED derived, Registered \subseteq Registered'
    PROVE  \A s \in req[r].done : Complete(s)'
BY DEF Whole, Staged, Complete

LEMMA WholeIdle ==
    ASSUME Basis, Whole, NEW r \in Requests, Done(r),
           UNCHANGED <<derived, keys, listed>>, Registered \subseteq Registered'
    PROVE  Whole'
<1>1. req'[r].at = "idle" /\ req'[r].done = {} /\ \A q \in Requests \ {r} : req'[q] = req[q]
  BY DoneIs DEF Basis, Idle
<1>2. Staged(req[r])'
  BY <1>1 DEF Staged, Young, Processing
<1> QED BY <1>1, <1>2, WholeMove, StillAdmitted

\* A request that goes on with its source, its version and its results.
LEMMA WholeGoto ==
    ASSUME Basis, Whole, NEW r \in Requests, NEW step, Goto(r, step),
           UNCHANGED <<derived, keys, listed>>, Registered \subseteq Registered',
           req[r].src \in Registered',
           \/ step \in {"keying", "verifying", "extracting"} /\ derived[req[r].src] = {}
           \/ step = "linking" /\ req[r].at = "superseding"
    PROVE  Whole'
<1>1. /\ req'[r].at = step /\ req'[r].src = req[r].src /\ req'[r].prior = req[r].prior
      /\ req'[r].done = req[r].done /\ \A q \in Requests \ {r} : req'[q] = req[q]
  BY GotoIs DEF Basis
<1>2. \A s : Complete(s) => Complete(s)'
  BY DEF Complete
<1>3. Staged(req[r])'
  BY <1>1, <1>2 DEF Whole, Staged, Young
<1> QED BY <1>1, <1>3, WholeMove, StillAdmitted

LEMMA WholeOpen ==
    ASSUME Basis, Whole, NEW r \in Requests, Open(r), "registry" \notin wiped'
    PROVE  Whole'
<1>1. Registered' = Registered /\ derived' = derived
  <2>1. CASE NewRegistry(r)
    <3>1. NothingRegistered
      BY <2>1 DEF NewRegistry
    <3>2. Registered' = {} /\ Registered = {}
      BY <2>1, <3>1 DEF NewRegistry, NothingRegistered, Registered, NoRecord
    <3>3. derived' = derived
      BY <2>1, <3>1 DEF NewRegistry, NothingRegistered, Basis, TypeInv, TypeOK
    <3> QED BY <3>2, <3>3
  <2>2. CASE ~NewRegistry(r)
    BY <2>2 DEF Open, Ask, LookForOperations, NewOperations, FindWorkspace,
       CreateWorkspace, MapWorkspace, ReadOnly, OnlyWorkspaces, OnlyOperations, registry,
       Registered
  <2> QED BY <2>1, <2>2
<1>2. Admitted'
  <2>1. CASE NewOperations(r)
    BY <2>1, IntakeAssumption DEF NewOperations, Admitted
  <2>2. CASE ~NewOperations(r)
    BY <1>1, <2>2, StillAdmitted DEF Open, Ask, LookForOperations, NewRegistry,
       FindWorkspace, CreateWorkspace, MapWorkspace, ReadOnly, OnlyWorkspaces, operations
  <2> QED BY <2>1, <2>2
<1>3. /\ req'[r].at \in {"mapping", "accepting"} \cup Opening /\ req'[r].done \subseteq req[r].done
      /\ \A q \in Requests \ {r} : req'[q] = req[q]
  <2>1. ASSUME NEW step \in Opening \cup {"accepting"}, Goto(r, step)
        PROVE  req'[r].at = step /\ req'[r].done = req[r].done
    BY <2>1, GotoIs DEF Basis
  <2>2. \/ \E upload \in Uploads : Ask(r, upload)
        \/ FindWorkspace(r) \/ CreateWorkspace(r)
        \/ \E step \in Opening \cup {"accepting"} : Goto(r, step)
    BY DEF Open, LookForOperations, NewRegistry, NewOperations, MapWorkspace, Opening
  <2> QED BY <2>1, <2>2, MoveIs DEF Basis, Opening
<1>4. Staged(req[r])'
  <2>1. \A s \in req'[r].done : Complete(s)'
    BY <1>1, <1>3, StillDone
  <2> QED BY <1>3, <2>1 DEF Staged, Opening, Young, Processing
<1> QED BY <1>1, <1>2, <1>3, <1>4, WholeMove

LEMMA WholeAccept ==
    ASSUME Basis, Whole, NEW r \in Requests, Accept(r)
    PROVE  Whole'
<1>1. UNCHANGED <<derived, keys, listed>>
  BY DEF Accept, RefuseDuplicate, WriteOriginal, Register, RegisterRaises, ReadOnly,
     OnlyOriginals, OnlySource, registry, operations
<1>2. CASE RefuseDuplicate(r) \/ RegisterRaises(r)
  <2>1. Registered' = Registered
    BY <1>2 DEF RefuseDuplicate, RegisterRaises, ReadOnly, OnlyOriginals, registry, Registered
  <2> QED BY <1>1, <1>2, <2>1, WholeIdle DEF RefuseDuplicate, RegisterRaises
<1>3. CASE WriteOriginal(r)
  <2>1. Registered' = Registered
    BY <1>3 DEF WriteOriginal, OnlyOriginals, registry, Registered
  <2>2. /\ req'[r].at = "writing" /\ NewSource(req'[r].src) /\ req'[r].done = req[r].done
        /\ \A q \in Requests \ {r} : req'[q] = req[q]
    BY <1>3, MoveIs DEF Basis, Accept
  <2>3. Staged(req[r])'
    <3>1. \A s \in req'[r].done : Complete(s)'
      BY <1>1, <2>1, <2>2, StillDone
    <3> QED BY <1>1, <2>2, <3>1 DEF Staged, NewSource, Young, Processing
  <2> QED BY <1>1, <2>1, <2>2, <2>3, WholeMove, StillAdmitted
<1>4. CASE Register(r)
  <2>1. req[r].at = "writing" /\ req[r].src \in Sources
    BY <1>4 DEF Register, At, Basis, TypeInv, Shaped, Holding
  <2>2. derived[req[r].src] = {}
    BY <2>1 DEF Whole, Staged
  <2>3. /\ source'[req[r].src].status = "accepted"
        /\ \A s \in Sources \ {req[r].src} : source'[s] = source[s]
    BY <1>4, <2>1 DEF Register, Basis, TypeInv, TypeOK
  <2>4. Registered \subseteq Registered' /\ req[r].src \in Registered'
    BY <2>1, <2>3 DEF Registered
  <2> QED BY <1>1, <1>4, <2>2, <2>4, WholeGoto DEF Register
<1> QED BY <1>2, <1>3, <1>4 DEF Accept

\* Inside the admission no record is removed.
LEMMA RecordsStay ==
    ASSUME TypeInv, NEW r \in Requests, Replace(r) \/ Process(r) \/ Finish(r)
    PROVE  Registered \subseteq Registered'
<1>1. \/ UNCHANGED source \/ SupersedePrevious(r) \/ LinkVersion(r)
      \/ Verify(r) /\ req[r].src \notin originals
  BY DEF Replace, ReadKey, Process, Verify, WriteExtraction, AddExtraction, WriteCleaned,
     AddCleaned, SaveReport, Make, Fail, Finish, RememberSourceKey, SaveOperation, ReadOnly,
     OnlyDerived, OnlyOperations, registry
<1>2. CASE UNCHANGED source
  BY <1>2 DEF Registered
<1> QED BY <1>1, <1>2, RecordIs DEF Registered

LEMMA WholeReplace ==
    ASSUME Basis, Whole, NEW r \in Requests, Replace(r)
    PROVE  Whole'
<1>1. UNCHANGED <<derived, keys, listed>> /\ Registered \subseteq Registered'
  BY RecordsStay DEF Basis, Replace, ReadKey, SupersedePrevious, LinkVersion, ReadOnly,
     OnlySource, operations
<1>2. /\ req[r].at \in Young /\ derived[req[r].src] = {} /\ req[r].src \in Registered
  BY DEF Replace, ReadKey, SupersedePrevious, LinkVersion, At, Whole, Staged, Young, Processing
<1>3. CASE ReadKey(r) /\ keys[Key(r)] \notin {NoSource, req[r].src}
  <2>1. /\ req'[r].at = "superseding" /\ req'[r].prior = keys[Key(r)]
        /\ req'[r].src = req[r].src /\ req'[r].done = req[r].done
        /\ \A q \in Requests \ {r} : req'[q] = req[q]
    BY <1>3, MoveIs DEF Basis
  <2>2. Key(r) \in Workspaces \X Names /\ keys[Key(r)] \in Sources
    BY <1>3, FileOf DEF ReadKey, At, Basis, TypeInv, TypeOK, Shaped, Opening, Key, Files
  <2>3. Complete(keys[Key(r)])
    BY <2>2 DEF Whole, Admitted
  <2>4. Complete(req[r].prior)' /\ \A s \in req'[r].done : Complete(s)'
    <3>1. \A s \in req'[r].done : Complete(s)'
      BY <1>1, <2>1, StillDone
    <3> QED BY <1>1, <2>1, <2>3, <3>1 DEF Complete
  <2>5. Staged(req[r])'
    BY <1>1, <1>2, <2>1, <2>4 DEF Staged, Young, Processing
  <2> QED BY <1>1, <2>1, <2>5, WholeMove, StillAdmitted
<1>4. CASE ~(ReadKey(r) /\ keys[Key(r)] \notin {NoSource, req[r].src})
  <2>1. \/ Goto(r, "verifying")
        \/ At(r, "superseding") /\ Goto(r, "linking")
    BY <1>4 DEF Replace, ReadKey, SupersedePrevious, LinkVersion
  <2> QED BY <1>1, <1>2, <2>1, WholeGoto DEF At
<1> QED BY <1>3, <1>4

LEMMA WholeMake ==
    ASSUME Basis, Whole, NEW r \in Requests, NEW now \in Processing \ Young,
           NEW next \in Processing \ Young, next # "extracting",
           NEW artifact \in Artifacts, Make(r, now, artifact, next),
           derived[req[r].src] # Artifacts,
           ASSUME NEW m, m.at = next,
                  derived'[m.src] = derived[req[r].src] \cup {artifact},
                  m.src \in Registered', \A s \in m.done : Complete(s)'
           PROVE  Staged(m)'
    PROVE  Whole'
<1>1. UNCHANGED <<keys, listed>> /\ Registered' = Registered
  BY DEF Make, OnlyDerived, registry, operations, Registered
<1>2. /\ req[r].at = now /\ req[r].src \in Registered /\ req[r].src \in Sources
      /\ req[r].at \in Holding
  BY DEF Make, At, Whole, Staged, Registered, Holding
<1>3. \A s \in Sources : derived'[s] = IF s = req[r].src THEN derived[s] \cup {artifact}
                                                         ELSE derived[s]
  BY <1>2 DEF Make, Basis, TypeInv, TypeOK
<1>4. \A s : Complete(s) => Complete(s)'
  BY <1>1, <1>3 DEF Complete, Registered
<1>5. /\ req'[r].at = next /\ req'[r].src = req[r].src /\ req'[r].done = req[r].done
      /\ \A q \in Requests \ {r} : req'[q] = req[q]
  BY GotoIs DEF Make, Basis
<1>6. Staged(req[r])'
  <2>1. \A s \in req'[r].done : Complete(s)'
    BY <1>4, <1>5 DEF Whole, Staged
  <2> QED BY <1>1, <1>2, <1>3, <1>5, <2>1
<1>7. ASSUME NEW q \in Requests \ {r} PROVE Staged(req[q])'
  <2>1. req[q].at \in Holding => derived'[req[q].src] = derived[req[q].src]
    <3>1. req[q].at \in Holding => req[q].src \in Sources /\ req[q].src # req[r].src
      BY <1>2 DEF Basis, Own, Owned, TypeInv, Shaped
    <3> QED BY <1>3, <3>1
  <2>2. Staged(req[q]) /\ req'[q] = req[q]
    BY <1>5 DEF Whole
  <2> QED BY <1>1, <1>4, <2>1, <2>2 DEF Staged, Holding, Processing, Young
<1>8. Admitted'
  BY <1>1, <1>4 DEF Whole, Admitted
<1> QED BY <1>6, <1>7, <1>8 DEF Whole

LEMMA WholeProcess ==
    ASSUME Basis, Whole, NEW r \in Requests, Process(r)
    PROVE  Whole'
<1> USE DEF Processing, Young, Artifacts
<1>0. Staged(req[r])
  BY DEF Whole
<1>1. CASE Verify(r)
  <2>1. /\ UNCHANGED <<derived, keys, listed>> /\ derived[req[r].src] = {}
        /\ Registered \subseteq Registered' /\ req[r].src \in Registered
    BY <1>0, <1>1, RecordsStay DEF Verify, OnlySource, operations, At, Staged, Basis
  <2>2. CASE req[r].src \in originals
    BY <1>1, <2>1, <2>2, WholeGoto DEF Verify
  <2>3. CASE req[r].src \notin originals
    BY <1>1, <2>1, <2>3, WholeIdle DEF Verify
  <2>4. QED
    BY <2>2, <2>3
<1>2. CASE WriteExtraction(r)
  <2>1. derived[req[r].src] = {}
    BY <1>0, <1>2 DEF WriteExtraction, Make, At, Staged
  <2>2. QED
    BY <1>2, <2>1, WholeMake DEF WriteExtraction, Staged
<1>3. CASE AddExtraction(r)
  <2>1. derived[req[r].src] = {"extraction text"}
    BY <1>0, <1>3 DEF AddExtraction, Make, At, Staged
  <2>2. QED
    BY <1>3, <2>1, WholeMake DEF AddExtraction, Staged
<1>4. CASE WriteCleaned(r)
  <2>1. derived[req[r].src] = {"extraction text", "extraction"}
    BY <1>0, <1>4 DEF WriteCleaned, Make, At, Staged
  <2>2. QED
    BY <1>4, <2>1, WholeMake DEF WriteCleaned, Staged
<1>5. CASE AddCleaned(r)
  <2>1. derived[req[r].src] = {"extraction text", "extraction", "cleaned text"}
    BY <1>0, <1>5 DEF AddCleaned, Make, At, Staged
  <2>2. QED
    BY <1>5, <2>1, WholeMake DEF AddCleaned, Staged
<1>6. CASE SaveReport(r)
  <2>1. derived[req[r].src] = Artifacts \ {"report"}
    BY <1>0, <1>6 DEF SaveReport, Make, At, Staged
  <2>2. QED
    BY <1>6, <2>1, WholeMake DEF SaveReport, Staged
<1>7. CASE Fail(r)
  <2>1. Registered' = Registered /\ UNCHANGED <<derived, keys, listed>>
    BY <1>7 DEF Fail, ReadOnly, registry, operations, Registered
  <2> QED BY <1>7, <2>1, WholeIdle DEF Fail
<1>8. QED
  BY <1>1, <1>2, <1>3, <1>4, <1>5, <1>6, <1>7 DEF Process

LEMMA WholeFinish ==
    ASSUME Basis, Whole, NEW r \in Requests, Finish(r)
    PROVE  Whole'
<1>1. derived' = derived /\ Registered' = Registered
  BY DEF Finish, RememberSourceKey, SaveOperation, OnlyOperations, registry, Registered
<1>2. At(r, "remembering") => Complete(req[r].src)
  BY DEF At, Whole, Staged, Complete, Processing
<1>3. \A s \in req[r].done : Complete(s)
  BY DEF Whole, Staged
<1>4. \A s : Complete(s) => Complete(s)'
  BY <1>1 DEF Complete
<1>5. CASE RememberSourceKey(r)
  <2>1. /\ req'[r].at \in {"saving", "accepting"}
        /\ req'[r].done = req[r].done \cup {req[r].src}
        /\ \A q \in Requests \ {r} : req'[q] = req[q]
    BY <1>5, MoveIs DEF Basis, Finish
  <2>2. Complete(req[r].src)
    BY <1>2, <1>5 DEF RememberSourceKey
  <2>3. Staged(req[r])'
    BY <1>3, <1>4, <2>1, <2>2 DEF Staged, Young, Processing
  <2>4. \A k \in Workspaces \X Names : keys'[k] \in {keys[k], req[r].src}
    BY <1>5 DEF RememberSourceKey, Basis, TypeInv, TypeOK
  <2>5. Admitted'
    BY <1>4, <1>5, <2>2, <2>4 DEF RememberSourceKey, Whole, Admitted
  <2> QED BY <1>1, <2>1, <2>3, <2>5, WholeMove
<1>6. CASE SaveOperation(r)
  <2>1. Admitted'
    BY <1>3, <1>4, <1>6 DEF SaveOperation, Whole, Admitted
  <2>2. /\ req'[r].at = "idle" /\ req'[r].done = {}
        /\ \A q \in Requests \ {r} : req'[q] = req[q]
    BY <1>6, DoneIs DEF SaveOperation, Basis, Idle
  <2>3. Staged(req[r])'
    BY <2>2 DEF Staged, Young, Processing
  <2> QED BY <1>1, <2>1, <2>2, <2>3, WholeMove
<1> QED BY <1>5, <1>6 DEF Finish

LEMMA WholeStart == Init => WholeInv
<1> SUFFICES ASSUME Init PROVE Whole
  BY DEF WholeInv
<1>1. \A r \in Requests : req[r].at = "idle" /\ req[r].done = {}
  BY DEF Init, Idle
<1>2. Admitted
  BY IntakeAssumption DEF Init, Admitted
<1> QED BY <1>1, <1>2 DEF Whole, Staged, Young, Processing

LEMMA WholeStep == Basis /\ WholeInv /\ [Next]_vars => WholeInv'
<1> SUFFICES ASSUME Basis, Whole, [Next]_vars, "registry" \notin wiped' PROVE Whole'
  BY WipedGrows DEF WholeInv
<1>1. CASE UNCHANGED <<source, derived, keys, listed, req>>
  BY <1>1 DEF Whole, Staged, Admitted, Complete, Registered
<1>2. CASE Recover
  BY <1>1, <1>2 DEF Recover, ReadKnown, ListFiles, EndRecover, DeleteOrphan, ReadOnly,
     OnlyOriginals, registry, operations
<1>3. CASE Crash
  <2>1. /\ UNCHANGED <<source, derived, keys, listed>>
        /\ \A r \in Requests : req'[r].at = "idle" /\ req'[r].done = {}
    BY <1>3 DEF Crash, ReadOnly, registry, operations, Idle
  <2> QED BY <2>1 DEF Whole, Staged, Admitted, Complete, Registered, Young, Processing
<1> QED BY <1>1, <1>2, <1>3, WholeOpen, WholeAccept, WholeReplace, WholeProcess, WholeFinish
   DEF Next, vars

\* Nothing becomes the version to be replaced next, or is reported as
\* accepted, before it is processed to the end: whatever fails or is killed
\* halfway, and however many uploads are processed side by side.  The report
\* is there even if an upload that has just started has emptied the registry;
\* the records are if none has.
THEOREM WholeBeforeKnown == Spec => []AdmittedWhole
<1>1. Init => Basis /\ WholeInv
  BY BasisStart, WholeStart
<1>2. Basis /\ WholeInv /\ [Next]_vars => (Basis /\ WholeInv)'
  BY BasisStep, WholeStep
<1>3. Basis /\ WholeInv => AdmittedWhole
  BY IntakeAssumption DEF Basis, Own, Remembered, Reported, WholeInv, Whole, Admitted, Complete,
     AdmittedWhole
<1>4. QED
  BY <1>1, <1>2, <1>3, PTL DEF Spec
=============================================================================
