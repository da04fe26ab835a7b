-------------------------- MODULE MaterialReviewProofs --------------------------
(* What the review of a material guarantees whatever its requests overwrite  *)
(* of each other, for any number of versions, requests and findings.         *)
EXTENDS MaterialReview, FiniteSetTheorems, TLAPS

\* The steps of a request that are about a version it was asked for, and those
\* that are about a version that is registered and new.
OldSteps == {"checking", "model", "keeping", "replacing", "rereading", "item",
             "previous", "asking", "confirming", "granting", "submitting"}
NewSteps == {"previous", "opening", "carrying", "carried"}

\* What a request may have in memory, given the texts T, the registered
\* versions G and the versions C that the user has confirmed.
Sound(m, T, G, C) ==
    /\ m \in Memory
    /\ m.art \in G \cup {NoVersion}
    /\ m.at \in OldSteps => m.art # NoVersion
    /\ m.at \in NewSteps => m.new \in G
    /\ m.at = "adding" => m.new \in T
    /\ m.at = "preparing" => m.new \in Versions
    /\ m.at \in {"keeping", "replacing"} => m.fin \in m.copy.found
    /\ m.at = "granting" => m.copy.state \in Grantable
    /\ m.at = "confirming" /\ m.copy.state = "confirmed" => m.art \in C
    /\ m.at = "carried" /\ m.copy.state = "confirmed" => m.new \in C
    /\ m.at = "submitting" => m.art \in C
    /\ Whole(m.copy)

\* A record that may be on disk for the version v.
Good(v, rec, G, C) ==
    /\ Whole(rec)
    /\ rec.state = "confirmed" => v \in C
    /\ rec.state # "none" => v \in G

Files ==
    /\ texts \subseteq Versions
    /\ registered \subseteq texts
    /\ current \subseteq registered

Reviews ==
    /\ record \in [Versions -> Records]
    /\ \A v \in Versions : Good(v, record[v], registered, granted)

Memories ==
    /\ req \in [Requests -> Memory]
    /\ \A r \in Requests : Sound(req[r], texts, registered, granted)

Uses ==
    /\ task \in [at : {"idle", "reviewing", "compiling"},
                 art : Versions \cup {NoVersion}]
    /\ task.at # "idle" => task.art \in Versions
    /\ task.at = "compiling" => task.art \in granted
    /\ granted \subseteq Versions
    /\ analyses \in [Versions -> 0..MaxAnalyses]
    /\ \A v \in Versions : analyses[v] > 0 => v \in granted
    /\ crashes \in 0..MaxCrashes
    /\ made \in BOOLEAN

\* The inductive invariant.
Inv == Files /\ Reviews /\ Memories /\ Uses

-----------------------------------------------------------------------------
\* An idle request has nothing in memory that could be wrong.
LEMMA IdleSound ==
    ASSUME NEW T, NEW G, NEW C
    PROVE  Sound(Idle, T, G, C)
BY ReviewAssumption DEF Sound, Idle, NoRecord, Fresh, Memory, Steps, Records,
       States, Checked, Open, Whole, Grantable, OldSteps, NewSteps, Findings

\* A record that is not kept is whole.
LEMMA BlankRecord == NoRecord \in Records /\ Whole(NoRecord)
BY DEF NoRecord, Fresh, Records, States, Whole, Open, Grantable, Checked

\* One request moves while nothing that others rely on is taken away.
LEMMA Moves ==
    ASSUME Memories, NEW r \in Requests, NEW m, Keep(r, m),
           Sound(m, texts', registered', granted'),
           texts \subseteq texts', registered \subseteq registered',
           granted \subseteq granted'
    PROVE  Memories'
<1>1. req' \in [Requests -> Memory]
  BY DEF Memories, Keep, Sound
<1>2. ASSUME NEW q \in Requests
      PROVE  Sound(req'[q], texts', registered', granted')
  <2>1. CASE q = r
    BY <2>1 DEF Memories, Keep
  <2>2. CASE q # r
    <3>1. req'[q] = req[q] /\ Sound(req[q], texts, registered, granted)
      BY <2>2 DEF Memories, Keep
    <3>2. QED
      BY <3>1 DEF Sound
  <2>3. QED
    BY <2>1, <2>2
<1>3. QED
  BY <1>1, <1>2 DEF Memories

\* A step that only reads.
LEMMA ReadStep ==
    ASSUME Inv, Read, NEW r \in Requests, NEW m, Keep(r, m),
           Sound(m, texts, registered, granted)
    PROVE  Inv'
<1>1. Files' /\ Reviews' /\ Uses'
  BY DEF Inv, Files, Reviews, Uses, Read, store, Good
<1>2. Memories'
  BY Moves DEF Inv, Read, store
<1>3. QED
  BY <1>1, <1>2 DEF Inv

\* A step that writes one record, and may confirm the version.
LEMMA PutStep ==
    ASSUME Inv, NEW v \in Versions, NEW rec \in Records, Put(v, rec),
           granted \subseteq granted', granted' \subseteq Versions,
           Good(v, rec, registered, granted'),
           NEW r \in Requests, NEW m, Keep(r, m),
           Sound(m, texts, registered, granted')
    PROVE  Inv'
<1>1. Files' /\ Uses'
  BY DEF Inv, Files, Uses, Put, store
<1>2. Reviews'
  <2>1. record' \in [Versions -> Records]
    BY DEF Inv, Reviews, Put
  <2>2. ASSUME NEW w \in Versions
        PROVE  Good(w, record'[w], registered', granted')
    <3>1. registered' = registered
      BY DEF Put, store
    <3>2. CASE w = v
      BY <3>1, <3>2 DEF Inv, Reviews, Put
    <3>3. CASE w # v
      BY <3>1, <3>3 DEF Inv, Reviews, Put, Good
    <3>4. QED
      BY <3>2, <3>3
  <2>3. QED
    BY <2>1, <2>2 DEF Reviews
<1>3. Memories'
  BY Moves DEF Inv, Put, store
<1>4. QED
  BY <1>1, <1>2, <1>3 DEF Inv

\* What the memory of a request is, and that forgetting it is always sound.
LEMMA Remembered ==
    ASSUME Inv, NEW r \in Requests
    PROVE  /\ req[r] \in Memory
           /\ Sound(req[r], texts, registered, granted)
BY DEF Inv, Memories

LEMMA DoneReads ==
    ASSUME Inv, Read, NEW r \in Requests, Done(r)
    PROVE  Inv'
BY ReadStep, IdleSound DEF Done

\* A step of the handler that keeps its memory and only goes on.
LEMMA GoneOn ==
    ASSUME Inv, Read, NEW r \in Requests, NEW step \in Steps, Goto(r, step),
           Sound([req[r] EXCEPT !.at = step], texts, registered, granted)
    PROVE  Inv'
BY ReadStep DEF Goto

-----------------------------------------------------------------------------
LEMMA ConstructStep ==
    ASSUME Inv, NEW r \in Requests, Construct(r)
    PROVE  Inv'
<1> USE Remembered
<1>1. CASE LookForRecords(r)
  <2>1. Sound([req[r] EXCEPT !.at = "creating"], texts, registered, granted)
    BY <1>1 DEF LookForRecords, At, Sound, Memory, OldSteps, NewSteps, Steps
  <2>2. "creating" \in Steps /\ Read /\ Goto(r, "creating")
    BY <1>1 DEF Steps, LookForRecords
  <2> QED
    BY <2>1, <2>2, GoneOn
<1>2. CASE NewRecords(r)
  <2>1. /\ UNCHANGED <<store, task, analyses, granted, crashes>> /\ Keep(r, Idle)
        /\ made' = TRUE /\ record' = [v \in Versions |-> NoRecord]
    BY <1>2 DEF NewRecords, Done
  <2>2. Files' /\ Uses'
    BY <2>1 DEF Inv, Files, Uses, store
  <2>3. Reviews'
    BY <2>1 DEF Reviews, Good, Whole, NoRecord, Fresh, Records, States, Grantable, Open
  <2>4. Memories'
    BY <2>1, Moves, IdleSound DEF Inv, store
  <2> QED
    BY <2>2, <2>3, <2>4 DEF Inv
<1> QED
  BY <1>1, <1>2 DEF Construct

-----------------------------------------------------------------------------
LEMMA CheckStep ==
    ASSUME Inv, NEW r \in Requests, Check(r)
    PROVE  Inv'
<1> USE Remembered
<1>1. ASSUME NEW v \in Versions, AskCheck(r, v)
      PROVE  Inv'
  <2> DEFINE m == [req[r] EXCEPT !.at = "checking", !.art = v]
  <2>1. v \in registered
    BY <1>1 DEF AskCheck, Inv, Files
  <2>2. Sound(m, texts, registered, granted)
    BY <1>1, <2>1, ReviewAssumption DEF Sound, Memory, OldSteps, NewSteps, Steps
  <2>3. QED
    BY <1>1, <2>2, ReadStep DEF AskCheck
<1>2. CASE ReadForCheck(r)
  <2>1. CASE Done(r)
    BY <1>2, <2>1, DoneReads DEF ReadForCheck
  <2>2. CASE Goto(r, "model")
    <3>1. Sound([req[r] EXCEPT !.at = "model"], texts, registered, granted)
      BY <1>2 DEF ReadForCheck, At, Sound, Memory, OldSteps, NewSteps, Steps
    <3>2. "model" \in Steps /\ Read
      BY <1>2 DEF Steps, ReadForCheck
    <3>3. QED
      BY <2>2, <3>1, <3>2, GoneOn
  <2>3. QED
    BY <1>2, <2>1, <2>2 DEF ReadForCheck
<1>3. CASE WriteCheck(r)
  <2>1. req[r].art \in Versions /\ req[r].art \in registered
    BY <1>3 DEF WriteCheck, At, Sound, OldSteps, Inv, Files
  <2>2. PICK rec \in Outcomes : Put(req[r].art, rec)
    BY <1>3 DEF WriteCheck
  <2>3. rec \in Records /\ Whole(rec) /\ rec.state \notin {"confirmed", "none"}
    <3>1. CASE rec \in {Fresh("manual", {}), Fresh("ready", {})}
      BY <3>1 DEF Fresh, Records, States, Checked, Open, Grantable, Whole
    <3>2. CASE rec \in {Fresh("requires_review", 1..n) : n \in Findings}
      <4>1. PICK n \in Findings : rec = Fresh("requires_review", 1..n)
        BY <3>2
      <4>2. 1..n \subseteq Findings /\ 1..n # {}
        BY ReviewAssumption DEF Findings
      <4>3. QED
        BY <4>1, <4>2 DEF Fresh, Records, States, Checked, Open, Grantable, Whole
    <3>3. QED
      BY <2>2, <3>1, <3>2 DEF Outcomes
  <2>4. Good(req[r].art, rec, registered, granted)
    BY <2>1, <2>3 DEF Good
  <2>5. /\ granted' = granted /\ granted \subseteq Versions
        /\ Keep(r, Idle)
    BY <1>3 DEF WriteCheck, Done, Inv, Uses
  <2>6. QED
    BY <2>1, <2>2, <2>3, <2>4, <2>5, PutStep, IdleSound
<1>4. QED
  BY <1>1, <1>2, <1>3 DEF Check

-----------------------------------------------------------------------------
\* A decision leaves a whole record, which is ready when it was the last.
LEMMA DecidedWhole ==
    ASSUME NEW rec \in Records, NEW f \in rec.found, Whole(rec)
    PROVE  /\ Decided(rec, f) \in Records
           /\ Whole(Decided(rec, f))
           /\ Decided(rec, f).state \in {"ready", "review_in_progress"}
BY DEF Records, Decided, Whole, States, Checked, Open, Grantable, Findings

LEMMA DecideStep ==
    ASSUME Inv, NEW r \in Requests, Decide(r)
    PROVE  Inv'
<1> USE Remembered
<1>1. ASSUME NEW v \in Versions, NEW f \in Findings,
             NEW step \in {"keeping", "replacing"}, ReadForDecision(r, v, f, step)
      PROVE  Inv'
  <2> DEFINE m == [req[r] EXCEPT !.at = step, !.art = v, !.fin = f,
                                 !.copy = record[v]]
  <2>1. /\ record[v] \in Records /\ Whole(record[v]) /\ v \in registered
        /\ f \in record[v].found
    BY <1>1 DEF ReadForDecision, Inv, Reviews, Good, Open
  <2>2. Sound(m, texts, registered, granted)
    BY <1>1, <2>1, ReviewAssumption DEF Sound, Memory, OldSteps, NewSteps, Steps
  <2>3. QED
    BY <1>1, <2>2, ReadStep DEF ReadForDecision
<1>2. CASE WriteDecision(r)
  <2> DEFINE rec == Decided(req[r].copy, req[r].fin)
             m == [req[r] EXCEPT !.at = "rereading", !.copy = NoRecord]
  <2>1. /\ req[r].art \in Versions /\ req[r].art \in registered
        /\ req[r].copy \in Records /\ Whole(req[r].copy)
        /\ req[r].fin \in req[r].copy.found
    BY <1>2 DEF WriteDecision, Sound, Memory, OldSteps, Inv, Files
  <2>2. rec \in Records /\ Good(req[r].art, rec, registered, granted)
    BY <2>1, DecidedWhole DEF Good
  <2>3. Put(req[r].art, rec) /\ granted' = granted /\ granted \subseteq Versions
    BY <1>2 DEF WriteDecision, Inv, Uses
  <2>4. NoRecord \in Records /\ Whole(NoRecord)
    BY BlankRecord
  <2>5. Sound(m, texts, registered, granted)
    BY <1>2, <2>4 DEF WriteDecision, Sound, Memory, OldSteps, NewSteps, Steps
  <2>6. CASE Done(r)
    BY <2>1, <2>2, <2>3, <2>6, PutStep, IdleSound DEF Done
  <2>7. CASE Keep(r, m)
    BY <2>1, <2>2, <2>3, <2>5, <2>7, PutStep
  <2>8. QED
    BY <1>2, <2>6, <2>7 DEF WriteDecision
<1>3. CASE Reread(r)
  <2> DEFINE m == [req[r] EXCEPT !.at = "item", !.fin = 0]
  <2>1. CASE Done(r)
    BY <1>3, <2>1, DoneReads DEF Reread
  <2>2. CASE Keep(r, m)
    <3>1. Sound(m, texts, registered, granted)
      BY <1>3 DEF Reread, At, Sound, Memory, OldSteps, NewSteps, Steps
    <3>2. QED
      BY <1>3, <2>2, <3>1, ReadStep DEF Reread
  <2>3. QED
    BY <1>3, <2>1, <2>2 DEF Reread
<1>4. QED
  BY <1>1, <1>2, <1>3 DEF Decide

-----------------------------------------------------------------------------
\* The versions in the store only grow, apart from what is current.
LEMMA StoreStep ==
    ASSUME Inv, UNCHANGED <<made, record, task, analyses, granted, crashes>>,
           texts \subseteq texts', registered \subseteq registered', Files',
           NEW r \in Requests, NEW m, Keep(r, m),
           Sound(m, texts', registered', granted)
    PROVE  Inv'
<1>1. Reviews'
  BY DEF Inv, Reviews, Good
<1>2. Uses'
  BY DEF Inv, Uses
<1>3. Memories'
  BY Moves DEF Inv
<1>4. QED
  BY <1>1, <1>2, <1>3 DEF Inv

LEMMA RenewStep ==
    ASSUME Inv, NEW r \in Requests, Renew(r)
    PROVE  Inv'
<1> USE Remembered
<1>1. ASSUME NEW v \in Versions, AskDictionary(r, v)
      PROVE  Inv'
  <2> DEFINE m == [req[r] EXCEPT !.at = "item", !.art = v]
  <2>1. Sound(m, texts, registered, granted)
    BY <1>1, ReviewAssumption
       DEF AskDictionary, Sound, Memory, OldSteps, NewSteps, Steps
  <2>2. QED
    BY <1>1, <2>1, ReadStep DEF AskDictionary
<1>2. CASE ReadItem(r)
  <2>1. CASE Done(r)
    BY <1>2, <2>1, DoneReads DEF ReadItem
  <2>2. CASE Goto(r, "prior")
    <3>1. Sound([req[r] EXCEPT !.at = "prior"], texts, registered, granted)
      BY <1>2, <2>2 DEF ReadItem, At, Sound, Memory, OldSteps, NewSteps, Steps
    <3>2. "prior" \in Steps /\ Read
      BY <1>2 DEF Steps, ReadItem
    <3>3. QED
      BY <2>2, <3>1, <3>2, GoneOn
  <2>3. QED
    BY <1>2, <2>1, <2>2 DEF ReadItem
<1>3. CASE AskReprocess(r)
  <2>1. Sound([req[r] EXCEPT !.at = "prior"], texts, registered, granted)
    BY <1>3 DEF AskReprocess, At, Sound, Memory, OldSteps, NewSteps, Steps
  <2>2. "prior" \in Steps /\ Read /\ Goto(r, "prior")
    BY <1>3 DEF Steps, AskReprocess
  <2>3. QED
    BY <2>1, <2>2, GoneOn
<1>4. CASE ReadPrior(r)
  <2> DEFINE m == [req[r] EXCEPT !.at = "superseding", !.old = current]
  <2>1. Sound(m, texts, registered, granted)
    BY <1>4 DEF ReadPrior, At, Sound, Memory, OldSteps, NewSteps, Steps, Inv, Files
  <2>2. QED
    BY <1>4, <2>1, ReadStep DEF ReadPrior
<1>5. CASE Supersede(r)
  <2>1. PICK v \in req[r].old : /\ current' = current \ {v}
                                /\ Keep(r, [req[r] EXCEPT !.old = @ \ {v}])
    BY <1>5 DEF Supersede
  <2> DEFINE m == [req[r] EXCEPT !.old = @ \ {v}]
  <2>2. Sound(m, texts, registered, granted)
    BY DEF Sound, Memory
  <2>3. UNCHANGED <<texts, registered, made, record, task, analyses, granted, crashes>>
    BY <1>5 DEF Supersede
  <2>4. Files'
    BY <2>1, <2>3 DEF Inv, Files
  <2>5. QED
    BY <2>1, <2>2, <2>3, <2>4, StoreStep
<1>6. CASE EndSupersede(r)
  <2>1. Sound([req[r] EXCEPT !.at = "text"], texts, registered, granted)
    BY <1>6 DEF EndSupersede, At, Sound, Memory, OldSteps, NewSteps, Steps
  <2>2. "text" \in Steps /\ Read /\ Goto(r, "text")
    BY <1>6 DEF Steps, EndSupersede
  <2>3. QED
    BY <2>1, <2>2, GoneOn
<1>7. CASE WriteText(r)
  <2>1. PICK v \in Versions \ texts :
               /\ texts' = texts \cup {v}
               /\ Keep(r, [req[r] EXCEPT !.at = "adding", !.new = v])
    BY <1>7 DEF WriteText
  <2> DEFINE m == [req[r] EXCEPT !.at = "adding", !.new = v]
  <2>2. Sound(m, texts', registered, granted)
    BY <2>1 DEF Sound, Memory, OldSteps, NewSteps, Steps
  <2>3. UNCHANGED <<registered, current, made, record, task, analyses, granted, crashes>>
    BY <1>7 DEF WriteText
  <2>4. Files'
    BY <2>1, <2>3 DEF Inv, Files
  <2>5. QED
    BY <2>1, <2>2, <2>3, <2>4, StoreStep
<1>8. CASE AddVersion(r)
  <2>1. /\ registered' = registered \cup {req[r].new}
        /\ current' = current \cup {req[r].new}
        /\ UNCHANGED <<texts, made, record, task, analyses, granted, crashes>>
    BY <1>8 DEF AddVersion
  <2>2. req[r].new \in texts
    BY <1>8 DEF AddVersion, At, Sound
  <2>3. Files'
    BY <2>1, <2>2 DEF Inv, Files
  <2>4. CASE Done(r)
    BY <2>1, <2>3, <2>4, StoreStep, IdleSound DEF Done
  <2>5. CASE req[r].art # NoVersion /\ Goto(r, "previous")
    <3> DEFINE m == [req[r] EXCEPT !.at = "previous"]
    <3>1. Sound(m, texts, registered', granted)
      BY <2>1, <2>5 DEF Sound, Memory, OldSteps, NewSteps, Steps
    <3>2. QED
      BY <2>1, <2>3, <2>5, <3>1, StoreStep DEF Goto
  <2>6. QED
    BY <1>8, <2>4, <2>5 DEF AddVersion
<1>9. CASE FailWrite(r)
  BY <1>9, DoneReads DEF FailWrite
<1>10. QED
  BY <1>1, <1>2, <1>3, <1>4, <1>5, <1>6, <1>7, <1>8, <1>9 DEF Renew

-----------------------------------------------------------------------------
LEMMA SucceedStep ==
    ASSUME Inv, NEW r \in Requests, Succeed(r)
    PROVE  Inv'
<1> USE Remembered
<1>1. ASSUME NEW v \in Versions, AskView(r, v)
      PROVE  Inv'
  <2> DEFINE m == [req[r] EXCEPT !.at = "preparing", !.new = v]
  <2>1. Sound(m, texts, registered, granted)
    BY <1>1 DEF Sound, Memory, OldSteps, NewSteps, Steps
  <2>2. QED
    BY <1>1, <2>1, ReadStep DEF AskView
<1>2. CASE ReadPrevious(r)
  <2>1. CASE Done(r)
    BY <1>2, <2>1, DoneReads DEF ReadPrevious
  <2>2. CASE Goto(r, "preparing")
    <3>1. Sound([req[r] EXCEPT !.at = "preparing"], texts, registered, granted)
      BY <1>2, <2>2
         DEF ReadPrevious, At, Sound, Memory, OldSteps, NewSteps, Steps, Inv, Files
    <3>2. "preparing" \in Steps /\ Read
      BY <1>2 DEF Steps, ReadPrevious
    <3>3. QED
      BY <2>2, <3>1, <3>2, GoneOn
  <2>3. QED
    BY <1>2, <2>1, <2>2 DEF ReadPrevious
<1>3. CASE Prepare(r)
  <2>1. CASE Done(r)
    BY <1>3, <2>1, DoneReads DEF Prepare
  <2>2. CASE req[r].new \in current /\ Goto(r, "opening")
    <3>1. Sound([req[r] EXCEPT !.at = "opening"], texts, registered, granted)
      BY <1>3, <2>2
         DEF Prepare, At, Sound, Memory, OldSteps, NewSteps, Steps, Inv, Files
    <3>2. "opening" \in Steps /\ Read
      BY <1>3 DEF Steps, Prepare
    <3>3. QED
      BY <2>2, <3>1, <3>2, GoneOn
  <2>3. QED
    BY <1>3, <2>1, <2>2 DEF Prepare
<1>4. CASE WritePrepared(r)
  <2>1. req[r].new \in registered /\ req[r].new \in Versions
    BY <1>4 DEF WritePrepared, At, Sound, NewSteps, Inv, Files
  <2>2. /\ NotStarted \in Records
        /\ Good(req[r].new, NotStarted, registered, granted)
    BY <2>1 DEF NotStarted, Fresh, Records, States, Whole, Open, Grantable,
                Checked, Good
  <2>3. /\ Put(req[r].new, NotStarted)
        /\ granted' = granted /\ granted \subseteq Versions
    BY <1>4 DEF WritePrepared, Inv, Uses
  <2>4. CASE Done(r)
    BY <2>1, <2>2, <2>3, <2>4, PutStep, IdleSound DEF Done
  <2>5. CASE Goto(r, "carrying")
    <3> DEFINE m == [req[r] EXCEPT !.at = "carrying"]
    <3>1. Sound(m, texts, registered, granted)
      BY <2>1 DEF Sound, Memory, OldSteps, NewSteps, Steps
    <3>2. QED
      BY <2>1, <2>2, <2>3, <2>5, <3>1, PutStep DEF Goto
  <2>6. QED
    BY <1>4, <2>4, <2>5 DEF WritePrepared
<1>5. CASE ReadPrepared(r)
  <2> DEFINE m == [req[r] EXCEPT !.at = "carried", !.copy = record[req[r].new]]
  <2>1. req[r].new \in registered /\ req[r].new \in Versions
    BY <1>5 DEF ReadPrepared, At, Sound, NewSteps, Inv, Files
  <2>2. /\ record[req[r].new] \in Records
        /\ Good(req[r].new, record[req[r].new], registered, granted)
    BY <2>1 DEF Inv, Reviews
  <2>3. Sound(m, texts, registered, granted)
    BY <2>1, <2>2 DEF Good, Sound, Memory, OldSteps, NewSteps, Steps
  <2>4. CASE Done(r)
    BY <1>5, <2>4, DoneReads DEF ReadPrepared
  <2>5. CASE Keep(r, m)
    BY <1>5, <2>3, <2>5, ReadStep DEF ReadPrepared
  <2>6. QED
    BY <1>5, <2>4, <2>5 DEF ReadPrepared
<1>6. CASE WriteCarried(r)
  <2>1. /\ req[r].new \in registered /\ req[r].new \in Versions
        /\ req[r].copy \in Records
        /\ Good(req[r].new, req[r].copy, registered, granted)
    BY <1>6 DEF WriteCarried, At, Sound, Memory, NewSteps, Inv, Files, Good
  <2>2. /\ Put(req[r].new, req[r].copy) /\ Keep(r, Idle)
        /\ granted' = granted /\ granted \subseteq Versions
    BY <1>6 DEF WriteCarried, Done, Inv, Uses
  <2>3. QED
    BY <2>1, <2>2, PutStep, IdleSound
<1>7. QED
  BY <1>1, <1>2, <1>3, <1>4, <1>5, <1>6 DEF Succeed

-----------------------------------------------------------------------------
LEMMA ConfirmStep ==
    ASSUME Inv, NEW r \in Requests, Confirm(r)
    PROVE  Inv'
<1> USE Remembered
<1>1. ASSUME NEW v \in Versions, AskConfirm(r, v)
      PROVE  Inv'
  <2> DEFINE m == [req[r] EXCEPT !.at = "asking", !.art = v]
  <2>1. v \in registered
    BY <1>1 DEF AskConfirm, Inv, Reviews, Good
  <2>2. Sound(m, texts, registered, granted)
    BY <1>1, <2>1, ReviewAssumption DEF Sound, Memory, OldSteps, NewSteps, Steps
  <2>3. QED
    BY <1>1, <2>2, ReadStep DEF AskConfirm
<1>2. CASE ReadToConfirm(r)
  <2> DEFINE m == [req[r] EXCEPT !.at = "confirming", !.copy = record[req[r].art]]
  <2>1. req[r].art \in Versions
    BY <1>2 DEF ReadToConfirm, At, Sound, OldSteps, Inv, Files
  <2>2. /\ record[req[r].art] \in Records
        /\ Good(req[r].art, record[req[r].art], registered, granted)
    BY <2>1 DEF Inv, Reviews
  <2>3. Sound(m, texts, registered, granted)
    BY <1>2, <2>2
       DEF ReadToConfirm, At, Good, Sound, Memory, OldSteps, NewSteps, Steps
  <2>4. QED
    BY <1>2, <2>3, ReadStep DEF ReadToConfirm
<1>3. CASE CheckConfirm(r)
  <2>1. Read
    BY <1>3 DEF CheckConfirm
  <2>2. CASE Done(r)
    BY <2>1, <2>2, DoneReads
  <2>3. CASE req[r].copy.state = "confirmed" /\ GoSubmit(r)
    <3>1. Sound([req[r] EXCEPT !.at = "submitting", !.copy = NoRecord],
                texts, registered, granted)
      BY <1>3, <2>3, BlankRecord
         DEF CheckConfirm, At, Sound, Memory, OldSteps, NewSteps, Steps
    <3>2. QED
      BY <2>1, <2>3, <3>1, ReadStep DEF GoSubmit
  <2>4. CASE req[r].copy.state \in Grantable /\ Goto(r, "granting")
    <3>1. Sound([req[r] EXCEPT !.at = "granting"], texts, registered, granted)
      BY <1>3, <2>4 DEF CheckConfirm, At, Sound, Memory, OldSteps, NewSteps, Steps
    <3>2. "granting" \in Steps
      BY DEF Steps
    <3>3. QED
      BY <2>1, <2>4, <3>1, <3>2, GoneOn
  <2>5. QED
    BY <1>3, <2>2, <2>3, <2>4 DEF CheckConfirm
<1>4. CASE WriteConfirmed(r)
  <2> DEFINE v == req[r].art
             rec == [req[r].copy EXCEPT !.state = "confirmed"]
             m == [req[r] EXCEPT !.at = "submitting", !.copy = NoRecord]
  <2>1. v \in Versions /\ v \in registered
    BY <1>4 DEF WriteConfirmed, At, Sound, OldSteps, Inv, Files
  <2>2. /\ req[r].copy \in Records /\ Whole(req[r].copy)
        /\ req[r].copy.state \in Grantable
    BY <1>4 DEF WriteConfirmed, At, Sound, Memory
  <2>3. /\ Put(v, rec) /\ Keep(r, m)
        /\ granted' = granted \cup {v} /\ granted \subseteq Versions
    BY <1>4 DEF WriteConfirmed, GoSubmit, Inv, Uses
  <2>4. rec \in Records /\ Good(v, rec, registered, granted')
    BY <2>1, <2>2, <2>3 DEF Good, Whole, Records, States, Checked, Open, Grantable
  <2>5. Sound(m, texts, registered, granted')
    BY <1>4, <2>3, BlankRecord
       DEF WriteConfirmed, At, Sound, Memory, OldSteps, NewSteps, Steps
  <2>6. granted \subseteq granted' /\ granted' \subseteq Versions
    BY <2>1, <2>3
  <2>7. QED
    BY <2>1, <2>3, <2>4, <2>5, <2>6, PutStep
<1>5. CASE SubmitAnalysis(r)
  <2>1. req[r].art \in granted
    BY <1>5 DEF SubmitAnalysis, At, Sound
  <2>2. /\ UNCHANGED <<texts, registered, current, made, record, task, granted,
                   crashes>>
        /\ Keep(r, Idle)
    BY <1>5 DEF SubmitAnalysis, store, Done
  <2>3. Files' /\ Reviews'
    BY <2>2 DEF Inv, Files, Reviews, Good
  <2>4. Memories'
    BY <2>2, Moves, IdleSound DEF Inv
  <2>5. /\ analyses' \in [Versions -> 0..MaxAnalyses]
        /\ \A v \in Versions : analyses'[v] > 0 => v \in granted
    <3>1. analyses \in [Versions -> 0..MaxAnalyses] /\ MaxAnalyses \in Nat
      BY ReviewAssumption DEF Inv, Uses
    <3>2. CASE UNCHANGED analyses
      BY <3>2 DEF Inv, Uses
    <3>3. CASE analyses' = [analyses EXCEPT
                 ![req[r].art] = IF @ < MaxAnalyses THEN @ + 1 ELSE @]
      BY <2>1, <3>1, <3>3 DEF Inv, Uses
    <3>4. QED
      BY <1>5, <3>2, <3>3 DEF SubmitAnalysis
  <2>6. Uses'
    BY <2>2, <2>5 DEF Inv, Uses
  <2>7. QED
    BY <2>3, <2>4, <2>6 DEF Inv
<1>6. QED
  BY <1>1, <1>2, <1>3, <1>4, <1>5 DEF Confirm

-----------------------------------------------------------------------------
LEMMA CompileStep ==
    ASSUME Inv, Compile
    PROVE  Inv'
<1>1. UNCHANGED <<store, made, record, req, analyses, granted, crashes>>
  BY DEF Compile, CompileItem, CompileReview, CompileEnd
<1>2. Files' /\ Reviews' /\ Memories'
  BY <1>1 DEF Inv, Files, Reviews, Memories, store, Good, Sound
<1>3. /\ task' \in [at : {"idle", "reviewing", "compiling"},
                     art : Versions \cup {NoVersion}]
      /\ task'.at # "idle" => task'.art \in Versions
      /\ task'.at = "compiling" => task'.art \in granted
  <2>1. ASSUME NEW v \in Versions, CompileItem(v)
        PROVE  task' = [at |-> "reviewing", art |-> v]
    BY <2>1 DEF CompileItem
  <2>2. CASE CompileReview
    <3>1. task.art \in Versions /\ task.at = "reviewing"
      BY <2>2 DEF CompileReview, Inv, Uses
    <3>2. CASE record[task.art].state = "confirmed"
      BY <2>2, <3>1, <3>2 DEF CompileReview, Inv, Uses, Reviews, Good
    <3>3. CASE record[task.art].state # "confirmed"
      BY <2>2, <3>3 DEF CompileReview, NoTask
    <3>4. QED
      BY <3>2, <3>3
  <2>3. CASE CompileEnd
    BY <2>3 DEF CompileEnd, NoTask
  <2>4. QED
    BY <2>1, <2>2, <2>3 DEF Compile
<1>4. Uses'
  BY <1>1, <1>3 DEF Inv, Uses
<1>5. QED
  BY <1>2, <1>4 DEF Inv

LEMMA CrashStep ==
    ASSUME Inv, Crash
    PROVE  Inv'
<1>1. Files' /\ Reviews'
  BY DEF Inv, Crash, store, Files, Reviews, Good
<1>2. Memories'
  <2>1. Sound(Idle, texts', registered', granted') /\ Idle \in Memory
    BY IdleSound DEF Sound
  <2>2. QED
    BY <2>1 DEF Memories, Crash
<1>3. Uses'
  BY ReviewAssumption DEF Inv, Crash, Uses, NoTask
<1>4. QED
  BY <1>1, <1>2, <1>3 DEF Inv

LEMMA Start == Init => Inv
<1> SUFFICES ASSUME Init PROVE Inv
  OBVIOUS
<1>1. Files
  BY DEF Init, Files
<1>2. Reviews
  BY DEF Init, Reviews, Good, Whole, NoRecord, Fresh, Records, States, Grantable, Open
<1>3. Memories
  <2>1. Sound(Idle, texts, registered, granted) /\ Idle \in Memory
    BY IdleSound DEF Sound
  <2>2. QED
    BY <2>1 DEF Memories, Init
<1>4. Uses
  <2>1. made \in BOOLEAN
    BY DEF Init
  <2>2. /\ task \in [at : {"idle", "reviewing", "compiling"},
                     art : Versions \cup {NoVersion}]
        /\ task.at = "idle"
    BY DEF Init, NoTask
  <2>3. /\ granted \subseteq Versions
        /\ analyses \in [Versions -> 0..MaxAnalyses]
        /\ \A v \in Versions : ~(analyses[v] > 0)
        /\ crashes \in 0..MaxCrashes
    BY ReviewAssumption DEF Init
  <2> QED
    BY <2>1, <2>2, <2>3 DEF Uses
<1>5. QED
  BY <1>1, <1>2, <1>3, <1>4 DEF Inv

LEMMA Stutter == Inv /\ UNCHANGED vars => Inv'
BY DEF Inv, vars, Files, Reviews, Memories, Uses, Good, Sound

LEMMA InvNext == Inv /\ [Next]_vars => Inv'
BY ConstructStep, CheckStep, DecideStep, RenewStep, SucceedStep, ConfirmStep, CompileStep,
   CrashStep, Stutter DEF Next

\* The invariant holds throughout.
LEMMA Always == Spec => []Inv
<1>1. QED
  BY InvNext, Start, PTL DEF Spec

PastOK == past \in [Requests -> SUBSET Events]

LEMMA PastStep ==
    ASSUME Inv, Inv', PastOK, Meanwhile \/ past' = past
    PROVE  PastOK'
<1>1. CASE Meanwhile
  <2>1. Happens \subseteq Events
    BY DEF Happens, Events, Inv, Files
  <2> QED
    BY <1>1, <2>1 DEF Meanwhile, PastOK
<1> QED
  BY <1>1 DEF PastOK

\* Every step of a request, and a kill, remembers what it does.
LEMMA NextMeanwhile == [Next]_vars => Meanwhile \/ past' = past
BY DEF Next, vars, Construct, LookForRecords, NewRecords, Check, Decide, Renew, Succeed, Confirm, Compile, Crash, AskCheck,
   ReadForCheck, WriteCheck, ReadForDecision, WriteDecision, Reread, AskDictionary,
   ReadItem, AskReprocess, ReadPrior, Supersede, EndSupersede, WriteText, AddVersion,
   FailWrite, AskView, ReadPrevious, Prepare, WritePrepared, ReadPrepared, WriteCarried,
   AskConfirm, ReadToConfirm, CheckConfirm, WriteConfirmed, SubmitAnalysis, CompileItem,
   CompileReview, CompileEnd, Read

\* The store, the records, the requests and the compilation keep their types.
THEOREM TypeCorrect == Spec => []TypeOK
<1>1. Inv /\ PastOK => TypeOK
  BY DEF Inv, Files, Reviews, Memories, Uses, PastOK, TypeOK
<1>2. Init => Inv /\ PastOK
  BY Start DEF Init, PastOK
<1>3. Inv /\ PastOK /\ [Next]_vars => (Inv /\ PastOK)'
  BY InvNext, NextMeanwhile, PastStep
<1>4. QED
  BY <1>1, <1>2, <1>3, PTL DEF Spec

\* However the handlers overwrite each other's records, none is ready or
\* confirmed with a finding that nobody has decided.
THEOREM RecordsWhole == Spec => []NothingUndecided
<1>1. Inv => NothingUndecided
  BY DEF Inv, Reviews, Good, NothingUndecided
<1>2. QED
  BY <1>1, Always, PTL

\* No version counts as confirmed, is compiled or analysed unless the user has
\* confirmed that very version.
THEOREM ConfirmationNeeded == Spec => []OnlyConfirmedUsed
<1>1. Inv => OnlyConfirmedUsed
  BY DEF Inv, Reviews, Uses, Good, OnlyConfirmedUsed
<1>2. QED
  BY <1>1, Always, PTL

\* A review stands on a registered version, and that on a text on disk.
THEOREM ReviewGrounded == Spec => []TextBehindReview
<1>1. Inv => TextBehindReview
  BY DEF Inv, Files, Reviews, Good, TextBehindReview
<1>2. QED
  BY <1>1, Always, PTL

-----------------------------------------------------------------------------
(* What overlapping requests leave of each other's work.  A request that is *)
(* going to write knows what it has read; what has changed since then is in *)
(* its past.                                                                 *)

\* Until the file is there every record is empty, and the only requests that are
\* under way make it or reprocess.
Unopened ==
    made \/ /\ record = [v \in Versions |-> NoRecord]
            /\ \A r \in Requests : /\ req[r].art = NoVersion
                                   /\ req[r].at \in {"idle", "creating", "prior",
                                                    "superseding", "text", "adding"}

\* A record that says confirmed says so since the request has read it.
Recent(v, P, R) == R[v].state = "confirmed" => <<"confirmed", v>> \in P

\* What a request with the past P knows of the current versions C and the
\* records R.
Aware(m, P, C, R) ==
    /\ m.at = "creating" => \A v \in Versions : Recent(v, P, R)
    /\ m.at = "superseding" => \A v \in C : v \in m.old \/ <<"added", v>> \in P
    /\ m.at \in {"text", "adding"} => \A v \in C : <<"added", v>> \in P
    /\ m.at \in {"adding", "previous", "preparing", "opening"} => Recent(m.new, P, R)
    /\ m.at = "carried" => m.copy.state = "confirmed" \/ Recent(m.new, P, R)
    /\ m.at \in {"model", "keeping", "replacing", "asking", "confirming", "granting"}
          => Recent(m.art, P, R)
    /\ m.at = "confirming" /\ m.copy.state = "confirmed" => <<"confirmed", m.art>> \in P
    /\ m.at = "granting" => m.art \in C \/ <<"superseded", m.art>> \in P
    /\ m.at = "submitting" => <<"confirmed", m.art>> \in P

Knows(r) == Aware(req[r], past[r], current, record)

\* What a step of the request r must be.
KeepsConfirmed(r) ==
    \A v \in Versions : record[v].state = "confirmed" /\ record'[v].state # "confirmed"
                            => <<"confirmed", v>> \in past[r]
GrantsCurrent(r) ==
    \A v \in granted' \ granted : v \in current \/ <<"superseded", v>> \in past[r]
AddsInstead(r) ==
    registered' # registered => \A v \in current : <<"added", v>> \in past[r]
SubmitsOnce(r) ==
    \A v \in Versions : analyses'[v] # analyses[v] => <<"confirmed", v>> \in past[r]
FineStep(r) ==
    /\ Knows(r)'
    /\ KeepsConfirmed(r) /\ GrantsCurrent(r) /\ AddsInstead(r) /\ SubmitsOnce(r)
    /\ req'[r] = req[r] => UNCHANGED <<record, granted, registered, analyses>>

LEMMA IdleAware ==
    ASSUME NEW P, NEW C, NEW R
    PROVE  Aware(Idle, P, C, R)
  BY DEF Aware, Idle

\* A request forgets nothing that it may still need.
LEMMA WindowsEnough ==
    ASSUME NEW m, NEW P, NEW C \in SUBSET Versions, NEW R, Aware(m, P, C, R)
    PROVE  Aware(m, P \cap Windows(m), C, R)
  BY DEF Aware, Recent, Windows

\* What happens beside a request is in its past, so it still knows.
LEMMA StillAware ==
    ASSUME Inv, Inv', NEW m, m \in Memory, NEW P, Aware(m, P, current, record),
           Sound(m, texts, registered, granted)
    PROVE  Aware(m, P \cup Happens, current', record')
<1> DEFINE Q == P \cup Happens
<1>1. \A v \in Versions : Recent(v, P, record) => Recent(v, Q, record')
  BY DEF Recent, Happens
<1>2. \A v \in current' : v \in current \/ <<"added", v>> \in Q
  BY DEF Happens
<1>3. \A v \in current : v \in current' \/ <<"superseded", v>> \in Q
  BY DEF Happens
<1>4. /\ m.at \in {"adding", "previous", "preparing", "opening", "carried"} => m.new \in Versions
      /\ m.at \in {"model", "keeping", "replacing", "asking", "confirming", "granting"}
            => m.art \in Versions
  BY DEF Sound, OldSteps, NewSteps, Inv, Files
<1>5. \A e : e \in P => e \in Q
  OBVIOUS
<1> HIDE DEF Q
<1>6. Aware(m, Q, current', record')
  BY <1>1, <1>2, <1>3, <1>4, <1>5 DEF Aware
<1> QED
  BY <1>6 DEF Q

LEMMA NowKnows ==
    ASSUME Inv', Meanwhile, NEW r \in Requests, NEW m, req'[r] = m,
           Aware(m, past[r] \cup Happens, current', record')
    PROVE  Knows(r)'
<1>1. past'[r] = (past[r] \cup Happens) \cap Windows(m)
  BY DEF Meanwhile
<1>2. current' \in SUBSET Versions
  BY DEF Inv, Files
<1> QED
  BY <1>1, <1>2, WindowsEnough DEF Knows

LEMMA FineRead ==
    ASSUME Inv, Inv', Read, NEW r \in Requests, NEW m, Keep(r, m),
           Aware(m, past[r], current, record)
    PROVE  FineStep(r)
<1>1. req'[r] = m
  BY DEF Inv, Memories, Keep
<1>2. /\ current' = current /\ record' = record /\ analyses' = analyses
      /\ granted' = granted /\ registered' = registered /\ Meanwhile
  BY DEF Read, store
<1>3. past[r] \cup Happens = past[r]
  BY <1>2 DEF Happens
<1>4. Knows(r)'
  BY <1>1, <1>2, <1>3, NowKnows
<1> QED
  BY <1>2, <1>4 DEF FineStep, KeepsConfirmed, GrantsCurrent, AddsInstead, SubmitsOnce

LEMMA FinePut ==
    ASSUME Inv, Inv', Meanwhile, NEW v \in Versions, NEW rec, Put(v, rec),
           NEW r \in Requests,
           rec.state = "confirmed" \/ Recent(v, past[r], record),
           \A w \in granted' \ granted : w \in current \/ <<"superseded", w>> \in past[r],
           NEW m, Keep(r, m), m # req[r],
           Aware(m, past[r] \cup Happens, current, [record EXCEPT ![v] = rec])
    PROVE  FineStep(r)
<1>1. req'[r] = m
  BY DEF Inv, Memories, Keep
<1>2. /\ current' = current /\ record' = [record EXCEPT ![v] = rec]
      /\ analyses' = analyses /\ registered' = registered
  BY DEF Put, store
<1>3. \A w \in Versions : record'[w] = IF w = v THEN rec ELSE record[w]
  BY <1>2 DEF Inv, Reviews
<1>4. KeepsConfirmed(r)
  BY <1>3 DEF KeepsConfirmed, Recent
<1>5. Knows(r)'
  BY <1>1, <1>2, NowKnows
<1> QED
  BY <1>1, <1>2, <1>4, <1>5 DEF FineStep, GrantsCurrent, AddsInstead, SubmitsOnce

LEMMA FineConstruct ==
    ASSUME Inv, Inv', Unopened, NEW r \in Requests, Knows(r), Construct(r)
    PROVE  FineStep(r)
<1> USE Remembered
<1>1. CASE LookForRecords(r)
  <2>1. \A v \in Versions : record[v].state # "confirmed"
    BY <1>1 DEF LookForRecords, Unopened, NoRecord, Fresh
  <2>2. Aware([req[r] EXCEPT !.at = "creating"], past[r], current, record)
    BY <2>1 DEF Aware, Recent, Memory
  <2> QED BY <1>1, <2>2, FineRead DEF LookForRecords, Goto
<1>2. CASE NewRecords(r)
  <2>1. /\ UNCHANGED <<store, analyses, granted>> /\ Meanwhile
        /\ Keep(r, Idle) /\ At(r, "creating")
    BY <1>2 DEF NewRecords, Done
  <2>2. KeepsConfirmed(r)
    BY <2>1 DEF KeepsConfirmed, Knows, Aware, Recent, At
  <2>3. req'[r] = Idle /\ Idle # req[r]
    BY <2>1 DEF Keep, At, Idle, Inv, Memories
  <2>4. Knows(r)'
    BY <2>1, <2>3, NowKnows, IdleAware
  <2> QED
    BY <2>1, <2>2, <2>3, <2>4
       DEF FineStep, GrantsCurrent, AddsInstead, SubmitsOnce, store
<1> QED
  BY <1>1, <1>2 DEF Construct

LEMMA FineCheck ==
    ASSUME Inv, Inv', NEW r \in Requests, Knows(r), Check(r)
    PROVE  FineStep(r)
<1> USE Remembered
<1>1. ASSUME NEW v \in Versions, AskCheck(r, v)
      PROVE  FineStep(r)
  <2>1. Aware([req[r] EXCEPT !.at = "checking", !.art = v], past[r], current, record)
    BY DEF Aware, Memory
  <2> QED BY <1>1, <2>1, FineRead DEF AskCheck
<1>2. CASE ReadForCheck(r)
  <2>1. CASE Done(r)
    BY <1>2, <2>1, FineRead, IdleAware DEF ReadForCheck, Done
  <2>2. CASE record[req[r].art].state \notin Checked /\ Goto(r, "model")
    <3>1. Aware([req[r] EXCEPT !.at = "model"], past[r], current, record)
      BY <2>2 DEF Aware, Recent, Memory, Checked
    <3> QED BY <1>2, <2>2, <3>1, FineRead DEF ReadForCheck, Goto
  <2> QED BY <1>2, <2>1, <2>2 DEF ReadForCheck
<1>3. CASE WriteCheck(r)
  <2>1. /\ req[r].art \in Versions /\ Recent(req[r].art, past[r], record)
        /\ Idle # req[r]
    BY <1>3 DEF WriteCheck, At, Sound, OldSteps, Inv, Files, Knows, Aware, Idle
  <2>2. PICK rec \in Outcomes : Put(req[r].art, rec)
    BY <1>3 DEF WriteCheck
  <2>3. Keep(r, Idle) /\ Meanwhile /\ granted' = granted
    BY <1>3 DEF WriteCheck, Done
  <2> QED
    BY <2>1, <2>2, <2>3, FinePut, IdleAware
<1> QED
  BY <1>1, <1>2, <1>3 DEF Check

LEMMA FineDecide ==
    ASSUME Inv, Inv', NEW r \in Requests, Knows(r), Decide(r)
    PROVE  FineStep(r)
<1> USE Remembered
<1>1. ASSUME NEW v \in Versions, NEW f \in Findings,
             NEW step \in {"keeping", "replacing"}, ReadForDecision(r, v, f, step)
      PROVE  FineStep(r)
  <2> DEFINE m == [req[r] EXCEPT !.at = step, !.art = v, !.fin = f, !.copy = record[v]]
  <2>1. Aware(m, past[r], current, record)
    BY <1>1 DEF Aware, Recent, Memory, ReadForDecision, Open
  <2> QED BY <1>1, <2>1, FineRead DEF ReadForDecision
<1>2. CASE WriteDecision(r)
  <2> DEFINE rec == Decided(req[r].copy, req[r].fin)
             m == [req[r] EXCEPT !.at = "rereading", !.copy = NoRecord]
  <2>1. req[r].art \in Versions /\ Recent(req[r].art, past[r], record)
    BY <1>2 DEF WriteDecision, Sound, OldSteps, Inv, Files, Knows, Aware
  <2>2. Aware(m, past[r] \cup Happens, current, [record EXCEPT ![req[r].art] = rec])
    BY DEF Aware, Memory
  <2>3. /\ Keep(r, Idle) \/ Keep(r, m)
        /\ Put(req[r].art, rec) /\ Meanwhile /\ granted' = granted
    BY <1>2 DEF WriteDecision, Done
  <2>4. Idle # req[r] /\ m # req[r]
    <3>1. req[r].at \in {"keeping", "replacing"} /\ req[r] \in Memory
      BY <1>2 DEF WriteDecision, Inv, Memories
    <3>2. m.at = "rereading" /\ Idle.at = "idle"
      BY <3>1 DEF Idle, Memory
    <3> QED BY <3>1, <3>2
  <2> QED
    BY <2>1, <2>2, <2>3, <2>4, FinePut, IdleAware
<1>3. CASE Reread(r)
  <2>1. Aware([req[r] EXCEPT !.at = "item", !.fin = 0], past[r], current, record)
    BY DEF Aware, Memory
  <2>2. Done(r) \/ Keep(r, [req[r] EXCEPT !.at = "item", !.fin = 0])
    BY <1>3 DEF Reread
  <2> QED
    BY <1>3, <2>1, <2>2, FineRead, IdleAware DEF Reread, Done
<1> QED
  BY <1>1, <1>2, <1>3 DEF Decide

\* A step of the store that registers nothing and leaves the records alone.
LEMMA FineStore ==
    ASSUME Inv, Inv', Meanwhile, UNCHANGED <<registered, record, analyses, granted>>,
           NEW r \in Requests, NEW m, Keep(r, m),
           Aware(m, past[r] \cup Happens, current', record)
    PROVE  FineStep(r)
<1>1. req'[r] = m
  BY DEF Inv, Memories, Keep
<1>2. Knows(r)'
  BY <1>1, NowKnows
<1> QED
  BY <1>2 DEF FineStep, KeepsConfirmed, GrantsCurrent, AddsInstead, SubmitsOnce

LEMMA FineRenew ==
    ASSUME Inv, Inv', NEW r \in Requests, Knows(r), Renew(r)
    PROVE  FineStep(r)
<1> USE Remembered
<1>1. ASSUME NEW v \in Versions, AskDictionary(r, v)
      PROVE  FineStep(r)
  <2>1. Aware([req[r] EXCEPT !.at = "item", !.art = v], past[r], current, record)
    BY DEF Aware, Memory
  <2> QED BY <1>1, <2>1, FineRead DEF AskDictionary
<1>2. CASE ReadItem(r) \/ AskReprocess(r)
  <2>1. Aware([req[r] EXCEPT !.at = "prior"], past[r], current, record)
    BY DEF Aware, Memory
  <2>2. (Done(r) \/ Goto(r, "prior")) /\ Read
    BY <1>2 DEF ReadItem, AskReprocess
  <2> QED BY <2>1, <2>2, FineRead, IdleAware DEF Done, Goto
<1>3. CASE ReadPrior(r)
  <2>1. Aware([req[r] EXCEPT !.at = "superseding", !.old = current], past[r], current, record)
    BY DEF Aware, Memory
  <2> QED BY <1>3, <2>1, FineRead DEF ReadPrior
<1>4. CASE Supersede(r)
  <2>1. PICK v \in req[r].old : /\ current' = current \ {v}
                                /\ Keep(r, [req[r] EXCEPT !.old = @ \ {v}])
    BY <1>4 DEF Supersede
  <2>2. /\ req[r].at = "superseding"
        /\ \A w \in current : w \in req[r].old \/ <<"added", w>> \in past[r]
    BY <1>4 DEF Supersede, At, Knows, Aware
  <2>3. Aware([req[r] EXCEPT !.old = @ \ {v}], past[r] \cup Happens, current', record)
    BY <2>1, <2>2 DEF Aware, Memory
  <2> QED BY <1>4, <2>1, <2>3, FineStore DEF Supersede
<1>5. CASE EndSupersede(r)
  <2>1. \A w \in current : <<"added", w>> \in past[r]
    BY <1>5 DEF EndSupersede, At, Knows, Aware
  <2>2. Aware([req[r] EXCEPT !.at = "text"], past[r], current, record)
    BY <2>1 DEF Aware, Memory
  <2> QED BY <1>5, <2>2, FineRead DEF EndSupersede, Goto
<1>6. CASE WriteText(r)
  <2>1. PICK v \in Versions \ texts : Keep(r, [req[r] EXCEPT !.at = "adding", !.new = v])
    BY <1>6 DEF WriteText
  <2>2. /\ \A w \in current : <<"added", w>> \in past[r]
        /\ record[v].state = "none" /\ current' = current
    BY <1>6, <2>1 DEF WriteText, At, Knows, Aware, Inv, Files, Reviews, Good
  <2>3. Aware([req[r] EXCEPT !.at = "adding", !.new = v], past[r] \cup Happens, current', record)
    BY <2>2 DEF Aware, Recent, Memory
  <2> QED BY <1>6, <2>1, <2>3, FineStore DEF WriteText
<1>7. CASE AddVersion(r)
  <2>1. /\ \A w \in current : <<"added", w>> \in past[r]
        /\ Recent(req[r].new, past[r], record)
        /\ UNCHANGED <<record, analyses, granted>> /\ Meanwhile
    BY <1>7 DEF AddVersion, At, Knows, Aware
  <2>2. Aware([req[r] EXCEPT !.at = "previous"], past[r] \cup Happens, current', record')
    BY <2>1 DEF Aware, Recent, Memory
  <2>3. PICK m \in {Idle, [req[r] EXCEPT !.at = "previous"]} : Keep(r, m)
    BY <1>7 DEF AddVersion, Done, Goto
  <2>4. req'[r] = m /\ m # req[r]
    BY <1>7, <2>3 DEF AddVersion, At, Keep, Idle, Memory, Inv, Memories
  <2>5. Knows(r)'
    BY <2>1, <2>2, <2>3, <2>4, NowKnows, IdleAware
  <2> QED
    BY <2>1, <2>4, <2>5
       DEF FineStep, KeepsConfirmed, GrantsCurrent, AddsInstead, SubmitsOnce
<1>8. CASE FailWrite(r)
  BY <1>8, FineRead, IdleAware DEF FailWrite, Done
<1> QED
  BY <1>1, <1>2, <1>3, <1>4, <1>5, <1>6, <1>7, <1>8 DEF Renew

LEMMA FineSucceed ==
    ASSUME Inv, Inv', NEW r \in Requests, Knows(r), Succeed(r)
    PROVE  FineStep(r)
<1> USE Remembered
<1>1. ASSUME NEW v \in Versions, AskView(r, v)
      PROVE  FineStep(r)
  <2>1. Aware([req[r] EXCEPT !.at = "preparing", !.new = v], past[r], current, record)
    BY <1>1 DEF Aware, Recent, Memory, AskView
  <2> QED BY <1>1, <2>1, FineRead DEF AskView
<1>2. CASE ReadPrevious(r) \/ Prepare(r)
  <2>1. PICK step \in {"preparing", "opening"} : Done(r) \/ Goto(r, step)
    BY <1>2 DEF ReadPrevious, Prepare
  <2>2. Recent(req[r].new, past[r], record) /\ Read
    BY <1>2 DEF ReadPrevious, Prepare, At, Knows, Aware
  <2>3. Aware([req[r] EXCEPT !.at = step], past[r], current, record)
    BY <2>2 DEF Aware, Memory
  <2> QED BY <2>1, <2>2, <2>3, FineRead, IdleAware DEF Done, Goto
<1>3. CASE WritePrepared(r)
  <2>1. req[r].new \in Versions /\ Recent(req[r].new, past[r], record)
    BY <1>3 DEF WritePrepared, At, Sound, NewSteps, Inv, Files, Knows, Aware
  <2>2. Aware([req[r] EXCEPT !.at = "carrying"], past[r] \cup Happens, current,
              [record EXCEPT ![req[r].new] = NotStarted])
    BY DEF Aware, Memory
  <2>3. PICK m \in {Idle, [req[r] EXCEPT !.at = "carrying"]} : Keep(r, m)
    BY <1>3 DEF WritePrepared, Done, Goto
  <2>4. m # req[r]
    BY <1>3, <2>3 DEF WritePrepared, At, Idle, Memory
  <2>5. Put(req[r].new, NotStarted) /\ Meanwhile /\ granted' = granted
    BY <1>3 DEF WritePrepared
  <2> QED
    BY <2>1, <2>2, <2>3, <2>4, <2>5, FinePut, IdleAware
<1>4. CASE ReadPrepared(r)
  <2>1. Aware([req[r] EXCEPT !.at = "carried", !.copy = record[req[r].new]],
              past[r], current, record)
    BY DEF Aware, Recent, Memory
  <2> QED BY <1>4, <2>1, FineRead, IdleAware DEF ReadPrepared, Done
<1>5. CASE WriteCarried(r)
  <2>1. /\ req[r].new \in Versions
        /\ req[r].copy.state = "confirmed" \/ Recent(req[r].new, past[r], record)
        /\ Idle # req[r]
    BY <1>5 DEF WriteCarried, At, Sound, NewSteps, Inv, Files, Knows, Aware, Idle
  <2>2. Put(req[r].new, req[r].copy) /\ Meanwhile /\ granted' = granted /\ Keep(r, Idle)
    BY <1>5 DEF WriteCarried, Done
  <2> QED
    BY <2>1, <2>2, FinePut, IdleAware
<1> QED
  BY <1>1, <1>2, <1>3, <1>4, <1>5 DEF Succeed

LEMMA FineConfirm ==
    ASSUME Inv, Inv', NEW r \in Requests, Knows(r), Confirm(r)
    PROVE  FineStep(r)
<1> USE Remembered
<1>1. ASSUME NEW v \in Versions, AskConfirm(r, v)
      PROVE  FineStep(r)
  <2>1. Aware([req[r] EXCEPT !.at = "asking", !.art = v], past[r], current, record)
    BY <1>1 DEF Aware, Recent, Memory, AskConfirm
  <2> QED BY <1>1, <2>1, FineRead DEF AskConfirm
<1>2. CASE ReadToConfirm(r)
  <2>1. Recent(req[r].art, past[r], record)
    BY <1>2 DEF ReadToConfirm, At, Knows, Aware
  <2>2. Aware([req[r] EXCEPT !.at = "confirming", !.copy = record[req[r].art]],
              past[r], current, record)
    BY <2>1 DEF Aware, Recent, Memory
  <2> QED BY <1>2, <2>2, FineRead DEF ReadToConfirm
<1>3. CASE CheckConfirm(r)
  <2>1. /\ Recent(req[r].art, past[r], record)
        /\ req[r].copy.state = "confirmed" => <<"confirmed", req[r].art>> \in past[r]
    BY <1>3 DEF CheckConfirm, At, Knows, Aware
  <2>2. \/ Done(r)
        \/ req[r].copy.state = "confirmed" /\ GoSubmit(r)
        \/ req[r].art \in current /\ Goto(r, "granting")
    BY <1>3 DEF CheckConfirm
  <2>3. req[r].art \in current =>
           Aware([req[r] EXCEPT !.at = "granting"], past[r], current, record)
    BY <2>1 DEF Aware, Memory
  <2>4. req[r].copy.state = "confirmed" =>
           Aware([req[r] EXCEPT !.at = "submitting", !.copy = NoRecord],
                 past[r], current, record)
    BY <2>1 DEF Aware, Memory
  <2> QED BY <1>3, <2>2, <2>3, <2>4, FineRead, IdleAware DEF CheckConfirm, Done, Goto, GoSubmit
<1>4. CASE WriteConfirmed(r)
  <2> DEFINE v == req[r].art
             rec == [req[r].copy EXCEPT !.state = "confirmed"]
             m == [req[r] EXCEPT !.at = "submitting", !.copy = NoRecord]
  <2>1. /\ v \in Versions /\ Recent(v, past[r], record)
        /\ v \in current \/ <<"superseded", v>> \in past[r]
        /\ rec.state = "confirmed" /\ m # req[r]
    BY <1>4 DEF WriteConfirmed, At, Knows, Aware, Inv, Files, Sound, OldSteps, Memory, Records
  <2>2. /\ Put(v, rec) /\ Meanwhile /\ Keep(r, m) /\ granted' = granted \cup {v}
    BY <1>4 DEF WriteConfirmed, GoSubmit
  <2>3. record'[v].state = "confirmed"
    BY <2>1, <2>2 DEF Put, Inv, Reviews
  <2>4. <<"confirmed", v>> \in past[r] \cup Happens
    BY <2>1, <2>3 DEF Recent, Happens
  <2>5. Aware(m, past[r] \cup Happens, current, [record EXCEPT ![v] = rec])
    BY <2>4 DEF Aware, Memory
  <2> HIDE DEF v, rec, m
  <2> QED
    BY <2>1, <2>2, <2>5, FinePut
<1>5. CASE SubmitAnalysis(r)
  <2>1. /\ req[r].art \in Versions /\ <<"confirmed", req[r].art>> \in past[r]
        /\ Idle # req[r]
    BY <1>5 DEF SubmitAnalysis, At, Sound, OldSteps, Inv, Files, Knows, Aware, Idle
  <2>2. /\ req'[r] = Idle /\ current' = current /\ record' = record
        /\ granted' = granted /\ registered' = registered /\ Meanwhile
    BY <1>5 DEF SubmitAnalysis, Done, Keep, store, Inv, Memories
  <2>3. \A v \in Versions \ {req[r].art} : analyses'[v] = analyses[v]
    BY <1>5, <2>1 DEF SubmitAnalysis, Inv, Uses
  <2>4. Knows(r)'
    BY <2>2, NowKnows, IdleAware
  <2> QED
    BY <2>1, <2>2, <2>3, <2>4
       DEF FineStep, KeepsConfirmed, GrantsCurrent, AddsInstead, SubmitsOnce
<1> QED
  BY <1>1, <1>2, <1>3, <1>4, <1>5 DEF Confirm

\* A step of an early request, and one that makes the file.
LEMMA OpensStep ==
    ASSUME Inv, Inv', Unopened, NEW r \in Requests,
           \/ Construct(r) \/ Check(r) \/ Decide(r) \/ Renew(r)
           \/ Succeed(r) \/ Confirm(r)
    PROVE  Unopened'
<1> USE Remembered
<1> DEFINE Early == {"idle", "creating", "prior", "superseding", "text", "adding"}
<1>1. CASE made
  BY <1>1 DEF Unopened, Construct, LookForRecords, NewRecords, Check, AskCheck, ReadForCheck,
     WriteCheck, Decide, ReadForDecision, WriteDecision, Reread, Renew, AskDictionary,
     ReadItem, AskReprocess, ReadPrior, Supersede, EndSupersede, WriteText, AddVersion,
     FailWrite, Succeed, AskView, ReadPrevious, Prepare, WritePrepared, ReadPrepared,
     WriteCarried, Confirm, AskConfirm, ReadToConfirm, CheckConfirm, WriteConfirmed,
     SubmitAnalysis, Read, Put
<1>2. CASE ~made
  <2>1. /\ \A v \in Versions : record[v].state = "none"
        /\ \A q \in Requests : req[q].art = NoVersion /\ req[q].at \in Early
    BY <1>2 DEF Unopened, NoRecord, Fresh
  <2>2. CASE NewRecords(r)
    BY <2>2 DEF NewRecords, Unopened
  <2>3. CASE ~NewRecords(r)
    <3>1. Construct(r) \/ Renew(r)
      BY <1>2, <2>1, ReviewAssumption
         DEF Check, AskCheck, ReadForCheck, WriteCheck, Decide, ReadForDecision,
             WriteDecision, Reread, Succeed, AskView, ReadPrevious, Prepare, WritePrepared,
             ReadPrepared, WriteCarried, Confirm, AskConfirm, ReadToConfirm, CheckConfirm,
             WriteConfirmed, SubmitAnalysis, At, Open
    <3>2. /\ ~\E v \in Versions : AskDictionary(r, v)
          /\ ~ReadItem(r)
      BY <1>2, <2>1 DEF AskDictionary, ReadItem, At
    <3>3. UNCHANGED <<made, record>>
      BY <2>3, <3>1, <3>2
         DEF Construct, LookForRecords, Renew, AskReprocess, ReadPrior, Supersede,
             EndSupersede, WriteText, AddVersion, FailWrite, Read
    <3>4. \E m : Keep(r, m) /\ m.art = NoVersion /\ m.at \in Early
      <4>1. req[r].art = NoVersion /\ req[r] \in Memory
        BY <2>1
      <4>2. Idle.art = NoVersion /\ Idle.at \in Early
        BY DEF Idle
      <4>3. CASE LookForRecords(r) \/ AskReprocess(r) \/ EndSupersede(r)
        <5>1. PICK step \in Early : Goto(r, step)
          BY <4>3 DEF LookForRecords, AskReprocess, EndSupersede
        <5>2. /\ [req[r] EXCEPT !.at = step].art = NoVersion
              /\ [req[r] EXCEPT !.at = step].at = step
          BY <4>1 DEF Memory
        <5> QED BY <5>1, <5>2 DEF Goto
      <4>4. CASE ReadPrior(r)
        <5> DEFINE m == [req[r] EXCEPT !.at = "superseding", !.old = current]
        <5>1. m.art = NoVersion /\ m.at = "superseding"
          BY <4>1 DEF Memory
        <5>2. Keep(r, m)
          BY <4>4 DEF ReadPrior
        <5> HIDE DEF m
        <5> QED BY <5>1, <5>2
      <4>5. CASE Supersede(r)
        <5>1. PICK v \in req[r].old : Keep(r, [req[r] EXCEPT !.old = @ \ {v}])
          BY <4>5 DEF Supersede
        <5> DEFINE m == [req[r] EXCEPT !.old = @ \ {v}]
        <5>2. m.art = NoVersion /\ m.at = req[r].at
          BY <4>1 DEF Memory
        <5>3. Keep(r, m)
          BY <5>1
        <5> HIDE DEF m
        <5> QED BY <2>1, <5>2, <5>3
      <4>6. CASE WriteText(r)
        <5>1. PICK v \in Versions : Keep(r, [req[r] EXCEPT !.at = "adding", !.new = v])
          BY <4>6 DEF WriteText
        <5> DEFINE m == [req[r] EXCEPT !.at = "adding", !.new = v]
        <5>2. m.art = NoVersion /\ m.at = "adding"
          BY <4>1 DEF Memory
        <5>3. Keep(r, m)
          BY <5>1
        <5> HIDE DEF m
        <5> QED BY <5>2, <5>3
      <4>7. CASE AddVersion(r) \/ FailWrite(r)
        BY <4>1, <4>2, <4>7 DEF AddVersion, FailWrite, Done
      <4> QED
        BY <2>3, <3>1, <3>2, <4>3, <4>4, <4>5, <4>6, <4>7 DEF Construct, Renew
    <3> QED
      BY <2>1, <3>3, <3>4, <1>2 DEF Unopened, Keep, Inv, Memories
  <2> QED BY <2>2, <2>3
<1> QED BY <1>1, <1>2

RaceInv == Inv /\ Unopened /\ \A r \in Requests : Knows(r)

\* What the four properties say of a step.
RaceStep ==
    /\ \A v \in Versions : record[v].state = "confirmed" /\ record'[v].state # "confirmed"
          => \E r \in Requests : ActsAfter(r, "confirmed", v)
    /\ \A v \in granted' \ granted :
          v \in current \/ \E r \in Requests : ActsAfter(r, "superseded", v)
    /\ \A v \in current : registered' # registered
          => \E r \in Requests : ActsAfter(r, "added", v)
    /\ \A v \in Versions : analyses'[v] # analyses[v]
          => \E r \in Requests : ActsAfter(r, "confirmed", v)

LEMMA RaceStart == Init => RaceInv
<1> SUFFICES ASSUME Init PROVE RaceInv
  OBVIOUS
<1>1. \A r \in Requests : Knows(r)
  BY IdleAware DEF Init, Knows
<1>2. Unopened
  BY DEF Init, Unopened, Idle
<1> QED
  BY <1>1, <1>2, Start DEF RaceInv

\* The compilation, a kill and a stutter write nothing that a request reads.
LEMMA RaceQuiet ==
    ASSUME RaceInv, Inv',
           UNCHANGED <<registered, current, made, record, analyses, granted>>,
           \/ req' = req /\ past' = past
           \/ req' = [r \in Requests |-> Idle]
    PROVE  RaceInv' /\ RaceStep
<1>1. \A r \in Requests : Knows(r)'
  BY IdleAware DEF RaceInv, Knows
<1>2. Unopened'
  BY DEF RaceInv, Unopened, Idle
<1> QED
  BY <1>1, <1>2 DEF RaceInv, RaceStep

LEMMA RaceNext ==
    ASSUME RaceInv, [Next]_vars
    PROVE  RaceInv' /\ RaceStep
<1>1. Inv /\ Inv'
  BY InvNext DEF RaceInv
<1>2. ASSUME NEW r \in Requests,
             \/ Construct(r) \/ Check(r) \/ Decide(r) \/ Renew(r)
             \/ Succeed(r) \/ Confirm(r)
      PROVE  RaceInv' /\ RaceStep
  <2>1. FineStep(r)
    BY <1>1, <1>2, FineConstruct, FineCheck, FineDecide, FineRenew, FineSucceed, FineConfirm DEF RaceInv
  <2>2. Meanwhile /\ \E m : Keep(r, m)
    <3>1. CASE Check(r)
      BY <3>1 DEF Check, AskCheck, ReadForCheck, WriteCheck, Read, Done, Goto
    <3>2. CASE Decide(r)
      BY <3>2 DEF Decide, ReadForDecision, WriteDecision, Reread, Read, Done
    <3>3. CASE Renew(r)
      BY <3>3 DEF Renew, AskDictionary, ReadItem, AskReprocess, ReadPrior, Supersede,
         EndSupersede, WriteText, AddVersion, FailWrite, Read, Done, Goto
    <3>4. CASE Succeed(r)
      BY <3>4 DEF Succeed, AskView, ReadPrevious, Prepare, WritePrepared, ReadPrepared,
         WriteCarried, Read, Done, Goto
    <3>5. CASE Confirm(r)
      BY <3>5 DEF Confirm, AskConfirm, ReadToConfirm, CheckConfirm, WriteConfirmed,
         SubmitAnalysis, Read, Done, Goto, GoSubmit
    <3>6. CASE Construct(r)
      BY <3>6 DEF Construct, LookForRecords, NewRecords, Read, Done, Goto
    <3> QED
      BY <1>2, <3>1, <3>2, <3>3, <3>4, <3>5, <3>6
  <2>3. ASSUME NEW q \in Requests, q # r PROVE Knows(q)'
    <3>1. req'[q] = req[q]
      BY <1>1, <2>2, <2>3 DEF Keep, Inv, Memories
    <3>2. Aware(req[q], past[q], current, record)
      BY DEF RaceInv, Knows
    <3>3. Aware(req[q], past[q] \cup Happens, current', record')
      BY <1>1, <2>2, <3>2, StillAware, Remembered
    <3> QED
      BY <1>1, <2>2, <3>1, <3>3, NowKnows
  <2>4. RaceInv'
    BY <1>1, <1>2, <2>1, <2>3, OpensStep DEF RaceInv, FineStep
  <2>5. RaceStep
    BY <2>1 DEF FineStep, RaceStep, KeepsConfirmed, GrantsCurrent, AddsInstead, SubmitsOnce,
       ActsAfter
  <2> QED
    BY <2>4, <2>5
<1>3. CASE Compile
  BY <1>1, <1>3, RaceQuiet DEF Compile, CompileItem, CompileReview, CompileEnd, store
<1>4. CASE Crash
  BY <1>1, <1>4, RaceQuiet DEF Crash, store
<1>5. CASE UNCHANGED vars
  BY <1>1, <1>5, RaceQuiet DEF vars
<1> QED
  BY <1>2, <1>3, <1>4, <1>5 DEF Next

LEMMA RaceAlways == Spec => []RaceInv
<1> QED
  BY RaceStart, RaceNext, PTL DEF Spec

\* A confirmation is taken back only by a request that was under way when it was
\* given, for any number of requests, kills and failures (review.py:123, 155, 217).
THEOREM ConfirmationKept == Spec => ConfirmationStays
<1>1. RaceInv /\ [Next]_vars
        => [\A v \in Versions :
               record[v].state = "confirmed" /\ record'[v].state # "confirmed"
                  => \E r \in Requests : ActsAfter(r, "confirmed", v)]_vars
  BY RaceNext DEF RaceStep
<1> QED
  BY <1>1, RaceAlways, PTL DEF Spec, ConfirmationStays

\* A version is confirmed while it is current, or by a request during whose last
\* steps it was superseded (review.py:221-229).
THEOREM ConfirmedWhileCurrent == Spec => ConfirmsCurrent
<1>1. RaceInv /\ [Next]_vars
        => [\A v \in granted' \ granted :
               v \in current \/ \E r \in Requests : ActsAfter(r, "superseded", v)]_vars
  BY RaceNext DEF RaceStep
<1> QED
  BY <1>1, RaceAlways, PTL DEF Spec, ConfirmsCurrent

\* A new version stands beside another current one only if that one was added
\* while the new one was being made (provenance.py:174-180).
THEOREM OneVersion == Spec => ReplacesCurrent
<1>1. RaceInv /\ [Next]_vars
        => [\A v \in current : registered' # registered
               => \E r \in Requests : ActsAfter(r, "added", v)]_vars
  BY RaceNext DEF RaceStep
<1> QED
  BY <1>1, RaceAlways, PTL DEF Spec, ReplacesCurrent

\* A version is submitted for analysis only by a request during which it became
\* confirmed (server.py:593).
THEOREM AnalysedOnConfirmation == Spec => RepeatSubmitsNothing
<1>1. RaceInv /\ [Next]_vars
        => [\A v \in Versions : analyses'[v] # analyses[v]
               => \E r \in Requests : ActsAfter(r, "confirmed", v)]_vars
  BY RaceNext DEF RaceStep
<1> QED
  BY <1>1, RaceAlways, PTL DEF Spec, RepeatSubmitsNothing
=============================================================================
