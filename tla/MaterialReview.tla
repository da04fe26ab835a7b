---------------------------- MODULE MaterialReview ----------------------------
(***************************************************************************)
(* The review of one material: the sanitized versions of its extraction    *)
(* (src/gaia/provenance.py), the review record of each version             *)
(* (src/gaia/review.py), the handlers that check, decide, replace and      *)
(* confirm (src/gaia/server.py, controlled_intake.py) and the compilation  *)
(* that may use a version once it is confirmed (context_compiler.py).      *)
(*                                                                         *)
(* registry.json and review_state.json have a lock each, held for one      *)
(* read-modify-write and no longer.  A handler reads a record, thinks      *)
(* about it (a check waits for a model) and writes the whole record back,  *)
(* in a thread of its own.  review_state.json is made by the first         *)
(* handlers: whoever has seen no file writes an empty one, over what       *)
(* others may have saved meanwhile.                                        *)
(***************************************************************************)
EXTENDS Integers, FiniteSets

CONSTANTS
    Versions,      \* ids of sanitized versions; their number bounds reprocessing
    Requests,      \* requests that are handled at the same time
    MaxFindings,   \* bound on the findings of one check (24 in the code)
    MaxAnalyses,   \* bound up to which analyses of a version are counted
    MaxCrashes,    \* bound on the kills of the process
    NoVersion

ASSUME ReviewAssumption ==
    /\ NoVersion \notin Versions
    /\ MaxFindings \in Nat
    /\ MaxAnalyses \in Nat
    /\ MaxCrashes \in Nat

VARIABLES
    texts,       \* versions whose text file is written
    registered,  \* versions in registry.json
    current,     \* those whose record there says current
    made,        \* review_state.json exists
    record,      \* what it says; nothing while there is none
    req,         \* memory of the requests
    task,        \* the compilation that runs, under the compile lock
    analyses,    \* analysis jobs submitted for a version
    granted,     \* history: versions that were confirmed at some time
    past,        \* history: what happened to versions since a request began
    crashes

store == <<texts, registered, current>>
vars  == <<texts, registered, current, made, record, req, task, analyses, granted,
           past, crashes>>

-----------------------------------------------------------------------------
Findings   == 1..MaxFindings
Checked    == {"requires_review", "review_in_progress", "ready", "confirmed"}
Open       == {"requires_review", "review_in_progress"}
Grantable  == {"ready", "manual"}
States     == {"none", "not_started", "manual"} \cup Checked
Records    == [state : States, found : SUBSET Findings, decided : SUBSET Findings]
Steps      == {"idle", "creating", "checking", "model", "keeping", "replacing", "rereading",
               "item", "prior", "superseding", "text", "adding", "previous",
               "preparing", "opening", "carrying", "carried",
               "asking", "confirming", "granting", "submitting"}

Memory     == [at : Steps, art : Versions \cup {NoVersion},
               new : Versions \cup {NoVersion}, old : SUBSET Versions,
               fin : Findings \cup {0}, copy : Records]

Fresh(s, f) == [state |-> s, found |-> f, decided |-> {}]
NoRecord    == Fresh("none", {})
NotStarted  == Fresh("not_started", {})
Idle        == [at |-> "idle", art |-> NoVersion, new |-> NoVersion,
                old |-> {}, fin |-> 0, copy |-> NoRecord]
NoTask      == [at |-> "idle", art |-> NoVersion]

\* The request keeps m in memory from now on.
Keep(r, m) == req' = [req EXCEPT ![r] = m]

At(r, step)   == req[r].at = step
Goto(r, step) == Keep(r, [req[r] EXCEPT !.at = step])
\* Answered, refused or failed: the memory of the handler is gone.
Done(r)       == Keep(r, Idle)

\* The version is confirmed: the handler goes on with nothing but its id.
GoSubmit(r)   == Keep(r, [req[r] EXCEPT !.at = "submitting", !.copy = NoRecord])

\* What a step does to the versions, remembered by every request that has read
\* what the step changes and is going to write: a check or a decision its
\* record, a reprocessing the versions it replaces, a confirmation both, and who
\* makes the file every record.
Events == {"added", "superseded", "confirmed"} \X Versions
Happens == ({"added"} \X (current' \ current))
              \cup ({"superseded"} \X (current \ current'))
              \cup ({"confirmed"} \X {v \in Versions : /\ record'[v].state = "confirmed"
                                                     /\ record[v].state # "confirmed"})
Windows(m) ==
    (IF m.at \in {"superseding", "text", "adding"} THEN {"added"} \X Versions ELSE {})
      \cup (IF m.at = "creating" THEN {"confirmed"} \X Versions ELSE {})
      \cup (IF m.at = "granting" THEN {<<"superseded", m.art>>} ELSE {})
      \cup (IF m.at \in {"model", "keeping", "replacing", "asking", "confirming",
                        "granting", "submitting"} THEN {<<"confirmed", m.art>>} ELSE {})
      \cup (IF m.at \in {"adding", "previous", "preparing", "opening", "carried"}
            THEN {<<"confirmed", m.new>>} ELSE {})
Meanwhile == past' = [r \in Requests |-> (past[r] \cup Happens) \cap Windows(req'[r])]

\* The steps that only read, and those that write one review record whole.
Read        == UNCHANGED <<store, made, record, task, analyses, granted, crashes>> /\ Meanwhile
Put(v, rec) == /\ record' = [record EXCEPT ![v] = rec]
               /\ UNCHANGED <<store, made, task, analyses, crashes>>

-----------------------------------------------------------------------------
(* The constructor, which every handler but handle_protection_reprocess    *)
(* runs first.  So does a compilation before it reads a record: one that   *)
(* finds no file counts as a request that makes it and no more.  Once the  *)
(* file is there the constructor does nothing.                             *)

LookForRecords(r) ==
    /\ At(r, "idle")
    /\ ~made
    /\ Goto(r, "creating")
    /\ Read

\* The empty file is written whether or not there is one by now.
NewRecords(r) ==
    /\ At(r, "creating")
    /\ made' = TRUE
    /\ record' = [v \in Versions |-> NoRecord]
    /\ Done(r)
    /\ UNCHANGED <<store, task, analyses, granted, crashes>>
    /\ Meanwhile

-----------------------------------------------------------------------------
(* start: a check by the local model.  The record is read before the model *)
(* is called and written after it has answered.                            *)

AskCheck(r, v) ==
    /\ At(r, "idle")
    /\ made
    /\ v \in current
    /\ Keep(r, [req[r] EXCEPT !.at = "checking", !.art = v])
    /\ Read

ReadForCheckAgain(r) ==
    /\ At(r, "checking")
    /\ Goto(r, "model")
    /\ Read

ReadForCheck(r) ==
    /\ At(r, "checking")
    /\ IF record[req[r].art].state \in Checked THEN Done(r) ELSE Goto(r, "model")
    /\ Read

\* No findings is "ready" only for a complete answer; any error is "manual".
Outcomes == {Fresh("manual", {}), Fresh("ready", {})}
               \cup {Fresh("requires_review", 1..n) : n \in Findings}

WriteCheck(r) ==
    /\ At(r, "model")
    /\ \E rec \in Outcomes : Put(req[r].art, rec)
    /\ Done(r)
    /\ UNCHANGED granted
    /\ Meanwhile

-----------------------------------------------------------------------------
(* decide: keep a finding or change its category (then), or replace it,    *)
(* which goes on to a new version.                                         *)

ReadForDecision(r, v, f, step) ==
    /\ At(r, "idle")
    /\ record[v].state \in Open
    /\ f \in record[v].found \ record[v].decided
    /\ Keep(r, [req[r] EXCEPT !.at = step, !.art = v, !.fin = f, !.copy = record[v]])
    /\ Read

DecidedAnyway(rec, f) == [rec EXCEPT !.state = "ready"]

Decided(rec, f) ==
    LET all == rec.decided \cup {f}
    IN [rec EXCEPT !.decided = all,
                   !.state = IF rec.found \subseteq all THEN "ready"
                                                        ELSE "review_in_progress"]

WriteDecision(r) ==
    /\ req[r].at \in {"keeping", "replacing"}
    /\ Put(req[r].art, Decided(req[r].copy, req[r].fin))
    /\ IF At(r, "keeping") THEN Done(r)
                           ELSE Keep(r, [req[r] EXCEPT !.at = "rereading", !.copy = NoRecord])
    /\ UNCHANGED granted
    /\ Meanwhile

\* The handler reads the record again and looks for the finding by its number;
\* next() raises when a new check has left no finding of that number.
Reread(r) ==
    /\ At(r, "rereading")
    /\ IF req[r].fin \in record[req[r].art].found
       THEN Keep(r, [req[r] EXCEPT !.at = "item", !.fin = 0])
       ELSE Done(r)
    /\ Read

-----------------------------------------------------------------------------
(* A new version: add_dictionary_value, protect and _versioned_content.    *)

AskDictionary(r, v) ==
    /\ At(r, "idle")
    /\ made
    /\ v \in registered
    /\ Keep(r, [req[r] EXCEPT !.at = "item", !.art = v])
    /\ Read

\* The value may also be refused (not a fragment of the source).
ReadItem(r) ==
    /\ At(r, "item")
    /\ \/ req[r].art \in current /\ Goto(r, "prior")
       \/ Done(r)
    /\ Read

\* handle_protection_reprocess: a new version and nothing else.
AskReprocess(r) ==
    /\ At(r, "idle")
    /\ Goto(r, "prior")
    /\ Read

ReadPriorForgets(r) ==
    /\ At(r, "prior")
    /\ Goto(r, "superseding")
    /\ Read

ReadPrior(r) ==
    /\ At(r, "prior")
    /\ Keep(r, [req[r] EXCEPT !.at = "superseding", !.old = current])
    /\ Read

\* _update for each version that was current when they were read, one lock
\* each.
Supersede(r) ==
    /\ At(r, "superseding")
    /\ \E v \in req[r].old :
         /\ current' = current \ {v}
         /\ Keep(r, [req[r] EXCEPT !.old = @ \ {v}])
    /\ UNCHANGED <<texts, registered, made, record, task, analyses, granted, crashes>>
    /\ Meanwhile

EndSupersede(r) ==
    /\ At(r, "superseding")
    /\ req[r].old = {}
    /\ Goto(r, "text")
    /\ Read

WriteText(r) ==
    /\ At(r, "text")
    /\ \E v \in Versions \ texts :
         /\ texts' = texts \cup {v}
         /\ Keep(r, [req[r] EXCEPT !.at = "adding", !.new = v])
    /\ UNCHANGED <<registered, current, made, record, task, analyses, granted, crashes>>
    /\ Meanwhile

\* _add.  A plain reprocessing is answered, the others go on to the review.
AddVersion(r) ==
    /\ At(r, "adding")
    /\ registered' = registered \cup {req[r].new}
    /\ current' = current \cup {req[r].new}
    /\ IF req[r].art = NoVersion THEN Done(r) ELSE Goto(r, "previous")
    /\ UNCHANGED <<texts, made, record, task, analyses, granted, crashes>>
    /\ Meanwhile

\* A write of a file raises.
FailWrite(r) ==
    /\ req[r].at \in {"superseding", "text", "adding"}
    /\ Done(r)
    /\ Read

-----------------------------------------------------------------------------
(* prepare, get_or_start and create_successor.                             *)

ReadPrevious(r) ==
    /\ At(r, "previous")
    /\ IF record[req[r].art].state = "none" THEN Done(r) ELSE Goto(r, "preparing")
    /\ Read

\* handle_review_get of a version without a record, or the end of the upload that
\* admitted it.  A look of its own at the registry is repeated at once by prepare.
AskView(r, v) ==
    /\ At(r, "idle")
    /\ made
    /\ record[v].state = "none"
    /\ Keep(r, [req[r] EXCEPT !.at = "preparing", !.new = v])
    /\ Read

Prepare(r) ==
    /\ At(r, "preparing")
    /\ IF req[r].new \in current THEN Goto(r, "opening") ELSE Done(r)
    /\ Read

WritePrepared(r) ==
    /\ At(r, "opening")
    /\ Put(req[r].new, NotStarted)
    /\ IF req[r].art = NoVersion THEN Done(r) ELSE Goto(r, "carrying")
    /\ UNCHANGED granted
    /\ Meanwhile

ReadPreviousInstead(r) ==
    /\ At(r, "carrying")
    /\ Keep(r, [req[r] EXCEPT !.at = "carried", !.copy = record[req[r].art]])
    /\ Read

\* A file made anew between the write and the read has no such record: KeyError.
ReadPrepared(r) ==
    /\ At(r, "carrying")
    /\ IF record[req[r].new].state = "none"
       THEN Done(r)
       ELSE Keep(r, [req[r] EXCEPT !.at = "carried", !.copy = record[req[r].new]])
    /\ Read

\* The record as it was read, with the history of decisions (which nothing
\* reads but the answer to the user).
WriteCarried(r) ==
    /\ At(r, "carried")
    /\ Put(req[r].new, req[r].copy)
    /\ Done(r)
    /\ UNCHANGED granted
    /\ Meanwhile

-----------------------------------------------------------------------------
(* confirm, and the analysis job that the handler submits after it.        *)

AskConfirmAgain(r, v) ==
    /\ At(r, "idle")
    /\ record[v].state # "none"
    /\ Keep(r, [req[r] EXCEPT !.at = "asking", !.art = v])
    /\ Read

\* The handler's own look: a confirmed version is answered at once.
AskConfirm(r, v) ==
    /\ At(r, "idle")
    /\ record[v].state \notin {"none", "confirmed"}
    /\ Keep(r, [req[r] EXCEPT !.at = "asking", !.art = v])
    /\ Read

ReadToConfirm(r) ==
    /\ At(r, "asking")
    /\ Keep(r, [req[r] EXCEPT !.at = "confirming", !.copy = record[req[r].art]])
    /\ Read

CheckConfirmBlindly(r) ==
    /\ At(r, "confirming")
    /\ CASE req[r].copy.state = "confirmed" -> GoSubmit(r)
         [] req[r].copy.state \in Grantable -> Goto(r, "granting")
         [] OTHER -> Done(r)
    /\ Read

\* A version that somebody has confirmed meanwhile is no error: its text is
\* returned, and the handler goes on.
CheckConfirm(r) ==
    /\ At(r, "confirming")
    /\ CASE req[r].art \notin current -> Done(r)
         [] req[r].art \in current /\ req[r].copy.state = "confirmed" ->
              GoSubmit(r)
         [] req[r].art \in current /\ req[r].copy.state \in Grantable ->
              Goto(r, "granting")
         [] OTHER -> Done(r)
    /\ Read

WriteConfirmed(r) ==
    /\ At(r, "granting")
    /\ Put(req[r].art, [req[r].copy EXCEPT !.state = "confirmed"])
    /\ granted' = granted \cup {req[r].art}
    /\ GoSubmit(r)
    /\ Meanwhile

\* submit_analyze_job; a full queue raises, and nothing catches it.
SubmitAnalysis(r) ==
    /\ At(r, "submitting")
    /\ \/ analyses' = [analyses EXCEPT
              ![req[r].art] = IF @ < MaxAnalyses THEN @ + 1 ELSE @]
       \/ UNCHANGED analyses
    /\ Done(r)
    /\ UNCHANGED <<store, made, record, task, granted, crashes>>
    /\ Meanwhile

-----------------------------------------------------------------------------
(* The compilation of a version, one at a time.                            *)

CompileItem(v) ==
    /\ task = NoTask
    /\ v \in current
    /\ task' = [at |-> "reviewing", art |-> v]
    /\ UNCHANGED <<store, made, record, req, analyses, granted, past, crashes>>

CompileReview ==
    /\ task.at = "reviewing"
    /\ task' = IF record[task.art].state = "confirmed"
               THEN [task EXCEPT !.at = "compiling"] ELSE NoTask
    /\ UNCHANGED <<store, made, record, req, analyses, granted, past, crashes>>

\* The end of compile: it has stored candidates of the version, or failed.
CompileEnd ==
    /\ task.at = "compiling"
    /\ task' = NoTask
    /\ UNCHANGED <<store, made, record, req, analyses, granted, past, crashes>>

Crash ==
    /\ crashes < MaxCrashes
    /\ crashes' = crashes + 1
    /\ req' = [r \in Requests |-> Idle]
    /\ task' = NoTask
    /\ UNCHANGED <<store, made, record, analyses, granted>>
    /\ Meanwhile

-----------------------------------------------------------------------------
\* The material was admitted, the first of the store: its first version is there,
\* not yet looked at.
Init ==
    /\ \E v \in Versions : texts = {v}
    /\ registered = texts
    /\ current = texts
    /\ made = FALSE
    /\ record = [v \in Versions |-> NoRecord]
    /\ req = [r \in Requests |-> Idle]
    /\ task = NoTask
    /\ analyses = [v \in Versions |-> 0]
    /\ granted = {}
    /\ past = [r \in Requests |-> {}]
    /\ crashes = 0

Construct(r) == LookForRecords(r) \/ NewRecords(r)
Check(r)   == (\E v \in Versions : AskCheck(r, v)) \/ ReadForCheck(r) \/ WriteCheck(r)
Decide(r)  == \/ \E v \in Versions, f \in Findings, step \in {"keeping", "replacing"} :
                   ReadForDecision(r, v, f, step)
              \/ WriteDecision(r) \/ Reread(r)
Renew(r)   == \/ \E v \in Versions : AskDictionary(r, v)
              \/ ReadItem(r) \/ AskReprocess(r) \/ ReadPrior(r) \/ Supersede(r)
              \/ EndSupersede(r) \/ WriteText(r) \/ AddVersion(r) \/ FailWrite(r)
Succeed(r) == \/ \E v \in Versions : AskView(r, v)
              \/ ReadPrevious(r) \/ Prepare(r) \/ WritePrepared(r)
              \/ ReadPrepared(r) \/ WriteCarried(r)
Confirm(r) == \/ \E v \in Versions : AskConfirm(r, v)
              \/ ReadToConfirm(r) \/ CheckConfirm(r) \/ WriteConfirmed(r)
              \/ SubmitAnalysis(r)
Compile    == (\E v \in Versions : CompileItem(v)) \/ CompileReview \/ CompileEnd

Next ==
    \/ \E r \in Requests : \/ Construct(r) \/ Check(r) \/ Decide(r) \/ Renew(r)
                          \/ Succeed(r) \/ Confirm(r)
    \/ Compile
    \/ Crash

Spec == Init /\ [][Next]_vars

-----------------------------------------------------------------------------
(* Properties.                                                             *)

\* Every variable has its type.
TypeOK ==
    /\ texts \subseteq Versions
    /\ registered \subseteq Versions
    /\ current \subseteq Versions
    /\ made \in BOOLEAN
    /\ record \in [Versions -> Records]
    /\ req \in [Requests -> Memory]
    /\ task \in [at : {"idle", "reviewing", "compiling"},
                 art : Versions \cup {NoVersion}]
    /\ analyses \in [Versions -> 0..MaxAnalyses]
    /\ granted \subseteq Versions
    /\ past \in [Requests -> SUBSET Events]
    /\ crashes \in 0..MaxCrashes

\* Decisions are about findings of the record, and one that can be confirmed,
\* or is, has no finding without a decision.
Whole(rec) ==
    /\ rec.decided \subseteq rec.found
    /\ rec.state \in Grantable \cup {"confirmed"} => rec.decided = rec.found
    /\ rec.state \in Open => rec.decided # rec.found

\* However checks, decisions and confirmations of one version overwrite each
\* other's records, the record on disk is whole: a version is never ready, let
\* alone confirmed, with a finding that nobody has decided.
NothingUndecided == \A v \in Versions : Whole(record[v])

\* Only a version that the user has confirmed counts as confirmed, is compiled
\* or is analysed: a new version never inherits the confirmation of the one it
\* replaces, and no race or restart lends it one.
OnlyConfirmedUsed ==
    /\ \A v \in Versions : record[v].state = "confirmed" => v \in granted
    /\ task.at = "compiling" => task.art \in granted
    /\ \A v \in Versions : analyses[v] > 0 => v \in granted

\* A version is registered only when its text can be read, and reviewed only
\* when it is registered, whatever failed or was killed between the writes.
TextBehindReview ==
    /\ registered \subseteq texts
    /\ \A v \in Versions : record[v].state # "none" => v \in registered

\* A request that makes this step and was under way when e happened to v.
ActsAfter(r, e, v) == req'[r] # req[r] /\ <<e, v>> \in past[r]

\* A confirmation is taken back only by a request that was under way when it was
\* given, and may hold a copy of the record that is older (review.py:155, 217) or
\* have seen no file (review.py:123).
ConfirmationStays ==
    [][\A v \in Versions :
          record[v].state = "confirmed" /\ record'[v].state # "confirmed"
             => \E r \in Requests : ActsAfter(r, "confirmed", v)]_vars

\* A version is confirmed for the first time while it is the current one, or by
\* a request during which it was superseded (between review.py:221 and 229).
ConfirmsCurrent ==
    [][\A v \in granted' \ granted :
          v \in current \/ \E r \in Requests : ActsAfter(r, "superseded", v)]_vars

\* A new version takes the place of the current ones: another stays beside it
\* only if it was added while the request that adds the new one was under way
\* (between provenance.py:174 and 180).
ReplacesCurrent ==
    [][\A v \in current : registered' # registered
          => \E r \in Requests : ActsAfter(r, "added", v)]_vars

\* A repeated confirmation does not create a second analysis: only a request
\* during which the version became confirmed submits one (server.py:593).
RepeatSubmitsNothing ==
    [][\A v \in Versions : analyses'[v] # analyses[v]
          => \E r \in Requests : ActsAfter(r, "confirmed", v)]_vars
=============================================================================
