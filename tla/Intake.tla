-------------------------------- MODULE Intake --------------------------------
(***************************************************************************)
(* The admission of materials to the workspace of one project: the         *)
(* adapter of the upload handler (src/gaia/controlled_intake.py), the      *)
(* store of originals and their records (src/gaia/provenance.py), what is  *)
(* made of an original before anybody may see it (src/gaia/protection.py), *)
(* and the removal of what a kill has left.                                *)
(*                                                                         *)
(* intake_operations.json and registry.json have a lock each.  Both are    *)
(* held for one read-modify-write, with the original written under the     *)
(* second; the admission as a whole is not locked, and several uploads are *)
(* admitted at the same time.  The two files are created by the requests   *)
(* themselves: whoever has seen no file writes an empty one, over what    *)
(* others may have saved meanwhile.                                        *)
(***************************************************************************)
EXTENDS Naturals, Sequences

CONSTANTS
    Requests,      \* uploads that are handled at the same time
    Workspaces,    \* ids of workspaces
    Sources,       \* ids of sources; their number bounds the admissions
    Names,         \* file names
    Contents,
    Uploads,       \* what may be uploaded at once: sequences of files
    RecoverAlone,  \* recover runs while nothing is admitted
    MaxCrashes,    \* bound on the kills of the process
    NoWorkspace, NoSource, NoContent

Files == [name : Names, content : Contents]

ASSUME IntakeAssumption ==
    /\ NoWorkspace \notin Workspaces
    /\ NoSource \notin Sources
    /\ NoContent \notin Contents
    /\ Uploads \subseteq Seq(Files) \ {<<>>}
    /\ RecoverAlone \in BOOLEAN
    /\ MaxCrashes \in Nat

VARIABLES
    made,        \* metadata files that exist
    wiped,       \* history: those that lost what was in them
    workspaces,  \* in the registry
    home,        \* the workspace that the project is mapped to
    originals,   \* sources whose bytes are on disk
    source,      \* the records of sources in the registry
    derived,     \* what was made of a source and is on disk
    keys,        \* the source that a file name stands for in a workspace
    listed,      \* sources in the saved operations
    req,         \* memory of the requests
    sweep,       \* memory of recover
    crashes

registry   == <<workspaces, source>>
operations == <<home, keys, listed>>
files      == <<made, wiped>>
vars == <<made, wiped, workspaces, home, originals, source, derived, keys, listed, req,
          sweep, crashes>>

-----------------------------------------------------------------------------
Artifacts  == {"extraction text", "extraction", "cleaned text", "cleaned", "report"}
InRegistry == {"extraction", "cleaned"}
Statuses  == {"none", "accepted", "ready", "superseded", "requires_reintake"}
Steps     == {"idle", "new registry", "looking", "new operations", "opening",
              "mapping", "accepting", "writing", "keying", "superseding",
              "linking", "verifying", "extracting", "extracted", "cleaning",
              "cleaned", "reporting", "remembering", "saving"}

Records == [ws : Workspaces \cup {NoWorkspace},
            content : Contents \cup {NoContent},
            status : Statuses, current : BOOLEAN,
            previous : Sources \cup {NoSource}]
Memory  == [at : Steps, files : Seq(Files), ws : Workspaces \cup {NoWorkspace},
            src : Sources \cup {NoSource}, prior : Sources \cup {NoSource},
            done : SUBSET Sources]
Sweeps  == [at : {"idle", "listing", "deleting"},
            known : SUBSET Sources, orphans : SUBSET Sources]

NoRecord == [ws |-> NoWorkspace, content |-> NoContent, status |-> "none",
             current |-> FALSE, previous |-> NoSource]
Idle     == [at |-> "idle", files |-> <<>>, ws |-> NoWorkspace,
             src |-> NoSource, prior |-> NoSource, done |-> {}]
NoSweep  == [at |-> "idle", known |-> {}, orphans |-> {}]

Registered == {s \in Sources : source[s].status # "none"}

At(r, step)   == req[r].at = step
Keep(r, m)    == req' = [req EXCEPT ![r] = m]
Goto(r, step) == Keep(r, [req[r] EXCEPT !.at = step])
\* Answered or failed: the memory of the handler is gone.
Done(r)       == Keep(r, Idle)
File(r)       == Head(req[r].files)
Key(r)        == <<req[r].ws, File(r).name>>

\* The locks are taken at the start of a step; these are the two steps that
\* end with the lock still held.
RegistryFree   == \A r \in Requests : ~At(r, "writing")
OperationsFree == \A r \in Requests : ~At(r, "mapping")

\* Steps that write one thing.
ReadOnly        == UNCHANGED <<registry, operations, originals, derived>>
OnlyWorkspaces  == UNCHANGED <<source, operations, originals, derived>>
OnlySource      == UNCHANGED <<workspaces, operations, originals, derived>>
OnlyOriginals   == UNCHANGED <<registry, operations, derived>>
OnlyDerived     == UNCHANGED <<registry, operations, originals>>
OnlyOperations  == UNCHANGED <<registry, originals, derived>>
Outside         == UNCHANGED <<files, sweep, crashes>>

-----------------------------------------------------------------------------
(* The constructors.  The uploads are valid: the others are refused before *)
(* anything of a project is read or written.                               *)

\* The registry is looked for first.
Ask(r, upload) ==
    /\ At(r, "idle")
    /\ RecoverAlone => sweep = NoSweep
    /\ Keep(r, [Idle EXCEPT !.at = IF "registry" \in made THEN "looking" ELSE "new registry",
                            !.files = upload])
    /\ ReadOnly /\ Outside

LookForOperations(r) ==
    /\ At(r, "looking")
    /\ Goto(r, IF "operations" \in made THEN "opening" ELSE "new operations")
    /\ ReadOnly /\ Outside

NothingRegistered == /\ workspaces = {} /\ Registered = {}
                     /\ \A s \in Sources : derived[s] \cap InRegistry = {}
NothingSaved      == /\ home = NoWorkspace /\ listed = {}
                     /\ \A k \in Workspaces \X Names : keys[k] = NoSource

\* The empty file is written, under the lock of the file, whether or not there
\* is one by now.
NewRegistry(r) ==
    /\ At(r, "new registry")
    /\ RegistryFree
    /\ made' = made \cup {"registry"}
    /\ wiped' = IF NothingRegistered THEN wiped ELSE wiped \cup {"registry"}
    /\ workspaces' = {}
    /\ source' = [s \in Sources |-> NoRecord]
    /\ derived' = [s \in Sources |-> derived[s] \ InRegistry]
    /\ Goto(r, "looking")
    /\ UNCHANGED <<operations, originals, sweep, crashes>>

NewOperations(r) ==
    /\ At(r, "new operations")
    /\ OperationsFree
    /\ made' = made \cup {"operations"}
    /\ wiped' = IF NothingSaved THEN wiped ELSE wiped \cup {"operations"}
    /\ home' = NoWorkspace
    /\ keys' = [k \in Workspaces \X Names |-> NoSource]
    /\ listed' = {}
    /\ Goto(r, "opening")
    /\ UNCHANGED <<registry, originals, derived, sweep, crashes>>

-----------------------------------------------------------------------------
(* admit: the workspace of the project.                                    *)

FindWorkspace(r) ==
    /\ At(r, "opening")
    /\ OperationsFree
    /\ home # NoWorkspace
    /\ Keep(r, [req[r] EXCEPT !.at = "accepting", !.ws = home])
    /\ ReadOnly /\ Outside

NewWorkspace(w) == /\ w \notin workspaces
                   /\ \A q \in Requests : req[q].ws # w
                   /\ \A n \in Names : keys[<<w, n>>] = NoSource

\* create_workspace, inside the lock of the operations.
CreateWorkspace(r) ==
    /\ At(r, "opening")
    /\ OperationsFree /\ RegistryFree
    /\ home = NoWorkspace
    /\ \E w \in {v \in Workspaces : NewWorkspace(v)} :
         /\ workspaces' = workspaces \cup {w}
         /\ Keep(r, [req[r] EXCEPT !.at = "mapping", !.ws = w])
    /\ OnlyWorkspaces /\ Outside

MapWorkspace(r) ==
    /\ At(r, "mapping")
    /\ home' = req[r].ws
    /\ Goto(r, "accepting")
    /\ UNCHANGED <<keys, listed>>
    /\ OnlyOperations /\ Outside

-----------------------------------------------------------------------------
(* accept_bytes.  What a step looks up in the registry and does not find   *)
(* makes it raise: that is Fail.                                           *)

Same(r) == {s \in Registered : /\ source[s].ws = req[r].ws
                               /\ source[s].content = File(r).content}

\* An id that nothing on disk or in memory has ever stood for.
NewSource(s) == /\ s \notin originals \cup Registered
                /\ derived[s] = {}
                /\ \A q \in Requests : req[q].src # s

\* An upload that was admitted before is refused, with the rest of its batch;
\* the files before it stay admitted.
RefuseDuplicate(r) ==
    /\ At(r, "accepting")
    /\ RegistryFree
    /\ req[r].ws \in workspaces
    /\ Same(r) # {}
    /\ Done(r)
    /\ ReadOnly /\ Outside

WriteOriginalUnlocked(r) ==
    /\ At(r, "accepting")
    /\ req[r].ws \in workspaces
    /\ Same(r) = {}
    /\ \E s \in {t \in Sources : NewSource(t)} :
         /\ originals' = originals \cup {s}
         /\ Keep(r, [req[r] EXCEPT !.at = "writing", !.src = s])
    /\ OnlyOriginals /\ Outside

WriteOriginal(r) ==
    /\ At(r, "accepting")
    /\ RegistryFree
    /\ req[r].ws \in workspaces
    /\ Same(r) = {}
    /\ \E s \in {t \in Sources : NewSource(t)} :
         /\ originals' = originals \cup {s}
         /\ Keep(r, [req[r] EXCEPT !.at = "writing", !.src = s])
    /\ OnlyOriginals /\ Outside

Register(r) ==
    /\ At(r, "writing")
    /\ source' = [source EXCEPT ![req[r].src] =
           [ws |-> req[r].ws, content |-> File(r).content, status |-> "accepted",
            current |-> TRUE, previous |-> NoSource]]
    /\ Goto(r, "keying")
    /\ OnlySource /\ Outside

\* The registry cannot be written: the original is taken back.
RegisterRaises(r) ==
    /\ At(r, "writing")
    /\ originals' = originals \ {req[r].src}
    /\ Done(r)
    /\ OnlyOriginals /\ Outside

-----------------------------------------------------------------------------
(* The version that the file replaces: read without a lock, then two       *)
(* writes of the registry.                                                 *)

ReadKey(r) ==
    /\ At(r, "keying")
    /\ LET prior == keys[Key(r)] IN
       IF prior \in {NoSource, req[r].src}
       THEN Goto(r, "verifying")
       ELSE Keep(r, [req[r] EXCEPT !.at = "superseding", !.prior = prior])
    /\ ReadOnly /\ Outside

SupersedePreviousByStatus(r) ==
    /\ At(r, "superseding")
    /\ RegistryFree
    /\ {req[r].src, req[r].prior} \subseteq Registered
    /\ source' = [source EXCEPT ![req[r].prior].status = "superseded"]
    /\ Goto(r, "linking")
    /\ OnlySource /\ Outside

SupersedePrevious(r) ==
    /\ At(r, "superseding")
    /\ RegistryFree
    /\ {req[r].src, req[r].prior} \subseteq Registered
    /\ source' = [source EXCEPT ![req[r].prior].current = FALSE,
                                ![req[r].prior].status = "superseded"]
    /\ Goto(r, "linking")
    /\ OnlySource /\ Outside

LinkVersion(r) ==
    /\ At(r, "linking")
    /\ RegistryFree
    /\ req[r].src \in Registered
    /\ source' = [source EXCEPT ![req[r].src].previous = req[r].prior,
                                ![req[r].src].current = TRUE,
                                ![req[r].src].status = "ready"]
    /\ Goto(r, "verifying")
    /\ OnlySource /\ Outside

-----------------------------------------------------------------------------
(* create_extraction, protect, create_sanitized and the report.            *)

\* verify_source: bytes that are gone make the record say so, and an error.
Verify(r) ==
    /\ At(r, "verifying")
    /\ RegistryFree
    /\ req[r].src \in Registered
    /\ IF req[r].src \in originals
       THEN Goto(r, "extracting") /\ UNCHANGED source
       ELSE /\ source' = [source EXCEPT ![req[r].src].status = "requires_reintake"]
            /\ Done(r)
    /\ OnlySource /\ Outside

Make(r, now, artifact, next) ==
    /\ At(r, now)
    /\ derived' = [derived EXCEPT ![req[r].src] = @ \cup {artifact}]
    /\ Goto(r, next)
    /\ OnlyDerived /\ Outside

WriteExtraction(r) == /\ At(r, "extracting") /\ req[r].src \in Registered
                      /\ Make(r, "extracting", "extraction text", "extracted")
AddExtraction(r)   == RegistryFree /\ Make(r, "extracted", "extraction", "cleaning")
WriteCleaned(r)    == /\ At(r, "cleaning") /\ "extraction" \in derived[req[r].src]
                      /\ Make(r, "cleaning", "cleaned text", "cleaned")
AddCleaned(r)      == RegistryFree /\ Make(r, "cleaned", "cleaned", "reporting")
SaveReport(r)      == Make(r, "reporting", "report", "remembering")

FailGoesOn(r) ==
    /\ ~At(r, "idle") /\ ~At(r, "writing")
    /\ IF At(r, "cleaning") THEN Goto(r, "remembering") ELSE Done(r)
    /\ ReadOnly /\ Outside

\* A write raises, the text cannot be read, or the cleaning refuses it.
Fail(r) ==
    /\ ~At(r, "idle") /\ ~At(r, "writing")
    /\ Done(r)
    /\ ReadOnly /\ Outside

-----------------------------------------------------------------------------
(* The end of one file, and of the batch.                                  *)

RememberSourceKey(r) ==
    /\ At(r, "remembering")
    /\ OperationsFree
    /\ keys' = [keys EXCEPT ![Key(r)] = req[r].src]
    /\ LET rest == Tail(req[r].files) IN
       Keep(r, [req[r] EXCEPT !.at = IF rest = <<>> THEN "saving" ELSE "accepting",
                              !.files = rest, !.done = @ \cup {req[r].src},
                              !.src = NoSource, !.prior = NoSource])
    /\ UNCHANGED <<home, listed>>
    /\ OnlyOperations /\ Outside

SaveOperation(r) ==
    /\ At(r, "saving")
    /\ OperationsFree
    /\ listed' = listed \cup req[r].done
    /\ Done(r)
    /\ UNCHANGED <<home, keys>>
    /\ OnlyOperations /\ Outside

-----------------------------------------------------------------------------
(* recover: the registry is read, the files are listed, the unknown ones   *)
(* are deleted one by one, without the lock of the registry.               *)

ReadKnownCurrent ==
    /\ sweep.at = "idle"
    /\ RecoverAlone => \A r \in Requests : At(r, "idle")
    /\ sweep' = [NoSweep EXCEPT !.at = "listing",
                                !.known = {s \in Registered : source[s].current}]
    /\ ReadOnly /\ UNCHANGED <<files, req, crashes>>

ReadKnown ==
    /\ sweep.at = "idle"
    /\ RecoverAlone => \A r \in Requests : At(r, "idle")
    /\ sweep' = [NoSweep EXCEPT !.at = "listing", !.known = Registered]
    /\ ReadOnly /\ UNCHANGED <<files, req, crashes>>

ListFiles ==
    /\ sweep.at = "listing"
    /\ sweep' = [sweep EXCEPT !.at = "deleting", !.orphans = originals \ sweep.known]
    /\ ReadOnly /\ UNCHANGED <<files, req, crashes>>

\* A file that was taken back meanwhile makes unlink raise, and recover end.
DeleteOrphan(s) ==
    /\ sweep.at = "deleting"
    /\ s \in sweep.orphans
    /\ originals' = originals \ {s}
    /\ sweep' = IF s \in originals THEN [sweep EXCEPT !.orphans = @ \ {s}] ELSE NoSweep
    /\ OnlyOriginals /\ UNCHANGED <<files, req, crashes>>

EndRecover ==
    /\ sweep.at = "deleting"
    /\ sweep.orphans = {}
    /\ sweep' = NoSweep
    /\ ReadOnly /\ UNCHANGED <<files, req, crashes>>

Crash ==
    /\ crashes < MaxCrashes
    /\ crashes' = crashes + 1
    /\ req' = [r \in Requests |-> Idle]
    /\ sweep' = NoSweep
    /\ ReadOnly /\ UNCHANGED files

-----------------------------------------------------------------------------
\* A new store: not even its two files exist.
Init ==
    /\ made = {}
    /\ wiped = {}
    /\ workspaces = {}
    /\ home = NoWorkspace
    /\ originals = {}
    /\ source = [s \in Sources |-> NoRecord]
    /\ derived = [s \in Sources |-> {}]
    /\ keys = [k \in Workspaces \X Names |-> NoSource]
    /\ listed = {}
    /\ req = [r \in Requests |-> Idle]
    /\ sweep = NoSweep
    /\ crashes = 0

Open(r)    == \/ \E upload \in Uploads : Ask(r, upload)
              \/ LookForOperations(r) \/ NewRegistry(r) \/ NewOperations(r)
              \/ FindWorkspace(r) \/ CreateWorkspace(r) \/ MapWorkspace(r)
Accept(r)  == RefuseDuplicate(r) \/ WriteOriginal(r) \/ Register(r) \/ RegisterRaises(r)
Replace(r) == ReadKey(r) \/ SupersedePrevious(r) \/ LinkVersion(r)
Process(r) == \/ Verify(r) \/ WriteExtraction(r) \/ AddExtraction(r)
              \/ WriteCleaned(r) \/ AddCleaned(r) \/ SaveReport(r) \/ Fail(r)
Finish(r)  == RememberSourceKey(r) \/ SaveOperation(r)
Recover    == \/ ReadKnown \/ ListFiles \/ EndRecover
              \/ \E s \in Sources : DeleteOrphan(s)

Next ==
    \/ \E r \in Requests : Open(r) \/ Accept(r) \/ Replace(r) \/ Process(r) \/ Finish(r)
    \/ Recover
    \/ Crash

Spec == Init /\ [][Next]_vars

-----------------------------------------------------------------------------
(* Properties.                                                             *)

\* Every variable has its type.
TypeOK ==
    /\ made \subseteq {"registry", "operations"}
    /\ wiped \subseteq {"registry", "operations"}
    /\ workspaces \subseteq Workspaces
    /\ home \in Workspaces \cup {NoWorkspace}
    /\ originals \subseteq Sources
    /\ source \in [Sources -> Records]
    /\ derived \in [Sources -> SUBSET Artifacts]
    /\ keys \in [Workspaces \X Names -> Sources \cup {NoSource}]
    /\ listed \subseteq Sources
    /\ req \in [Requests -> Memory]
    /\ sweep \in Sweeps
    /\ crashes \in 0..MaxCrashes

\* However many uploads of a project are admitted at once, no content becomes
\* two sources.  Not two records of one workspace, whatever is wiped; and not
\* one in each of two workspaces that the first uploads of the project have
\* both made, unless a late constructor has emptied a file that was in use.
OneSourcePerContent ==
    \A s, t \in Registered :
        /\ source[s].content = source[t].content
        /\ source[s].ws = source[t].ws \/ wiped = {}
        => s = t

\* A record never stands without its bytes, whatever raises or is killed
\* between the two writes, provided that recover runs alone.
OriginalBehindRecord == RecoverAlone => Registered \subseteq originals

\* What a name stands for, and what a saved operation lists, was processed to
\* the end: no half-admitted source becomes the version to be replaced next or
\* is reported as accepted.  Its report is there in any case; its records are
\* unless the registry was emptied by a late constructor.
AdmittedWhole ==
    \A s \in Sources :
        s \in listed \/ (\E k \in Workspaces \X Names : keys[k] = s)
            => /\ "report" \in derived[s]
               /\ "registry" \notin wiped => s \in Registered /\ derived[s] = Artifacts

\* A version that another one names as its previous is not current, whatever
\* uploads of the same name race and wherever one of them stops.
ReplacedNotCurrent ==
    \A s \in Registered : source[s].previous # NoSource
        => source[source[s].previous].status = "superseded"
           /\ ~source[source[s].previous].current

\* A superseded version never comes back, not even when its own admission is
\* still under way when another upload of its name is admitted; it can only be
\* lost, with the whole registry.
SupersededStays ==
    [][\A s \in Sources : source[s].status = "superseded"
                             => source'[s].status = "superseded" \/ Registered' = {}]_vars

\* recover that runs to its end alone leaves no bytes without a record.
RecoveryLeavesNoOrphan ==
    [][RecoverAlone /\ EndRecover => originals \subseteq Registered]_vars
=============================================================================
