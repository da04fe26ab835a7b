# Gaia: a TLA+ verification project

Gaia (Local Analytics System) is a local analytics shell: an HTTP server on the
loopback interface that takes in project materials, masks them, lets a person
review the masked text, compiles it with local language models into project
context, and answers questions from that context. This directory holds TLA+
modules translated from the source, TLC configurations that check them on small
instances, and TLAPS proofs of the results that matter most. Paths below are
relative to `src/`.

## 1. The system

### 1.1 Components, their state and their operations

| Component (source) | State | Operations | How it meets the others |
|---|---|---|---|
| Background jobs (`gaia/jobs.py`, `gaia/context_attempts.py`) | `JOBS`, `JOB_CANCEL_EVENTS` in memory; `JOB_CAPACITY`, the executor queue, `CONTEXT_COMPILE_LOCK`; the attempt journal on disk | submit, run, cancel, time out, find stale, prune, status | started by the HTTP handlers, runs the orchestrator or the context compiler in a pool thread |
| Context compiler (`gaia/context_compiler.py`) | context records in `registry.json`, the compile receipt | compile, decide, mark duplicate, resolve conflict | called by a compile job; proposes to the review queue through the bridge |
| Operational context store (`gaia/operational_context.py`) | one partition file per scope: items, evidence, ambiguities | create, replace, retire, set and clear an ambiguity | written by review, read by the bridge and by every turn of a dialogue |
| Review queue and bridge (`gaia/operational_context_review.py`, `gaia/operational_context_bridge.py`) | `candidates.json`, `deferred_ambiguities.json` | propose a batch, confirm, reject, leave unresolved, retire | two files under two locks, changed by request threads and by the compile job |
| Retrieval, assembler, runtime (`gaia/operational_context_retrieval.py` ...) | none | retrieve, assemble under a budget, ask, check, ask once more | read the store without its lock |
| Hybrid answers, local models (`gaia/hybrid_*.py`, `gaia/source_evidence.py`, `gaia/local_llm.py`) | none | read materials and authorities, ask, check the reply | read the registry and the store one after the other |
| Provenance store and intake (`gaia/provenance.py`, `gaia/controlled_intake.py`) | originals, sanitized versions, the registry, the operations of the intake | accept, admit, recover, new version | used by every upload and every review |
| Material review (`gaia/review.py`) | the review state of a sanitized version | start, prepare, decide, confirm, successor | the confirm handler submits a compile job |
| Conversations, packages, retention (`gaia/conversations.py`, `gaia/orchestrator.py`, `gaia/archive.py`) | one file per conversation; the run directory, the journal and the audit of a turn; upload slots | create, add a turn, archive, prune | a turn holds the lock of its conversation until the answer of the model is stored |
| Projects and groups (`gaia/projects.py`) | folders, one metadata file in each, files named after the code | create, update, archive, repair; create a group | no registry but the file system; update under a lock of the metadata file, the others without |
| Scribe and inbox (`gaia/scribe.py`, `gaia/scribe_inbox.py`) | nodes, three registries, the status of each source | plan, apply, draft, prepare, ignore | apply a plan that was shown earlier; no lock at all |
| Memory, selection, rebuilding (`gaia/memory.py`, `gaia/lore_*.py`, `gaia/rebuild.py`, `gaia/context_assembler.py`) | `INDEX_CACHE`, the last package | index, select, plan evidence, rebuild, compose under a budget | read the files that Scribe, the registry of projects and the user's editor write |
| HTTP server (`gaia/server.py`) | upload slots | routing, multipart upload | one thread per request (`ThreadingHTTPServer`) |
| Masking, configuration, diagnostics, browser | none that is shared | computation, rendering, calls of external tools | |
| macOS host (`native/macos`) | the state of the server process | start, watch, stop | a controller of its own |

`PROJECT.json` lists every component with its status.

### 1.2 What is hard here

* *Cancellation against durable writes.* A compilation writes three files. It may be
  cancelled by the user, by a timer or by a poll at any moment, and the user is told
  that nothing was changed. Whether that is true depends on the order of a phase
  change under `JOBS_LOCK` and several looks at an event.
* *Resources handed between threads.* A permit is taken in the handler's thread and
  given back in a worker's; the compile lock is left on five different paths.
* *Three reads under three locks* in the status endpoint, followed by a write.
* *Two files, two locks* in the review of the operational context: a request reads
  the candidate, looks up the item it replaces, writes the item, marks the candidate
  and clears the ambiguity, and other requests come between any two of these.
* *Stale references.* A candidate names the item it replaces from the moment it is
  proposed; a receipt decides whether a later compilation is skipped.
* *Kills of the process* between any two writes: there is no transaction over files.
* *Looks before locks.* A store creates its files where it has seen none, a project lists
  the names it checks and then the names it renames, a missing file is written after the
  look that missed it: all without the lock under which others change the same files.
* *Plans older than the files they are applied to.* The items of a Scribe plan are
  chosen on what was shown; the apply computes the plan again and writes many files.
* *Names that are places.* A project is a folder named by its title, its files are
  named by its code; an update that waited for a lock goes on with the old name.
* *Reading beside writing.* A turn, and the selection of the memory, look at one file
  after the other while all of the above changes them.

What makes each component correct: jobs — a cancelled compilation has written
nothing, messages about changes are true, the receipt is never ahead of what it
stands for, an ended job is not revived, permits are neither lost nor doubled,
accepted work ends. Operational context — at most one item of a slot in force,
history without forks, decisions final, no confirmation without its item. Answers —
what is in dispute is not shown as valid, nothing that held is left out silently, what
an answer uses has a readable source. Provenance and review — no content admitted
twice, no record without its bytes, nothing half-admitted reported, no version used
that was not confirmed, and a confirmation taken back, given late, doubled or divided
between two versions only by requests that were under way at the same time. Scribe —
nothing written unasked, what was answered as applied stays, a backup undoes an apply.
Projects — no text destroyed but in the two windows that the code leaves open, the
metadata and the first memory by name lead to the project's own memory or to an empty
one, an archived project stays archived. Conversations — turns neither lost nor
interleaved, the prompt made of what came before the turn, the session of what came up
to it. Memory — never older than the question, the answer to the question not lost in
the selection.

## 2. Modules

| Module | Role |
|---|---|
| `Jobs` | jobs, attempt journal, the compile and the analyse worker, the status endpoint |
| `JobsProofs` | its type; what a cancellation may be told; permits, receipt, journal, ended jobs |
| `Authority` | abstract: what a slot of the operational context promises |
| `OperationalContext` | store, review queue, review requests and bridge |
| `Answers` | EXTENDS `OperationalContext`: the turns that read it, on the hybrid and the legacy path |
| `AnswersProofs` | of the store: type, `OneActive`, `Lineage`, confirmations, decisions, refinement of `Authority`; of a turn: what it shows, leaves out and uses |
| `MaterialReview` | versions of a sanitized material, their review records, the review handlers, the compilation that uses them |
| `MaterialReviewProofs` | type, what may be confirmed and used; what requests that overlap may do to a confirmation, and no more |
| `Intake` | admission of uploads: creation of the store, workspace, originals, records, versions of a file, recovery |
| `IntakeProofs` | type and the six safety properties of `Intake` |
| `Scribe` | plan and apply of changes to the memory, registries, inbox |
| `ScribeProofs` | the four safety properties of `Scribe` |
| `Projects` | the registry of projects as folders, metadata and files |
| `ProjectsProofs` | the inductive invariant and the three safety properties of `Projects` |
| `Conversations` | turns, packages, archive requests, retention |
| `ConversationsProofs` | the four safety properties of `Conversations` |
| `Lore` | index, cache, selection, evidence, rebuilding, budget |
| `LoreProofs` | the cache and the freshness of what is read; selection, evidence and budget; induction, sums and sorts |

Each of `Jobs`, `OperationalContext`, `Answers`, `MaterialReview`, `Intake`, `Scribe`,
`Projects`, `Conversations` and `Lore` has a module `MC...` with its instances.

How they compose: `Answers` contains every action of `OperationalContext`, which in turn
implements `Authority`. The state after the last step of an `Intake` request is the initial
state of `MaterialReview` for each source it admitted; the
compilation of `MaterialReview` (`CompileItem`) is a job of `Jobs`; what the compile worker proposes there is
`BeginBatch` in `OperationalContext`. A turn of `Conversations` takes the answer as one
step, which `Answers` and `Lore` open up. These seams share no file but the ones named.

### 2.1 Jobs

A job is submitted by a handler (`Acquire`, `Register`, `PersistCreated`, `Enqueue`,
each a step because other threads run between them), waits in `queue`, and is run by
one of `MaxWorkers` threads. `pc` says where the submitting handler, then the worker,
is; `status`, `phase`, `note` are the record in `JOBS`, `event` is the cancel event,
`attempt` and `wrote` are on disk. `note` is the *claim* of the message and not its
wording. `UpdateJob` and `CancelJob` are `update_job` and `cancel_job`, both whole
under `JOBS_LOCK`, including the write of the attempt journal, which may raise
(`saved`). The phases of `compile` are reported through the same callback as in the
code (`Report`), with the looks at the event where the code has them (`Checkpoint`).

Not in the model: time (a job may be found over its limit whenever it is live, so a
timeout is a cancellation with another reason); the text of materials and the answers
of models; what `create_package` computes (only its order: last check, journal,
result). A job identity is submitted once, as `uuid4` makes them.

A cancelled job may be forgotten while it still waits in the queue of the executor
(`Prune`): finished jobs are kept for a limited time, counted from the cancellation, and
a queued job can wait longer than that behind busy threads. Its worker then takes a fresh
event and the compilation runs. `CancelledIsUnchanged`, what the interface promises,
is refuted by the run `jobs_forgotten`; `CancelledWritesNothing` says the same of every
job that was not forgotten in the queue, and is checked and proved with such pruning
allowed for every other job.

`announced` (the job was once reported as cancelled) and `forgotten` (it left `JOBS`
while it was queued) are history variables; `faults` and `crashes` only bound how often
things fail.

*Fairness* (`FairSpec`): a handler that has taken a permit and a worker thread keep
running. Model calls run in a child process with a hard deadline
(`gaia/context_model_executor.py:78-114`), file operations end, and the compile lock
is a `with` block. Nothing is assumed of users, polls, prunes and the status
endpoint. Weak fairness of a worker is enough although the compile lock is contested:
a waiting worker is disabled only while the holder runs, and each job takes the lock
once, so among finitely many jobs it is free for good in the end.

### 2.2 OperationalContext and Authority

A *slot* is a pair (kind, subject). `lifecycle`, `origin`, `supersedes` and
`ambiguity` are the partition file of the project; `state` and `replaces` are
`candidates.json`. A request is a small program with a position `at`, the candidate it
has read and the item it means to replace; each action is one access to one file
under that file's lock. The handler does not lock anything around them. `Crash` clears
the memory of the requests and of the compilation; both files are replaced atomically
by `atomic_write_text`.

The bridge is the other actor: a compilation under the bridge lock builds one proposal
after the other (`ReadCurrent`, then `ReadPending`, two reads of two files), and adds
those that are left in one write (`PersistBatch`). Candidate ids are hashes of the
material and the place in it, so the same id may be proposed again after it was
decided: that is why `BeginBatch` takes any set of candidates.

`Authority` is what a reader of the context may rely on: a slot has at most one item
in force; items come into force once, are replaced in one step or retired, and never
return. `OperationalContext` implements it with `force` = the active items and `past`
= the other used items of a slot. The review queue, the requests and the ambiguities
have no counterpart: their steps are stuttering steps of `Authority`.

Not in the model: the scopes *user* and *system* (no action of the review writes
them), the fields that only their own record's validation looks at, the views of the
queue, and `defer_ambiguity`, which records a reference nothing else reads.

### 2.3 MaterialReview

One extraction and its sanitized versions. `texts`, `registered` and `current` are the
store: the text file of a version, its entry in `registry.json`, the flag in that
entry. `made` says whether there is a `review_state.json`, and `record` what it says: one
record per version, of which the model keeps the state, the numbers of the findings and which of them are decided; `confirmed`
is a flag in the code that is set together with the state, so it is the state here. A
request (`req`) is a handler with a position `at`, the version it was asked for (`art`),
the version it makes (`new`), and the record it has read (`copy`) and will write back
whole. `AskReprocess` and `AskView` are the handlers that only make a version and that
open a missing record: they share the steps of the longer handlers and have no `art`.

`_versioned_content` is four kinds of steps because the code takes the lock of the
registry for each of them: look for the current versions, supersede them one by one,
write the text, register the new one. `FailWrite` ends a request at a write that
raises, with what was written so far.

`task` is the one compilation that holds the compile lock. It looks at the version and
at its confirmation once and ends later, with candidates stored or a failure; what it does
between, and what it stores, is in `Jobs` and `OperationalContext`. Here it matters only
that nothing is compiled that no user has confirmed.

Not in the model: the texts, the dictionary and the pseudonyms (planned as a module of
their own), the carried history of decisions (nothing in the code reads it, and the
next check of the version writes a record without it), the diagnostics, the moment in which
a reader meets the file emptied and its request raises.

`ReviewService.__init__` writes an empty `review_state.json` where it has seen none
(`gaia/review.py:123`): `LookForRecords` is the look and `NewRecords` the write, which takes
the lock of the file but does not look again, so it empties whatever others have saved since.
Every handler but a plain reprocessing runs it before anything else. A compilation runs it
as well, before it reads the record; one that finds no file is represented by a request that
makes it and does nothing more.

Two history variables: `granted`, the versions that a user has confirmed at some time, and
`past`, which remembers for each request what others did to versions since it read what it
is going to rely on. An event is an addition, a supersession or a confirmation of a version;
`Windows` says at which steps a request is exposed to which of them (between reading the
current versions and adding a new one; between the look at the version and the write that
confirms it; between reading a record, or finding it unconfirmed, and writing it or
submitting an analysis; between finding no file and making it), and outside of its window an
event is forgotten. The code locks single accesses only, so confirmations can be lost, given
late or doubled and two versions can be current. Four action properties say of *which*
request each of these may come, and that nothing else can do it: a confirmation is taken back
only by a request that was under way when it was given (`ConfirmationStays`); a version is
confirmed while it is current, or by a request during whose last step it was superseded
(`ConfirmsCurrent`); a new version stands beside a current one only if that was added
meanwhile (`ReplacesCurrent`); and an analysis comes only of a request during which the
version became confirmed, so that a confirmation repeated later submits nothing
(`RepeatSubmitsNothing`).

### 2.4 Intake

The upload handler admits a batch of files: `admit` of the adapter, `accept_bytes`,
`supersede_source`, `create_extraction` and `create_sanitized` of the store, `protect`
between them. `home`, `keys` and `listed` are `intake_operations.json`; `workspaces` and
`source` are `registry.json`, and so are two of the `Artifacts` (`InRegistry`);
`originals` and the rest of `derived` are the files on disk. A request
(`req`) is a handler with a position `at`, the files it still has to admit, the source it
is processing (`src`), the one it replaces (`prior`) and what it has finished (`done`).
Two positions stand for a lock that is held over the end of a step: `writing` (the bytes
are written, the record is not, the lock of the registry is held) and `mapping` (the
workspace is made, the mapping is not, the lock of the operations is held). A kill
there leaves what the code leaves there. `RegisterRaises` is the `except` that takes the
bytes back; `Fail` is any other exception, which nothing takes back.

The store starts as nothing at all (`Init`), and `made` says which of the two metadata files
exist. Every request constructs the store and the adapter, and each of these looks for its
file without a lock and writes an empty one where it has seen none
(`gaia/provenance.py:37-38`, `gaia/controlled_intake.py:31-32`): `Ask` and
`LookForOperations` are the looks, `NewRegistry` and `NewOperations` the writes. These take
the lock of the file but do not look again, so they empty whatever others have saved since
the look; `wiped` remembers which file lost something. Other handlers that construct the
adapter are represented by uploads that start and fail.

`recover` compares the registry with the directory in three steps (`ReadKnown`,
`ListFiles`, `DeleteOrphan` for one file after the other). Nothing in `src/` but a test
calls it, so the model says when it may run: with `RecoverAlone` only while nothing is
being admitted, and nothing is admitted while it runs. `OriginalBehindRecord` and
`RecoveryLeavesNoOrphan` state that condition. Without it the first of them does not
hold: the registry is read without its lock before the files are deleted.

A content is a model value, equal to another when their SHA-256 are; the state after the
last step of a request is the initial state of `MaterialReview` for each source admitted.
Not in the model: other projects (no file is shared between the workspaces of two
projects but the two metadata files, and what empties them is the same for all), the size and the validity of an upload (refused before
anything is read), the operation file's own fields, `finish`, which the handler never
calls with an operation, and the context and export records of the same registry.

### 2.5 Scribe

An apply request (`req`) carries a package and the choice its user made on the plan she
was shown (`Propose`); `Apply` computes the plan from what the memory holds now, with the
local classifier answering or not. `Backup` copies the nodes: into a folder named by the
second and the package, which may be there already (`gaia/scribe.py:1234-1235`). So a second
apply of one package in the same second shares the folder of the first and copies over it
what the first has left of its nodes; `folder` says which folder an apply has, `copies` what
is in each, `current` which of them were made in this second, and `overlaid` remembers the
applies of which the backup was copied over. `LookItem` and `WriteItem`
treat one item after the other (a look at the file, then the write), `ReadRegistry` and
`WriteRegistry` each of `sources`, `journal`, `index`, and `MarkOrigin` the inbox. No two
of these are under a common lock, because nothing there takes one. A text is the set of
the marks written into it, `<<run, key, kind>>`; `WriteItem` writes the node whole, from
the text that `LookItem` found, so it takes away what another request wrote in between.

The plan is `Plan`: candidates of three origins (`Offered`), without those whose id was
offered before (`Kept`), under the Quality Gate (`Gated`: personal data, `Fits`, targets
taken by an earlier candidate), and `MarkExisting`. A plan and what an apply has left of it
are functions from places to items, so the order is that of the places. `Draft`,
`StartPackage`, `MarkPrepared` and `Ignore` are the other handlers; `Listed` is what the
inbox shows.

History variables: `wrote` (which request wrote which node) and `raced` (requests that
ran while another one ran). `AppliedStays` and a part of `InboxTellsMemory` are stated
for requests that did not race, as the code gives nothing more (section 5);
`NothingUnasked` holds for those that did, and so does `BackupRestores`: on a node that no
other request wrote, the folder of an apply holds what was there before it, but for those
that are `overlaid`, whose folder holds at least that.

Not in the model: the wording of nodes and titles beyond what the gate tells apart, the
archiving of related nodes (it moves files of the graph only, and what a plan relates are
paths of sources, so the branch moves nothing), the exports of a draft.

### 2.6 Projects

`there`, `meta` and `file` are folders, the metadata file in each, and the texts in it by
code and kind; there is no other registry. `bare` are folders that a creation has made
and not filled. Each handler is its looks and its writes, one step each:

* a creation: `AskCreate` (a look at the folder), `MakeFolder`, `FillFolder` (raises in a folder
  that was renamed meanwhile), `WriteMeta`, `Sync`, `Write`;
* an update: `AskUpdate`, `TakeUpdate` (lock, reads, and every check that refuses, the taken
  names among them), then for a new code `ListNames` (the files are listed again, after the
  checks) and `RenameFile` one by one, then `WriteMeta`, `Sync`, `Write`, `MoveFolder`;
* a repair: `AskRepair`, `ReadCode`, `Sync`, `Write`.

`Sync` and `Write` are `ensure_text`, a look for a missing file and a write of an empty one. The
four files that the code ensures in the same way stand as one, the memory. `lock` is
the lock of the metadata file of the folder the update was *asked about*: the folder may be
another's by the time it is held. Any step may raise (`Raise`), which leaves what was written.

A text is the project it belongs to, whatever its file is called; a file that a creation,
a repair or an update makes empty is a text of the request that made it. Two writes go over a
text without looking, and `Overtaken` names them: an update renames over the new name when
the file of the *old* code was not there as the names were checked, and appeared before they
were listed again (`gaia/projects.py:182`, `:189`); and `ensure_text` writes an empty memory
over one that has come since it saw none (`:562`). `TextsKept` says that no text is destroyed
otherwise: not by a failure halfway, not by two requests for one title.

The registry and the answers do not look for a memory by the code of the metadata but take
the first by name (`gaia/projects.py:294`): `First`, in the order that `Rank` gives the codes.
`OwnMemory` says of both: when nothing works on the folder of a project, nothing has failed
and its memory was not destroyed in a window, the memory of the metadata's code is its own,
and the first by name is that one, a file that was there from the start, or an empty one of
a repair. The last case is real: a repair that has read the old code makes an empty
memory of it beside the renamed one, and if the old code comes first by name it is what
the project is answered from.

History: `crossed` are the places to which a folder was renamed while another request was
writing there, or from such a place; `ArchivedStays` and `OwnMemory` except exactly these.
Three requests are needed for most of what goes wrong there: one renames a folder away
under a second one, and a third one is moved into the place the second writes to.

Not in the model: the update and the archiving of a group, what is in a text, the references to a code
inside texts (`update_project_code_references`, a read and a write of each text without a
lock), the views.

### 2.7 Conversations

`conv` are the files, each read and written whole; `lock` is the lock of a file, held by a
turn from `Take` to `Write`, over the making of its package and the answer of the model.
A turn is given two windows of the messages: the prompt of its package has those before it
(`seen`); on the legacy path, with an operational context, the model gets the session as well
(`Session`), and that is taken after the own message was appended
(`gaia/conversations.py:166`, `:224-228`), so it holds the own message and one earlier message less.
`AnswersWhatCameBefore` says this of each of the two.
`slots` are the upload slots, taken in `ReadForm` and given back in `EndForm`, whether the
form was well formed or not. `run` is what a turn has on disk (directory, uploaded texts,
journal, audit) and `told` the route that journal and audit tell. `Prune` is the retention
of one kind at a time; it takes runs that are over, because nothing is open for days.

Not in the model: the wording of a package and the policy that decides its route (the
route is chosen freely where the policy may choose), the transcriber, slugs.

### 2.8 Answers

`Answers` EXTENDS `OperationalContext` and adds turns. `turn` is the memory of one: it
reads the current versions (`ReadMaterials`), the items (`ReadItems`) and the disputes
(`ReadAmbiguities`), then packs, asks, checks the reply, asks once more, and is told
something (`Finish`). Each read takes no lock, and every action of the review, of the
bridge, `ReplaceVersion` and `Kill` may come between. A read may fail; the code takes a read of the
disputes that fails as "none", which `broken` remembers. Relevance, lengths and replies are chosen freely among what the code allows.

`met` is a history variable: what was so at *some* moment of the reading (`calm`), and
what was so at *every* moment of it (`steady`, `stands`). The properties relate an answer
to it, because no single moment of the store need match what a turn has read.

*Fairness* (`TurnsEnd`): a turn keeps running. Reads end, and calls of the model have a
timeout of 120 and of 180 seconds.

### 2.9 Lore

A file is a stamp (time and size) and a set of sections; `Write` replaces it as a whole
(what Gaia does), `OpenFile` empties it and `FillFile` fills it (what the user's editor of
the vault does, external to the code), `RemoveFile` takes it away. Every change gives a
stamp no file has had, which is the code's own assumption when it compares signatures.
A `reader` lists the files, looks at each stamp (`StatFile`), compares with the `cache`
of that part (group or project), reads each file (`ReadFile`), stores the index, and then
selects, rebuilds the prompt of the last package (`shown`), or composes the memory with
the context of a dialogue. The cache is shared and has no lock.

A file of `Documents` is read by an extractor. When that raises, or the file is gone by
then, the code takes an empty text (`gaia/memory.py:658-667`) and caches it under the stamp
it has looked at: `Reading` is what a reader may take from a file, and the empty text stays
until the file is written again. `Fresh` and `CacheTruthful` say just this of documents, and
of every other file that its text is the one on disk.

A section has a `Card`: place, line, words, bonus, authority, size. Score, order, links
and budgets are computed from it as in `select_project_memory` and
`semantic_rerank_candidates`; what the local model answers (a rewriting of the query, an
order of the candidates) is chosen freely. Which of
those that tie in a sort comes first is left open (`Best`). `Evidence` is
`build_evidence_plan`: one section of each selected primary file, the one its authority
and line put first (`Leading`), then every section of the other primary files that covers
the question (`Drill`), then summaries, then whatever was selected first. `Compose` takes
of the trusted items those that fit, in their order, and remembers their places (two items
may be equal), then gives the memory what is left. `floor` remembers the stamps at the
beginning of a request, for `Fresh`.

## 3. Runs

Every run names its constants in its `.cfg`. Deadlock is checked but in the runs of
`Jobs`, `Scribe`, `Projects` and `Conversations`, where the system really stops when all
requests have ended.

| Run | Instance | Properties |
|---|---|---|
| `jobs_compile` | `FairSpec`, 2 compilations of one artifact, 2 threads, 1 chunk, 1 fault | `UnchangedMessageHolds`, `DoneHasReceipt`, `AcceptedJobEnds` |
| `jobs_mixed` | a compilation and an analysis on one thread, prune while queued, 1 fault, 1 kill | `CancelledWritesNothing`, `ReceiptIsComplete`, `PermitAccounting`, `SettledStaysSettled` |
| `jobs_forgotten` | a compilation behind an analysis on one thread, no fault, no kill | `CancelledIsUnchanged`: violated, section 5 |
| `context_review` | 2 candidates of one slot, 2 items, 2 requests, 2 batches | `KeepsAuthority`, `ConfirmedHasItem`, `DecidedStays` |
| `review_races` | 2 versions, 2 requests, 1 finding, 1 analysis counted, no `review_state.json` at the start, 1 kill | `NothingUndecided`, `OnlyConfirmedUsed`, `ConfirmationStays`, `ConfirmsCurrent`, `ReplacesCurrent`, `RepeatSubmitsNothing` |
| `intake_races` | 2 requests on a new store, 2 workspaces, 3 sources, 2 names, 3 contents, a batch of two, 1 kill, `recover` alone | `OneSourcePerContent`, `OriginalBehindRecord`, `AdmittedWhole`, `ReplacedNotCurrent` |
| `scribe_apply` | 2 applies, 3 packages, 2 titles, 1 node before, 1 inbox file, 2 inbox requests, 1 failure | `NothingUnasked`, `BackupRestores`, `AppliedStays`, `InboxTellsMemory` |
| `projects_registry` | 3 requests (an update; a creation or an update; a repair), 2 titles, 3 codes in order, a stray file, 1 group, 1 failure | `RegistryLeads`, `ArchivedStays`, `TextsKept`, `EveryRequestAnswered` |
| `dialogue_turns` | 2 requests on 1 conversation, 2 files, 1 upload slot, 1 recent message, 1 failure | `TurnsKept`, `AnswersWhatCameBefore`, `RouteTold`, `UploadsRemoved`, `EveryRequestEnds` |
| `answer_turns` | 2 candidates of one slot (one confirmed, one waiting at the start), 2 items, 1 review request, 1 turn, 1 version | `HybridGrounded`, `DisputedNotShown`, `NothingLeftOut`, `EveryTurnTold` |
| `answer_retired` | the same | `RetiredNotRetrieved`: violated, section 5 |
| `lore_memory` | 1 reader, a group file, the memory file, a document and a transcript, 6 sections, 5 stamps | `SelectionSound`, `Fresh`, `ReserveKept` |

The type invariants are conjuncts of `NothingUnasked`, `RegistryLeads`, `TurnsKept`,
`HybridGrounded` and `SelectionSound`; those of the other four modules are proved
only (section 4), and so are `OneActive`, `Lineage`, `TextBehindReview`, `SupersededStays`,
`RecoveryLeavesNoOrphan`, `CacheTruthful` and `EvidenceFirst`, which no run repeats.

*Why the bounds are enough for the cases.* Two compilations of one artifact share the
lock, the receipt and the journal record; nothing in `Jobs` relates three jobs other
than by counting, and counting is proved. One chunk makes the loop run once and leave.
One fault hits each failing call in turn, one kill every state. In `OperationalContext`
the races are between two requests; two items in one slot are a replacement, and the
proofs cover longer lines. A second slot would only add independent copies, which the
proofs cover. `Items` bounds the number of confirmations and `MaxBatches` that of
compilations; two batches are a first proposal and its repetition after a decision.

In `MaterialReview` two versions are a version and its successor, which is all that a
handler ever relates, and two requests are enough for every overlap that the properties
except: a check or a decision beside a confirmation, two confirmations of one version, a
confirmation beside a reprocessing, two reprocessings, two that both see no file. One
finding is enough for a decision that is the last one; the proofs cover more of everything,
two decisions on two findings among it. In
`Intake` two requests race for the two files of the store, one workspace, one content and
one name; three sources are a version, its successor and one more, whether a successor of
the successor or the rival of the successor. The batch has two files, so that one can fail
after the other.

In `Scribe` two requests are the applies that interleave and the plan that has grown old
by the time of its apply; the packages have an item the gate blocks, two items of one
title, a merged summary that is too long (`BasePaths` = 1) and an origin in the inbox. Two
titles with two linked nodes each let a choice of `create_linked` find its first name
taken. In `Projects` one title has the project and one is free, so a rename goes to a free
title or to one that a creation is making or has made. The stray file has the name that the
inferred code gives a memory, and by name it stands between the two codes: the first memory
is the project's own, the stray one or an empty one of a repair, as it comes. An update, a
repair, and a creation or a second update are the fewest that reach both windows of
`TextsKept`, a folder renamed under another request, and two changes of code. In
`Conversations` two turns queue for one file; one recent message of two shows a window
that moves, one slot for two uploads a slot that is refused. In `Answers` one slot has a
decision in force, its rival, the dispute between them and the replacement; `MaxItems` = 1
is a limit that the items in force reach and do not pass. In `Lore` a document and a
transcript, one section each as the code makes of such files, and a limit of two sections make
the limits bite; the extraction of the document may fail at any reading. The memory file has
two sections in two versions, is open in an editor at the start, and has a section whose
score is negative; five stamps are the four files and one change
under the eyes of the reader. One reader meets the cache that an earlier one left; what
several readers do to it is proved for any number, and so is what larger memories, other
limits and other questions do to the selection and to the evidence (`LoreProofs`).

Symmetry is used over items and requests (`context_review`), versions and requests
(`review_races`), requests, sources and workspaces (`intake_races`) and requests
(`scribe_apply`); never in a run with a liveness property.

*Fairness.* `AcceptedJobEnds`, `EveryRequestAnswered`, `EveryRequestEnds` and
`EveryTurnTold` assume that a thread which can take its next step takes it in the end
(`WF` of the steps of each request). The code justifies it: every request has a thread
of its own, file operations end, every call of a model or an external program has a
timeout, and locks are left by `with` blocks. Nothing is assumed of users, kills, faults
and retention. A request that waits for a lock is disabled while another holds it; weak
fairness is enough because a request takes the lock once and there are finitely many.

Every property has a mutant in `PROJECT.json`: a plausible bug in one definition
(a guard dropped, a message chosen without looking, a lock not left) with which TLC
finds the property violated under the run's own configuration.

## 4. Proofs

All proofs hold for every value of the constants under the named assumptions
of their modules, which TLC evaluates in their runs. "For every value" means any number of
jobs, requests, candidates, versions, packages, projects, conversations, turns, readers.

The assumptions are about what the constants are (`JobsAssumption`, `ContextAssumption`,
`ReviewAssumption`, `IntakeAssumption`, `AnswersAssumption`, `LoreAssumption`,
`LimitsAssumption`, `LimitAssumption`, `PackagesAssumption`): limits are natural numbers, the
value that stands for "none" is nobody's name, what is there at the start is of the right
kind. Eight say something of the code:

* `FoundedAssumption`, `StrayAssumption`, `TextsAssumption` (`Projects`): the projects there
  at the start have one folder and one code each, the stray file lies in a project's
  folder, and texts that are there are not those a request will make.
* `OrderAssumption` (`Projects`): names are ordered, and of any set of codes one comes first,
  as `sorted` in `project_memory_path` has it.
* `RunsName` (`Scribe`): the id of a run is generated for its package
  (`gaia/orchestrator.py`), so two packages do not share one.
* `IdsName` (`Scribe`): `stable_item_id` hashes project, category and text of a candidate,
  and its title, the note about personal data and the verdict of the gate are computed
  from category and text alone, so two candidates of one id are the same.
* `NoneAssumption` (`Conversations`): requests are finitely many. They are counted.
* `PlacesAssumption` (`Lore`): the files are finitely many, a text has finitely many
  sections, and two of them begin at different lines, as `parse_memory_sections` starts one
  at a heading. `section_identifier` is made of path and line.
* `CardsAssumption` (`Lore`): lines, weights and sizes are numbers; a section has finitely
  many words. A score may be negative.
* `BudgetAssumption` (`Lore`): `DialogueContextBudget` refuses a reserve above the whole
  (`gaia/context_assembler.py`), and the limits of the selection are positive constants.

* `JobsProofs!TypeCorrect`. `TypeOK` is not inductive: `PersistCreated` journals the
  status of a job, which must not have been pruned; `Registered` adds that. Helper
  lemmas treat the shapes the actions share (`Step`, `Write`, `Report`, an update or a
  cancel followed by a move).
* `JobsProofs!CancelSafety` and `MessageSafety` (`CancelledWritesNothing`,
  `UnchangedMessageHolds`, with no assumption). The argument: the event of a
  cancelled job stays set while its worker can still run, so the worker cannot pass
  the look at the event before the first write; and a job that is past it shows a late
  phase, so `cancel_job` refuses. A job forgotten in the queue never comes back to
  `JOBS` (`ForgottenOf`), so no message speaks of it any more. The inductive invariant `CancelInv` ties position,
  phase, event, message and written files of one job together; a step of another job
  leaves it alone (`OthersUntouched`).
* `PermitsCounted` (`PermitAccounting`), `ReceiptComesLast`
  (`ReceiptIsComplete`), `JournalledDone` (`DoneHasReceipt`), `EndedIsEnded`
  (`SettledStaysSettled`), with pruning and kills allowed. Permits are counted over a
  finite set of jobs that hold one, so each action moves one job in or out of that set. The receipt is written by one step of one position, at which the job has written
  the two files before it; a job marked done is past that step or has found the receipt.
* `AnswersProofs!TypeCorrect`, of the store. The strengthening says that a request which
  is under way has a candidate (`Busy`), a compilation that compares has one
  (`Comparing`), and a used item has an origin (`Rooted`).
* `OneInForce` (`OneActive`) and `HistoryIsALine` (`Lineage`). The two support each other: a
  replacement keeps the line because its target is active, and active items have no
  successor because every successor supersedes. Only two actions change items; their
  effect is stated once (`Written`, `RetireStore`), all others leave them (`StoreFrame`).
* `Refinement` (`KeepsAuthority`): every step of the two files maps to `Promote`,
  `Replace`, `Retire` or a stutter.
* `ConfirmationBacked` (`ConfirmedHasItem`): the request that is about to mark a candidate
  has written an item of it, which nothing deletes. `DecisionsFinal` (`DecidedStays`): a
  batch only adds what the queue does not have, and every mark looks at the state first.
* `AnswersProofs!DisputesRespected` (`DisputedNotShown`), `WholeOrRefused` (`NothingLeftOut`)
  and `GroundedAnswers` (`HybridGrounded`). `TurnInv` relates what a turn has in memory to
  `met`: what it has seen was in use, each thing that was so all the while is among what it
  has read up to its position (`SeenTogether`, `ReadSoFar`), and what it shows is taken
  from there (`ShownRight`). A turn that stands still stays right while the store moves,
  because `calm` only grows, `steady` and `stands` only shrink, and an item in use keeps
  its origin. That the limit of items leaves nothing out needs the number of eligible
  items to be at most that of the slots: `EligibleFits` gives an injection from `OneActive`,
  so this proof rests on that of `OperationalContext`.

* `MaterialReviewProofs!RecordsWhole`, `ConfirmationNeeded`, `ReviewGrounded` and
  `TypeCorrect`. The invariant is about memory as much as about files: `Sound` says what
  a request may hold at each of its steps (a copied record is whole; a record that it
  will confirm was ready; a confirmed copy is of a version that the user confirmed),
  and only ever asks that sets which grow have grown, so a step of one request leaves
  the memory of the others sound (`Moves`). `PutStep`, `ReadStep` and `StoreStep` treat
  the three shapes of a step, and each action only shows that its own memory is sound.
* `ConfirmationKept` (`ConfirmationStays`), `ConfirmedWhileCurrent` (`ConfirmsCurrent`),
  `OneVersion` (`ReplacesCurrent`) and `AnalysedOnConfirmation` (`RepeatSubmitsNothing`), for
  any number of requests that overlap as they like, with kills and failing writes. `RaceInv`
  says what a request that is going to write knows of the files (`Aware`, `Knows`): what it
  has read is still so, or what has changed it is in its `past`. A request that has seen no
  file knows that every confirmation has come since, because until the file is there nobody
  can confirm anything (`Unopened`). Each action shows that its own request still knows
  (`Fine...`), and `StillAware` that every other one does, because whatever the step did has
  become part of its past; `WindowsEnough` that nothing is forgotten too early.
* `IntakeProofs`: type correctness and six safety properties (four of them are those of
  `intake_races`), as a tower of invariants above `Basis`, which is the types and `Own`: at
  most one request holds each lock, a source has one request that processes it (`Owned`), what
  is being written has no record and a content that no record of its workspace has
  (`NewContent`), and a file that others may remember has its report. All of this survives a
  file that is emptied. `HomeInv` adds, as long as nothing was wiped, that the project has one
  workspace; with the uniqueness within a workspace that gives `ContentOnce`. `WholeInv`
  gives `WholeBeforeKnown`: as long as the registry was not wiped, a request has made of its
  source exactly what its step says (`Staged`). `LineInv` gives `OneVersionAtATime` and
  `ReplacedForGood` whatever is wiped: a source whose admission still writes its record
  (`Young`) is not what a name stands for, so nobody supersedes it. `StoredInv`
  gives `BytesBehindRecords` and `NothingLeft`, under `RecoverAlone`.

* `LoreProofs!CacheHolds` (`CacheTruthful`) and `NothingStale` (`Fresh`). A stamp determines a
  text because each is given once (`clock` is above all of them); what the cache or a
  reader remembers under a stamp is a text the file had no earlier than that stamp, and
  if the file still has it, its text. A remembered text is therefore current or known to
  be older than the file, and a reader that takes it has just seen the stamp. For a document
  the empty text of a failed extraction counts as one of its readings (`Reading`), at every place.

* `LoreProofs!SelectionHolds` (`SelectionSound`), `EvidenceHolds` (`EvidenceFirst`) and
  `ReserveHolds` (`ReserveKept`), for every memory, question, limit, sort and order the model
  may ask for. They are about loops, and induction over data is out of reach only where a
  theorem takes a predicate; so `Induct` is stated with a *set* of numbers and proved from the
  least element of its complement (`LeastNumber`), `Recursion` gives a function that follows
  a given step function, and `SameSteps` says that there is one. Every recursive function of
  `Lore` is one of these: `SumIs`, `KeepIs`, `SortedIs` (a sort has each element once and none
  before a smaller one), `SelectionIs`, `FitIs` state what it computes. `SelectionIs`
  carries the promise through the loop: what was passed over (`Passed`) had its place taken or
  no room, and stays so as the selection grows. `ConfirmedIs` does the same for the
  evidence, file by file, and `FitIs` for the items, by the prefix that was looked at.
  `TInv` then says of a request that its answer is still of the memory, query and items it
  was made of (`Answer`, `Shared`), whatever became of the files since.

* `ConversationsProofs`: `KeepsTurns` (`TurnsKept`), `SeesWhatCameBefore`
  (`AnswersWhatCameBefore`), `TellsOneRoute` (`RouteTold`) and `RemovesUploads`
  (`UploadsRemoved`), for any number of conversations, requests, uploads and slots, and with
  steps that raise. `Owned` carries the first two: a conversation is locked by exactly the
  one request that is between its read and its write, and its file still is what that
  request has read; so the write appends to the present file although it writes the file
  whole. `Filed` (a message is of a turn that was answered here) makes a turn's own messages
  the only ones of it, and the window of recent messages the window before its place; the
  session is the window that ends with the own message, of the same record.
  `Story` says for each position of a turn what it has on disk and which route it has told.
* `ScribeProofs!AskedOnly` (`NothingUnasked`), `UndoneByBackup` (`BackupRestores`),
  `StaysApplied` (`AppliedStays`) and `TellsMemory` (`InboxTellsMemory`). Each action is one
  of twelve kinds of step (`Kind`: `Rests`, `Starts`, `Copies`, `Takes`, ...), and the parts of
  the invariant are shown per kind. `Asked` keeps what the gate has let through with the
  items in hand, for every plan the second computation can give; `InStep` says that what a request
  holds for a node nobody else wrote is what the node has, which is why its write takes
  nothing away. `Saved` ties a backup folder to the applies that share it: they are of one
  package, only those with the folder can copy into it, and it holds for each node what was
  there before the apply, or, for one that is overlaid, at least that (`Held`).
  `Staying` is about requests that ran alone: how far one has come (`Progress`), and
  that whoever writes later holds a text which already has its marks and entries
  (`Respects`), as it has read it after the first one ended. `Origins` tells for each mark
  which request wrote it. The proof that `LookItem` has one target at most showed that an
  earlier form of `Goal` did not determine it when a choice and a missing node met.
* `ProjectsProofs!WholeRegistry` (`RegistryLeads`), `ArchivedForGood` (`ArchivedStays`) and
  `KeepsTexts` (`TextsKept`), from `Registry`, the inductive invariant `IInv`. `TypeInv`: the lock of
  a place is held by exactly the update that works there (`Locked`); a folder that holds
  something is there and not new (`Full`); and for an update that changes a code, the files
  it has found, or has yet to rename, are there, and behind the new name of each file that
  was *checked* is nobody's text (`Free`), whatever creations and repairs do beside it. A file
  that was listed without having been checked is the first window of `TextsKept`, and the empty
  memory the second; `StepTexts` shows that there is no third. `HomeInv`: each project
  has one folder and one memory (`OneHome`, `OneMemory`), and as long as the folder is not
  `crossed`, only an update with the lock works there (`HomeOf`). As long as no request
  has failed and the memory was not destroyed, `Leads` says which code leads to the memory in the middle of a
  change of code, and `Tidy` that every other memory in the folder is of a repair or was there
  from the start; so the first by name is one of these. And
  once a project was told to be archived, so is the record in the folder and the record that
  any update at work is going to write. Looking for it refuted the first form of
  `OwnMemory` and `ArchivedStays`, which held with two requests and not with three
  (section 2.6).

Every invariant and every action property that a passing run checks, and every mapping of
steps to an abstract specification, is stated by a theorem. Out of the provers' reach, and
only model-checked, are the liveness properties `AcceptedJobEnds`, `EveryRequestAnswered`,
`EveryRequestEnds` and `EveryTurnTold`: they need `ENABLED`. No module uses a `RECURSIVE`
operator.

## 5. Where code and documentation disagree

| Run | Statement | What happens |
|---|---|---|
| `answer_retired` | retired items do not get into runtime retrieval (`docs/OPERATIONAL_CONTEXT_V0.md:174`) | `retire` leaves the ambiguity that names the item, and `retrieve` takes the item of an ambiguity whatever its lifecycle (`gaia/operational_context_retrieval.py:164`): the next turn still puts it to the model as one side of a dispute |
| `jobs_forgotten` | a compilation cancelled before it saves has changed no data (`docs/USER_INTERFACE.md:72`, the message of `gaia/jobs.py:232`) | a job cancelled while it waits in the executor queue is pruned with its event when its retention ends (`gaia/jobs.py:210`); `cancel_event_for` (`gaia/jobs.py:170`) gives its worker a fresh one, and the compilation runs and writes |

Other disagreements met while modelling. The models have these behaviours (where it is
not said otherwise), the properties are stated so that they say what is left, and no run
is spent on them:

*Jobs.*
- A permit is kept for good when the route, the workspace or the first journal write
  raises between the acquisition and the executor (`gaia/jobs.py:74`).
- After a failure or a kill between the registry and the receipt, the status endpoint says
  that the context was not changed (`gaia/context_attempts.py:16`, `:22`).
- An analysis cancelled after the last look at its event is journalled
  (`gaia/orchestrator.py:172`) although the user is told that it was cancelled.

*Operational context.*
- A reject overtakes a confirm between item and mark (`gaia/operational_context_review.py:276`):
  the candidate is rejected and its item in force (`docs/OPERATIONAL_CONTEXT_REVIEW_UX.md:23`).
- A turn that reads the items while A is disputed, and the disputes after a confirmation
  replaced A and cleared the dispute, shows A as valid: at no moment was it so
  (`docs/OPERATIONAL_CONTEXT_V0.md:129`). `DisputedNotShown` says what is true: it is not
  shown when it was disputed all the while.
- A read of the disputes that fails leaves a disputed item eligible.
- The source of an item is the id of a sanitized version: after a reprocessing of the
  material a confirmed decision is gone from hybrid answers.

*Materials.*
- Two confirmations of one version at once submit two analyses (`gaia/server.py:593`); two
  reprocessings at once give two current versions (`gaia/provenance.py:174`); a check or a
  decision in flight takes back a confirmation (`gaia/review.py:155`, `:217`). The action
  properties of `MaterialReview` say by whom this can happen.
- On a new store the first requests empty each other's files: `registry.json`
  (`gaia/provenance.py:37`), `intake_operations.json` (`gaia/controlled_intake.py:31`),
  `review_state.json` (`gaia/review.py:123`). Two uploads can so give the project two
  workspaces, with one content in both, or lose what was registered first; a confirmation
  can be lost. Hence `wiped` in `Intake` and `made` in `MaterialReview`.
- A new version of a file is ready before it is admitted and stays so when its extraction
  or cleaning raises (`gaia/controlled_intake.py:62`, `gaia/provenance.py:89`;
  `docs/STORAGE_MODEL.md:57`).

*Scribe and projects.*
- Two applies at once lose nodes and registry entries that were answered as applied
  (`gaia/scribe.py:155`, `:1256`; `docs/OPTIMIZATION_PLAN.md:122`). Hence `raced`.
- Two applies of one package in one second share a backup folder (`gaia/scribe.py:1234`), and
  the second copies what the first has changed over what was there before: the first cannot be
  undone. Hence `overlaid`.
- An item that the gate blocks, and whose target exists, becomes an existing target and
  can then be written by choice.
- A repetition after an apply that raised finds its nodes existing, so the journal and the
  index never learn of them. A skipped item's node gets into both.
- A file of which items were applied is a duplicate if `skip_duplicate` was chosen once.
- An update that waited for a project renamed meanwhile makes its old folder anew, or
  updates the project that has taken the title. Two renames to one title: the loser fails
  after it has written its metadata. A rename into a folder just created succeeds.
- A repair beside a change of code makes empty files of the old code
  (`gaia/projects.py:562`). If the old code comes first by name, the project is answered from the
  empty memory (`:294`). If the change then fails halfway and is asked for again, or the
  repair falls between the check of the names and the listing of the files (`:182`, `:189`),
  the empty memory is renamed over the real one. Hence `Overtaken`.
- A file that comes between the look of `ensure_text` and its write is written over.

*Dialogues and memory.*
- No retention removes a conversation, whatever `conversations_days` says
  (`docs/SECURITY_STORAGE_POLICY.md:21`); `add_user_turn` does not ask whether it is archived.
- A reply that is blank where JSON was asked for passes as a success of the legacy path;
  an exception of the operational context gives an answer from the sources alone.
- A rebuilt prompt takes its evidence from all sections, also those the user dropped, and
  silently leaves out the kept ones whose line has moved.
- A focused selection need not contain a section that covers the question directly,
  provided one exists that the budget has no room for.
- A vault file that is empty while another editor writes it is read as empty memory.
- A document of which the extraction raises once is cached as empty under its present stamp
  (`gaia/memory.py:665`), and stays out of every answer until it is written again.
- The session of the legacy path has the own message as one of its recent ones
  (`gaia/conversations.py:166`), the prompt has not.

*Context records* (not in a model): an edit of an item leaves its rivals pointing at the
replaced version, so `resolve_conflict` with `keep_both` makes a replaced version current
and confirmed again (`gaia/context_compiler.py:449`; `docs/CONTEXT_COMPILER.md:39`); two
edits at once make two current versions.

## 6. Plan

In this order, the most important first:

1. `ContextRecords`: `decide`, `mark_duplicate`, `resolve_conflict` on the registry, with
   the compilation that adds to it. Each is one write under the lock of the registry, made
   from a relation that may be older; abstract specification: one version of a record is
   in force.
2. `Protection`, under `MaterialReview`: the dictionary and the pseudonym table of a
   workspace, both read, extended and written without a lock, and the versions made
   from them. Abstract specification: what one version masks, its successors mask, and
   a pseudonym stands for one value.
3. `ModelExecutor`: the parent and the child process of a model call, deadline,
   cancellation and exit, refined to the single step `Jobs` makes of it.
4. The update and the archiving of a group in `Projects`, with the references to a code
   inside texts, which race with `Scribe`.
5. The postponed ambiguities of the review, and the proposals of a dialogue.
6. The macOS controller that starts, watches and stops the server.

## 7. Not modelled

Masking and text extraction, configuration, diagnostics, the rendering of
`context_search` and `context_overview`, and the browser interface: computations over
text with no shared state, or pure input and output. The HTTP clients of the model
servers, the transcriber and the model servers themselves appear only through what their
callers do with an answer, an error or a timeout. The macOS host shares no state with the
server but its port and its exit. The parts of modelled components that are left out are
named in their sections above and in `PROJECT.json`.
