------------------------------- MODULE Scribe -------------------------------
(***************************************************************************)
(* The memory of one project as Gaia's Scribe changes it (scribe.py,       *)
(* scribe_inbox.py and their handlers in server.py).  A package is turned  *)
(* into a plan of candidate nodes; the user picks items of the plan she    *)
(* was SHOWN; the apply request computes the plan AGAIN, copies the memory *)
(* aside and writes the chosen nodes one by one, then the three registries *)
(* and the status of the inbox file the package came from.                 *)
(* Nothing of this holds a lock: each look at a file and each write of it  *)
(* is a step, and requests interleave between them.                        *)
(*                                                                         *)
(* A file's text is the set of the marks written into it; a node without   *)
(* marks does not exist.  Titles, bodies and their wording are abstracted  *)
(* to what the Quality Gate tells apart.                                   *)
(***************************************************************************)
EXTENDS Naturals, Sequences, FiniteSets, SequencesExt

CONSTANTS Requests,     \* apply requests, each with the plan shown before it
          Packages,     \* the packages they may carry
          Titles,       \* titles of nodes: a title is one file of the graph
          Before,       \* nodes that are there already
          Sources,      \* files of the project, listed in the inbox
          BasePaths,    \* source paths a summary body may name before it looks like a dump
          MaxLinked,    \* linked nodes of one title
          MaxFailures,  \* requests that raise in the middle
          MaxInbox      \* requests to the inbox

Nodes      == Titles \X (0..MaxLinked)       \* <<t, 0>> is the node of t, <<t, k>> its k-th linked one
Registries == <<"sources", "journal", "index">>
UserChoices == {"update_existing", "skip_duplicate", "create_linked"}
Hidden     == {"ignored", "indexed", "duplicate"}
Statuses   == Hidden \cup {"new", "prepared"}
Waiting    == {"idle", "shown", "drafted"}
Old        == <<"before", "before", "node">>  \* the text of a node that was there before
Idle       == [pc |-> "idle"]

VARIABLES req,       \* what each request has in hand
          node,      \* the graph: the marks in each node
          registry,  \* the entries of the three registries
          inbox,     \* the stored status of each source
          folder,    \* the backup folder of each apply, named after the first one it was made for
          copies,    \* what is in each backup folder
          current,   \* the folders made in this second, one of a package at most
          preparing, \* inbox sources whose package is being made
          failures, inboxOps,
          overlaid,  \* history: applies of which a later one copied over the backup
          raced,     \* history: requests that ran while another one ran
          wrote      \* history: <<request, node>> of each node written

saved == <<folder, copies, current, overlaid>>
disk  == <<node, registry, inbox, saved>>
vars  == <<req, node, registry, inbox, saved, preparing, failures, inboxOps, raced, wrote>>

-----------------------------------------------------------------------------
(* The plan.  A package offers candidates of three origins: the local       *)
(* classifier's (when it answers), the fixed patterns', and one summary per *)
(* group of files of one context.                                           *)

ClassifierItems(p, answered) == IF answered THEN p.model ELSE <<>>
SemanticItems(p) == p.rules

\* A summary body has both of its sections and one line for each source path.
SummaryBody(paths) == [durable |-> TRUE, dump |-> paths > BasePaths]

\* Files of one context share its key and have one summary, titled after the first.
Group(p, k) == {j \in DOMAIN p.files : p.files[j].key = p.files[k].key}

FileItems(p) ==
    [k \in DOMAIN p.files |->
       [id |-> p.files[k].key, cat |-> "source_summary", title |-> p.files[Min(Group(p, k))].title,
        pii |-> FALSE, named |-> TRUE, body |-> SummaryBody(Cardinality(Group(p, k)))]]

\* All that is offered, in order; a candidate of the patterns or of the files is
\* dropped when its id was offered before, and with it all of a group but the first.
Offered(p, answered) == ClassifierItems(p, answered) \o SemanticItems(p) \o FileItems(p)
Candidates(p)        == Range(Offered(p, TRUE))

Kept(p, answered) ==
    LET s == Offered(p, answered)
    IN  {k \in DOMAIN s : \/ k <= Len(ClassifierItems(p, answered))
                          \/ \A j \in 1..(k - 1) : s[j].id # s[k].id}

\* The note about personal data does not clear the selection.
PlanItemKeepsPii(c) == [id |-> c.id, cat |-> c.cat, title |-> c.title,
                        operation |-> IF c.cat = "exclude" THEN "skip" ELSE "create",
                        selected  |-> c.cat # "exclude"]

\* A note that keeps an item from being selected: personal data, or a body like a dump.
Noted(c) == c.pii \/ (c.cat = "source_summary" /\ c.body.dump)

\* plan_item: an excluded candidate and a noted one are not selected.
PlanItem(c) == [id |-> c.id, cat |-> c.cat, title |-> c.title,
                operation |-> IF c.cat = "exclude" THEN "skip" ELSE "create",
                selected  |-> c.cat # "exclude" /\ ~Noted(c)]

Fits(c) == c.named /\ (IF c.cat = "source_summary" THEN ~c.body.dump ELSE c.body.durable)

\* The Quality Gate blocks what does not fit and what an earlier candidate has the
\* target of; one that is blocked takes its target too.
Taken(p, answered, k) ==
    LET s == Offered(p, answered)
    IN  \E j \in Kept(p, answered) : j < k /\ s[j].cat # "exclude" /\ s[j].title = s[k].title

Gated(p, answered, k) ==
    LET c == Offered(p, answered)[k]
    IN  IF c.cat = "exclude" \/ (Fits(c) /\ ~Taken(p, answered, k)) THEN PlanItem(c)
        ELSE [PlanItem(c) EXCEPT !.selected = FALSE, !.operation = "skip"]

MarkExisting(item) ==
    IF item.cat # "exclude" /\ node[<<item.title, 0>>] # {}
    THEN [item EXCEPT !.selected = FALSE, !.operation = "existing_target"]
    ELSE item

Blocked(p) == p.unresolved \/ p.fallback

\* A plan has an item at each place of what is offered and kept.
Plan(p, answered) == IF Blocked(p) THEN <<>>
                     ELSE [k \in Kept(p, answered) |-> MarkExisting(Gated(p, answered, k))]

Ready(plan) == \E k \in DOMAIN plan : plan[k].selected \/ plan[k].operation = "existing_target"

-----------------------------------------------------------------------------
PackageOK(p) ==
    /\ p.origin \in Sources \cup {"dialog"}
    /\ p.model \in Seq(Range(p.model)) /\ p.rules \in Seq(Range(p.rules)) /\ p.files \in Seq(Range(p.files))
    /\ \A c \in Candidates(p) : c.cat = "exclude" \/ c.title \in Titles

ASSUME LimitsAssumption == {BasePaths, MaxLinked, MaxFailures, MaxInbox} \subseteq Nat /\ Before \subseteq Nodes
ASSUME PackagesAssumption == \A p \in Packages : PackageOK(p)

\* The id of a run is the id of its package, and that of an item is made of its
\* category and its text.
ASSUME RunsName == \A p, q \in Packages : p.run # Old[1] /\ (p.run = q.run => p = q)
ASSUME IdsName  == \A p \in Packages : \A c, d \in Candidates(p) : c.id = d.id => c = d

Init == /\ req = [r \in Requests |-> Idle]
        /\ node = [n \in Nodes |-> IF n \in Before THEN {Old} ELSE {}]
        /\ registry = [g \in Range(Registries) |-> {}]
        /\ inbox = [s \in Sources |-> "new"]
        /\ folder = [r \in Requests |-> r] /\ copies = [r \in Requests |-> [n \in Nodes |-> {}]]
        /\ current = {} /\ overlaid = {}
        /\ preparing = {}
        /\ failures = 0 /\ inboxOps = 0
        /\ raced = {} /\ wrote = {}

Set(r, x) == req' = [req EXCEPT ![r] = x]
Running   == {r \in Requests : req[r].pc \in {"backup", "item", "write", "read", "append", "mark"}}
Begun     == {r \in Requests : req[r].pc \notin Waiting \cup {"backup"}}

\* POST /api/scribe-plan: the plan is shown, nothing is written.
Propose(r) ==
    /\ req[r].pc = "idle"
    /\ \E p \in Packages, answered \in BOOLEAN :
         /\ Ready(Plan(p, answered))
         /\ Set(r, [pc |-> "shown", pkg |-> p, plan |-> Plan(p, answered)])
    /\ UNCHANGED <<disk, preparing, failures, inboxOps, raced, wrote>>

\* The items of a plan that an apply with these ids and choices takes.
Selected(plan, ids, choice) ==
    LET places == {k \in DOMAIN plan : plan[k].id \in ids /\ (plan[k].selected \/ plan[k].id \in DOMAIN choice)}
    IN  [k \in places |-> plan[k]]

\* POST /api/scribe-apply: ids and choices come from the plan shown, the items
\* from a plan made now; a choice stays when its item is unticked.  Nothing left to
\* do is refused.
Apply(r) ==
    /\ req[r].pc = "shown"
    /\ LET shown == Range(req[r].plan)
           p     == req[r].pkg
       IN  \E keep \in SUBSET {i.id : i \in {j \in shown : j.selected}},
              over \in SUBSET {i.id : i \in {j \in shown : j.operation = "existing_target"}} :
            \E ticked \in SUBSET over, choice \in [over -> UserChoices], answered \in BOOLEAN :
              LET todo == Selected(Plan(p, answered), keep \cup ticked, choice)
              IN  IF DOMAIN todo = {} THEN Set(r, Idle) /\ UNCHANGED raced
                  ELSE /\ Set(r, [pc |-> "backup", pkg |-> p, choice |-> choice, todo |-> todo,
                                  links |-> {}, applied |-> {}, backup |-> [n \in Nodes |-> {}],
                                  others |-> {}, at |-> <<>>, text |-> {}, book |-> 1])
                       /\ raced' = IF Running = {} THEN raced ELSE raced \cup Running \cup {r}
    /\ UNCHANGED <<disk, preparing, failures, inboxOps, wrote>>

\* The folder of a backup is named by the second alone.
SharedBySecond(r) == current

\* It is named by the second and the package: an apply of the same package finds it
\* there when the clock has not moved on, and copies into it.
Shared(r) == {q \in current : req[q].pkg = req[r].pkg}

There == {n \in Nodes : node[n] # {}}

CopyInto(r, f, files) ==
    /\ copies'  = [copies EXCEPT ![f] = [n \in Nodes |-> IF n \in files THEN node[n] ELSE @[n]]]
    /\ current' = (current \ Shared(r)) \cup {f}
    /\ overlaid' = overlaid \cup {q \in Begun : folder[q] = f /\ req[q].pkg = req[r].pkg}

\* create_memory_backup: the active memory is copied before anything is written.
Backup(r) ==
    /\ req[r].pc = "backup"
    /\ \E f \in {r} \cup Shared(r) : CopyInto(r, f, There) /\ folder' = [folder EXCEPT ![r] = f]
    /\ Set(r, [req[r] EXCEPT !.pc = "item", !.backup = node, !.others = {}])
    /\ UNCHANGED <<node, registry, inbox, preparing, failures, inboxOps, raced, wrote>>

ActionOf(r, item) == IF item.id \in DOMAIN req[r].choice THEN req[r].choice[item.id]
                     ELSE item.operation

Least(D) == {k \in D : \A j \in D : k <= j}

\* The item in hand is at the first of the places left.
First(r)   == Least(DOMAIN req[r].todo)
Rest(r, k) == [j \in DOMAIN req[r].todo \ {k} |-> req[r].todo[j]]

\* unique_memory_path looks for the first name not taken.
FreeLinked(t) == {k \in 1..MaxLinked : node[<<t, k>>] = {}}
\* The node an item goes to, as the file system looks now; none when it is skipped.
Goal(r, item) ==
    LET t == item.title
        act == ActionOf(r, item)
        exists == node[<<t, 0>>] # {}
    IN  IF act \in {"skip", "skip_duplicate"} THEN {}
        ELSE IF ~exists \/ act = "update_existing" THEN {<<t, 0>>}
        ELSE {<<t, k>> : k \in {j \in Least(FreeLinked(t)) : act = "create_linked"}}

\* An update replaces the text instead of appending to it.
LookItemForgets(r) ==
    /\ req[r].pc = "item"
    /\ \E k \in First(r) :
       LET item == req[r].todo[k] IN
       IF Goal(r, item) = {}
       THEN Set(r, [req[r] EXCEPT !.todo = Rest(r, k), !.links = @ \cup {<<item.title, 0>>}])
       ELSE \E n \in Goal(r, item) : Set(r, [req[r] EXCEPT !.pc = "write", !.at = n, !.text = {}])
    /\ UNCHANGED <<disk, preparing, failures, inboxOps, raced, wrote>>

\* The loop over the items: the head is skipped, or its file is looked at ...
LookItem(r) ==
    /\ req[r].pc = "item"
    /\ \E k \in First(r) :
       LET item == req[r].todo[k] IN
       IF Goal(r, item) = {}
       THEN Set(r, [req[r] EXCEPT !.todo = Rest(r, k), !.links = @ \cup {<<item.title, 0>>}])
       ELSE \E n \in Goal(r, item) :
              Set(r, [req[r] EXCEPT !.pc = "write", !.at = n, !.text = node[n]])
    /\ UNCHANGED <<disk, preparing, failures, inboxOps, raced, wrote>>

Mark(r, item, text) ==
    <<req[r].pkg.run, item.id, IF text = {} THEN "node" ELSE "update">>

OthersSee(r, n) == [q \in Requests |-> IF q # r /\ req[q].pc \notin Waiting
                                       THEN [req[q] EXCEPT !.others = @ \cup {n}] ELSE req[q]]

\* ... and then replaced by what was read, with the item's text after it, unless an
\* earlier update of this run left its marker there.
WriteItem(r) ==
    /\ req[r].pc = "write"
    /\ \E k \in First(r) :
       LET n    == req[r].at
           item == req[r].todo[k]
           mark == Mark(r, item, req[r].text)
           held == mark \in req[r].text
       IN  /\ node' = IF held THEN node ELSE [node EXCEPT ![n] = req[r].text \cup {mark}]
           /\ req' = [(IF held THEN req ELSE OthersSee(r, n)) EXCEPT ![r].pc = "item", ![r].todo = Rest(r, k),
                                             ![r].links = @ \cup {n},
                                             ![r].applied = @ \cup {<<n, item.id>>},
                                             ![r].at = <<>>, ![r].text = {}]
           /\ wrote' = IF held THEN wrote ELSE wrote \cup {<<r, n>>}
    /\ UNCHANGED <<registry, inbox, saved, preparing, failures, inboxOps, raced>>

\* After the last item: the registries if anything was applied, then the inbox.
EndItems(r) ==
    /\ req[r].pc = "item" /\ DOMAIN req[r].todo = {}
    /\ Set(r, IF req[r].applied = {} THEN [req[r] EXCEPT !.pc = "mark"]
              ELSE [req[r] EXCEPT !.pc = "read"])
    /\ UNCHANGED <<disk, preparing, failures, inboxOps, raced, wrote>>

\* What the apply enters in a registry: its run, or a link to the node of each of its
\* items, those it skipped included.
Entry(r, g) == IF g = "sources" THEN {req[r].pkg.run}
               ELSE IF g = "journal" THEN {<<req[r].pkg.run, n>> : n \in req[r].links}
               ELSE req[r].links

NextBook(x) == IF x.book = Len(Registries) THEN [x EXCEPT !.pc = "mark"]
                  ELSE [x EXCEPT !.pc = "read", !.book = @ + 1]

\* A registry is written from its header instead of from what it holds.
ReadRegistryHeader(r) ==
    /\ req[r].pc = "read"
    /\ Set(r, [req[r] EXCEPT !.pc = "append", !.text = {}])
    /\ UNCHANGED <<disk, preparing, failures, inboxOps, raced, wrote>>

\* append_once: read, and write back with the entry when its text is not there yet;
\* the text has the date and the order of the links, so it may be missing all the same.
ReadRegistry(r) ==
    /\ req[r].pc = "read"
    /\ LET g == Registries[req[r].book] IN
       \/ Set(r, [req[r] EXCEPT !.pc = "append", !.text = registry[g]])
       \/ Entry(r, g) \subseteq registry[g] /\ Set(r, NextBook([req[r] EXCEPT !.text = {}]))
    /\ UNCHANGED <<disk, preparing, failures, inboxOps, raced, wrote>>

WriteRegistry(r) ==
    /\ req[r].pc = "append"
    /\ LET g == Registries[req[r].book] IN
       /\ registry' = [registry EXCEPT ![g] = req[r].text \cup Entry(r, g)]
       /\ Set(r, NextBook([req[r] EXCEPT !.text = {}]))
    /\ UNCHANGED <<node, inbox, saved, preparing, failures, inboxOps, raced, wrote>>

\* mark_item: the status is read, changed and written under the lock of the inbox.
SetStatus(s, status) == inbox' = [inbox EXCEPT ![s] = status]

\* The inbox file is hidden whether or not anything was written.
MarkOriginAlways(r) ==
    /\ req[r].pc = "mark"
    /\ IF req[r].pkg.origin \in Sources THEN SetStatus(req[r].pkg.origin, "indexed") ELSE UNCHANGED inbox
    /\ Set(r, [req[r] EXCEPT !.pc = "done"])
    /\ UNCHANGED <<node, registry, saved, preparing, failures, inboxOps, raced, wrote>>

\* handle_scribe_apply: the inbox file is a duplicate if any choice says so, else indexed.
MarkOrigin(r) ==
    /\ req[r].pc = "mark"
    /\ LET s == req[r].pkg.origin IN
       IF s \notin Sources THEN UNCHANGED inbox
       ELSE IF "skip_duplicate" \in Range(req[r].choice) THEN SetStatus(s, "duplicate")
       ELSE IF req[r].applied # {} THEN SetStatus(s, "indexed")
       ELSE UNCHANGED inbox
    /\ Set(r, [req[r] EXCEPT !.pc = "done"])
    /\ UNCHANGED <<node, registry, saved, preparing, failures, inboxOps, raced, wrote>>

\* Any step of an apply may raise: what is written stays, nothing is put back, and a
\* backup that was begun in the folder of another one has copied some of the files.
Raise(r) ==
    /\ r \in Running /\ failures < MaxFailures
    /\ failures' = failures + 1
    /\ Set(r, IF req[r].pc = "backup" THEN Idle ELSE [req[r] EXCEPT !.pc = "failed"])
    /\ \/ UNCHANGED saved
       \/ /\ req[r].pc = "backup" /\ UNCHANGED folder
          /\ \E f \in Shared(r), files \in SUBSET There \ {{}} : CopyInto(r, f, files)
    /\ UNCHANGED <<node, registry, inbox, preparing, inboxOps, raced, wrote>>

\* The inbox: a package is made and then the source is marked; a source is ignored.
StartPackage(s) ==
    /\ inboxOps < MaxInbox /\ s \notin preparing
    /\ preparing' = preparing \cup {s} /\ inboxOps' = inboxOps + 1
    /\ UNCHANGED <<req, disk, failures, raced, wrote>>

MarkPrepared(s) ==
    /\ s \in preparing
    /\ preparing' = preparing \ {s}
    /\ SetStatus(s, "prepared")
    /\ UNCHANGED <<req, node, registry, saved, failures, inboxOps, raced, wrote>>

Ignore(s) ==
    /\ inboxOps < MaxInbox /\ inboxOps' = inboxOps + 1
    /\ SetStatus(s, "ignored")
    /\ UNCHANGED <<req, node, registry, saved, preparing, failures, raced, wrote>>

\* POST /api/scribe-draft: an export; the memory is not touched.
Draft(r) ==
    /\ req[r].pc = "idle"
    /\ \E p \in Packages : ~p.unresolved /\ Set(r, [pc |-> "drafted", pkg |-> p])
    /\ UNCHANGED <<disk, preparing, failures, inboxOps, raced, wrote>>

\* The memory names a source when a node tells of its provenance.
Named(s) == \E p \in Packages, n \in Nodes : \E f \in Range(p.files) :
              p.origin = s /\ \E m \in node[n] : m[1] = p.run /\ m[2] = f.key

\* What GET /api/scribe-inbox shows: neither hidden by its status nor named by the memory.
Listed == {s \in Sources : inbox[s] \notin Hidden /\ ~Named(s)}

Next == \/ \E r \in Requests : \/ Draft(r) \/ Propose(r) \/ Apply(r) \/ Backup(r) \/ LookItem(r) \/ WriteItem(r)
                               \/ EndItems(r) \/ ReadRegistry(r) \/ WriteRegistry(r)
                               \/ MarkOrigin(r) \/ Raise(r)
        \/ \E s \in Sources : StartPackage(s) \/ MarkPrepared(s) \/ Ignore(s)

Spec == Init /\ [][Next]_vars
-----------------------------------------------------------------------------
(* Properties. *)

\* The stores have the shape the code gives them, and nothing but what a
\* request was given is in hand while it runs.
TypeOK ==
    /\ \A n \in Nodes : \A m \in node[n] : m[3] \in {"node", "update"}
    /\ DOMAIN registry = Range(Registries)
    /\ inbox \in [Sources -> Statuses]
    /\ preparing \subseteq Sources /\ inboxOps \in 0..MaxInbox /\ failures \in 0..MaxFailures
    /\ \A r \in Requests \ {q \in Requests : req[q].pc \in Waiting} :
         /\ req[r].pkg \in Packages /\ req[r].book \in DOMAIN Registries
         /\ {a[1] : a \in req[r].applied} \subseteq req[r].links /\ req[r].links \subseteq Nodes
         /\ req[r].pc = "write" => req[r].at \in Nodes

\* The Quality Gate holds at the moment of writing, whatever was shown before:
\* of the items an apply takes without a choice made for them, each is free of
\* personal data and fits, no two go to one node, and nothing is taken from a
\* package with an unresolved risk or one kept for local processing.
GateHolds ==
    \A r \in Running :
      LET free == {k \in DOMAIN req[r].todo : req[r].todo[k].id \notin DOMAIN req[r].choice}
      IN  /\ ~Blocked(req[r].pkg)
          /\ \A k \in free : \A c \in Candidates(req[r].pkg) :
               c.id = req[r].todo[k].id => ~c.pii /\ Fits(c)
          /\ \A j, k \in free : j # k => req[r].todo[j].title # req[r].todo[k].title

\* A node that was there when an apply copied the memory is written by it only
\* where the user chose to update that node: a plan shown before the node
\* appeared, an item of the same title or another request never make it do so.
OnlyUpdatedByChoice ==
    \A r \in Begun : \A n \in Nodes :
      (<<r, n>> \in wrote /\ req[r].backup[n] # {}) =>
        \E c \in Candidates(req[r].pkg) :
          c.title = n[1] /\ c.id \in DOMAIN req[r].choice /\ req[r].choice[c.id] = "update_existing"

\* Nothing is written unasked, of what a plan has or of what was there before.
NothingUnasked == TypeOK /\ GateHolds /\ OnlyUpdatedByChoice

\* What an apply leaves behind when it ends, raises or is still running can be undone:
\* on every node no other request wrote since, its backup folder holds what was there
\* before it, and what the node has beyond that this package brought.  The exception is
\* an apply of the same package whose backup fell into the same second: it copied the
\* nodes over, so the folder may hold some of what was brought, and never less.
BackupRestores ==
    \A r \in Begun : \A n \in Nodes \ req[r].others :
      LET before == req[r].backup[n]
          kept   == copies[folder[r]][n]
      IN  /\ before \subseteq kept /\ kept \subseteq node[n]
          /\ \A m \in node[n] \ before : m[1] = req[r].pkg.run
          /\ kept = before \/ r \in overlaid

Recorded(r) ==
    LET run == req[r].pkg.run
    IN  /\ run \in registry["sources"]
        /\ \A a \in req[r].applied : /\ \E m \in node[a[1]] : m[1] = run /\ m[2] = a[2]
                                     /\ <<run, a[1]>> \in registry["journal"]
                                     /\ a[1] \in registry["index"]

Applied == {r \in Requests : req[r].pc = "done" /\ req[r].applied # {}}

\* What an apply answered as written is in its nodes, the journal, the index and
\* the register of sources from then on, if no other apply ran while it did;
\* later ones, even those that race each other or raise, take nothing of it away.
AppliedStays == \A r \in Applied \ raced : Recorded(r)

\* The inbox tells what the memory holds: a file is hidden as indexed only after a
\* node was written from a package of it, as a duplicate only after the user called
\* it one, and a file whose summary an apply wrote (no other running) is not offered
\* again, even when a late package request marks it as prepared.
InboxTellsMemory ==
    \A s \in Sources :
      /\ inbox[s] = "indexed" => \E r \in Begun, n \in Nodes : req[r].pkg.origin = s /\ <<r, n>> \in wrote
      /\ inbox[s] = "duplicate" =>
           \E r \in Begun : req[r].pkg.origin = s /\ "skip_duplicate" \in Range(req[r].choice)
      /\ \A r \in Applied \ raced :
           req[r].pkg.origin = s /\ (\E f \in Range(req[r].pkg.files), n \in Nodes : <<n, f.key>> \in req[r].applied)
             => s \notin Listed

=============================================================================
