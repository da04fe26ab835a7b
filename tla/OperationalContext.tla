------------------------- MODULE OperationalContext -------------------------
(***************************************************************************)
(* The operational context of one project: its items                       *)
(* (src/gaia/operational_context.py), the review queue of proposed values  *)
(* (operational_context_review.py) and the bridge through which a context  *)
(* compilation proposes them (operational_context_bridge.py).              *)
(*                                                                         *)
(* Items and candidates live in two files under two locks.  A review       *)
(* request (the HTTP server gives each its own thread) reads and writes    *)
(* them one after the other, so requests interleave with each other and    *)
(* with the one compilation that holds the bridge lock.                    *)
(***************************************************************************)
EXTENDS Integers, FiniteSets

CONSTANTS
    Candidates,   \* candidate ids: an extraction of a material, see SlotOf
    Items,        \* item ids; their number bounds how often anyone confirms
    Slots,        \* pairs (kind, subject_ref)
    Meanings,     \* values up to _normalise_subject
    SlotOf,       \* the slot a candidate speaks about
    Meaning,      \* the value it proposes
    Requests,     \* review requests that run at the same time
    MaxBatches,   \* bound on the compilations that reach the bridge
    NoItem,
    NoCandidate

ASSUME ContextAssumption ==
    /\ SlotOf \in [Candidates -> Slots]
    /\ Meaning \in [Candidates -> Meanings]
    /\ MaxBatches \in Nat
    /\ NoItem \notin Items
    /\ NoCandidate \notin Candidates

VARIABLES
    \* the partition file of the project
    lifecycle,    \* "none" for an id not used yet
    origin,       \* the candidate an item was made from
    supersedes,   \* supersedes_id
    ambiguity,    \* the disputed item and the candidate that disputes it
    \* candidates.json
    state,        \* "absent" for a candidate that is not in the queue
    replaces,     \* replaces_id
    \* memory of the requests
    at,           \* where the request is
    cand,         \* the candidate it is about
    target,       \* the item it means to replace or to dispute
    batch,        \* memory of the compilation
    batches       \* how many there were

items    == <<lifecycle, origin, supersedes>>
queue    == <<state, replaces>>
requests == <<at, cand, target>>
bridge   == <<batch, batches>>
vars     == <<lifecycle, origin, supersedes, ambiguity, state, replaces,
              at, cand, target, batch, batches>>

-----------------------------------------------------------------------------
Undecided   == {"pending", "unresolved"}
States      == {"absent", "confirmed", "rejected"} \cup Undecided
Lifecycles  == {"none", "active", "superseded", "retired"}
Steps       == {"idle", "finding", "writing", "marking", "rejecting", "clearing",
                "seeking", "disputing", "parking", "refused"}
Undisputed  == [item |-> NoItem, candidate |-> NoCandidate]
Proposals   == [cand : Candidates, replaces : Items \cup {NoItem}]
NoBatch     == [at |-> "idle", todo |-> {}, cand |-> NoCandidate, seen |-> {},
                built |-> {}]

Used == {i \in Items : lifecycle[i] # "none"}

\* list_scope, reduced to the active items of a slot.
Active(s) == {i \in Used : lifecycle[i] = "active" /\ SlotOf[origin[i]] = s}

\* _active_same_identity: the active item of the slot when there is one only.
TheActive(s) ==
    IF \E i \in Items : Active(s) = {i} THEN CHOOSE i \in Items : Active(s) = {i}
                                        ELSE NoItem

Goto(r, step) == at' = [at EXCEPT ![r] = step]

\* The request is answered and its memory is gone.
Done(r) ==
    /\ Goto(r, "idle")
    /\ cand' = [cand EXCEPT ![r] = NoCandidate]
    /\ target' = [target EXCEPT ![r] = NoItem]

\* Read the candidate and go on with the item it says it replaces; a request
\* for a candidate that is not there changes nothing and is left out.
Take(r, c, step) ==
    /\ at[r] = "idle"
    /\ state[c] # "absent"
    /\ cand' = [cand EXCEPT ![r] = c]
    /\ target' = [target EXCEPT ![r] = replaces[c]]
    /\ Goto(r, step)
    /\ UNCHANGED <<items, ambiguity, queue, bridge>>

\* Look for the item to replace when the candidate names none.
Find(r, from, to) ==
    /\ at[r] = from
    /\ target' = [target EXCEPT ![r] = TheActive(SlotOf[cand[r]])]
    /\ Goto(r, to)
    /\ UNCHANGED <<items, ambiguity, queue, cand, bridge>>

\* set_state: refused when somebody has decided the candidate meanwhile.
StillOpenUnchecked(c) == TRUE
StillOpen(c) == state[c] \in Undecided

SetState(r, s) ==
    /\ StillOpen(cand[r])
    /\ state' = [state EXCEPT ![cand[r]] = s]
    /\ UNCHANGED <<items, ambiguity, replaces, bridge>>

RefuseState(r) ==
    /\ at[r] \in {"marking", "rejecting", "parking"}
    /\ ~StillOpen(cand[r])
    /\ Goto(r, "refused")
    /\ UNCHANGED <<items, ambiguity, queue, cand, target, bridge>>

-----------------------------------------------------------------------------
(* confirm *)

ReadForConfirm(r, c) ==
    /\ state[c] \in Undecided
    /\ Take(r, c, IF replaces[c] = NoItem THEN "finding" ELSE "writing")

FindForConfirm(r) == Find(r, "finding", "writing")

\* What _write_new asks of the partition, under its lock: create needs a slot
\* without an active item, replace an active target of the same slot.
MayWrite(r) ==
    IF target[r] = NoItem THEN Active(SlotOf[cand[r]]) = {}
                          ELSE target[r] \in Active(SlotOf[cand[r]])

\* An id that the partition does not know.
Fresh == Items \ Used

\* create or replace, one write of the partition.
WriteItem(r) ==
    /\ at[r] = "writing"
    /\ MayWrite(r)
    /\ \E i \in Fresh :
         /\ lifecycle' = [j \in Items |-> IF j = i THEN "active"
                                          ELSE IF j = target[r] THEN "superseded"
                                          ELSE lifecycle[j]]
         /\ origin' = [origin EXCEPT ![i] = cand[r]]
         /\ supersedes' = [supersedes EXCEPT ![i] = target[r]]
    /\ Goto(r, "marking")
    /\ UNCHANGED <<ambiguity, queue, cand, target, bridge>>

RefuseWriteButGoOn(r) ==
    /\ at[r] = "writing"
    /\ ~MayWrite(r)
    /\ Goto(r, "marking")
    /\ UNCHANGED <<items, ambiguity, queue, cand, target, bridge>>

RefuseWrite(r) ==
    /\ at[r] = "writing"
    /\ ~MayWrite(r)
    /\ Goto(r, "refused")
    /\ UNCHANGED <<items, ambiguity, queue, cand, target, bridge>>

MarkConfirmed(r) ==
    /\ at[r] = "marking"
    /\ SetState(r, "confirmed")
    /\ Goto(r, "clearing")
    /\ UNCHANGED <<cand, target>>

\* clear_authority_ambiguity, for the whole slot.
Clear(r) ==
    /\ at[r] = "clearing"
    /\ ambiguity' = [ambiguity EXCEPT ![SlotOf[cand[r]]] = Undisputed]
    /\ Done(r)
    /\ UNCHANGED <<items, queue, bridge>>

-----------------------------------------------------------------------------
(* reject *)

ReadForReject(r, c) == Take(r, c, "rejecting")

MarkRejected(r) ==
    /\ at[r] = "rejecting"
    /\ SetState(r, "rejected")
    /\ Goto(r, "clearing")
    /\ UNCHANGED <<cand, target>>

-----------------------------------------------------------------------------
(* leave_unresolved *)

ReadForLeave(r, c) ==
    /\ state[c] = "pending"
    /\ Take(r, c, IF replaces[c] = NoItem THEN "seeking" ELSE "disputing")

FindForLeave(r) == Find(r, "seeking", "disputing")

\* set_authority_ambiguity needs an active item of the slot and overwrites
\* what the slot had.
SetAmbiguity(r) ==
    LET s == SlotOf[cand[r]] IN
    /\ at[r] = "disputing"
    /\ \/ /\ target[r] \in Active(s)
          /\ ambiguity' = [ambiguity EXCEPT ![s] =
                             [item |-> target[r], candidate |-> cand[r]]]
          /\ Goto(r, "parking")
       \/ /\ target[r] \notin Active(s)
          /\ Goto(r, "refused")
          /\ UNCHANGED ambiguity
    /\ UNCHANGED <<items, queue, cand, target, bridge>>

MarkUnresolved(r) ==
    /\ at[r] = "parking"
    /\ SetState(r, "unresolved")
    /\ Done(r)

-----------------------------------------------------------------------------
\* The handler answers a refusal with an error; the user may ask again.
AnswerRefusal(r) ==
    /\ at[r] = "refused"
    /\ Done(r)
    /\ UNCHANGED <<items, ambiguity, queue, bridge>>

RetireForgets(i) ==
    /\ lifecycle[i] = "active"
    /\ lifecycle' = [lifecycle EXCEPT ![i] = "none"]
    /\ UNCHANGED <<origin, supersedes, ambiguity, queue, requests, bridge>>

\* retire, from the current context or as an alternative of an ambiguity: one
\* locked step, which leaves the ambiguity of the slot as it is.
Retire(i) ==
    /\ lifecycle[i] = "active"
    /\ lifecycle' = [lifecycle EXCEPT ![i] = "retired"]
    /\ UNCHANGED <<origin, supersedes, ambiguity, queue, requests, bridge>>

-----------------------------------------------------------------------------
(* The bridge: _persist_all under bridge_transaction builds one proposal    *)
(* after the other and adds those that are left at the end.                 *)

BeginBatch(C) ==
    /\ batch.at = "idle"
    /\ batches < MaxBatches
    /\ batches' = batches + 1
    /\ batch' = [NoBatch EXCEPT !.at = "building", !.todo = C]
    /\ UNCHANGED <<items, ambiguity, queue, requests>>

ReadCurrent(c) ==
    /\ batch.at = "building"
    /\ c \in batch.todo
    /\ batch' = [batch EXCEPT !.at = "comparing", !.cand = c,
                              !.seen = Active(SlotOf[c])]
    /\ UNCHANGED <<items, ambiguity, queue, requests, batches>>

Equal(c, d) == SlotOf[c] = SlotOf[d] /\ Meaning[c] = Meaning[d]

\* An equal pending candidate or an equal current value makes the extraction
\* a no-op; two active items in the slot send it to the legacy records.
Superfluous(c) ==
    \/ \E d \in Candidates : state[d] = "pending" /\ Equal(c, d)
    \/ \E i \in batch.seen : Equal(c, origin[i])
    \/ Cardinality(batch.seen) > 1

ReadPending ==
    LET c == batch.cand
        old == IF batch.seen = {} THEN NoItem ELSE CHOOSE i \in batch.seen : TRUE
    IN  /\ batch.at = "comparing"
        /\ batch' = [NoBatch EXCEPT
                       !.at = "building",
                       !.todo = batch.todo \ {c},
                       !.built = IF Superfluous(c) THEN batch.built
                                 ELSE batch.built \cup {[cand |-> c, replaces |-> old]}]
        /\ UNCHANGED <<items, ambiguity, queue, requests, batches>>

\* add_many_if_absent: a candidate that is in the queue stays as it is, even
\* when it was decided.
MayAddAnything(p) == TRUE
MayAdd(p) == state[p.cand] = "absent"

PersistBatch ==
    LET new == {p \in batch.built : MayAdd(p)} IN
    /\ batch.at = "building"
    /\ batch.todo = {}
    /\ state' = [c \in Candidates |->
                   IF \E p \in new : p.cand = c THEN "pending" ELSE state[c]]
    /\ replaces' = [c \in Candidates |->
                      IF \E p \in new : p.cand = c
                      THEN (CHOOSE p \in new : p.cand = c).replaces
                      ELSE replaces[c]]
    /\ batch' = NoBatch
    /\ UNCHANGED <<items, ambiguity, requests, batches>>

\* The compilation is cancelled or fails before it adds its proposals.
DropBatch ==
    /\ batch.at # "idle"
    /\ batch' = NoBatch
    /\ UNCHANGED <<items, ambiguity, queue, requests, batches>>

\* The process is killed: what is in the two files stays.
Crash ==
    /\ at' = [r \in Requests |-> "idle"]
    /\ cand' = [r \in Requests |-> NoCandidate]
    /\ target' = [r \in Requests |-> NoItem]
    /\ batch' = NoBatch
    /\ UNCHANGED <<items, ambiguity, queue, batches>>

-----------------------------------------------------------------------------
Init ==
    /\ lifecycle = [i \in Items |-> "none"]
    /\ origin = [i \in Items |-> NoCandidate]
    /\ supersedes = [i \in Items |-> NoItem]
    /\ ambiguity = [s \in Slots |-> Undisputed]
    /\ state = [c \in Candidates |-> "absent"]
    /\ replaces = [c \in Candidates |-> NoItem]
    /\ at = [r \in Requests |-> "idle"]
    /\ cand = [r \in Requests |-> NoCandidate]
    /\ target = [r \in Requests |-> NoItem]
    /\ batch = NoBatch
    /\ batches = 0

Review(r) ==
    \/ \E c \in Candidates :
         ReadForConfirm(r, c) \/ ReadForReject(r, c) \/ ReadForLeave(r, c)
    \/ FindForConfirm(r) \/ WriteItem(r) \/ RefuseWrite(r) \/ MarkConfirmed(r)
    \/ Clear(r) \/ MarkRejected(r)
    \/ FindForLeave(r) \/ SetAmbiguity(r) \/ MarkUnresolved(r)
    \/ RefuseState(r) \/ AnswerRefusal(r)

Bridge ==
    \/ \E C \in SUBSET Candidates \ {{}} : BeginBatch(C)
    \/ \E c \in Candidates : ReadCurrent(c)
    \/ ReadPending \/ PersistBatch \/ DropBatch

Next ==
    \/ \E r \in Requests : Review(r)
    \/ \E i \in Items : Retire(i)
    \/ Bridge
    \/ Crash

Spec == Init /\ [][Next]_vars

-----------------------------------------------------------------------------
(* Properties. *)

TypeOK ==
    /\ lifecycle \in [Items -> Lifecycles]
    /\ origin \in [Items -> Candidates \cup {NoCandidate}]
    /\ supersedes \in [Items -> Items \cup {NoItem}]
    /\ ambiguity \in [Slots -> [item : Items \cup {NoItem},
                                candidate : Candidates \cup {NoCandidate}]]
    /\ state \in [Candidates -> States]
    /\ replaces \in [Candidates -> Items \cup {NoItem}]
    /\ at \in [Requests -> Steps]
    /\ cand \in [Requests -> Candidates \cup {NoCandidate}]
    /\ target \in [Requests -> Items \cup {NoItem}]
    /\ batch \in [at : {"idle", "building", "comparing"}, todo : SUBSET Candidates,
                  cand : Candidates \cup {NoCandidate}, seen : SUBSET Items,
                  built : SUBSET Proposals]
    /\ batches \in 0..MaxBatches

\* However many requests confirm at once, on targets they read before, a slot
\* never has two active items (operational_context.py:318-324).
OneActive ==
    \A i, j \in Used :
        /\ lifecycle[i] = "active" /\ lifecycle[j] = "active"
        /\ SlotOf[origin[i]] = SlotOf[origin[j]]
        => i = j

\* A superseded item has exactly one successor, of its own slot, and nothing
\* else has a successor: the history of a slot is a line, never a fork.
Lineage ==
    /\ \A i \in Items : lifecycle[i] = "superseded" => \E j \in Used : supersedes[j] = i
    /\ \A j \in Used : supersedes[j] # NoItem =>
         /\ lifecycle[supersedes[j]] = "superseded"
         /\ SlotOf[origin[supersedes[j]]] = SlotOf[origin[j]]
    /\ \A j, k \in Used : supersedes[j] = supersedes[k] /\ supersedes[j] # NoItem => j = k

\* A candidate is recorded as confirmed only after its item is on disk: a
\* kill, a refusal or a second request between the two never loses the item.
ConfirmedHasItem ==
    \A c \in Candidates : state[c] = "confirmed" => \E i \in Used : origin[i] = c

\* A decision is final: neither a slower request on the same candidate nor a
\* later extraction of the same fragment reopens or reverses it.
DecidedStays ==
    [][\A c \in Candidates : state[c] \in {"confirmed", "rejected"}
                                => state'[c] = state[c]]_vars

\* The promise of Authority, kept by the two files and all the interleavings.
Authoritative == INSTANCE Authority WITH
    force <- [s \in Slots |-> Active(s)],
    past <- [s \in Slots |-> {i \in Used : /\ lifecycle[i] # "active"
                                           /\ SlotOf[origin[i]] = s}]
KeepsAuthority == Authoritative!Spec
=============================================================================
