---------------------------- MODULE AnswersProofs ----------------------------
(***************************************************************************)
(* Proofs about OperationalContext, for any candidates, items, slots,      *)
(* requests and number of compilations, and about Answers, which runs      *)
(* beside it, for any versions and turns as well: whatever the review, the *)
(* bridge, a reprocessing or a kill does between the reads of a turn.      *)
(***************************************************************************)
EXTENDS Answers, FiniteSetTheorems, TLAPS

(***************************************************************************)
(* The store and its review (OperationalContext).                          *)
(***************************************************************************)

USE ContextAssumption

-----------------------------------------------------------------------------
(* Type correctness.  It needs to know that a request that is under way and *)
(* a proposal that is being built are about a candidate, and that an item   *)
(* in use was made from one.                                                *)

Busy == \A r \in Requests : at[r] \notin {"idle", "refused"} => cand[r] \in Candidates
Comparing == batch.at = "comparing" => batch.cand \in Candidates
Rooted == \A i \in Items : lifecycle[i] # "none" => origin[i] \in Candidates

TypeInv == TypeOK /\ Busy /\ Comparing /\ Rooted

ItemsType ==
    /\ lifecycle \in [Items -> Lifecycles]
    /\ origin \in [Items -> Candidates \cup {NoCandidate}]
    /\ supersedes \in [Items -> Items \cup {NoItem}]
    /\ Rooted

AmbiguityType ==
    ambiguity \in [Slots -> [item : Items \cup {NoItem},
                             candidate : Candidates \cup {NoCandidate}]]

QueueType ==
    /\ state \in [Candidates -> States]
    /\ replaces \in [Candidates -> Items \cup {NoItem}]

RequestsType ==
    /\ at \in [Requests -> Steps]
    /\ cand \in [Requests -> Candidates \cup {NoCandidate}]
    /\ target \in [Requests -> Items \cup {NoItem}]
    /\ Busy

BridgeType ==
    /\ batch \in [at : {"idle", "building", "comparing"}, todo : SUBSET Candidates,
                  cand : Candidates \cup {NoCandidate}, seen : SUBSET Items,
                  built : SUBSET Proposals]
    /\ batches \in 0..MaxBatches
    /\ Comparing

LEMMA TypeParts ==
    TypeInv <=> ItemsType /\ AmbiguityType /\ QueueType /\ RequestsType /\ BridgeType
  BY DEF TypeInv, TypeOK, ItemsType, AmbiguityType, QueueType, RequestsType, BridgeType

LEMMA TypePartsPrime ==
    TypeInv' <=> ItemsType' /\ AmbiguityType' /\ QueueType' /\ RequestsType' /\ BridgeType'
  BY DEF TypeInv, TypeOK, ItemsType, AmbiguityType, QueueType, RequestsType, BridgeType

LEMMA Frames ==
    /\ ItemsType /\ UNCHANGED items => ItemsType'
    /\ AmbiguityType /\ UNCHANGED ambiguity => AmbiguityType'
    /\ QueueType /\ UNCHANGED queue => QueueType'
    /\ RequestsType /\ UNCHANGED requests => RequestsType'
    /\ BridgeType /\ UNCHANGED bridge => BridgeType'
<1>1. ItemsType /\ UNCHANGED items => ItemsType'
  BY DEF ItemsType, items, Rooted
<1>2. AmbiguityType /\ UNCHANGED ambiguity => AmbiguityType'
  BY DEF AmbiguityType
<1>3. QueueType /\ UNCHANGED queue => QueueType'
  BY DEF QueueType, queue
<1>4. RequestsType /\ UNCHANGED requests => RequestsType'
  BY DEF RequestsType, requests, Busy
<1>5. BridgeType /\ UNCHANGED bridge => BridgeType'
  BY DEF BridgeType, bridge, Comparing
<1> QED
  BY <1>1, <1>2, <1>3, <1>4, <1>5

LEMMA TheActiveType ==
    ASSUME NEW s \in Slots
    PROVE  TheActive(s) \in Items \cup {NoItem}
  BY DEF TheActive

\* A request ends, or moves on with the candidate and the target it has.
LEMMA DoneType ==
    ASSUME RequestsType, NEW r \in Requests, Done(r)
    PROVE  RequestsType'
  BY DEF RequestsType, Busy, Done, Goto, Steps

LEMMA MoveType ==
    ASSUME RequestsType, NEW r \in Requests, NEW step \in Steps,
           at[r] \notin {"idle", "refused"}, Goto(r, step), UNCHANGED <<cand, target>>
    PROVE  RequestsType'
  BY DEF RequestsType, Busy, Goto

LEMMA TakeType ==
    ASSUME RequestsType, QueueType, NEW r \in Requests, NEW c \in Candidates,
           NEW step \in Steps, Take(r, c, step)
    PROVE  RequestsType'
  BY DEF RequestsType, QueueType, Busy, Take, Goto

LEMMA FindType ==
    ASSUME RequestsType, NEW r \in Requests, NEW from \in Steps \ {"idle", "refused"},
           NEW to \in Steps, Find(r, from, to)
    PROVE  RequestsType'
<1>1. cand[r] \in Candidates
  BY DEF RequestsType, Busy, Find
<1>2. TheActive(SlotOf[cand[r]]) \in Items \cup {NoItem}
  BY <1>1, TheActiveType
<1> QED
  BY <1>1, <1>2 DEF RequestsType, Busy, Find, Goto

LEMMA SetStateType ==
    ASSUME QueueType, NEW r \in Requests, NEW s \in States, SetState(r, s)
    PROVE  QueueType'
  BY DEF QueueType, SetState

\* What a write of a new item does, seen from the partition: i is new, and
\* the target, if there is one, is an active item of the slot.
Written(i, c, old) ==
    /\ lifecycle[i] = "none"
    /\ lifecycle' = [j \in Items |-> IF j = i THEN "active"
                                     ELSE IF j = old THEN "superseded"
                                     ELSE lifecycle[j]]
    /\ origin' = [origin EXCEPT ![i] = c]
    /\ supersedes' = [supersedes EXCEPT ![i] = old]
    /\ old = NoItem => \A j \in Items :
                         ~(lifecycle[j] = "active" /\ SlotOf[origin[j]] = SlotOf[c])
    /\ old # NoItem => /\ old \in Items
                       /\ lifecycle[old] = "active"
                       /\ SlotOf[origin[old]] = SlotOf[c]

LEMMA WriteItemWrites ==
    ASSUME RequestsType, NEW r \in Requests, WriteItem(r)
    PROVE  /\ cand[r] \in Candidates
           /\ target[r] \in Items \cup {NoItem}
           /\ \E i \in Items : Written(i, cand[r], target[r])
<1>1. cand[r] \in Candidates /\ target[r] \in Items \cup {NoItem}
  BY DEF RequestsType, Busy, WriteItem
<1>2. PICK i \in Fresh :
         /\ lifecycle' = [j \in Items |-> IF j = i THEN "active"
                                          ELSE IF j = target[r] THEN "superseded"
                                          ELSE lifecycle[j]]
         /\ origin' = [origin EXCEPT ![i] = cand[r]]
         /\ supersedes' = [supersedes EXCEPT ![i] = target[r]]
  BY DEF WriteItem
<1>3. i \in Items /\ lifecycle[i] = "none"
  BY DEF Fresh, Used
<1>4. target[r] = NoItem => \A j \in Items :
         ~(lifecycle[j] = "active" /\ SlotOf[origin[j]] = SlotOf[cand[r]])
  BY DEF WriteItem, MayWrite, Active, Used
<1>5. target[r] # NoItem => /\ target[r] \in Items
                           /\ lifecycle[target[r]] = "active"
                           /\ SlotOf[origin[target[r]]] = SlotOf[cand[r]]
  BY DEF WriteItem, MayWrite, Active, Used
<1> QED
  BY <1>1, <1>2, <1>3, <1>4, <1>5 DEF Written

LEMMA WrittenType ==
    ASSUME ItemsType, NEW i \in Items, NEW c \in Candidates,
           NEW old \in Items \cup {NoItem}, Written(i, c, old)
    PROVE  ItemsType'
  BY DEF ItemsType, Rooted, Written, Lifecycles

LEMMA ReviewType ==
    ASSUME TypeInv, NEW r \in Requests, Review(r)
    PROVE  TypeInv'
<1> USE TypeParts, TypePartsPrime, Frames
<1>1. ASSUME NEW c \in Candidates,
             ReadForConfirm(r, c) \/ ReadForReject(r, c) \/ ReadForLeave(r, c)
      PROVE  TypeInv'
  <2>1. PICK step \in Steps : Take(r, c, step)
    BY <1>1 DEF ReadForConfirm, ReadForReject, ReadForLeave, Steps
  <2> QED
    BY <2>1, TakeType DEF Take
<1>2. CASE FindForConfirm(r)
  <2>1. Find(r, "finding", "writing")
    BY <1>2 DEF FindForConfirm
  <2> QED
    BY <2>1, FindType DEF Find, Steps
<1>3. CASE WriteItem(r)
  <2>1. ItemsType'
    BY <1>3, WriteItemWrites, WrittenType
  <2>2. RequestsType'
    BY <1>3, MoveType DEF WriteItem, Steps
  <2> QED
    BY <1>3, <2>1, <2>2 DEF WriteItem
<1>4. CASE RefuseWrite(r)
  BY <1>4, MoveType DEF RefuseWrite, Steps
<1>5. CASE MarkConfirmed(r)
  <2>1. QueueType'
    BY <1>5, SetStateType DEF MarkConfirmed, States
  <2>2. RequestsType'
    BY <1>5, MoveType DEF MarkConfirmed, Steps
  <2> QED
    BY <1>5, <2>1, <2>2 DEF MarkConfirmed, SetState
<1>6. CASE Clear(r)
  <2>1. cand[r] \in Candidates
    BY <1>6 DEF Clear, RequestsType, Busy
  <2>2. AmbiguityType'
    BY <1>6, <2>1 DEF Clear, AmbiguityType, Undisputed
  <2>3. RequestsType'
    BY <1>6, DoneType DEF Clear
  <2> QED
    BY <1>6, <2>2, <2>3 DEF Clear
<1>7. CASE MarkRejected(r)
  <2>1. QueueType'
    BY <1>7, SetStateType DEF MarkRejected, States
  <2>2. RequestsType'
    BY <1>7, MoveType DEF MarkRejected, Steps
  <2> QED
    BY <1>7, <2>1, <2>2 DEF MarkRejected, SetState
<1>8. CASE FindForLeave(r)
  <2>1. Find(r, "seeking", "disputing")
    BY <1>8 DEF FindForLeave
  <2> QED
    BY <2>1, FindType DEF Find, Steps
<1>9. CASE SetAmbiguity(r)
  <2>1. cand[r] \in Candidates /\ target[r] \in Items \cup {NoItem}
    BY <1>9 DEF SetAmbiguity, RequestsType, Busy
  <2>2. AmbiguityType'
    BY <1>9, <2>1 DEF SetAmbiguity, AmbiguityType
  <2>3. RequestsType'
    BY <1>9, MoveType DEF SetAmbiguity, Steps
  <2> QED
    BY <1>9, <2>2, <2>3 DEF SetAmbiguity
<1>10. CASE MarkUnresolved(r)
  <2>1. QueueType'
    BY <1>10, SetStateType DEF MarkUnresolved, States, Undecided
  <2>2. RequestsType'
    BY <1>10, DoneType DEF MarkUnresolved
  <2> QED
    BY <1>10, <2>1, <2>2 DEF MarkUnresolved, SetState
<1>11. CASE RefuseState(r)
  BY <1>11, MoveType DEF RefuseState, Steps
<1>12. CASE AnswerRefusal(r)
  BY <1>12, DoneType DEF AnswerRefusal
<1> QED
  BY <1>1, <1>2, <1>3, <1>4, <1>5, <1>6, <1>7, <1>8, <1>9, <1>10, <1>11, <1>12
     DEF Review

LEMMA BridgeTypeKept ==
    ASSUME TypeInv, Bridge
    PROVE  TypeInv'
<1> USE TypeParts, TypePartsPrime, Frames
<1>1. ASSUME NEW C \in SUBSET Candidates \ {{}}, BeginBatch(C)
      PROVE  TypeInv'
  <2>1. batch' = [at |-> "building", todo |-> C, cand |-> NoCandidate,
                  seen |-> {}, built |-> {}]
    BY <1>1 DEF BeginBatch, NoBatch
  <2>2. batches' \in 0..MaxBatches
    BY <1>1 DEF BeginBatch, BridgeType
  <2>3. BridgeType'
    BY <2>1, <2>2 DEF BridgeType, Comparing
  <2> QED
    BY <1>1, <2>3 DEF BeginBatch
<1>2. ASSUME NEW c \in Candidates, ReadCurrent(c)
      PROVE  TypeInv'
  <2>1. Active(SlotOf[c]) \subseteq Items
    BY DEF Active, Used
  <2>2. BridgeType'
    BY <1>2, <2>1 DEF ReadCurrent, BridgeType, Comparing
  <2> QED
    BY <1>2, <2>2 DEF ReadCurrent
<1>3. CASE ReadPending
  <2> DEFINE old == IF batch.seen = {} THEN NoItem ELSE CHOOSE i \in batch.seen : TRUE
  <2>1. batch.cand \in Candidates /\ old \in Items \cup {NoItem}
    BY <1>3 DEF ReadPending, BridgeType, Comparing
  <2>2. [cand |-> batch.cand, replaces |-> old] \in Proposals
    BY <2>1 DEF Proposals
  <2>3. BridgeType'
    BY <1>3, <2>2 DEF ReadPending, BridgeType, NoBatch, Comparing
  <2> QED
    BY <1>3, <2>3 DEF ReadPending
<1>4. CASE PersistBatch
  <2> DEFINE new == {p \in batch.built : MayAdd(p)}
  <2>1. \A p \in new : p.replaces \in Items \cup {NoItem}
    BY DEF BridgeType, Proposals
  <2>2. QueueType'
    BY <1>4, <2>1 DEF PersistBatch, QueueType, States, Undecided
  <2>3. BridgeType'
    BY <1>4 DEF PersistBatch, BridgeType, NoBatch, Comparing
  <2> QED
    BY <1>4, <2>2, <2>3 DEF PersistBatch
<1>5. CASE DropBatch
  <2>1. BridgeType'
    BY <1>5 DEF DropBatch, BridgeType, NoBatch, Comparing
  <2> QED
    BY <1>5, <2>1 DEF DropBatch
<1> QED
  BY <1>1, <1>2, <1>3, <1>4, <1>5 DEF Bridge

LEMMA NextType ==
    ASSUME TypeInv, [Next]_vars
    PROVE  TypeInv'
<1> USE TypeParts, TypePartsPrime, Frames
<1>1. ASSUME NEW r \in Requests, Review(r)
      PROVE  TypeInv'
  BY <1>1, ReviewType
<1>2. ASSUME NEW i \in Items, Retire(i)
      PROVE  TypeInv'
  <2>1. ItemsType'
    BY <1>2 DEF Retire, ItemsType, Rooted, Lifecycles
  <2> QED
    BY <1>2, <2>1 DEF Retire
<1>3. CASE Bridge
  BY <1>3, BridgeTypeKept
<1>4. CASE Crash
  <2>1. RequestsType'
    BY <1>4 DEF Crash, RequestsType, Busy, Steps
  <2>2. BridgeType'
    BY <1>4 DEF Crash, BridgeType, NoBatch, Comparing
  <2> QED
    BY <1>4, <2>1, <2>2 DEF Crash
<1>5. CASE UNCHANGED vars
  BY <1>5 DEF vars, items, queue, requests, bridge
<1> QED
  BY <1>1, <1>2, <1>3, <1>4, <1>5 DEF Next

LEMMA InitType == Init => TypeInv
  BY DEF Init, TypeInv, TypeOK, Busy, Comparing, Rooted, Lifecycles, Undisputed,
         States, Steps, NoBatch, Proposals

\* Every reachable state is well typed, for any set of candidates, items,
\* slots and requests: in particular a request that writes (confirm,
\* set_authority_ambiguity, clear) always has a candidate of the queue.
THEOREM TypeCorrect == Spec => []TypeOK
<1>1. Spec => []TypeInv
  BY InitType, NextType, PTL DEF Spec
<1>2. TypeInv => TypeOK
  BY DEF TypeInv
<1> QED
  BY <1>1, <1>2, PTL

-----------------------------------------------------------------------------
(* One active item per slot, and a history without forks.  Both are        *)
(* inductive together with type correctness: a write either finds the slot  *)
(* without an active item or takes the one there is, and an item that is    *)
(* superseded is not active, so no second write can take it again.          *)

StoreInv == OneActive /\ Lineage

LEMMA StoreFrame ==
    ASSUME StoreInv, UNCHANGED items
    PROVE  StoreInv'
  BY DEF StoreInv, OneActive, Lineage, Used, items

LEMMA WrittenStore ==
    ASSUME ItemsType, StoreInv, NEW i \in Items, NEW c \in Candidates,
           NEW old \in Items \cup {NoItem}, Written(i, c, old)
    PROVE  StoreInv'
<1> USE DEF Written, ItemsType
<1>1. /\ lifecycle'[i] = "active" /\ origin'[i] = c /\ supersedes'[i] = old
      /\ old # i
  BY DEF StoreInv
<1>2. \A j \in Items \ {i} :
        /\ origin'[j] = origin[j] /\ supersedes'[j] = supersedes[j]
        /\ j # old => lifecycle'[j] = lifecycle[j]
  OBVIOUS
<1>3. old # NoItem => lifecycle'[old] = "superseded"
  OBVIOUS
<1>4. Used' = Used \cup {i} /\ i \notin Used /\ (old # NoItem => old \in Used)
  BY <1>1, <1>2, <1>3 DEF Used
<1> HIDE DEF Written
<1>5. OneActive'
  <2> SUFFICES ASSUME NEW j \in Used', NEW k \in Used',
                      lifecycle'[j] = "active", lifecycle'[k] = "active",
                      SlotOf[origin'[j]] = SlotOf[origin'[k]]
               PROVE  j = k
    BY DEF OneActive
  <2>1. \A x \in Used : lifecycle'[x] = "active" =>
           lifecycle[x] = "active" /\ SlotOf[origin[x]] # SlotOf[c]
    BY <1>1, <1>2, <1>3, <1>4 DEF StoreInv, OneActive, Used, Written
  <2> QED
    BY <1>1, <1>2, <1>4, <2>1 DEF StoreInv, OneActive, Used
<1>6. \A x \in Items : lifecycle'[x] = "superseded" => \E j \in Used' : supersedes'[j] = x
  <2> SUFFICES ASSUME NEW x \in Items, lifecycle'[x] = "superseded"
               PROVE  \E j \in Used' : supersedes'[j] = x
    OBVIOUS
  <2>1. CASE x = old
    BY <2>1, <1>1, <1>4
  <2>2. CASE x # old
    BY <2>2, <1>1, <1>2, <1>4 DEF StoreInv, Lineage, Used
  <2> QED
    BY <2>1, <2>2
<1>7. \A j \in Used' : supersedes'[j] # NoItem =>
         /\ lifecycle'[supersedes'[j]] = "superseded"
         /\ SlotOf[origin'[supersedes'[j]]] = SlotOf[origin'[j]]
  <2> SUFFICES ASSUME NEW j \in Used', supersedes'[j] # NoItem
               PROVE  /\ lifecycle'[supersedes'[j]] = "superseded"
                      /\ SlotOf[origin'[supersedes'[j]]] = SlotOf[origin'[j]]
    OBVIOUS
  <2>1. CASE j = i
    BY <2>1, <1>1, <1>2, <1>3 DEF Written
  <2>2. CASE j # i
    <3>1. j \in Used /\ supersedes'[j] = supersedes[j] /\ supersedes[j] \in Items
      BY <2>2, <1>2, <1>4 DEF Used
    <3>2. lifecycle[supersedes[j]] = "superseded"
      BY <3>1 DEF StoreInv, Lineage
    <3>3. supersedes[j] # i /\ supersedes[j] # old
      BY <3>1, <3>2 DEF Written
    <3> QED
      BY <2>2, <1>2, <3>1, <3>2, <3>3 DEF StoreInv, Lineage, Used
  <2> QED
    BY <2>1, <2>2
<1>8. \A j, k \in Used' : supersedes'[j] = supersedes'[k] /\ supersedes'[j] # NoItem
                             => j = k
  <2>1. \A j \in Used : supersedes[j] # NoItem => supersedes[j] # old
    BY DEF StoreInv, Lineage, Written
  <2> QED
    BY <1>1, <1>2, <1>4, <2>1 DEF StoreInv, Lineage, Used
<1> QED
  BY <1>5, <1>6, <1>7, <1>8 DEF StoreInv, Lineage

LEMMA RetireStore ==
    ASSUME ItemsType, StoreInv, NEW i \in Items, Retire(i)
    PROVE  StoreInv'
<1>1. /\ Used' = Used /\ origin' = origin /\ supersedes' = supersedes
      /\ lifecycle[i] = "active" /\ lifecycle'[i] = "retired"
      /\ \A j \in Items \ {i} : lifecycle'[j] = lifecycle[j]
  BY DEF Retire, ItemsType, Used
<1> QED
  BY <1>1 DEF StoreInv, OneActive, Lineage, Used, ItemsType

\* Only a review request that writes an item and a retirement touch items.
LEMMA ReviewItems ==
    ASSUME NEW r \in Requests, Review(r), ~WriteItem(r)
    PROVE  UNCHANGED items
  BY DEF Review, ReadForConfirm, ReadForReject, ReadForLeave, Take, FindForConfirm,
         FindForLeave, Find, RefuseWrite, MarkConfirmed, MarkRejected, MarkUnresolved,
         SetState, Clear, SetAmbiguity, RefuseState, AnswerRefusal

LEMMA BridgeItems ==
    ASSUME Bridge
    PROVE  UNCHANGED items
  BY DEF Bridge, BeginBatch, ReadCurrent, ReadPending, PersistBatch, DropBatch

LEMMA NextStore ==
    ASSUME TypeInv, StoreInv, [Next]_vars
    PROVE  StoreInv'
<1>1. ItemsType /\ RequestsType
  BY TypeParts
<1>2. ASSUME NEW r \in Requests, Review(r)
      PROVE  StoreInv'
  <2>1. CASE WriteItem(r)
    BY <2>1, <1>1, WriteItemWrites, WrittenStore
  <2>2. CASE ~WriteItem(r)
    BY <2>2, <1>2, ReviewItems, StoreFrame
  <2> QED
    BY <2>1, <2>2
<1>3. ASSUME NEW i \in Items, Retire(i)
      PROVE  StoreInv'
  BY <1>1, <1>3, RetireStore
<1>4. CASE Bridge
  BY <1>4, BridgeItems, StoreFrame
<1>5. CASE Crash \/ UNCHANGED vars
  BY <1>5, StoreFrame DEF Crash, vars, items
<1> QED
  BY <1>2, <1>3, <1>4, <1>5 DEF Next

LEMMA InitStore == Init => StoreInv
  BY DEF Init, StoreInv, OneActive, Lineage, Used

LEMMA StoreSafety == Spec => [](TypeInv /\ StoreInv)
<1>1. Init => TypeInv /\ StoreInv
  BY InitType, InitStore
<1>2. TypeInv /\ StoreInv /\ [Next]_vars => TypeInv' /\ StoreInv'
  BY NextType, NextStore
<1> QED
  BY <1>1, <1>2, PTL DEF Spec

\* However many requests confirm at once, on targets they read without a
\* lock, no slot ever has two active items.
THEOREM OneInForce == Spec => []OneActive
<1>1. TypeInv /\ StoreInv => OneActive
  BY DEF StoreInv
<1> QED
  BY <1>1, StoreSafety, PTL

\* Every superseded item has exactly one successor, in its own slot: racing
\* replacements of one item cannot fork its history.
THEOREM HistoryIsALine == Spec => []Lineage
<1>1. TypeInv /\ StoreInv => Lineage
  BY DEF StoreInv
<1> QED
  BY <1>1, StoreSafety, PTL

-----------------------------------------------------------------------------
(* The refinement of Authority.                                             *)

LEMMA AuthorityFrame ==
    ASSUME UNCHANGED items
    PROVE  UNCHANGED Authoritative!vars
  BY DEF items, Authoritative!vars, Active, Used

LEMMA WrittenAuthority ==
    ASSUME ItemsType, StoreInv, NEW i \in Items, NEW c \in Candidates,
           NEW old \in Items \cup {NoItem}, Written(i, c, old)
    PROVE  Authoritative!Next
<1> DEFINE s == SlotOf[c]
           Past(t) == {x \in Used : lifecycle[x] # "active" /\ SlotOf[origin[x]] = t}
<1>1. s \in Slots
  OBVIOUS
<1>2. /\ lifecycle'[i] = "active" /\ origin'[i] = c /\ old # i
      /\ i \notin Used /\ Used' = Used \cup {i}
  BY DEF Written, ItemsType, Used
<1>3. \A j \in Items \ {i} : /\ origin'[j] = origin[j]
                              /\ j # old => lifecycle'[j] = lifecycle[j]
  BY DEF Written, ItemsType
<1>4. old # NoItem => lifecycle'[old] = "superseded"
  BY DEF Written, ItemsType
<1>5. Active(s) = IF old = NoItem THEN {} ELSE {old}
  BY DEF Written, StoreInv, OneActive, Active, Used
<1>6. \A t \in Slots : Active(t)' = IF t = s THEN {i} ELSE Active(t)
  BY <1>2, <1>3, <1>4, <1>5 DEF Active, Used, Written
<1>7. \A t \in Slots : Past(t)' = IF t = s /\ old # NoItem THEN Past(t) \cup {old}
                                                         ELSE Past(t)
  BY <1>2, <1>3, <1>4, <1>5 DEF Active, Used, Written
<1>8. i \notin Authoritative!Used
  BY <1>2 DEF Authoritative!Used, Active
<1>9. CASE old = NoItem
  BY <1>1, <1>5, <1>6, <1>7, <1>8, <1>9 DEF Authoritative!Next, Authoritative!Promote
<1>10. CASE old # NoItem
  <2>1. [t \in Slots |-> Active(t)]' = [[t \in Slots |-> Active(t)] EXCEPT ![s] = {i}]
    BY <1>6
  <2>2. [t \in Slots |-> Past(t)]'
          = [[t \in Slots |-> Past(t)] EXCEPT ![s] = Past(s) \cup {old}]
    BY <1>7, <1>10
  <2>3. Authoritative!Replace(s, old, i)
    BY <1>1, <1>5, <1>8, <1>10, <2>1, <2>2 DEF Authoritative!Replace
  <2> QED
    BY <1>1, <1>10, <2>3 DEF Authoritative!Next
<1> QED
  BY <1>9, <1>10

LEMMA RetireAuthority ==
    ASSUME ItemsType, StoreInv, NEW i \in Items, Retire(i)
    PROVE  Authoritative!Next
<1> DEFINE Past(t) == {x \in Used : lifecycle[x] # "active" /\ SlotOf[origin[x]] = t}
<1>1. /\ Used' = Used /\ origin' = origin /\ i \in Used
      /\ lifecycle[i] = "active" /\ lifecycle'[i] = "retired"
      /\ \A j \in Items \ {i} : lifecycle'[j] = lifecycle[j]
  BY DEF Retire, ItemsType, Used
<1>2. PICK slot \in Slots : slot = SlotOf[origin[i]]
  BY <1>1 DEF ItemsType, Rooted
<1>3. Active(slot) = {i}
  BY <1>1, <1>2 DEF StoreInv, OneActive, Active, Used
<1>4. \A t \in Slots : Active(t)' = IF t = slot THEN {} ELSE Active(t)
  BY <1>1, <1>2, <1>3 DEF Active, Used
<1>5. \A t \in Slots : Past(t)' = IF t = slot THEN Past(t) \cup {i} ELSE Past(t)
  BY <1>1, <1>2 DEF Used
<1>6. [t \in Slots |-> Active(t)]' = [[t \in Slots |-> Active(t)] EXCEPT ![slot] = {}]
  BY <1>4
<1>7. [t \in Slots |-> Past(t)]'
        = [[t \in Slots |-> Past(t)] EXCEPT ![slot] = Past(slot) \cup {i}]
  BY <1>5
<1>8. Authoritative!Retire(slot, i)
  BY <1>3, <1>6, <1>7 DEF Authoritative!Retire
<1> QED
  BY <1>8 DEF Authoritative!Next

\* The two files and all the interleavings of requests, compilations and
\* kills implement Authority.
THEOREM Refinement == Spec => KeepsAuthority
<1>1. Init => Authoritative!Init
  BY DEF Init, Authoritative!Init, Active, Used
<1>2. ASSUME TypeInv, StoreInv, [Next]_vars
      PROVE  [Authoritative!Next]_(Authoritative!vars)
  <2>1. ItemsType /\ RequestsType
    BY <1>2, TypeParts
  <2>2. ASSUME NEW r \in Requests, Review(r)
        PROVE  [Authoritative!Next]_(Authoritative!vars)
    <3>1. CASE WriteItem(r)
      BY <3>1, <2>1, <1>2, WriteItemWrites, WrittenAuthority
    <3>2. CASE ~WriteItem(r)
      BY <3>2, <2>2, ReviewItems, AuthorityFrame
    <3> QED
      BY <3>1, <3>2
  <2>3. ASSUME NEW i \in Items, Retire(i)
        PROVE  [Authoritative!Next]_(Authoritative!vars)
    BY <2>1, <2>3, <1>2, RetireAuthority
  <2>4. CASE Bridge
    BY <2>4, BridgeItems, AuthorityFrame
  <2>5. CASE Crash \/ UNCHANGED vars
    BY <2>5, AuthorityFrame DEF Crash, vars, items
  <2> QED
    BY <1>2, <2>2, <2>3, <2>4, <2>5 DEF Next
<1> QED
  BY <1>1, <1>2, StoreSafety, PTL DEF Spec, KeepsAuthority, Authoritative!Spec

-----------------------------------------------------------------------------
(* Items stay in use, with their origin; that is all that a confirmation    *)
(* and a reader need of the store.                                          *)

StoreMoves == Used \subseteq Used' /\ \A i \in Used : origin'[i] = origin[i]

LEMMA WrittenMoves ==
    ASSUME ItemsType, NEW i \in Items, NEW c, NEW old \in Items \cup {NoItem},
           Written(i, c, old)
    PROVE  StoreMoves
  BY DEF StoreMoves, Used, Written, ItemsType

LEMMA NextMoves ==
    ASSUME TypeInv, [Next]_vars
    PROVE  StoreMoves
<1>1. ItemsType /\ RequestsType
  BY TypeParts
<1>2. UNCHANGED items => StoreMoves
  BY DEF items, StoreMoves, Used
<1>3. ASSUME NEW r \in Requests, Review(r)
      PROVE  StoreMoves
  <2>1. CASE WriteItem(r)
    BY <2>1, <1>1, WriteItemWrites, WrittenMoves
  <2>2. CASE ~WriteItem(r)
    BY <2>2, <1>2, <1>3, ReviewItems
  <2> QED
    BY <2>1, <2>2
<1>4. ASSUME NEW i \in Items, Retire(i)
      PROVE  StoreMoves
  BY <1>1, <1>4 DEF Retire, StoreMoves, Used, ItemsType
<1>5. CASE Bridge
  BY <1>2, <1>5, BridgeItems
<1>6. CASE Crash \/ UNCHANGED vars
  BY <1>2, <1>6 DEF Crash, vars, items
<1> QED
  BY <1>3, <1>4, <1>5, <1>6 DEF Next

-----------------------------------------------------------------------------
(* No confirmation without its item.                                        *)

Backs(c) == \E i \in Used : origin[i] = c

\* A request that is about to mark a candidate has written its item.
Evidenced ==
    /\ ConfirmedHasItem
    /\ \A r \in Requests : at[r] = "marking" => Backs(cand[r])

LEMMA BacksStays ==
    ASSUME StoreMoves, NEW c, Backs(c)
    PROVE  Backs(c)'
  BY DEF StoreMoves, Backs

LEMMA EvidencedFrame ==
    ASSUME Evidenced, StoreMoves,
           \A c \in Candidates : state'[c] = "confirmed" => Backs(c) \/ state[c] = "confirmed",
           \A r \in Requests : at'[r] = "marking" => at[r] = "marking" /\ cand'[r] = cand[r]
    PROVE  Evidenced'
<1>1. \A c \in Candidates : state'[c] = "confirmed" => Backs(c)'
  BY BacksStays DEF Evidenced, ConfirmedHasItem, Backs
<1>2. \A r \in Requests : at'[r] = "marking" => Backs(cand[r])' /\ cand'[r] = cand[r]
  BY BacksStays DEF Evidenced
<1> QED
  BY <1>1, <1>2 DEF Evidenced, ConfirmedHasItem, Backs

LEMMA ReviewEvidence ==
    ASSUME TypeInv, Evidenced, StoreMoves, NEW r \in Requests, Review(r)
    PROVE  Evidenced'
<1>r. RequestsType /\ QueueType
  BY TypeParts
<1>1. CASE WriteItem(r)
  <2>1. cand[r] \in Candidates /\ \E i \in Items : Written(i, cand[r], target[r])
    BY <1>1, <1>r, WriteItemWrites
  <2>3. state' = state /\ cand' = cand
        /\ \A q \in Requests \ {r} : at'[q] = at[q]
    BY <1>1, <1>r DEF WriteItem, queue, Goto, RequestsType
  <2>2. Backs(cand[r])'
    <3>1. PICK i \in Items : Written(i, cand[r], target[r])
      BY <2>1
    <3>2. lifecycle'[i] = "active" /\ origin'[i] = cand[r]
      BY <3>1, TypeParts DEF Written, ItemsType
    <3> QED
      BY <2>3, <3>2 DEF Backs, Used
  <2>4. \A c \in Candidates : state'[c] = "confirmed" => Backs(c)'
    BY <2>3, BacksStays DEF Evidenced, ConfirmedHasItem, Backs
  <2>5. \A q \in Requests : at'[q] = "marking" => Backs(cand[q])'
    BY <2>2, <2>3, BacksStays DEF Evidenced
  <2> QED
    BY <2>3, <2>4, <2>5 DEF Evidenced, ConfirmedHasItem, Backs
<1>2. CASE MarkConfirmed(r)
  <2>1. Backs(cand[r]) /\ at[r] = "marking"
    BY <1>2 DEF MarkConfirmed, Evidenced
  <2>2. \A c \in Candidates : state'[c] = "confirmed" => c = cand[r] \/ state[c] = "confirmed"
    BY <1>2, <1>r DEF MarkConfirmed, SetState, QueueType
  <2>3. \A q \in Requests : at'[q] = "marking" => at[q] = "marking" /\ cand'[q] = cand[q]
    BY <1>2, <1>r DEF MarkConfirmed, Goto, RequestsType
  <2> QED
    BY <2>1, <2>2, <2>3, EvidencedFrame
<1>3. CASE MarkRejected(r) \/ MarkUnresolved(r)
  <2>1. \A c \in Candidates : state'[c] = "confirmed" => state[c] = "confirmed"
    BY <1>3, <1>r DEF MarkRejected, MarkUnresolved, SetState, QueueType
  <2>2. \A q \in Requests : at'[q] = "marking" => at[q] = "marking" /\ cand'[q] = cand[q]
    BY <1>3, <1>r DEF MarkRejected, MarkUnresolved, Goto, Done, RequestsType
  <2> QED
    BY <2>1, <2>2, EvidencedFrame
<1>4. CASE ~(WriteItem(r) \/ MarkConfirmed(r) \/ MarkRejected(r) \/ MarkUnresolved(r))
  <2>1. state' = state
    BY <1>4 DEF Review, ReadForConfirm, ReadForReject, ReadForLeave, Take, FindForConfirm,
       FindForLeave, Find, RefuseWrite, Clear, SetAmbiguity, RefuseState, AnswerRefusal, queue
  <2>2. at' = at \/ \E to \in Steps \ {"marking"} : Goto(r, to)
    BY <1>4 DEF Review, ReadForConfirm, ReadForReject, ReadForLeave, Take, FindForConfirm,
       FindForLeave, Find, RefuseWrite, Clear, SetAmbiguity, RefuseState, AnswerRefusal, Done,
       Steps
  <2>3. \A q \in Requests \ {r} : cand'[q] = cand[q]
    BY <1>4, <1>r DEF Review, ReadForConfirm, ReadForReject, ReadForLeave, Take, FindForConfirm,
       FindForLeave, Find, RefuseWrite, Clear, SetAmbiguity, RefuseState, AnswerRefusal, Done,
       RequestsType
  <2>4. at'[r] # "marking" /\ \A q \in Requests \ {r} : at'[q] = at[q]
    BY <1>4, <1>r DEF Review, ReadForConfirm, ReadForReject, ReadForLeave, Take, FindForConfirm,
       FindForLeave, Find, RefuseWrite, Clear, SetAmbiguity, RefuseState, AnswerRefusal, Done,
       Goto, RequestsType
  <2> QED
    BY <2>1, <2>3, <2>4, EvidencedFrame
<1> QED
  BY <1>1, <1>2, <1>3, <1>4

LEMMA NextEvidence ==
    ASSUME TypeInv, Evidenced, [Next]_vars
    PROVE  Evidenced'
<1>m. StoreMoves
  BY NextMoves
<1>1. ASSUME NEW r \in Requests, Review(r)
      PROVE  Evidenced'
  BY <1>1, <1>m, ReviewEvidence
<1>2. CASE UNCHANGED vars \/ \E i \in Items : Retire(i)
  BY <1>m, <1>2, EvidencedFrame DEF vars, Retire, queue, requests
<1>3. CASE Bridge
  <2>1. \A c \in Candidates : state'[c] = "confirmed" => state[c] = "confirmed"
    BY <1>3 DEF Bridge, BeginBatch, ReadCurrent, ReadPending, PersistBatch, DropBatch, queue
  <2>2. UNCHANGED requests
    BY <1>3 DEF Bridge, BeginBatch, ReadCurrent, ReadPending, PersistBatch, DropBatch
  <2> QED
    BY <1>m, <2>1, <2>2, EvidencedFrame DEF requests
<1>4. CASE Crash
  BY <1>m, <1>4, EvidencedFrame DEF Crash, queue
<1> QED
  BY <1>1, <1>2, <1>3, <1>4 DEF Next

\* Whatever is refused, overtaken or killed between the write of an item and
\* the mark of its candidate, a candidate that counts as confirmed has its item.
THEOREM ConfirmationBacked == Spec => []ConfirmedHasItem
<1>1. Init => TypeInv /\ Evidenced
  BY InitType DEF Init, Evidenced, ConfirmedHasItem
<1>2. TypeInv /\ Evidenced /\ [Next]_vars => TypeInv' /\ Evidenced'
  BY NextType, NextEvidence
<1>3. TypeInv /\ Evidenced => ConfirmedHasItem
  BY DEF Evidenced
<1> QED
  BY <1>1, <1>2, <1>3, PTL DEF Spec

-----------------------------------------------------------------------------
(* A decision is final.                                                     *)

LEMMA BatchKeeps ==
    ASSUME TypeInv, PersistBatch, NEW c \in Candidates, state[c] # "absent"
    PROVE  state'[c] = state[c]
  BY DEF PersistBatch, MayAdd

LEMMA NextDecided ==
    ASSUME TypeInv, [Next]_vars, NEW c \in Candidates, state[c] \in {"confirmed", "rejected"}
    PROVE  state'[c] = state[c]
<1>r. RequestsType /\ QueueType
  BY TypeParts
<1>1. ASSUME NEW r \in Requests, Review(r)
      PROVE  state'[c] = state[c]
  <2>1. CASE MarkConfirmed(r) \/ MarkRejected(r) \/ MarkUnresolved(r)
    <3>1. PICK s : SetState(r, s)
      BY <2>1 DEF MarkConfirmed, MarkRejected, MarkUnresolved
    <3>2. state[cand[r]] \in Undecided /\ state' = [state EXCEPT ![cand[r]] = s]
      BY <3>1 DEF SetState, StillOpen
    <3>3. c # cand[r]
      BY <3>2 DEF Undecided
    <3> QED
      BY <1>r, <3>2, <3>3 DEF QueueType
  <2>2. CASE ~(MarkConfirmed(r) \/ MarkRejected(r) \/ MarkUnresolved(r))
    BY <1>1, <2>2 DEF Review, ReadForConfirm, ReadForReject, ReadForLeave, Take, FindForConfirm,
       FindForLeave, Find, WriteItem, RefuseWrite, Clear, SetAmbiguity, RefuseState,
       AnswerRefusal, queue
  <2> QED
    BY <2>1, <2>2
<1>2. CASE UNCHANGED vars \/ Crash \/ \E i \in Items : Retire(i)
  BY <1>2 DEF vars, Crash, Retire, queue
<1>3. CASE Bridge
  <2>1. CASE PersistBatch
    BY <2>1, BatchKeeps
  <2>2. CASE ~PersistBatch
    BY <1>3, <2>2 DEF Bridge, BeginBatch, ReadCurrent, ReadPending, DropBatch, queue
  <2> QED
    BY <2>1, <2>2
<1> QED
  BY <1>1, <1>2, <1>3 DEF Next

\* Neither a slower request on the same candidate nor another extraction of
\* the same fragment reopens or reverses a decision.
THEOREM DecisionsFinal == Spec => DecidedStays
<1>1. TypeInv /\ [Next]_vars =>
        [\A c \in Candidates : state[c] \in {"confirmed", "rejected"}
                                  => state'[c] = state[c]]_vars
  BY NextDecided
<1>2. Spec => []TypeInv
  BY StoreSafety, PTL
<1> QED
  BY <1>1, <1>2, PTL DEF Spec, DecidedStays

(***************************************************************************)
(* The turns that read the store (Answers).                                *)
(***************************************************************************)

USE AnswersAssumption

-----------------------------------------------------------------------------
(* Types, and what holds of the memory t of a turn with the history m.      *)

Marks   == [item : Items \cup {NoItem}, candidate : Candidates \cup {NoCandidate}]
Results == {"none", "success", "workspace_resolution_failed", "source_registry_unavailable",
            "insufficient_evidence", "reasoning_failed", "provenance_unresolved",
            "current_authority_not_used", "oversize", "raised", "provider_message",
            "runtime_message"}
Views    == [Slots -> Marks]
Packages == [sources : SUBSET Versions, authority : SUBSET Items,
             overlay : SUBSET Items, sides : SUBSET Marks]
Turns    == [at : Reading \cup {"idle", "packing", "reasoning", "asking", "plain", "told"},
             path : {"hybrid", "legacy"}, asks : SUBSET Addressed,
             have : SUBSET Versions, seen : SUBSET Items, found : Views,
             broken : BOOLEAN, package : Packages, route : {"local"}, calls : 0..2,
             used : SUBSET (Items \cup Versions), result : Results]
Mets     == [calm : SUBSET Items, steady : SUBSET Items, stands : SUBSET Marks]

\* The package comes after the reads, and the result at the end.
Ordered(t) ==
    /\ t.at \notin {"reasoning", "asking", "told"} => t.package = Nothing
    /\ t.at # "told" => t.result = "none" /\ t.calls <= 1
    /\ t.at \notin {"asking", "told"} => t.calls = 0
    /\ t.result # "success" => t.used = {}
    /\ t.at = "told" /\ t.result # "success" => t.package = Nothing
    /\ t.at = "told" => t.result # "none"
    /\ t.at \in {"materials", "reasoning"} => t.path = "hybrid"
    /\ t.at \in {"asking", "plain"} => t.path = "legacy"
    /\ t.path = "legacy" => t.used = {}

\* What was seen is in use, and was in force together.
SeenTogether(t) ==
    /\ t.seen \subseteq Used
    /\ Shown(t.package) \subseteq Used
    /\ \A i, j \in t.seen : SlotOf[origin[i]] = SlotOf[origin[j]] => i = j

\* What a package of the hybrid path shows has its source at hand.
HasSource(t) ==
    /\ t.package.sources \subseteq t.have
    /\ t.package.authority \cap t.package.overlay = {}
    /\ t.path = "hybrid" => \A i \in Shown(t.package) : VersionOf[origin[i]] \in t.have
    /\ t.used \subseteq Citable(t.package)

\* What the reads have brought so far, against the history.
ReadSoFar(t, m) ==
    /\ m.steady \subseteq Used
    /\ t.path = "hybrid" /\ t.at \in {"items", "ambiguities", "packing"}
         => \A i \in m.steady : VersionOf[origin[i]] \in t.have
    /\ t.at \in {"ambiguities", "packing"} /\ ~t.broken => m.steady \subseteq t.seen
    /\ t.at = "packing" /\ ~t.broken =>
         /\ Items \ Named(Disputes(t.found)) \subseteq m.calm
         /\ m.stands \subseteq Disputes(t.found)
         /\ m.steady \cap Named(Disputes(t.found)) = {}

\* What the package shows, against the history.
Roomy == Cardinality(Slots) <= MaxItems
Due(t, m) == {i \in m.steady : origin[i] \in t.asks}
ShownRight(t, m) ==
    ~t.broken =>
      /\ Shown(t.package) \subseteq m.calm
      /\ t.at = "asking" => /\ m.stands \subseteq t.package.sides
                            /\ Roomy => m.steady \subseteq t.package.authority
      /\ t.at = "reasoning" /\ Roomy => Due(t, m) \subseteq t.package.authority
      /\ t.path = "hybrid" /\ t.result = "success" /\ Roomy /\ Due(t, m) # {}
           => t.used \cap t.package.authority # {}

Good(t, m) ==
    Ordered(t) /\ SeenTogether(t) /\ HasSource(t) /\ ReadSoFar(t, m) /\ ShownRight(t, m)

AnswersType ==
    /\ current \subseteq Versions
    /\ turn \in [Dialogues -> Turns]
    /\ met \in [Dialogues -> Mets]
TurnInv == AnswersType /\ \A d \in Dialogues : Good(turn[d], met[d])

-----------------------------------------------------------------------------
(* The history.                                                             *)

HeldOK == Held \in Mets /\ Held.steady \subseteq Used

LEMMA HeldType == TypeInv => HeldOK
<1> SUFFICES ASSUME TypeInv PROVE HeldOK
  OBVIOUS
<1>1. \A s \in Slots : ambiguity[s] \in Marks
  BY DEF TypeInv, TypeOK, Marks
<1>2. Disputes(ambiguity) \subseteq Marks
  BY <1>1 DEF Disputes
<1>3. InForce \subseteq Items /\ InForce \subseteq Used
  BY DEF InForce, Used
<1> QED
  BY <1>2, <1>3 DEF HeldOK, Held, Mets

\* What the history of a turn becomes, by the position it had.
LEMMA MeetEffect ==
    ASSUME Meet, NEW d \in Dialogues
    PROVE  /\ turn'[d].at = "idle" \/ turn'[d].result \notin {"none", "success"}
                => met'[d] = NotMet
           /\ turn'[d].at # "idle" /\ turn'[d].result \in {"none", "success"} =>
                /\ turn[d].at = "idle" => met'[d] = Held'
                /\ turn[d].at \in Reading =>
                     met'[d] = [calm   |-> met[d].calm \cup Held'.calm,
                                steady |-> met[d].steady \cap Held'.steady,
                                stands |-> met[d].stands \cap Held'.stands]
                /\ turn[d].at \notin Reading \cup {"idle"} => met'[d] = met[d]
  BY DEF Meet, Reading

LEMMA HeldTypePrime == TypeInv' => HeldOK'
  BY HeldType, PTL

LEMMA MetType ==
    ASSUME TypeInv', met \in [Dialogues -> Mets], Meet
    PROVE  met' \in [Dialogues -> Mets]
<1>1. Held' \in Mets
  BY HeldTypePrime DEF HeldOK
<1>2. ASSUME NEW d \in Dialogues PROVE met'[d] \in Mets
  <2>1. NotMet \in Mets /\ met[d] \in Mets
    BY DEF NotMet, Mets
  <2>2. [calm   |-> met[d].calm \cup Held'.calm,
         steady |-> met[d].steady \cap Held'.steady,
         stands |-> met[d].stands \cap Held'.stands] \in Mets
    BY <1>1, <2>1 DEF Mets
  <2> QED
    BY <1>1, <2>1, <2>2, MeetEffect
<1> QED
  BY <1>2 DEF Meet

-----------------------------------------------------------------------------
(* A turn that stands still: the store may move and the history grows.      *)

LEMMA StandStill ==
    ASSUME TurnInv, StoreMoves, Meet, NEW d \in Dialogues, turn'[d] = turn[d]
    PROVE  Good(turn[d], met[d])'
<1> DEFINE t == turn[d]
<1>1. t \in Turns /\ met[d] \in Mets /\ Good(t, met[d])
  BY DEF TurnInv, AnswersType
<1>2. /\ met'[d].steady \subseteq met[d].steady
      /\ met'[d].stands \subseteq met[d].stands
      /\ met[d].calm \subseteq met'[d].calm \/ (t.package = Nothing /\ t.at # "packing")
  <2>1. CASE t.at = "idle"
    <3>1. met'[d] = NotMet BY <2>1, MeetEffect
    <3>2. t.package = Nothing BY <1>1, <2>1 DEF Good, Ordered
    <3> QED BY <2>1, <3>1, <3>2 DEF NotMet
  <2>2. CASE t.result \notin {"none", "success"}
    <3>1. met'[d] = NotMet BY <2>2, MeetEffect
    <3>2. t.package = Nothing /\ t.at = "told" BY <1>1, <2>2 DEF Good, Ordered
    <3> QED BY <3>1, <3>2 DEF NotMet
  <2>3. CASE t.at # "idle" /\ t.result \in {"none", "success"}
    <3>1. CASE t.at \in Reading
      <4>1. met'[d] = [calm   |-> met[d].calm \cup Held'.calm,
                       steady |-> met[d].steady \cap Held'.steady,
                       stands |-> met[d].stands \cap Held'.stands]
        BY <2>3, <3>1, MeetEffect
      <4>2. /\ met'[d].calm = met[d].calm \cup Held'.calm
            /\ met'[d].steady = met[d].steady \cap Held'.steady
            /\ met'[d].stands = met[d].stands \cap Held'.stands
        BY <4>1
      <4> QED BY <4>2
    <3>2. CASE t.at \notin Reading
      <4>1. met'[d] = met[d] BY <2>3, <3>2, MeetEffect
      <4> QED BY <4>1
    <3> QED BY <3>1, <3>2
  <2> QED
    BY <2>1, <2>2, <2>3
<1>3. /\ Shown(t.package) \subseteq Used /\ t.seen \subseteq Used
      /\ met[d].steady \subseteq Used
  BY <1>1 DEF Good, SeenTogether, ReadSoFar
<1>9. Due(turn[d], met[d])' \subseteq Due(turn[d], met[d])
  BY <1>2, <1>3 DEF StoreMoves, Due
<1>4. Ordered(t)
  BY <1>1 DEF Good
<1>5. SeenTogether(turn[d])'
  BY <1>1, <1>3 DEF Good, SeenTogether, StoreMoves
<1>6. HasSource(turn[d])'
  BY <1>1, <1>3 DEF Good, HasSource, StoreMoves
<1>7. ReadSoFar(turn[d], met[d])'
  BY <1>1, <1>2, <1>3 DEF Good, ReadSoFar, StoreMoves
<1>8. ShownRight(turn[d], met[d])'
  <2>1. ShownRight(turn[d], met[d])
    BY <1>1 DEF Good
  <2>2. Shown(t.package) = {} \/ met[d].calm \subseteq met'[d].calm
    BY <1>2 DEF Shown, Nothing
  <2> QED
    BY <1>2, <1>9, <2>1, <2>2 DEF ShownRight
<1> QED
  BY <1>4, <1>5, <1>6, <1>7, <1>8 DEF Good, Ordered

-----------------------------------------------------------------------------
(* The steps of one turn.                                                   *)

NewTurn(d) == turn'[d] \in Turns /\ Good(turn[d], met[d])'

LEMMA Becoming ==
    ASSUME turn \in [Dialogues -> Turns], NEW d \in Dialogues, NEW t, Became(d, t)
    PROVE  turn'[d] = t /\ \A e \in Dialogues \ {d} : turn'[e] = turn[e]
  BY DEF Became

LEMMA NoTurnType == NoTurn \in Turns
<1>1. Undisputed \in Marks BY DEF Undisputed, Marks
<1>2. Nothing \in Packages BY DEF Nothing, Packages
<1>3. Unread \in Views BY <1>1 DEF Unread, Views
<1> QED BY <1>2, <1>3 DEF NoTurn, Turns, Results, Reading

LEMMA Refused ==
    ASSUME turn \in [Dialogues -> Turns], Meet, NEW d \in Dialogues,
           NEW reason \in Results \ {"none", "success"}, Refuse(d, reason)
    PROVE  NewTurn(d)
<1>1. turn'[d] = [NoTurn EXCEPT !.at = "told", !.result = reason]
  BY Becoming DEF Refuse
<1>2. turn'[d].result = reason /\ turn'[d].at = "told" /\ turn'[d].package = Nothing
      /\ turn'[d].used = {} /\ turn'[d].seen = {} /\ turn'[d].path = "hybrid"
  BY <1>1, NoTurnType DEF NoTurn
<1>3. turn'[d] \in Turns
  BY <1>1, NoTurnType DEF Turns
<1>4. met'[d] = NotMet
  BY <1>2, MeetEffect
<1> QED
  BY <1>2, <1>3, <1>4 DEF NewTurn, Good, Ordered, SeenTogether, HasSource, ReadSoFar,
     ShownRight, Due, NotMet, Nothing, Shown

LEMMA Idle ==
    ASSUME Meet, NEW d \in Dialogues, turn'[d] = NoTurn
    PROVE  NewTurn(d)
<1>0. turn'[d].at = "idle" BY DEF NoTurn
<1>1. met'[d] = NotMet
  BY <1>0, MeetEffect
<1> QED
  BY <1>1, NoTurnType DEF NewTurn, Good, Ordered, SeenTogether, HasSource, ReadSoFar,
     ShownRight, Due, NotMet, Nothing, Shown, NoTurn

LEMMA KeptSame ==
    ASSUME Kept
    PROVE  /\ lifecycle' = lifecycle /\ origin' = origin /\ ambiguity' = ambiguity
           /\ current' = current /\ Used' = Used /\ Held' = Held
  BY DEF Kept, vars, Used, Held, InForce

\* A turn that reads has met what the store holds now.
LEMMA MetRead ==
    ASSUME Kept, Meet, NEW d \in Dialogues, turn[d].at \in Reading,
           turn'[d].at # "idle", turn'[d].result = "none"
    PROVE  /\ met'[d].calm = met[d].calm \cup (Items \ Named(Disputes(ambiguity)))
           /\ met'[d].steady = met[d].steady \cap InForce
           /\ met'[d].stands = met[d].stands \cap Disputes(ambiguity)
<1>1. Held' = Held BY KeptSame
<1>2. met'[d] = [calm   |-> met[d].calm \cup Held.calm,
                 steady |-> met[d].steady \cap Held.steady,
                 stands |-> met[d].stands \cap Held.stands]
  BY <1>1, MeetEffect
<1> QED
  BY <1>2 DEF Held

LEMMA MetKept ==
    ASSUME Meet, NEW d \in Dialogues, turn[d].at \notin Reading \cup {"idle"},
           turn'[d].at # "idle", turn'[d].result \in {"none", "success"}
    PROVE  met'[d] = met[d]
  BY MeetEffect

LEMMA BeginStep ==
    ASSUME TypeInv, TurnInv, Meet, NEW d \in Dialogues, NEW path \in {"hybrid", "legacy"},
           NEW known \in BOOLEAN, NEW asks \in SUBSET Addressed, Begin(d, path, known, asks)
    PROVE  NewTurn(d)
<1> DEFINE t == [NoTurn EXCEPT !.path = path, !.asks = asks]
<1>t. turn \in [Dialogues -> Turns] BY DEF TurnInv, AnswersType
<1>1. CASE ~known /\ path = "hybrid"
  BY <1>t, <1>1, Refused DEF Begin, Results
<1>2. CASE ~(~known /\ path = "hybrid")
  <2>1. PICK to \in {"materials", "items", "plain"} :
           /\ Became(d, [t EXCEPT !.at = to])
           /\ to = "materials" => path = "hybrid"
           /\ to = "items" => path = "legacy"
           /\ to = "plain" => path = "legacy"
    BY <1>2 DEF Begin
  <2>2. turn'[d] = [t EXCEPT !.at = to]
    BY <1>t, <2>1, Becoming
  <2>3. /\ turn'[d].at = to /\ turn'[d].path = path /\ turn'[d].asks = asks
        /\ turn'[d].package = Nothing /\ turn'[d].used = {} /\ turn'[d].seen = {}
        /\ turn'[d].result = "none" /\ turn'[d].calls = 0
    BY <2>2, NoTurnType DEF NoTurn
  <2>4. turn'[d] \in Turns
    BY <2>2, NoTurnType DEF Turns, Reading
  <2>5. met'[d] = Held'
    BY <2>3, MeetEffect DEF Begin
  <2>6. Held'.steady \subseteq Used'
    BY KeptSame, HeldType DEF HeldOK, Begin
  <2>7. ReadSoFar(turn[d], met[d])'
    BY <2>1, <2>3, <2>5, <2>6 DEF ReadSoFar
  <2>8. Ordered(turn[d])'
    BY <2>1, <2>3 DEF Ordered
  <2> QED
    BY <2>1, <2>3, <2>4, <2>7, <2>8 DEF NewTurn, Good, SeenTogether, HasSource,
       ShownRight, Nothing, Shown
<1> QED
  BY <1>1, <1>2

LEMMA MaterialsStep ==
    ASSUME TypeInv, TurnInv, Meet, NEW d \in Dialogues, ReadMaterials(d)
    PROVE  NewTurn(d)
<1> DEFINE t == turn[d]
<1>t. turn \in [Dialogues -> Turns] BY DEF TurnInv, AnswersType
<1>g. t \in Turns /\ Good(t, met[d]) /\ current \subseteq Versions
  BY DEF TurnInv, AnswersType
<1>1. CASE Refuse(d, "source_registry_unavailable")
  BY <1>t, <1>1, Refused DEF Results
<1>2. CASE Became(d, [t EXCEPT !.at = "items", !.have = current])
  <2>1. turn'[d] = [t EXCEPT !.at = "items", !.have = current]
    BY <1>t, <1>2, Becoming
  <2>2. /\ turn'[d].at = "items" /\ turn'[d].have = current
        /\ turn'[d].path = t.path /\ turn'[d].package = t.package /\ turn'[d].used = t.used
        /\ turn'[d].seen = t.seen /\ turn'[d].result = t.result /\ turn'[d].calls = t.calls
    BY <1>g, <2>1 DEF Turns
  <2>3. turn'[d] \in Turns
    BY <1>g, <2>1 DEF Turns, Reading
  <2>4. t.at = "materials" /\ t.package = Nothing /\ t.result = "none" /\ t.used = {}
    BY <1>g DEF ReadMaterials, Good, Ordered
  <2>5. met'[d].steady = met[d].steady \cap InForce
    BY <2>2, <2>4, MetRead DEF ReadMaterials, Reading
  <2>6. ReadSoFar(turn[d], met[d])'
    BY <2>2, <2>5, KeptSame DEF ReadSoFar, InForce, ReadMaterials
  <2>7. Ordered(turn[d])'
    BY <1>g, <2>2, <2>4 DEF Good, Ordered
  <2>8. SeenTogether(turn[d])'
    BY <1>g, <2>2, KeptSame DEF Good, SeenTogether, ReadMaterials
  <2> QED
    BY <2>2, <2>3, <2>4, <2>6, <2>7, <2>8 DEF NewTurn, Good, HasSource, ShownRight, Nothing, Shown
<1> QED
  BY <1>1, <1>2 DEF ReadMaterials

LEMMA ItemsStep ==
    ASSUME TypeInv, StoreInv, TurnInv, Meet, NEW d \in Dialogues, ReadItems(d)
    PROVE  NewTurn(d)
<1> DEFINE t == turn[d]
           Live == {i \in Used : lifecycle[i] = "active"}
<1>t. turn \in [Dialogues -> Turns] BY DEF TurnInv, AnswersType
<1>g. t \in Turns /\ Good(t, met[d])
  BY DEF TurnInv, AnswersType
<1>1. PICK seen \in {t.seen, Live}, broken \in {t.broken, TRUE} :
         /\ turn'[d] = [t EXCEPT !.at = "ambiguities", !.seen = seen, !.broken = broken]
         /\ broken \/ seen = Live
  <2>1. CASE Became(d, [[t EXCEPT !.at = "ambiguities"] EXCEPT !.seen = Live])
    <3>1. turn'[d] = [[t EXCEPT !.at = "ambiguities"] EXCEPT !.seen = Live]
      BY <1>t, <2>1, Becoming
    <3>2. turn'[d] = [t EXCEPT !.at = "ambiguities", !.seen = Live, !.broken = t.broken]
      BY <1>g, <3>1 DEF Turns
    <3> QED BY <3>2
  <2>2. CASE Became(d, [[t EXCEPT !.at = "ambiguities"] EXCEPT !.broken = TRUE])
    <3>1. turn'[d] = [[t EXCEPT !.at = "ambiguities"] EXCEPT !.broken = TRUE]
      BY <1>t, <2>2, Becoming
    <3>2. turn'[d] = [t EXCEPT !.at = "ambiguities", !.seen = t.seen, !.broken = TRUE]
      BY <1>g, <3>1 DEF Turns
    <3> QED BY <3>2
  <2> QED BY <2>1, <2>2 DEF ReadItems
<1>2. /\ turn'[d].at = "ambiguities" /\ turn'[d].seen = seen /\ turn'[d].broken = broken
      /\ turn'[d].path = t.path /\ turn'[d].package = t.package /\ turn'[d].used = t.used
      /\ turn'[d].have = t.have /\ turn'[d].result = t.result /\ turn'[d].calls = t.calls
  BY <1>g, <1>1 DEF Turns
<1>3. Live \subseteq Items BY DEF Used
<1>4. turn'[d] \in Turns
  BY <1>g, <1>1, <1>3 DEF Turns, Reading
<1>5. t.at = "items" /\ t.package = Nothing /\ t.result = "none" /\ t.used = {}
  BY <1>g DEF ReadItems, Good, Ordered
<1>6. met'[d].steady = met[d].steady \cap InForce
  BY <1>2, <1>5, MetRead DEF ReadItems, Reading
<1>7. InForce \subseteq Live
  BY DEF InForce
<1>8. ReadSoFar(turn[d], met[d])'
  BY <1>g, <1>1, <1>2, <1>5, <1>6, <1>7, KeptSame DEF ReadSoFar, Good, ReadItems
<1>9. Ordered(turn[d])'
  BY <1>g, <1>2, <1>5 DEF Good, Ordered
<1>10. SeenTogether(turn[d])'
  <2>1. \A i, j \in Live : SlotOf[origin[i]] = SlotOf[origin[j]] => i = j
    BY DEF StoreInv, OneActive
  <2> QED
    BY <1>g, <1>1, <1>2, <2>1, KeptSame DEF Good, SeenTogether, ReadItems
<1> QED
  BY <1>2, <1>4, <1>5, <1>8, <1>9, <1>10 DEF NewTurn, Good, HasSource, ShownRight, Nothing, Shown

LEMMA AmbiguitiesStep ==
    ASSUME TypeInv, TurnInv, Meet, NEW d \in Dialogues, ReadAmbiguities(d)
    PROVE  NewTurn(d)
<1> DEFINE t == turn[d]
<1>t. turn \in [Dialogues -> Turns] BY DEF TurnInv, AnswersType
<1>g. t \in Turns /\ Good(t, met[d])
  BY DEF TurnInv, AnswersType
<1>1. PICK found \in {t.found, ambiguity}, broken \in {t.broken, TRUE} :
         /\ turn'[d] = [t EXCEPT !.at = "packing", !.found = found, !.broken = broken]
         /\ broken = TRUE \/ (broken = t.broken /\ found = ambiguity)
  <2>1. CASE Became(d, [[t EXCEPT !.at = "packing"] EXCEPT !.found = ambiguity])
    <3>1. turn'[d] = [[t EXCEPT !.at = "packing"] EXCEPT !.found = ambiguity]
      BY <1>t, <2>1, Becoming
    <3>2. turn'[d] = [t EXCEPT !.at = "packing", !.found = ambiguity, !.broken = t.broken]
      BY <1>g, <3>1 DEF Turns
    <3> QED BY <3>2
  <2>2. CASE Became(d, [[t EXCEPT !.at = "packing"] EXCEPT !.broken = TRUE])
    <3>1. turn'[d] = [[t EXCEPT !.at = "packing"] EXCEPT !.broken = TRUE]
      BY <1>t, <2>2, Becoming
    <3>2. turn'[d] = [t EXCEPT !.at = "packing", !.found = t.found, !.broken = TRUE]
      BY <1>g, <3>1 DEF Turns
    <3> QED BY <3>2
  <2> QED BY <2>1, <2>2 DEF ReadAmbiguities
<1>2. /\ turn'[d].at = "packing" /\ turn'[d].found = found /\ turn'[d].broken = broken
      /\ turn'[d].path = t.path /\ turn'[d].package = t.package /\ turn'[d].used = t.used
      /\ turn'[d].have = t.have /\ turn'[d].result = t.result /\ turn'[d].calls = t.calls
      /\ turn'[d].seen = t.seen
  BY <1>g, <1>1 DEF Turns
<1>3. ambiguity \in Views
  BY DEF TypeInv, TypeOK, Marks, Views
<1>4. turn'[d] \in Turns
  <2>1. found \in Views /\ broken \in BOOLEAN
    BY <1>g, <1>3 DEF Turns
  <2>2. ASSUME NEW f \in Views, NEW b \in BOOLEAN
        PROVE  [t EXCEPT !.at = "packing", !.found = f, !.broken = b] \in Turns
    BY <1>g DEF Turns, Reading
  <2>3. [t EXCEPT !.at = "packing", !.found = found, !.broken = broken] \in Turns
    BY <2>1, <2>2
  <2>4. turn'[d] = [t EXCEPT !.at = "packing", !.found = found, !.broken = broken]
    BY <1>1
  <2> QED
    BY <2>3, <2>4
<1>5. t.at = "ambiguities" /\ t.package = Nothing /\ t.result = "none" /\ t.used = {}
  BY <1>g DEF ReadAmbiguities, Good, Ordered
<1>6. /\ met'[d].calm = met[d].calm \cup (Items \ Named(Disputes(ambiguity)))
      /\ met'[d].steady = met[d].steady \cap InForce
      /\ met'[d].stands = met[d].stands \cap Disputes(ambiguity)
  BY <1>2, <1>5, MetRead DEF ReadAmbiguities, Reading
<1>7. InForce \cap Named(Disputes(ambiguity)) = {}
  BY DEF InForce
<1>8. ReadSoFar(turn[d], met[d])'
  BY <1>g, <1>1, <1>2, <1>5, <1>6, <1>7, KeptSame DEF ReadSoFar, Good, ReadAmbiguities
<1>9. Ordered(turn[d])'
  BY <1>g, <1>2, <1>5 DEF Good, Ordered
<1>10. SeenTogether(turn[d])'
  BY <1>g, <1>2, KeptSame DEF Good, SeenTogether, ReadAmbiguities
<1> QED
  BY <1>2, <1>4, <1>5, <1>8, <1>9, <1>10 DEF NewTurn, Good, HasSource, ShownRight, Nothing, Shown

-----------------------------------------------------------------------------
(* What may be shown when the reads are over.                               *)

\* One item for each slot, at most.
LEMMA EligibleFits ==
    ASSUME TypeInv, NEW t \in Turns, SeenTogether(t), NEW E \in Bounded(Eligible(t))
    PROVE  E \subseteq Eligible(t) /\ (Roomy => E = Eligible(t))
<1> DEFINE S == Eligible(t)
           f == [i \in S |-> SlotOf[origin[i]]]
<1>1. S \subseteq t.seen /\ S \subseteq Used
  BY DEF Eligible, SeenTogether
<1>2. \A i \in S : SlotOf[origin[i]] \in Slots
  BY <1>1 DEF TypeInv, Rooted, Used
<1>3. \A i, j \in S : SlotOf[origin[i]] = SlotOf[origin[j]] => i = j
  BY <1>1 DEF SeenTogether
<1>4. f \in Injection(S, Slots)
  <2>1. f \in [S -> Slots] BY <1>2
  <2>2. IsInjective(f) BY <1>3 DEF IsInjective
  <2> QED BY <2>1, <2>2 DEF Injection
<1>5. IsFiniteSet(Slots) OBVIOUS
<1>6. IsFiniteSet(S) /\ Cardinality(S) <= Cardinality(Slots)
  BY <1>4, <1>5, FS_Injection
<1>7. Cardinality(S) \in Nat /\ Cardinality(Slots) \in Nat /\ MaxItems \in Nat
  BY <1>5, <1>6, FS_CardinalityType
<1>8. Roomy => Cardinality(S) <= MaxItems
  BY <1>6, <1>7 DEF Roomy
<1> QED
  BY <1>8 DEF Bounded

LEMMA EligibleRight ==
    ASSUME NEW t \in Turns, NEW m \in Mets, SeenTogether(t), ReadSoFar(t, m),
           t.at = "packing", ~t.broken
    PROVE  Eligible(t) \subseteq m.calm /\ m.steady \subseteq Eligible(t)
<1>1. Eligible(t) \subseteq Items \ Named(Disputes(t.found))
  BY DEF Eligible, Turns
<1>2. \A i \in m.steady : i \in t.seen /\ i \notin Named(Disputes(t.found))
  BY DEF ReadSoFar
<1>3. \A i \in m.steady : Rivals(t, i) = {i}
  BY <1>2 DEF Rivals, SeenTogether
<1> QED
  BY <1>1, <1>2, <1>3 DEF Eligible, ReadSoFar

LEMMA PackedFields ==
    ASSUME NEW t \in Turns, NEW p \in Packages
    PROVE  /\ Packed(t, p) \in Turns
           /\ Packed(t, p).package = p /\ Packed(t, p).seen = {}
           /\ Packed(t, p).path = t.path /\ Packed(t, p).asks = t.asks
           /\ Packed(t, p).have = t.have /\ Packed(t, p).broken = t.broken
           /\ Packed(t, p).calls = t.calls /\ Packed(t, p).used = t.used
           /\ Packed(t, p).result = t.result /\ Packed(t, p).route = "local"
<1>1. Unread \in Views
  BY DEF Unread, Views, Marks, Undisputed
<1> QED
  BY <1>1 DEF Packed, Turns

LEMMA PackHybridStep ==
    ASSUME TypeInv, TurnInv, Meet, NEW d \in Dialogues, PackHybrid(d)
    PROVE  NewTurn(d)
<1> DEFINE t == turn[d]
           m == met[d]
<1>t. turn \in [Dialogues -> Turns] BY DEF TurnInv, AnswersType
<1>g. t \in Turns /\ m \in Mets /\ Good(t, m) /\ t.at = "packing" /\ t.path = "hybrid"
  BY DEF TurnInv, AnswersType, PackHybrid
<1>0. PICK E \in Bounded(Eligible(t)), hits \in Hits(t) : \E relevant \in Related(E) :
         LET applies == Backed(t, Applicable(t, E))
             p == [Nothing EXCEPT !.sources = hits,
                                  !.authority = applies,
                                  !.overlay = Backed(t, relevant) \ applies]
         IN  IF p = Nothing THEN Refuse(d, "insufficient_evidence")
             ELSE Became(d, [Packed(t, p) EXCEPT !.at = "reasoning"])
  BY DEF PackHybrid
<1>1. PICK relevant \in Related(E) :
         LET applies == Backed(t, Applicable(t, E))
             p == [Nothing EXCEPT !.sources = hits,
                                  !.authority = applies,
                                  !.overlay = Backed(t, relevant) \ applies]
         IN  IF p = Nothing THEN Refuse(d, "insufficient_evidence")
             ELSE Became(d, [Packed(t, p) EXCEPT !.at = "reasoning"])
  BY <1>0
<1> DEFINE applies == Backed(t, Applicable(t, E))
           overlay == Backed(t, relevant) \ applies
           p == [Nothing EXCEPT !.sources = hits, !.authority = applies, !.overlay = overlay]
<1>2. CASE Refuse(d, "insufficient_evidence")
  BY <1>t, <1>2, Refused DEF Results
<1>3. CASE Became(d, [Packed(t, p) EXCEPT !.at = "reasoning"])
  <2>1. E \subseteq Eligible(t) /\ (Roomy => E = Eligible(t)) /\ Eligible(t) \subseteq t.seen
    BY <1>g, EligibleFits DEF Good, Eligible
  <2>2. /\ p.sources = hits /\ p.authority = applies /\ p.overlay = overlay /\ p.sides = {}
    BY DEF Nothing
  <2>3. /\ hits \subseteq t.have /\ applies \subseteq E /\ overlay \subseteq E
        /\ applies \cap overlay = {}
        /\ \A i \in applies \cup overlay : VersionOf[origin[i]] \in t.have
    BY DEF Hits, Backed, Applicable, Related
  <2>4. p \in Packages
    BY <1>g, <2>1, <2>3 DEF Nothing, Packages, Turns
  <2> HIDE DEF p, applies, overlay
  <2>5. turn'[d] = [Packed(t, p) EXCEPT !.at = "reasoning"]
    BY <1>t, <1>3, Becoming
  <2>6. /\ turn'[d] \in Turns
        /\ turn'[d].at = "reasoning" /\ turn'[d].package = p /\ turn'[d].seen = {}
        /\ turn'[d].path = t.path /\ turn'[d].asks = t.asks /\ turn'[d].have = t.have
        /\ turn'[d].broken = t.broken /\ turn'[d].calls = t.calls /\ turn'[d].used = t.used
        /\ turn'[d].result = t.result
    <3>1. Packed(t, p) \in Turns
      BY <1>g, <2>4, PackedFields
    <3>2. /\ turn'[d] \in Turns /\ turn'[d].at = "reasoning"
          /\ turn'[d].package = Packed(t, p).package /\ turn'[d].seen = Packed(t, p).seen
          /\ turn'[d].path = Packed(t, p).path /\ turn'[d].asks = Packed(t, p).asks
          /\ turn'[d].have = Packed(t, p).have /\ turn'[d].broken = Packed(t, p).broken
          /\ turn'[d].calls = Packed(t, p).calls /\ turn'[d].used = Packed(t, p).used
          /\ turn'[d].result = Packed(t, p).result
      BY <2>5, <3>1 DEF Turns
    <3> QED
      BY <1>g, <2>4, <3>2, PackedFields
  <2>7. t.result = "none" /\ t.used = {} /\ t.calls = 0
    BY <1>g DEF Good, Ordered
  <2>8. met'[d] = m
    BY <1>g, <2>6, <2>7, MetKept DEF Reading
  <2> QED
    <3>1. Ordered(turn[d])'
      BY <1>g, <2>6, <2>7 DEF Ordered
    <3>2. SeenTogether(turn[d])'
      BY <1>g, <2>1, <2>2, <2>3, <2>6, KeptSame
         DEF SeenTogether, Shown, PackHybrid, Good
    <3>3. HasSource(turn[d])'
      BY <1>g, <2>2, <2>3, <2>6, <2>7, KeptSame DEF HasSource, Shown, PackHybrid
    <3>4. ReadSoFar(turn[d], met[d])'
      BY <1>g, <2>6, <2>8, KeptSame DEF ReadSoFar, PackHybrid, Good
    <3>5. ShownRight(turn[d], met[d])'
      <4> SUFFICES ASSUME ~t.broken
                   PROVE  /\ applies \cup overlay \subseteq m.calm
                          /\ Roomy => Due(t, m) \subseteq applies
        BY <1>g, <2>2, <2>6, <2>7, <2>8, KeptSame DEF ShownRight, Shown, PackHybrid, Due
      <4>1. Eligible(t) \subseteq m.calm /\ m.steady \subseteq Eligible(t)
        BY <1>g, EligibleRight DEF Good
      <4>2. \A i \in m.steady : VersionOf[origin[i]] \in t.have
        BY <1>g DEF Good, ReadSoFar
      <4>3. Roomy => Due(t, m) \subseteq applies
        BY <2>1, <4>1, <4>2 DEF Due, applies, Backed, Applicable
      <4> QED
        BY <2>1, <2>3, <4>1, <4>3
    <3> QED
      BY <2>6, <3>1, <3>2, <3>3, <3>4, <3>5 DEF NewTurn, Good
<1> QED
  BY <1>1, <1>2, <1>3

LEMMA PackLegacyStep ==
    ASSUME TypeInv, TurnInv, Meet, NEW d \in Dialogues, PackLegacy(d)
    PROVE  NewTurn(d)
<1> DEFINE t == turn[d]
           m == met[d]
<1>t. turn \in [Dialogues -> Turns] BY DEF TurnInv, AnswersType
<1>g. t \in Turns /\ m \in Mets /\ Good(t, m) /\ t.at = "packing" /\ t.path = "legacy"
  BY DEF TurnInv, AnswersType, PackLegacy
<1>0. PICK E \in Bounded(Eligible(t)), rest \in BOOLEAN, long \in BOOLEAN :
       \E authority \in SUBSET E, sides \in SUBSET Sides(t) :
         LET p == [Nothing EXCEPT !.authority = authority, !.sides = sides]
             u == [Packed(t, p) EXCEPT !.route = RouteFor(Handling(E, Sides(t)))]
             less == ~rest \/ authority # E \/ sides # Sides(t)
         IN  \/ Fits(less, long) /\ Became(d, [u EXCEPT !.at = "asking"])
             \/ ~Fits(less, long) /\ Refuse(d, "oversize")
             \/ Refuse(d, "raised")
  BY DEF PackLegacy
<1>1. PICK authority \in SUBSET E, sides \in SUBSET Sides(t) :
         LET p == [Nothing EXCEPT !.authority = authority, !.sides = sides]
             u == [Packed(t, p) EXCEPT !.route = RouteFor(Handling(E, Sides(t)))]
             less == ~rest \/ authority # E \/ sides # Sides(t)
         IN  \/ Fits(less, long) /\ Became(d, [u EXCEPT !.at = "asking"])
             \/ ~Fits(less, long) /\ Refuse(d, "oversize")
             \/ Refuse(d, "raised")
  BY <1>0
<1> DEFINE p == [Nothing EXCEPT !.authority = authority, !.sides = sides]
           u == [Packed(t, p) EXCEPT !.route = RouteFor(Handling(E, Sides(t)))]
<1>2. CASE Refuse(d, "oversize") \/ Refuse(d, "raised")
  BY <1>t, <1>2, Refused DEF Results
<1>3. CASE /\ authority = E /\ sides = Sides(t)
           /\ Became(d, [u EXCEPT !.at = "asking"])
  <2>1. E \subseteq Eligible(t) /\ (Roomy => E = Eligible(t)) /\ Eligible(t) \subseteq t.seen
    BY <1>g, EligibleFits DEF Good, Eligible
  <2>2. /\ p.authority = E /\ p.overlay = {} /\ p.sources = {} /\ p.sides = Sides(t)
    BY <1>3 DEF Nothing
  <2>3. Sides(t) \subseteq Marks
    <3>1. \A i \in t.seen : i \in Items /\ origin[i] \in Candidates
      BY <1>g DEF Good, SeenTogether, TypeInv, Rooted, Used
    <3>2. Disputes(t.found) \subseteq Marks
      BY <1>g DEF Turns, Views, Disputes
    <3>3. \A i \in t.seen : \A j \in Rivals(t, i) : [item |-> i, candidate |-> origin[j]] \in Marks
      BY <3>1 DEF Rivals, Marks
    <3> QED
      BY <3>2, <3>3 DEF Sides
  <2>4. p \in Packages
    BY <1>3, <1>g, <2>1, <2>3 DEF Nothing, Packages, Turns
  <2>5. RouteFor(Handling(E, Sides(t))) = "local"
    <3>1. "unknown" \in Handling(E, Sides(t)) BY DEF Handling
    <3>2. ~(Handling(E, Sides(t)) \subseteq {"standard"}) BY <3>1
    <3> QED BY <3>2 DEF RouteFor
  <2> HIDE DEF p
  <2>6. turn'[d] = [u EXCEPT !.at = "asking"]
    BY <1>t, <1>3, Becoming
  <2>7. [u EXCEPT !.at = "asking"] = [Packed(t, p) EXCEPT !.at = "asking"]
    <3>1. Packed(t, p).route = "local" /\ Packed(t, p) \in Turns
      BY <1>g, <2>4 DEF Packed, Turns, Unread, Views, Marks, Undisputed
    <3>2. u = Packed(t, p)
      BY <2>5, <3>1 DEF Turns
    <3> QED BY <3>2
  <2> HIDE DEF u
  <2>8. /\ turn'[d] \in Turns
        /\ turn'[d].at = "asking" /\ turn'[d].package = p /\ turn'[d].seen = {}
        /\ turn'[d].path = t.path /\ turn'[d].asks = t.asks /\ turn'[d].have = t.have
        /\ turn'[d].broken = t.broken /\ turn'[d].calls = t.calls /\ turn'[d].used = t.used
        /\ turn'[d].result = t.result
    <3>1. turn'[d] = [Packed(t, p) EXCEPT !.at = "asking"] /\ Packed(t, p) \in Turns
      BY <1>g, <2>4, <2>6, <2>7, PackedFields
    <3>2. /\ turn'[d] \in Turns /\ turn'[d].at = "asking"
          /\ turn'[d].package = Packed(t, p).package /\ turn'[d].seen = Packed(t, p).seen
          /\ turn'[d].path = Packed(t, p).path /\ turn'[d].asks = Packed(t, p).asks
          /\ turn'[d].have = Packed(t, p).have /\ turn'[d].broken = Packed(t, p).broken
          /\ turn'[d].calls = Packed(t, p).calls /\ turn'[d].used = Packed(t, p).used
          /\ turn'[d].result = Packed(t, p).result
      BY <3>1 DEF Turns
    <3> QED
      BY <1>g, <2>4, <3>2, PackedFields
  <2>9. t.result = "none" /\ t.used = {} /\ t.calls = 0
    BY <1>g DEF Good, Ordered
  <2>10. met'[d] = m
    BY <1>g, <2>8, <2>9, MetKept DEF Reading
  <2>11. Ordered(turn[d])'
    BY <1>g, <2>8, <2>9 DEF Ordered
  <2>12. SeenTogether(turn[d])'
    BY <1>g, <2>1, <2>2, <2>8, KeptSame DEF SeenTogether, Shown, PackLegacy, Good
  <2>13. HasSource(turn[d])'
    BY <1>g, <2>2, <2>8, <2>9, KeptSame DEF HasSource, Shown, PackLegacy
  <2>14. ReadSoFar(turn[d], met[d])'
    BY <1>g, <2>8, <2>10, KeptSame DEF ReadSoFar, PackLegacy, Good
  <2>15. ShownRight(turn[d], met[d])'
    <3> SUFFICES ASSUME ~t.broken
                 PROVE  /\ E \subseteq m.calm
                        /\ m.stands \subseteq Sides(t)
                        /\ Roomy => m.steady \subseteq E
      BY <1>g, <2>2, <2>8, <2>9, <2>10, KeptSame DEF ShownRight, Shown, PackLegacy, Due
    <3>1. Eligible(t) \subseteq m.calm /\ m.steady \subseteq Eligible(t)
      BY <1>g, EligibleRight DEF Good
    <3>2. m.stands \subseteq Sides(t)
      BY <1>g DEF Good, ReadSoFar, Sides
    <3> QED
      BY <2>1, <3>1, <3>2
  <2> QED
    BY <2>8, <2>11, <2>12, <2>13, <2>14, <2>15 DEF NewTurn, Good
<1> QED
  BY <1>1, <1>2, <1>3 DEF Fits

LEMMA ReasonStep ==
    ASSUME TypeInv, TurnInv, Meet, NEW d \in Dialogues, Reason(d)
    PROVE  NewTurn(d)
<1> DEFINE t == turn[d]
           m == met[d]
<1>t. turn \in [Dialogues -> Turns] BY DEF TurnInv, AnswersType
<1>g. t \in Turns /\ m \in Mets /\ Good(t, m) /\ t.at = "reasoning"
  BY DEF TurnInv, AnswersType, Reason
<1>1. CASE \E reason \in Results \ {"none", "success"} : Refuse(d, reason)
  BY <1>t, <1>1, Refused
<1>2. CASE \E facts \in SUBSET (Items \cup Versions) :
             /\ Verdict(t.package, facts) = "success"
             /\ Succeed(d, [[t EXCEPT !.calls = @ + 1] EXCEPT !.used = facts])
  <2>1. PICK facts \in SUBSET (Items \cup Versions) :
             /\ Verdict(t.package, facts) = "success"
             /\ Succeed(d, [[t EXCEPT !.calls = @ + 1] EXCEPT !.used = facts])
    BY <1>2
  <2>2. facts \subseteq Citable(t.package)
        /\ (t.package.authority # {} => t.package.authority \cap facts # {})
    BY <2>1 DEF Verdict
  <2>3. t.calls = 0 /\ t.path = "hybrid"
    BY <1>g DEF Good, Ordered
  <2>4. turn'[d] = [[[t EXCEPT !.calls = @ + 1] EXCEPT !.used = facts]
                      EXCEPT !.at = "told", !.result = "success"]
    BY <1>t, <2>1, Becoming DEF Succeed
  <2> DEFINE v == [t EXCEPT !.calls = 1, !.used = facts, !.at = "told", !.result = "success"]
  <2>12. turn'[d] = v
    <3>1. [[t EXCEPT !.calls = @ + 1] EXCEPT !.used = facts] = [t EXCEPT !.calls = 1, !.used = facts]
      BY <1>g, <2>3 DEF Turns
    <3>2. [[t EXCEPT !.calls = 1, !.used = facts] EXCEPT !.at = "told", !.result = "success"] = v
      BY <1>g DEF Turns
    <3> QED BY <2>4, <3>1, <3>2
  <2>5. /\ turn'[d] \in Turns
        /\ turn'[d].at = "told" /\ turn'[d].package = t.package /\ turn'[d].seen = t.seen
        /\ turn'[d].path = t.path /\ turn'[d].asks = t.asks /\ turn'[d].have = t.have
        /\ turn'[d].broken = t.broken /\ turn'[d].used = facts
        /\ turn'[d].result = "success"
    <3>1. v \in Turns
      <4>1. "success" \in Results BY DEF Results
      <4>2. 1 \in 0..2 OBVIOUS
      <4>3. facts \in SUBSET (Items \cup Versions) OBVIOUS
      <4>4. ASSUME NEW res \in Results, NEW n \in 0..2, NEW f \in SUBSET (Items \cup Versions)
            PROVE  [t EXCEPT !.calls = n, !.used = f, !.at = "told", !.result = res] \in Turns
        BY <1>g DEF Turns
      <4> QED BY <4>1, <4>2, <4>3, <4>4
    <3>2. /\ v.at = "told" /\ v.package = t.package /\ v.seen = t.seen
          /\ v.path = t.path /\ v.asks = t.asks /\ v.have = t.have
          /\ v.broken = t.broken /\ v.used = facts /\ v.result = "success"
      BY <1>g DEF Turns
    <3> HIDE DEF v
    <3> QED BY <2>12, <3>1, <3>2
  <2>6. met'[d] = m
    BY <1>g, <2>5, MetKept DEF Reading
  <2>7. Ordered(turn[d])'
    BY <2>3, <2>5 DEF Ordered
  <2>8. SeenTogether(turn[d])'
    BY <1>g, <2>5, KeptSame DEF Good, SeenTogether, Reason
  <2>9. HasSource(turn[d])'
    BY <1>g, <2>2, <2>5, KeptSame DEF Good, HasSource, Reason
  <2>10. ReadSoFar(turn[d], met[d])'
    BY <1>g, <2>5, <2>6, KeptSame DEF Good, ReadSoFar, Reason
  <2>11. ShownRight(turn[d], met[d])'
    <3>1. Due(turn[d], met[d])' = Due(t, m)
      BY <2>5, <2>6, KeptSame DEF Due, Reason
    <3> QED
      BY <1>g, <2>2, <2>5, <2>6, <3>1 DEF Good, ShownRight
  <2> QED
    BY <2>5, <2>7, <2>8, <2>9, <2>10, <2>11 DEF NewTurn, Good
<1>3. {"reasoning_failed", "provenance_unresolved", "current_authority_not_used"}
        \subseteq Results \ {"none", "success"}
  BY DEF Results
<1>4. \A facts : Verdict(t.package, facts) \in
        {"reasoning_failed", "provenance_unresolved", "current_authority_not_used", "success"}
  BY DEF Verdict
<1>5. CASE Refuse(d, "reasoning_failed")
  BY <1>1, <1>3, <1>5
<1>6. ASSUME NEW facts \in SUBSET (Items \cup Versions), Verdict(t.package, facts) # "success",
             Refuse(d, Verdict(t.package, facts))
      PROVE  NewTurn(d)
  BY <1>1, <1>3, <1>4, <1>6
<1>7. [t EXCEPT !.calls = @ + 1].package = t.package
  BY <1>g DEF Turns
<1>8. \/ Refuse(d, "reasoning_failed")
      \/ \E facts \in SUBSET (Items \cup Versions) :
           IF Verdict(t.package, facts) = "success"
             THEN Succeed(d, [[t EXCEPT !.calls = @ + 1] EXCEPT !.used = facts])
             ELSE Refuse(d, Verdict(t.package, facts))
  BY <1>7 DEF Reason
<1> QED
  BY <1>2, <1>5, <1>6, <1>8

\* A turn of the legacy path that goes on or succeeds.
LEMMA AskStep ==
    ASSUME TypeInv, TurnInv, Meet, NEW d \in Dialogues, Ask(d) \/ AskPlain(d) \/ Misrouted(d)
    PROVE  NewTurn(d)
<1> DEFINE t == turn[d]
           m == met[d]
           u == [t EXCEPT !.calls = @ + 1]
<1>t. turn \in [Dialogues -> Turns] BY DEF TurnInv, AnswersType
<1>g. /\ t \in Turns /\ m \in Mets /\ Good(t, m)
      /\ t.at \in {"asking", "plain"}
  BY DEF TurnInv, AnswersType, Ask, AskPlain, Misrouted
<1>k. /\ Kept
      /\ \/ Refuse(d, "provider_message") \/ Refuse(d, "runtime_message")
         \/ Succeed(d, u)
         \/ Became(d, u) /\ u.calls = 1 /\ t.at = "asking"
  BY DEF Ask, AskPlain, Misrouted, Recover
<1>1. CASE Refuse(d, "provider_message") \/ Refuse(d, "runtime_message")
  BY <1>t, <1>1, Refused DEF Results
<1>2. CASE Succeed(d, u) \/ (Became(d, u) /\ u.calls = 1 /\ t.at = "asking")
  <2>1. t.calls <= 1 /\ t.used = {} /\ t.path = "legacy" /\ t.result = "none"
    BY <1>g DEF Good, Ordered
  <2>2. PICK to \in {"told", "asking"}, result \in {"none", "success"} :
          /\ turn'[d] = [u EXCEPT !.at = to, !.result = result]
          /\ to = "told" <=> result = "success"
          /\ to = "asking" => t.at = "asking" /\ u.calls = 1
    <3>1. CASE Succeed(d, u)
      <4>1. turn'[d] = [u EXCEPT !.at = "told", !.result = "success"]
        BY <1>t, <3>1, Becoming DEF Succeed
      <4> QED BY <4>1
    <3>2. CASE Became(d, u) /\ u.calls = 1 /\ t.at = "asking"
      <4>1. turn'[d] = u
        BY <1>t, <3>2, Becoming
      <4>2. u = [u EXCEPT !.at = "asking", !.result = "none"]
        BY <1>g, <2>1, <3>2 DEF Turns
      <4> QED BY <3>2, <4>1, <4>2
    <3> QED BY <1>2, <3>1, <3>2
  <2>3. u.calls = t.calls + 1 /\ u.calls \in 0..2
    BY <1>g, <2>1 DEF Turns
  <2>4. /\ turn'[d] \in Turns
        /\ turn'[d].at = to /\ turn'[d].package = t.package /\ turn'[d].seen = t.seen
        /\ turn'[d].path = t.path /\ turn'[d].asks = t.asks /\ turn'[d].have = t.have
        /\ turn'[d].broken = t.broken /\ turn'[d].used = {} /\ turn'[d].calls = u.calls
        /\ turn'[d].result = result
    BY <1>g, <2>1, <2>2, <2>3 DEF Turns, Results, Reading
  <2>5. met'[d] = m
    BY <1>g, <2>2, <2>4, MetKept DEF Reading
  <2>6. Ordered(turn[d])'
    BY <1>g, <2>1, <2>2, <2>4 DEF Good, Ordered
  <2>7. SeenTogether(turn[d])'
    BY <1>g, <1>k, <2>4, KeptSame DEF Good, SeenTogether
  <2>8. HasSource(turn[d])'
    BY <1>g, <1>k, <2>1, <2>4, KeptSame DEF Good, HasSource
  <2>9. ReadSoFar(turn[d], met[d])'
    BY <1>g, <1>k, <2>2, <2>4, <2>5, KeptSame DEF Good, ReadSoFar
  <2>10. ShownRight(turn[d], met[d])'
    BY <1>g, <2>1, <2>2, <2>4, <2>5 DEF Good, ShownRight
  <2> QED
    BY <2>4, <2>6, <2>7, <2>8, <2>9, <2>10 DEF NewTurn, Good
<1> QED
  BY <1>k, <1>1, <1>2

LEMMA AnswerStep ==
    ASSUME TypeInv, StoreInv, TurnInv, Meet, NEW d \in Dialogues, Answer(d)
    PROVE  NewTurn(d)
<1>t. turn \in [Dialogues -> Turns] BY DEF TurnInv, AnswersType
<1>1. CASE Finish(d)
  BY <1>t, <1>1, Becoming, Idle DEF Finish
<1> QED
  BY <1>1, MaterialsStep, ItemsStep, AmbiguitiesStep, PackHybridStep, ReasonStep,
     PackLegacyStep, AskStep DEF Answer

\* The other turns are as they were.
LEMMA OthersStay ==
    ASSUME NEW d \in Dialogues,
           \/ Answer(d)
           \/ \E path \in {"hybrid", "legacy"}, known \in BOOLEAN, asks \in SUBSET Addressed :
                Begin(d, path, known, asks)
    PROVE  Kept /\ \E t : Became(d, t)
  BY DEF Answer, Begin, ReadMaterials, ReadItems, ReadAmbiguities, PackHybrid, Reason,
     PackLegacy, Misrouted, Ask, AskPlain, Finish, Refuse, Succeed

-----------------------------------------------------------------------------
(* The invariant.                                                           *)

AnswersInv == TypeInv /\ StoreInv /\ TurnInv

LEMMA AnswersMoves ==
    ASSUME [AnswersNext]_all
    PROVE  [Next]_vars
<1>1. CASE Store
  BY <1>1 DEF Store, Next
<1>2. CASE Kill
  BY <1>2 DEF Kill, Next
<1>3. CASE UNCHANGED all \/ \E v \in Versions : ReplaceVersion(v)
  BY <1>3 DEF all, ReplaceVersion
<1>4. ASSUME NEW d \in Dialogues,
             \/ Answer(d)
             \/ \E path \in {"hybrid", "legacy"}, known \in BOOLEAN, asks \in SUBSET Addressed :
                  Begin(d, path, known, asks)
      PROVE  UNCHANGED vars
  BY <1>4, OthersStay DEF Kept
<1> QED
  BY <1>1, <1>2, <1>3, <1>4 DEF AnswersNext

LEMMA NextTurn ==
    ASSUME TypeInv, StoreInv, TurnInv, TypeInv', StoreMoves, [AnswersNext]_all
    PROVE  TurnInv'
<1>t. turn \in [Dialogues -> Turns] /\ met \in [Dialogues -> Mets] /\ current \subseteq Versions
  BY DEF TurnInv, AnswersType
<1>1. CASE UNCHANGED all
  <2>1. /\ current' = current /\ turn' = turn /\ met' = met
        /\ lifecycle' = lifecycle /\ origin' = origin /\ UNCHANGED vars
    BY <1>1 DEF all, reading, vars
  <2> QED
    BY <2>1 DEF TurnInv, AnswersType, Good, Ordered, SeenTogether, HasSource, ReadSoFar,
       ShownRight, Due, Used
<1>2. CASE AnswersNext
  <2>1. met' \in [Dialogues -> Mets]
    BY <1>t, <1>2, MetType DEF AnswersNext
  <2>2. ASSUME UNCHANGED turn
        PROVE  \A d \in Dialogues : NewTurn(d)
    BY <1>2, <1>t, <2>2, StandStill DEF NewTurn, AnswersNext
  <2>3. CASE Store
    BY <2>1, <2>2, <2>3, <1>t DEF Store, TurnInv, AnswersType, NewTurn
  <2>4. CASE \E v \in Versions : ReplaceVersion(v)
    BY <2>1, <2>2, <2>4, <1>t DEF ReplaceVersion, TurnInv, AnswersType, NewTurn
  <2>5. CASE Kill
    <3>1. \A d \in Dialogues : NewTurn(d)
      BY <1>2, <2>5, Idle DEF Kill, AnswersNext
    <3> QED
      BY <2>1, <2>5, <3>1, <1>t, NoTurnType DEF Kill, TurnInv, AnswersType, NewTurn
  <2>6. ASSUME NEW d \in Dialogues,
               \/ Answer(d)
               \/ \E path \in {"hybrid", "legacy"}, known \in BOOLEAN, asks \in SUBSET Addressed :
                    Begin(d, path, known, asks)
        PROVE  TurnInv'
    <3>1. PICK t : Became(d, t)
      BY <2>6, OthersStay
    <3>2. NewTurn(d)
      BY <1>2, <2>6, AnswerStep, BeginStep DEF AnswersNext
    <3>3. \A e \in Dialogues \ {d} : NewTurn(e)
      BY <1>t, <1>2, <3>1, Becoming, StandStill DEF NewTurn, AnswersNext
    <3>4. turn' \in [Dialogues -> Turns]
      BY <1>t, <3>1, <3>2, <3>3 DEF NewTurn, Became
    <3>5. current' = current
      BY <2>6, OthersStay DEF Kept
    <3> QED
      BY <1>t, <2>1, <3>2, <3>3, <3>4, <3>5 DEF TurnInv, AnswersType, NewTurn
  <2> QED
    BY <1>2, <2>3, <2>4, <2>5, <2>6 DEF AnswersNext
<1> QED
  BY <1>1, <1>2

LEMMA InitTurn == NoTurns => TurnInv
<1> SUFFICES ASSUME NoTurns PROVE TurnInv
  OBVIOUS
<1>1. NotMet \in Mets BY DEF NotMet, Mets
<1>2. AnswersType
  BY <1>1, NoTurnType DEF NoTurns, AnswersType
<1>3. \A d \in Dialogues : turn[d] = NoTurn /\ met[d] = NotMet
  BY DEF NoTurns
<1>4. Good(NoTurn, NotMet)
  BY DEF Good, Ordered, SeenTogether, HasSource, ReadSoFar, ShownRight, Due, NotMet,
     Nothing, Shown, NoTurn
<1> QED
  BY <1>2, <1>3, <1>4 DEF TurnInv

LEMMA AnswersSafety == AnswersSpec => []AnswersInv
<1>1. Init /\ NoTurns => AnswersInv
  BY InitType, InitStore, InitTurn DEF AnswersInv
<1>2. AnswersInv /\ [AnswersNext]_all => AnswersInv'
  <2> SUFFICES ASSUME AnswersInv, [AnswersNext]_all PROVE AnswersInv'
    OBVIOUS
  <2>1. TypeInv /\ StoreInv /\ TurnInv /\ [Next]_vars
    BY AnswersMoves DEF AnswersInv
  <2>2. TypeInv' /\ StoreInv' /\ StoreMoves
    BY <2>1, NextType, NextStore, NextMoves
  <2>3. TurnInv'
    BY <2>1, <2>2, NextTurn
  <2> QED
    BY <2>2, <2>3 DEF AnswersInv
<1> QED
  BY <1>1, <1>2, PTL DEF AnswersSpec

\* However the review, the bridge and the kills fall between the reads of a
\* turn, an item that was in dispute all the time it was read is not shown as
\* one that holds, provided that the disputes could be read.
THEOREM DisputesRespected == AnswersSpec => []DisputedNotShown
<1>1. AnswersInv => DisputedNotShown
  BY DEF AnswersInv, TurnInv, Good, ShownRight, DisputedNotShown
<1> QED
  BY <1>1, AnswersSafety, PTL

\* The legacy path never asks the model with less than what held and what was
\* in dispute all the time it was read: it refuses the turn instead.
THEOREM WholeOrRefused == AnswersSpec => []NothingLeftOut
<1>1. AnswersInv => NothingLeftOut
  BY DEF AnswersInv, TurnInv, Good, ShownRight, Roomy, NothingLeftOut
<1> QED
  BY <1>1, AnswersSafety, PTL

\* A hybrid answer that succeeds uses a reviewed decision that applied all
\* the time it was read, rests on no item whose source was not at hand, and
\* no question leaves the machine.
THEOREM GroundedAnswers == AnswersSpec => []HybridGrounded
<1>1. AnswersInv => HybridGrounded
  <2> SUFFICES ASSUME AnswersInv PROVE HybridGrounded
    OBVIOUS
  <2>1. /\ current \subseteq Versions
        /\ \A d \in Dialogues : turn[d] \in Turns /\ Good(turn[d], met[d])
    BY DEF AnswersInv, TurnInv, AnswersType
  <2>2. TurnOK
    <3> SUFFICES ASSUME NEW d \in Dialogues
                 PROVE  /\ turn[d] \in Turns
                        /\ turn[d].seen \subseteq Used
                        /\ turn[d].package.sources \subseteq turn[d].have
                        /\ Shown(turn[d].package) \subseteq Used
                        /\ turn[d].package.authority \cap turn[d].package.overlay = {}
      BY <2>1 DEF TurnOK, Turns
    <3> QED
      BY <2>1 DEF Good, SeenTogether, HasSource
  <2>3. AuthorityApplied
    BY <2>1 DEF Good, ShownRight, Roomy, Due, AuthorityApplied
  <2>4. UsedHasSource
    <3> SUFFICES ASSUME NEW d \in Dialogues, NEW i \in turn[d].used \cap Items
                 PROVE  VersionOf[origin[i]] \in turn[d].have
      BY DEF UsedHasSource
    <3>1. turn[d].path = "hybrid"
      BY <2>1 DEF Good, Ordered, Turns
    <3>2. turn[d].package.sources \subseteq Versions
      BY <2>1 DEF Good, HasSource, Turns
    <3>3. i \in Shown(turn[d].package)
      BY <2>1, <3>2 DEF Good, HasSource, Citable, Shown
    <3> QED
      BY <2>1, <3>1, <3>3 DEF Good, HasSource
  <2>5. StaysLocal
    BY <2>1 DEF StaysLocal, Turns
  <2> QED
    BY <2>2, <2>3, <2>4, <2>5 DEF HybridGrounded
<1> QED
  BY <1>1, AnswersSafety, PTL
=============================================================================
