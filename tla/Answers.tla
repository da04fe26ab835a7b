------------------------------- MODULE Answers -------------------------------
(***************************************************************************)
(* How a turn of a dialogue is answered while the operational context it   *)
(* reads is being reviewed: the hybrid path (hybrid_answer_service.py,     *)
(* hybrid_read_path.py, hybrid_reasoning.py, source_evidence.py) and the   *)
(* legacy one (operational_context_retrieval.py, _assembler.py,            *)
(* _runtime.py, privacy_boundary.py, local_llm.py).                        *)
(*                                                                         *)
(* A turn reads the registry, the items and the ambiguities one after the  *)
(* other and takes no lock; every action of OperationalContext may come in *)
(* between.  What a text is relevant to, how long it is and what the model *)
(* replies is chosen freely.                                               *)
(***************************************************************************)
EXTENDS OperationalContext

CONSTANTS
    Dialogues,    \* turns that are answered at the same time
    Versions,     \* cleaned texts of sources, sanitized_id
    VersionOf,    \* provenance.source_ref of a candidate
    Addressed,    \* candidates with a reviewed authority_scope
    Sensitivity,  \* the sensitivity of a candidate
    MaxItems      \* RetrievalRequest.max_items: 100 in the code

ASSUME AnswersAssumption ==
    /\ VersionOf \in [Candidates -> Versions]
    /\ Addressed \subseteq Candidates
    /\ Sensitivity \in [Candidates -> {"standard", "restricted", "unknown"}]
    /\ MaxItems \in Nat
    /\ IsFiniteSet(Slots)
    /\ Items \cap Versions = {}   \* ids of their own: oc_... and san_...

VARIABLES
    current,   \* versions that are current and have their file
    turn,      \* memory of a turn
    met        \* history: what the store held while the turn was reading

reading == <<current, turn, met>>
all     == <<vars, reading>>

-----------------------------------------------------------------------------
Unread   == [s \in Slots |-> Undisputed]
Nothing  == [sources |-> {}, authority |-> {}, overlay |-> {}, sides |-> {}]
NoTurn   == [at |-> "idle", path |-> "hybrid", asks |-> {}, have |-> {}, seen |-> {},
             found |-> Unread, broken |-> FALSE, package |-> Nothing,
             route |-> "local", calls |-> 0, used |-> {}, result |-> "none"]
Reading  == {"materials", "items", "ambiguities"}

Disputes(f) == {f[s] : s \in Slots} \ {Undisputed}
Named(D)    == {x.item : x \in D}

Became(d, t) == turn' = [turn EXCEPT ![d] = t]

\* The message that stands for an answer.
RefuseUntold(d, reason) == Became(d, [turn[d] EXCEPT !.calls = 0])
Refuse(d, reason) == Became(d, [NoTurn EXCEPT !.at = "told", !.result = reason])

Succeed(d, t) == Became(d, [t EXCEPT !.at = "told", !.result = "success"])

\* What the package was made from is not looked at again.
Packed(t, p) == [t EXCEPT !.package = p, !.seen = {}, !.found = Unread]

Kept == UNCHANGED <<vars, current>>

-----------------------------------------------------------------------------
(* Which path, and does the project have a workspace.                       *)

Begin(d, path, known, asks) ==
    LET t == [NoTurn EXCEPT !.path = path, !.asks = asks] IN
    /\ turn[d].at = "idle"
    /\ path = "legacy" => asks = {}
    /\ IF known THEN Became(d, [t EXCEPT !.at = IF path = "hybrid" THEN "materials"
                                                                   ELSE "items"])
       ELSE IF path = "hybrid" THEN Refuse(d, "workspace_resolution_failed")
                               ELSE Became(d, [t EXCEPT !.at = "plain"])
    /\ Kept

\* SourceEvidenceReader.inventory: one read of the registry.
ReadMaterials(d) ==
    LET t == turn[d] IN
    /\ t.at = "materials"
    /\ \/ Became(d, [t EXCEPT !.at = "items", !.have = current])
       \/ Refuse(d, "source_registry_unavailable")
    /\ Kept

\* list_scope; a partition that cannot be read counts as an empty one.
ReadItems(d) ==
    LET t == [turn[d] EXCEPT !.at = "ambiguities"] IN
    /\ turn[d].at = "items"
    /\ \/ Became(d, [t EXCEPT !.seen = {i \in Used : lifecycle[i] = "active"}])
       \/ Became(d, [t EXCEPT !.broken = TRUE])
    /\ Kept

\* authority_ambiguities, and get for each of them: an item is never deleted,
\* so only its text is taken from there.
ReadAmbiguities(d) ==
    LET t == [turn[d] EXCEPT !.at = "packing"] IN
    /\ turn[d].at = "ambiguities"
    /\ \/ Became(d, [t EXCEPT !.found = ambiguity])
       \/ Became(d, [t EXCEPT !.broken = TRUE])
    /\ Kept

\* The active items that no dispute names and that share their slot with
\* nobody.
Rivals(t, i) == {j \in t.seen : SlotOf[origin[j]] = SlotOf[origin[i]]}

EligibleUnasked(t) == {i \in t.seen : Rivals(t, i) = {i}}
Eligible(t) == {i \in t.seen : i \notin Named(Disputes(t.found)) /\ Rivals(t, i) = {i}}

\* The budget leaves whole items out.
Bounded(E) == IF Cardinality(E) <= MaxItems THEN {E}
              ELSE {K \in SUBSET E : Cardinality(K) <= MaxItems}

-----------------------------------------------------------------------------
(* The hybrid path                                                          *)

\* _source_backed_overlay: the source of the item is among the materials.
BackedAnyhow(t, E) == E
Backed(t, E) == {i \in E : VersionOf[origin[i]] \in t.have}

\* The scores decide which: the texts with a hit, their neighbours with them;
\* the items that have to do with the query; the reviewed decisions whose
\* scope the query names.
Hits(t)           == SUBSET t.have
Related(E)        == SUBSET E
Applicable(t, E)  == {i \in E : origin[i] \in t.asks}

\* answer.
PackHybrid(d) ==
    LET t == turn[d] IN
    /\ t.at = "packing" /\ t.path = "hybrid"
    /\ \E E \in Bounded(Eligible(t)), hits \in Hits(t) :
       \E relevant \in Related(E) :
         LET applies == Backed(t, Applicable(t, E))
             p == [Nothing EXCEPT !.sources = hits,
                                  !.authority = applies,
                                  !.overlay = Backed(t, relevant) \ applies]
         IN  IF p = Nothing THEN Refuse(d, "insufficient_evidence")
             ELSE Became(d, [Packed(t, p) EXCEPT !.at = "reasoning"])
    /\ Kept

\* What may be cited: the versions and the items of the package.
Citable(p)  == p.sources \cup p.authority \cup p.overlay

\* The checks of an answer that came back whole; facts are the ids it names.
Verdict(p, facts) ==
    IF facts = {} THEN "reasoning_failed"
    ELSE IF ~(facts \subseteq Citable(p)) THEN "provenance_unresolved"
    ELSE IF p.authority # {} /\ p.authority \cap facts = {}
         THEN "current_authority_not_used"
    ELSE "success"

\* run_hybrid_reasoning: no route, an unavailable provider, an incomplete
\* reply, ids in the text or malformed facts are told apart in the message only.
Reason(d) ==
    LET t == [turn[d] EXCEPT !.calls = @ + 1] IN
    /\ turn[d].at = "reasoning"
    /\ \/ Refuse(d, "reasoning_failed")
       \/ \E facts \in SUBSET (Items \cup Versions) :
            LET verdict == Verdict(t.package, facts) IN
            IF verdict = "success" THEN Succeed(d, [t EXCEPT !.used = facts])
                                   ELSE Refuse(d, verdict)
    /\ Kept

-----------------------------------------------------------------------------
(* The legacy path                                                          *)

\* A dispute of the store, or two active items of one slot.
Sides(t) == Disputes(t.found) \cup
            UNION {{[item |-> i, candidate |-> origin[j]] : j \in Rivals(t, i) \ {i}} :
                     i \in t.seen}

\* evaluate_external_eligibility over everything that was considered, what
\* did not fit included.  The query is free text and so unknown; the session
\* and the memory are unknown too.
Handling(E, D) == {"unknown", "standard"}
                  \cup {Sensitivity[origin[i]] : i \in E}
                  \cup {Sensitivity[x.candidate] : x \in D}

RouteFor(levels) == IF levels \subseteq {"standard"} THEN "external" ELSE "local"

\* _fit_items keeps a unit whole or leaves it out; one that is left out, an
\* item, a dispute or one of the rest (memory and session), or a prompt
\* beyond the envelope ends the turn.  A query that is too long by itself
\* raises, which the request answers with an error.
FitsMostly(less, long) == ~long
Fits(less, long) == ~less /\ ~long

PackLegacy(d) ==
    LET t == turn[d] IN
    /\ t.at = "packing" /\ t.path = "legacy"
    /\ \E E \in Bounded(Eligible(t)), rest \in BOOLEAN, long \in BOOLEAN :
       \E authority \in SUBSET E, sides \in SUBSET Sides(t) :
         LET p == [Nothing EXCEPT !.authority = authority, !.sides = sides]
             u == [Packed(t, p) EXCEPT !.route = RouteFor(Handling(E, Sides(t)))]
             less == ~rest \/ authority # E \/ sides # Sides(t)
         IN  \/ Fits(less, long) /\ Became(d, [u EXCEPT !.at = "asking"])
             \/ ~Fits(less, long) /\ Refuse(d, "oversize")
             \/ Refuse(d, "raised")
    /\ Kept

\* Nobody serves the external route, or resolve_route does not give the model
\* and the sizes the path was made for; a recovery does not look again.
Misrouted(d) ==
    /\ turn[d].at = "asking"
    /\ turn[d].calls = 0
    /\ Refuse(d, "provider_message")
    /\ Kept

\* A reply that _requires_recovery: blank, or an envelope of the runtime.
Recover(t)      == t.calls = 1

\* run_local_llm_prompt: what it raises it turns into a reply that is not ok;
\* a second reply that needs recovery is as good as none.
Ask(d) ==
    LET t == [turn[d] EXCEPT !.calls = @ + 1] IN
    /\ turn[d].at = "asking"
    /\ turn[d].route = "local"
    /\ \/ Succeed(d, t)
       \/ Refuse(d, IF t.calls = 1 THEN "provider_message" ELSE "runtime_message")
       \/ Recover(t) /\ Became(d, t)
    /\ Kept

\* run_lm_studio with the prompt of the package, when there is no workspace.
AskPlain(d) ==
    LET t == [turn[d] EXCEPT !.calls = @ + 1] IN
    /\ turn[d].at = "plain"
    /\ Succeed(d, t) \/ Refuse(d, "provider_message")
    /\ Kept

Finish(d) ==
    /\ turn[d].at = "told"
    /\ Became(d, NoTurn)
    /\ Kept

-----------------------------------------------------------------------------
(* Beside the turns: the review, the bridge, and a reprocessing that makes  *)
(* another version current.                                                 *)

ReplaceVersion(v) ==
    /\ v \in current
    /\ current' = current \ {v}
    /\ UNCHANGED <<vars, turn>>

Store ==
    /\ \/ \E r \in Requests : Review(r)
       \/ \E i \in Items : Retire(i)
       \/ Bridge
    /\ UNCHANGED <<current, turn>>

Kill ==
    /\ Crash
    /\ turn' = [d \in Dialogues |-> NoTurn]
    /\ UNCHANGED current

\* What the store holds: the items no dispute names, the ones in force, and
\* the disputes.
InForce == {i \in Used : /\ lifecycle[i] = "active"
                         /\ i \notin Named(Disputes(ambiguity))
                         /\ VersionOf[origin[i]] \in current}
Held    == [calm   |-> Items \ Named(Disputes(ambiguity)),
            steady |-> InForce,
            stands |-> Disputes(ambiguity)]
NotMet  == [calm |-> {}, steady |-> {}, stands |-> {}]

\* The history: what was so at some moment of the reading, calm, and what
\* was so at every moment of it, steady and stands.
Meet ==
    met' = [d \in Dialogues |->
              IF turn'[d].at = "idle" \/ turn'[d].result \notin {"none", "success"}
                   THEN NotMet
              ELSE IF turn[d].at = "idle" THEN Held'
              ELSE IF turn[d].at \in Reading
                   THEN [calm   |-> met[d].calm \cup Held'.calm,
                         steady |-> met[d].steady \cap Held'.steady,
                         stands |-> met[d].stands \cap Held'.stands]
              ELSE met[d]]

Answer(d) ==
    \/ ReadMaterials(d) \/ ReadItems(d) \/ ReadAmbiguities(d)
    \/ PackHybrid(d) \/ Reason(d)
    \/ PackLegacy(d) \/ Misrouted(d) \/ Ask(d) \/ AskPlain(d)
    \/ Finish(d)

NoTurns ==
    /\ current = Versions
    /\ turn = [d \in Dialogues |-> NoTurn]
    /\ met = [d \in Dialogues |-> NotMet]

AnswersNext ==
    /\ \/ Store
       \/ \E v \in Versions : ReplaceVersion(v)
       \/ \E d \in Dialogues, path \in {"hybrid", "legacy"}, known \in BOOLEAN,
             asks \in SUBSET Addressed : Begin(d, path, known, asks)
       \/ \E d \in Dialogues : Answer(d)
       \/ Kill
    /\ Meet

\* A read ends, and a call of the model has a timeout: 120 s on the hybrid
\* path, 180 s on the other.
TurnsEnd == \A d \in Dialogues : WF_all(Answer(d) /\ Meet)

AnswersSpec == Init /\ NoTurns /\ [][AnswersNext]_all /\ TurnsEnd

-----------------------------------------------------------------------------
(* Properties.                                                              *)

Shown(p) == p.authority \cup p.overlay

TurnOK ==
    /\ current \subseteq Versions
    /\ \A d \in Dialogues :
         LET t == turn[d] IN
         /\ t.at \in Reading \cup {"idle", "packing", "reasoning", "asking", "plain", "told"}
         /\ t.path \in {"hybrid", "legacy"} /\ t.route \in {"local", "external"}
         /\ t.asks \subseteq Addressed
         /\ t.have \subseteq Versions
         /\ t.seen \subseteq Used
         /\ t.broken \in BOOLEAN
         /\ t.calls \in 0..2
         /\ t.used \subseteq Items \cup Versions
         /\ t.package.sources \subseteq t.have
         /\ Shown(t.package) \subseteq Used
         /\ t.package.authority \cap t.package.overlay = {}

\* Whatever the review does while a turn is being read, an item that was in
\* dispute at every moment of the reading is never shown as one that holds
\* (operational_context_retrieval.py:173-178), unless the disputes could not
\* be read.
DisputedNotShown ==
    \A d \in Dialogues : ~turn[d].broken => Shown(turn[d].package) \subseteq met[d].calm

\* What the legacy path puts to the model carries everything that held, and
\* both sides of every dispute that stood, at every moment of the reading:
\* the turn is refused rather than put with less
\* (operational_context_runtime.py:86-94).
NothingLeftOut ==
    \A d \in Dialogues :
      LET t == turn[d] IN
      t.path = "legacy" /\ ~t.broken /\ t.at = "asking"
      => /\ met[d].stands \subseteq t.package.sides
         /\ Cardinality(Slots) <= MaxItems
              => met[d].steady \subseteq t.package.authority

\* A hybrid answer that succeeds uses the decision that applies to the
\* question when one held, with its source at hand, at every moment of the
\* reading (hybrid_answer_service.py:97-98).
AuthorityApplied ==
    \A d \in Dialogues :
      LET t == turn[d]
          applies == {i \in met[d].steady : origin[i] \in t.asks} IN
      /\ t.path = "hybrid" /\ t.result = "success" /\ ~t.broken
      /\ applies # {} /\ Cardinality(Slots) <= MaxItems
      => t.used \cap t.package.authority # {}

\* A hybrid answer never rests on an item whose source was not readable when
\* the turn began (hybrid_answer_service.py:106-118).
UsedHasSource ==
    \A d \in Dialogues : turn[d].result = "success" =>
        \A i \in turn[d].used \cap Items : VersionOf[origin[i]] \in turn[d].have

\* A dialogue never leaves the machine: its question has no classification
\* (privacy_boundary.py:132-140).
StaysLocal == \A d \in Dialogues : turn[d].route = "local"

\* A hybrid answer is grounded: it uses the decision that applies and only
\* what has a source, and its question stays on the machine.
HybridGrounded == TurnOK /\ AuthorityApplied /\ UsedHasSource /\ StaysLocal

\* Every turn is told something, whatever fails or is being reviewed.
EveryTurnTold ==
    \A d \in Dialogues : turn[d].at # "idle" ~> turn[d].at \in {"told", "idle"}

\* "Superseded и retired items сохраняют audit lineage, но не попадают в
\* runtime retrieval" (docs/OPERATIONAL_CONTEXT_V0.md:174): what is read as a
\* side of a dispute is not retired at that moment.
RetiredNotRetrieved ==
    [][\A d \in Dialogues : turn[d].at = "ambiguities" =>
         \A i \in Named(Disputes(turn'[d].found)) : lifecycle[i] # "retired"]_all
=============================================================================
