--------------------------- MODULE Conversations ---------------------------
(***************************************************************************)
(* The dialogue: conversations.py, create_package (orchestrator.py) as a   *)
(* turn calls it, the journal and the retention of archive.py, the choice  *)
(* of the answer path (dialogue_answer_dispatcher.py) and the handlers.    *)
(*                                                                         *)
(* A conversation is one file, read whole and written whole.  A turn holds *)
(* the lock of the file from the moment it reads it until it has written   *)
(* the answer of the model; an archive request waits for the same lock.    *)
(* In between the turn makes its package: the run directory, the texts of  *)
(* the uploads, the route, the journal and the audit.  Any step may raise. *)
(***************************************************************************)
EXTENDS Naturals, FiniteSets, SequencesExt, TLC

CONSTANTS Requests, Conversations,
          MaxFiles,      \* uploads of one message
          MaxUploads,    \* UPLOAD_REQUEST_SLOTS
          Recent,        \* MAX_RECENT_MESSAGES
          None,
          MaxFailures    \* steps that raise

Routes   == {"local", "external"}
Locals   == {"no", "legacy", "hybrid"}   \* whether a turn is answered here, and on which path
Messages == [role : {"user", "assistant"}, run : Requests, route : Routes]
Records  == [status : {"active", "archived"}, msgs : Seq(Messages), last : Requests \cup {None}]

ASSUME LimitsAssumption == {MaxFiles, MaxUploads, Recent, MaxFailures} \subseteq Nat
ASSUME NoneAssumption == IsFiniteSet(Requests) /\ None \notin Requests \cup Routes \cup Records

VARIABLES conv,    \* the files of the conversations
          lock, slots,
          req,     \* the requests
          run,     \* what there is on disk of each turn's run
          told,    \* the route its journal and its audit tell
          failures

vars == <<conv, lock, slots, req, run, told, failures>>

Artifacts == {"dir", "temp", "journal", "audit"}
Over      == {"done", "refused", "failed"}
Holding   == {"files", "compose", "journal", "audit", "clean", "answer", "write"}

Init == /\ conv = [c \in Conversations |-> None]
        /\ lock = [c \in Conversations |-> None]
        /\ slots = MaxUploads /\ failures = 0
        /\ req = [r \in Requests |-> [pc |-> "idle"]]
        /\ run = [r \in Requests |-> {}]
        /\ told = [r \in Requests |-> [journal |-> None, audit |-> None]]

Set(r, x)    == req' = [req EXCEPT ![r] = x]
Goto(r, l)   == Set(r, [req[r] EXCEPT !.pc = l])
LastOf(s, n) == SubSeq(s, IF Len(s) > n THEN Len(s) - n + 1 ELSE 1, Len(s))

-----------------------------------------------------------------------------
(* The handlers. *)

CreateConversation(c) ==
    /\ conv[c] = None
    /\ conv' = [conv EXCEPT ![c] = [status |-> "active", msgs |-> <<>>, last |-> None]]
    /\ UNCHANGED <<lock, slots, req, run, told, failures>>

\* A message comes as JSON or as a form; only a form carries files.
Post(r) ==
    /\ req[r].pc = "idle"
    /\ \E c \in Conversations, text \in BOOLEAN, n \in 0..MaxFiles, form \in BOOLEAN, local \in Locals :
         /\ n > 0 => form
         /\ Set(r, [pc |-> IF form THEN "form" ELSE "wait", kind |-> "turn", at |-> c, empty |-> ~text /\ n = 0, files |-> n, local |-> local])
    /\ UNCHANGED <<conv, lock, slots, run, told, failures>>

\* Reading a form takes a slot, and there is no waiting for one.
ReadForm(r) ==
    /\ req[r].pc = "form"
    /\ IF slots = 0 THEN Goto(r, "refused") /\ UNCHANGED slots
                    ELSE Goto(r, "reading") /\ slots' = slots - 1
    /\ UNCHANGED <<conv, lock, run, told, failures>>

\* The slot is returned whether the form is well formed or not.
EndForm(r) ==
    /\ req[r].pc = "reading" /\ slots' = slots + 1
    /\ Goto(r, "wait") \/ Goto(r, "refused")
    /\ UNCHANGED <<conv, lock, run, told, failures>>

AskArchive(r) ==
    /\ req[r].pc = "idle"
    /\ \E c \in Conversations : Set(r, [pc |-> "wait", kind |-> "archive", at |-> c])
    /\ UNCHANGED <<conv, lock, slots, run, told, failures>>

-----------------------------------------------------------------------------
(* The lock, and the conversation as it is read under it. *)

Archiving(r) == [pc |-> "write", kind |-> "archive", at |-> req[r].at, read |-> conv[req[r].at]]

Underway(r, seen) == [pc |-> "files", kind |-> "turn", at |-> req[r].at, read |-> conv[req[r].at],
                      files |-> req[r].files, local |-> req[r].local, seen |-> seen, session |-> <<>>,
                      weak |-> FALSE, route |-> None, reply |-> FALSE]

\* The whole history goes with every turn.
TurnWithAll(r) == Underway(r, conv[req[r].at].msgs)

Turn(r) == Underway(r, LastOf(conv[req[r].at].msgs, Recent))

\* The lock is taken only for the writing.
TakeUnlocked(r) ==
    /\ req[r].pc = "wait"
    /\ IF conv[req[r].at] = None \/ (req[r].kind = "turn" /\ req[r].empty)
       THEN Goto(r, "refused") /\ UNCHANGED <<lock, run>>
       ELSE /\ Set(r, IF req[r].kind = "turn" THEN Turn(r) ELSE Archiving(r))
            /\ run' = [run EXCEPT ![r] = IF req[r].kind = "turn" THEN {"dir", "temp"} ELSE {}]
            /\ UNCHANGED lock
    /\ UNCHANGED <<conv, slots, told, failures>>

Take(r) ==
    /\ req[r].pc = "wait" /\ lock[req[r].at] = None
    /\ IF conv[req[r].at] = None \/ (req[r].kind = "turn" /\ req[r].empty)
       THEN Goto(r, "refused") /\ UNCHANGED <<lock, run>>
       ELSE /\ lock' = [lock EXCEPT ![req[r].at] = r]
            /\ Set(r, IF req[r].kind = "turn" THEN Turn(r) ELSE Archiving(r))
            /\ run' = [run EXCEPT ![r] = IF req[r].kind = "turn" THEN {"dir", "temp"} ELSE {}]
    /\ UNCHANGED <<conv, slots, told, failures>>

-----------------------------------------------------------------------------
(* The package. *)

\* What mask_with_review finds: something concrete, something to replace, and what the
\* local model that looks at the result says, which can only add a doubt.
Texts         == [concrete : BOOLEAN, replaced : BOOLEAN, doubted : BOOLEAN]
Unresolved(x) == (x.concrete /\ ~x.replaced) \/ x.doubted
Masked(r, x)  == [req[r] EXCEPT !.weak = @ \/ Unresolved(x)]

\* An upload is stored, its text extracted and masked; the first text is the message.
TakeFile(r) ==
    /\ req[r].pc = "files"
    /\ \E x \in Texts :
         Set(r, IF req[r].files = 0 THEN [Masked(r, x) EXCEPT !.pc = "compose"]
                ELSE [Masked(r, x) EXCEPT !.files = @ - 1])
    /\ UNCHANGED <<conv, lock, slots, run, told, failures>>

\* The route is decided before the prompt is looked at once more.
ComposeEarly(r) ==
    /\ req[r].pc = "compose"
    /\ \E x \in Texts :
         Set(r, [Masked(r, x) EXCEPT !.pc = "journal", !.route = IF req[r].weak THEN "local" ELSE "external"])
    /\ UNCHANGED <<conv, lock, slots, run, told, failures>>

\* The prompt, with the memory and the recent messages in it, is masked again; then the route is decided.
Compose(r) ==
    /\ req[r].pc = "compose"
    /\ \E x \in Texts :
         LET m == Masked(r, x)
         IN  Set(r, [m EXCEPT !.pc = "journal", !.route = IF m.weak THEN "local" ELSE "external"])
    /\ UNCHANGED <<conv, lock, slots, run, told, failures>>

\* The journal and the audit, one after the other.  When one cannot be written the
\* turn goes on, and what was uploaded is left where it is.
Written(r, what, next) ==
    /\ \/ /\ Goto(r, next)
          /\ run' = [run EXCEPT ![r] = @ \cup {what}]
          /\ told' = [told EXCEPT ![r][what] = req[r].route]
          /\ UNCHANGED failures
       \/ /\ failures < MaxFailures /\ failures' = failures + 1
          /\ Goto(r, "answer") /\ UNCHANGED <<run, told>>
    /\ UNCHANGED <<conv, lock, slots>>

WriteJournal(r) == req[r].pc = "journal" /\ Written(r, "journal", "audit")
WriteAudit(r)   == req[r].pc = "audit"   /\ Written(r, "audit", "clean")

\* What was uploaded is removed only when the run directory is.
CleanNothing(r) ==
    /\ req[r].pc = "clean" /\ Goto(r, "answer")
    /\ UNCHANGED <<conv, lock, slots, run, told, failures>>

Clean(r) ==
    /\ req[r].pc = "clean" /\ Goto(r, "answer")
    /\ run' = [run EXCEPT ![r] = @ \ {"temp"}]
    /\ UNCHANGED <<conv, lock, slots, told, failures>>

-----------------------------------------------------------------------------
(* The answer, and the one write of the conversation. *)

Message(r, role) == [role |-> role, run |-> r, route |-> IF role = "user" THEN req[r].route ELSE "local"]

\* The last messages of the conversation, the turn's own at their end: it is appended
\* to the conversation in memory before the answer is asked for.
Session(r) == LastOf(Append(req[r].read.msgs, Message(r, "user")), Recent)

\* Without run_local there is no answer; the hybrid path has a message for every
\* failure; an answer of the legacy path may be blank.  Where the project has a
\* workspace the legacy path gives the model the session, and else the prompt.
Answer(r) ==
    /\ req[r].pc = "answer"
    /\ \E reply, operational \in BOOLEAN :
         /\ (req[r].local = "no" => ~reply) /\ (req[r].local = "hybrid" => reply)
         /\ operational => req[r].local = "legacy"
         /\ Set(r, [req[r] EXCEPT !.pc = "write", !.reply = reply,
                                   !.session = IF operational THEN Session(r) ELSE <<>>])
    /\ UNCHANGED <<conv, lock, slots, run, told, failures>>

Added(r) == <<Message(r, "user")>> \o (IF req[r].reply THEN <<Message(r, "assistant")>> ELSE <<>>)

Write(r) ==
    /\ req[r].pc = "write" /\ Goto(r, "done")
    /\ conv' = [conv EXCEPT ![req[r].at] =
                  IF req[r].kind = "archive" THEN [req[r].read EXCEPT !.status = "archived"]
                  ELSE [req[r].read EXCEPT !.msgs = @ \o Added(r), !.last = r]]
    /\ lock' = [lock EXCEPT ![req[r].at] = None]
    /\ UNCHANGED <<slots, run, told, failures>>

\* The lock is not released by a turn that raises.
RaiseHolding(r) ==
    /\ req[r].pc \in Holding /\ failures < MaxFailures
    /\ failures' = failures + 1 /\ Goto(r, "failed")
    /\ UNCHANGED <<conv, lock, slots, run, told>>

\* A step raises: the request is answered with an error, its lock released, and the
\* conversation is as it was.
Raise(r) ==
    /\ req[r].pc \in Holding /\ failures < MaxFailures
    /\ failures' = failures + 1 /\ Goto(r, "failed")
    /\ lock' = [lock EXCEPT ![req[r].at] = None]
    /\ UNCHANGED <<conv, slots, run, told>>

-----------------------------------------------------------------------------
(* apply_retention: each kind has its own age, and no run that old is still open. *)

Prune(what) ==
    /\ \E r \in Requests : req[r].pc \in Over /\ what \cap run[r] # {}
    /\ run' = [r \in Requests |-> IF req[r].pc \in Over THEN run[r] \ what ELSE run[r]]
    /\ UNCHANGED <<conv, lock, slots, req, told, failures>>

Step(r) == \/ ReadForm(r) \/ EndForm(r) \/ Take(r) \/ TakeFile(r) \/ Compose(r) \/ WriteJournal(r)
           \/ WriteAudit(r) \/ Clean(r) \/ Answer(r) \/ Write(r)

Next == \/ \E c \in Conversations : CreateConversation(c)
        \/ \E r \in Requests : Post(r) \/ AskArchive(r) \/ Step(r) \/ Raise(r)
        \/ \E what \in {{"temp"}, {"temp", "dir"}, {"journal"}, {"audit"}} : Prune(what)

Spec == Init /\ [][Next]_vars /\ \A r \in Requests : WF_vars(Step(r))

-----------------------------------------------------------------------------
(* Properties. *)

Turns(r) == req[r].pc = "done" /\ req[r].kind = "turn"

\* Slots and locks are those of the requests that hold them, and a message belongs
\* to a turn that was answered as done.
TypeOK ==
    /\ slots = MaxUploads - Cardinality({r \in Requests : req[r].pc = "reading"})
    /\ \A c \in Conversations : lock[c] \in {None} \cup {r \in Requests : "at" \in DOMAIN req[r] /\ req[r].at = c}
    /\ \A c \in Conversations : conv[c] # None =>
         /\ conv[c].status \in {"active", "archived"}
         /\ \A i \in DOMAIN conv[c].msgs : Turns(conv[c].msgs[i].run)
    /\ \A r \in Requests : run[r] \subseteq Artifacts
    /\ failures \in 0..MaxFailures

\* A turn that was answered is in its conversation for good, once, its answer right
\* behind its message; an archived conversation stays archived; and this with any
\* number of turns and archive requests at once.
NothingLost ==
    \A r \in Requests : req[r].pc = "done" =>
      LET c == conv[req[r].at] IN
      IF req[r].kind = "archive" THEN c.status = "archived"
      ELSE LET mine == {i \in DOMAIN c.msgs : c.msgs[i].run = r}
           IN  \E i \in mine : /\ SubSeq(c.msgs, i, i + Len(Added(r)) - 1) = Added(r)
                               /\ mine = i .. (i + Len(Added(r)) - 1)

\* What turn t was given, when `before` stands before its message `own`: the prompt has
\* the last messages before it, the session, if one was made, the last up to itself.
Context(t, before, own) ==
    /\ t.seen = LastOf(before, Recent)
    /\ t.session \in {<<>>, LastOf(Append(before, own), Recent)}

\* The history a turn gives the model is the messages that stand before its own in the
\* file, and, on the path that takes a session, its own message behind them.
AnswersWhatCameBefore ==
    \A c \in Conversations : conv[c] # None =>
      \A i \in DOMAIN conv[c].msgs : conv[c].msgs[i].role = "user" =>
        Context(req[conv[c].msgs[i].run], SubSeq(conv[c].msgs, 1, i - 1), conv[c].msgs[i])

\* A turn of the hybrid path is never stored without an answer, and its conversation
\* names the last turn as its last job.
EveryTurnAnswered ==
    \A c \in Conversations : (conv[c] # None /\ conv[c].msgs # <<>>) =>
      /\ conv[c].last = Last(conv[c].msgs).run
      /\ \A i \in DOMAIN conv[c].msgs :
           (conv[c].msgs[i].role = "user" /\ req[conv[c].msgs[i].run].local = "hybrid") =>
             i < Len(conv[c].msgs) /\ conv[c].msgs[i + 1].role = "assistant"

\* A conversation keeps every turn whole, its message and its answer.
TurnsKept == TypeOK /\ NothingLost /\ EveryTurnAnswered

\* The message, the journal and the audit of a turn tell the same route, and none of
\* them the external one when a text of the turn, or its prompt, was left unresolved.
RouteTold ==
    \A r \in Requests : (req[r].pc \in Holding \cup Over /\ "route" \in DOMAIN req[r] /\ req[r].route # None) =>
      /\ told[r].journal \in {None, req[r].route} /\ told[r].audit \in {None, req[r].route}
      /\ req[r].weak => req[r].route = "local"

\* What was uploaded outlives its turn only when the turn raised or its journal or
\* its audit could not be written, and there is no audit without a journal before it.
UploadsRemoved ==
    \A r \in Requests : /\ ("temp" \in run[r] /\ req[r].pc \in Over) => (req[r].pc = "failed" \/ told[r].audit = None)
                        /\ told[r].audit # None => told[r].journal # None

\* Every request is answered, whatever raises in the one before it.
EveryRequestEnds == \A r \in Requests : req[r].pc # "idle" ~> req[r].pc \in Over
=============================================================================
