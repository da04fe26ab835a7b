------------------------- MODULE ConversationsProofs -------------------------
(* What a dialogue keeps and tells, for every number of conversations,      *)
(* requests, uploads, slots and failures.                                   *)
EXTENDS Conversations, SequenceTheorems, FiniteSetTheorems, TLAPS

Untold == [journal |-> None, audit |-> None]

\* A request before it has the conversation, and after.
Asked    == [pc : {"form", "reading", "wait", "refused"}, kind : {"turn"}, at : Conversations,
             empty : BOOLEAN, files : 0..MaxFiles, local : Locals]
Asking   == [pc : {"wait", "refused"}, kind : {"archive"}, at : Conversations]
Closing  == [pc : {"write", "done", "failed"}, kind : {"archive"}, at : Conversations, read : Records]
Turning  == [pc : Holding \cup {"done", "failed"}, kind : {"turn"}, at : Conversations, read : Records,
             files : 0..MaxFiles, local : Locals, seen : Seq(Messages), session : Seq(Messages),
             weak : BOOLEAN, route : Routes \cup {None}, reply : BOOLEAN]
Early    == {[pc |-> "idle"]} \cup Asked \cup Asking

Shape ==
    /\ conv \in [Conversations -> Records \cup {None}]
    /\ lock \in [Conversations -> Requests \cup {None}]
    /\ req \in [Requests -> Early \cup Closing \cup Turning]
    /\ run \in [Requests -> SUBSET Artifacts]
    /\ told \in [Requests -> [journal : Routes \cup {None}, audit : Routes \cup {None}]]
    /\ slots \in 0..MaxUploads /\ failures \in 0..MaxFailures

\* A conversation is locked by the one request that has read it, and is what it read.
Owned ==
    /\ \A r \in Requests : req[r].pc \in Holding =>
         lock[req[r].at] = r /\ conv[req[r].at] = req[r].read
    /\ \A c \in Conversations : lock[c] # None =>
         req[lock[c]].pc \in Holding /\ req[lock[c]].at = c

\* What a turn that has a route says of itself.
Story(r) ==
    LET x == req[r] IN
    IF x \notin Turning THEN told[r] = Untold /\ run[r] = {}
    ELSE /\ x.seen = LastOf(x.read.msgs, Recent)
         /\ x.pc \in {"files", "compose"} => x.route = None
         /\ x.pc \in {"journal", "audit", "clean", "answer", "write", "done"} => x.route \in Routes
         /\ (x.weak /\ x.route # None) => x.route = "local"
         /\ {told[r].journal, told[r].audit} \subseteq {None, x.route}
         /\ x.pc \in {"files", "compose", "journal"} => told[r] = Untold
         /\ x.pc = "audit" => told[r].journal # None /\ told[r].audit = None
         /\ told[r].audit # None => told[r].journal # None
         /\ (x.pc \in {"answer", "write", "done"} /\ "temp" \in run[r]) => told[r].audit = None
         /\ (x.pc \in {"write", "done"} /\ x.local = "hybrid") => x.reply
         /\ x.pc = "write" => x.session \in {<<>>, Session(r)}

\* The messages of a conversation are of turns that ended in it.
Filed ==
    /\ \A r \in Requests : req[r] \in Turning \cup Closing => conv[req[r].at] # None
    /\ \A c \in Conversations : conv[c] # None =>
         \A i \in 1 .. Len(conv[c].msgs) :
           /\ req[conv[c].msgs[i].run] \in Turning
           /\ req[conv[c].msgs[i].run].pc = "done"
           /\ req[conv[c].msgs[i].run].at = c

Slots == slots = MaxUploads - Cardinality({r \in Requests : req[r].pc = "reading"})

IInv == /\ Shape /\ Owned /\ (\A r \in Requests : Story(r)) /\ Filed /\ Slots
        /\ NothingLost /\ EveryTurnAnswered /\ AnswersWhatCameBefore

-----------------------------------------------------------------------------
(* The steps of a request, by what they do to it.                           *)

LEMMA PcOf ==
    ASSUME NEW x \in Early \cup Closing \cup Turning
    PROVE  /\ x.pc = "idle" => x = [pc |-> "idle"]
           /\ x.pc \in {"form", "reading"} => x \in Asked
           /\ x.pc = "wait" => x \in Asked \cup Asking
           /\ x.pc \in Holding => x \in Turning \cup Closing
           /\ x.pc \in Holding \ {"write"} => x \in Turning
           /\ x.pc \in {"done", "failed"} => x \in Turning \cup Closing
BY DEF Early, Asked, Asking, Closing, Turning, Holding

LEMMA LastOfType ==
    ASSUME NEW s \in Seq(Messages), NEW n \in Nat
    PROVE  LastOf(s, n) \in Seq(Messages)
<1> DEFINE a == IF Len(s) > n THEN Len(s) - n + 1 ELSE 1
<1>1. Len(s) \in Nat /\ a \in Int /\ a >= 1 OBVIOUS
<1>2. \A i \in a .. Len(s) : s[i] \in Messages BY <1>1, ElementOfSeq
<1> HIDE DEF a
<1>3. SubSeq(s, a, Len(s)) \in Seq(Messages) BY <1>1, <1>2, SubSeqProperties
<1> QED BY <1>3 DEF LastOf, a

LEMMA AddedType ==
    ASSUME Shape, NEW r \in Requests, req[r] \in Turning, req[r].route \in Routes
    PROVE  /\ Added(r) \in Seq(Messages)
           /\ Len(Added(r)) = IF req[r].reply THEN 2 ELSE 1
           /\ Added(r)[1] = Message(r, "user")
           /\ req[r].reply => Added(r)[2] = Message(r, "assistant")
<1>1. Message(r, "user") \in Messages /\ Message(r, "assistant") \in Messages
  BY DEF Message, Messages, Routes
<1>2. req[r].reply \in BOOLEAN BY DEF Turning
<1>3. CASE req[r].reply
  <2> DEFINE a == <<Message(r, "user")>>
             b == <<Message(r, "assistant")>>
  <2>1. a \in Seq(Messages) /\ Len(a) = 1 /\ a[1] = Message(r, "user")
    BY <1>1
  <2>2. b \in Seq(Messages) /\ Len(b) = 1 /\ b[1] = Message(r, "assistant")
    BY <1>1
  <2>3. Added(r) = a \o b
    BY <1>3 DEF Added
  <2> HIDE DEF a, b
  <2>4. /\ a \o b \in Seq(Messages) /\ Len(a \o b) = 2
        /\ (a \o b)[1] = a[1] /\ (a \o b)[2] = b[1]
    BY <2>1, <2>2, ConcatProperties
  <2> QED BY <1>3, <2>1, <2>2, <2>3, <2>4
<1>4. CASE ~req[r].reply
  <2> DEFINE a == <<Message(r, "user")>>
  <2>1. a \in Seq(Messages) /\ Len(a) = 1 /\ a[1] = Message(r, "user")
    BY <1>1
  <2>2. Added(r) = a \o <<>>
    BY <1>4 DEF Added
  <2> HIDE DEF a
  <2>3. a \o <<>> = a
    BY <2>1, ConcatEmptySeq
  <2> QED BY <1>4, <2>1, <2>2, <2>3
<1> QED BY <1>2, <1>3, <1>4

-----------------------------------------------------------------------------
(* The types.                                                               *)

LEMMA ShapeStep ==
    ASSUME Shape, Owned, \A r \in Requests : Story(r), Filed, Slots, [Next]_vars
    PROVE  Shape'
<1> USE LimitsAssumption, NoneAssumption
<1>1. ASSUME NEW c \in Conversations, CreateConversation(c) PROVE Shape'
  <2>1. [status |-> "active", msgs |-> <<>>, last |-> None] \in Records
    BY DEF Records
  <2> HIDE DEF Records
  <2> QED BY <1>1, <2>1 DEF CreateConversation, Shape
<1>2. ASSUME NEW r \in Requests, Post(r) PROVE Shape'
  <2>1. \A x \in Asked : [req EXCEPT ![r] = x] \in [Requests -> Early \cup Closing \cup Turning]
    BY DEF Shape, Early
  <2>2. \E x \in Asked : req' = [req EXCEPT ![r] = x]
    BY <1>2 DEF Post, Set, Asked
  <2> QED BY <1>2, <2>1, <2>2 DEF Post, Shape
<1>3. ASSUME NEW r \in Requests, AskArchive(r) PROVE Shape'
  <2>1. \A x \in Asking : [req EXCEPT ![r] = x] \in [Requests -> Early \cup Closing \cup Turning]
    BY DEF Shape, Early
  <2>2. \E x \in Asking : req' = [req EXCEPT ![r] = x]
    BY <1>3 DEF AskArchive, Set, Asking
  <2> QED BY <1>3, <2>1, <2>2 DEF AskArchive, Shape
<1> DEFINE Set1(r) == \E x \in Early \cup Closing \cup Turning : req' = [req EXCEPT ![r] = x]
<1>4. ASSUME NEW r \in Requests, Set1(r) PROVE req' \in [Requests -> Early \cup Closing \cup Turning]
  BY <1>4 DEF Shape
<1>5. ASSUME NEW r \in Requests PROVE req[r] \in Early \cup Closing \cup Turning
  BY DEF Shape
<1>6. ASSUME NEW r \in Requests, ReadForm(r) PROVE Shape'
  <2>1. req[r] \in Asked
    BY <1>5, <1>6, PcOf DEF ReadForm
  <2>2. \A l \in {"refused", "reading"} : [req[r] EXCEPT !.pc = l] \in Asked
    BY <2>1 DEF Asked
  <2>3. Set1(r)
    BY <1>6, <2>2 DEF ReadForm, Goto, Set, Early
  <2> HIDE DEF Set1
  <2>4. slots' \in 0..MaxUploads
    BY <1>6 DEF ReadForm, Shape
  <2> QED BY <1>4, <1>6, <2>3, <2>4 DEF ReadForm, Shape
<1>7. ASSUME NEW r \in Requests, EndForm(r) PROVE Shape'
  <2>1. req[r] \in Asked
    BY <1>5, <1>7, PcOf DEF EndForm
  <2>2. \A l \in {"wait", "refused"} : [req[r] EXCEPT !.pc = l] \in Asked
    BY <2>1 DEF Asked
  <2>3. Set1(r)
    BY <1>7, <2>2 DEF EndForm, Goto, Set, Early
  <2> DEFINE R == {q \in Requests : req[q].pc = "reading"}
  <2>4. IsFiniteSet(R) /\ r \in R
    BY <1>7, FS_Subset DEF EndForm
  <2>5. Cardinality(R) \in Nat /\ Cardinality(R) # 0
    BY <2>4, FS_CardinalityType, FS_EmptySet
  <2>6. slots = MaxUploads - Cardinality(R)
    BY DEF Slots
  <2> HIDE DEF Set1, R
  <2>7. slots' \in 0..MaxUploads
    BY <1>7, <2>5, <2>6 DEF EndForm, Shape
  <2> QED BY <1>4, <1>7, <2>3, <2>7 DEF EndForm, Shape
<1>8. ASSUME NEW r \in Requests, Take(r) PROVE Shape'
  <2>1. req[r] \in Asked \cup Asking
    BY <1>5, <1>8, PcOf DEF Take
  <2>2. CASE conv[req[r].at] = None \/ (req[r].kind = "turn" /\ req[r].empty)
    <3>1. [req[r] EXCEPT !.pc = "refused"] \in Asked \cup Asking
      BY <2>1 DEF Asked, Asking
    <3>2. Set1(r)
      BY <1>8, <2>2, <3>1 DEF Take, Goto, Set, Early
    <3> HIDE DEF Set1
    <3> QED BY <1>4, <1>8, <2>2, <3>2 DEF Take, Shape
  <2>3. CASE conv[req[r].at] # None /\ ~(req[r].kind = "turn" /\ req[r].empty)
    <3>1. req[r].at \in Conversations
      BY <2>1 DEF Asked, Asking
    <3>2. conv[req[r].at] \in Records
      BY <2>3, <3>1 DEF Shape
    <3>3. lock' \in [Conversations -> Requests \cup {None}]
      BY <1>8, <2>3, <3>1 DEF Take, Shape
    <3>4. run' \in [Requests -> SUBSET Artifacts]
      BY <1>8, <2>3 DEF Take, Shape, Artifacts
    <3>5. Set1(r)
      <4>1. CASE req[r].kind = "turn"
        <5>1. conv[req[r].at].msgs \in Seq(Messages)
          BY <3>2 DEF Records
        <5>2. LastOf(conv[req[r].at].msgs, Recent) \in Seq(Messages)
          BY <5>1, LastOfType, LimitsAssumption
        <5>3. req[r] \in Asked
          BY <2>1, <4>1 DEF Asking
        <5>4. Turn(r) \in Turning
          BY <3>1, <3>2, <5>2, <5>3 DEF Turn, Underway, Turning, Asked, Holding
        <5> QED BY <1>8, <2>3, <4>1, <5>4 DEF Take, Set
      <4>2. CASE req[r].kind # "turn"
        <5>1. Archiving(r) \in Closing
          BY <3>1, <3>2 DEF Archiving, Closing
        <5> QED BY <1>8, <2>3, <4>2, <5>1 DEF Take, Set
      <4> QED BY <4>1, <4>2
    <3> HIDE DEF Set1
    <3>6. req' \in [Requests -> Early \cup Closing \cup Turning]
      BY <1>4, <3>5
    <3> QED BY <1>8, <3>3, <3>4, <3>6 DEF Take, Shape
  <2> QED BY <2>2, <2>3
<1>9. ASSUME NEW r \in Requests, TakeFile(r) PROVE Shape'
  <2>1. req[r] \in Turning
    BY <1>5, <1>9, PcOf DEF TakeFile, Holding
  <2>2. PICK x \in Texts : req' = [req EXCEPT ![r] = IF req[r].files = 0 THEN [Masked(r, x) EXCEPT !.pc = "compose"]
                                                      ELSE [Masked(r, x) EXCEPT !.files = @ - 1]]
    BY <1>9 DEF TakeFile, Set
  <2>3. Masked(r, x) \in Turning /\ Masked(r, x).files = req[r].files
    BY <2>1 DEF Masked, Unresolved, Turning, Texts
  <2>4. [Masked(r, x) EXCEPT !.pc = "compose"] \in Turning
    BY <2>3 DEF Turning, Holding
  <2>5. req[r].files # 0 => [Masked(r, x) EXCEPT !.files = @ - 1] \in Turning
    BY <2>3 DEF Turning
  <2>6. Set1(r)
    BY <2>2, <2>4, <2>5
  <2> HIDE DEF Set1
  <2> QED BY <1>4, <1>9, <2>6 DEF TakeFile, Shape
<1>10. ASSUME NEW r \in Requests, Compose(r) PROVE Shape'
  <2>1. req[r] \in Turning
    BY <1>5, <1>10, PcOf DEF Compose, Holding
  <2>2. PICK x \in Texts : req' = [req EXCEPT ![r] = [Masked(r, x) EXCEPT !.pc = "journal",
                              !.route = IF Masked(r, x).weak THEN "local" ELSE "external"]]
    BY <1>10 DEF Compose, Set
  <2>3. Masked(r, x) \in Turning
    BY <2>1 DEF Masked, Unresolved, Turning, Texts
  <2>4. [Masked(r, x) EXCEPT !.pc = "journal", !.route = IF Masked(r, x).weak THEN "local" ELSE "external"] \in Turning
    BY <2>3 DEF Turning, Holding, Routes
  <2>5. Set1(r)
    BY <2>2, <2>4
  <2> HIDE DEF Set1
  <2> QED BY <1>4, <1>10, <2>5 DEF Compose, Shape
<1>11. ASSUME NEW r \in Requests, NEW l \in Holding \cup {"done", "failed"}, Goto(r, l), req[r] \in Turning
       PROVE  Set1(r)
  <2>1. [req[r] EXCEPT !.pc = l] \in Turning
    BY <1>11 DEF Turning
  <2> QED BY <1>11, <2>1 DEF Goto, Set
<1>12. ASSUME NEW r \in Requests, WriteJournal(r) \/ WriteAudit(r) PROVE Shape'
  <2>1. req[r] \in Turning
    BY <1>5, <1>12, PcOf DEF WriteJournal, WriteAudit, Holding
  <2>2. Set1(r)
    BY <1>11, <1>12, <2>1 DEF WriteJournal, WriteAudit, Written, Holding
  <2> HIDE DEF Set1
  <2>3. run' \in [Requests -> SUBSET Artifacts]
    BY <1>12 DEF WriteJournal, WriteAudit, Written, Shape, Artifacts
  <2>4. told' \in [Requests -> [journal : Routes \cup {None}, audit : Routes \cup {None}]]
    <3>1. req[r].route \in Routes \cup {None}
      BY <2>1 DEF Turning
    <3>2. CASE told' = [told EXCEPT ![r]["journal"] = req[r].route]
      BY <3>1, <3>2 DEF Shape
    <3>3. CASE told' = [told EXCEPT ![r]["audit"] = req[r].route]
      BY <3>1, <3>3 DEF Shape
    <3>4. CASE told' = told
      BY <3>4 DEF Shape
    <3>5. \/ told' = told
          \/ told' = [told EXCEPT ![r]["journal"] = req[r].route]
          \/ told' = [told EXCEPT ![r]["audit"] = req[r].route]
      BY <1>12 DEF WriteJournal, WriteAudit, Written
    <3> QED BY <3>2, <3>3, <3>4, <3>5
  <2>5. failures' \in 0..MaxFailures
    BY <1>12 DEF WriteJournal, WriteAudit, Written, Shape
  <2> QED BY <1>4, <1>12, <2>2, <2>3, <2>4, <2>5 DEF WriteJournal, WriteAudit, Written, Shape
<1>13. ASSUME NEW r \in Requests, Clean(r) PROVE Shape'
  <2>1. req[r] \in Turning
    BY <1>5, <1>13, PcOf DEF Clean, Holding
  <2>2. Set1(r)
    BY <1>11, <1>13, <2>1 DEF Clean, Holding
  <2> HIDE DEF Set1
  <2>3. run' \in [Requests -> SUBSET Artifacts]
    BY <1>13 DEF Clean, Shape
  <2> QED BY <1>4, <1>13, <2>2, <2>3 DEF Clean, Shape
<1>14. ASSUME NEW r \in Requests, Answer(r) PROVE Shape'
  <2>1. req[r] \in Turning
    BY <1>5, <1>14, PcOf DEF Answer, Holding
  <2>2. Session(r) \in Seq(Messages) /\ <<>> \in Seq(Messages)
    <3>1. req[r].route \in Routes
      BY <1>14, <2>1 DEF Answer, Story
    <3>2. Message(r, "user") \in Messages /\ req[r].read.msgs \in Seq(Messages)
      BY <2>1, <3>1 DEF Message, Messages, Turning, Records
    <3>3. Append(req[r].read.msgs, Message(r, "user")) \in Seq(Messages)
      BY <3>2, AppendProperties
    <3> QED BY <3>3, LastOfType, EmptySeq DEF Session
  <2>3. \A b \in BOOLEAN, s \in Seq(Messages) : [req[r] EXCEPT !.pc = "write", !.reply = b, !.session = s] \in Turning
    BY <2>1 DEF Turning, Holding
  <2>4. Set1(r)
    <3> HIDE DEF Set1
    <3>1. PICK b \in BOOLEAN, s \in {<<>>, Session(r)} :
            req' = [req EXCEPT ![r] = [req[r] EXCEPT !.pc = "write", !.reply = b, !.session = s]]
      BY <1>14 DEF Answer, Set
    <3> QED BY <2>2, <2>3, <3>1 DEF Set1
  <2> HIDE DEF Set1
  <2> QED BY <1>4, <1>14, <2>4 DEF Answer, Shape
<1>15. ASSUME NEW r \in Requests, req[r] \in Closing, NEW l \in {"done", "failed"}, Goto(r, l)
       PROVE  Set1(r)
  <2>1. [req[r] EXCEPT !.pc = l] \in Closing
    BY <1>15 DEF Closing
  <2> QED BY <1>15, <2>1 DEF Goto, Set
<1>16. ASSUME NEW r \in Requests, Write(r) PROVE Shape'
  <2>1. req[r] \in Turning \cup Closing /\ req[r].pc = "write"
    BY <1>5, <1>16, PcOf DEF Write, Holding
  <2>2. Set1(r)
    BY <1>11, <1>15, <1>16, <2>1 DEF Write
  <2>3. req[r].at \in Conversations /\ req[r].read \in Records
    BY <2>1 DEF Turning, Closing
  <2>4. conv' \in [Conversations -> Records \cup {None}]
    <3>1. CASE req[r] \in Closing
      <4>1. [req[r].read EXCEPT !.status = "archived"] \in Records
        BY <2>3 DEF Records
      <4>2. conv' = [conv EXCEPT ![req[r].at] = [req[r].read EXCEPT !.status = "archived"]]
        BY <1>16, <3>1 DEF Write, Closing
      <4> HIDE DEF Set1
      <4> QED BY <2>3, <4>1, <4>2 DEF Shape
    <3>2. CASE req[r] \in Turning
      <4>1. req[r].route \in Routes
        BY <2>1, <3>2 DEF Story
      <4>2. Added(r) \in Seq(Messages)
        BY <3>2, <4>1, AddedType
      <4>3. req[r].read.msgs \in Seq(Messages)
        BY <2>3 DEF Records
      <4>4. req[r].read.msgs \o Added(r) \in Seq(Messages)
        BY <4>2, <4>3, ConcatProperties
      <4>5. [req[r].read EXCEPT !.msgs = @ \o Added(r), !.last = r] \in Records
        BY <2>3, <4>4 DEF Records
      <4>6. conv' = [conv EXCEPT ![req[r].at] = [req[r].read EXCEPT !.msgs = @ \o Added(r), !.last = r]]
        BY <1>16, <3>2 DEF Write, Turning
      <4> HIDE DEF Set1
      <4> QED BY <2>3, <4>5, <4>6 DEF Shape
    <3> QED BY <2>1, <3>1, <3>2
  <2> HIDE DEF Set1
  <2>5. lock' \in [Conversations -> Requests \cup {None}]
    BY <1>16, <2>3 DEF Write, Shape
  <2> QED BY <1>4, <1>16, <2>2, <2>4, <2>5 DEF Write, Shape
<1>17. ASSUME NEW r \in Requests, Raise(r) PROVE Shape'
  <2>1. req[r] \in Turning \cup Closing
    BY <1>5, <1>17, PcOf DEF Raise
  <2>2. Set1(r)
    BY <1>11, <1>15, <1>17, <2>1 DEF Raise
  <2>3. req[r].at \in Conversations
    BY <2>1 DEF Turning, Closing
  <2> HIDE DEF Set1
  <2>4. lock' \in [Conversations -> Requests \cup {None}]
    BY <1>17, <2>3 DEF Raise, Shape
  <2>5. failures' \in 0..MaxFailures
    BY <1>17 DEF Raise, Shape
  <2> QED BY <1>4, <1>17, <2>2, <2>4, <2>5 DEF Raise, Shape
<1>18. ASSUME NEW what, Prune(what) PROVE Shape'
  BY <1>18 DEF Prune, Shape
<1>19. CASE UNCHANGED vars
  BY <1>19 DEF vars, Shape
<1> HIDE DEF Set1
<1> QED BY <1>1, <1>2, <1>3, <1>6, <1>7, <1>8, <1>9, <1>10, <1>12, <1>13, <1>14, <1>16, <1>17, <1>18, <1>19
        DEF Next, Step

-----------------------------------------------------------------------------
(* The lock, and the slots.                                                 *)

Others(r) == \A q \in Requests \ {r} : req'[q] = req[q]

\* A step of a request that has no conversation yet, and a step of one that has.
Outside(r) == /\ UNCHANGED <<conv, lock>> /\ Others(r)
              /\ req[r] \in Early /\ req'[r] \in Early
Inside(r)  == /\ UNCHANGED <<conv, lock, slots>> /\ Others(r)
              /\ req[r] \in Turning /\ req[r].pc \in Holding
              /\ req'[r] \in Turning /\ req'[r].pc \in Holding
              /\ req'[r].at = req[r].at /\ req'[r].read = req[r].read
              /\ req'[r].local = req[r].local /\ req'[r].seen = req[r].seen
Ending(r, l) == /\ UNCHANGED slots /\ Others(r)
                /\ req[r] \in Turning \cup Closing /\ req[r].pc \in Holding
                /\ req'[r] = [req[r] EXCEPT !.pc = l]
                /\ lock' = [lock EXCEPT ![req[r].at] = None]

LEMMA StepKinds ==
    ASSUME Shape, Shape', NEW r \in Requests
    PROVE  /\ Post(r) \/ AskArchive(r) \/ ReadForm(r) \/ EndForm(r) => Outside(r)
           /\ TakeFile(r) \/ Compose(r) \/ WriteJournal(r) \/ WriteAudit(r) \/ Clean(r) \/ Answer(r) => Inside(r)
           /\ Write(r) => Ending(r, "done")
           /\ Raise(r) => Ending(r, "failed") /\ UNCHANGED conv
<1>1. req[r] \in Early \cup Closing \cup Turning /\ req'[r] \in Early \cup Closing \cup Turning
  BY DEF Shape
<1>2. ASSUME NEW x, req' = [req EXCEPT ![r] = x] PROVE req'[r] = x /\ Others(r)
  BY <1>2 DEF Shape, Others
<1>3. ASSUME Post(r) \/ AskArchive(r) \/ ReadForm(r) \/ EndForm(r) PROVE Outside(r)
  <2>1. UNCHANGED <<conv, lock>>
    BY <1>3 DEF Post, AskArchive, ReadForm, EndForm
  <2>2. req[r].pc \in {"idle", "form", "reading"}
    BY <1>3 DEF Post, AskArchive, ReadForm, EndForm
  <2>3. req[r] \in Early
    BY <1>1, <2>2, PcOf DEF Early
  <2>4. req'[r].pc \in {"form", "reading", "wait", "refused"} /\ Others(r)
    <3>1. CASE Post(r)
      <4>1. PICK x \in Asked : req' = [req EXCEPT ![r] = x]
        BY <3>1 DEF Post, Set, Asked
      <4> QED BY <1>2, <4>1 DEF Asked
    <3>2. CASE AskArchive(r)
      <4>1. PICK x \in Asking : req' = [req EXCEPT ![r] = x]
        BY <3>2 DEF AskArchive, Set, Asking
      <4> QED BY <1>2, <4>1 DEF Asking
    <3>3. CASE ReadForm(r) \/ EndForm(r)
      <4>1. req[r] \in Asked
        BY <1>1, <3>3, PcOf DEF ReadForm, EndForm
      <4>2. PICK l \in {"refused", "reading", "wait"} : req' = [req EXCEPT ![r] = [req[r] EXCEPT !.pc = l]]
        BY <3>3 DEF ReadForm, EndForm, Goto, Set
      <4>3. [req[r] EXCEPT !.pc = l].pc = l
        BY <4>1 DEF Asked
      <4> QED BY <1>2, <4>2, <4>3
    <3> QED BY <1>3, <3>1, <3>2, <3>3
  <2>5. req'[r] \in Early
    BY <1>1, <2>4 DEF Turning, Closing, Holding
  <2> QED BY <2>1, <2>3, <2>4, <2>5 DEF Outside
<1>4. ASSUME TakeFile(r) \/ Compose(r) \/ WriteJournal(r) \/ WriteAudit(r) \/ Clean(r) \/ Answer(r) PROVE Inside(r)
  <2>1. UNCHANGED <<conv, lock, slots>>
    BY <1>4 DEF TakeFile, Compose, WriteJournal, WriteAudit, Written, Clean, Answer
  <2>2. req[r].pc \in Holding \ {"write"}
    BY <1>4 DEF TakeFile, Compose, WriteJournal, WriteAudit, Clean, Answer, Holding
  <2>3. req[r] \in Turning
    BY <1>1, <2>2, PcOf
  <2> DEFINE Same(x) == /\ x.pc \in Holding /\ x.kind = "turn" /\ x.at = req[r].at /\ x.read = req[r].read
                        /\ x.local = req[r].local /\ x.seen = req[r].seen
  <2>4. Same(req'[r]) /\ Others(r)
    <3>1. ASSUME NEW x, Same(x), req' = [req EXCEPT ![r] = x] PROVE Same(req'[r]) /\ Others(r)
      BY <1>2, <3>1
    <3>2. CASE TakeFile(r)
      <4>1. PICK x \in Texts : req' = [req EXCEPT ![r] = IF req[r].files = 0 THEN [Masked(r, x) EXCEPT !.pc = "compose"]
                                                          ELSE [Masked(r, x) EXCEPT !.files = @ - 1]]
        BY <3>2 DEF TakeFile, Set
      <4>2. Same([Masked(r, x) EXCEPT !.pc = "compose"])
        BY <2>3 DEF Masked, Turning, Holding
      <4>3. Same([Masked(r, x) EXCEPT !.files = @ - 1])
        BY <2>2, <2>3 DEF Masked, Turning
      <4> HIDE DEF Same
      <4> QED BY <3>1, <4>1, <4>2, <4>3
    <3>3. CASE Compose(r)
      <4>1. PICK x \in Texts : req' = [req EXCEPT ![r] = [Masked(r, x) EXCEPT !.pc = "journal",
                                         !.route = IF Masked(r, x).weak THEN "local" ELSE "external"]]
        BY <3>3 DEF Compose, Set
      <4>2. \A w : Same([Masked(r, x) EXCEPT !.pc = "journal", !.route = w])
        BY <2>3 DEF Masked, Turning, Holding
      <4> HIDE DEF Same
      <4> QED BY <3>1, <4>1, <4>2
    <3>4. CASE WriteJournal(r) \/ WriteAudit(r) \/ Clean(r)
      <4>1. PICK l \in {"audit", "clean", "answer"} : req' = [req EXCEPT ![r] = [req[r] EXCEPT !.pc = l]]
        BY <3>4 DEF WriteJournal, WriteAudit, Written, Clean, Goto, Set
      <4>2. Same([req[r] EXCEPT !.pc = l])
        BY <2>3 DEF Turning, Holding
      <4> HIDE DEF Same
      <4> QED BY <3>1, <4>1, <4>2
    <3>5. CASE Answer(r)
      <4>1. PICK reply \in BOOLEAN, s \in {<<>>, Session(r)} :
              req' = [req EXCEPT ![r] = [req[r] EXCEPT !.pc = "write", !.reply = reply, !.session = s]]
        BY <3>5 DEF Answer, Set
      <4>2. Same([req[r] EXCEPT !.pc = "write", !.reply = reply, !.session = s])
        BY <2>3 DEF Turning, Holding
      <4> HIDE DEF Same
      <4> QED BY <3>1, <4>1, <4>2
    <3> QED BY <1>4, <3>2, <3>3, <3>4, <3>5
  <2>5. req'[r] \in Turning
    BY <1>1, <2>4, PcOf DEF Closing
  <2> QED BY <2>1, <2>2, <2>3, <2>4, <2>5 DEF Inside
<1>5. ASSUME Write(r) PROVE Ending(r, "done")
  BY <1>1, <1>2, <1>5, PcOf DEF Write, Goto, Set, Ending, Holding
<1>6. ASSUME Raise(r) PROVE Ending(r, "failed") /\ UNCHANGED conv
  BY <1>1, <1>2, <1>6, PcOf DEF Raise, Goto, Set, Ending
<1> QED BY <1>3, <1>4, <1>5, <1>6

LEMMA EarlyPc ==
    \A x \in Early : x.pc \notin Holding \cup {"done", "failed"} /\ x \notin Turning \cup Closing
BY DEF Early, Asked, Asking, Turning, Closing, Holding

\* A request that is given a conversation.
Given(r) == /\ lock[req[r].at] = None /\ conv[req[r].at] # None
            /\ req[r] \in Early /\ req[r].at \in Conversations
            /\ lock' = [lock EXCEPT ![req[r].at] = r]
            /\ UNCHANGED <<conv, slots>> /\ Others(r)
            /\ req'[r] \in Turning \cup Closing /\ req'[r].pc \in Holding
            /\ req'[r].at = req[r].at /\ req'[r].read = conv[req[r].at]

LEMMA TakeKinds ==
    ASSUME Shape, Shape', NEW r \in Requests, Take(r)
    PROVE  (Outside(r) /\ UNCHANGED slots) \/ Given(r)
<1>1. req[r] \in Asked \cup Asking
  BY PcOf DEF Take, Shape
<1>2. ASSUME NEW x, req' = [req EXCEPT ![r] = x] PROVE req'[r] = x /\ Others(r)
  BY <1>2 DEF Shape, Others
<1>3. Others(r)
  <2>1. PICK x : req' = [req EXCEPT ![r] = x]
    BY DEF Take, Goto, Set
  <2> QED BY <1>2, <2>1
<1>4. CASE conv[req[r].at] = None \/ (req[r].kind = "turn" /\ req[r].empty)
  <2>1. req'[r] = [req[r] EXCEPT !.pc = "refused"]
    BY <1>2, <1>4 DEF Take, Goto, Set
  <2>2. req'[r] \in Early
    BY <1>1, <2>1 DEF Early, Asked, Asking
  <2> QED BY <1>1, <1>3, <1>4, <2>2 DEF Take, Outside, Early
<1>5. CASE conv[req[r].at] # None /\ ~(req[r].kind = "turn" /\ req[r].empty)
  <2>1. req'[r] = IF req[r].kind = "turn" THEN Turn(r) ELSE Archiving(r)
    BY <1>2, <1>5 DEF Take, Set
  <2>2. req'[r].pc \in Holding /\ req'[r].at = req[r].at /\ req'[r].read = conv[req[r].at]
    BY <2>1 DEF Turn, Underway, Archiving, Holding
  <2>3. req'[r] \in Turning \cup Closing
    BY <2>2, PcOf DEF Shape
  <2>4. req[r].at \in Conversations /\ req[r] \in Early
    BY <1>1 DEF Asked, Asking, Early
  <2> QED BY <1>3, <1>5, <2>2, <2>3, <2>4 DEF Take, Given
<1> QED BY <1>4, <1>5

\* The five kinds of step there are.
LEMMA Kinds ==
    ASSUME Shape, Shape', Next
    PROVE  \/ \E c \in Conversations : CreateConversation(c)
           \/ \E r \in Requests : Outside(r) \/ Given(r) \/ Inside(r)
           \/ \E r \in Requests : Write(r) /\ Ending(r, "done")
           \/ \E r \in Requests : Ending(r, "failed") /\ UNCHANGED conv
           \/ UNCHANGED <<conv, lock, slots, req>>
<1>1. ASSUME NEW what, Prune(what) PROVE UNCHANGED <<conv, lock, slots, req>>
  BY <1>1 DEF Prune
<1> QED BY <1>1, StepKinds, TakeKinds DEF Next, Step

LEMMA OwnedStep ==
    ASSUME Shape, Shape', Owned, Next
    PROVE  Owned'
<1> USE NoneAssumption
<1>0. ASSUME NEW r \in Requests, req[r].pc \in Holding
      PROVE  req[r] \in Turning \cup Closing /\ req[r].at \in Conversations
  BY <1>0, PcOf DEF Shape, Turning, Closing
<1> DEFINE Holds(q) == req[q].pc \in Holding => lock[req[q].at] = q /\ conv[req[q].at] = req[q].read
           Locked(c) == lock[c] # None => req[lock[c]].pc \in Holding /\ req[lock[c]].at = c
<1>a. (\A q \in Requests : Holds(q)) /\ (\A c \in Conversations : Locked(c))
  BY DEF Owned
<1>b. (\A q \in Requests : Holds(q)') /\ (\A c \in Conversations : Locked(c)') => Owned'
  BY DEF Owned
<1>c. \A c \in Conversations : lock[c] \in Requests \cup {None}
  BY DEF Shape
<1>1. ASSUME NEW c \in Conversations, CreateConversation(c) PROVE Owned'
  <2>1. UNCHANGED <<lock, req>> /\ conv[c] = None
    BY <1>1 DEF CreateConversation
  <2>2. \A d \in Conversations : d # c => conv'[d] = conv[d]
    BY <1>1 DEF CreateConversation, Shape
  <2>3. \A q \in Requests : Holds(q)'
    <3>1. ASSUME NEW q \in Requests, req[q].pc \in Holding PROVE req[q].at # c
      <4>1. req[q].read \in Records
        BY <1>0, <3>1 DEF Turning, Closing
      <4> QED BY <1>a, <2>1, <3>1, <4>1
    <3> QED BY <1>0, <1>a, <2>1, <2>2, <3>1
  <2> QED BY <1>a, <1>b, <2>1, <2>3
<1>2. ASSUME NEW r \in Requests, Outside(r) PROVE Owned'
  <2>1. UNCHANGED <<conv, lock>> /\ Others(r) /\ req[r].pc \notin Holding /\ req'[r].pc \notin Holding
    BY <1>2, EarlyPc DEF Outside
  <2> QED BY <1>a, <1>b, <1>c, <2>1 DEF Others
<1>3. ASSUME NEW r \in Requests, Given(r) PROVE Owned'
  <2> DEFINE a == req[r].at
  <2>1. /\ lock[a] = None /\ a \in Conversations /\ conv' = conv /\ Others(r)
        /\ req[r].pc \notin Holding /\ req'[r].pc \in Holding
        /\ req'[r].at = a /\ req'[r].read = conv[a]
    BY <1>3, EarlyPc DEF Given
  <2>2. \A c \in Conversations : lock'[c] = IF c = a THEN r ELSE lock[c]
    BY <1>3 DEF Given, Shape
  <2> HIDE DEF a
  <2>3. ASSUME NEW q \in Requests PROVE Holds(q)'
    <3>1. CASE q = r
      BY <2>1, <2>2, <3>1
    <3>2. CASE q # r
      BY <1>0, <1>a, <2>1, <2>2, <3>2 DEF Others
    <3> QED BY <3>1, <3>2
  <2>4. ASSUME NEW c \in Conversations PROVE Locked(c)'
    <3>1. CASE c = a
      BY <2>1, <2>2, <3>1
    <3>2. CASE c # a
      BY <1>a, <1>c, <2>1, <2>2, <3>2 DEF Others
    <3> QED BY <3>1, <3>2
  <2> QED BY <1>b, <2>3, <2>4
<1>4. ASSUME NEW r \in Requests, Inside(r) PROVE Owned'
  <2>1. /\ UNCHANGED <<conv, lock>> /\ Others(r)
        /\ req[r].pc \in Holding /\ req'[r].pc \in Holding
        /\ req'[r].at = req[r].at /\ req'[r].read = req[r].read
    BY <1>4 DEF Inside, Turning
  <2> QED BY <1>a, <1>b, <1>c, <2>1 DEF Others
<1>5. ASSUME NEW r \in Requests, NEW l \in {"done", "failed"}, Ending(r, l),
             \A c \in Conversations \ {req[r].at} : conv'[c] = conv[c]
      PROVE  Owned'
  <2> DEFINE a == req[r].at
  <2>1. req'[r].pc \notin Holding /\ Others(r)
    BY <1>5 DEF Ending, Turning, Closing, Holding
  <2>2. a \in Conversations /\ lock[a] = r
    BY <1>0, <1>5, <1>a DEF Ending
  <2>3. \A c \in Conversations : lock'[c] = IF c = a THEN None ELSE lock[c]
    BY <1>5, <2>2 DEF Ending, Shape
  <2>4. \A c \in Conversations \ {a} : conv'[c] = conv[c]
    BY <1>5
  <2> HIDE DEF a
  <2>5. ASSUME NEW q \in Requests PROVE Holds(q)'
    <3>1. CASE q = r
      BY <2>1, <3>1
    <3>2. CASE q # r
      BY <1>0, <1>a, <2>1, <2>2, <2>3, <2>4, <3>2 DEF Others
    <3> QED BY <3>1, <3>2
  <2>6. ASSUME NEW c \in Conversations PROVE Locked(c)'
    <3>1. CASE c = a
      BY <2>3, <3>1
    <3>2. CASE c # a
      <4>1. lock[c] # r
        BY <1>5, <1>a, <3>2 DEF Ending, a
      <4> QED BY <1>a, <1>c, <2>1, <2>3, <3>2, <4>1 DEF Others
    <3> QED BY <3>1, <3>2
  <2> QED BY <1>b, <2>5, <2>6
<1>6. ASSUME NEW r \in Requests, Write(r), Ending(r, "done") PROVE Owned'
  <2>1. \A c \in Conversations \ {req[r].at} : conv'[c] = conv[c]
    BY <1>6 DEF Write, Shape
  <2> QED BY <1>5, <1>6, <2>1
<1>7. ASSUME NEW r \in Requests, Ending(r, "failed"), UNCHANGED conv PROVE Owned'
  BY <1>5, <1>7
<1>8. CASE UNCHANGED <<conv, lock, slots, req>>
  BY <1>8 DEF Owned
<1> QED BY <1>1, <1>2, <1>3, <1>4, <1>6, <1>7, <1>8, Kinds

LEMMA SlotsStep ==
    ASSUME Shape, Shape', Slots, Next
    PROVE  Slots'
<1> DEFINE R == {q \in Requests : req[q].pc = "reading"}
<1>0. IsFiniteSet(R)
  BY NoneAssumption, FS_Subset
<1>1. ASSUME NEW r \in Requests, ReadForm(r) PROVE Slots'
  <2>1. Others(r) /\ req[r] \in Asked /\ req[r].pc = "form"
    BY <1>1, StepKinds, PcOf DEF Outside, ReadForm, Shape
  <2>2. CASE slots = 0
    <3>1. req'[r].pc = "refused" /\ slots' = slots
      BY <1>1, <2>1, <2>2 DEF ReadForm, Goto, Set, Shape, Asked
    <3>2. R' = R
      BY <2>1, <3>1 DEF Others
    <3> QED BY <3>1, <3>2 DEF Slots
  <2>3. CASE slots # 0
    <3>1. req'[r].pc = "reading" /\ slots' = slots - 1
      BY <1>1, <2>1, <2>3 DEF ReadForm, Goto, Set, Shape, Asked
    <3>2. R' = R \cup {r} /\ r \notin R
      BY <2>1, <3>1 DEF Others
    <3>3. Cardinality(R') = Cardinality(R) + 1
      BY <1>0, <3>2, FS_AddElement
    <3> QED BY <1>0, <3>1, <3>3, FS_CardinalityType, LimitsAssumption DEF Slots, Shape
  <2> QED BY <2>2, <2>3
<1>2. ASSUME NEW r \in Requests, EndForm(r) PROVE Slots'
  <2>1. Others(r) /\ req[r] \in Asked /\ req[r].pc = "reading"
    BY <1>2, StepKinds, PcOf DEF Outside, EndForm, Shape
  <2>2. req'[r].pc \in {"wait", "refused"} /\ slots' = slots + 1
    BY <1>2, <2>1 DEF EndForm, Goto, Set, Shape, Asked
  <2>3. R' = R \ {r} /\ r \in R
    BY <2>1, <2>2 DEF Others
  <2>4. Cardinality(R') = Cardinality(R) - 1
    BY <1>0, <2>3, FS_RemoveElement
  <2> QED BY <1>0, <2>2, <2>4, FS_CardinalityType, LimitsAssumption DEF Slots, Shape
<1>3. ASSUME UNCHANGED slots, R' = R PROVE Slots'
  BY <1>3 DEF Slots
<1>4. ASSUME NEW r \in Requests, Others(r), req[r].pc # "reading", req'[r].pc # "reading" PROVE R' = R
  BY <1>4 DEF Others
<1>5. ASSUME NEW r \in Requests, Post(r) \/ AskArchive(r) PROVE Slots'
  <2>1. Others(r) /\ req[r].pc = "idle"
    BY <1>5, StepKinds DEF Outside, Post, AskArchive
  <2>2. req'[r].pc # "reading" /\ slots' = slots
    BY <1>5 DEF Post, AskArchive, Set, Shape
  <2> QED BY <1>3, <1>4, <2>1, <2>2
<1>6. ASSUME NEW r \in Requests, Take(r) PROVE Slots'
  <2>1. Others(r) /\ req[r].pc = "wait" /\ slots' = slots
    BY <1>6, TakeKinds DEF Outside, Given, Take
  <2>2. req'[r].pc # "reading"
    <3>1. req'[r].pc \in Holding \cup {"refused"}
      <4>1. CASE Given(r)
        BY <4>1 DEF Given
      <4>2. CASE conv[req[r].at] = None \/ (req[r].kind = "turn" /\ req[r].empty)
        BY <1>6, <2>1, <4>2, PcOf DEF Take, Goto, Set, Shape, Asked, Asking
      <4>3. CASE conv[req[r].at] # None /\ ~(req[r].kind = "turn" /\ req[r].empty)
        BY <1>6, <4>3 DEF Take, Set, Shape, Turn, Underway, Archiving, Holding
      <4> QED BY <4>2, <4>3
    <3> QED BY <3>1 DEF Holding
  <2> QED BY <1>3, <1>4, <2>1, <2>2
<1>7. ASSUME NEW r \in Requests, Inside(r) \/ Ending(r, "done") \/ Ending(r, "failed") PROVE Slots'
  <2>1. slots' = slots /\ Others(r) /\ req[r].pc # "reading" /\ req'[r].pc # "reading"
    BY <1>7 DEF Inside, Ending, Holding, Turning, Closing
  <2> QED BY <1>3, <1>4, <2>1
<1>8. ASSUME UNCHANGED <<slots, req>> PROVE Slots'
  BY <1>3, <1>8
<1>9. ASSUME NEW c \in Conversations, CreateConversation(c) PROVE Slots'
  BY <1>8, <1>9 DEF CreateConversation
<1>10. ASSUME NEW what, Prune(what) PROVE Slots'
  BY <1>8, <1>10 DEF Prune
<1> HIDE DEF R
<1> QED BY <1>1, <1>2, <1>5, <1>6, <1>7, <1>9, <1>10, StepKinds DEF Next, Step

-----------------------------------------------------------------------------
(* What a turn says of itself.                                              *)

\* A request that a step leaves alone.
LEMMA SameStory ==
    ASSUME NEW q \in Requests, Story(q), req'[q] = req[q], told'[q] = told[q], run'[q] \subseteq run[q]
    PROVE  Story(q)'
<1>1. Session(q)' = Session(q)
  BY DEF Session, Message
<1>2. CASE req[q] \notin Turning
  BY <1>2 DEF Story
<1>3. CASE req[q] \in Turning
  <2> HIDE DEF Session
  <2> QED BY <1>1, <1>3 DEF Story
<1> QED BY <1>2, <1>3

LEMMA StoryStep ==
    ASSUME Shape, Shape', \A r \in Requests : Story(r), Next
    PROVE  \A r \in Requests : Story(r)'
<1> USE NoneAssumption
<1>0. ASSUME NEW q \in Requests, req'[q] = req[q], told'[q] = told[q], run'[q] \subseteq run[q]
      PROVE  Story(q)'
  BY <1>0, SameStory
<1>1. ASSUME NEW c \in Conversations, CreateConversation(c) PROVE \A q \in Requests : Story(q)'
  BY <1>0, <1>1 DEF CreateConversation
<1>2. ASSUME NEW what, Prune(what) PROVE \A q \in Requests : Story(q)'
  BY <1>0, <1>2 DEF Prune
<1>3. ASSUME NEW r \in Requests, NEW q \in Requests \ {r}, Post(r) \/ AskArchive(r) \/ Step(r) \/ Raise(r)
      PROVE  Story(q)'
  <2>1. Others(r)
    BY <1>3, StepKinds, TakeKinds DEF Step, Outside, Inside, Given, Ending
  <2>2. told'[q] = told[q] /\ run'[q] = run[q]
    BY <1>3 DEF Post, AskArchive, Step, ReadForm, EndForm, Take, TakeFile, Compose, WriteJournal, WriteAudit,
                Written, Clean, Answer, Write, Raise, Shape
  <2> QED BY <1>0, <2>1, <2>2 DEF Others
<1>4. ASSUME NEW r \in Requests, Post(r) \/ AskArchive(r) \/ ReadForm(r) \/ EndForm(r)
      PROVE  Story(r)'
  <2>1. UNCHANGED <<run, told>>
    BY <1>4 DEF Post, AskArchive, ReadForm, EndForm
  <2>2. req[r] \notin Turning /\ req'[r] \notin Turning
    BY <1>4, StepKinds, EarlyPc DEF Outside
  <2> QED BY <2>1, <2>2 DEF Story
<1> DEFINE Put(r, x) == req' = [req EXCEPT ![r] = x]
<1>5. ASSUME NEW r \in Requests, NEW x, Put(r, x) PROVE req'[r] = x
  BY <1>5 DEF Shape
<1>6. ASSUME NEW r \in Requests, Take(r) PROVE Story(r)'
  <2>1. req[r] \in Early /\ req[r] \notin Turning /\ req[r].at \in Conversations
    BY <1>6, PcOf, EarlyPc DEF Take, Shape, Early, Asked, Asking
  <2>2. told[r] = Untold /\ run[r] = {} /\ told' = told
    BY <1>6, <2>1 DEF Story, Take
  <2>3. CASE conv[req[r].at] = None \/ (req[r].kind = "turn" /\ req[r].empty)
    <3>1. req'[r].pc = "refused"
      BY <1>6, <2>3, PcOf DEF Take, Goto, Set, Shape, Asked, Asking
    <3>2. req'[r] \notin Turning
      BY <3>1 DEF Turning, Holding
    <3> QED BY <1>6, <2>2, <2>3, <3>2 DEF Take, Story
  <2>4. CASE conv[req[r].at] # None /\ req[r].kind = "turn" /\ ~req[r].empty
    <3>1. Put(r, Turn(r))
      BY <1>6, <2>4 DEF Take, Set
    <3>2. req'[r] = Turn(r)
      BY <1>5, <3>1
    <3>3. req'[r] \in Turning
      BY <3>2, PcOf, ZenonT(40) DEF Turn, Underway, Shape, Holding
    <3>4. /\ req'[r].seen = LastOf(req'[r].read.msgs, Recent)
          /\ req'[r].pc = "files" /\ req'[r].route = None
      BY <3>2 DEF Turn, Underway
    <3> QED BY <2>2, <3>3, <3>4 DEF Story, Untold
  <2>5. CASE conv[req[r].at] # None /\ req[r].kind # "turn"
    <3>1. Put(r, Archiving(r)) /\ run' = [run EXCEPT ![r] = {}]
      BY <1>6, <2>5 DEF Take, Set
    <3>2. req'[r] = Archiving(r)
      BY <1>5, <3>1
    <3>5. req'[r].kind = "archive"
      BY <3>2 DEF Archiving
    <3>3. req'[r] \notin Turning
      BY <3>5 DEF Turning
    <3>4. run'[r] = {}
      BY <3>1 DEF Shape
    <3> QED BY <2>2, <3>3, <3>4 DEF Story
  <2> QED BY <2>3, <2>4, <2>5
\* The steps of a turn that has its conversation: what the story says before and after.
<1>7. ASSUME NEW r \in Requests, Inside(r)
      PROVE  /\ req[r] \in Turning /\ req'[r] \in Turning
             /\ req'[r].seen = LastOf(req'[r].read.msgs, Recent)
             /\ req'[r].local = req[r].local
  BY <1>7 DEF Inside, Story
<1>8. ASSUME NEW r \in Requests, TakeFile(r) PROVE Story(r)'
  <2>1. Inside(r)
    BY <1>8, StepKinds
  <2>2. PICK x \in Texts : Put(r, IF req[r].files = 0 THEN [Masked(r, x) EXCEPT !.pc = "compose"]
                                  ELSE [Masked(r, x) EXCEPT !.files = @ - 1])
    BY <1>8 DEF TakeFile, Set
  <2>3. req'[r] = IF req[r].files = 0 THEN [Masked(r, x) EXCEPT !.pc = "compose"]
                                  ELSE [Masked(r, x) EXCEPT !.files = @ - 1]
    BY <1>5, <2>2
  <2>4. req[r].pc = "files" /\ UNCHANGED <<run, told>>
    BY <1>8 DEF TakeFile
  <2>5. req'[r].pc \in {"files", "compose"} /\ req'[r].route = req[r].route
    BY <1>7, <2>1, <2>3, <2>4 DEF Masked, Turning
  <2>6. req[r].route = None /\ told[r] = Untold
    BY <1>7, <2>1, <2>4 DEF Story
  <2> QED BY <1>7, <2>1, <2>4, <2>5, <2>6 DEF Story, Untold
<1>9. ASSUME NEW r \in Requests, Compose(r) PROVE Story(r)'
  <2>1. Inside(r)
    BY <1>9, StepKinds
  <2>2. PICK x \in Texts : Put(r, [Masked(r, x) EXCEPT !.pc = "journal",
                                     !.route = IF Masked(r, x).weak THEN "local" ELSE "external"])
    BY <1>9 DEF Compose, Set
  <2>3. req'[r] = [Masked(r, x) EXCEPT !.pc = "journal", !.route = IF Masked(r, x).weak THEN "local" ELSE "external"]
    BY <1>5, <2>2
  <2>4. req[r].pc = "compose" /\ UNCHANGED <<run, told>>
    BY <1>9 DEF Compose
  <2>5. /\ req'[r].pc = "journal" /\ req'[r].route \in Routes
        /\ req'[r].weak => req'[r].route = "local"
    BY <1>7, <2>1, <2>3 DEF Masked, Turning, Routes
  <2>6. told[r] = Untold
    BY <1>7, <2>1, <2>4 DEF Story
  <2> QED BY <1>7, <2>1, <2>4, <2>5, <2>6 DEF Story, Untold
<1>10. ASSUME NEW r \in Requests, NEW what \in {"journal", "audit"}, NEW next \in {"audit", "clean"},
              Written(r, what, next), Inside(r), req[r].pc \in {"journal", "audit"}
       PROVE  /\ \E l \in {next, "answer"} : req'[r] = [req[r] EXCEPT !.pc = l]
              /\ req'[r].pc = next => told'[r] = [told[r] EXCEPT ![what] = req[r].route]
              /\ req'[r].pc = "answer" => told'[r] = told[r]
  <2>1. CASE Goto(r, next) /\ told' = [told EXCEPT ![r][what] = req[r].route]
    <3>1. req'[r] = [req[r] EXCEPT !.pc = next]
      BY <2>1 DEF Goto, Set, Shape
    <3>2. req'[r].pc = next
      BY <1>10, <3>1 DEF Inside, Turning
    <3>3. told'[r] = [told[r] EXCEPT ![what] = req[r].route]
      BY <2>1 DEF Shape
    <3> QED BY <3>1, <3>2, <3>3
  <2>2. CASE Goto(r, "answer") /\ UNCHANGED told
    <3>1. req'[r] = [req[r] EXCEPT !.pc = "answer"]
      BY <2>2 DEF Goto, Set, Shape
    <3>2. req'[r].pc = "answer"
      BY <1>10, <3>1 DEF Inside, Turning
    <3> QED BY <2>2, <3>1, <3>2
  <2> QED BY <1>10, <2>1, <2>2 DEF Written
<1>11. ASSUME NEW r \in Requests, WriteJournal(r) PROVE Story(r)'
  <2>1. Inside(r) /\ req[r].pc = "journal"
    BY <1>11, StepKinds DEF WriteJournal
  <2>2. told[r] = Untold /\ req[r].route \in Routes /\ (req[r].weak => req[r].route = "local")
    BY <1>7, <2>1 DEF Story
  <2>3. PICK l \in {"audit", "answer"} : req'[r] = [req[r] EXCEPT !.pc = l]
    BY <1>10, <1>11, <2>1 DEF WriteJournal
  <2>4. req'[r].pc = l /\ req'[r].route = req[r].route /\ req'[r].weak = req[r].weak
    BY <1>7, <2>1, <2>3 DEF Turning
  <2>5. /\ l = "audit" => told'[r] = [journal |-> req[r].route, audit |-> None]
        /\ l = "answer" => told'[r] = Untold
    <3>1. Written(r, "journal", "audit")
      BY <1>11 DEF WriteJournal
    <3>2. /\ l = "audit" => told'[r] = [told[r] EXCEPT !["journal"] = req[r].route]
          /\ l = "answer" => told'[r] = told[r]
      BY <1>10, <2>1, <2>4, <3>1
    <3> QED BY <2>2, <3>2 DEF Untold
  <2>6. Story(r)'
    BY <1>7, <2>1, <2>2, <2>4, <2>5 DEF Story, Untold
  <2> QED BY <2>6
<1>12. ASSUME NEW r \in Requests, WriteAudit(r) PROVE Story(r)'
  <2>1. Inside(r) /\ req[r].pc = "audit"
    BY <1>12, StepKinds DEF WriteAudit
  <2>2. /\ req[r].route \in Routes /\ (req[r].weak => req[r].route = "local")
        /\ told[r] = [journal |-> req[r].route, audit |-> None]
    BY <1>7, <2>1 DEF Story, Shape
  <2>3. PICK l \in {"clean", "answer"} : req'[r] = [req[r] EXCEPT !.pc = l]
    BY <1>10, <1>12, <2>1 DEF WriteAudit
  <2>4. req'[r].pc = l /\ req'[r].route = req[r].route /\ req'[r].weak = req[r].weak
    BY <1>7, <2>1, <2>3 DEF Turning
  <2>5. /\ l = "clean" => told'[r] = [journal |-> req[r].route, audit |-> req[r].route]
        /\ l = "answer" => told'[r] = told[r]
    <3>1. Written(r, "audit", "clean")
      BY <1>12 DEF WriteAudit
    <3>2. /\ l = "clean" => told'[r] = [told[r] EXCEPT !["audit"] = req[r].route]
          /\ l = "answer" => told'[r] = told[r]
      BY <1>10, <2>1, <2>4, <3>1
    <3> QED BY <2>2, <3>2
  <2> QED BY <1>7, <2>1, <2>2, <2>4, <2>5 DEF Story, Untold
<1>13. ASSUME NEW r \in Requests, Clean(r) PROVE Story(r)'
  <2>1. Inside(r) /\ req[r].pc = "clean"
    BY <1>13, StepKinds DEF Clean
  <2>2. req'[r] = [req[r] EXCEPT !.pc = "answer"] /\ "temp" \notin run'[r] /\ told' = told
    BY <1>13 DEF Clean, Goto, Set, Shape
  <2>3. req'[r].pc = "answer" /\ req'[r].route = req[r].route /\ req'[r].weak = req[r].weak
    BY <1>7, <2>1, <2>2 DEF Turning
  <2> QED BY <1>7, <2>1, <2>2, <2>3 DEF Story
<1>14. ASSUME NEW r \in Requests, Answer(r) PROVE Story(r)'
  <2>1. Inside(r) /\ req[r].pc = "answer" /\ UNCHANGED <<run, told>>
    BY <1>14, StepKinds DEF Answer
  <2>2. PICK b \in BOOLEAN, s \in {<<>>, Session(r)} :
               /\ req[r].local = "hybrid" => b
               /\ Put(r, [req[r] EXCEPT !.pc = "write", !.reply = b, !.session = s])
    BY <1>14 DEF Answer, Set
  <2>3. req'[r] = [req[r] EXCEPT !.pc = "write", !.reply = b, !.session = s]
    BY <1>5, <2>2
  <2>4. /\ req'[r].pc = "write" /\ req'[r].reply = b /\ req'[r].session = s
        /\ req'[r].route = req[r].route /\ req'[r].weak = req[r].weak
        /\ req'[r].read = req[r].read
    BY <1>7, <2>1, <2>3 DEF Turning
  <2>5. Session(r)' = Session(r)
    BY <2>4 DEF Session, Message
  <2>6. req'[r].session \in {<<>>, Session(r)'}
    BY <2>4, <2>5
  <2> QED BY <1>7, <2>1, <2>2, <2>4, <2>6 DEF Story
<1>15. ASSUME NEW r \in Requests, NEW l \in {"done", "failed"}, Ending(r, l), UNCHANGED <<run, told>>,
              l = "done" => req[r].pc = "write"
       PROVE  Story(r)'
  <2>1. CASE req[r] \in Closing
    <3>1. req'[r].kind = "archive"
      BY <1>15, <2>1 DEF Ending, Closing
    <3>2. req'[r] \notin Turning /\ req[r] \notin Turning
      BY <2>1, <3>1 DEF Turning, Closing
    <3> QED BY <1>15, <3>2 DEF Story
  <2>2. CASE req[r] \in Turning
    <3>1. req'[r] = [req[r] EXCEPT !.pc = l]
      BY <1>15 DEF Ending
    <3>2. req'[r] \in Turning
      BY <2>2, <3>1 DEF Turning
    <3>3. /\ req'[r].pc = l /\ req'[r].route = req[r].route /\ req'[r].weak = req[r].weak
          /\ req'[r].local = req[r].local /\ req'[r].reply = req[r].reply
          /\ req'[r].seen = req[r].seen /\ req'[r].read = req[r].read
      BY <2>2, <3>1 DEF Turning
    <3> QED BY <1>15, <2>2, <3>2, <3>3 DEF Story
  <2> QED BY <1>15, <2>1, <2>2 DEF Ending
<1>16. ASSUME NEW r \in Requests, Write(r) \/ Raise(r) PROVE Story(r)'
  BY <1>15, <1>16, StepKinds DEF Write, Raise
<1> HIDE DEF Put
<1> QED BY <1>1, <1>2, <1>3, <1>4, <1>6, <1>8, <1>9, <1>11, <1>12, <1>13, <1>14, <1>16 DEF Next, Step

-----------------------------------------------------------------------------
(* The files.                                                               *)

LEMMA Prefix ==
    ASSUME NEW S, NEW s \in Seq(S), NEW t \in Seq(S), NEW n \in 0 .. Len(s)
    PROVE  SubSeq(s \o t, 1, n) = SubSeq(s, 1, n)
<1>1. CASE n = 0
  BY <1>1, SubSeqEmpty
<1>2. CASE n # 0
  <2>1. n \in 1 .. Len(s) /\ 1 \in 1 .. Len(s)
    BY <1>2, LenProperties
  <2> QED BY <2>1, SubSeqOfConcat1
<1> QED BY <1>1, <1>2

LEMMA Suffix ==
    ASSUME NEW S, NEW s \in Seq(S), NEW t \in Seq(S), Len(t) >= 1
    PROVE  SubSeq(s \o t, Len(s) + 1, Len(s) + Len(t)) = t
<1>1. Len(s) \in Nat /\ Len(t) \in Nat
  BY LenProperties
<1>2. SubSeq(s \o t, Len(s) + 1, Len(s) + Len(t)) = SubSeq(t, Len(s) + 1 - Len(s), Len(s) + Len(t) - Len(s))
  <2>1. Len(s) + 1 \in Len(s) + 1 .. Len(s) + Len(t) /\ Len(s) + Len(t) \in Len(s) + 1 .. Len(s) + Len(t)
    BY <1>1
  <2> QED BY <2>1, SubSeqOfConcat2
<1>3. Len(s) + 1 - Len(s) = 1 /\ Len(s) + Len(t) - Len(s) = Len(t)
  BY <1>1
<1> QED BY <1>2, <1>3, SubSeqFull

Files == Filed /\ NothingLost /\ EveryTurnAnswered /\ AnswersWhatCameBefore

\* The messages of a conversation that exists.
LEMMA MessagesOf ==
    ASSUME Shape, NEW c \in Conversations, conv[c] # None
    PROVE  /\ conv[c] \in Records /\ conv[c].msgs \in Seq(Messages)
           /\ Len(conv[c].msgs) \in Nat /\ DOMAIN conv[c].msgs = 1 .. Len(conv[c].msgs)
           /\ \A i \in 1 .. Len(conv[c].msgs) : conv[c].msgs[i].run \in Requests
<1>1. conv[c] \in Records
  BY DEF Shape
<1>2. conv[c].msgs \in Seq(Messages)
  BY <1>1 DEF Records
<1>3. \A i \in 1 .. Len(conv[c].msgs) : conv[c].msgs[i] \in Messages
  BY <1>2, ElementOfSeq
<1> QED BY <1>1, <1>2, <1>3, LenProperties DEF Messages

\* What a step leaves in a conversation it does not write.
LEMMA KeptFiles ==
    ASSUME Shape, Shape', Files, NEW c \in Conversations, conv'[c] = conv[c],
           \A q \in Requests : req[q].pc = "done" => req'[q] = req[q],
           \A q \in Requests : req'[q].pc = "done" /\ req'[q].at = c => req'[q] = req[q]
    PROVE  /\ conv'[c] # None =>
                /\ \A i \in 1 .. Len(conv'[c].msgs) :
                     /\ req'[conv'[c].msgs[i].run] \in Turning
                     /\ req'[conv'[c].msgs[i].run].pc = "done"
                     /\ req'[conv'[c].msgs[i].run].at = c
                /\ \A i \in DOMAIN conv'[c].msgs : conv'[c].msgs[i].role = "user" =>
                     Context(req'[conv'[c].msgs[i].run], SubSeq(conv'[c].msgs, 1, i - 1), conv'[c].msgs[i])
           /\ (conv'[c] # None /\ conv'[c].msgs # <<>>) =>
                /\ conv'[c].last = Last(conv'[c].msgs).run
                /\ \A i \in DOMAIN conv'[c].msgs :
                     (conv'[c].msgs[i].role = "user" /\ req'[conv'[c].msgs[i].run].local = "hybrid") =>
                        i < Len(conv'[c].msgs) /\ conv'[c].msgs[i + 1].role = "assistant"
<1>1. CASE conv[c] = None
  BY <1>1
<1>2. CASE conv[c] # None
  <2> DEFINE m == conv[c].msgs
  <2>1. DOMAIN m = 1 .. Len(m) /\ \A i \in 1 .. Len(m) : m[i].run \in Requests
    BY <1>2, MessagesOf
  <2>2. \A i \in 1 .. Len(m) : /\ req[m[i].run] \in Turning
                               /\ req[m[i].run].pc = "done" /\ req[m[i].run].at = c
    BY <1>2 DEF Files, Filed
  <2>3. \A i \in 1 .. Len(m) : req'[m[i].run] = req[m[i].run]
    BY <2>1, <2>2
  <2>4. \A i \in DOMAIN m : m[i].role = "user" =>
             Context(req[m[i].run], SubSeq(m, 1, i - 1), m[i])
    BY <1>2 DEF Files, AnswersWhatCameBefore
  <2>5. m # <<>> => /\ conv[c].last = Last(m).run
                    /\ \A i \in DOMAIN m : (m[i].role = "user" /\ req[m[i].run].local = "hybrid") =>
                            i < Len(m) /\ m[i + 1].role = "assistant"
    BY <1>2 DEF Files, EveryTurnAnswered
  <2>6. conv'[c].msgs = m /\ conv'[c].last = conv[c].last
    OBVIOUS
  <2> HIDE DEF m
  <2> QED BY <2>1, <2>2, <2>3, <2>4, <2>5, <2>6
<1> QED BY <1>1, <1>2

\* What NothingLost says of one request.
Kept(r) == req[r].pc = "done" =>
             LET c == conv[req[r].at] IN
             IF req[r].kind = "archive" THEN c.status = "archived"
             ELSE LET mine == {i \in DOMAIN c.msgs : c.msgs[i].run = r}
                  IN  \E i \in mine : /\ SubSeq(c.msgs, i, i + Len(Added(r)) - 1) = Added(r)
                                      /\ mine = i .. (i + Len(Added(r)) - 1)

LEMMA SameAdded ==
    ASSUME NEW r, req'[r] = req[r]
    PROVE  Added(r)' = Added(r)
BY DEF Added, Message

LEMMA KeptSame ==
    ASSUME NEW r \in Requests, Kept(r), req'[r] = req[r], conv'[req[r].at] = conv[req[r].at]
    PROVE  Kept(r)'
<1>1. Added(r)' = Added(r)
  BY SameAdded
<1> QED BY <1>1 DEF Kept

\* A step that ends no request as done and writes nothing.
LEMMA QuietStep ==
    ASSUME Shape, Shape', Files, UNCHANGED conv,
           \A q \in Requests : req[q].pc = "done" \/ req'[q].pc = "done" => req'[q] = req[q],
           \A q \in Requests : req'[q] \in Turning \cup Closing => conv[req'[q].at] # None
    PROVE  Files'
<1>1. Filed' /\ EveryTurnAnswered' /\ AnswersWhatCameBefore'
  BY KeptFiles DEF Filed, EveryTurnAnswered, AnswersWhatCameBefore
<1>2. \A q \in Requests : Kept(q)'
  <2>1. ASSUME NEW q \in Requests, req'[q].pc = "done" PROVE Kept(q)'
    BY <2>1, KeptSame DEF Files, NothingLost, Kept
  <2> QED BY <2>1 DEF Kept
<1> QED BY <1>1, <1>2 DEF Files, NothingLost, Kept

\* What the writing of a turn makes of its conversation.
LEMMA WrittenTurn ==
    ASSUME Shape, Owned, NEW r \in Requests, Story(r), Write(r), req[r] \in Turning
    PROVE  LET c == req[r].at
               m == conv[c].msgs
               n == conv'[c].msgs
               a == Added(r)
           IN  /\ c \in Conversations /\ conv[c] # None /\ conv'[c] # None
               /\ m \in Seq(Messages) /\ a \in Seq(Messages)
               /\ n = m \o a /\ Len(n) = Len(m) + Len(a)
               /\ conv'[c].last = r /\ conv'[c].status = conv[c].status
               /\ \A d \in Conversations \ {c} : conv'[d] = conv[d]
               /\ \A i \in 1 .. Len(m) : n[i] = m[i]
               /\ Len(a) = IF req[r].reply THEN 2 ELSE 1
               /\ n[Len(m) + 1] = Message(r, "user")
               /\ req[r].reply => n[Len(m) + 2] = Message(r, "assistant")
<1> DEFINE c == req[r].at
           m == conv[c].msgs
           a == Added(r)
<1>1. /\ req[r].pc = "write" /\ c \in Conversations /\ req[r].route \in Routes
      /\ req[r].reply \in BOOLEAN /\ req[r].kind = "turn"
  BY DEF Write, Story, Turning
<1>2. conv[c] = req[r].read /\ conv[c] \in Records
  BY <1>1 DEF Owned, Holding, Turning
<1>3. conv[c] # None
  BY <1>2, NoneAssumption
<1>4. /\ m \in Seq(Messages) /\ a \in Seq(Messages)
      /\ Len(a) = IF req[r].reply THEN 2 ELSE 1
      /\ a[1] = Message(r, "user")
      /\ req[r].reply => a[2] = Message(r, "assistant")
  BY <1>1, <1>2, AddedType DEF Records
<1>5. conv' = [conv EXCEPT ![c] = [conv[c] EXCEPT !.msgs = m \o a, !.last = r]]
  BY <1>1, <1>2 DEF Write
<1>6. conv'[c] = [conv[c] EXCEPT !.msgs = m \o a, !.last = r]
  BY <1>1, <1>5 DEF Shape
<1>7. \A d \in Conversations \ {c} : conv'[d] = conv[d]
  BY <1>1, <1>5 DEF Shape
<1> HIDE DEF c, m, a
<1>8. conv'[c].msgs = m \o a /\ conv'[c].last = r /\ conv'[c].status = conv[c].status
  BY <1>2, <1>6 DEF Records
<1>9. /\ m \o a \in Seq(Messages) /\ Len(m \o a) = Len(m) + Len(a)
      /\ \A i \in 1 .. Len(m) + Len(a) : (m \o a)[i] = IF i <= Len(m) THEN m[i] ELSE a[i - Len(m)]
  BY <1>4, ConcatProperties
<1>10. Len(m) \in Nat
  BY <1>4
<1>11. /\ (m \o a)[Len(m) + 1] = a[1]
       /\ req[r].reply => (m \o a)[Len(m) + 2] = a[2]
       /\ \A i \in 1 .. Len(m) : (m \o a)[i] = m[i]
  BY <1>1, <1>4, <1>9, <1>10
<1>12. conv'[c] \in Records
  <2>1. r \in Requests \cup {None}
    OBVIOUS
  <2> QED BY <1>2, <1>6, <1>9, <2>1 DEF Records
<1>13. conv'[c] # None
  BY <1>12, NoneAssumption
<1> QED BY <1>1, <1>3, <1>4, <1>7, <1>8, <1>9, <1>11, <1>13 DEF c, m, a

LEMMA TurnFiles ==
    ASSUME Shape, Shape', Owned, Files, \A q \in Requests : Story(q),
           NEW r \in Requests, Write(r), Ending(r, "done"), req[r] \in Turning
    PROVE  Files'
<1> DEFINE c == req[r].at
           m == conv[c].msgs
           n == conv'[c].msgs
           a == Added(r)
           k == Len(a)
<1>1. /\ c \in Conversations /\ conv[c] # None /\ conv'[c] # None
      /\ m \in Seq(Messages) /\ a \in Seq(Messages)
      /\ n = m \o a /\ Len(n) = Len(m) + k
      /\ conv'[c].last = r /\ conv'[c].status = conv[c].status
      /\ \A d \in Conversations \ {c} : conv'[d] = conv[d]
      /\ \A i \in 1 .. Len(m) : n[i] = m[i]
      /\ k = IF req[r].reply THEN 2 ELSE 1
      /\ n[Len(m) + 1] = Message(r, "user")
      /\ req[r].reply => n[Len(m) + 2] = Message(r, "assistant")
  BY WrittenTurn
<1>2. /\ Others(r) /\ req[r].pc = "write" /\ req'[r] \in Turning
      /\ req'[r].pc = "done" /\ req'[r].at = c /\ req'[r].seen = req[r].seen
      /\ req'[r].session = req[r].session
      /\ req'[r].local = req[r].local /\ req'[r].reply = req[r].reply /\ req'[r].route = req[r].route
      /\ req'[r].kind = "turn"
  BY DEF Ending, Write, Turning
<1>3. Context(req'[r], m, Message(r, "user")) /\ (req[r].local = "hybrid" => req[r].reply)
  <2>1. req[r].pc = "write" BY <1>2
  <2>2. req[r].local = "hybrid" => req[r].reply BY <2>1, Zenon DEF Story
  <2>3. conv[req[r].at] = req[r].read BY <2>1 DEF Owned, Holding
  <2>4. req[r].seen = LastOf(req[r].read.msgs, Recent) BY <2>1 DEF Story
  <2>5. req[r].session \in {<<>>, LastOf(Append(req[r].read.msgs, Message(r, "user")), Recent)}
    BY <2>1 DEF Story, Session
  <2>6. req[r].read.msgs = m BY <2>3
  <2> HIDE DEF m
  <2>7. req[r].seen = LastOf(m, Recent) /\ req[r].session \in {<<>>, LastOf(Append(m, Message(r, "user")), Recent)}
    BY <2>4, <2>5, <2>6
  <2> QED BY <1>2, <2>2, <2>7 DEF Context
<1>4. /\ Len(m) \in Nat /\ DOMAIN m = 1 .. Len(m) /\ \A i \in 1 .. Len(m) : m[i].run \in Requests
      /\ \A i \in 1 .. Len(m) : /\ req[m[i].run] \in Turning
                                /\ req[m[i].run].pc = "done" /\ req[m[i].run].at = c
  <2>1. Len(m) \in Nat /\ DOMAIN m = 1 .. Len(m) /\ \A i \in 1 .. Len(m) : m[i].run \in Requests
    BY <1>1, MessagesOf
  <2>2. \A i \in 1 .. Len(m) : /\ req[m[i].run] \in Turning
                               /\ req[m[i].run].pc = "done" /\ req[m[i].run].at = c
    <3>1. c \in Conversations /\ conv[c] # None BY <1>1
    <3> QED BY <3>1, Zenon DEF Files, Filed
  <2> QED BY <2>1, <2>2
<1>5. /\ n \in Seq(Messages) /\ DOMAIN n = 1 .. Len(m) + k /\ Len(n) = Len(m) + k
  <2>1. /\ m \in Seq(Messages) /\ a \in Seq(Messages) /\ n = m \o a /\ Len(n) = Len(m) + k
    BY <1>1
  <2> HIDE DEF m, n, a, k
  <2>2. n \in Seq(Messages) BY <2>1, ConcatProperties
  <2> QED BY <2>1, <2>2, LenProperties
<1>6. \A i \in 1 .. Len(m) : m[i].run # r /\ req'[m[i].run] = req[m[i].run]
  BY <1>2, <1>4 DEF Others
<1>7. /\ n[Len(m) + 1].run = r /\ n[Len(m) + 1].role = "user"
      /\ k = 2 => n[Len(m) + 2].run = r /\ n[Len(m) + 2].role = "assistant"
  <2>1. /\ Message(r, "user").run = r /\ Message(r, "user").role = "user"
        /\ Message(r, "assistant").run = r /\ Message(r, "assistant").role = "assistant"
    BY DEF Message
  <2> HIDE DEF m, n, k
  <2> QED BY <1>1, <2>1
<1>8. k \in {1, 2} /\ (req[r].reply <=> k = 2)
  <2>1. k = IF req[r].reply THEN 2 ELSE 1 BY <1>1
  <2> HIDE DEF k
  <2> QED BY <2>1
<1>9. \A d \in Conversations \ {c} :
        /\ \A q \in Requests : req[q].pc = "done" => req'[q] = req[q]
        /\ \A q \in Requests : req'[q].pc = "done" /\ req'[q].at = d => req'[q] = req[q]
  BY <1>2 DEF Others
<1>10. /\ \A i \in 1 .. Len(m) : SubSeq(n, 1, i - 1) = SubSeq(m, 1, i - 1)
       /\ SubSeq(n, 1, Len(m)) = m
  <2>1. \A j \in 0 .. Len(m) : SubSeq(n, 1, j) = SubSeq(m, 1, j)
    <3>1. m \in Seq(Messages) /\ a \in Seq(Messages) /\ n = m \o a BY <1>1
    <3> HIDE DEF m, n, a
    <3> QED BY <3>1, Prefix
  <2>2. SubSeq(m, 1, Len(m)) = m
    BY <1>1, SubSeqFull
  <2>3. Len(m) \in 0 .. Len(m) /\ \A i \in 1 .. Len(m) : i - 1 \in 0 .. Len(m)
    <3>1. Len(m) \in Nat BY <1>4
    <3> HIDE DEF m
    <3> QED BY <3>1
  <2> HIDE DEF m, n
  <2> QED BY <2>1, <2>2, <2>3
<1>11. /\ \A i \in DOMAIN m : m[i].role = "user" =>
             Context(req[m[i].run], SubSeq(m, 1, i - 1), m[i])
       /\ \A i \in DOMAIN m : (m[i].role = "user" /\ req[m[i].run].local = "hybrid") =>
             i < Len(m) /\ m[i + 1].role = "assistant"
  <2>1. m = <<>> => DOMAIN m = {}
    BY <1>4
  <2> QED BY <1>1, <2>1 DEF Files, AnswersWhatCameBefore, EveryTurnAnswered
<1>12. Kept(r)'
  <2> DEFINE mine == {i \in DOMAIN n : n[i].run = r}
             b == Added(r)'
  <2>1. b = a
    BY <1>2 DEF Added, Message
  <2>2. mine = Len(m) + 1 .. Len(m) + k
    <3> HIDE DEF m, n, k
    <3> QED BY <1>1, <1>4, <1>5, <1>6, <1>7, <1>8
  <2>3. Len(m) + 1 + k - 1 = Len(m) + k
    <3>1. Len(m) \in Nat /\ k \in {1, 2} BY <1>4, <1>8
    <3> HIDE DEF m, k
    <3> QED BY <3>1
  <2>4. SubSeq(n, Len(m) + 1, Len(m) + k) = a
    <3>1. m \in Seq(Messages) /\ a \in Seq(Messages) /\ n = m \o a /\ Len(a) >= 1
      BY <1>1, <1>8
    <3> HIDE DEF m, n, a
    <3>2. SubSeq(m \o a, Len(m) + 1, Len(m) + Len(a)) = a
      BY <3>1, Suffix
    <3> QED BY <3>1, <3>2
  <2>5. Len(m) + 1 \in mine
    <3> HIDE DEF m, n, k, mine
    <3> QED BY <1>4, <1>8, <2>2
  <2> HIDE DEF m, n, a
  <2>6. \E i \in mine : /\ SubSeq(n, i, i + Len(b) - 1) = b
                        /\ mine = i .. (i + Len(b) - 1)
    BY <2>1, <2>2, <2>3, <2>4, <2>5
  <2> QED BY <1>2, <2>6 DEF Kept, n
<1>13. ASSUME NEW q \in Requests, q # r PROVE Kept(q)'
  <2>1. req'[q] = req[q]
    BY <1>2, <1>13 DEF Others
  <2>2. CASE req[q].pc # "done"
    BY <2>1, <2>2 DEF Kept
  <2>3. CASE req[q].pc = "done" /\ req[q].at # c
    <3>1. req[q].at \in Conversations
      BY <2>3, PcOf DEF Shape, Turning, Closing
    <3>2. Kept(q)
      BY DEF Files, NothingLost, Kept
    <3> QED BY <1>1, <2>1, <2>3, <3>1, <3>2, KeptSame
  <2>4. CASE req[q].pc = "done" /\ req[q].at = c /\ req[q].kind = "archive"
    <3>1. conv[c].status = "archived"
      BY <2>4 DEF Files, NothingLost
    <3> QED BY <1>1, <2>1, <2>4, <3>1 DEF Kept
  <2>5. CASE req[q].pc = "done" /\ req[q].at = c /\ req[q].kind # "archive"
    <3> DEFINE b == Added(q)
               mine == {i \in DOMAIN m : m[i].run = q}
               ours == {i \in DOMAIN n : n[i].run = q}
    <3>1. PICK i \in mine : SubSeq(m, i, i + Len(b) - 1) = b /\ mine = i .. (i + Len(b) - 1)
      BY <2>5, ZenonT(40) DEF Files, NothingLost
    <3>2. ours = mine
      <4> HIDE DEF m, n, k
      <4> QED BY <1>1, <1>4, <1>5, <1>7, <1>8, <1>13
    <3>3. Added(q)' = b
      BY <2>1, SameAdded
    <3>4. i \in 1 .. Len(m) /\ Len(b) \in Nat /\ Len(b) >= 1 /\ i + Len(b) - 1 \in 1 .. Len(m)
      <4>1. req[q] \in Turning
        BY <2>5, PcOf DEF Shape, Closing
      <4>2. req[q].route \in Routes
        BY <2>5, <4>1 DEF Story
      <4>3. Len(b) \in {1, 2}
        BY <4>1, <4>2, AddedType
      <4>4. i \in mine /\ i + Len(b) - 1 \in mine
        <5> HIDE DEF mine, b, m
        <5>1. i \in Nat
          BY <1>4, <3>1 DEF mine
        <5> QED BY <3>1, <4>3, <5>1
      <4>5. mine \subseteq 1 .. Len(m)
        BY <1>4
      <4> HIDE DEF m, b, mine
      <4>6. i \in 1 .. Len(m) /\ i + Len(b) - 1 \in 1 .. Len(m)
        BY <4>4, <4>5
      <4>7. Len(b) \in Nat /\ Len(b) >= 1
        BY <4>3
      <4> QED BY <4>6, <4>7
    <3>5. SubSeq(n, i, i + Len(b) - 1) = SubSeq(m, i, i + Len(b) - 1)
      <4> HIDE DEF m, n, a, b
      <4> QED BY <1>1, <3>4, SubSeqOfConcat1
    <3> HIDE DEF m, n, b, mine, ours
    <3>6. \E j \in ours : SubSeq(n, j, j + Len(b) - 1) = b /\ ours = j .. (j + Len(b) - 1)
      BY <3>1, <3>2, <3>5
    <3>7. req'[q].at = c /\ req'[q].kind # "archive"
      BY <2>1, <2>5
    <3> QED BY <3>3, <3>6, <3>7 DEF Kept, n, ours
  <2> QED BY <2>2, <2>3, <2>4, <2>5
<1>14. Filed'
  <2>1. ASSUME NEW q \in Requests, req'[q] \in Turning \cup Closing PROVE conv'[req'[q].at] # None
    <3>1. CASE q = r
      BY <1>1, <1>2, <3>1
    <3>2. CASE q # r
      <4>1. req'[q] = req[q] /\ req[q].at \in Conversations
        BY <1>2, <2>1, <3>2 DEF Others, Turning, Closing
      <4>2. conv[req[q].at] # None BY <2>1, <4>1 DEF Files, Filed
      <4>3. conv'[c] # None /\ \A d \in Conversations \ {c} : conv'[d] = conv[d] BY <1>1
      <4> HIDE DEF c
      <4> QED BY <4>1, <4>2, <4>3
    <3> QED BY <3>1, <3>2
  <2>2. \A i \in 1 .. Len(n) : /\ req'[n[i].run] \in Turning
                               /\ req'[n[i].run].pc = "done" /\ req'[n[i].run].at = c
    <3> SUFFICES ASSUME NEW i \in 1 .. Len(n)
                 PROVE  /\ req'[n[i].run] \in Turning
                        /\ req'[n[i].run].pc = "done" /\ req'[n[i].run].at = c
      OBVIOUS
    <3>1. CASE n[i].run = r
      BY <1>2, <3>1
    <3>2. CASE i \in 1 .. Len(m)
      <4>1. n[i] = m[i]
        BY <1>1, <3>2
      <4>2. req'[m[i].run] = req[m[i].run]
        BY <1>6, <3>2
      <4> HIDE DEF m, n, c
      <4> QED BY <1>4, <3>2, <4>1, <4>2
    <3>3. i \in 1 .. Len(m) \/ n[i].run = r
      <4> HIDE DEF m, n, k, c
      <4> QED BY <1>1, <1>4, <1>7, <1>8
    <3> QED BY <3>1, <3>2, <3>3
  <2>3. ASSUME NEW d \in Conversations, conv'[d] # None, NEW i \in 1 .. Len(conv'[d].msgs)
        PROVE  /\ req'[conv'[d].msgs[i].run] \in Turning
               /\ req'[conv'[d].msgs[i].run].pc = "done" /\ req'[conv'[d].msgs[i].run].at = d
    <3>1. CASE d = c
      BY <2>2, <2>3, <3>1
    <3>2. CASE d # c
      BY <1>1, <1>9, <2>3, <3>2, KeptFiles, ZenonT(40)
    <3> QED BY <3>1, <3>2
  <2> QED BY <2>1, <2>3 DEF Filed
<1>15. AnswersWhatCameBefore'
  <2>1. ASSUME NEW i \in DOMAIN n, n[i].role = "user"
        PROVE  Context(req'[n[i].run], SubSeq(n, 1, i - 1), n[i])
    <3> HIDE DEF m, n, k, c
    <3>1. CASE i \in 1 .. Len(m)
      BY <1>1, <1>4, <1>6, <1>10, <1>11, <2>1, <3>1
    <3>2. CASE i = Len(m) + 1
      <4>1. i - 1 = Len(m)
        BY <1>4, <3>2
      <4>2. n[i].run = r /\ n[i] = Message(r, "user")
        BY <1>1, <1>7, <3>2
      <4> QED BY <1>3, <1>10, <4>1, <4>2
    <3>3. CASE i = Len(m) + 2 /\ k = 2
      BY <1>7, <2>1, <3>3
    <3> QED BY <1>4, <1>5, <1>8, <3>1, <3>2, <3>3
  <2>2. ASSUME NEW d \in Conversations, conv'[d] # None, NEW i \in DOMAIN conv'[d].msgs, conv'[d].msgs[i].role = "user"
        PROVE  Context(req'[conv'[d].msgs[i].run], SubSeq(conv'[d].msgs, 1, i - 1), conv'[d].msgs[i])
    <3>1. CASE d = c
      BY <2>1, <2>2, <3>1
    <3>2. CASE d # c
      <4>1. conv'[d] = conv[d]
        BY <1>1, <3>2
      <4>2. /\ \A q \in Requests : req[q].pc = "done" => req'[q] = req[q]
            /\ \A q \in Requests : req'[q].pc = "done" /\ req'[q].at = d => req'[q] = req[q]
        BY <1>9, <3>2
      <4> HIDE DEF c, m, n, a, k
      <4>3. \A j \in DOMAIN conv'[d].msgs : conv'[d].msgs[j].role = "user" =>
              Context(req'[conv'[d].msgs[j].run], SubSeq(conv'[d].msgs, 1, j - 1), conv'[d].msgs[j])
        BY <2>2, <4>1, <4>2, KeptFiles
      <4> QED BY <2>2, <4>3
    <3> QED BY <3>1, <3>2
  <2> QED BY <2>2 DEF AnswersWhatCameBefore
<1>16. EveryTurnAnswered'
  <2>1. conv'[c].last = Last(n).run
    <3>1. Last(n) = n[Len(n)]
      BY DEF Last
    <3> HIDE DEF m, n, k, c
    <3> QED BY <1>1, <1>5, <1>7, <1>8, <3>1
  <2>2. ASSUME NEW i \in DOMAIN n, n[i].role = "user", req'[n[i].run].local = "hybrid"
        PROVE  i < Len(n) /\ n[i + 1].role = "assistant"
    <3> HIDE DEF m, n, k, c
    <3>1. CASE i \in 1 .. Len(m)
      <4>1. i < Len(m) /\ m[i + 1].role = "assistant"
        <5>1. n[i] = m[i] /\ req'[m[i].run] = req[m[i].run] /\ i \in DOMAIN m
          BY <1>1, <1>4, <1>6, <3>1
        <5> QED BY <1>11, <2>2, <5>1
      <4>2. i + 1 \in 1 .. Len(m)
        BY <1>4, <3>1, <4>1
      <4> QED BY <1>1, <1>4, <1>5, <1>8, <3>1, <4>1, <4>2
    <3>2. CASE i = Len(m) + 1
      <4>1. req[r].reply
        BY <1>2, <1>3, <1>7, <2>2, <3>2
      <4>2. k = 2 /\ i + 1 = Len(m) + 2
        BY <1>4, <1>8, <3>2, <4>1
      <4> QED BY <1>4, <1>5, <1>7, <3>2, <4>2
    <3>3. CASE i = Len(m) + 2 /\ k = 2
      BY <1>7, <2>2, <3>3
    <3> QED BY <1>4, <1>5, <1>8, <3>1, <3>2, <3>3
  <2>3. ASSUME NEW d \in Conversations, conv'[d] # None, conv'[d].msgs # <<>>
        PROVE  /\ conv'[d].last = Last(conv'[d].msgs).run
               /\ \A i \in DOMAIN conv'[d].msgs :
                    (conv'[d].msgs[i].role = "user" /\ req'[conv'[d].msgs[i].run].local = "hybrid") =>
                       i < Len(conv'[d].msgs) /\ conv'[d].msgs[i + 1].role = "assistant"
    <3>1. CASE d = c
      BY <2>1, <2>2, <3>1
    <3>2. CASE d # c
      BY <1>1, <1>9, <2>3, <3>2, KeptFiles, ZenonT(40)
    <3> QED BY <3>1, <3>2
  <2> QED BY <2>3 DEF EveryTurnAnswered
<1>17. NothingLost'
  <2>1. \A q \in Requests : Kept(q)'
    BY <1>12, <1>13
  <2> QED BY <2>1 DEF NothingLost, Kept
<1> QED BY <1>14, <1>15, <1>16, <1>17 DEF Files

LEMMA ArchiveFiles ==
    ASSUME Shape, Shape', Owned, Files, NEW r \in Requests, Write(r), Ending(r, "done"), req[r] \in Closing
    PROVE  Files'
<1> DEFINE c == req[r].at
           m == conv[c].msgs
<1>1. /\ c \in Conversations /\ req[r].pc = "write" /\ req[r].kind = "archive"
      /\ conv[c] = req[r].read /\ conv[c] \in Records
  BY DEF Write, Closing, Owned, Holding
<1>2. conv' = [conv EXCEPT ![c] = [conv[c] EXCEPT !.status = "archived"]]
  BY <1>1 DEF Write
<1>3. conv'[c] = [conv[c] EXCEPT !.status = "archived"] /\ \A d \in Conversations \ {c} : conv'[d] = conv[d]
  BY <1>1, <1>2 DEF Shape
<1>4. /\ conv'[c].msgs = m /\ conv'[c].last = conv[c].last /\ conv'[c].status = "archived"
      /\ conv[c] # None /\ conv'[c] # None
  <2>1. conv'[c] \in Records
    BY <1>1, <1>3 DEF Records
  <2> QED BY <1>1, <1>3, <2>1, NoneAssumption DEF Records
<1>5. /\ Others(r) /\ req'[r].pc = "done" /\ req'[r].at = c /\ req'[r].kind = "archive" /\ req'[r] \in Closing
  BY <1>1 DEF Ending, Closing
<1>6. /\ DOMAIN m = 1 .. Len(m) /\ \A i \in 1 .. Len(m) : m[i].run \in Requests
      /\ \A i \in 1 .. Len(m) : /\ req[m[i].run] \in Turning
                                /\ req[m[i].run].pc = "done" /\ req[m[i].run].at = c
  BY <1>1, <1>4, MessagesOf DEF Files, Filed
<1>7. \A i \in 1 .. Len(m) : req'[m[i].run] = req[m[i].run]
  BY <1>1, <1>5, <1>6 DEF Others
<1>8. \A d \in Conversations \ {c} :
        /\ \A q \in Requests : req[q].pc = "done" => req'[q] = req[q]
        /\ \A q \in Requests : req'[q].pc = "done" /\ req'[q].at = d => req'[q] = req[q]
  BY <1>1, <1>5 DEF Others
<1>9. Kept(r)'
  BY <1>4, <1>5 DEF Kept
<1>10. ASSUME NEW q \in Requests, q # r PROVE Kept(q)'
  <2>1. req'[q] = req[q]
    BY <1>5, <1>10 DEF Others
  <2>2. Added(q)' = Added(q)
    BY <2>1, SameAdded
  <2>3. Kept(q)
    BY DEF Files, NothingLost, Kept
  <2>4. CASE req[q].pc # "done"
    BY <2>1, <2>4 DEF Kept
  <2>5. CASE req[q].pc = "done" /\ req[q].at # c
    <3>1. req[q].at \in Conversations
      BY <2>5, PcOf DEF Shape, Turning, Closing
    <3> QED BY <1>3, <2>1, <2>3, <2>5, <3>1, KeptSame
  <2>6. CASE req[q].pc = "done" /\ req[q].at = c
    BY <1>4, <2>1, <2>2, <2>3, <2>6 DEF Kept
  <2> QED BY <2>4, <2>5, <2>6
<1>11. Filed'
  <2>1. ASSUME NEW q \in Requests, req'[q] \in Turning \cup Closing PROVE conv'[req'[q].at] # None
    <3>1. CASE q = r
      BY <1>4, <1>5, <3>1
    <3>2. CASE q # r
      <4>1. req'[q] = req[q] /\ req[q].at \in Conversations
        BY <1>5, <2>1, <3>2 DEF Others, Turning, Closing
      <4> QED BY <1>3, <1>4, <2>1, <4>1 DEF Files, Filed
    <3> QED BY <3>1, <3>2
  <2>2. ASSUME NEW d \in Conversations, conv'[d] # None, NEW i \in 1 .. Len(conv'[d].msgs)
        PROVE  /\ req'[conv'[d].msgs[i].run] \in Turning
               /\ req'[conv'[d].msgs[i].run].pc = "done" /\ req'[conv'[d].msgs[i].run].at = d
    <3>1. CASE d = c
      BY <1>4, <1>6, <1>7, <2>2, <3>1
    <3>2. CASE d # c
      BY <1>3, <1>8, <2>2, <3>2, KeptFiles
    <3> QED BY <3>1, <3>2
  <2> QED BY <2>1, <2>2 DEF Filed
<1>12. /\ \A i \in DOMAIN m : m[i].role = "user" =>
              Context(req'[m[i].run], SubSeq(m, 1, i - 1), m[i])
       /\ m # <<>> => /\ conv[c].last = Last(m).run
                      /\ \A i \in DOMAIN m : (m[i].role = "user" /\ req'[m[i].run].local = "hybrid") =>
                              i < Len(m) /\ m[i + 1].role = "assistant"
  <2>1. /\ \A i \in DOMAIN m : m[i].role = "user" =>
              Context(req[m[i].run], SubSeq(m, 1, i - 1), m[i])
        /\ m # <<>> => /\ conv[c].last = Last(m).run
                       /\ \A i \in DOMAIN m : (m[i].role = "user" /\ req[m[i].run].local = "hybrid") =>
                              i < Len(m) /\ m[i + 1].role = "assistant"
    BY <1>1, <1>4 DEF Files, AnswersWhatCameBefore, EveryTurnAnswered
  <2> HIDE DEF m
  <2> QED BY <1>6, <1>7, <2>1
<1>13. AnswersWhatCameBefore'
  <2>1. ASSUME NEW d \in Conversations, conv'[d] # None, NEW i \in DOMAIN conv'[d].msgs, conv'[d].msgs[i].role = "user"
        PROVE  Context(req'[conv'[d].msgs[i].run], SubSeq(conv'[d].msgs, 1, i - 1), conv'[d].msgs[i])
    <3>1. CASE d = c
      BY <1>4, <1>12, <2>1, <3>1
    <3>2. CASE d # c
      BY <1>3, <1>8, <2>1, <3>2, KeptFiles
    <3> QED BY <3>1, <3>2
  <2> QED BY <2>1 DEF AnswersWhatCameBefore
<1>14. EveryTurnAnswered'
  <2>1. ASSUME NEW d \in Conversations, conv'[d] # None, conv'[d].msgs # <<>>
        PROVE  /\ conv'[d].last = Last(conv'[d].msgs).run
               /\ \A i \in DOMAIN conv'[d].msgs :
                    (conv'[d].msgs[i].role = "user" /\ req'[conv'[d].msgs[i].run].local = "hybrid") =>
                       i < Len(conv'[d].msgs) /\ conv'[d].msgs[i + 1].role = "assistant"
    <3>1. CASE d = c
      BY <1>4, <1>12, <2>1, <3>1, ZenonT(40)
    <3>2. CASE d # c
      BY <1>3, <1>8, <2>1, <3>2, KeptFiles
    <3> QED BY <3>1, <3>2
  <2> QED BY <2>1 DEF EveryTurnAnswered
<1>15. NothingLost'
  <2>1. \A q \in Requests : Kept(q)'
    BY <1>9, <1>10
  <2> QED BY <2>1 DEF NothingLost, Kept
<1> QED BY <1>11, <1>13, <1>14, <1>15 DEF Files

LEMMA CreateFiles ==
    ASSUME Shape, Shape', Files, NEW c \in Conversations, CreateConversation(c)
    PROVE  Files'
<1> DEFINE new == [status |-> "active", msgs |-> <<>>, last |-> None]
<1>1. /\ UNCHANGED req /\ conv[c] = None /\ conv'[c] = new
      /\ \A d \in Conversations \ {c} : conv'[d] = conv[d]
  BY DEF CreateConversation, Shape
<1>2. \A q \in Requests : req[q] \in Turning \cup Closing => req[q].at \in Conversations \ {c}
  BY <1>1 DEF Files, Filed, Turning, Closing
<1>3. new.msgs = <<>> /\ DOMAIN new.msgs = {} /\ Len(new.msgs) = 0 /\ new # None
  <2>1. new \in Records
    BY DEF Records
  <2> QED BY <2>1, NoneAssumption
<1> HIDE DEF new
<1>4. ASSUME NEW q \in Requests PROVE Kept(q)'
  <2>1. Kept(q)
    BY DEF Files, NothingLost, Kept
  <2>2. CASE req[q].pc = "done"
    <3>1. conv'[req[q].at] = conv[req[q].at]
      BY <1>1, <1>2, <2>2, PcOf DEF Shape
    <3> QED BY <1>1, <2>1, <3>1, KeptSame
  <2>3. CASE req[q].pc # "done"
    BY <1>1, <2>3 DEF Kept
  <2> QED BY <2>2, <2>3
<1>5. NothingLost'
  BY <1>4 DEF NothingLost, Kept
<1>6. \A i \in 1 .. 0 : FALSE
  OBVIOUS
<1>7. Filed'
  <2>1. \A q \in Requests : req'[q] \in Turning \cup Closing => conv'[req'[q].at] # None
    BY <1>1, <1>2 DEF Files, Filed
  <2> QED BY <1>1, <1>3, <1>6, <2>1, KeptFiles DEF Filed
<1>8. AnswersWhatCameBefore'
  BY <1>1, <1>3, KeptFiles DEF AnswersWhatCameBefore
<1>9. EveryTurnAnswered'
  BY <1>1, <1>3, KeptFiles DEF EveryTurnAnswered
<1> QED BY <1>5, <1>7, <1>8, <1>9 DEF Files

LEMMA FilesStep ==
    ASSUME Shape, Shape', Owned, \A q \in Requests : Story(q), Files, Next
    PROVE  Files'
<1>1. ASSUME NEW r \in Requests, Outside(r) \/ Inside(r) \/ Given(r) PROVE Files'
  <2>1. UNCHANGED conv /\ Others(r) /\ req[r].pc # "done" /\ req'[r].pc # "done"
    BY <1>1, EarlyPc DEF Outside, Inside, Given, Holding
  <2>2. req'[r] \in Turning \cup Closing => conv[req'[r].at] # None
    BY <1>1, EarlyPc DEF Outside, Inside, Given, Files, Filed
  <2> QED BY <2>1, <2>2, QuietStep DEF Others, Files, Filed
<1>2. ASSUME NEW r \in Requests, Ending(r, "failed"), UNCHANGED conv PROVE Files'
  <2>1. Others(r) /\ req[r].pc # "done" /\ req'[r].pc # "done" /\ req'[r].at = req[r].at
    BY <1>2 DEF Ending, Turning, Closing, Holding
  <2>2. req[r] \in Turning \cup Closing
    BY <1>2 DEF Ending
  <2> QED BY <1>2, <2>1, <2>2, QuietStep DEF Others, Files, Filed
<1>3. ASSUME UNCHANGED <<conv, req>> PROVE Files'
  BY <1>3, QuietStep DEF Files, Filed
<1>4. ASSUME NEW r \in Requests, Write(r), Ending(r, "done") PROVE Files'
  BY <1>4, TurnFiles, ArchiveFiles DEF Ending
<1> QED BY <1>1, <1>2, <1>3, <1>4, CreateFiles, Kinds

-----------------------------------------------------------------------------
(* The theorems.                                                            *)

LEMMA Inductive == Spec => []IInv
<1>1. Init => IInv
  <2> SUFFICES ASSUME Init PROVE IInv
    OBVIOUS
  <2>1. Shape
    BY LimitsAssumption DEF Init, Shape, Early, Untold
  <2>2. Owned /\ (\A r \in Requests : Story(r))
    BY DEF Init, Owned, Story, Holding, Turning, Untold
  <2>3. Filed /\ NothingLost /\ EveryTurnAnswered /\ AnswersWhatCameBefore
    <3>1. \A c \in Conversations : conv[c] = None
      BY DEF Init
    <3>2. \A r \in Requests : req[r].pc # "done" /\ req[r] \notin Turning \cup Closing
      BY DEF Init, Turning, Closing, Holding
    <3> QED BY <3>1, <3>2 DEF Filed, NothingLost, EveryTurnAnswered, AnswersWhatCameBefore
  <2>4. Slots
    <3>1. {r \in Requests : req[r].pc = "reading"} = {}
      BY DEF Init
    <3> QED BY <3>1, FS_EmptySet, LimitsAssumption DEF Slots, Init
  <2> QED BY <2>1, <2>2, <2>3, <2>4 DEF IInv
<1>2. IInv /\ [Next]_vars => IInv'
  <2> SUFFICES ASSUME IInv, [Next]_vars PROVE IInv'
    OBVIOUS
  <2>1. Shape'
    BY ShapeStep DEF IInv
  <2>2. CASE Next
    BY <2>1, <2>2, OwnedStep, StoryStep, FilesStep, SlotsStep DEF IInv, Files
  <2>3. CASE UNCHANGED vars
    <3>1. Owned' /\ Slots' /\ (\A r \in Requests : Story(r)')
      <4>1. \A r \in Requests : Story(r)'
        BY <2>3, SameStory DEF IInv, vars
      <4> QED BY <2>3, <4>1 DEF IInv, vars, Owned, Slots
    <3>2. Filed' /\ NothingLost' /\ EveryTurnAnswered' /\ AnswersWhatCameBefore'
      BY <2>1, <2>3, QuietStep DEF IInv, Files, Filed, vars
    <3> QED BY <2>1, <3>1, <3>2 DEF IInv
  <2> QED BY <2>2, <2>3
<1> QED BY <1>1, <1>2, PTL DEF Spec

\* A conversation keeps every turn that was answered, whole, once and for good, and
\* an archived conversation stays archived: the file is read and written under one
\* lock, so what a turn writes is what it read and its own messages (Write, Take).
THEOREM KeepsTurns == Spec => []TurnsKept
<1>1. IInv => TurnsKept
  <2> SUFFICES ASSUME IInv PROVE TurnsKept
    OBVIOUS
  <2>1. \A c \in Conversations : lock[c] \in {None} \cup {r \in Requests : "at" \in DOMAIN req[r] /\ req[r].at = c}
    <3>1. ASSUME NEW c \in Conversations, lock[c] # None
          PROVE  lock[c] \in Requests /\ "at" \in DOMAIN req[lock[c]] /\ req[lock[c]].at = c
      <4>1. lock[c] \in Requests /\ req[lock[c]].pc \in Holding /\ req[lock[c]].at = c
        BY <3>1 DEF IInv, Shape, Owned
      <4>2. req[lock[c]] \in Turning \cup Closing
        BY <4>1, PcOf DEF IInv, Shape
      <4> QED BY <4>1, <4>2 DEF Turning, Closing
    <3> QED BY <3>1
  <2>2. ASSUME NEW c \in Conversations, conv[c] # None
        PROVE  /\ conv[c].status \in {"active", "archived"}
               /\ \A i \in DOMAIN conv[c].msgs : Turns(conv[c].msgs[i].run)
    <3>1. conv[c] \in Records /\ DOMAIN conv[c].msgs = 1 .. Len(conv[c].msgs)
      BY <2>2, MessagesOf DEF IInv
    <3>2. \A i \in 1 .. Len(conv[c].msgs) : /\ req[conv[c].msgs[i].run] \in Turning
                                            /\ req[conv[c].msgs[i].run].pc = "done"
      BY <2>2 DEF IInv, Filed
    <3> QED BY <3>1, <3>2 DEF Records, Turns, Turning
  <2>3. TypeOK
    BY <2>1, <2>2 DEF IInv, Shape, Slots, TypeOK
  <2> QED BY <2>3 DEF IInv, TurnsKept
<1> QED BY <1>1, Inductive, PTL

\* The history a turn gives the model is what stands before its own message in the
\* file: nothing is written between the reading and the answer (Turn, Write).
THEOREM SeesWhatCameBefore == Spec => []AnswersWhatCameBefore
<1>1. IInv => AnswersWhatCameBefore
  BY DEF IInv
<1> QED BY <1>1, Inductive, PTL

\* The message, the journal and the audit of a turn tell one route, and it is never
\* the external one once a text of it was left unresolved (Compose, Written).
THEOREM TellsOneRoute == Spec => []RouteTold
<1>1. IInv => RouteTold
  <2> SUFFICES ASSUME IInv, NEW r \in Requests, req[r].pc \in Holding \cup Over,
                      "route" \in DOMAIN req[r], req[r].route # None
               PROVE  /\ told[r].journal \in {None, req[r].route} /\ told[r].audit \in {None, req[r].route}
                      /\ req[r].weak => req[r].route = "local"
    BY DEF RouteTold
  <2>1. req[r] \in Turning
    <3>1. req[r] # [pc |-> "idle"]
      BY DEF Holding, Over
    <3>2. \A x \in Asked \cup Asking \cup Closing : "route" \notin DOMAIN x
      BY DEF Asked, Asking, Closing
    <3> QED BY <3>1, <3>2 DEF IInv, Shape, Early
  <2> QED BY <2>1 DEF IInv, Story
<1> QED BY <1>1, Inductive, PTL

\* What was uploaded is removed with the turn unless the turn raised or its journal or
\* its audit could not be written; no audit is without its journal (Written, Clean).
THEOREM RemovesUploads == Spec => []UploadsRemoved
<1>1. IInv => UploadsRemoved
  <2> SUFFICES ASSUME IInv, NEW r \in Requests
               PROVE  /\ ("temp" \in run[r] /\ req[r].pc \in Over) => (req[r].pc = "failed" \/ told[r].audit = None)
                      /\ told[r].audit # None => told[r].journal # None
    BY DEF UploadsRemoved
  <2> QED BY DEF IInv, Story, Untold, Over, Turning, Holding
<1> QED BY <1>1, Inductive, PTL
=============================================================================
