---------------------------- MODULE ScribeProofs ----------------------------
(* What an apply does to the memory and what it leaves there, for every     *)
(* number of requests, packages, titles and sources.                        *)
EXTENDS Scribe, FiniteSetTheorems, SequenceTheorems, TLAPS

-----------------------------------------------------------------------------
(* Types.                                                                   *)

Offers == UNION {Candidates(p) : p \in Packages}
Ids    == {c.id : c \in Offers}
Runs   == {p.run : p \in Packages}
Items  == [id : Ids, cat : {c.cat : c \in Offers}, title : {c.title : c \in Offers},
           operation : {"skip", "create", "existing_target"}, selected : BOOLEAN]
Lists(S) == UNION {[D -> S] : D \in SUBSET Nat}
Marks    == {Old} \cup Runs \X Ids \X {"node", "update"}
Entries  == Runs \cup (Runs \X Nodes) \cup Nodes
Active   == {"backup", "item", "write", "read", "append", "mark"}

Shown   == [pc : {"shown"}, pkg : Packages, plan : Lists(Items)]
Drafted == [pc : {"drafted"}, pkg : Packages]
Work    == [pc : Active \cup {"done", "failed"}, pkg : Packages,
            choice : UNION {[D -> UserChoices] : D \in SUBSET Ids}, todo : Lists(Items),
            links : SUBSET Nodes, applied : SUBSET (Nodes \X Ids),
            backup : [Nodes -> SUBSET Marks], others : SUBSET Nodes,
            at : Nodes \cup {<<>>}, text : SUBSET (Marks \cup Entries), book : 1 .. 3]

Shape ==
    /\ req \in [Requests -> {Idle} \cup Shown \cup Drafted \cup Work]
    /\ node \in [Nodes -> SUBSET Marks]
    /\ registry \in [Range(Registries) -> SUBSET Entries]
    /\ inbox \in [Sources -> Statuses]
    /\ preparing \subseteq Sources
    /\ inboxOps \in 0 .. MaxInbox /\ failures \in 0 .. MaxFailures
    /\ raced \subseteq Requests /\ wrote \subseteq Requests \X Nodes

\* What a request has in hand is of one piece.
Whole(r) ==
    LET x == req[r] IN
    /\ x.pc = "write" => /\ x.at \in Nodes /\ x.text \subseteq Marks
                         /\ DOMAIN x.todo # {}
    /\ x.pc = "append" => x.text \subseteq Entries
    /\ x.pc = "backup" => x.applied = {}
    /\ x.pc \in {"backup", "item", "write"} => x.book = 1
    /\ {a[1] : a \in x.applied} \subseteq x.links

-----------------------------------------------------------------------------
(* What a request was asked to do.                                          *)

\* An item stands for a candidate of its package.
Stands(p, i) == \E c \in Candidates(p) :
                  /\ c.id = i.id /\ c.title = i.title
                  /\ i.operation = "existing_target" => c.cat # "exclude"
                  /\ i.selected => c.cat # "exclude" /\ ~c.pii /\ Fits(c)

Apart(items) == \A j, k \in DOMAIN items :
                  (items[j].selected /\ items[k].selected /\ j # k) => items[j].title # items[k].title

Asked(r) ==
    LET x == req[r] IN
    /\ ~Blocked(x.pkg) /\ Apart(x.todo)
    /\ \A k \in DOMAIN x.todo : /\ Stands(x.pkg, x.todo[k])
                                /\ x.todo[k].selected \/ x.todo[k].id \in DOMAIN x.choice
    /\ \A d \in DOMAIN x.choice : \E c \in Candidates(x.pkg) : c.id = d /\ c.cat # "exclude"

Working(r) == req[r].pc \notin Waiting

Unasked == /\ \A r \in Requests : req[r].pc = "shown" => \A k \in DOMAIN req[r].plan : Stands(req[r].pkg, req[r].plan[k])
           /\ \A r \in Requests : Working(r) => Whole(r) /\ Asked(r)

\* A node that was there goes on being there; one is written over by choice only.
Choosing(r) == \A k \in First(r) :
                 LET i == req[r].todo[k] IN
                 i.id \in DOMAIN req[r].choice /\ req[r].choice[i.id] = "update_existing" /\ i.title = req[r].at[1]

Updating ==
    /\ \A r \in Requests, n \in Nodes : <<r, n>> \in wrote => r \in Begun
    /\ \A r \in Begun, n \in Nodes : req[r].backup[n] # {} => node[n] # {}
    /\ \A r \in Begun : (req[r].pc = "write" /\ req[r].backup[req[r].at] # {}) => Choosing(r)

\* What is in hand for a node no other request wrote is what is in the node.
InStep == \A r \in Begun : (req[r].pc = "write" /\ req[r].at \notin req[r].others) =>
              req[r].text = node[req[r].at]

-----------------------------------------------------------------------------
(* What a request that ran alone leaves.                                    *)

Alone == \A q, r \in Running : q # r => r \in raced

Bears(text, r, a) == \E m \in text : m[1] = req[r].pkg.run /\ m[2] = a[2]

\* How far an apply has come.
Progress(r) ==
    LET x == req[r] IN
    /\ \A a \in x.applied : Bears(node[a[1]], r, a)
    /\ x.pc \in {"read", "append"} => \A b \in 1 .. x.book - 1 : Entry(r, Registries[b]) \subseteq registry[Registries[b]]
    /\ (x.pc \in {"mark", "done"} /\ x.applied # {}) =>
         \A b \in 1 .. 3 : Entry(r, Registries[b]) \subseteq registry[Registries[b]]
    /\ x.pc = "write" => x.text = node[x.at]

\* What another one holds has it.
Respects(q, r) ==
    LET x == req[q] IN
    /\ x.pc = "write" => \A a \in req[r].applied : a[1] = x.at => Bears(x.text, r, a)
    /\ x.pc = "append" => \A b \in {x.book} : Entry(r, Registries[b]) \subseteq x.text

Staying ==
    /\ Alone
    /\ \A r \in (Running \cup Applied) \ raced : Progress(r)
    /\ \A r \in Applied \ raced : \A q \in Running : Respects(q, r)

-----------------------------------------------------------------------------
(* Where the marks come from.                                               *)

Known(n, m) == m = Old \/ \E r \in Begun : m[1] = req[r].pkg.run /\ <<r, n>> \in wrote

Origins ==
    /\ \A n \in Nodes : \A m \in node[n] : Known(n, m)
    /\ \A r \in Running : req[r].pc = "write" => \A m \in req[r].text : Known(req[r].at, m)
    /\ \A r \in Begun : req[r].applied # {} =>
         \E q \in Begun, n \in Nodes : req[q].pkg = req[r].pkg /\ <<q, n>> \in wrote

Inboxed ==
    \A s \in Sources :
      /\ inbox[s] = "indexed" => \E r \in Begun, n \in Nodes : req[r].pkg.origin = s /\ <<r, n>> \in wrote
      /\ inbox[s] = "duplicate" =>
           \E r \in Begun : req[r].pkg.origin = s /\ "skip_duplicate" \in Range(req[r].choice)

\* Of a node no other request wrote, nothing is lost and only the package adds to it.
Undone ==
    \A r \in Begun : \A n \in Nodes \ req[r].others :
      /\ req[r].backup[n] \subseteq node[n]
      /\ \A m \in node[n] \ req[r].backup[n] : m[1] = req[r].pkg.run

IInv == /\ Shape /\ Unasked /\ Updating /\ OnlyUpdatedByChoice /\ InStep /\ Undone
        /\ Staying /\ Origins /\ Inboxed

\* The backup folders: each is of an apply of the same package, and is copied over only
\* with what there is now.
Held(r, n) ==
    LET kept == copies[folder[r]][n]
    IN  /\ req[r].backup[n] \subseteq kept /\ kept \subseteq node[n]
        /\ kept = req[r].backup[n] \/ r \in overlaid

Saved ==
    /\ folder \in [Requests -> Requests] /\ copies \in [Requests -> [Nodes -> SUBSET Marks]]
    /\ current \subseteq Begun
    /\ \A r \in Begun : folder[r] \in Begun /\ req[folder[r]].pkg = req[r].pkg
    /\ \A f \in Requests, n \in Nodes : copies[f][n] # {} => node[n] # {}
    /\ \A r \in Begun : \A n \in Nodes \ req[r].others : Held(r, n)

-----------------------------------------------------------------------------
(* Plans.                                                                   *)

LEMMA RangeOf ==
    ASSUME NEW f, NEW k \in DOMAIN f
    PROVE  f[k] \in Range(f)
BY DEF Range

LEMMA OfferedIs ==
    ASSUME NEW p \in Packages, NEW answered \in BOOLEAN
    PROVE  /\ DOMAIN Offered(p, answered) \in SUBSET Nat
           /\ \A k \in DOMAIN Offered(p, answered) : Offered(p, answered)[k] \in Candidates(p)
<1> DEFINE S == Range(p.model) \cup Range(p.rules) \cup Range(FileItems(p))
<1>1. p.model \in Seq(S) /\ p.rules \in Seq(S)
  <2>1. p.model \in Seq(Range(p.model)) /\ p.rules \in Seq(Range(p.rules))
    BY PackagesAssumption DEF PackageOK
  <2> QED BY <2>1, SeqMonotonic
<1>2. FileItems(p) \in Seq(S)
  <2>1. p.files \in Seq(Range(p.files))
    BY PackagesAssumption DEF PackageOK
  <2>2. Len(p.files) \in Nat /\ DOMAIN p.files = 1 .. Len(p.files)
    BY <2>1, LenProperties
  <2>3. DOMAIN FileItems(p) = 1 .. Len(p.files) /\ FileItems(p) = [k \in 1 .. Len(p.files) |-> FileItems(p)[k]]
    BY <2>2 DEF FileItems
  <2>4. \A k \in 1 .. Len(p.files) : FileItems(p)[k] \in S
    BY <2>3 DEF Range
  <2>5. FileItems(p) \in [1 .. Len(p.files) -> S]
    BY <2>3, <2>4
  <2> HIDE DEF S
  <2> QED BY <2>2, <2>5, SeqDef
<1>3. <<>> \in Seq(S) /\ Range(<<>>) = {}
  <2>1. DOMAIN <<>> = {}
    OBVIOUS
  <2> QED BY <2>1 DEF Range
<1>4. ClassifierItems(p, answered) \in Seq(S) /\ ClassifierItems(p, TRUE) = p.model
      /\ Range(ClassifierItems(p, answered)) \subseteq Range(p.model)
  BY <1>1, <1>3 DEF ClassifierItems
<1> HIDE DEF S
<1>5. ASSUME NEW b \in BOOLEAN, ClassifierItems(p, b) \in Seq(S)
      PROVE  /\ Offered(p, b) \in Seq(S)
             /\ Range(Offered(p, b)) = Range(ClassifierItems(p, b)) \cup Range(p.rules) \cup Range(FileItems(p))
  <2> DEFINE m == ClassifierItems(p, b)
             r == p.rules
             f == FileItems(p)
  <2>1. m \in Seq(S) /\ r \in Seq(S) /\ f \in Seq(S)
    BY <1>1, <1>2, <1>5
  <2>2. Offered(p, b) = (m \o r) \o f
    BY DEF Offered, SemanticItems
  <2> HIDE DEF m, r, f
  <2>3. m \o r \in Seq(S) /\ Range(m \o r) = Range(m) \cup Range(r)
    BY <2>1, ConcatProperties, RangeConcatenation
  <2> DEFINE h == m \o r
  <2>5. h \in Seq(S)
    BY <2>3
  <2> HIDE DEF h
  <2>4. h \o f \in Seq(S) /\ Range(h \o f) = Range(h) \cup Range(f)
    BY <2>1, <2>5, ConcatProperties, RangeConcatenation
  <2> QED BY <2>2, <2>3, <2>4 DEF m, r, f, h
<1>6. Range(Offered(p, answered)) \subseteq Candidates(p)
  BY <1>1, <1>4, <1>5 DEF Candidates
<1>7. DOMAIN Offered(p, answered) = 1 .. Len(Offered(p, answered))
  BY <1>4, <1>5, LenProperties
<1> QED BY <1>6, <1>7, RangeOf

\* Every item of a plan stands for a candidate, and no two that are selected have one title.
LEMMA PlanIs ==
    ASSUME NEW p \in Packages, NEW answered \in BOOLEAN
    PROVE  /\ Plan(p, answered) \in Lists(Items)
           /\ \A k \in DOMAIN Plan(p, answered) : Stands(p, Plan(p, answered)[k])
           /\ Apart(Plan(p, answered))
           /\ Blocked(p) => DOMAIN Plan(p, answered) = {}
<1> DEFINE P == Plan(p, answered)
           s == Offered(p, answered)
           K == Kept(p, answered)
<1>1. CASE Blocked(p)
  <2>1. P = <<>> /\ DOMAIN <<>> = {}
    BY <1>1 DEF Plan
  <2>2. <<>> \in [{} -> Items]
    OBVIOUS
  <2>3. P \in Lists(Items)
    BY <2>1, <2>2 DEF Lists
  <2> QED BY <2>1, <2>3 DEF Apart
<1>2. CASE ~Blocked(p)
  <2>1. P = [k \in K |-> MarkExisting(Gated(p, answered, k))]
    BY <1>2 DEF Plan
  <2>2. K \in SUBSET Nat /\ \A k \in K : s[k] \in Candidates(p)
    BY OfferedIs DEF Kept
  <2>3. ASSUME NEW k \in K
        PROVE  /\ P[k] \in Items
               /\ P[k].id = s[k].id /\ P[k].title = s[k].title
               /\ P[k].operation = "existing_target" => s[k].cat # "exclude"
               /\ P[k].selected => s[k].cat # "exclude" /\ ~s[k].pii /\ Fits(s[k]) /\ ~Taken(p, answered, k)
    <3> DEFINE c == s[k]
               i == PlanItem(c)
               g == Gated(p, answered, k)
    <3>1. c \in Offers
      BY <2>2 DEF Offers
    <3>2. /\ i \in Items /\ i.id = c.id /\ i.title = c.title /\ i.cat = c.cat
          /\ i.operation # "existing_target"
          /\ i.selected => c.cat # "exclude" /\ ~c.pii
      BY <3>1 DEF PlanItem, Items, Ids, Noted
    <3>3. g = IF c.cat = "exclude" \/ (Fits(c) /\ ~Taken(p, answered, k)) THEN i
              ELSE [i EXCEPT !.selected = FALSE, !.operation = "skip"]
      BY DEF Gated
    <3>4. P[k] = MarkExisting(g)
      BY <2>1
    <3> HIDE DEF c, i, g
    <3>5. /\ g \in Items /\ g.id = c.id /\ g.title = c.title /\ g.cat = c.cat
          /\ g.operation # "existing_target"
          /\ g.selected => c.cat # "exclude" /\ ~c.pii /\ Fits(c) /\ ~Taken(p, answered, k)
      BY <3>2, <3>3 DEF Items
    <3>6. /\ MarkExisting(g) \in Items /\ MarkExisting(g).id = g.id /\ MarkExisting(g).title = g.title
          /\ MarkExisting(g).operation = "existing_target" => g.cat # "exclude"
          /\ MarkExisting(g).selected => g.selected
      BY <3>5 DEF MarkExisting, Items
    <3> QED BY <3>4, <3>5, <3>6 DEF c
  <2>4. DOMAIN P = K
    BY <2>1
  <2>5. P \in [K -> Items]
    <3> HIDE DEF K
    <3>1. P = [k \in K |-> P[k]]
      BY <2>1
    <3> HIDE DEF P
    <3> QED BY <2>3, <3>1
  <2>6. P \in Lists(Items)
    BY <2>2, <2>5 DEF Lists
  <2>7. \A k \in K : Stands(p, P[k])
    <3> HIDE DEF P, s, K
    <3> QED BY <2>2, <2>3 DEF Stands
  <2>8. Apart(P)
    <3>1. ASSUME NEW j \in K, NEW k \in K, j < k, P[j].selected, P[k].selected, P[j].title = P[k].title
          PROVE  FALSE
      <4>1. Taken(p, answered, k)
        BY <2>3, <3>1 DEF Taken
      <4> QED BY <2>3, <3>1, <4>1
    <3>2. \A j, k \in K : j \in Nat /\ k \in Nat
      BY <2>2
    <3> HIDE DEF P, K
    <3>3. ASSUME NEW j \in K, NEW k \in K, P[j].selected, P[k].selected, j # k PROVE P[j].title # P[k].title
      <4>1. CASE j < k
        BY <3>1, <3>3, <4>1
      <4>2. CASE k < j
        BY <3>1, <3>3, <4>2
      <4> QED BY <3>2, <3>3, <4>1, <4>2
    <3> QED BY <2>4, <3>3 DEF Apart
  <2> QED BY <1>2, <2>4, <2>6, <2>7, <2>8
<1> QED BY <1>1, <1>2

-----------------------------------------------------------------------------
(* What a step does to its request.                                         *)

Others(r) == \A q \in Requests \ {r} : req'[q] = req[q]
Known4    == {Idle} \cup Shown \cup Drafted \cup Work

LEMMA PcOf ==
    ASSUME NEW x \in Known4
    PROVE  /\ x.pc = "idle" => x = Idle
           /\ x.pc = "shown" => x \in Shown
           /\ x.pc \notin Waiting => x \in Work
           /\ x \in Work => x.pc \notin Waiting
BY DEF Known4, Idle, Shown, Drafted, Work, Waiting, Active

LEMMA Put ==
    ASSUME Shape, NEW r \in Requests, NEW x, req' = [req EXCEPT ![r] = x]
    PROVE  /\ req'[r] = x /\ Others(r)
           /\ x \in Known4 => req' \in [Requests -> Known4]
BY DEF Shape, Others, Known4

LEMMA RestIs ==
    ASSUME NEW t \in Lists(Items), NEW D \in SUBSET DOMAIN t
    PROVE  [j \in D |-> t[j]] \in Lists(Items)
<1>1. PICK E \in SUBSET Nat : t \in [E -> Items]
  BY DEF Lists
<1>2. D \in SUBSET Nat /\ [j \in D |-> t[j]] \in [D -> Items]
  BY <1>1
<1> QED BY <1>2 DEF Lists

LEMMA ListIs ==
    ASSUME NEW t \in Lists(Items)
    PROVE  DOMAIN t \in SUBSET Nat /\ \A k \in DOMAIN t : t[k] \in Items
<1>1. PICK E \in SUBSET Nat : t \in [E -> Items]
  BY DEF Lists
<1> QED BY <1>1

\* Work that begins has the items asked for and nothing else.
Fresh(x, p) == /\ x \in Work /\ x.pc = "backup" /\ x.pkg = p
               /\ x.links = {} /\ x.applied = {} /\ x.others = {} /\ x.book = 1
               /\ x.backup = [n \in Nodes |-> {}] /\ x.text = {} /\ x.at = <<>>

LEMMA ApplyIs ==
    ASSUME Shape, Unasked, NEW r \in Requests, Apply(r)
    PROVE  /\ UNCHANGED <<disk, preparing, failures, inboxOps, wrote>>
           /\ Others(r) /\ req[r] \in Shown
           /\ \/ req'[r] = Idle /\ raced' = raced
              \/ /\ Fresh(req'[r], req[r].pkg) /\ Asked(r)'
                 /\ raced' = IF Running = {} THEN raced ELSE raced \cup Running \cup {r}
<1> DEFINE shown == Range(req[r].plan)
           p == req[r].pkg
           begun(choice, todo) == [pc |-> "backup", pkg |-> p, choice |-> choice, todo |-> todo,
                  links |-> {}, applied |-> {}, backup |-> [n \in Nodes |-> {}],
                  others |-> {}, at |-> <<>>, text |-> {}, book |-> 1]
<1>1. req[r] \in Shown /\ req[r].pc = "shown" /\ p \in Packages /\ req[r].plan \in Lists(Items)
  BY PcOf DEF Apply, Shape, Known4, Shown
<1>2. PICK keep \in SUBSET {i.id : i \in {j \in shown : j.selected}},
           over \in SUBSET {i.id : i \in {j \in shown : j.operation = "existing_target"}} :
        \E ticked \in SUBSET over, choice \in [over -> UserChoices], answered \in BOOLEAN :
          LET todo == Selected(Plan(p, answered), keep \cup ticked, choice)
          IN  IF DOMAIN todo = {} THEN Set(r, Idle) /\ UNCHANGED raced
              ELSE /\ Set(r, begun(choice, todo))
                   /\ raced' = IF Running = {} THEN raced ELSE raced \cup Running \cup {r}
  BY DEF Apply
<1>3. PICK ticked \in SUBSET over, choice \in [over -> UserChoices], answered \in BOOLEAN :
          LET todo == Selected(Plan(p, answered), keep \cup ticked, choice)
          IN  IF DOMAIN todo = {} THEN Set(r, Idle) /\ UNCHANGED raced
              ELSE /\ Set(r, begun(choice, todo))
                   /\ raced' = IF Running = {} THEN raced ELSE raced \cup Running \cup {r}
  BY <1>2
<1> DEFINE plan == Plan(p, answered)
           ids  == keep \cup ticked
           D    == {k \in DOMAIN plan : plan[k].id \in ids /\ (plan[k].selected \/ plan[k].id \in DOMAIN choice)}
           todo == Selected(plan, ids, choice)
           x    == begun(choice, todo)
<1>4. todo = [k \in D |-> plan[k]]
  BY DEF Selected
<1>5. /\ plan \in Lists(Items) /\ \A k \in DOMAIN plan : Stands(p, plan[k])
      /\ Apart(plan) /\ (Blocked(p) => DOMAIN plan = {})
  BY <1>1, PlanIs
<1>6. \A d \in over : \E k \in DOMAIN req[r].plan : d = req[r].plan[k].id /\ req[r].plan[k].operation = "existing_target"
  BY DEF Range
<1>7. over \subseteq Ids /\ \A d \in over : \E c \in Candidates(p) : c.id = d /\ c.cat # "exclude"
  <2>1. ASSUME NEW d \in over PROVE d \in Ids /\ \E c \in Candidates(p) : c.id = d /\ c.cat # "exclude"
    <3>1. PICK k \in DOMAIN req[r].plan : d = req[r].plan[k].id /\ req[r].plan[k].operation = "existing_target"
      BY <1>6
    <3>2. Stands(p, req[r].plan[k])
      BY <1>1 DEF Unasked
    <3>3. PICK c \in Candidates(p) : c.id = d /\ c.cat # "exclude"
      BY <3>1, <3>2 DEF Stands
    <3>4. c \in Offers
      BY <1>1 DEF Offers
    <3> QED BY <3>3, <3>4 DEF Ids
  <2> QED BY <2>1
<1>8. UNCHANGED <<disk, preparing, failures, inboxOps, wrote>>
  BY DEF Apply
<1>9. CASE DOMAIN todo = {}
  <2>1. Set(r, Idle) /\ raced' = raced
    BY <1>3, <1>9
  <2>2. req'[r] = Idle /\ Others(r)
    BY <2>1, Put DEF Set
  <2> QED BY <1>1, <1>8, <2>1, <2>2
<1>10. CASE DOMAIN todo # {}
  <2>1. Set(r, x) /\ raced' = IF Running = {} THEN raced ELSE raced \cup Running \cup {r}
    BY <1>3, <1>10
  <2>2. req'[r] = x /\ Others(r)
    BY <2>1, Put DEF Set
  <2>3. todo \in Lists(Items)
    BY <1>4, <1>5, RestIs
  <2>4. choice \in UNION {[E -> UserChoices] : E \in SUBSET Ids} /\ DOMAIN choice = over
    BY <1>7
  <2>5. x \in Work
    <3> HIDE DEF todo
    <3> QED BY <1>1, <2>3, <2>4 DEF Work, Active
  <2>6. Fresh(x, p)
    BY <2>5 DEF Fresh
  <2>7. /\ ~Blocked(p) /\ Apart(todo)
        /\ \A k \in DOMAIN todo : Stands(p, todo[k]) /\ (todo[k].selected \/ todo[k].id \in DOMAIN choice)
    <3> HIDE DEF plan, ids, p, todo
    <3>1. DOMAIN todo = D /\ D \subseteq DOMAIN plan /\ \A k \in D : todo[k] = plan[k]
      BY <1>4
    <3>2. \A k \in D : plan[k].selected \/ plan[k].id \in DOMAIN choice
      OBVIOUS
    <3> HIDE DEF D
    <3>3. ~Blocked(p)
      BY <1>5, <1>10, <3>1
    <3>4. Apart(todo)
      BY <1>5, <3>1 DEF Apart
    <3> QED BY <1>5, <3>1, <3>2, <3>3, <3>4
  <2>8. Asked(r)'
    <3>1. req'[r].pkg = p /\ req'[r].todo = todo /\ req'[r].choice = choice
      BY <2>2
    <3> HIDE DEF todo, p, x
    <3> QED BY <1>7, <2>4, <2>7, <3>1 DEF Asked
  <2> HIDE DEF x
  <2> QED BY <1>1, <1>8, <2>1, <2>2, <2>6, <2>8
<1> QED BY <1>9, <1>10

-----------------------------------------------------------------------------
(* The kinds of steps.  What another request has in hand is touched only by *)
(* the note of what was written meanwhile.                                  *)

Like(x, y) == \/ y = x
              \/ /\ x \in Work /\ y \in Work /\ x.others \subseteq y.others
                 /\ y.pc = x.pc /\ y.pkg = x.pkg /\ y.choice = x.choice /\ y.todo = x.todo
                 /\ y.links = x.links /\ y.applied = x.applied /\ y.backup = x.backup
                 /\ y.at = x.at /\ y.text = x.text /\ y.book = x.book

Aside(r) == \A q \in Requests \ {r} : Like(req[q], req'[q])
Left(s, t) == DOMAIN s \subseteq DOMAIN t /\ \A k \in DOMAIN s : s[k] = t[k]

\* A step of an apply that has its backup.
Moves(r) == /\ req[r] \in Work /\ req'[r] \in Work /\ r \in Begun /\ r \in Begun'
            /\ req'[r].pkg = req[r].pkg /\ req'[r].choice = req[r].choice
            /\ req'[r].backup = req[r].backup /\ req'[r].others = req[r].others
            /\ Left(req'[r].todo, req[r].todo)

Same(r)  == /\ req'[r].links = req[r].links /\ req'[r].applied = req[r].applied
            /\ req'[r].todo = req[r].todo
Still    == UNCHANGED <<node, registry, inbox, raced, wrote>>

Rests(r) == /\ r \notin Begun /\ req'[r] \in {Idle} \cup Shown \cup Drafted
            /\ req'[r].pc = "shown" => \A k \in DOMAIN req'[r].plan : Stands(req'[r].pkg, req'[r].plan[k])
            /\ Aside(r) /\ Still
Starts(r) == /\ r \notin Begun /\ r \notin Running /\ Fresh(req'[r], req[r].pkg) /\ Asked(r)'
             /\ raced' = IF Running = {} THEN raced ELSE raced \cup Running \cup {r}
             /\ Aside(r) /\ UNCHANGED <<node, registry, inbox, wrote>>
Copies(r) == /\ req[r] \in Work /\ req'[r] \in Work /\ req[r].pc = "backup" /\ req'[r].pc = "item"
             /\ req'[r].pkg = req[r].pkg /\ req'[r].choice = req[r].choice /\ req'[r].todo = req[r].todo
             /\ req'[r].links = req[r].links /\ req'[r].applied = req[r].applied /\ req'[r].book = req[r].book
             /\ req'[r].backup = node /\ req'[r].others = {}
             /\ Aside(r) /\ Still
Skips(r) == /\ Moves(r) /\ req[r].pc = "item" /\ req'[r].pc = "item"
            /\ req'[r].applied = req[r].applied /\ req'[r].book = req[r].book
            /\ req[r].links \subseteq req'[r].links
            /\ Aside(r) /\ Still
Takes(r) == /\ Moves(r) /\ Same(r) /\ req[r].pc = "item" /\ req'[r].pc = "write"
            /\ req'[r].book = req[r].book /\ DOMAIN req[r].todo # {}
            /\ req'[r].at \in Nodes /\ req'[r].text = node[req'[r].at]
            /\ node[req'[r].at] # {} => Choosing(r)'
            /\ Aside(r) /\ Still

\* The write of the item at the first place, where its mark is not yet in the text and where it is.
WritesIt(r, k) ==
    LET n == req[r].at
        i == req[r].todo[k]
        m == Mark(r, i, req[r].text)
    IN  /\ Moves(r) /\ req[r].pc = "write" /\ req'[r].pc = "item" /\ req'[r].book = req[r].book
        /\ n \in Nodes /\ i \in Items
        /\ req'[r].links = req[r].links \cup {n}
        /\ req'[r].applied = req[r].applied \cup {<<n, i.id>>}
        /\ Aside(r) /\ UNCHANGED <<registry, inbox, raced>>
        /\ \/ m \in req[r].text /\ UNCHANGED <<node, wrote>>
           \/ /\ m \notin req[r].text
              /\ node' = [node EXCEPT ![n] = req[r].text \cup {m}] /\ wrote' = wrote \cup {<<r, n>>}
              /\ \A q \in Requests \ {r} : req[q].pc \notin Waiting => n \in req'[q].others

Ends(r) == /\ Moves(r) /\ Same(r) /\ req[r].pc = "item" /\ req'[r].book = 1
           /\ req'[r].pc = (IF req[r].applied = {} THEN "mark" ELSE "read")
           /\ Aside(r) /\ Still
Fails(r) == /\ Moves(r) /\ Same(r) /\ req'[r].pc = "failed" /\ req'[r].book = req[r].book
            /\ r \in Running /\ Aside(r) /\ Still
Reads(r) == /\ Moves(r) /\ Same(r) /\ req[r].pc = "read" /\ req'[r].pc = "append"
            /\ req'[r].book = req[r].book /\ req'[r].text = registry[Registries[req[r].book]]
            /\ Aside(r) /\ Still
Turned(r) == /\ Moves(r) /\ Same(r) /\ Aside(r)
             /\ IF req[r].book = 3 THEN req'[r].pc = "mark" /\ req'[r].book = req[r].book
                ELSE req'[r].pc = "read" /\ req'[r].book = req[r].book + 1
Passes(r) == /\ Turned(r) /\ req[r].pc = "read" /\ Still
             /\ Entry(r, Registries[req[r].book]) \subseteq registry[Registries[req[r].book]]
Books(r) == LET g == Registries[req[r].book] IN
            /\ Turned(r) /\ req[r].pc = "append"
            /\ registry' = [registry EXCEPT ![g] = req[r].text \cup Entry(r, g)]
            /\ UNCHANGED <<node, inbox, raced, wrote>>
Tells(r) == LET s == req[r].pkg.origin IN
            /\ Moves(r) /\ Same(r) /\ req[r].pc = "mark" /\ req'[r].pc = "done" /\ req'[r].book = req[r].book
            /\ \/ inbox' = inbox
               \/ "skip_duplicate" \in Range(req[r].choice) /\ inbox' = [inbox EXCEPT ![s] = "duplicate"]
               \/ req[r].applied # {} /\ inbox' = [inbox EXCEPT ![s] = "indexed"]
            /\ Aside(r) /\ UNCHANGED <<node, registry, raced, wrote>>
Puts(s) == /\ \E status \in {"prepared", "ignored", inbox[s]} : inbox' = [inbox EXCEPT ![s] = status]
           /\ UNCHANGED <<req, node, registry, raced, wrote>>

Kind(r) == \/ Rests(r) \/ Starts(r) \/ Copies(r) \/ Skips(r) \/ Takes(r)
           \/ \E k \in First(r) : WritesIt(r, k)
           \/ Ends(r) \/ Fails(r) \/ Reads(r) \/ Passes(r) \/ Books(r) \/ Tells(r)

-----------------------------------------------------------------------------
(* Each action is of a kind, and keeps the shape.                           *)

LEMMA OthersAside == ASSUME NEW r, Others(r) PROVE Aside(r)
BY DEF Others, Aside, Like

LEMMA RestsShape ==
    ASSUME Shape, NEW r \in Requests, NEW x \in {Idle} \cup Shown \cup Drafted, req' = [req EXCEPT ![r] = x],
           failures' \in 0 .. MaxFailures,
           UNCHANGED <<node, registry, inbox, preparing, inboxOps, raced, wrote>>
    PROVE  Shape' /\ Aside(r) /\ req'[r] = x
<1>1. req'[r] = x /\ Others(r) /\ req' \in [Requests -> Known4]
  BY Put DEF Known4
<1>2. Shape'
  BY <1>1 DEF Shape, Known4
<1> QED BY <1>1, <1>2, OthersAside

LEMMA DraftIs == ASSUME Shape, NEW r \in Requests, Draft(r) PROVE Shape' /\ Rests(r)
<1>1. PICK p \in Packages : Set(r, [pc |-> "drafted", pkg |-> p])
  BY DEF Draft
<1>2. [pc |-> "drafted", pkg |-> p] \in Drafted
  BY DEF Drafted
<1>3. Shape' /\ Aside(r) /\ req'[r] = [pc |-> "drafted", pkg |-> p]
  <2>1. failures' \in 0 .. MaxFailures
    BY DEF Draft, Shape
  <2> QED BY <1>1, <1>2, <2>1, RestsShape DEF Draft, disk, Set
<1>4. r \notin Begun
  BY DEF Draft, Begun, Waiting
<1> QED BY <1>2, <1>3, <1>4 DEF Rests, Draft, disk, Still

LEMMA ProposeIs == ASSUME Shape, NEW r \in Requests, Propose(r) PROVE Shape' /\ Rests(r)
<1>1. PICK p \in Packages, answered \in BOOLEAN : Set(r, [pc |-> "shown", pkg |-> p, plan |-> Plan(p, answered)])
  BY DEF Propose
<1> DEFINE x == [pc |-> "shown", pkg |-> p, plan |-> Plan(p, answered)]
<1>2. Plan(p, answered) \in Lists(Items) /\ \A k \in DOMAIN Plan(p, answered) : Stands(p, Plan(p, answered)[k])
  BY PlanIs
<1>3. x \in Shown /\ x.pc = "shown" /\ x.pkg = p /\ x.plan = Plan(p, answered)
  BY <1>2 DEF Shown
<1> HIDE DEF x
<1>4. Shape' /\ Aside(r) /\ req'[r] = x
  <2>1. failures' \in 0 .. MaxFailures
    BY DEF Propose, Shape
  <2> QED BY <1>1, <1>3, <2>1, RestsShape DEF Propose, disk, Set, x
<1>5. r \notin Begun
  BY DEF Propose, Begun, Waiting
<1> QED BY <1>2, <1>3, <1>4, <1>5 DEF Rests, Propose, disk, Still

LEMMA WorkShape ==
    ASSUME Shape, NEW r \in Requests, NEW x \in Work, req' = [req EXCEPT ![r] = x],
           node' \in [Nodes -> SUBSET Marks], registry' \in [Range(Registries) -> SUBSET Entries],
           inbox' \in [Sources -> Statuses], failures' \in 0 .. MaxFailures,
           raced' \subseteq Requests, wrote' \subseteq Requests \X Nodes,
           UNCHANGED <<preparing, inboxOps>>
    PROVE  Shape' /\ Aside(r) /\ req'[r] = x
<1>1. req'[r] = x /\ Others(r) /\ req' \in [Requests -> Known4]
  BY Put DEF Known4
<1>2. Shape'
  BY <1>1 DEF Shape, Known4
<1> QED BY <1>1, <1>2, OthersAside

\* The same when nothing but what is in hand changes.
LEMMA HandShape ==
    ASSUME Shape, NEW r \in Requests, NEW x \in Work, req' = [req EXCEPT ![r] = x],
           UNCHANGED <<disk, preparing, failures, inboxOps, raced, wrote>>
    PROVE  Shape' /\ Aside(r) /\ Still /\ req'[r] = x
<1>1. /\ node' \in [Nodes -> SUBSET Marks] /\ registry' \in [Range(Registries) -> SUBSET Entries]
      /\ inbox' \in [Sources -> Statuses] /\ failures' \in 0 .. MaxFailures
      /\ raced' \subseteq Requests /\ wrote' \subseteq Requests \X Nodes
  BY DEF Shape, disk
<1>2. Still /\ UNCHANGED <<preparing, inboxOps>>
  BY DEF disk, Still
<1> QED BY <1>1, <1>2, WorkShape

LEMMA IsWork ==
    ASSUME Shape, NEW r \in Requests, req[r].pc \notin Waiting
    PROVE  req[r] \in Work
BY PcOf DEF Shape, Known4

LEMMA ApplyKind == ASSUME Shape, Unasked, NEW r \in Requests, Apply(r) PROVE Shape' /\ (Rests(r) \/ Starts(r))
<1>1. /\ UNCHANGED <<disk, preparing, failures, inboxOps, wrote>>
      /\ Others(r) /\ req[r] \in Shown /\ Aside(r)
  BY ApplyIs, OthersAside
<1>2. req[r].pc = "shown" /\ r \notin Begun /\ r \notin Running
  BY DEF Apply, Begun, Waiting, Running
<1>3. /\ node' \in [Nodes -> SUBSET Marks] /\ registry' \in [Range(Registries) -> SUBSET Entries]
      /\ inbox' \in [Sources -> Statuses] /\ failures' \in 0 .. MaxFailures
      /\ wrote' \subseteq Requests \X Nodes
      /\ preparing' \subseteq Sources /\ inboxOps' \in 0 .. MaxInbox
  BY <1>1 DEF Shape, disk
<1>4. DOMAIN req' = Requests /\ req' = [q \in Requests |-> req'[q]]
  BY DEF Apply, Set, Shape
<1>5. CASE req'[r] = Idle /\ raced' = raced
  <2>1. \A q \in Requests : req'[q] \in {Idle} \cup Shown \cup Drafted \cup Work
    BY <1>1, <1>5 DEF Others, Shape
  <2>2. Shape'
    BY <1>3, <1>4, <1>5, <2>1 DEF Shape
  <2>3. req'[r].pc # "shown"
    BY <1>5 DEF Idle
  <2> QED BY <1>1, <1>2, <1>5, <2>2, <2>3 DEF Rests, Still, disk
<1>6. CASE /\ Fresh(req'[r], req[r].pkg) /\ Asked(r)'
           /\ raced' = IF Running = {} THEN raced ELSE raced \cup Running \cup {r}
  <2>1. \A q \in Requests : req'[q] \in {Idle} \cup Shown \cup Drafted \cup Work
    BY <1>1, <1>6 DEF Others, Shape, Fresh
  <2>2. raced' \subseteq Requests
    BY <1>6 DEF Running, Shape
  <2>3. Shape'
    BY <1>3, <1>4, <2>1, <2>2 DEF Shape
  <2> QED BY <1>1, <1>2, <1>6, <2>3 DEF Starts, disk
<1> QED BY <1>5, <1>6, ApplyIs

LEMMA BackupKind == ASSUME Shape, NEW r \in Requests, Backup(r) PROVE Shape' /\ Copies(r)
<1> DEFINE x == [req[r] EXCEPT !.pc = "item", !.backup = node, !.others = {}]
<1>1. req[r] \in Work /\ req[r].pc = "backup"
  BY IsWork DEF Backup, Waiting
<1>2. node \in [Nodes -> SUBSET Marks]
  BY DEF Shape
<1>3. /\ x \in Work /\ x.pc = "item" /\ x.backup = node /\ x.others = {}
      /\ x.pkg = req[r].pkg /\ x.choice = req[r].choice /\ x.todo = req[r].todo
      /\ x.links = req[r].links /\ x.applied = req[r].applied /\ x.book = req[r].book
  BY <1>1, <1>2 DEF Work, Active
<1>4. req' = [req EXCEPT ![r] = x]
  BY DEF Backup, Set
<1> HIDE DEF x
<1>5. Shape' /\ Aside(r) /\ Still /\ req'[r] = x
  <2>1. /\ registry' \in [Range(Registries) -> SUBSET Entries] /\ node' \in [Nodes -> SUBSET Marks]
        /\ inbox' \in [Sources -> Statuses] /\ failures' \in 0 .. MaxFailures
        /\ raced' \subseteq Requests /\ wrote' \subseteq Requests \X Nodes
        /\ UNCHANGED <<preparing, inboxOps>> /\ Still
    BY DEF Shape, Backup, Still
  <2> QED BY <1>3, <1>4, <2>1, WorkShape
<1> QED BY <1>1, <1>3, <1>5 DEF Copies

\* What makes a step of an apply that has its backup.
LEMMA MovesBy ==
    ASSUME NEW r \in Requests, req[r] \in Work, req'[r] \in Work,
           req[r].pc # "backup", req'[r].pc # "backup",
           req'[r].pkg = req[r].pkg, req'[r].choice = req[r].choice,
           req'[r].backup = req[r].backup, req'[r].others = req[r].others,
           Left(req'[r].todo, req[r].todo)
    PROVE  Moves(r)
<1>1. req[r] \in Known4 /\ req'[r] \in Known4
  BY DEF Known4
<1>2. req[r].pc \notin Waiting /\ req'[r].pc \notin Waiting
  BY <1>1, PcOf
<1> QED BY <1>2 DEF Moves, Begun

LEMMA LeftIs ==
    ASSUME NEW r, NEW k
    PROVE  /\ Left(req[r].todo, req[r].todo) /\ Left(Rest(r, k), req[r].todo)
           /\ DOMAIN Rest(r, k) = DOMAIN req[r].todo \ {k}
BY DEF Left, Rest

LEMMA FirstIs ==
    ASSUME NEW r, req[r] \in Work, NEW k \in First(r)
    PROVE  /\ k \in DOMAIN req[r].todo /\ DOMAIN req[r].todo # {} /\ req[r].todo[k] \in Items
           /\ \A j \in First(r) : j = k
           /\ Rest(r, k) \in Lists(Items)
<1>1. req[r].todo \in Lists(Items)
  BY DEF Work
<1>2. DOMAIN req[r].todo \in SUBSET Nat /\ \A j \in DOMAIN req[r].todo : req[r].todo[j] \in Items
  BY <1>1, ListIs
<1>3. k \in DOMAIN req[r].todo
  BY DEF First, Least
<1>4. \A j \in First(r) : j = k
  <2>1. ASSUME NEW j \in First(r) PROVE j = k
    <3>1. j \in DOMAIN req[r].todo /\ j <= k /\ k <= j /\ j \in Nat /\ k \in Nat
      BY <1>2, <1>3 DEF First, Least
    <3> QED BY <3>1
  <2> QED BY <2>1
<1>5. Rest(r, k) \in Lists(Items)
  BY <1>1, RestIs DEF Rest
<1> QED BY <1>2, <1>3, <1>4, <1>5

\* What is left to do is of a candidate that is not excluded, so it has a node's title.
LEMMA TitleIs ==
    ASSUME Shape, NEW r \in Requests, req[r] \in Work, Asked(r), NEW k \in DOMAIN req[r].todo
    PROVE  req[r].todo[k].title \in Titles
<1> DEFINE i == req[r].todo[k]
           p == req[r].pkg
<1>1. p \in Packages
  BY DEF Work
<1>2. PICK c \in Candidates(p) : /\ c.id = i.id /\ c.title = i.title
                                 /\ i.selected => c.cat # "exclude"
  BY DEF Asked, Stands
<1>3. c.cat # "exclude"
  <2>1. CASE i.selected
    BY <1>2, <2>1
  <2>2. CASE i.id \in DOMAIN req[r].choice
    <3>1. PICK d \in Candidates(p) : d.id = i.id /\ d.cat # "exclude"
      BY <2>2 DEF Asked
    <3>2. c = d
      BY <1>1, <1>2, <3>1, IdsName
    <3> QED BY <3>1, <3>2
  <2> QED BY <2>1, <2>2 DEF Asked
<1>4. PackageOK(p)
  BY <1>1, PackagesAssumption
<1> HIDE DEF i, p
<1>5. i.title \in Titles
  BY <1>2, <1>3, <1>4 DEF PackageOK
<1> QED BY <1>5 DEF i

\* An item goes to a node of its title; one that has a text is only updated.
LEMMA GoalIs ==
    ASSUME NEW r, NEW i, i.title \in Titles, NEW n \in Goal(r, i)
    PROVE  n \in Nodes /\ n[1] = i.title /\ (node[n] # {} => ActionOf(r, i) = "update_existing")
<1> DEFINE t == i.title
<1>1. MaxLinked \in Nat
  BY LimitsAssumption
<1>2. \A k \in 0 .. MaxLinked : <<t, k>> \in Nodes /\ <<t, k>>[1] = t
  BY DEF Nodes
<1>3. \A k \in Least(FreeLinked(t)) : k \in 0 .. MaxLinked /\ node[<<t, k>>] = {}
  BY <1>1 DEF Least, FreeLinked
<1>4. ActionOf(r, i) \notin {"skip", "skip_duplicate"}
  <2>1. ASSUME ActionOf(r, i) \in {"skip", "skip_duplicate"} PROVE Goal(r, i) = {}
    BY <2>1, Zenon DEF Goal
  <2> QED BY <2>1
<1>5. CASE node[<<t, 0>>] = {}
  <2>1. n = <<t, 0>>
    BY <1>4, <1>5 DEF Goal
  <2> QED BY <1>1, <1>2, <1>5, <2>1
<1>6. CASE node[<<t, 0>>] # {} /\ ActionOf(r, i) = "update_existing"
  <2>1. n = <<t, 0>>
    BY <1>4, <1>6 DEF Goal
  <2> QED BY <1>1, <1>2, <1>6, <2>1
<1>7. CASE node[<<t, 0>>] # {} /\ ActionOf(r, i) # "update_existing"
  <2>1. PICK k \in Least(FreeLinked(t)) : n = <<t, k>>
    BY <1>4, <1>7 DEF Goal
  <2> QED BY <1>2, <1>3, <2>1
<1> QED BY <1>5, <1>6, <1>7

LEMMA LookKind == ASSUME Shape, Unasked, NEW r \in Requests, LookItem(r) PROVE Shape' /\ (Skips(r) \/ Takes(r))
<1>1. req[r] \in Work /\ req[r].pc = "item"
  BY IsWork DEF LookItem, Waiting
<1>2. Asked(r)
  BY <1>1 DEF Unasked, Working, Waiting
<1>3. PICK k \in First(r) :
         LET item == req[r].todo[k] IN
         IF Goal(r, item) = {}
         THEN Set(r, [req[r] EXCEPT !.todo = Rest(r, k), !.links = @ \cup {<<item.title, 0>>}])
         ELSE \E n \in Goal(r, item) :
                Set(r, [req[r] EXCEPT !.pc = "write", !.at = n, !.text = node[n]])
  BY DEF LookItem
<1> DEFINE i == req[r].todo[k]
<1>4. /\ k \in DOMAIN req[r].todo /\ DOMAIN req[r].todo # {} /\ i \in Items
      /\ \A j \in First(r) : j = k
      /\ Rest(r, k) \in Lists(Items)
  BY <1>1, FirstIs
<1>5. i.title \in Titles
  BY <1>1, <1>2, <1>4, TitleIs
<1>6. CASE Goal(r, i) = {}
  <2> DEFINE d == Rest(r, k)
             l == <<i.title, 0>>
             x == [req[r] EXCEPT !.todo = d, !.links = @ \cup {l}]
  <2>1. l \in Nodes
    BY <1>5, LimitsAssumption DEF Nodes
  <2>2. Set(r, x)
    BY <1>3, <1>6
  <2>3. d \in Lists(Items) /\ Left(d, req[r].todo)
    BY <1>4, LeftIs
  <2> HIDE DEF d, l
  <2>4. /\ x \in Work /\ x.pc = "item" /\ x.pkg = req[r].pkg /\ x.choice = req[r].choice /\ x.todo = d
        /\ x.backup = req[r].backup /\ x.others = req[r].others
        /\ x.applied = req[r].applied /\ x.book = req[r].book /\ req[r].links \subseteq x.links
    BY <1>1, <2>1, <2>3 DEF Work, Active
  <2> HIDE DEF x
  <2>5. Shape' /\ Aside(r) /\ Still /\ req'[r] = x
    BY <2>2, <2>4, HandShape DEF LookItem, Set
  <2>6. Moves(r)
    BY <1>1, <2>3, <2>4, <2>5, MovesBy
  <2> QED BY <1>1, <2>4, <2>5, <2>6 DEF Skips
<1>7. CASE Goal(r, i) # {}
  <2>1. PICK n \in Goal(r, i) : Set(r, [req[r] EXCEPT !.pc = "write", !.at = n, !.text = node[n]])
    BY <1>3, <1>7
  <2> DEFINE x == [req[r] EXCEPT !.pc = "write", !.at = n, !.text = node[n]]
  <2>2. n \in Nodes /\ n[1] = i.title /\ (node[n] # {} => ActionOf(r, i) = "update_existing")
    BY <1>5, GoalIs
  <2>3. node[n] \in SUBSET Marks
    BY <2>2 DEF Shape
  <2>4. /\ x \in Work /\ x.pc = "write" /\ x.pkg = req[r].pkg /\ x.choice = req[r].choice /\ x.todo = req[r].todo
        /\ x.backup = req[r].backup /\ x.others = req[r].others
        /\ x.applied = req[r].applied /\ x.book = req[r].book /\ x.links = req[r].links
        /\ x.at = n /\ x.text = node[n]
    BY <1>1, <2>2, <2>3 DEF Work, Active
  <2>5. Set(r, x)
    BY <2>1
  <2> HIDE DEF x
  <2>6. Shape' /\ Aside(r) /\ Still /\ req'[r] = x
    BY <2>5, <2>4, HandShape DEF LookItem, Set
  <2>7. Moves(r)
    BY <1>1, <2>4, <2>6, MovesBy, LeftIs
  <2>8. ASSUME node[n] # {} PROVE Choosing(r)'
    <3>1. i.id \in DOMAIN req[r].choice /\ req[r].choice[i.id] = "update_existing"
      BY <1>4, <2>2, <2>8 DEF ActionOf, Items
    <3>2. First(r)' = First(r)
      BY <2>4, <2>6 DEF First
    <3> QED BY <1>4, <2>2, <2>4, <2>6, <3>1, <3>2 DEF Choosing
  <2> QED BY <1>1, <1>4, <2>2, <2>4, <2>6, <2>7, <2>8 DEF Takes, Same
<1> QED BY <1>6, <1>7

LEMMA NotedLike ==
    ASSUME NEW x \in Work, NEW n \in Nodes, NEW y, y = [x EXCEPT !.others = @ \cup {n}]
    PROVE  Like(x, y) /\ y \in Work /\ n \in y.others
<1>1. y \in Work
  BY DEF Work
<1>2. x.others \subseteq y.others /\ n \in y.others
  BY DEF Work
<1>3. /\ y.pc = x.pc /\ y.pkg = x.pkg /\ y.choice = x.choice /\ y.todo = x.todo
      /\ y.links = x.links /\ y.applied = x.applied /\ y.backup = x.backup
      /\ y.at = x.at /\ y.text = x.text /\ y.book = x.book
  BY DEF Work
<1> QED BY <1>1, <1>2, <1>3 DEF Like

LEMMA WriteKind == ASSUME Shape, Unasked, NEW r \in Requests, WriteItem(r)
                   PROVE  Shape' /\ \E k \in First(r) : WritesIt(r, k)
<1>1. req[r] \in Work /\ req[r].pc = "write"
  BY IsWork DEF WriteItem, Waiting
<1>2. Whole(r)
  BY <1>1 DEF Unasked, Working, Waiting
<1> DEFINE n == req[r].at
           mark(k) == Mark(r, req[r].todo[k], req[r].text)
           base(k) == IF mark(k) \in req[r].text THEN req ELSE OthersSee(r, n)
<1>3. PICK k \in First(r) :
         /\ node' = IF mark(k) \in req[r].text THEN node ELSE [node EXCEPT ![n] = req[r].text \cup {mark(k)}]
         /\ req' = [base(k) EXCEPT ![r].pc = "item", ![r].todo = Rest(r, k),
                                   ![r].links = @ \cup {n}, ![r].applied = @ \cup {<<n, req[r].todo[k].id>>},
                                   ![r].at = <<>>, ![r].text = {}]
         /\ wrote' = IF mark(k) \in req[r].text THEN wrote ELSE wrote \cup {<<r, n>>}
  BY DEF WriteItem
<1> DEFINE i == req[r].todo[k]
           m == mark(k)
           d == Rest(r, k)
           y == base(k)
           x == [req[r] EXCEPT !.pc = "item", !.todo = d, !.links = @ \cup {n}, !.applied = @ \cup {<<n, i.id>>},
                               !.at = <<>>, !.text = {}]
<1>4. i \in Items /\ d \in Lists(Items) /\ Left(d, req[r].todo) /\ i.id \in Ids
  BY <1>1, FirstIs, LeftIs DEF Items
<1>5. n \in Nodes /\ req[r].text \subseteq Marks
  BY <1>1, <1>2 DEF Whole
<1>6. m \in Marks
  <2>1. req[r].pkg.run \in Runs
    BY <1>1 DEF Work, Runs
  <2> QED BY <1>4, <2>1 DEF Mark, Marks
<1>7. /\ DOMAIN y = Requests /\ y[r] = req[r]
      /\ \A q \in Requests \ {r} : /\ Like(req[q], y[q]) /\ y[q] \in {Idle} \cup Shown \cup Drafted \cup Work
                                   /\ (m \notin req[r].text /\ req[q].pc \notin Waiting) => n \in y[q].others
  <2>1. CASE m \in req[r].text
    <3>1. y = req
      BY <2>1
    <3> QED BY <2>1, <3>1 DEF Shape, Like
  <2>2. CASE m \notin req[r].text
    <3>1. y = OthersSee(r, n)
      BY <2>2
    <3>2. DOMAIN y = Requests /\ y[r] = req[r]
      BY <3>1 DEF OthersSee
    <3>3. ASSUME NEW q \in Requests \ {r}
          PROVE  /\ Like(req[q], y[q]) /\ y[q] \in {Idle} \cup Shown \cup Drafted \cup Work
                 /\ req[q].pc \notin Waiting => n \in y[q].others
      <4>1. CASE req[q].pc \in Waiting
        <5>1. y[q] = req[q]
          BY <3>1, <4>1 DEF OthersSee
        <5> QED BY <4>1, <5>1 DEF Shape, Like
      <4>2. CASE req[q].pc \notin Waiting
        <5>1. y[q] = [req[q] EXCEPT !.others = @ \cup {n}]
          BY <3>1, <4>2 DEF OthersSee
        <5>2. req[q] \in Work
          BY <4>2, IsWork
        <5> HIDE DEF y, n
        <5> QED BY <1>5, <5>1, <5>2, NotedLike
      <4> QED BY <4>1, <4>2
    <3> HIDE DEF y, m, n
    <3> QED BY <3>2, <3>3
  <2> HIDE DEF y, m, n
  <2> QED BY <2>1, <2>2
<1>8. req' = [y EXCEPT ![r] = x]
  <2> HIDE DEF d, i, n
  <2>1. req' = [y EXCEPT ![r].pc = "item", ![r].todo = d, ![r].links = @ \cup {n},
                         ![r].applied = @ \cup {<<n, i.id>>}, ![r].at = <<>>, ![r].text = {}]
    BY <1>3 DEF d, i, n
  <2> HIDE DEF y
  <2> QED BY <1>7, <2>1
<1>9. /\ x \in Work /\ x.pc = "item" /\ x.pkg = req[r].pkg /\ x.choice = req[r].choice /\ x.todo = d
      /\ x.backup = req[r].backup /\ x.others = req[r].others
      /\ x.applied = req[r].applied \cup {<<n, i.id>>} /\ x.links = req[r].links \cup {n} /\ x.book = req[r].book
  <2> HIDE DEF d, i, n
  <2>1. <<n, i.id>> \in Nodes \X Ids
    BY <1>4, <1>5
  <2> QED BY <1>1, <1>4, <1>5, <2>1 DEF Work, Active
<1> HIDE DEF x, y
<1>10. req'[r] = x /\ DOMAIN req' = Requests /\ req' = [q \in Requests |-> req'[q]] /\ \A q \in Requests \ {r} : req'[q] = y[q]
  BY <1>7, <1>8
<1>11. Aside(r) /\ (m \notin req[r].text => \A q \in Requests \ {r} : req[q].pc \notin Waiting => n \in req'[q].others)
  BY <1>7, <1>10 DEF Aside
<1>12. UNCHANGED <<registry, inbox, preparing, failures, inboxOps, raced>>
  BY DEF WriteItem
<1>13. Shape'
  <2>1. \A q \in Requests : req'[q] \in {Idle} \cup Shown \cup Drafted \cup Work
    BY <1>7, <1>9, <1>10
  <2>2. req' \in [Requests -> {Idle} \cup Shown \cup Drafted \cup Work]
    BY <1>10, <2>1
  <2>3. node' \in [Nodes -> SUBSET Marks] /\ wrote' \subseteq Requests \X Nodes
    <3>0. node \in [Nodes -> SUBSET Marks] /\ wrote \subseteq Requests \X Nodes
      BY DEF Shape
    <3> HIDE DEF m, n
    <3>1. node' = node \/ node' = [node EXCEPT ![n] = req[r].text \cup {m}]
      BY <1>3 DEF m, n
    <3>2. wrote' = wrote \/ wrote' = wrote \cup {<<r, n>>}
      BY <1>3 DEF m, n
    <3>3. req[r].text \cup {m} \in SUBSET Marks
      BY <1>5, <1>6
    <3> QED BY <1>5, <3>0, <3>1, <3>2, <3>3
  <2> QED BY <1>12, <2>2, <2>3 DEF Shape
<1>14. Moves(r)
  BY <1>1, <1>4, <1>9, <1>10, MovesBy
<1>15. \/ m \in req[r].text /\ UNCHANGED <<node, wrote>>
       \/ m \notin req[r].text /\ node' = [node EXCEPT ![n] = req[r].text \cup {m}] /\ wrote' = wrote \cup {<<r, n>>}
  BY <1>3
<1>16. WritesIt(r, k)
  BY <1>1, <1>4, <1>5, <1>9, <1>10, <1>11, <1>12, <1>14, <1>15 DEF WritesIt
<1> QED BY <1>13, <1>16

LEMMA BooksAre == Registries[1] = "sources" /\ Registries[2] = "journal" /\ Registries[3] = "index"
                  /\ Range(Registries) = {"sources", "journal", "index"} /\ Len(Registries) = 3
<1>1. Registries[1] = "sources" /\ Registries[2] = "journal" /\ Registries[3] = "index" /\ Len(Registries) = 3
  BY DEF Registries
<1>2. Range(Registries) = {Registries[k] : k \in 1 .. 3}
  <2>1. DOMAIN Registries = 1 .. 3
    BY DEF Registries
  <2> HIDE DEF Registries
  <2> QED BY <2>1 DEF Range
<1>3. 1 .. 3 = {1, 2, 3}
  OBVIOUS
<1> QED BY <1>1, <1>2, <1>3

LEMMA BookIs == ASSUME NEW b \in 1 .. 3
                PROVE  Registries[b] \in Range(Registries) /\ \A c \in 1 .. 3 : c # b => Registries[c] # Registries[b]
<1>1. b \in {1, 2, 3} /\ 1 .. 3 = {1, 2, 3}
  OBVIOUS
<1> HIDE DEF Registries
<1> QED BY <1>1, BooksAre

LEMMA EntryIs == ASSUME NEW r, req[r] \in Work, NEW g PROVE Entry(r, g) \subseteq Entries
<1>1. req[r].links \subseteq Nodes /\ req[r].pkg.run \in Runs
  BY DEF Work, Runs
<1>2. {<<req[r].pkg.run, n>> : n \in req[r].links} \subseteq Runs \X Nodes
  BY <1>1
<1> QED BY <1>1, <1>2 DEF Entry, Entries

LEMMA EndKind == ASSUME Shape, Unasked, NEW r \in Requests, EndItems(r) PROVE Shape' /\ Ends(r)
<1>1. req[r] \in Work /\ req[r].pc = "item" /\ Whole(r)
  <2>1. req[r].pc = "item" /\ req[r].pc \notin Waiting
    BY DEF EndItems, Waiting
  <2> QED BY <2>1, IsWork DEF Unasked, Working
<1> DEFINE pc == IF req[r].applied = {} THEN "mark" ELSE "read"
           x == [req[r] EXCEPT !.pc = pc]
<1>2. req' = [req EXCEPT ![r] = x]
  BY DEF EndItems, Set
<1>3. pc \in {"mark", "read"}
  OBVIOUS
<1>4. /\ x \in Work /\ x.pc = pc /\ x.pkg = req[r].pkg /\ x.choice = req[r].choice /\ x.todo = req[r].todo
      /\ x.backup = req[r].backup /\ x.others = req[r].others
      /\ x.applied = req[r].applied /\ x.links = req[r].links /\ x.book = req[r].book
  <2> HIDE DEF pc
  <2> QED BY <1>1, <1>3 DEF Work, Active
<1> HIDE DEF x
<1>5. Shape' /\ Aside(r) /\ Still /\ req'[r] = x
  BY <1>2, <1>4, HandShape DEF EndItems
<1>6. Moves(r)
  <2> HIDE DEF pc
  <2> QED BY <1>1, <1>3, <1>4, <1>5, MovesBy, LeftIs
<1>7. req[r].book = 1
  BY <1>1 DEF Whole
<1> QED BY <1>1, <1>4, <1>5, <1>6, <1>7 DEF Ends, Same

LEMMA RaiseKind == ASSUME Shape, NEW r \in Requests, Raise(r) PROVE Shape' /\ (Rests(r) \/ Fails(r))
<1>1. req[r] \in Work /\ r \in Running /\ req[r].pc \notin Waiting
  BY IsWork DEF Raise, Running, Waiting
<1>2. failures' \in 0 .. MaxFailures
  BY LimitsAssumption DEF Raise, Shape
<1>3. CASE req[r].pc = "backup"
  <2>1. req' = [req EXCEPT ![r] = Idle]
    BY <1>3 DEF Raise, Set
  <2>2. Shape' /\ Aside(r) /\ req'[r] = Idle
    BY <1>2, <2>1, RestsShape DEF Raise, disk
  <2>3. r \notin Begun /\ req'[r].pc # "shown"
    BY <1>3, <2>2 DEF Begun, Idle
  <2> QED BY <2>2, <2>3 DEF Rests, Raise, disk, Still
<1>4. CASE req[r].pc # "backup"
  <2> DEFINE x == [req[r] EXCEPT !.pc = "failed"]
  <2>1. req' = [req EXCEPT ![r] = x]
    BY <1>4 DEF Raise, Set
  <2>2. /\ x \in Work /\ x.pc = "failed" /\ x.pkg = req[r].pkg /\ x.choice = req[r].choice /\ x.todo = req[r].todo
        /\ x.backup = req[r].backup /\ x.others = req[r].others
        /\ x.applied = req[r].applied /\ x.links = req[r].links /\ x.book = req[r].book
    BY <1>1 DEF Work, Active
  <2> HIDE DEF x
  <2>3. /\ node' \in [Nodes -> SUBSET Marks] /\ registry' \in [Range(Registries) -> SUBSET Entries]
        /\ inbox' \in [Sources -> Statuses] /\ raced' \subseteq Requests /\ wrote' \subseteq Requests \X Nodes
        /\ UNCHANGED <<preparing, inboxOps>> /\ Still
    BY DEF Raise, Shape, disk, Still
  <2>4. Shape' /\ Aside(r) /\ req'[r] = x
    BY <1>2, <2>1, <2>2, <2>3, WorkShape
  <2>5. Moves(r)
    BY <1>1, <1>4, <2>2, <2>4, MovesBy, LeftIs
  <2> QED BY <1>1, <2>2, <2>3, <2>4, <2>5 DEF Fails, Same
<1> QED BY <1>3, <1>4

\* The registry that comes next, if any.
LEMMA NextIs ==
    ASSUME NEW x \in Work, NEW y, y = NextBook([x EXCEPT !.text = {}])
    PROVE  /\ y \in Work /\ y.pkg = x.pkg /\ y.choice = x.choice /\ y.todo = x.todo
           /\ y.backup = x.backup /\ y.others = x.others /\ y.applied = x.applied /\ y.links = x.links
           /\ IF x.book = 3 THEN y.pc = "mark" /\ y.book = x.book ELSE y.pc = "read" /\ y.book = x.book + 1
<1> DEFINE z == [x EXCEPT !.text = {}]
<1>1. /\ z \in Work /\ z.pkg = x.pkg /\ z.choice = x.choice /\ z.todo = x.todo
      /\ z.backup = x.backup /\ z.others = x.others /\ z.applied = x.applied /\ z.links = x.links
      /\ z.book = x.book
  BY DEF Work
<1> HIDE DEF z
<1>2. CASE x.book = 3
  <2>1. y = [z EXCEPT !.pc = "mark"]
    BY <1>1, <1>2, BooksAre DEF NextBook, z
  <2> QED BY <1>1, <1>2, <2>1 DEF Work, Active
<1>3. CASE x.book # 3
  <2>1. y = [z EXCEPT !.pc = "read", !.book = @ + 1]
    BY <1>1, <1>3, BooksAre DEF NextBook, z
  <2>2. x.book \in 1 .. 3 /\ x.book + 1 \in 1 .. 3
    BY <1>3 DEF Work
  <2> DEFINE b == x.book + 1
  <2>3. y = [z EXCEPT !.pc = "read", !.book = b]
    BY <1>1, <2>1
  <2> HIDE DEF b
  <2>4. y \in Work /\ y.pc = "read" /\ y.book = b
    BY <1>1, <2>2, <2>3 DEF Work, Active, b
  <2>5. /\ y.pkg = x.pkg /\ y.choice = x.choice /\ y.todo = x.todo
        /\ y.backup = x.backup /\ y.others = x.others /\ y.applied = x.applied /\ y.links = x.links
    BY <1>1, <2>3 DEF Work
  <2> QED BY <1>3, <2>4, <2>5 DEF b
<1> QED BY <1>2, <1>3

LEMMA ReadKind == ASSUME Shape, NEW r \in Requests, ReadRegistry(r) PROVE Shape' /\ (Reads(r) \/ Passes(r))
<1> DEFINE g == Registries[req[r].book]
<1>1. req[r] \in Work /\ req[r].pc = "read"
  BY IsWork DEF ReadRegistry, Waiting
<1>2. req[r].book \in 1 .. 3
  BY <1>1 DEF Work
<1>3. registry[g] \subseteq Entries
  BY <1>2, BookIs DEF Shape
<1>4. CASE Set(r, [req[r] EXCEPT !.pc = "append", !.text = registry[g]])
  <2> DEFINE x == [req[r] EXCEPT !.pc = "append", !.text = registry[g]]
  <2>1. /\ x \in Work /\ x.pc = "append" /\ x.pkg = req[r].pkg /\ x.choice = req[r].choice /\ x.todo = req[r].todo
        /\ x.backup = req[r].backup /\ x.others = req[r].others /\ x.text = registry[g]
        /\ x.applied = req[r].applied /\ x.links = req[r].links /\ x.book = req[r].book
    <3> HIDE DEF g
    <3> QED BY <1>1, <1>3 DEF Work, Active
  <2>2. req' = [req EXCEPT ![r] = x]
    BY <1>4 DEF Set
  <2> HIDE DEF x
  <2>3. Shape' /\ Aside(r) /\ Still /\ req'[r] = x
    BY <2>1, <2>2, HandShape DEF ReadRegistry
  <2>4. Moves(r)
    BY <1>1, <2>1, <2>3, MovesBy, LeftIs
  <2> QED BY <1>1, <2>1, <2>3, <2>4 DEF Reads, Same
<1>5. CASE Entry(r, g) \subseteq registry[g] /\ Set(r, NextBook([req[r] EXCEPT !.text = {}]))
  <2> DEFINE x == NextBook([req[r] EXCEPT !.text = {}])
  <2>1. /\ x \in Work /\ x.pkg = req[r].pkg /\ x.choice = req[r].choice /\ x.todo = req[r].todo
        /\ x.backup = req[r].backup /\ x.others = req[r].others
        /\ x.applied = req[r].applied /\ x.links = req[r].links
        /\ IF req[r].book = 3 THEN x.pc = "mark" /\ x.book = req[r].book ELSE x.pc = "read" /\ x.book = req[r].book + 1
    BY <1>1, NextIs
  <2>2. req' = [req EXCEPT ![r] = x]
    BY <1>5 DEF Set
  <2> HIDE DEF x
  <2>3. Shape' /\ Aside(r) /\ Still /\ req'[r] = x
    BY <2>1, <2>2, HandShape DEF ReadRegistry
  <2>4. x.pc # "backup"
    BY <2>1
  <2>5. Moves(r)
    BY <1>1, <2>1, <2>3, <2>4, MovesBy, LeftIs
  <2> QED BY <1>1, <1>5, <2>1, <2>3, <2>5 DEF Passes, Turned, Same
<1> QED BY <1>4, <1>5 DEF ReadRegistry

LEMMA BooksKind == ASSUME Shape, Unasked, NEW r \in Requests, WriteRegistry(r), req[r].text \subseteq Entries
                   PROVE  Shape' /\ Books(r)
<1> DEFINE g == Registries[req[r].book]
           x == NextBook([req[r] EXCEPT !.text = {}])
           e == req[r].text \cup Entry(r, g)
<1>1. req[r] \in Work /\ req[r].pc = "append"
  BY IsWork DEF WriteRegistry, Waiting
<1>2. req[r].book \in 1 .. 3
  BY <1>1 DEF Work
<1>3. e \subseteq Entries /\ g \in Range(Registries)
  BY <1>1, <1>2, EntryIs, BookIs
<1>4. /\ x \in Work /\ x.pkg = req[r].pkg /\ x.choice = req[r].choice /\ x.todo = req[r].todo
      /\ x.backup = req[r].backup /\ x.others = req[r].others
      /\ x.applied = req[r].applied /\ x.links = req[r].links
      /\ IF req[r].book = 3 THEN x.pc = "mark" /\ x.book = req[r].book ELSE x.pc = "read" /\ x.book = req[r].book + 1
  BY <1>1, NextIs
<1>5. req' = [req EXCEPT ![r] = x] /\ registry' = [registry EXCEPT ![g] = e]
      /\ UNCHANGED <<node, inbox, preparing, failures, inboxOps, raced, wrote>>
  BY DEF WriteRegistry, Set
<1>6. registry' \in [Range(Registries) -> SUBSET Entries]
  <2> HIDE DEF g, e
  <2>1. registry \in [Range(Registries) -> SUBSET Entries]
    BY DEF Shape
  <2> QED BY <1>3, <1>5, <2>1
<1>7. /\ node' \in [Nodes -> SUBSET Marks] /\ inbox' \in [Sources -> Statuses] /\ failures' \in 0 .. MaxFailures
      /\ raced' \subseteq Requests /\ wrote' \subseteq Requests \X Nodes
  BY <1>5 DEF Shape
<1> HIDE DEF x, e
<1>8. Shape' /\ Aside(r) /\ req'[r] = x
  BY <1>4, <1>5, <1>6, <1>7, WorkShape
<1>9. x.pc # "backup"
  BY <1>4
<1>10. Moves(r)
  BY <1>1, <1>4, <1>8, <1>9, MovesBy, LeftIs
<1> QED BY <1>1, <1>4, <1>5, <1>8, <1>10 DEF Books, Turned, Same, e

LEMMA TellsKind == ASSUME Shape, NEW r \in Requests, MarkOrigin(r) PROVE Shape' /\ Tells(r)
<1> DEFINE s == req[r].pkg.origin
           x == [req[r] EXCEPT !.pc = "done"]
<1>1. req[r] \in Work /\ req[r].pc = "mark"
  BY IsWork DEF MarkOrigin, Waiting
<1>2. /\ x \in Work /\ x.pc = "done" /\ x.pkg = req[r].pkg /\ x.choice = req[r].choice /\ x.todo = req[r].todo
      /\ x.backup = req[r].backup /\ x.others = req[r].others
      /\ x.applied = req[r].applied /\ x.links = req[r].links /\ x.book = req[r].book
  BY <1>1 DEF Work, Active
<1>3. req' = [req EXCEPT ![r] = x] /\ UNCHANGED <<node, registry, preparing, failures, inboxOps, raced, wrote>>
  BY DEF MarkOrigin, Set
<1>4. \/ inbox' = inbox
      \/ "skip_duplicate" \in Range(req[r].choice) /\ inbox' = [inbox EXCEPT ![s] = "duplicate"]
      \/ req[r].applied # {} /\ inbox' = [inbox EXCEPT ![s] = "indexed"]
  BY DEF MarkOrigin, SetStatus
<1>5. inbox' \in [Sources -> Statuses]
  <2> HIDE DEF s
  <2>1. inbox \in [Sources -> Statuses] /\ "duplicate" \in Statuses /\ "indexed" \in Statuses
    BY DEF Shape, Statuses, Hidden
  <2> QED BY <1>4, <2>1
<1>6. /\ node' \in [Nodes -> SUBSET Marks] /\ registry' \in [Range(Registries) -> SUBSET Entries]
      /\ failures' \in 0 .. MaxFailures /\ raced' \subseteq Requests /\ wrote' \subseteq Requests \X Nodes
  BY <1>3 DEF Shape
<1> HIDE DEF x
<1>7. Shape' /\ Aside(r) /\ req'[r] = x
  BY <1>2, <1>3, <1>5, <1>6, WorkShape
<1>8. Moves(r)
  BY <1>1, <1>2, <1>7, MovesBy, LeftIs
<1> QED BY <1>1, <1>2, <1>3, <1>4, <1>7, <1>8 DEF Tells, Same

LEMMA InboxKind == ASSUME Shape, NEW s \in Sources, StartPackage(s) \/ MarkPrepared(s) \/ Ignore(s)
                   PROVE  Shape' /\ Puts(s)
<1>1. /\ UNCHANGED <<req, node, registry, failures, raced, wrote>>
      /\ \E status \in {"prepared", "ignored", inbox[s]} : inbox' = [inbox EXCEPT ![s] = status]
  <2>1. inbox = [inbox EXCEPT ![s] = inbox[s]]
    BY DEF Shape
  <2> QED BY <2>1 DEF StartPackage, MarkPrepared, Ignore, SetStatus, disk
<1>2. inbox' \in [Sources -> Statuses]
  <2>1. inbox \in [Sources -> Statuses] /\ "prepared" \in Statuses /\ "ignored" \in Statuses
    BY DEF Shape, Statuses, Hidden
  <2> QED BY <1>1, <2>1
<1>3. preparing' \subseteq Sources /\ inboxOps' \in 0 .. MaxInbox
  BY LimitsAssumption DEF StartPackage, MarkPrepared, Ignore, Shape
<1>4. Shape'
  BY <1>1, <1>2, <1>3 DEF Shape
<1> QED BY <1>1, <1>4 DEF Puts

\* What is no step of a request, nor of the memory.
Quietly == /\ UNCHANGED <<req, node, registry, raced, wrote>>
           /\ \A s \in Sources : inbox'[s] \in {"prepared", "ignored", inbox[s]}

LEMMA PutsQuietly == ASSUME Shape, NEW s \in Sources, Puts(s) PROVE Quietly
BY DEF Puts, Quietly, Shape

Acts(r) == Draft(r) \/ Propose(r) \/ Apply(r) \/ Backup(r) \/ LookItem(r) \/ WriteItem(r)
             \/ EndItems(r) \/ ReadRegistry(r) \/ WriteRegistry(r) \/ MarkOrigin(r) \/ Raise(r)

LEMMA ActsKind == ASSUME Shape, Unasked, NEW r \in Requests, Acts(r) PROVE Shape' /\ Kind(r)
<1>1. CASE Draft(r)
  BY <1>1, DraftIs DEF Kind
<1>2. CASE Propose(r)
  BY <1>2, ProposeIs DEF Kind
<1>3. CASE Apply(r)
  BY <1>3, ApplyKind DEF Kind
<1>4. CASE Backup(r)
  BY <1>4, BackupKind DEF Kind
<1>5. CASE LookItem(r)
  BY <1>5, LookKind DEF Kind
<1>6. CASE WriteItem(r)
  BY <1>6, WriteKind DEF Kind
<1>7. CASE EndItems(r)
  BY <1>7, EndKind DEF Kind
<1>8. CASE ReadRegistry(r)
  BY <1>8, ReadKind DEF Kind
<1>9. CASE WriteRegistry(r)
  <2>1. req[r].text \subseteq Entries
    <3>1. req[r].pc = "append" /\ req[r].pc \notin Waiting
      BY <1>9 DEF WriteRegistry, Waiting
    <3> QED BY <3>1 DEF Unasked, Working, Whole
  <2> QED BY <1>9, <2>1, BooksKind DEF Kind
<1>10. CASE MarkOrigin(r)
  BY <1>10, TellsKind DEF Kind
<1>11. CASE Raise(r)
  BY <1>11, RaiseKind DEF Kind
<1> QED BY <1>1, <1>2, <1>3, <1>4, <1>5, <1>6, <1>7, <1>8, <1>9, <1>10, <1>11 DEF Acts

LEMMA StepKind == ASSUME Shape, Unasked, [Next]_vars PROVE Shape' /\ ((\E r \in Requests : Kind(r)) \/ Quietly)
<1>1. CASE UNCHANGED vars
  <2>1. UNCHANGED <<req, node, registry, inbox, preparing, failures, inboxOps, raced, wrote>>
    BY <1>1 DEF vars
  <2>2. Shape'
    BY <2>1 DEF Shape
  <2> QED BY <2>1, <2>2 DEF Quietly
<1>2. ASSUME NEW s \in Sources, StartPackage(s) \/ MarkPrepared(s) \/ Ignore(s) PROVE Shape' /\ Quietly
  BY <1>2, InboxKind, PutsQuietly
<1>3. ASSUME NEW r \in Requests, Acts(r) PROVE Shape' /\ Kind(r)
  BY <1>3, ActsKind
<1> QED BY <1>1, <1>2, <1>3 DEF Next, Acts

\* The folders change only when a backup is made, or is left unfinished.
LEMMA SavedKind ==
    ASSUME Shape, Unasked, [Next]_vars
    PROVE  \/ \E r \in Requests : Backup(r) \/ (Raise(r) /\ req[r].pc = "backup")
           \/ UNCHANGED saved /\ (Quietly \/ \E r \in Requests : Kind(r) /\ req[r].pc # "backup")
<1>1. CASE UNCHANGED vars
  BY <1>1 DEF vars, saved, Quietly
<1>2. ASSUME NEW s \in Sources, StartPackage(s) \/ MarkPrepared(s) \/ Ignore(s) PROVE UNCHANGED saved /\ Quietly
  <2>1. UNCHANGED saved
    BY <1>2 DEF StartPackage, MarkPrepared, Ignore, disk
  <2> QED BY <1>2, <2>1, InboxKind, PutsQuietly
<1>3. ASSUME NEW r \in Requests, Acts(r), ~Backup(r), ~(Raise(r) /\ req[r].pc = "backup")
      PROVE  UNCHANGED saved /\ Kind(r) /\ req[r].pc # "backup"
  <2>1. UNCHANGED saved /\ req[r].pc # "backup"
    BY <1>3 DEF Acts, Draft, Propose, Apply, LookItem, WriteItem, EndItems, ReadRegistry, WriteRegistry, MarkOrigin, Raise, disk
  <2> QED BY <1>3, <2>1, ActsKind
<1> QED BY <1>1, <1>2, <1>3 DEF Next, Acts

-----------------------------------------------------------------------------
(* What all the kinds share.                                                *)

LEMMA KindAside == ASSUME NEW r, Kind(r) PROVE Aside(r)
BY DEF Kind, Rests, Starts, Copies, Skips, Takes, WritesIt, Ends, Fails, Reads, Passes, Books, Turned, Tells

LEMMA AsideIs ==
    ASSUME NEW r, Aside(r), NEW q \in Requests \ {r}
    PROVE  /\ req'[q].pc = req[q].pc /\ req'[q].pkg = req[q].pkg /\ req'[q].choice = req[q].choice
           /\ req'[q].todo = req[q].todo /\ req'[q].links = req[q].links /\ req'[q].applied = req[q].applied
           /\ req'[q].backup = req[q].backup /\ req'[q].at = req[q].at /\ req'[q].text = req[q].text
           /\ req'[q].book = req[q].book
           /\ req'[q] = req[q] \/ req[q].others \subseteq req'[q].others
BY DEF Aside, Like

LEMMA AsideUnasked ==
    ASSUME Shape, Unasked, NEW r \in Requests, Aside(r), NEW q \in Requests \ {r}
    PROVE  /\ req'[q].pc = "shown" => \A k \in DOMAIN req'[q].plan : Stands(req'[q].pkg, req'[q].plan[k])
           /\ Working(q)' => Whole(q)' /\ Asked(q)'
<1>1. CASE req'[q] = req[q]
  BY <1>1 DEF Unasked, Working, Whole, Asked
<1>2. CASE req'[q] # req[q]
  <2>1. req[q] \in Work
    BY <1>2 DEF Aside, Like
  <2>2. req[q].pc \notin Waiting
    BY <2>1, PcOf DEF Known4
  <2>3. Whole(q) /\ Asked(q)
    BY <2>2 DEF Unasked, Working
  <2>4. Whole(q)'
    BY <2>3, AsideIs DEF Whole
  <2>5. Asked(q)'
    BY <2>3, AsideIs DEF Asked
  <2>6. req'[q].pc # "shown"
    BY <2>2, AsideIs DEF Waiting
  <2> QED BY <2>4, <2>5, <2>6
<1> QED BY <1>1, <1>2

\* What is left of what was asked for was asked for.
LEMMA LeftAsked ==
    ASSUME NEW r, Asked(r), req'[r].pkg = req[r].pkg, req'[r].choice = req[r].choice,
           Left(req'[r].todo, req[r].todo)
    PROVE  Asked(r)'
<1>1. Apart(req'[r].todo)
  BY DEF Asked, Apart, Left
<1>2. \A k \in DOMAIN req'[r].todo : k \in DOMAIN req[r].todo /\ req'[r].todo[k] = req[r].todo[k]
  BY DEF Left
<1> QED BY <1>1, <1>2 DEF Asked

LEMMA MovesBegun == ASSUME NEW r, Moves(r)
                    PROVE  /\ req[r].pc \notin Waiting /\ req'[r].pc \notin Waiting
                           /\ req[r].pc # "backup" /\ req'[r].pc # "backup"
BY DEF Moves, Begun

LEMMA KindMoves ==
    ASSUME NEW r, Kind(r)
    PROVE  Rests(r) \/ Starts(r) \/ Copies(r) \/ Moves(r)
BY DEF Kind, Skips, Takes, WritesIt, Ends, Fails, Reads, Passes, Books, Turned, Tells

LEMMA UnaskedStep ==
    ASSUME Shape, Unasked, Shape', NEW r \in Requests, Kind(r)
    PROVE  Unasked'
<1>1. Aside(r)
  BY KindAside
<1>2. SUFFICES /\ req'[r].pc = "shown" => \A k \in DOMAIN req'[r].plan : Stands(req'[r].pkg, req'[r].plan[k])
               /\ Working(r)' => Whole(r)' /\ Asked(r)'
  <2>1. \A q \in Requests \ {r} :
           /\ req'[q].pc = "shown" => \A k \in DOMAIN req'[q].plan : Stands(req'[q].pkg, req'[q].plan[k])
           /\ Working(q)' => Whole(q)' /\ Asked(q)'
    BY <1>1, AsideUnasked
  <2>2. \A q \in Requests : q = r \/ q \in Requests \ {r}
    OBVIOUS
  <2> QED BY <1>2, <2>1, <2>2 DEF Unasked
<1>3. CASE Rests(r)
  <2>1. ~Working(r)'
    <3>1. req'[r].pc \in Waiting
      BY <1>3 DEF Rests, Idle, Shown, Drafted, Waiting
    <3> QED BY <3>1 DEF Working
  <2> QED BY <1>3, <2>1 DEF Rests
<1>4. CASE Starts(r)
  <2>1. req'[r].pc = "backup" /\ Asked(r)' /\ req'[r].applied = {} /\ req'[r].book = 1
    BY <1>4 DEF Starts, Fresh
  <2> QED BY <2>1 DEF Whole
<1>5. CASE Copies(r)
  <2>1. req[r].pc \notin Waiting /\ req[r].pc = "backup"
    BY <1>5 DEF Copies, Waiting
  <2>2. Whole(r) /\ Asked(r)
    BY <2>1 DEF Unasked, Working
  <2>3. Asked(r)'
    BY <1>5, <2>2, LeftAsked DEF Copies, Left
  <2>4. Whole(r)'
    BY <1>5, <2>2 DEF Whole, Copies
  <2>5. req'[r].pc # "shown"
    BY <1>5 DEF Copies
  <2> QED BY <2>3, <2>4, <2>5
<1>6. CASE Moves(r)
  <2>1. req[r].pc \notin Waiting /\ req'[r].pc # "shown"
    BY <1>6, MovesBegun DEF Waiting
  <2>2. Whole(r) /\ Asked(r)
    BY <2>1 DEF Unasked, Working
  <2>3. Asked(r)'
    BY <1>6, <2>2, LeftAsked DEF Moves
  <2>4. ~Rests(r) /\ ~Starts(r) /\ ~Copies(r)
    BY <1>6, MovesBegun DEF Moves, Rests, Starts, Copies
  <2>5. Whole(r)'
    <3>1. CASE Skips(r)
      BY <2>2, <3>1 DEF Whole, Skips
    <3>2. CASE Takes(r)
      <4>1. req'[r].text \subseteq Marks
        BY <3>2 DEF Takes, Shape
      <4> QED BY <2>2, <3>2, <4>1 DEF Whole, Takes, Same
    <3>3. ASSUME NEW k \in First(r), WritesIt(r, k) PROVE Whole(r)'
      <4>1. {a[1] : a \in req'[r].applied} \subseteq req'[r].links
        BY <2>2, <3>3 DEF Whole, WritesIt
      <4> QED BY <2>2, <3>3, <4>1 DEF Whole, WritesIt
    <3>4. CASE Ends(r)
      BY <2>2, <3>4 DEF Whole, Ends, Same
    <3>5. CASE Fails(r)
      BY <2>2, <3>5 DEF Whole, Fails, Same
    <3>6. CASE Reads(r)
      <4>1. req[r].book \in 1 .. 3
        BY <1>6 DEF Moves, Work
      <4>2. req'[r].text \subseteq Entries
        BY <3>6, <4>1, BookIs DEF Reads, Shape
      <4> QED BY <2>2, <3>6, <4>2 DEF Whole, Reads, Same
    <3>7. CASE Turned(r)
      BY <2>2, <3>7 DEF Whole, Turned, Same
    <3>8. CASE Tells(r)
      BY <2>2, <3>8 DEF Whole, Tells, Same
    <3> QED BY <2>4, <3>1, <3>2, <3>3, <3>4, <3>5, <3>6, <3>7, <3>8 DEF Kind, Passes, Books
  <2> QED BY <2>1, <2>3, <2>5
<1> QED BY <1>3, <1>4, <1>5, <1>6, KindMoves

\* The write that changes the memory.
Adds(r, k) == WritesIt(r, k) /\ Mark(r, req[r].todo[k], req[r].text) \notin req[r].text

LEMMA MemoryIs ==
    ASSUME NEW r, Kind(r)
    PROVE  (node' = node /\ wrote' = wrote) \/ \E k \in First(r) : Adds(r, k)
BY DEF Kind, Rests, Starts, Copies, Skips, Takes, WritesIt, Ends, Fails, Reads, Passes, Books, Turned, Tells, Adds, Still

LEMMA AddsIs ==
    ASSUME Shape, NEW r \in Requests, NEW k, Adds(r, k)
    PROVE  LET n == req[r].at
               m == Mark(r, req[r].todo[k], req[r].text)
           IN  /\ req[r].pc = "write" /\ req'[r].pc = "item" /\ n \in Nodes
               /\ node' = [node EXCEPT ![n] = req[r].text \cup {m}]
               /\ node'[n] = req[r].text \cup {m}
               /\ \A o \in Nodes : o # n => node'[o] = node[o]
               /\ wrote' = wrote \cup {<<r, n>>}
               /\ \A q \in Requests \ {r} : req[q].pc \notin Waiting => n \in req'[q].others
               /\ m[1] = req[r].pkg.run /\ m[2] = req[r].todo[k].id
               /\ Moves(r) /\ Aside(r) /\ UNCHANGED <<registry, inbox, raced>>
<1> DEFINE n == req[r].at
           m == Mark(r, req[r].todo[k], req[r].text)
<1>1. /\ req[r].pc = "write" /\ req'[r].pc = "item" /\ n \in Nodes
      /\ node' = [node EXCEPT ![n] = req[r].text \cup {m}] /\ wrote' = wrote \cup {<<r, n>>}
      /\ \A q \in Requests \ {r} : req[q].pc \notin Waiting => n \in req'[q].others
      /\ Moves(r) /\ Aside(r) /\ UNCHANGED <<registry, inbox, raced>>
  BY DEF Adds, WritesIt
<1>2. m[1] = req[r].pkg.run /\ m[2] = req[r].todo[k].id
  BY DEF Mark
<1>3. DOMAIN node = Nodes
  BY DEF Shape
<1> HIDE DEF n, m
<1>4. node'[n] = req[r].text \cup {m} /\ \A o \in Nodes : o # n => node'[o] = node[o]
  BY <1>1, <1>3
<1> QED BY <1>1, <1>2, <1>4 DEF n, m

LEMMA BegunIs ==
    ASSUME NEW r \in Requests, Kind(r)
    PROVE  /\ \A q \in Requests \ {r} : q \in Begun' <=> q \in Begun
           /\ r \in Begun => r \in Begun' /\ Moves(r)
           /\ (r \in Begun' /\ r \notin Begun) => Copies(r)
           /\ Begun \subseteq Begun'
<1>1. \A q \in Requests \ {r} : q \in Begun' <=> q \in Begun
  BY KindAside, AsideIs DEF Begun
<1>2. r \in Begun => Moves(r)
  <2>1. Copies(r) => r \notin Begun
    BY DEF Copies, Begun
  <2> QED BY <2>1, KindMoves DEF Rests, Starts
<1>3. (r \in Begun' /\ r \notin Begun) => Copies(r)
  <2>1. Rests(r) => req'[r].pc \in Waiting
    BY DEF Rests, Idle, Shown, Drafted, Waiting
  <2>2. Starts(r) => req'[r].pc = "backup"
    BY DEF Starts, Fresh
  <2>3. Rests(r) \/ Starts(r) => r \notin Begun'
    BY <2>1, <2>2 DEF Begun
  <2> QED BY <2>3, KindMoves DEF Moves
<1>4. r \in Begun => r \in Begun'
  BY <1>2 DEF Moves
<1>5. Begun \subseteq Requests
  BY DEF Begun
<1> QED BY <1>1, <1>2, <1>3, <1>4, <1>5

LEMMA ChoosingKept ==
    ASSUME NEW q, req'[q].todo = req[q].todo, req'[q].choice = req[q].choice, req'[q].at = req[q].at, Choosing(q)
    PROVE  Choosing(q)'
BY DEF Choosing, First

LEMMA UpdatingStep ==
    ASSUME Shape, Updating, NEW r \in Requests, Kind(r)
    PROVE  Updating'
<1>1. Aside(r)
  BY KindAside
<1>2. ASSUME NEW q \in Requests, NEW n \in Nodes, <<q, n>> \in wrote' PROVE q \in Begun'
  <2>1. CASE <<q, n>> \in wrote
    BY <2>1, BegunIs DEF Updating
  <2>2. CASE <<q, n>> \notin wrote
    <3>1. PICK k \in First(r) : Adds(r, k)
      BY <1>2, <2>2, MemoryIs
    <3>2. q = r
      BY <1>2, <2>2, <3>1, AddsIs
    <3> QED BY <3>1, <3>2, AddsIs DEF Moves
  <2> QED BY <2>1, <2>2
<1>3. ASSUME NEW n \in Nodes, node[n] # {} PROVE node'[n] # {}
  <2>1. CASE node' = node
    BY <1>3, <2>1
  <2>2. ASSUME NEW k \in First(r), Adds(r, k) PROVE node'[n] # {}
    BY <1>3, <2>2, AddsIs
  <2> QED BY <2>1, <2>2, MemoryIs
<1>4. ASSUME NEW q \in Begun', NEW n \in Nodes, req'[q].backup[n] # {} PROVE node'[n] # {}
  <2>0. q \in Requests
    BY DEF Begun
  <2>1. CASE q # r
    <3>1. q \in Begun /\ req'[q].backup = req[q].backup
      BY <1>1, <2>0, <2>1, AsideIs, BegunIs
    <3> QED BY <1>3, <1>4, <3>1 DEF Updating
  <2>2. CASE q = r /\ r \in Begun
    <3>1. req'[r].backup = req[r].backup
      BY <2>2, BegunIs DEF Moves
    <3> QED BY <1>3, <1>4, <2>2, <3>1 DEF Updating
  <2>3. CASE q = r /\ r \notin Begun
    <3>1. Copies(r)
      BY <2>3, BegunIs
    <3> QED BY <1>3, <1>4, <2>3, <3>1 DEF Copies
  <2> QED BY <2>1, <2>2, <2>3
<1>5. ASSUME NEW q \in Begun', req'[q].pc = "write", req'[q].backup[req'[q].at] # {} PROVE Choosing(q)'
  <2>0. q \in Requests
    BY DEF Begun
  <2>1. CASE q # r
    <3>1. q \in Begun /\ req'[q].backup = req[q].backup /\ req'[q].at = req[q].at /\ req'[q].pc = req[q].pc
          /\ req'[q].todo = req[q].todo /\ req'[q].choice = req[q].choice
      BY <1>1, <2>0, <2>1, AsideIs, BegunIs
    <3>2. Choosing(q)
      BY <1>5, <3>1 DEF Updating
    <3> QED BY <3>1, <3>2, ChoosingKept
  <2>2. CASE q = r
    <3>1. Takes(r)
      <4>1. \/ req'[r].pc # "write" \/ Takes(r)
        BY DEF Kind, Rests, Idle, Shown, Drafted, Starts, Fresh, Copies, Skips, WritesIt, Ends, Fails, Reads,
               Passes, Books, Turned, Tells
      <4> QED BY <1>5, <2>2, <4>1
    <3>2. r \in Begun /\ req'[r].backup = req[r].backup /\ req'[r].at \in Nodes
      BY <3>1 DEF Takes, Moves
    <3>3. node[req'[r].at] # {}
      BY <1>5, <2>2, <3>2 DEF Updating
    <3> QED BY <2>2, <3>1, <3>3 DEF Takes
  <2> QED BY <2>1, <2>2
<1> QED BY <1>2, <1>4, <1>5 DEF Updating

\* Only the write of an item adds to what was written.
LEMMA OnlyUpdatedStep ==
    ASSUME Shape, Unasked, Updating, OnlyUpdatedByChoice, NEW r \in Requests, Kind(r)
    PROVE  OnlyUpdatedByChoice'
<1>1. SUFFICES ASSUME NEW q \in Begun', NEW n \in Nodes, <<q, n>> \in wrote', req'[q].backup[n] # {}
               PROVE  \E c \in Candidates(req'[q].pkg) :
                         c.title = n[1] /\ c.id \in DOMAIN req'[q].choice /\ req'[q].choice[c.id] = "update_existing"
  BY DEF OnlyUpdatedByChoice
<1>2. q \in Requests /\ Aside(r)
  BY KindAside DEF Begun
<1>3. q \in Begun /\ req'[q].backup = req[q].backup /\ req'[q].choice = req[q].choice /\ req'[q].pkg = req[q].pkg
  <2>1. CASE q # r
    BY <1>2, <2>1, AsideIs, BegunIs
  <2>2. CASE q = r /\ r \in Begun
    BY <2>2, BegunIs DEF Moves
  <2>3. CASE q = r /\ r \notin Begun
    <3>1. Copies(r)
      BY <2>3, BegunIs
    <3>2. wrote' = wrote
      BY <3>1 DEF Copies, Still
    <3>3. r \in Begun
      BY <1>1, <2>3, <3>2 DEF Updating
    <3> QED BY <2>3, <3>3
  <2> QED BY <2>1, <2>2, <2>3
<1>4. CASE <<q, n>> \in wrote
  BY <1>1, <1>3, <1>4 DEF OnlyUpdatedByChoice
<1>5. CASE <<q, n>> \notin wrote
  <2>1. PICK k \in First(r) : Adds(r, k)
    BY <1>1, <1>5, MemoryIs
  <2>2. q = r /\ n = req[r].at /\ req[r].pc = "write"
    BY <1>1, <1>5, <2>1, AddsIs
  <2>3. Choosing(r)
    BY <1>1, <1>3, <2>2 DEF Updating
  <2>4. k \in DOMAIN req[r].todo /\ req[r].pc \notin Waiting
    BY <2>2 DEF First, Least, Waiting
  <2>5. PICK c \in Candidates(req[r].pkg) : c.id = req[r].todo[k].id /\ c.title = req[r].todo[k].title
    BY <2>4 DEF Unasked, Working, Asked, Stands
  <2>6. c.title = n[1] /\ c.id \in DOMAIN req[r].choice /\ req[r].choice[c.id] = "update_existing"
    BY <2>2, <2>3, <2>5 DEF Choosing
  <2> QED BY <1>3, <2>2, <2>6
<1> QED BY <1>4, <1>5

-----------------------------------------------------------------------------
(* Backups.                                                                 *)

LEMMA InStepStep ==
    ASSUME Shape, Unasked, InStep, NEW r \in Requests, Kind(r)
    PROVE  InStep'
<1>1. SUFFICES ASSUME NEW q \in Begun', req'[q].pc = "write", req'[q].at \notin req'[q].others
               PROVE  req'[q].text = node'[req'[q].at]
  BY DEF InStep
<1>2. q \in Requests /\ Aside(r)
  BY KindAside DEF Begun
<1>3. CASE q # r
  <2>1. /\ q \in Begun /\ req[q].pc = "write" /\ req'[q].text = req[q].text /\ req'[q].at = req[q].at
        /\ req[q].at \notin req[q].others
    BY <1>1, <1>2, <1>3, AsideIs, BegunIs
  <2>2. req[q].text = node[req[q].at]
    BY <2>1 DEF InStep
  <2>3. CASE node' = node
    BY <2>1, <2>2, <2>3
  <2>4. ASSUME NEW k \in First(r), Adds(r, k) PROVE node'[req[q].at] = node[req[q].at]
    <3>1. req[r].at \in req'[q].others
      BY <1>2, <1>3, <2>1, <2>4, AddsIs DEF Waiting
    <3>2. req[q].at # req[r].at
      BY <1>1, <2>1, <3>1
    <3>3. req[q].at \in Nodes
      BY <1>2, <2>1 DEF Unasked, Working, Whole, Waiting
    <3> QED BY <2>4, <3>2, <3>3, AddsIs
  <2> QED BY <2>1, <2>2, <2>3, <2>4, MemoryIs
<1>4. CASE q = r
  <2>1. Takes(r)
    <3>1. \/ req'[r].pc # "write" \/ Takes(r)
      BY DEF Kind, Rests, Idle, Shown, Drafted, Starts, Fresh, Copies, Skips, WritesIt, Ends, Fails, Reads,
             Passes, Books, Turned, Tells
    <3> QED BY <1>1, <1>4, <3>1
  <2> QED BY <1>4, <2>1 DEF Takes, Still
<1> QED BY <1>3, <1>4

LEMMA BackupStep ==
    ASSUME Shape, InStep, Undone, NEW r \in Requests, Kind(r)
    PROVE  Undone'
<1>1. SUFFICES ASSUME NEW q \in Begun', NEW n \in Nodes \ req'[q].others
               PROVE  /\ req'[q].backup[n] \subseteq node'[n]
                      /\ \A m \in node'[n] \ req'[q].backup[n] : m[1] = req'[q].pkg.run
  BY DEF Undone
<1>2. q \in Requests /\ Aside(r)
  BY KindAside DEF Begun
<1>3. CASE q # r
  <2>1. /\ q \in Begun /\ req'[q].backup = req[q].backup /\ req'[q].pkg = req[q].pkg
        /\ n \notin req[q].others /\ req[q].pc \notin Waiting
    BY <1>1, <1>2, <1>3, AsideIs, BegunIs DEF Begun
  <2>2. node'[n] = node[n]
    <3>1. ASSUME NEW k \in First(r), Adds(r, k) PROVE node'[n] = node[n]
      <4>1. n # req[r].at
        BY <1>1, <1>2, <1>3, <2>1, <3>1, AddsIs
      <4> QED BY <3>1, <4>1, AddsIs
    <3> QED BY <3>1, MemoryIs
  <2> QED BY <2>1, <2>2 DEF Undone
<1>4. CASE q = r /\ r \notin Begun
  <2>1. Copies(r)
    BY <1>4, BegunIs
  <2> QED BY <1>4, <2>1 DEF Copies, Still
<1>5. CASE q = r /\ r \in Begun
  <2>1. req'[r].backup = req[r].backup /\ req'[r].pkg = req[r].pkg /\ n \notin req[r].others
    BY <1>1, <1>5, BegunIs DEF Moves
  <2>2. /\ req[r].backup[n] \subseteq node[n]
        /\ \A m \in node[n] \ req[r].backup[n] : m[1] = req[r].pkg.run
    BY <1>5, <2>1 DEF Undone
  <2>3. CASE node'[n] = node[n]
    BY <1>5, <2>1, <2>2, <2>3
  <2>4. CASE node'[n] # node[n]
    <3>1. PICK k \in First(r) : Adds(r, k)
      BY <2>4, MemoryIs
    <3>2. n = req[r].at /\ req[r].pc = "write"
      BY <2>4, <3>1, AddsIs
    <3>3. req[r].text = node[n]
      BY <1>5, <2>1, <3>2 DEF InStep
    <3>4. PICK m : node'[n] = node[n] \cup {m} /\ m[1] = req[r].pkg.run
      BY <3>1, <3>2, <3>3, AddsIs
    <3> QED BY <1>5, <2>1, <2>2, <3>4
  <2> QED BY <2>3, <2>4
<1> QED BY <1>3, <1>4, <1>5

\* What a node no other request wrote held goes on being there.
LEMMA NodeGrows ==
    ASSUME Shape, Unasked, InStep, NEW r \in Requests, Kind(r)
    PROVE  /\ \A n \in Nodes : node[n] # {} => node'[n] # {}
           /\ \A q \in Begun : \A n \in Nodes \ req'[q].others : node[n] \subseteq node'[n]
<1>1. CASE node' = node
  BY <1>1
<1>2. ASSUME NEW k \in First(r), Adds(r, k) PROVE \A n \in Nodes : node[n] # {} => node'[n] # {}
  BY <1>2, AddsIs
<1>3. ASSUME NEW k \in First(r), Adds(r, k), NEW q \in Begun, NEW n \in Nodes \ req'[q].others
      PROVE  node[n] \subseteq node'[n]
  <2>1. CASE n # req[r].at
    BY <1>3, <2>1, AddsIs
  <2>2. CASE n = req[r].at /\ q # r
    BY <1>3, <2>2, AddsIs DEF Begun
  <2>3. CASE n = req[r].at /\ q = r
    <3>1. req[r].pc = "write" /\ req'[r].others = req[r].others
      BY <1>3, AddsIs DEF Moves
    <3>2. req[r].text = node[n]
      BY <1>3, <2>3, <3>1 DEF InStep
    <3> QED BY <1>3, <2>3, <3>2, AddsIs
  <2> QED BY <2>1, <2>2, <2>3
<1> QED BY <1>1, <1>2, <1>3, MemoryIs

\* What a step keeps of a request that has its backup.
LEMMA BegunHas ==
    ASSUME NEW r \in Requests, Kind(r), NEW q \in Begun
    PROVE  /\ q \in Begun' /\ req'[q].backup = req[q].backup /\ req'[q].pkg = req[q].pkg
           /\ req[q].others \subseteq req'[q].others
<1>1. q \in Requests
  BY DEF Begun
<1>2. CASE q = r
  BY <1>2, BegunIs DEF Moves
<1>3. CASE q # r
  BY <1>1, <1>3, KindAside, AsideIs, BegunIs
<1> QED BY <1>2, <1>3

LEMMA SavedKept ==
    ASSUME Shape, Unasked, InStep, Saved, UNCHANGED saved, NEW r \in Requests, Kind(r), req[r].pc # "backup"
    PROVE  Saved'
<1>1. Begun' = Begun
  <2>1. r \in Begun' => r \in Begun
    BY BegunIs DEF Copies
  <2>2. Begun' \subseteq Requests /\ Begun \subseteq Requests
    BY DEF Begun
  <2> QED BY <2>1, <2>2, BegunIs
<1>2. UNCHANGED <<folder, copies, current, overlaid>>
  BY DEF saved
<1>3. \A q \in Begun : req'[q].backup = req[q].backup /\ req'[q].pkg = req[q].pkg /\ req[q].others \subseteq req'[q].others
  BY BegunHas
<1>4. ASSUME NEW q \in Begun', NEW n \in Nodes \ req'[q].others PROVE Held(q, n)'
  <2>1. q \in Begun /\ n \in Nodes \ req[q].others
    BY <1>1, <1>3, <1>4
  <2>2. Held(q, n) /\ node[n] \subseteq node'[n]
    BY <1>4, <2>1, NodeGrows DEF Saved
  <2> QED BY <1>2, <1>3, <2>1, <2>2 DEF Held
<1>5. \A q \in Begun' : folder'[q] \in Begun' /\ req'[folder'[q]].pkg = req'[q].pkg
  BY <1>1, <1>2, <1>3 DEF Saved
<1>6. \A f \in Requests, n \in Nodes : copies'[f][n] # {} => node'[n] # {}
  BY <1>2, NodeGrows DEF Saved
<1> QED BY <1>1, <1>2, <1>4, <1>5, <1>6 DEF Saved

\* What a copy makes of the folders.
LEMMA CopyIs ==
    ASSUME Shape, Undone, Saved, NEW r \in Requests, r \notin Begun, NEW f \in {r} \cup Shared(r),
           NEW files \in SUBSET There, CopyInto(r, f, files), UNCHANGED node
    PROVE  /\ f \in Requests /\ current' \subseteq Begun \cup {f} /\ overlaid \subseteq overlaid'
           /\ copies' \in [Requests -> [Nodes -> SUBSET Marks]]
           /\ \A n \in Nodes : copies'[f][n] = IF n \in files THEN node[n] ELSE copies[f][n]
           /\ \A g \in Requests \ {f} : copies'[g] = copies[g]
           /\ \A g \in Requests, n \in Nodes : copies'[g][n] # {} => node[n] # {}
           /\ \A q \in Begun : \A n \in Nodes \ req[q].others :
                LET kept == copies'[folder[q]][n]
                IN  /\ req[q].backup[n] \subseteq kept /\ kept \subseteq node[n]
                    /\ kept = req[q].backup[n] \/ q \in overlaid'
<1>1. f \in Requests /\ Shared(r) \subseteq Begun /\ current \subseteq Begun
  BY DEF Shared, Saved, Begun
<1> DEFINE new == [n \in Nodes |-> IF n \in files THEN node[n] ELSE copies[f][n]]
<1>2. copies' = [copies EXCEPT ![f] = new]
  BY DEF CopyInto
<1>3. copies'[f] = new /\ \A g \in Requests \ {f} : copies'[g] = copies[g]
  BY <1>1, <1>2 DEF Saved
<1>4. new \in [Nodes -> SUBSET Marks]
  BY <1>1 DEF Shape, Saved
<1>5. copies' \in [Requests -> [Nodes -> SUBSET Marks]]
  <2> HIDE DEF new
  <2> QED BY <1>1, <1>2, <1>4 DEF Saved
<1>6. \A n \in Nodes : copies'[f][n] = IF n \in files THEN node[n] ELSE copies[f][n]
  BY <1>3
<1> HIDE DEF new
<1>7. \A g \in Requests, n \in Nodes : copies'[g][n] # {} => node[n] # {}
  BY <1>1, <1>3, <1>6 DEF Saved, There
<1>8. current' \subseteq Begun \cup {f} /\ overlaid' = overlaid \cup {q \in Begun : folder[q] = f /\ req[q].pkg = req[r].pkg}
  BY <1>1 DEF CopyInto
<1>9. ASSUME NEW q \in Begun, NEW n \in Nodes \ req[q].others
      PROVE  /\ req[q].backup[n] \subseteq copies'[folder[q]][n] /\ copies'[folder[q]][n] \subseteq node[n]
             /\ copies'[folder[q]][n] = req[q].backup[n] \/ q \in overlaid'
  <2>1. /\ folder[q] \in Begun /\ req[folder[q]].pkg = req[q].pkg /\ Held(q, n)
        /\ req[q].backup[n] \subseteq node[n] /\ folder[q] \in Requests
    BY <1>9 DEF Saved, Undone, Begun
  <2>2. CASE folder[q] # f
    BY <1>3, <1>8, <2>1, <2>2 DEF Held
  <2>3. CASE folder[q] = f
    <3>1. f \in Shared(r)
      BY <2>1, <2>3
    <3>2. q \in overlaid'
      BY <1>8, <2>1, <2>3, <3>1 DEF Shared
    <3> QED BY <1>6, <2>1, <2>3, <3>2 DEF Held
  <2> QED BY <2>2, <2>3
<1> QED BY <1>1, <1>3, <1>5, <1>6, <1>7, <1>8, <1>9

LEMMA SavedBackup ==
    ASSUME Shape, Unasked, Undone, Saved, NEW r \in Requests, Backup(r)
    PROVE  Saved'
<1>1. Copies(r) /\ Kind(r) /\ r \notin Begun
  BY BackupKind DEF Kind, Copies, Begun
<1>2. PICK f \in {r} \cup Shared(r) : CopyInto(r, f, There) /\ folder' = [folder EXCEPT ![r] = f]
  BY DEF Backup
<1>3. UNCHANGED node
  BY DEF Backup
<1>4. /\ f \in Requests /\ current' \subseteq Begun \cup {f} /\ overlaid \subseteq overlaid'
      /\ copies' \in [Requests -> [Nodes -> SUBSET Marks]]
      /\ \A n \in Nodes : copies'[f][n] = IF n \in There THEN node[n] ELSE copies[f][n]
      /\ \A g \in Requests, n \in Nodes : copies'[g][n] # {} => node[n] # {}
      /\ \A q \in Begun : \A n \in Nodes \ req[q].others :
           LET kept == copies'[folder[q]][n]
           IN  /\ req[q].backup[n] \subseteq kept /\ kept \subseteq node[n]
               /\ kept = req[q].backup[n] \/ q \in overlaid'
  <2>1. There \in SUBSET There
    OBVIOUS
  <2> QED BY <1>1, <1>2, <1>3, <2>1, CopyIs
<1>5. folder'[r] = f /\ folder' \in [Requests -> Requests] /\ \A q \in Requests \ {r} : folder'[q] = folder[q]
  BY <1>2, <1>4 DEF Saved
<1>6. r \in Begun' /\ Begun' = Begun \cup {r} /\ Begun \subseteq Requests
  <2>1. Begun' \subseteq Requests /\ Begun \subseteq Requests
    BY DEF Begun
  <2>2. r \in Begun'
    BY <1>1 DEF Copies, Begun, Waiting
  <2> QED BY <1>1, <2>1, <2>2, BegunIs
<1>7. \A q \in Begun : req'[q].backup = req[q].backup /\ req'[q].pkg = req[q].pkg /\ req[q].others \subseteq req'[q].others
  BY <1>1, BegunHas
<1>8. f \in Begun' /\ req'[f].pkg = req'[r].pkg
  BY <1>1, <1>2, <1>6, <1>7 DEF Shared, Saved, Copies
<1>9. \A q \in Begun' : folder'[q] \in Begun' /\ req'[folder'[q]].pkg = req'[q].pkg
  <2>1. ASSUME NEW q \in Begun PROVE folder'[q] \in Begun' /\ req'[folder'[q]].pkg = req'[q].pkg
    <3>1. folder'[q] = folder[q] /\ folder[q] \in Begun /\ req[folder[q]].pkg = req[q].pkg
      BY <1>1, <1>5, <1>6 DEF Saved
    <3> QED BY <1>6, <1>7, <3>1
  <2> QED BY <1>5, <1>6, <1>8, <2>1
<1>10. ASSUME NEW q \in Begun', NEW n \in Nodes \ req'[q].others PROVE Held(q, n)'
  <2>1. CASE q = r
    <3>1. copies'[f][n] = node[n]
      <4>1. CASE n \in There
        BY <1>4, <1>10, <4>1
      <4>2. CASE n \notin There
        <5>1. node[n] = {}
          BY <1>10, <4>2 DEF There
        <5>2. copies'[f][n] = {}
          BY <1>4, <1>10, <5>1
        <5> QED BY <5>1, <5>2
      <4> QED BY <4>1, <4>2
    <3>2. req'[r].backup = node /\ node' = node
      BY <1>1, <1>3 DEF Copies
    <3> QED BY <1>5, <2>1, <3>1, <3>2 DEF Held
  <2>2. CASE q # r
    <3>1. q \in Begun /\ n \in Nodes \ req[q].others /\ folder'[q] = folder[q]
      BY <1>5, <1>6, <1>7, <1>10, <2>2
    <3> QED BY <1>3, <1>4, <1>7, <3>1 DEF Held
  <2> QED BY <2>1, <2>2
<1>11. current' \subseteq Begun'
  BY <1>4, <1>6, <1>8
<1>12. \A g \in Requests, n \in Nodes : copies'[g][n] # {} => node'[n] # {}
  BY <1>3, <1>4
<1> QED BY <1>4, <1>5, <1>9, <1>10, <1>11, <1>12 DEF Saved

LEMMA SavedRaise ==
    ASSUME Shape, Unasked, InStep, Undone, Saved, NEW r \in Requests, Raise(r), req[r].pc = "backup"
    PROVE  Saved'
<1>1. Kind(r) /\ r \notin Begun /\ UNCHANGED node /\ req'[r].pc # "item" /\ UNCHANGED folder
  <2>1. req' = [req EXCEPT ![r] = Idle]
    BY DEF Raise, Set
  <2>2. req'[r] = Idle
    BY <2>1, Put
  <2>3. req'[r].pc = "idle"
    BY <2>2 DEF Idle
  <2> QED BY <2>3, RaiseKind DEF Kind, Begun, Raise, saved
<1>2. Begun' = Begun /\ Begun \subseteq Requests
  <2>1. Begun' \subseteq Requests /\ Begun \subseteq Requests
    BY DEF Begun
  <2>2. r \notin Begun'
    BY <1>1, BegunIs DEF Copies
  <2> QED BY <1>1, <2>1, <2>2, BegunIs
<1>3. \A q \in Begun : req'[q].backup = req[q].backup /\ req'[q].pkg = req[q].pkg /\ req[q].others \subseteq req'[q].others
  BY <1>1, BegunHas
<1>4. \A q \in Begun' : folder'[q] \in Begun' /\ req'[folder'[q]].pkg = req'[q].pkg
  BY <1>1, <1>2, <1>3 DEF Saved
<1>5. CASE UNCHANGED saved
  <2>1. UNCHANGED <<folder, copies, current, overlaid>>
    BY <1>5 DEF saved
  <2>2. ASSUME NEW q \in Begun', NEW n \in Nodes \ req'[q].others PROVE Held(q, n)'
    <3>1. q \in Begun /\ n \in Nodes \ req[q].others
      BY <1>2, <1>3, <2>2
    <3>2. Held(q, n)
      BY <3>1 DEF Saved
    <3> QED BY <1>1, <1>3, <2>1, <3>1, <3>2 DEF Held
  <2> QED BY <1>1, <1>2, <1>4, <2>1, <2>2 DEF Saved
<1>6. ASSUME NEW f \in Shared(r), NEW files \in SUBSET There, CopyInto(r, f, files) PROVE Saved'
  <2>1. f \in {r} \cup Shared(r) /\ f \in Begun
    BY <1>6 DEF Shared, Saved
  <2>2. /\ current' \subseteq Begun \cup {f} /\ copies' \in [Requests -> [Nodes -> SUBSET Marks]]
        /\ \A g \in Requests, n \in Nodes : copies'[g][n] # {} => node[n] # {}
        /\ \A q \in Begun : \A n \in Nodes \ req[q].others :
             LET kept == copies'[folder[q]][n]
             IN  /\ req[q].backup[n] \subseteq kept /\ kept \subseteq node[n]
                 /\ kept = req[q].backup[n] \/ q \in overlaid'
    BY <1>1, <1>6, <2>1, CopyIs
  <2>3. ASSUME NEW q \in Begun', NEW n \in Nodes \ req'[q].others PROVE Held(q, n)'
    <3>1. q \in Begun /\ n \in Nodes \ req[q].others
      BY <1>2, <1>3, <2>3
    <3> QED BY <1>1, <1>3, <2>2, <3>1 DEF Held
  <2> QED BY <1>1, <1>2, <1>4, <2>1, <2>2, <2>3 DEF Saved
<1> QED BY <1>5, <1>6 DEF Raise

LEMMA SavedStep ==
    ASSUME Shape, Unasked, InStep, Undone, Saved, [Next]_vars
    PROVE  Saved'
<1>1. CASE UNCHANGED saved /\ Quietly
  <2>1. UNCHANGED <<req, node, folder, copies, current, overlaid>>
    BY <1>1 DEF Quietly, saved
  <2> QED BY <2>1 DEF Saved, Held, Begun
<1> QED BY <1>1, SavedKind, SavedKept, SavedBackup, SavedRaise

-----------------------------------------------------------------------------
(* Where marks come from, and what the inbox says of it.                    *)

LEMMA BegunKeep ==
    ASSUME Shape, NEW r \in Requests, Kind(r)
    PROVE  /\ wrote \subseteq wrote'
           /\ \A q \in Begun : /\ q \in Begun' /\ q \in Requests
                               /\ req'[q].pkg = req[q].pkg /\ req'[q].choice = req[q].choice
<1>1. wrote \subseteq wrote'
  BY MemoryIs, AddsIs
<1>2. ASSUME NEW q \in Begun PROVE /\ q \in Begun' /\ q \in Requests
                                   /\ req'[q].pkg = req[q].pkg /\ req'[q].choice = req[q].choice
  <2>1. q \in Requests /\ q \in Begun'
    BY BegunIs DEF Begun
  <2>2. CASE q = r
    BY <2>1, <2>2, BegunIs DEF Moves
  <2>3. CASE q # r
    BY <2>1, <2>3, KindAside, AsideIs
  <2> QED BY <2>1, <2>2, <2>3
<1> QED BY <1>1, <1>2

\* The same, after the step.
Soon(n, m) == m = Old \/ \E r \in Begun' : m[1] = req'[r].pkg.run /\ <<r, n>> \in wrote'

LEMMA KnownKept ==
    ASSUME Shape, NEW r \in Requests, Kind(r), NEW n, NEW m, Known(n, m)
    PROVE  Soon(n, m)
<1>1. CASE m = Old
  BY <1>1 DEF Soon
<1>2. CASE \E q \in Begun : m[1] = req[q].pkg.run /\ <<q, n>> \in wrote
  <2>1. PICK q \in Begun : m[1] = req[q].pkg.run /\ <<q, n>> \in wrote
    BY <1>2
  <2>2. q \in Begun' /\ req'[q].pkg = req[q].pkg /\ <<q, n>> \in wrote'
    BY <2>1, BegunKeep
  <2> QED BY <2>1, <2>2 DEF Soon
<1> QED BY <1>1, <1>2 DEF Known, Soon

\* The mark of an item the request writes is known where it writes it.
LEMMA AddsKnown ==
    ASSUME Shape, NEW r \in Requests, Kind(r), NEW k, Adds(r, k)
    PROVE  /\ <<r, req[r].at>> \in wrote'
           /\ Soon(req[r].at, Mark(r, req[r].todo[k], req[r].text))
<1> DEFINE m == Mark(r, req[r].todo[k], req[r].text)
<1>1. <<r, req[r].at>> \in wrote' /\ m[1] = req[r].pkg.run /\ Moves(r)
  BY AddsIs
<1>2. r \in Begun' /\ req'[r].pkg = req[r].pkg
  BY <1>1 DEF Moves
<1> HIDE DEF m
<1> QED BY <1>1, <1>2 DEF Soon, m

LEMMA OriginsStep ==
    ASSUME Shape, Unasked, Origins, Shape', Unasked', NEW r \in Requests, Kind(r)
    PROVE  Origins'
<1>1. Aside(r)
  BY KindAside
<1>2. ASSUME NEW n \in Nodes, NEW m \in node'[n] PROVE Soon(n, m)
  <2>1. CASE m \in node[n]
    BY <2>1, KnownKept DEF Origins
  <2>2. CASE m \notin node[n]
    <3>1. PICK k \in First(r) : Adds(r, k)
      BY <1>2, <2>2, MemoryIs
    <3>2. n = req[r].at /\ node'[n] = req[r].text \cup {Mark(r, req[r].todo[k], req[r].text)} /\ req[r].pc = "write"
      BY <1>2, <2>2, <3>1, AddsIs
    <3>3. CASE m \in req[r].text
      <4>1. r \in Running
        BY <3>2 DEF Running
      <4>2. Known(n, m)
        BY <3>2, <3>3, <4>1 DEF Origins
      <4> QED BY <4>2, KnownKept
    <3>4. CASE m = Mark(r, req[r].todo[k], req[r].text)
      BY <3>1, <3>2, <3>4, AddsKnown
    <3> QED BY <1>2, <3>2, <3>3, <3>4
  <2> QED BY <2>1, <2>2
<1>3. ASSUME NEW q \in Running', req'[q].pc = "write", NEW m \in req'[q].text PROVE Soon(req'[q].at, m)
  <2>0. q \in Requests
    BY DEF Running
  <2>1. CASE q # r
    <3>1. req[q].pc = "write" /\ req'[q].text = req[q].text /\ req'[q].at = req[q].at
      BY <1>1, <1>3, <2>0, <2>1, AsideIs
    <3>2. Known(req[q].at, m)
      BY <1>3, <2>0, <3>1 DEF Origins, Running
    <3>3. Soon(req[q].at, m)
      BY <3>2, KnownKept
    <3> QED BY <3>1, <3>3
  <2>2. CASE q = r
    <3>1. Takes(r)
      <4>1. \/ req'[r].pc # "write" \/ Takes(r)
        BY DEF Kind, Rests, Idle, Shown, Drafted, Starts, Fresh, Copies, Skips, WritesIt, Ends, Fails, Reads,
               Passes, Books, Turned, Tells
      <4> QED BY <1>3, <2>2, <4>1
    <3>2. req'[r].at \in Nodes /\ node' = node /\ req'[r].text = node'[req'[r].at]
      BY <3>1 DEF Takes, Still
    <3> QED BY <1>2, <1>3, <2>2, <3>2
  <2> QED BY <2>1, <2>2
<1>4. ASSUME NEW q \in Begun', req'[q].applied # {}
      PROVE  \E o \in Begun', n \in Nodes : req'[o].pkg = req'[q].pkg /\ <<o, n>> \in wrote'
  <2>0. q \in Requests
    BY DEF Begun
  <2>1. ASSUME q \in Begun, req[q].applied # {}
        PROVE  \E o \in Begun', n \in Nodes : req'[o].pkg = req'[q].pkg /\ <<o, n>> \in wrote'
    <3>1. PICK o \in Begun, n \in Nodes : req[o].pkg = req[q].pkg /\ <<o, n>> \in wrote
      BY <2>1 DEF Origins
    <3>2. /\ o \in Begun' /\ req'[o].pkg = req[o].pkg /\ req'[q].pkg = req[q].pkg /\ <<o, n>> \in wrote'
      BY <2>1, <3>1, BegunKeep
    <3> QED BY <3>1, <3>2
  <2>2. CASE q # r
    <3>1. q \in Begun /\ req'[q].applied = req[q].applied
      BY <1>1, <2>0, <2>2, AsideIs, BegunIs
    <3> QED BY <1>4, <2>1, <3>1
  <2>3. CASE q = r /\ req[r].applied # {} /\ r \in Begun
    BY <2>1, <2>3
  <2>4. CASE q = r /\ r \notin Begun
    <3>1. Copies(r) /\ req[r].applied # {} /\ req[r].pc = "backup"
      BY <1>4, <2>4, BegunIs DEF Copies
    <3>2. Whole(r)
      BY <3>1 DEF Unasked, Working, Waiting
    <3> QED BY <3>1, <3>2 DEF Whole
  <2>5. CASE q = r /\ req[r].applied = {} /\ r \in Begun
    <3>1. PICK k \in First(r) : WritesIt(r, k)
      <4>1. \/ req'[r].applied = req[r].applied \/ Rests(r) \/ Starts(r) \/ \E k \in First(r) : WritesIt(r, k)
        BY DEF Kind, Copies, Skips, Takes, Ends, Fails, Reads, Passes, Books, Turned, Tells, Same
      <4> QED BY <1>4, <2>5, <4>1 DEF Rests, Starts
    <3> DEFINE n == req[r].at
               m == Mark(r, req[r].todo[k], req[r].text)
    <3>2. r \in Begun' /\ n \in Nodes /\ req[r].pc = "write" /\ req'[r].pkg = req[r].pkg
      BY <3>1 DEF WritesIt, Moves
    <3>3. CASE m \notin req[r].text
      <4>1. <<r, n>> \in wrote'
        BY <3>1, <3>3, AddsKnown DEF Adds
      <4> QED BY <2>5, <3>2, <4>1
    <3>4. CASE m \in req[r].text
      <4>1. Known(n, m)
        BY <3>2, <3>4 DEF Origins, Running
      <4>2. m[1] = req[r].pkg.run
        BY DEF Mark
      <4>3. req[r].pkg \in Packages
        BY <2>5, <3>1 DEF WritesIt, Moves, Work
      <4>4. m[1] # Old[1]
        BY <4>2, <4>3, RunsName
      <4> HIDE DEF m
      <4>5. PICK o \in Begun : m[1] = req[o].pkg.run /\ <<o, n>> \in wrote
        BY <4>1, <4>4 DEF Known
      <4>6. req[o].pkg \in Packages
        <5>1. o \in Requests /\ req[o].pc \notin Waiting
          BY DEF Begun
        <5> QED BY <5>1, IsWork DEF Work
      <4>7. req[o].pkg = req[r].pkg
        BY <4>2, <4>3, <4>5, <4>6, RunsName
      <4>8. o \in Begun' /\ req'[o].pkg = req[o].pkg /\ <<o, n>> \in wrote'
        BY <4>5, BegunKeep
      <4> QED BY <2>5, <3>2, <4>7, <4>8
    <3> QED BY <3>3, <3>4
  <2> QED BY <2>2, <2>3, <2>4, <2>5
<1>5. \A n \in Nodes : \A m \in node'[n] : Soon(n, m)
  BY <1>2
<1>6. \A q \in Running' : req'[q].pc = "write" => \A m \in req'[q].text : Soon(req'[q].at, m)
  BY <1>3
<1> QED BY <1>4, <1>5, <1>6 DEF Origins, Known, Soon

LEMMA InboxedKept ==
    ASSUME Shape, Inboxed, NEW r \in Requests, Kind(r), NEW s \in Sources, inbox'[s] = inbox[s]
    PROVE  /\ inbox'[s] = "indexed" => \E q \in Begun', n \in Nodes : req'[q].pkg.origin = s /\ <<q, n>> \in wrote'
           /\ inbox'[s] = "duplicate" =>
                \E q \in Begun' : req'[q].pkg.origin = s /\ "skip_duplicate" \in Range(req'[q].choice)
<1>1. CASE inbox[s] = "indexed"
  <2>1. PICK q \in Begun, n \in Nodes : req[q].pkg.origin = s /\ <<q, n>> \in wrote
    BY <1>1 DEF Inboxed
  <2>2. q \in Begun' /\ req'[q].pkg = req[q].pkg /\ <<q, n>> \in wrote'
    BY <2>1, BegunKeep
  <2> QED BY <1>1, <2>1, <2>2
<1>2. CASE inbox[s] = "duplicate"
  <2>1. PICK q \in Begun : req[q].pkg.origin = s /\ "skip_duplicate" \in Range(req[q].choice)
    BY <1>2 DEF Inboxed
  <2>2. q \in Begun' /\ req'[q].pkg = req[q].pkg /\ req'[q].choice = req[q].choice
    BY <2>1, BegunKeep
  <2> QED BY <1>2, <2>1, <2>2
<1> QED BY <1>1, <1>2

LEMMA InboxedStep ==
    ASSUME Shape, Inboxed, Origins, NEW r \in Requests, Kind(r)
    PROVE  Inboxed'
<1>1. SUFFICES ASSUME NEW s \in Sources
      PROVE  /\ inbox'[s] = "indexed" => \E q \in Begun', n \in Nodes : req'[q].pkg.origin = s /\ <<q, n>> \in wrote'
             /\ inbox'[s] = "duplicate" =>
                  \E q \in Begun' : req'[q].pkg.origin = s /\ "skip_duplicate" \in Range(req'[q].choice)
  BY DEF Inboxed
<1>2. CASE inbox'[s] = inbox[s]
  BY <1>2, InboxedKept
<1>3. CASE inbox'[s] # inbox[s]
  <2>1. Tells(r)
    BY <1>3 DEF Kind, Rests, Starts, Copies, Skips, Takes, WritesIt, Ends, Fails, Reads, Passes, Books, Turned, Still
  <2>2. r \in Begun /\ r \in Begun' /\ req'[r].pkg = req[r].pkg /\ req'[r].choice = req[r].choice
    BY <2>1 DEF Tells, Moves
  <2>3. DOMAIN inbox = Sources
    BY DEF Shape
  <2>4. CASE "skip_duplicate" \in Range(req[r].choice) /\ inbox' = [inbox EXCEPT ![req[r].pkg.origin] = "duplicate"]
    <3>1. s = req[r].pkg.origin /\ inbox'[s] = "duplicate"
      BY <1>3, <2>3, <2>4
    <3> QED BY <2>2, <2>4, <3>1
  <2>5. CASE req[r].applied # {} /\ inbox' = [inbox EXCEPT ![req[r].pkg.origin] = "indexed"]
    <3>1. s = req[r].pkg.origin /\ inbox'[s] = "indexed"
      BY <1>3, <2>3, <2>5
    <3>2. PICK q \in Begun, n \in Nodes : req[q].pkg = req[r].pkg /\ <<q, n>> \in wrote
      BY <2>2, <2>5 DEF Origins
    <3>3. q \in Begun' /\ req'[q].pkg = req[q].pkg /\ <<q, n>> \in wrote'
      BY <3>2, BegunKeep
    <3> QED BY <3>1, <3>2, <3>3
  <2> QED BY <1>3, <2>1, <2>4, <2>5 DEF Tells
<1> QED BY <1>2, <1>3

-----------------------------------------------------------------------------
(* What stays.                                                              *)

LEMMA RunningIs ==
    ASSUME NEW r \in Requests, Kind(r)
    PROVE  /\ \A q \in Requests \ {r} : (q \in Running' <=> q \in Running) /\ (q \in Applied' <=> q \in Applied)
           /\ r \in Running' => r \in Running \/ Starts(r)
           /\ r \in Applied' => Tells(r) /\ r \in Running
           /\ raced \subseteq raced' /\ (~Starts(r) => raced' = raced)
<1>1. \A q \in Requests \ {r} : (q \in Running' <=> q \in Running) /\ (q \in Applied' <=> q \in Applied)
  BY KindAside, AsideIs DEF Running, Applied
<1>2. r \in Running' => r \in Running \/ Starts(r)
  <2>1. Rests(r) => r \notin Running'
    BY DEF Rests, Idle, Shown, Drafted, Running
  <2>2. Copies(r) \/ Skips(r) \/ Takes(r) \/ Ends(r) \/ Reads(r) \/ Passes(r) \/ Books(r) \/ Tells(r) => r \in Running
    BY DEF Copies, Skips, Takes, Ends, Reads, Passes, Books, Tells, Running
  <2>3. (\E k \in First(r) : WritesIt(r, k)) \/ Fails(r) => r \in Running
    BY DEF WritesIt, Fails, Running
  <2> QED BY <2>1, <2>2, <2>3 DEF Kind
<1>3. r \in Applied' => Tells(r) /\ r \in Running
  <2>1. req'[r].pc = "done" => Tells(r)
    BY DEF Kind, Rests, Idle, Shown, Drafted, Starts, Fresh, Copies, Skips, Takes, WritesIt, Ends, Fails, Reads,
           Passes, Books, Turned
  <2>2. Tells(r) => r \in Running
    BY DEF Tells, Running
  <2> QED BY <2>1, <2>2 DEF Applied
<1>4. raced \subseteq raced' /\ (~Starts(r) => raced' = raced)
  BY DEF Kind, Rests, Starts, Copies, Skips, Takes, WritesIt, Ends, Fails, Reads, Passes, Books, Turned, Tells, Still
<1> QED BY <1>1, <1>2, <1>3, <1>4

LEMMA AloneStep == ASSUME Shape, Alone, NEW r \in Requests, Kind(r) PROVE Alone'
<1>1. SUFFICES ASSUME NEW q \in Running', NEW p \in Running', q # p PROVE p \in raced'
  BY DEF Alone
<1>2. q \in Requests /\ p \in Requests
  BY DEF Running
<1>3. CASE q \in Running /\ p \in Running
  BY <1>1, <1>3, RunningIs DEF Alone
<1>4. CASE q \notin Running \/ p \notin Running
  <2>1. Starts(r) /\ (q = r \/ p = r)
    BY <1>1, <1>2, <1>4, RunningIs
  <2>2. Running # {} /\ p \in Running \cup {r}
    BY <1>1, <1>2, <2>1, RunningIs
  <2> QED BY <2>1, <2>2 DEF Starts
<1> QED BY <1>3, <1>4

LEMMA EntryKept ==
    ASSUME NEW q, req'[q].pkg = req[q].pkg, req'[q].links = req[q].links
    PROVE  \A b \in 1 .. 3 : Entry(q, Registries[b])' = Entry(q, Registries[b])
BY DEF Entry

\* A request keeps what it has when the files keep it.
LEMMA ProgressKept ==
    ASSUME NEW q, req'[q].pc = req[q].pc, req'[q].pkg = req[q].pkg, req'[q].links = req[q].links,
           req'[q].applied = req[q].applied, req'[q].at = req[q].at, req'[q].text = req[q].text,
           req'[q].book = req[q].book, req[q].book \in 1 .. 3,
           \A a \in req[q].applied : \E m \in node'[a[1]] : m[1] = req[q].pkg.run /\ m[2] = a[2],
           \A b \in 1 .. 3 : Entry(q, Registries[b]) \subseteq registry[Registries[b]] =>
                               Entry(q, Registries[b]) \subseteq registry'[Registries[b]],
           req[q].pc = "write" => node'[req[q].at] = node[req[q].at],
           Progress(q)
    PROVE  Progress(q)'
<1>1. \A b \in 1 .. 3 : Entry(q, Registries[b])' = Entry(q, Registries[b])
  BY EntryKept
<1>2. \A b \in 1 .. req[q].book - 1 : b \in 1 .. 3
  OBVIOUS
<1>3. \A a \in req'[q].applied : Bears(node[a[1]], q, a)'
  BY DEF Bears
<1>4. req'[q].pc \in {"read", "append"} =>
        \A b \in 1 .. req'[q].book - 1 : Entry(q, Registries[b])' \subseteq registry'[Registries[b]]
  BY <1>1, <1>2 DEF Progress
<1>5. (req'[q].pc \in {"mark", "done"} /\ req'[q].applied # {}) =>
        \A b \in 1 .. 3 : Entry(q, Registries[b])' \subseteq registry'[Registries[b]]
  BY <1>1 DEF Progress
<1>6. req'[q].pc = "write" => req'[q].text = node'[req'[q].at]
  BY DEF Progress
<1> QED BY <1>3, <1>4, <1>5, <1>6 DEF Progress

LEMMA RespectsKept ==
    ASSUME Shape, NEW r \in Requests, Aside(r), NEW p \in Requests \ {r}, NEW q \in Requests \ {r}, Respects(p, q),
           req[p].pc \notin Waiting
    PROVE  Respects(p, q)'
<1>1. /\ req'[p].pc = req[p].pc /\ req'[p].at = req[p].at /\ req'[p].text = req[p].text /\ req'[p].book = req[p].book
      /\ req'[q].pkg = req[q].pkg /\ req'[q].links = req[q].links /\ req'[q].applied = req[q].applied
  BY AsideIs
<1>2. req[p].book \in 1 .. 3
  BY IsWork DEF Work
<1>3. \A b \in 1 .. 3 : Entry(q, Registries[b])' = Entry(q, Registries[b])
  BY <1>1, EntryKept
<1>4. req'[p].pc = "write" => \A a \in req'[q].applied : a[1] = req'[p].at => Bears(req[p].text, q, a)'
  BY <1>1 DEF Respects, Bears
<1>5. req'[p].pc = "append" => \A b \in {req'[p].book} : Entry(q, Registries[b])' \subseteq req'[p].text
  BY <1>1, <1>2, <1>3 DEF Respects
<1> QED BY <1>4, <1>5 DEF Respects

\* What a step does to the registries.
LEMMA RegistryIs ==
    ASSUME NEW r, Kind(r)
    PROVE  registry' = registry \/ Books(r)
BY DEF Kind, Rests, Starts, Copies, Skips, Takes, WritesIt, Ends, Fails, Reads, Passes, Tells, Still

LEMMA BooksIs ==
    ASSUME Shape, NEW r \in Requests, Books(r)
    PROVE  /\ r \in Running /\ req[r].book \in 1 .. 3 /\ req[r].pc = "append"
           /\ node' = node /\ raced' = raced
           /\ registry'[Registries[req[r].book]] = req[r].text \cup Entry(r, Registries[req[r].book])
           /\ \A b \in 1 .. 3 : b # req[r].book => registry'[Registries[b]] = registry[Registries[b]]
<1>1. req[r].pc = "append" /\ r \in Running /\ req[r].book \in 1 .. 3 /\ node' = node /\ raced' = raced
  BY DEF Books, Turned, Moves, Work, Running
<1> DEFINE g == Registries[req[r].book]
           e == req[r].text \cup Entry(r, g)
<1>2. registry' = [registry EXCEPT ![g] = e] /\ DOMAIN registry = Range(Registries)
  BY DEF Books, Shape
<1>3. g \in Range(Registries) /\ \A b \in 1 .. 3 : b # req[r].book => Registries[b] # g /\ Registries[b] \in Range(Registries)
  BY <1>1, BookIs
<1> HIDE DEF g, e
<1>4. registry'[g] = e /\ \A b \in 1 .. 3 : b # req[r].book => registry'[Registries[b]] = registry[Registries[b]]
  BY <1>2, <1>3
<1> QED BY <1>1, <1>4 DEF g, e

LEMMA ProgressAside ==
    ASSUME Shape, Unasked, Staying, NEW r \in Requests, Kind(r),
           NEW q \in Requests \ {r}, q \in (Running' \cup Applied') \ raced'
    PROVE  Progress(q)'
<1>1. q \in (Running \cup Applied) \ raced /\ Progress(q)
  BY RunningIs DEF Staying
<1>2. /\ req'[q].pc = req[q].pc /\ req'[q].pkg = req[q].pkg /\ req'[q].links = req[q].links
      /\ req'[q].applied = req[q].applied /\ req'[q].at = req[q].at /\ req'[q].text = req[q].text
      /\ req'[q].book = req[q].book
  BY KindAside, AsideIs
<1>3. req[q] \in Work
  BY <1>1, IsWork DEF Running, Applied, Waiting
<1>4. req[q].book \in 1 .. 3 /\ req[q].applied \subseteq Nodes \X Ids
  BY <1>3 DEF Work
\* It and another cannot both run.
<1>5. r \in Running => q \in Applied /\ Respects(r, q) /\ req[q].pc = "done"
  BY <1>1 DEF Staying, Alone, Applied
<1>6. \A a \in req[q].applied : \E m \in node'[a[1]] : m[1] = req[q].pkg.run /\ m[2] = a[2]
  <2>1. SUFFICES ASSUME NEW a \in req[q].applied
                 PROVE  \E m \in node'[a[1]] : m[1] = req[q].pkg.run /\ m[2] = a[2]
    OBVIOUS
  <2>2. PICK m \in node[a[1]] : m[1] = req[q].pkg.run /\ m[2] = a[2]
    BY <1>1 DEF Progress, Bears
  <2>3. CASE node' = node
    BY <2>2, <2>3
  <2>4. ASSUME NEW k \in First(r), Adds(r, k)
        PROVE  \E w \in node'[a[1]] : w[1] = req[q].pkg.run /\ w[2] = a[2]
    <3>1. a[1] \in Nodes
      BY <1>4
    <3>2. CASE a[1] # req[r].at
      <4>1. node'[a[1]] = node[a[1]]
        BY <2>4, <3>1, <3>2, AddsIs
      <4> QED BY <2>2, <4>1
    <3>3. CASE a[1] = req[r].at
      <4>1. req[r].pc = "write" /\ r \in Running /\ req[r].text \subseteq node'[req[r].at]
        BY <2>4, AddsIs DEF Running
      <4>2. Bears(req[r].text, q, a)
        BY <1>5, <3>3, <4>1 DEF Respects
      <4>3. PICK w \in req[r].text : w[1] = req[q].pkg.run /\ w[2] = a[2]
        BY <4>2 DEF Bears
      <4> QED BY <3>3, <4>1, <4>3
    <3> QED BY <3>2, <3>3
  <2> QED BY <2>3, <2>4, MemoryIs
<1>7. ASSUME NEW b \in 1 .. 3, Entry(q, Registries[b]) \subseteq registry[Registries[b]]
      PROVE  Entry(q, Registries[b]) \subseteq registry'[Registries[b]]
  <2>1. CASE registry' = registry
    BY <1>7, <2>1
  <2>2. CASE Books(r)
    <3>1. CASE b # req[r].book
      BY <1>7, <2>2, <3>1, BooksIs
    <3>2. CASE b = req[r].book
      <4>1. Entry(q, Registries[b]) \subseteq req[r].text
        BY <1>5, <2>2, <3>2, BooksIs DEF Respects
      <4>2. req[r].text \subseteq registry'[Registries[b]]
        BY <2>2, <3>2, BooksIs
      <4> QED BY <4>1, <4>2
    <3> QED BY <3>1, <3>2
  <2> QED BY <2>1, <2>2, RegistryIs
<1>8. req[q].pc = "write" => node'[req[q].at] = node[req[q].at]
  <2>1. ASSUME req[q].pc = "write", NEW k \in First(r), Adds(r, k) PROVE FALSE
    <3>1. r \in Running
      BY <2>1, AddsIs DEF Running
    <3> QED BY <1>5, <2>1, <3>1
  <2> QED BY <2>1, MemoryIs
<1> QED BY <1>1, <1>2, <1>4, <1>6, <1>7, <1>8, ProgressKept

LEMMA ProgressWrites ==
    ASSUME Shape, NEW r \in Requests, NEW k \in First(r), WritesIt(r, k), Progress(r)
    PROVE  Progress(r)'
<1> DEFINE n == req[r].at
           i == req[r].todo[k]
           m == Mark(r, i, req[r].text)
<1>1. /\ req[r].pc = "write" /\ req'[r].pc = "item" /\ n \in Nodes /\ req'[r].pkg = req[r].pkg
      /\ req'[r].applied = req[r].applied \cup {<<n, i.id>>} /\ req[r].applied \subseteq Nodes \X Ids
  BY DEF WritesIt, Moves, Work
<1>2. req[r].text = node[n]
  BY <1>1 DEF Progress
<1>3. m[1] = req[r].pkg.run /\ m[2] = i.id
  BY DEF Mark
<1>4. m \in node'[n] /\ \A o \in Nodes : node[o] \subseteq node'[o]
  <2>1. CASE m \in req[r].text
    <3>1. node' = node
      BY <2>1 DEF WritesIt
    <3> QED BY <1>2, <2>1, <3>1
  <2>2. CASE m \notin req[r].text
    <3>1. Adds(r, k)
      BY <2>2 DEF Adds
    <3>2. node'[n] = req[r].text \cup {m} /\ \A o \in Nodes : o # n => node'[o] = node[o]
      BY <3>1, AddsIs
    <3> HIDE DEF n, m
    <3> QED BY <1>2, <3>2
  <2> QED BY <2>1, <2>2
<1>5. ASSUME NEW a \in req'[r].applied PROVE \E w \in node'[a[1]] : w[1] = req[r].pkg.run /\ w[2] = a[2]
  <2>1. CASE a \in req[r].applied
    <3>1. PICK w \in node[a[1]] : w[1] = req[r].pkg.run /\ w[2] = a[2]
      BY <2>1 DEF Progress, Bears
    <3>2. a[1] \in Nodes
      BY <1>1, <2>1
    <3> QED BY <1>4, <3>1, <3>2
  <2>2. CASE a = <<n, i.id>>
    <3>1. a[1] = n /\ a[2] = i.id
      BY <2>2
    <3> HIDE DEF n, m
    <3> QED BY <1>3, <1>4, <3>1
  <2> QED BY <1>1, <1>5, <2>1, <2>2
<1>6. \A a \in req'[r].applied : Bears(node[a[1]], r, a)'
  BY <1>1, <1>5 DEF Bears
<1> QED BY <1>1, <1>6 DEF Progress

\* The other steps of a request leave the memory alone.
LEMMA BearsKept ==
    ASSUME NEW r, Progress(r), node' = node, req'[r].applied = req[r].applied, req'[r].pkg = req[r].pkg
    PROVE  \A a \in req'[r].applied : Bears(node[a[1]], r, a)'
BY DEF Progress, Bears

LEMMA ProgressTurns ==
    ASSUME Shape, NEW r \in Requests, Turned(r), Progress(r), node' = node, req[r].pc \in {"read", "append"},
           NEW c \in 1 .. 3, c = req[r].book,
           Entry(r, Registries[c]) \subseteq registry'[Registries[c]],
           \A b \in 1 .. 3 : b # c => registry'[Registries[b]] = registry[Registries[b]]
    PROVE  Progress(r)'
<1>1. /\ req'[r].pkg = req[r].pkg /\ req'[r].links = req[r].links /\ req'[r].applied = req[r].applied
      /\ IF c = 3 THEN req'[r].pc = "mark" /\ req'[r].book = c
         ELSE req'[r].pc = "read" /\ req'[r].book = c + 1
  BY DEF Turned, Moves, Same
<1>2. \A b \in 1 .. c : Entry(r, Registries[b]) \subseteq registry'[Registries[b]]
  <2>1. SUFFICES ASSUME NEW b \in 1 .. c PROVE Entry(r, Registries[b]) \subseteq registry'[Registries[b]]
    OBVIOUS
  <2>2. CASE b = c
    BY <2>2
  <2>3. CASE b # c
    <3>1. b \in 1 .. 3 /\ b \in 1 .. c - 1
      BY <2>3
    <3>2. Entry(r, Registries[b]) \subseteq registry[Registries[b]]
      BY <3>1 DEF Progress
    <3> QED BY <2>3, <3>1, <3>2
  <2> QED BY <2>2, <2>3
<1>3. \A b \in 1 .. c : b \in 1 .. 3 /\ Entry(r, Registries[b])' = Entry(r, Registries[b])
  <2>1. \A b \in 1 .. c : b \in 1 .. 3
    OBVIOUS
  <2> QED BY <1>1, <2>1, EntryKept
<1>4. \A b \in 1 .. c : Entry(r, Registries[b])' \subseteq registry'[Registries[b]]
  BY <1>2, <1>3
<1>5. req'[r].pc \in {"read", "append"} => req'[r].book - 1 = c
  BY <1>1
<1>6. req'[r].pc \in {"mark", "done"} => c = 3
  BY <1>1
<1>7. req'[r].pc # "write"
  BY <1>1
<1>8. \A a \in req'[r].applied : Bears(node[a[1]], r, a)'
  BY <1>1, BearsKept
<1> QED BY <1>4, <1>5, <1>6, <1>7, <1>8 DEF Progress

LEMMA ProgressOwn ==
    ASSUME Shape, Unasked, Staying, NEW r \in Requests, Kind(r), r \in (Running' \cup Applied') \ raced'
    PROVE  Progress(r)'
<1>1. CASE Starts(r)
  <2>1. req'[r].pc = "backup" /\ req'[r].applied = {}
    BY <1>1 DEF Starts, Fresh
  <2> QED BY <2>1 DEF Progress
<1>2. CASE Copies(r)
  <2>1. req[r].pc = "backup" /\ req[r].pc \notin Waiting
    BY <1>2 DEF Copies, Waiting
  <2>2. req[r].applied = {}
    BY <2>1 DEF Unasked, Working, Whole
  <2>3. req'[r].pc = "item" /\ req'[r].applied = {}
    BY <1>2, <2>2 DEF Copies
  <2> QED BY <2>3 DEF Progress
<1>3. CASE ~Starts(r) /\ ~Copies(r)
  <2>1. r \in Running \ raced /\ Progress(r)
    BY <1>3, RunningIs DEF Staying
  <2>2. Moves(r)
    <3>1. Rests(r) => req'[r].pc \in Waiting
      BY DEF Rests, Idle, Shown, Drafted, Waiting
    <3>2. ~Rests(r)
      BY <3>1 DEF Running, Applied, Waiting
    <3> QED BY <1>3, <3>2, KindMoves
  <2>3. req'[r].pkg = req[r].pkg /\ req[r].book \in 1 .. 3
    BY <2>2 DEF Moves, Work
  <2>4. CASE Skips(r)
    <3>1. node' = node /\ req'[r].applied = req[r].applied /\ req'[r].pc = "item"
      BY <2>4 DEF Skips, Still
    <3>2. \A a \in req'[r].applied : Bears(node[a[1]], r, a)'
      BY <2>1, <2>3, <3>1, BearsKept
    <3> QED BY <3>1, <3>2 DEF Progress
  <2>5. CASE Takes(r)
    <3>1. node' = node /\ req'[r].applied = req[r].applied /\ req'[r].pc = "write" /\ req'[r].text = node'[req'[r].at]
      BY <2>5 DEF Takes, Still, Same
    <3>2. \A a \in req'[r].applied : Bears(node[a[1]], r, a)'
      BY <2>1, <2>3, <3>1, BearsKept
    <3> QED BY <3>1, <3>2 DEF Progress
  <2>6. ASSUME NEW k \in First(r), WritesIt(r, k) PROVE Progress(r)'
    BY <2>1, <2>6, ProgressWrites
  <2>7. CASE Ends(r)
    <3>1. /\ node' = node /\ req'[r].applied = req[r].applied /\ req'[r].book = 1
          /\ req'[r].pc = (IF req'[r].applied = {} THEN "mark" ELSE "read")
      BY <2>7 DEF Ends, Still, Same
    <3>2. \A a \in req'[r].applied : Bears(node[a[1]], r, a)'
      BY <2>1, <2>3, <3>1, BearsKept
    <3>3. 1 .. req'[r].book - 1 = {}
      BY <3>1
    <3> QED BY <3>1, <3>2, <3>3 DEF Progress
  <2>8. CASE Fails(r)
    <3>1. r \notin Running' /\ r \notin Applied'
      BY <2>8 DEF Fails, Running, Applied
    <3> QED BY <3>1
  <2>9. CASE Reads(r)
    <3>1. /\ node' = node /\ registry' = registry /\ req'[r].applied = req[r].applied /\ req'[r].links = req[r].links
          /\ req[r].pc = "read" /\ req'[r].pc = "append" /\ req'[r].book = req[r].book
      BY <2>9 DEF Reads, Still, Same
    <3>2. \A a \in req'[r].applied : Bears(node[a[1]], r, a)'
      BY <2>1, <2>3, <3>1, BearsKept
    <3>3. \A b \in 1 .. req[r].book - 1 : b \in 1 .. 3 /\ Entry(r, Registries[b]) \subseteq registry[Registries[b]]
      BY <2>1, <2>3, <3>1 DEF Progress
    <3>4. \A b \in 1 .. req'[r].book - 1 : Entry(r, Registries[b])' \subseteq registry'[Registries[b]]
      BY <2>3, <3>1, <3>3, EntryKept
    <3> QED BY <3>1, <3>2, <3>4 DEF Progress
  <2>10. CASE Passes(r)
    <3>1. Turned(r) /\ node' = node /\ registry' = registry /\ req[r].pc = "read"
          /\ Entry(r, Registries[req[r].book]) \subseteq registry'[Registries[req[r].book]]
      BY <2>10 DEF Passes, Still
    <3> DEFINE c == req[r].book
    <3>2. c \in 1 .. 3 /\ c = req[r].book
      BY <2>3
    <3> HIDE DEF c
    <3>3. Entry(r, Registries[c]) \subseteq registry'[Registries[c]]
      BY <3>1, <3>2
    <3>4. \A b \in 1 .. 3 : b # c => registry'[Registries[b]] = registry[Registries[b]]
      BY <3>1
    <3>5. ASSUME NEW d \in 1 .. 3, d = req[r].book PROVE Progress(r)'
      BY <2>1, <3>1, <3>2, <3>3, <3>4, <3>5, ProgressTurns
    <3> QED BY <2>3, <3>5
  <2>11. CASE Books(r)
    <3>1. Turned(r)
      BY <2>11 DEF Books
    <3>2. ASSUME NEW d \in 1 .. 3, d = req[r].book PROVE Progress(r)'
      <4>1. Entry(r, Registries[d]) \subseteq registry'[Registries[d]]
        BY <2>11, <3>2, BooksIs
      <4>2. \A b \in 1 .. 3 : b # d => registry'[Registries[b]] = registry[Registries[b]]
        BY <2>11, <3>2, BooksIs
      <4>3. node' = node /\ req[r].pc = "append"
        BY <2>11, BooksIs
      <4> QED BY <2>1, <3>1, <3>2, <4>1, <4>2, <4>3, ProgressTurns
    <3> QED BY <2>3, <3>2
  <2>12. CASE Tells(r)
    <3>1. /\ node' = node /\ registry' = registry /\ req'[r].applied = req[r].applied /\ req'[r].links = req[r].links
          /\ req[r].pc = "mark" /\ req'[r].pc = "done"
      BY <2>12 DEF Tells, Same
    <3>2. \A a \in req'[r].applied : Bears(node[a[1]], r, a)'
      BY <2>1, <2>3, <3>1, BearsKept
    <3>3. req'[r].applied # {} => \A b \in 1 .. 3 : Entry(r, Registries[b])' \subseteq registry'[Registries[b]]
      BY <2>1, <2>3, <3>1, EntryKept DEF Progress
    <3> QED BY <3>1, <3>2, <3>3 DEF Progress
  <2>13. ~Rests(r)
    BY <2>2, MovesBegun DEF Rests, Moves
  <2> QED BY <1>3, <2>4, <2>5, <2>6, <2>7, <2>8, <2>9, <2>10, <2>11, <2>12, <2>13 DEF Kind
<1> QED BY <1>1, <1>2, <1>3

\* What a request takes in hand has what an apply left.
LEMMA RespectsOwn ==
    ASSUME Shape, Unasked, Staying, NEW r \in Requests, Kind(r),
           NEW q \in Requests \ {r}, q \in Applied' \ raced', r \in Running'
    PROVE  Respects(r, q)'
<1>1. q \in Applied \ raced /\ Progress(q) /\ req[q].pc = "done" /\ req[q].applied # {}
  BY RunningIs DEF Staying, Applied
<1>2. /\ req'[q].pkg = req[q].pkg /\ req'[q].links = req[q].links /\ req'[q].applied = req[q].applied
  BY KindAside, AsideIs
<1>3. CASE req'[r].pc \notin {"write", "append"}
  BY <1>3 DEF Respects
<1>4. CASE req'[r].pc = "write"
  <2>1. Takes(r)
    <3>1. \/ req'[r].pc # "write" \/ Takes(r)
      BY DEF Kind, Rests, Idle, Shown, Drafted, Starts, Fresh, Copies, Skips, WritesIt, Ends, Fails, Reads,
             Passes, Books, Turned, Tells
    <3> QED BY <1>4, <3>1
  <2>2. req'[r].text = node[req'[r].at]
    BY <2>1 DEF Takes
  <2>3. \A a \in req'[q].applied : a[1] = req'[r].at => \E m \in req'[r].text : m[1] = req'[q].pkg.run /\ m[2] = a[2]
    BY <1>1, <1>2, <2>2 DEF Progress, Bears
  <2> QED BY <1>4, <2>3 DEF Respects, Bears
<1>5. CASE req'[r].pc = "append"
  <2>1. Reads(r)
    <3>1. \/ req'[r].pc # "append" \/ Reads(r)
      BY DEF Kind, Rests, Idle, Shown, Drafted, Starts, Fresh, Copies, Skips, Takes, WritesIt, Ends, Fails,
             Passes, Books, Turned, Tells
    <3> QED BY <1>5, <3>1
  <2>2. req'[r].book = req[r].book /\ req'[r].book \in 1 .. 3 /\ req'[r].text = registry[Registries[req'[r].book]]
    BY <2>1 DEF Reads, Moves, Work
  <2>3. \A b \in 1 .. 3 : Entry(q, Registries[b])' \subseteq registry[Registries[b]]
    BY <1>1, <1>2, EntryKept DEF Progress
  <2>4. \A b \in {req'[r].book} : Entry(q, Registries[b])' \subseteq req'[r].text
    BY <2>2, <2>3
  <2> QED BY <1>5, <2>4 DEF Respects
<1> QED BY <1>3, <1>4, <1>5

LEMMA StayingStep ==
    ASSUME Shape, Unasked, Staying, NEW r \in Requests, Kind(r)
    PROVE  Staying'
<1>1. Alone' /\ Aside(r)
  BY AloneStep, KindAside DEF Staying
<1>2. ASSUME NEW q \in (Running' \cup Applied') \ raced' PROVE Progress(q)'
  <2>1. q \in Requests
    BY DEF Running, Applied
  <2>2. CASE q = r
    BY <1>2, <2>2, ProgressOwn
  <2>3. CASE q # r
    BY <1>2, <2>1, <2>3, ProgressAside
  <2> QED BY <2>2, <2>3
<1>3. ASSUME NEW q \in Applied' \ raced', NEW p \in Running' PROVE Respects(p, q)'
  <2>1. q \in Requests /\ p \in Requests
    BY DEF Running, Applied
  <2>2. CASE q = r
    <3>1. Tells(r) /\ r \in Running /\ r \notin raced
      BY <1>3, <2>2, RunningIs
    <3>2. p # r
      <4>1. req'[r].pc = "done"
        BY <3>1 DEF Tells
      <4> QED BY <1>3, <4>1 DEF Running
    <3>3. p \in Running
      BY <2>1, <3>2, RunningIs
    <3> QED BY <3>1, <3>2, <3>3 DEF Staying, Alone
  <2>3. CASE q # r /\ p = r
    BY <1>3, <2>1, <2>3, RespectsOwn
  <2>4. CASE q # r /\ p # r
    <3>1. q \in Applied \ raced /\ p \in Running
      BY <1>3, <2>1, <2>4, RunningIs
    <3>2. Respects(p, q) /\ req[p].pc \notin Waiting
      BY <3>1 DEF Staying, Running, Waiting
    <3> QED BY <1>1, <2>1, <2>4, <3>2, RespectsKept
  <2> QED BY <2>2, <2>3, <2>4
<1>4. \A q \in (Running' \cup Applied') \ raced' : Progress(q)'
  BY <1>2
<1>5. \A q \in Applied' \ raced' : \A p \in Running' : Respects(p, q)'
  BY <1>3
<1> QED BY <1>1, <1>4, <1>5 DEF Staying

-----------------------------------------------------------------------------
(* The invariant.                                                           *)

LEMMA Starting == ASSUME Init PROVE IInv
<1>1. \A r \in Requests : req[r] = Idle /\ req[r].pc = "idle"
  BY DEF Init, Idle
<1>2. Begun = {} /\ Running = {} /\ Applied = {} /\ \A r \in Requests : ~Working(r)
  BY <1>1 DEF Begun, Running, Applied, Working, Waiting
<1>3. Shape
  <2>1. req \in [Requests -> {Idle} \cup Shown \cup Drafted \cup Work]
    BY DEF Init
  <2>2. node \in [Nodes -> SUBSET Marks]
    BY DEF Init, Marks
  <2>3. registry \in [Range(Registries) -> SUBSET Entries]
    BY DEF Init
  <2>4. inbox \in [Sources -> Statuses]
    BY DEF Init, Statuses
  <2>5. 0 \in 0 .. MaxInbox /\ 0 \in 0 .. MaxFailures
    BY LimitsAssumption
  <2> QED BY <2>1, <2>2, <2>3, <2>4, <2>5 DEF Init, Shape
<1>4. Unasked
  BY <1>1, <1>2 DEF Unasked
<1>5. wrote = {} /\ raced = {}
  BY DEF Init
<1>6. Updating /\ OnlyUpdatedByChoice /\ InStep /\ Undone
  BY <1>2, <1>5 DEF Updating, OnlyUpdatedByChoice, InStep, Undone
<1>7. Staying
  BY <1>2 DEF Staying, Alone
<1>8. Origins
  <2>1. \A n \in Nodes : \A m \in node[n] : m = Old
    BY DEF Init
  <2> QED BY <1>2, <2>1 DEF Origins, Known
<1>9. Inboxed
  BY DEF Init, Inboxed
<1> QED BY <1>3, <1>4, <1>6, <1>7, <1>8, <1>9 DEF IInv

\* What touches neither a request nor the memory.
LEMMA QuietStep == ASSUME IInv, Shape', Quietly PROVE IInv'
<1>1. UNCHANGED <<req, node, registry, raced, wrote>>
  BY DEF Quietly
<1>2. Begun' = Begun /\ Running' = Running /\ Applied' = Applied
  BY <1>1 DEF Begun, Running, Applied
<1>3. Unasked'
  BY <1>1 DEF IInv, Unasked, Working, Whole, Asked
<1>4. Updating'
  BY <1>1, <1>2 DEF IInv, Updating, Choosing, First
<1>5. OnlyUpdatedByChoice' /\ InStep' /\ Undone'
  BY <1>1, <1>2 DEF IInv, OnlyUpdatedByChoice, InStep, Undone
<1>6. Staying'
  <2>1. Alone'
    BY <1>1, <1>2 DEF IInv, Staying, Alone
  <2>2. \A r \in (Running' \cup Applied') \ raced' : Progress(r)'
    BY <1>1, <1>2 DEF IInv, Staying, Progress, Bears, Entry
  <2>3. \A r \in Applied' \ raced' : \A q \in Running' : Respects(q, r)'
    BY <1>1, <1>2 DEF IInv, Staying, Respects, Bears, Entry
  <2> QED BY <2>1, <2>2, <2>3 DEF Staying
<1>7. Origins'
  BY <1>1, <1>2 DEF IInv, Origins, Known
<1>8. Inboxed'
  <2>1. \A s \in Sources : (inbox'[s] = "indexed" => inbox[s] = "indexed") /\ (inbox'[s] = "duplicate" => inbox[s] = "duplicate")
    BY DEF Quietly
  <2> QED BY <1>1, <1>2, <2>1 DEF IInv, Inboxed
<1> QED BY <1>3, <1>4, <1>5, <1>6, <1>7, <1>8 DEF IInv

LEMMA Inductive == ASSUME IInv, [Next]_vars PROVE IInv'
<1>1. Shape /\ Unasked /\ Shape' /\ ((\E r \in Requests : Kind(r)) \/ Quietly)
  BY StepKind DEF IInv
<1>2. CASE Quietly
  BY <1>1, <1>2, QuietStep
<1>3. ASSUME NEW r \in Requests, Kind(r) PROVE IInv'
  <2>1. Updating /\ OnlyUpdatedByChoice /\ InStep /\ Undone /\ Staying /\ Origins /\ Inboxed
    BY DEF IInv
  <2>2. Unasked'
    BY <1>1, <1>3, UnaskedStep
  <2>3. Updating' /\ OnlyUpdatedByChoice'
    BY <1>1, <1>3, <2>1, UpdatingStep, OnlyUpdatedStep
  <2>4. InStep' /\ Undone'
    BY <1>1, <1>3, <2>1, InStepStep, BackupStep
  <2>5. Staying'
    BY <1>1, <1>3, <2>1, StayingStep
  <2>6. Origins'
    BY <1>1, <1>3, <2>1, <2>2, OriginsStep
  <2>7. Inboxed'
    BY <1>1, <1>3, <2>1, InboxedStep
  <2> QED BY <1>1, <2>2, <2>3, <2>4, <2>5, <2>6, <2>7 DEF IInv
<1> QED BY <1>1, <1>2, <1>3

LEMMA Invariant == Spec => [](IInv /\ Saved)
<1>1. Init => IInv /\ Saved
  <2>1. ASSUME Init PROVE Begun = {}
    BY <2>1 DEF Init, Begun, Idle, Waiting
  <2>2. ASSUME Init PROVE Saved
    BY <2>1, <2>2 DEF Init, Saved
  <2> QED BY <2>2, Starting
<1>2. (IInv /\ Saved) /\ [Next]_vars => (IInv /\ Saved)'
  BY Inductive, SavedStep DEF IInv
<1> QED BY <1>1, <1>2, PTL DEF Spec

-----------------------------------------------------------------------------
(* What it says.                                                            *)

\* What is left of an item without a choice was selected, and so passed the gate.
LEMMA GateIs == ASSUME Shape, Unasked PROVE GateHolds
<1>1. SUFFICES ASSUME NEW r \in Running
      PROVE  LET free == {k \in DOMAIN req[r].todo : req[r].todo[k].id \notin DOMAIN req[r].choice}
             IN  /\ ~Blocked(req[r].pkg)
                 /\ \A k \in free : \A c \in Candidates(req[r].pkg) :
                      c.id = req[r].todo[k].id => ~c.pii /\ Fits(c)
                 /\ \A j, k \in free : j # k => req[r].todo[j].title # req[r].todo[k].title
  BY DEF GateHolds
<1>2. r \in Requests /\ req[r].pc \notin Waiting /\ req[r] \in Work
  BY IsWork DEF Running, Waiting
<1>3. Asked(r) /\ req[r].pkg \in Packages
  BY <1>2 DEF Unasked, Working, Work
<1> DEFINE free == {k \in DOMAIN req[r].todo : req[r].todo[k].id \notin DOMAIN req[r].choice}
<1>4. \A k \in free : k \in DOMAIN req[r].todo /\ req[r].todo[k].selected /\ Stands(req[r].pkg, req[r].todo[k])
  BY <1>3 DEF Asked
<1>5. ASSUME NEW k \in free, NEW c \in Candidates(req[r].pkg), c.id = req[r].todo[k].id PROVE ~c.pii /\ Fits(c)
  <2>1. PICK d \in Candidates(req[r].pkg) : d.id = req[r].todo[k].id /\ ~d.pii /\ Fits(d)
    BY <1>4 DEF Stands
  <2>2. c = d
    BY <1>3, <1>5, <2>1, IdsName
  <2> QED BY <2>1, <2>2
<1>6. \A j, k \in free : j # k => req[r].todo[j].title # req[r].todo[k].title
  BY <1>3, <1>4 DEF Asked, Apart
<1> QED BY <1>3, <1>5, <1>6 DEF Asked

LEMMA TypeIs == ASSUME Shape, Unasked PROVE TypeOK
<1>1. \A n \in Nodes : \A m \in node[n] : m[3] \in {"node", "update"}
  <2>1. \A m \in Marks : m[3] \in {"node", "update"}
    BY DEF Marks, Old
  <2> QED BY <2>1 DEF Shape
<1>2. DOMAIN registry = Range(Registries)
  BY DEF Shape
<1>3. ASSUME NEW r \in Requests \ {q \in Requests : req[q].pc \in Waiting}
      PROVE  /\ req[r].pkg \in Packages /\ req[r].book \in DOMAIN Registries
             /\ {a[1] : a \in req[r].applied} \subseteq req[r].links /\ req[r].links \subseteq Nodes
             /\ req[r].pc = "write" => req[r].at \in Nodes
  <2>1. r \in Requests /\ req[r].pc \notin Waiting
    OBVIOUS
  <2>2. req[r] \in Work /\ Whole(r)
    BY <2>1, IsWork DEF Unasked, Working
  <2>3. DOMAIN Registries = 1 .. 3
    BY DEF Registries
  <2> HIDE DEF Registries
  <2> QED BY <2>2, <2>3 DEF Work, Whole
<1> QED BY <1>1, <1>2, <1>3 DEF Shape, TypeOK

\* What an apply answered as written stays, and the memory names its sources.
LEMMA RecordedIs == ASSUME Shape, Unasked, Staying, NEW r \in Applied \ raced PROVE Recorded(r)
<1>1. r \in Requests /\ req[r].pc = "done" /\ req[r].pc \notin Waiting /\ req[r].applied # {} /\ Progress(r)
  BY DEF Staying, Applied, Waiting
<1>2. Whole(r)
  BY <1>1 DEF Unasked, Working
<1>3. 1 \in 1 .. 3 /\ 2 \in 1 .. 3 /\ 3 \in 1 .. 3
  OBVIOUS
<1>4. /\ Entry(r, "sources") \subseteq registry["sources"] /\ Entry(r, "journal") \subseteq registry["journal"]
      /\ Entry(r, "index") \subseteq registry["index"]
  <2>1. \A b \in 1 .. 3 : Entry(r, Registries[b]) \subseteq registry[Registries[b]]
    BY <1>1 DEF Progress
  <2> HIDE DEF Registries
  <2> QED BY <1>3, <2>1, BooksAre
<1>5. req[r].pkg.run \in registry["sources"]
  BY <1>4 DEF Entry
<1>6. ASSUME NEW a \in req[r].applied
      PROVE  /\ \E m \in node[a[1]] : m[1] = req[r].pkg.run /\ m[2] = a[2]
             /\ <<req[r].pkg.run, a[1]>> \in registry["journal"]
             /\ a[1] \in registry["index"]
  <2>1. a[1] \in req[r].links
    BY <1>2 DEF Whole
  <2>2. <<req[r].pkg.run, a[1]>> \in Entry(r, "journal") /\ a[1] \in Entry(r, "index")
    BY <2>1 DEF Entry
  <2>3. \E m \in node[a[1]] : m[1] = req[r].pkg.run /\ m[2] = a[2]
    BY <1>1 DEF Progress, Bears
  <2> QED BY <1>4, <2>2, <2>3
<1> QED BY <1>5, <1>6 DEF Recorded

LEMMA InboxIs == ASSUME Shape, Unasked, Staying, Inboxed PROVE InboxTellsMemory
<1>1. ASSUME NEW s \in Sources, NEW r \in Applied \ raced, req[r].pkg.origin = s,
             NEW f \in Range(req[r].pkg.files), NEW n \in Nodes, <<n, f.key>> \in req[r].applied
      PROVE  s \notin Listed
  <2>1. Recorded(r)
    BY RecordedIs
  <2>2. PICK m \in node[n] : m[1] = req[r].pkg.run /\ m[2] = f.key
    BY <1>1, <2>1 DEF Recorded
  <2>3. req[r].pkg \in Packages
    BY IsWork DEF Applied, Waiting, Work
  <2>4. Named(s)
    BY <1>1, <2>2, <2>3 DEF Named
  <2> QED BY <2>4 DEF Listed
<1> QED BY <1>1 DEF Inboxed, InboxTellsMemory

\* Whatever plan was shown and whatever changed since, an apply writes only what
\* passed the Quality Gate or was chosen, and writes over what was there only
\* where the user asked for it (scribe.py, create_scribe_plan, apply_scribe_plan).
THEOREM AskedOnly == Spec => []NothingUnasked
<1>1. IInv => NothingUnasked
  BY GateIs, TypeIs DEF IInv, NothingUnasked
<1> QED BY <1>1, Invariant, PTL

\* The backup an apply makes undoes it, wherever it stopped, on every node that no
\* other request wrote (scribe.py, create_memory_backup).
THEOREM UndoneByBackup == Spec => []BackupRestores
<1>1. IInv /\ Saved => BackupRestores
  BY DEF IInv, Undone, Saved, Held, BackupRestores
<1> QED BY <1>1, Invariant, PTL

\* What an apply answered is in the memory and in its three registries for good, when
\* it ran alone; later applies may race each other or raise (scribe.py, append_once).
THEOREM StaysApplied == Spec => []AppliedStays
<1>1. IInv => AppliedStays
  BY RecordedIs DEF IInv, AppliedStays
<1> QED BY <1>1, Invariant, PTL

\* The inbox hides a file for what is in the memory, and for as long as it is there
\* (scribe_inbox.py, mark_item and the list; server.py, handle_scribe_apply).
THEOREM TellsMemory == Spec => []InboxTellsMemory
<1>1. IInv => InboxTellsMemory
  BY InboxIs DEF IInv
<1> QED BY <1>1, Invariant, PTL
=============================================================================
