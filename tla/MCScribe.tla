------------------------------ MODULE MCScribe ------------------------------
EXTENDS Scribe

Candidate(id, cat, title, pii, durable) ==
    [id |-> id, cat |-> cat, title |-> title, pii |-> pii, named |-> TRUE,
     body |-> [durable |-> durable, dump |-> FALSE]]

\* From an inbox file: a fact with personal data, and the summary of the file,
\* whose node is there already.
InboxPackage == [run |-> "run1", origin |-> "file1", unresolved |-> FALSE, fallback |-> FALSE,
                 model |-> <<>>,
                 rules |-> <<Candidate("s1", "technical_facts", "fact", TRUE, TRUE)>>,
                 files |-> <<[key |-> "f1", title |-> "summary"]>>]

\* From a dialogue: a fact of the classifier, an excluded remark, and two files of
\* one context whose summary names too many paths and has the title of the fact.
DialogPackage == [run |-> "run2", origin |-> "dialog", unresolved |-> FALSE, fallback |-> FALSE,
                  model |-> <<Candidate("m1", "technical_facts", "fact", FALSE, TRUE)>>,
                  rules |-> <<Candidate("s2", "exclude", "none", FALSE, FALSE)>>,
                  files |-> <<[key |-> "f2", title |-> "fact"], [key |-> "f2", title |-> "fact"]>>]

BlockedPackage == [InboxPackage EXCEPT !.run = "run3", !.unresolved = TRUE]

MCBefore == {<<"summary", 0>>}

Symmetric == Permutations(Requests)

MCPackages == {InboxPackage, DialogPackage, BlockedPackage}
=============================================================================
