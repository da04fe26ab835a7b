SPECIFICATION Spec
CONSTANTS
  r1 = r1
  r2 = r2
  r3 = r3
  Requests = {r1, r2, r3}
  Titles = {"one", "new"}
  Codes = {"A", "C"}
  Founded <- MCFounded
  Stray <- MCStray
  Rank <- MCRank
  Asks <- MCAsks
  Groups = {"G"}
  Inferred = "I"
  None = None
  MaxFailures = 1
INVARIANTS RegistryLeads ArchivedStays
PROPERTIES TextsKept EveryRequestAnswered
CHECK_DEADLOCK FALSE
