SPECIFICATION Spec
CONSTANTS
  Requests = {r1, r2}
  Conversations = {c1}
  MaxFiles = 2
  MaxUploads = 1
  Recent = 1
  None = None
  MaxFailures = 1
INVARIANTS TurnsKept AnswersWhatCameBefore RouteTold UploadsRemoved
PROPERTIES EveryRequestEnds
CHECK_DEADLOCK FALSE
