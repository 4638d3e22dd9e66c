CONSTANTS
  NULL = NULL
  MaxNofDelegates = 5
  DocType = {json, xml}
SPECIFICATION FairSpec
INVARIANTS ResumedWithAnswers StructureMappedAsRead
PROPERTIES YieldedAreAnswered
CHECK_DEADLOCK FALSE
