CONSTANTS
  Automata <- MCAutomata
  Tag = {"a", "b"}
  NULL = NULL
  MaxEvents = 10
  MaxDepth = 2
SPECIFICATION ExecutionSpec
INVARIANTS ResultsInScope AmbiguityReported ResultsWellNested ObjectMadeBefore
CHECK_DEADLOCK FALSE
PROPERTY IteratorErrorStays
