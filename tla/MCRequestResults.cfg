CONSTANTS
  Automata <- MCAutomata
  Tag = {"a", "b"}
  NULL = NULL
  MaxEvents = 10
  MaxDepth = 2
SPECIFICATION ExecutionSpec
INVARIANT ResultsAreNonEmpty
CHECK_DEADLOCK FALSE
