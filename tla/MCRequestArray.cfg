CONSTANTS
  Automata <- ArrayAutomata
  Descriptions <- ArrayDescriptions
  Tag = {"a", "b"}
  NULL = NULL
  MaxEvents = 8
  MaxDepth = 3
  MaxNofCallDefs = 4
  MaxNofArguments = 2
  MaxNofResults = 1
SPECIFICATION BuildingSpec
INVARIANT ArrayIsComplete
CHECK_DEADLOCK FALSE
