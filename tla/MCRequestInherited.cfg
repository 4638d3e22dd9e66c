CONSTANTS
  Automata <- InheritedAutomata
  Descriptions <- InheritedDescriptions
  Tag = {"a", "b"}
  NULL = NULL
  MaxEvents = 10
  MaxDepth = 3
  MaxNofCallDefs = 4
  MaxNofArguments = 2
  MaxNofResults = 1
SPECIFICATION BuildingSpec
INVARIANT InheritedIsFound
CHECK_DEADLOCK FALSE
