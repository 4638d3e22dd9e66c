CONSTANTS
  Automata <- MCAutomata
  Descriptions <- MCDescriptions
  Tag = {"a", "b"}
  NULL = NULL
  MaxEvents = 10
  MaxDepth = 3
  MaxNofCallDefs = 4
  MaxNofArguments = 2
  MaxNofResults = 1
SPECIFICATION BuildingSpec
INVARIANTS BuiltAsDescribed SchemaAsDescribed CallOrderDefined ScopesLaminar ValuesCollected PrioritizedWins CallsKept ArgumentsAsDefined
CHECK_DEADLOCK FALSE
