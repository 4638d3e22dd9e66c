SPECIFICATION MCSpec
CONSTANTS
  NoText = "NoText"
  NoType = "NoType"
  NoTag = "NoTag"
  MaxRecursionDepth = 5
  Schemas <- MCSchemas
  Documents <- MCDocuments
  Forms = {"xml", "json"}
INVARIANTS
  ParsedIsDocument
  StacksFollowDocument
  AcceptedIsDeclared
  MappedAsDeclared
  DeclaredIsAccepted
  ReadAsDocument
  PrintedIsDocument
  JsonIsReadBack
CHECK_DEADLOCK FALSE
