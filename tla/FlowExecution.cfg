\* Flows with and without cycles; the log is cut at seven entries, the longest without a cycle.
SPECIFICATION FFairSpec
CONSTANTS
  Nodes = {1, 2, 3, 4}
  Variables = {"a", "b"}
  Texts = {"", "yes"}
  Undefined = Undefined
  Payload = Payload
  Flows <- MCFlows
  MaxLog = 7
PROPERTIES WalkEnds
INVARIANTS FTypeOK VariableProvenance LogsTellWhatLeft LogsAreAWalk
CHECK_DEADLOCK FALSE
