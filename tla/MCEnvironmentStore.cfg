CONSTANTS
  Writers = {"w1", "w2"}
  Keys = {"A", "B"}
  Raw = {"A", " A", "B", "?"}
  Blank = ""
  Invalid = "invalid"
  NormalForm <- MCNormalForm
  Values = {1, 2}
  Requests <- MCRequests
  CountsMatched = FALSE
  MaxClock = 1
  MaxRequests <- MCMaxRequests
SPECIFICATION Spec
INVARIANTS
  ImportStands
  ShownWhenQuiet
  AnswersStand
PROPERTIES
  RenameKeepsOthers
CHECK_DEADLOCK FALSE
