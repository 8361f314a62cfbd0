SPECIFICATION Spec
CONSTANTS
  Letters = {"a", "b"}
  Words <- MCWords
  MaxInserts = 4
INVARIANT InsertedFound
CHECK_DEADLOCK FALSE
