SPECIFICATION FairSpec
CONSTANTS
  Letters = {"a", "b"}
  Words <- MCWords
  MaxInserts = 4
INVARIANT IsTree
INVARIANT FoundAsInserted
INVARIANT LongestFound
PROPERTY FoundForGood
PROPERTY InsertionsEnd
CHECK_DEADLOCK FALSE
