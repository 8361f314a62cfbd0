SPECIFICATION FairSpec
CONSTANTS
  Trees <- MCTrees
  Pilots = {"calc", "print"}
  Labels = {"expr", "num"}
  Exports <- MCExports
  HashRow <- MCHashRow
  MaxOpens = 2
INVARIANT StacksInStep
INVARIANT RightMethodCalled
INVARIANT OpensAccounted
PROPERTY Implements
PROPERTY WalksEnd
CHECK_DEADLOCK FALSE
