SPECIFICATION FairSpec
CONSTANTS
  Grammars <- MCGrammars
  MaxSeed = 2
INVARIANT TypeOK
INVARIANT ClosureCorrect
PROPERTY Implements
PROPERTY Terminates
CHECK_DEADLOCK FALSE
