SPECIFICATION Spec
CONSTANTS
  Trees <- MCTrees
  MaxGrammars = 2
  MaxWord = 3
INVARIANT Expanded
INVARIANT MeaningKept
CHECK_DEADLOCK FALSE
