SPECIFICATION Spec
CONSTANTS
  Grammars <- MCGrammars
  Asts <- MCAsts
  MaxLevel = 3
  MaxDepth = 30
  MaxCalls = 2
  Lexemes = {"1", "2"}
  MaxText = 7
  MaxRules = 6
  Faithful = {"pairs", "lists", "sums", "fronts", "backs", "tries", "nests"}
INVARIANT NothingInvented
INVARIANT ReadsBack
CHECK_DEADLOCK FALSE
