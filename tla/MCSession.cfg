SPECIFICATION Spec
CONSTANTS
  Texts <- MCTexts
  Trees <- MCTrees
  Short <- MCShort
  Garbage <- MCGarbage
  NoAutomaton = NoAutomaton
  NoPlace = NoPlace
INVARIANT AutomatonOfGrammar
INVARIANT TableOfLines
PROPERTY ErrorPlaceExact
INVARIANT ReadsBack
