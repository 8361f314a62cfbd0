CONSTANTS
  MaxLen = 3
  Grammars <- MCGrammars
  Jobs <- RepetitionJobs
  Sound <- AnyGrammar
  Complete <- AnyGrammar
SPECIFICATION Spec
CHECK_DEADLOCK FALSE
INVARIANT ReadingsFound
