CONSTANTS
  MaxLen = 3
  Grammars <- MCGrammars
  Jobs <- LeftyJobs
  Sound <- AnyGrammar
  Complete <- AnyGrammar
SPECIFICATION Spec
CHECK_DEADLOCK FALSE
INVARIANT NeverBroken
