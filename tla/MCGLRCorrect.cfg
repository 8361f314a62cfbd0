CONSTANTS
  MaxLen = 3
  Grammars <- MCGrammars
  Jobs <- MCJobs
  Sound <- MCSound
  Complete <- MCComplete
SPECIFICATION FairSpec
CHECK_DEADLOCK FALSE
INVARIANT StackFollowsAutomaton
INVARIANT TokensAsked
INVARIANT AnswersAreReadings
INVARIANT ReadingsFound
INVARIANT NeverBroken
PROPERTY Terminates
