SPECIFICATION FairSpec
CONSTANTS
  Addresses = {a1, a2, a3}
  Words <- MCWords
  Offsets = {0, 1}
  Handles = {h1, h2}
  Nothing = Nothing
  MaxCount = 2
INVARIANT CountsExact
INVARIANT HashConsed
INVARIANT NoDangling
INVARIANT StringsHeld
PROPERTY Implements
PROPERTY AssignmentsEnd
CHECK_DEADLOCK FALSE
