SPECIFICATION FairSpec
CONSTANT Grammars <- MCGrammars
INVARIANT TypeOK
INVARIANT TransitionsExact
INVARIANT OneSymbolIn
INVARIANT Canonical
INVARIANT ReductionsLand
PROPERTY Terminates
CHECK_DEADLOCK FALSE
