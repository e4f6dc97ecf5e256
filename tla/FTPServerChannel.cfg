SPECIFICATION FairSpec
CONSTANTS
  Scripts <- MCScripts
  Accepted <- MCAccepted
  MaxLines <- MCMaxLines
  MaxLineLength = 2
  None = None
INVARIANT TypeOK
INVARIANT OpensAccepted
INVARIANT RepliesInOrder
INVARIANT RestartUsedOnce
PROPERTY EveryCommandAnswered
CHECK_DEADLOCK FALSE
