SPECIFICATION FairSpec
CONSTANTS
  QLen = 1
  Strays <- MCStrays
INVARIANTS AnswersAsked
PROPERTY Rejoined
CHECK_DEADLOCK FALSE
