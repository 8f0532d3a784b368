SPECIFICATION Spec
CONSTANTS
  MaxClears = 2
  MaxTurns = 2
INVARIANTS TypeOK ClearIsHonest AnswerOnce
PROPERTIES AnswerStays NeverBackwards
CHECK_DEADLOCK FALSE
