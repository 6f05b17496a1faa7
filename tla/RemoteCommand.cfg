SPECIFICATION Spec
CONSTANTS
  MaxOutput = 3
  Chunk = 2
  Window = 4
  Commands = 2
  Limit = 5
INVARIANTS TypeOK AnswerIsWhole
PROPERTIES EveryRunAnswers
CHECK_DEADLOCK FALSE
