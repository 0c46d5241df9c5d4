SPECIFICATION Spec
CONSTANTS
  Writes = 2
  Presses = 1
  Backlog = 1
INVARIANT
  AnswerIsOwn
