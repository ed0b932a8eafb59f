SPECIFICATION Spec
CHECK_DEADLOCK FALSE
INVARIANTS
  ModelIsWhole
  BatchmatesDoNotMatter
  MessagesArriveWhole
  TextIsTold
