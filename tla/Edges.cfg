SPECIFICATION Spec
INVARIANTS TypeOK  QuestionsSettled HistorySound ViewsOfOnePiece
PROPERTY ToldIsKept
CHECK_DEADLOCK FALSE
