SPECIFICATION FairSpec
CONSTANTS
  MaxMessages = 2
  MaxUsers = 2
  MaxSize = 2
  NoFile = NoFile
CHECK_DEADLOCK FALSE
INVARIANT TypeOK
INVARIANT EntriesTrue
INVARIANT SpinsOnlyInside
PROPERTY AnswerShown
