SPECIFICATION FairSpec
CONSTANTS
  KBD_BUFFER_SIZE = 8
  MaxTyped = 8
  Quit <- OneQuit
  MaxNotes = 1
  MaxDepth = 1
  MayDiscardInWait = FALSE
INVARIANTS
  TypeOK
  NoKeyLost
  HeldOnlyWithInput
PROPERTIES
  IsInputQueue
  AllTaken
