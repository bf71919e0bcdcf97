SPECIFICATION FairSpec
CONSTANTS
  Commands <- MCCommands
  Tab = "TAB"
  Help = "h"
  Text <- MCText
  Row <- MCRow
  F_CPU = 16000000
INVARIANTS
  TypeOK
  NewestTaken
  OncePerByte
  TextComplete
PROPERTY Answered
