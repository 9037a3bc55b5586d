SPECIFICATION FairSpec
CONSTANTS
  MaxClicks = 2
  Name <- MCName
  Latin1 <- MCLatin1
  Accented = {"e acute"}
  TemplateAnswers <- MCTemplateAnswers
  RoomAnswers <- MCRoomAnswers
  Replies <- MCReplies
INVARIANTS
  TypeOK
  WalkedThrough
  YellowRuns
  HighlightKept
PROPERTY CallsReturn
CHECK_DEADLOCK FALSE
