SPECIFICATION MCSpec
CONSTANTS
  MaxTurns = 2
  MaxEvents = 4
  MaxResumes = 1
  MaxFaults = 2
  MaxEdits = 1
CHECK_DEADLOCK FALSE
INVARIANT PageShowsTheReply
INVARIANT TalkIsKept
INVARIANT QuestionAnswerable
PROPERTY TurnEnds
