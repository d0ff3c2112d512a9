SPECIFICATION FairSpec
CONSTANTS
  Length <- Lengths
  Query <- Queries
  NoQuery = NoQuery
  Response <- Responses
  NoResponse = NoResponse
  MaxLen = 5
INVARIANTS TypeOK QueryRead QueryFate DeathJustified
PROPERTIES ResponseOrder RequestEnds
CHECK_DEADLOCK FALSE
