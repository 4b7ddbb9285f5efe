SPECIFICATION MCPSpec
CONSTANTS
  Lines <- MCLines
  Programs = {"filter", "sink", "source", "eager", "first", "endless", "waiting", "closer"}
  MaxMembers = 3
  MaxInput = 4
  Capacity = 1
  Effort = 2
INVARIANTS
  PipelineAsPromised MembersAccountedFor StandstillOnlyOnFullPipes
PROPERTY LastEndsItAll
CHECK_DEADLOCK FALSE
