SPECIFICATION AgentSpec
CONSTANTS
  Models = 2
  MaxStallRetries = 1
  IdlePolls = 2
INVARIANTS AgentTypeOK SuccessIsClean
PROPERTIES RelaunchIsJustified RoleEnds
CHECK_DEADLOCK FALSE
