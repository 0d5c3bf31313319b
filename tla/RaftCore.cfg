SPECIFICATION Spec
CONSTANTS
  s1 = s1
  s2 = s2
  s3 = s3
  v1 = v1
  None = None
  Server = {s1, s2, s3}
  MaxEnts = 1
  Scenarios <- AllScenarios
INVARIANTS VotesSound LeaderCompleteness StateMachineSafety StateSound
PROPERTY Durable
CHECK_DEADLOCK FALSE
