SPECIFICATION ReconfSpec
CONSTANTS
  s1 = s1
  s2 = s2
  s3 = s3
  v1 = v1
  None = None
  Server = {s1, s2, s3}
  MaxEnts = 1
  Scenarios <- AllScenarios
  Calls <- AllCalls
INVARIANTS LeaderCompleteness ConfigurationSound
CHECK_DEADLOCK FALSE
