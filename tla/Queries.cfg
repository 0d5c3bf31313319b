SPECIFICATION Spec
CHECK_DEADLOCK FALSE
CONSTANTS
  IntLimit = 128
  Precision = 2
  DurationLimit = 16777216
  MaximumYear = 40000
  Int32Limit = 32
  NanosPerSecond = 8
  NanosPerMilli = 4
  NanosPerMicro = 2
  Zones <- MCZones
  NamesWithSign = {}
  NameText <- MCNameText
PROPERTIES ResultsAsMeant RewritesKeepMeaning EveryStatementPlans StaticTypesHold CallsAsRegistered
  ValuesOrdered TemporalConsistent
