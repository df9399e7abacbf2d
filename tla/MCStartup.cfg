CONSTANTS
  Tasks = {"first", "second"}
  Files <- MCFiles
  EngineCert = "given"
  EngineAccepts = {"Basic", "ApiKey"}
  DefaultSize = 100
  DefaultInterval = 50
  MaxFaults = 2
SPECIFICATION StartupFairSpec
INVARIANTS
  StartupTypeOK
  PreparedIsComplete
  NoJobBehindCommand
PROPERTIES
  CommandReturns
  HealthEndsWithNew
  RerunSucceeds
  RunStreams
