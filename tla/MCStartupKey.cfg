CONSTANTS
  Tasks = {"first", "second"}
  Files <- KeyFiles
  EngineCert = "given"
  EngineAccepts = {"Basic", "ApiKey"}
  DefaultSize = 100
  DefaultInterval = 50
  MaxFaults = 2
SPECIFICATION StartupFairSpec
PROPERTY
  RerunSucceeds
