SPECIFICATION FairSpec
CONSTANTS
  MaxFaulty = 2
  Flaky = {"nats", "jetstream", "redis", "influxdb"}
  OldStreams = {"FCAPS_SIM"}
INVARIANT TypeOK
INVARIANT ListedIsComplete
INVARIANT FailureIsLocal
PROPERTY HealthyInTheEnd
