SPECIFICATION FairSpec
CONSTANTS
  Jobs = {j1, j2}
  Streams = {s1, s2}
  Cap = 2
  Steps = 2
  Recovered = {j2}
  None = None
INVARIANTS TypeOK HubChannelsOpen RunningMeansSomeone PanicOnlyWhenBroken HeardInFull
PROPERTIES PipelinesForgotten StreamsEnd
