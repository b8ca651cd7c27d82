\* One stream, two concurrent requests, two task slots, all interleavings.
CONSTANTS
  Streams = {s1}
  Tasks = {t1, t2}
  Clients = {c1, c2}
  Configs <- MixedConfigs
  NoConfig = NoConfig
  NoDeadline = NoDeadline
  NoStream = NoStream
SPECIFICATION FairSpec
INVARIANT OneChainBehindEntry
PROPERTIES ImplementsSession StopTakesEffect KeepsProcessing
  DeadlineTakesEffect RemovedStreamEnds
