\* One stream, one motion request and one request for an image at a time, room
\* for two chains.
CONSTANTS
  Streams = {s1}
  Tasks = {t1, t2}
  Clients = {c1}
  OneShots = {o1}
  Configs <- MixedUrls
  NoConfig = NoConfig
  NoDeadline = NoDeadline
  NoStream = NoStream
SPECIFICATION FrsSpec
INVARIANT OneChainPerVideoStream

