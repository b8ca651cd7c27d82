\* One stream, two descriptors (the second may be spawned from the first), an
\* API request next to a recognition, three API calls in all.
CONSTANTS
  VStreams = {v1}
  MaxFace = 2
  MaxCalls = 3
  Requests = {r1}
  Tasks = {t1}
  Correction = 1
  MaxSince = 1
  MaxTrx = 1
  TTL = 2
  NoStream = NoStream
SPECIFICATION FairSpec
INVARIANTS TypeOK ReportedIsLinked
PROPERTIES CachesConverge MarkedDisappears CachesCatchUp CachesFirst
