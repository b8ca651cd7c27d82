\* Every stream has a timeout of two ticks; one chain and two concurrent requests.
CONSTANTS
  Streams = {s1}
  Tasks = {t1, t2}
  Clients = {c1, c2}
  Configs <- TimedConfigs
  NoConfig = NoConfig
  NoDeadline = NoDeadline
  NoStream = NoStream
SPECIFICATION Spec
INVARIANT RunningHasDeadline
