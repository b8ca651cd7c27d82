CONSTANTS
  owner = owner
  visitor = visitor
  MaxEvent = 2
  Streams = {v1}
  Subjects <- MCSubjects
  Contents <- MCContents
  Registered = {owner}
  Ttl = 0
  MaxTime = 1
  MaxFaults = 1
  ExitOnRejection = TRUE
SPECIFICATION Spec
INVARIANTS SavedIsOwn ToldHasPicture
PROPERTIES DownNeedsCause EventIsSaved GateOpens OldFilesGo
