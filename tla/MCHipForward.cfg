\* Two threads, one stream beside the null stream, two events, two operations,
\* two exported descriptors.
SPECIFICATION MCFairSpec
CONSTANTS
  Threads = {t1, t2}
  LibraryErrors = {801}
  Streams = {s1}
  Events = {e1, e2}
  NullStream = NullStream
  NoEvent = NoEvent
  MaxWork = 2
  Buffers = {b1, b2}
  Textures = {x1}
  FdExtension = TRUE
  Foreign = Foreign
  MaxFds = 2
INVARIANTS
  TypeOK
  SyncTellsTruth
  ErrorKeptUntilRead
  ImportDenotes
PROPERTIES
  ImplementsStreamOrder
  CallsReturn
