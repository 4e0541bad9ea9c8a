\* One thread, and a library that fails calls with an invalid value (1) as well
\* as with 801: what the documentation says of a reported 801.
SPECIFICATION MCSpec
CONSTANTS
  Threads = {t1}
  LibraryErrors = {1, 801}
  Streams = {s1}
  Events = {e1}
  NullStream = NullStream
  NoEvent = NoEvent
  MaxWork = 2
  Buffers = {b1}
  Textures = {x1}
  FdExtension = TRUE
  Foreign = Foreign
  MaxFds = 1
PROPERTY NotSupportedIsGenuine
