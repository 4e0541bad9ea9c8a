\* Two threads of one game and one crash of the daemon.  Of the body lengths, 1
\* is in order and 3 is longer than the sanity cap.
SPECIFICATION Spec
CONSTANTS
  t1 = t1
  t2 = t2
  c1 = c1
  c2 = c2
  Threads = {t1, t2}
  NoThread = NoThread
  Clients = {c1}
  NoClient = NoClient
  Home <- OneHome
  Hosts = {h1}
  Lens = {1, 3}
  MaxBody = 2
  FrameMod = 8
  MaxCalls = 4
  MaxCrashes = 1
SYMMETRY Symmetric
CHECK_DEADLOCK FALSE
INVARIANTS
  TypeOK
  OwnResponse
  HandleDenotes
  KnownIsLive
PROPERTY AtMostOnce
