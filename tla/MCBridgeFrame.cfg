\* No crash; a body of 9 bytes has a length that wraps to 1.
SPECIFICATION Spec
CONSTANTS
  t1 = t1
  t2 = t2
  c1 = c1
  c2 = c2
  Threads = {t1, t2}
  NoThread = NoThread
  Clients = {c1}
  NoClient = NoClient
  Home <- OneHome
  Hosts = {h1}
  Lens = {1, 9}
  MaxBody = 2
  FrameMod = 8
  MaxCalls = 3
  MaxCrashes = 0
CHECK_DEADLOCK FALSE
INVARIANT OwnResponse
