\* A thread each of two games, so that one can find the daemon busy with the
\* other; a body length that wraps to 1; no symmetry, for liveness.
SPECIFICATION FairSpec
CONSTANTS
  t1 = t1
  t2 = t2
  c1 = c1
  c2 = c2
  Threads = {t1, t2}
  NoThread = NoThread
  Clients = {c1, c2}
  NoClient = NoClient
  Home <- TwoHomes
  Hosts = {h1}
  Lens = {1, 9}
  MaxBody = 2
  FrameMod = 8
  MaxCalls = 3
  MaxCrashes = 1
CHECK_DEADLOCK FALSE
PROPERTY CallReturns
