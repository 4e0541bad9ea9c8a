\* Three launching threads and room for two configurations, so that a push can
\* find the stack full.
SPECIFICATION Spec
CONSTANTS
  Threads = {t1, t2, t3}
  NoThread = NoThread
  StackSize = 2
SYMMETRY Symmetric
INVARIANTS
  TypeOK
  MutualExclusion
  LockNotLeaked
  DepthCountsLaunches
  EachConfigLaunchedOnce
  OwnConfigWhenAlone
PROPERTY NoStaleError
