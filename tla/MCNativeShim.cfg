\* Two threads; two tokens, one of which is no bundle; tables of two entries (one
\* for variables), so that each can be full.  No symmetry: the run checks
\* liveness and the refinement too.
SPECIFICATION FairSpec
CONSTANTS
  Threads = {t1, t2}
  NoThread = NoThread
  Tokens = {d1, d2}
  Bundles = {d1}
  Hosts = {h1}
  k1 = k1
  k2 = k2
  Names = {k1, k2}
  NumLibs = 2
  Exports <- Exports2
  MaxEntries <- Limits
  MaxModules = 2
  NoValue = NoValue
INVARIANTS
  TypeOK
  ResolvedBeforeUse
  NameMatchesLaunch
PROPERTIES
  LoadedOnce
  ImplementsSymbolTable
  InitMutexReleased
