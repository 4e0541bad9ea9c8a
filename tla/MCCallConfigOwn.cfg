\* Two threads, no race for the lock needed: what the comment promises.
SPECIFICATION Spec
CONSTANTS
  Threads = {t1, t2}
  NoThread = NoThread
  StackSize = 2
INVARIANT ThreadGetsOwnConfig
