\* One thread, so no race at all: only the full table is at stake.
SPECIFICATION Spec
CONSTANTS
  Threads = {t1}
  Ptrs = {p1, p2, p3}
  NoPtr = NoPtr
  Sizes = {1, 2}
  EnvCap = 3
  MaxTracked = 2
  DeviceBytes = 4
  WordSize = 8
INVARIANT CapConservative
