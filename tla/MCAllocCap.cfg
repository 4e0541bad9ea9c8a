\* Two threads, two table slots, three addresses; a request of 7 wraps the
\* 8-value word once anything is outstanding.
SPECIFICATION Spec
CONSTANTS
  Threads = {t1, t2}
  Ptrs = {p1, p2, p3}
  NoPtr = NoPtr
  Sizes = {1, 2, 7}
  EnvCap = 3
  MaxTracked = 2
  DeviceBytes = 4
  WordSize = 8
SYMMETRY Symmetric
INVARIANTS
  TypeOK
  NoTableOverrun
  SerialAccounting
  CapHonoured
