\* Two storages, three sends to a consumer, files of two counters.
CONSTANTS
  Mems = {m1, m2}
  Sends = {s1, s2, s3}
  Consumers = {c1}
  Files = {f1, f2, f3}
  FileSize = 2
  MaxKernels <- KernelsInOverlap
  NoSend = NoSend
  NoFile = NoFile
  Overlaps = {TRUE, FALSE}
SPECIFICATION Spec
INVARIANTS CountersMapped Bookkeeping
PROPERTIES Implements CollectFrees
CHECK_DEADLOCK FALSE
SYMMETRY Symmetry
