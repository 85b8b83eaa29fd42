\* One storage, sent once; a kernel of the consumer runs on another stream.
CONSTANTS
  Mems = {m1}
  Sends = {s1}
  Consumers = {c1}
  Files = {f1}
  FileSize = 1
  MaxKernels <- OneKernel
  NoSend = NoSend
  NoFile = NoFile
  Overlaps = {FALSE}
SPECIFICATION Spec
INVARIANTS NotFreedWhileUsed
CHECK_DEADLOCK FALSE
