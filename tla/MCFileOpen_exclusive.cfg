SPECIFICATION Spec
CONSTANTS
  Callers = {c1, c2}
  FdSet = {f1, f2, f3}
  NoFd = NoFd
  MayFail = {}
PROPERTIES
  ExclusiveOpenCreates
