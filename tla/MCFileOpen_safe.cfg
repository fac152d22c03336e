SPECIFICATION Spec
CONSTANTS
  Callers = {c1, c2}
  FdSet = {f1, f2, f3}
  NoFd = NoFd
  MayFail <- AnyFailure
SYMMETRY Symmetric
INVARIANTS
  TypeOK
  HandlesOwned

  
