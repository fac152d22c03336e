SPECIFICATION Spec
CONSTANTS
  Threads = {t1, t2}
  Lifecycle = {t1}
  Launchers = {t2}
  Fds = {f1, f2, f3}
  NoFd = NoFd
  NoCall = NoCall
  OldMocha = OldMocha
  NoCfw = NoCfw
  Payloads <- AllPayloads
  MayFail <- AnyFailure
SYMMETRY Symmetric
INVARIANTS
  TypeOK
  VersionGate
  HaxHandleValid
  HandlesBalanced

  
