SPECIFICATION Spec
CONSTANTS
  Threads = {t1}
  Lifecycle = {t1}
  Launchers = {}
  Fds = {f1, f2}
  NoFd = NoFd
  NoCall = NoCall
  OldMocha = OldMocha
  NoCfw = NoCfw
  Payloads <- AllPayloads
  MayFail <- AnyFailure
PROPERTIES
  InitSuccessIsInitialized
