SPECIFICATION Spec
CONSTANTS
  sd = sd
  usb = usb
  t1 = t1
  t2 = t2
  Discs = {sd, usb}
  Devices <- DevicesOfBoth
  Threads = {t1, t2}
  Uses <- OneEach
  Fds = {f1, f2, f3}
  RawFds = {r1, r2, r3}
  Loaded = Loaded
  NoFd = NoFd
  NoDisc = NoDisc
  FirstUseAlone = TRUE
INVARIANTS
  TypeOK
  IoReachesOwnDevice
  HandlesBalanced
