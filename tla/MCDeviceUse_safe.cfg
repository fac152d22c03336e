SPECIFICATION UseSpec
CONSTANTS
  Users = {u1, u2}
  Torn = Torn
  NoUse = NoUse
  NoFile = NoFile
  Apart = TRUE
  NSlots = 2
  Threads = {t1}
  Names = {ShortName}
  Devs = {SdDev}
  Paths = {SdPath, UsbPath}
  SdDevs = {SdDev}
  SdPaths = {SdPath}
  Clients = {c1, c2}
  PreMounted = {SdPath}
  SdDev = SdDev
  UsbDev = UsbDev
  LongName = LongName
  ShortName = ShortName
  UsbPath = UsbPath
  SdPath = SdPath
  NoClient = NoClient
  NoDev = NoDev
  NoSlot = NoSlot
  NoThread = NoThread
  NoReq = NoReq
  NoName = NoName
  NoPath = NoPath
  RootDir = RootDir
  NameBuf <- Untruncated
  PathBuf <- PathsKept
  SectorSizes <- OneSectorSize
  MayFail <- Recoverable
INVARIANTS
  UseTypeOK
  
  DivisorNotZero
  
  
  SdFlagExact
PROPERTIES
  LockReleased
