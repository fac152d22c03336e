SPECIFICATION Spec
CONSTANTS
  NSlots = 2
  Threads = {t1}
  Names = {ShortName, LongName}
  Devs = {SdDev, UsbDev}
  Paths = {SdPath, UsbPath}
  SdDevs = {SdDev}
  SdPaths = {SdPath}
  Clients = {c1, c2, c3}
  PreMounted = {SdPath}
  SdDev = SdDev
  UsbDev = UsbDev
  ShortName = ShortName
  LongName = LongName
  UsbPath = UsbPath
  SdPath = SdPath
  NoClient = NoClient
  NoDev = NoDev
  NoSlot = NoSlot
  NoThread = NoThread
  NoReq = NoReq
  NoName = NoName
  NoPath = NoPath
  RootDir = RootDir
  NameBuf <- Untruncated
  PathBuf <- PathsKept
  SectorSizes <- OneSectorSize
  MayFail <- AnyFailure
INVARIANTS
  SdFlagExact
