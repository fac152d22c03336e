SPECIFICATION Spec
CONSTANTS
  NSlots = 2
  Threads = {t1, t2}
  Names = {ShortName, LongName}
  Devs = {UsbDev}
  Paths = {SdPath, UsbPath}
  SdDevs = {}
  SdPaths = {}
  Clients = {c1, c2}
  PreMounted = {SdPath}
  SdDev = SdDev
  UsbDev = UsbDev
  ShortName = ShortName
  LongName = LongName
  UsbPath = UsbPath
  SdPath = SdPath
  NoClient = NoClient
  NoDev = NoDev
  NoSlot = NoSlot
  NoThread = NoThread
  NoReq = NoReq
  NoName = NoName
  NoPath = NoPath
  RootDir = RootDir
  NameBuf <- NamesCut
  PathBuf <- PathsKept
  SectorSizes <- OneSectorSize
  MayFail <- AnyFailure
INVARIANTS
  TypeOK
  PublishedDeviceReady
  ClientsOwned
  ForeignMountsKept
PROPERTIES
  SetupSlotsStable
  RefinesRegistry
