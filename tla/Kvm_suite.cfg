SPECIFICATION Suite
CONSTANTS
  Components = {"UserReturnMsr", "LoadedVmcs", "SvmAsid", "DirtyLog", "MasterClock",
                "StealTime", "AsyncPf", "ControlRegs", "Smbios", "MsrEmulation", "SvmEvents",
                "VendorInit", "RdtscHandler"}
  Vcpus = {v1, v2}
  Cpus = {c1, c2}
  None = None
  NoPage = NoPage
  Slots = {s1, s2}
  Pages = {p1, p2}
  Entries = 2
  MinAsid = 1
  MaxAsid = 2
  MaxGeneration = 2
  MaxEvents = 1
  Gfns = {1, 2, 3}
  Home <- MCHome
  Size = 4
  MaxNotifying = 2
  Unit = 2
  MaxLength = 32
  MaxOptions = 2
  MaxWrites = 2
  MaxFrames = 2
  Divisor = 2
  Half = 4
  MaxClock = 4
SYMMETRY Symmetry
INVARIANTS MsrsFollowMode OneCpu OwnTranslations NoWriteLost ClockConsistent FlushHonoured EveryPageArrives GuestModeKept  SnapshotHolds EventsKept NothingLeft SlowRate
PROPERTIES NeverAhead NeverBack
