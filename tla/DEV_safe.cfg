SPECIFICATION DevicesSpec
CHECK_DEADLOCK FALSE
CONSTANTS
  ChunkSectors = 4
  MaxSectors = 3
  Sectors = 4
  MaxRetries = 3
  MaxTransfers = 3
  MaxFaults = 3
  MaxDrives = 2
  NumEhciPorts = 2
  NumBlocks = 6
  MaxGivenUp = 3
  XhciSlots = 3
  EventSlots = 2
  MaxReports = 3
  MaxBeside = 1
  MaxIos = 1
  MaxBad = 1
  StartDates <- DatesShown
  SecondsPerMinute = 2
  MinutesPerHour = 2
  HoursPerDay = 2
  Word = 15000
  MaxTicks = 2
  PciDevices = 2
  PciFunctions = 2
  MaxPciDevices = 5
  DriveNo = 1
  SectorsPerTrack = 2
  NoOfHeads = 2
  Tracks = 2
  SectorBytes = 2
  DmaWord = 8
  MaxRequests = 2
  QueueSize = 2
  MaxEvents = 4
  UserProcs = {"p", "q", "r"}
INVARIANTS DevicesTypeOK HardwareIsAsTaken RequestsAreAnswered MovedAsAsked DatesAreRight InputGetsThrough
