CONSTANTS
  Parts = {"finish"}
  RaceIds = {5, 6}
  NoRaceId = 0
  MaxRaces = 1
  MaxRaceObjects = 4
  MaxLaps = 3
  MaxClock = 4
  MaxCorrections = 1
  LogRaces = {1, 2}
  NoRace = 0
  Riders = {7, 8}
  Times = {1, 2}
  Positions = {1, 2}
  PerRace = 2
  MaxLogRaces = 1
  Burst = 1
  MaxLogLines = 4
  Track <- MCTrack
  ClockOffset <- MCClockOffset
  Athletes <- MCAthletes
  PassingTimes = {0, 1, 2, 3, 4, 5, 6}
  DebounceTime = 2
  MinSectorTime = 1
  LeastLapTime = 3
  KeepLapTimes = 1
  MaxStored = 4
  Bibs = {1, 2, 3}
  Recordable <- MCRecordable
  FinishRanks = {0, 1, 2}
  MaxEdits = 3
  Frames <- MCFrames
  MaxSends = 2
  MaxCuts = 1
  Entered = {1, 2}
  Feeds <- MCFeeds
  MaxInputs = 3
  MaxNews = 2
  MaxRank = 2
  MaxOthers = 1
  MaxPageInputs = 2
  Pools = {pool1, pool2}
  NoPool = none
  NoBib = 0
  Names = {"x", "y", "z"}
  Imports <- MCImports
  Typed <- MCTyped
  FirstRows <- MCFirstRows
  Events = {event1, event2}
  Copy = copy
  None = none
  AgeGroups = {group}
  EventNames = {"b"}
  NoName = ""
  ImportName = "a"
  CopyName = "copy of a"
  NoGroup = ""
  MaxStage = 2
  StarterRaces = {1, 2}
  NotNamed = ""
  NoFile = ""
  Files <- MCFiles
  TypedStarters <- MCTypedStarters
  FirstStarters <- MCFirstStarters
  Visualizations = {vis1, vis2, vis3}
  Looks = {"dark", "light"}
  DefaultLook = "dark"
  TableColumns = {"bib", "lap"}
  Blank = ""
  MaxColumns = 2
  FileId = vis1
  FileDoc <- MCFileDoc
  Activities = {1, 2}
  Recordings <- MCRecordings
  TypedLaps = {0}
  TypedBibs = {{2}}
  Invalid = invalid
  Setups = {"s1", "s2"}
  NoSetup = "none"
  FirstSetups <- MCFirstSetups
  SetupNames = {"a"}
  Unlisted = unlisted
  TimingPoints = {"p1", "p2", "p3"}
  NewDistance = 100
  TypedDistances = {0}
  TypedLengths = {250}
  NoId = noId
  NoIp = noIp
  Addresses = {"ip1"}
  FirstRegister <- MCFirstRegister
  FoundDecoders <- MCFoundDecoders
SPECIFICATION Spec
INVARIANT ClicksCurrent
CHECK_DEADLOCK FALSE
