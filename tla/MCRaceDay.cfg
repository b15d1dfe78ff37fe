CONSTANTS
  Parts = {"process", "sources", "streams", "connections", "simulator", "testClient", "page", "live", "projection",
           "feed", "wall"}
  v1 = v1
  v2 = v2
  displayed = displayed
  NoChild = none
  MaxRestarts = 1
  MaxLaunches = 3
  MaxBreakdowns = 1
  RetryMax = 1
  Lines = 2
  MaxLoads = 2
  Viewers = {v1, v2}
  Current = displayed
  ChannelOf <- MCChannelOf
  Races = {1, 2}
  Values = {0, 1}
  Null = none
  MaxChanges = 2
  MaxDrops = 1
  Decoders = {d1, d2}
  MaxWishes = 3
  MaxUpsets = 2
  Docs = {a, b}
  NoDoc = none
  MaxRev = 3
  MaxTurns = 2
  MaxOutages = 1
  MaxUpdates = 1
  FirstSources = {"auto", "java"}
  BackoffAt = 1
  MaxPolls = 2
  MaxHappenings = 2
  Setups = {setupA, setupB}
  Pools = {pool}
  Absent = absent
  MaxSeq = 1
  MaxMoves = 2
  Configs = {1, 2, 3}
  NoTransponders = {3}
  NoProcess = 0
  Installed = TRUE
  MaxProcesses = 3
  MaxSimEdits = 3
  NoConnection = 0
  MaxConnections = 3
  MaxSearches = 1
  d1 = d1
  d2 = d2
  p1 = p1
  p2 = p2
  p3 = p3
  Passings = {p1, p2, p3}
  DecoderOf <- MCDecoderOf
  Batches <- MCBatches
  StreamPage = 1
  NoKey = none
  MaxUploads = 2
  MaxConfigs = 2
  MaxFaults = 2
  Walls = {w1, w2}
  NoWall = none
  WallSettings <- MCWallSettings
  NoSettings = none
  NoField = none
  WallRaces <- MCWallRaces
  WallResults <- MCWallResults
  NoRace = none
  MaxWallChanges = 4
SPECIFICATION FairSpec
INVARIANTS TypeOK ServiceManaged LiveOnlyAsSource ViewersFaithful StatusTruthful FeedReflectsStore
PROPERTIES StopEnds LiveRecovers ScreensConverge WantedConnects OperatorDecides FeedConverges
CHECK_DEADLOCK FALSE
