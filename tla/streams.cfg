SPECIFICATION StreamsSpec
CONSTANTS
  Speakers = {"S1", "S2"}
  Operators = {"S1"}
  Speech <- MCSpeech
  MaxHeard = 3
  MaxPartials = 1
  MaxSpan = 3
  MaxUtterances = 3
  InterruptHandled = TRUE
  NoValue = NoValue
  engineThread = engineThread
  httpThread = httpThread
  Worker = engineThread
  HttpThreads = {httpThread}
  MaxEvents = 1
  MaxConstraints = 1
  MaxBreaks = 2
  a1 = a1
  a2 = a2
  a3 = a3
  r1 = r1
  r2 = r2
  grip = grip
  lift = lift
  guest = guest
  s1 = s1
  s2 = s2
  s3 = s3
  booking = booking
  f1 = f1
  None = None
  Nil = Nil
  Arms = {a1, a2, a3}
  Manipulators = {a1, a2, a3}
  Regions = {r1, r2}
  Capabilities = {grip, lift}
  Can <- MCCan
  Covers <- MCCovers
  Preferred <- MCPairs
  Owners = {guest, s1, s2, s3}
  Names = {booking, s1, s2, s3}
  FaultIds = {f1}
  Clients = {guest}
  Steps = {s1, s2, s3}
  Schedules <- MCSchedules
  Requests <- MCRequests
  ClientLeases <- MCClientLeases
  Failures <- MCFailures
  MaxCalls = 7
  Items <- MCItems
  ItemKind <- MCItemKind
  Views <- MCViews
  Ghosts <- MCGhosts
  Cells = {0, 1, 2, 3, 4, 5, 6, 7}
  ZoneOf <- MCZoneOf
  HomeOf <- MCHomeOf
  Stride = 1
  KeptApart = 6
  Blur = 1
  MergeRadius = 2
  MinVotes = 2
  SureAt = 9
  SameBox = 0
  Gate = 3
  MaxMisses = 1
  MaxFrames = 3
  armL = a1
  armR = a2
  armE = a3
  cup = cup
  dish = dish
  Left = {a1}
  Zones <- MCZones
  Center = "centre"
  X <- MCX
  OverlapWidth = 15
  Jobs <- MCJobs
INVARIANTS
  NamesStay
  BrowserFollows
  SpeechIntact
  SnapshotsSound
  NothingLeaks
  WaveIsExclusive
  WavesSound
  OneObjectPerArm
PROPERTIES
  StreamCloses
  SpeechSettles
  PlanIsExecuted
  OthersKeepLeases
  GivesUpOnlyWhenForced
CHECK_DEADLOCK FALSE
