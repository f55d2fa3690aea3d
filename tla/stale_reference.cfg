SPECIFICATION ServicesSpec
CONSTANTS
  HandoffRuns = 2
  HandoffBudget = 2
  Skills = {k1, k2}
  Residual = {k1}
  Bound = {k1, k2}
  Lower = 0
  Upper = 2
  MaxDelta = 2
  MaxScale = 2
  Proposals <- MCProposals
  SkillRevisions = 1
  Bytes <- MCBytes
  Envelopes = {0, 1, 2, 3, 4, 5, 6}
  Hysteresis = 1
  MaxChanges = 5
  Kind <- MCKind
  ArmLabels <- MCArmLabels
  ZoneAt <- MCZoneAt
  MaxMissed = 1
  Unnamed = Unnamed
  HandCells = {2, 3}
  ArmCell = 1
  ObjectCell = 3
  ObjectName <- MCObjectName
  Labels <- MCLabels
  From = "table"
  To = "setting"
  ReactorBudget = 2
  MaxSights = 4
  EngineGiven = TRUE
  r1 = r1
  r2 = r2
  r3 = r3
  None = None
  Runs = {r1, r2, r3}
  MaxStarts = 4
  MaxSteps = 2
  MaxCrashes = 2
  Members <- MCMembers
  Extra = {"x1"}
  OpenImages <- MCBucket
  Dump = {"d1", "d2"}
  DHash <- MCPrint
  Sha <- MCPrint
  Tolerance = 1
  Classes = {"cup", "drawer"}
  Boxes <- MCBoxes
  Rank <- MCRank
  Batch = 2
  MinPerClass = 1
  Size = 2
  Wave = 2
  Cap = 1
  MaxTries = 3
  MaxImages = 2
  Jobs = {"val", "train", "oi", "pseudo", "merge", "combined", "context"}
  OutAgain = FALSE
  MaxBuilds = 3
  MaxKills = 1
  Nothing = Nothing
  Nobody = Nobody
  Things <- MCThings
  ThingOrder <- MCOrder
  ClassOf <- MCClass
  Goal <- MCGoal
  Begins <- MCBegins
  Surface <- MCSurface
  CanRun = {"SLIDE", "NUDGE", "SPIN"}
  Untouchable = {"knife"}
  RightThings = {"cup"}
  MustPrecede <- MCPrecede
  Preferred = Nobody
  InReach <- MCReach
  Tokens <- MCTokens
  Texts <- MCTexts
  PlannedBudget = 2
  Mutations <- MCMutations
  MaxSaid = 2
  Repeats = FALSE
  BlockSize = 2
  TopScale = 5
  Tensors <- MCWeights
  Origins <- MCOrigins
  Selected = {"conv"}
  Decaying = {"conv"}
  Gradients <- MCSteps
  Rate = 16384
  DecayBy = 50
  Beta = 9
  MaxUpdates = 2
  MaxPackages = 1
  Stations = {"u", "v", "w"}
  FirstStations = {"u", "v"}
  Waves <- MCWaves
  SettleTicks = 2
  MaxTicks = 3
  MaxWaves = 3
  MaxPrepares = 1
  MaxBreaks = 1
  NoFault = NoFault
  Absent = Absent
  Asked <- MCAsked
  Coordinated = {"LEAD", "FOLLOW"}
  Touching = {"SOFT_CONTACT"}
  Known = {"ARC", "LEAD", "FOLLOW", "SOFT_CONTACT"}
  Safe = {"safe_free"}
  Work <- MCWork
  Requests <- MCRequests
  Longest = 2
  ProviderLongest = 5
  MaxExpressive = 3
  MaxOutside = 2
  NoWindow = NoWindow
  Voices = {"S1", "S2"}
  Trusted = {"S1"}
  Objects = {"cup", "fork"}
  Scenes <- MCScenes
  Attached = {"interrupt", "dialogue"}
  Utterances <- MCUtterances
  LongestHold = 2
  MaxUttered = 3
  MaxMoved = 1
  Nil = Nil
  BundleWriters = {"w1", "w2"}
  RunDirs = {"run"}
  PartLists <- MCParts
  BadNames = {"manifest.json", "checksums.json", "../x"}
  MaxLog = 1
  MaxTouched = 1
  Legs = {"left", "right"}
  Artifacts <- MCArtifacts
  Intents <- MCIntents
  Fastest <- MCFastest
  NoNumber = NoNumber
  Unbound = Unbound
  MaxPhysics = 7
  Handlers = {h1, h2}
  SessionIds = {"i1", "i2"}
  Bodies <- MCBodies
  Posted = {"local", "left", "unjustified"}
  Permissible = {"local", "left"}
  Profiles = {"dinner"}
  Environments <- MCEnvironments
  MaxAsked = 2
  Nowhere = Nowhere
INVARIANT
  StaleNeverBinds
CHECK_DEADLOCK FALSE
