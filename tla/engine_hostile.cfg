\* An untrusted planner, fleet faults, two runs.
CONSTANTS
  plate = plate
  tray = tray
  place = place
  cup = cup
  bin = bin
  left = left
  right = right
  leftArm = leftArm
  rightArm = rightArm
  camera = camera
  cloudArm = cloudArm
  None = None
  Objects = {plate, cup}
  Zones = {tray, place}
  Arms = {left, right}
  Devices = {leftArm, rightArm, camera, cloudArm}
  Target <- MCTarget
  InitialZone <- MCInitial
  Fallback = {cup}
  Hosts <- HostileHosts
  ArmOf <- MCArmOf
  Rank <- HostileRank
  Local = {leftArm, rightArm, camera}
  EnvelopeForbidden = {}
  EnvelopeOps <- HostileOps
  EnvelopeLocalOnly = FALSE
  SameOrg = TRUE
  PlansFor <- HostilePlans
  StrictPlansFor <- HostileStrict
  FleetSeam = TRUE
  Faults <- HostileFaults
  Offered <- HostileOffered
  MaxRevisions = 0
  MaxRuns = 2
  MaxQueued = 1
  MaxReported = 2
  MaxPerturbed = 1
  MaxToggled = 1
  MaxDisturbed = 3
  ObjectOrder <- MCOrder
  Reach <- MCReach
  Items = 1
  Exact = {}
  Posed = {}
  Staging = tray
  Guests = 2
  IdOf <- MCIdOf
  SeatZone <- MCSeatZone
SPECIFICATION MissionSpec
INVARIANTS
  GraphCurrent
PROPERTIES
  GovernedEffect
  HoldIsFinal
CHECK_DEADLOCK FALSE
