\* One run after another over two parts; one of each disturbance.
CONSTANTS
  plate = plate
  cup = cup
  tray = tray
  place = place
  bin = bin
  left = left
  right = right
  leftArm = leftArm
  rightArm = rightArm
  camera = camera
  cloudArm = cloudArm
  None = None
  Objects = {plate, cup}
  Zones = {tray, place, bin}
  Arms = {left, right}
  Devices = {leftArm, rightArm, camera}
  Target <- MCTarget
  InitialZone <- MCStaged
  Fallback = {}
  Hosts <- MCHosts
  ArmOf <- MCArmOf
  Rank <- MCRank
  Local = {leftArm, rightArm, camera}
  EnvelopeForbidden = {}
  EnvelopeOps <- MCOps
  EnvelopeLocalOnly = FALSE
  SameOrg = TRUE
  ObjectOrder <- MCOrder
  Reach <- MCReach
  PlansFor <- RulePlans
  StrictPlansFor <- NoStrictPlans
  FleetSeam = FALSE
  Faults <- MCFaults
  Offered <- MCOffered
  MaxRevisions = 2
  MaxRuns = 1
  MaxQueued = 1
  MaxReported = 0
  MaxPerturbed = 1
  MaxToggled = 1
  MaxDisturbed = 3
  Items = 1
  Exact = {1}
  Posed = {plate}
  Staging = bin
  Guests = 2
  IdOf <- MCIdOf
  SeatZone <- MCSeatZone
SPECIFICATION FairMissionSpec
INVARIANTS
  IdentityBoundsAuthority
  ReportEarned
PROPERTIES
  RunTerminates
CHECK_DEADLOCK FALSE
