\* A constraint queued while the queue is being applied.
CONSTANTS
  plate = plate
  cup = cup
  tray = tray
  place = place
  bin = bin
  left = left
  right = right
  leftArm = leftArm
  rightArm = rightArm
  camera = camera
  cloudArm = cloudArm
  None = None
  Objects = {plate}
  Zones = {tray, place}
  Arms = {left, right}
  Devices = {leftArm, rightArm, camera}
  Target <- MCTarget
  InitialZone <- MCInitial
  Fallback = {}
  Hosts <- MCHosts
  ArmOf <- MCArmOf
  Rank <- MCRank
  Local = {leftArm, rightArm, camera}
  EnvelopeForbidden = {}
  EnvelopeOps <- MCOps
  EnvelopeLocalOnly = FALSE
  SameOrg = TRUE
  ObjectOrder <- MCOrder
  Reach <- MCReach
  PlansFor <- RulePlans
  StrictPlansFor <- NoStrictPlans
  FleetSeam = FALSE
  Faults <- MCFaults
  Offered <- MCOffered
  MaxRevisions = 2
  MaxRuns = 1
  MaxQueued = 2
  MaxReported = 0
  MaxPerturbed = 0
  MaxToggled = 0
  MaxDisturbed = 2
  Items = 1
  Exact = {1}
  Posed = {plate}
  Staging = tray
  Guests = 1
  IdOf <- MCIdOf
  SeatZone <- MCSeatZone
SPECIFICATION MissionSpec
INVARIANT
  NoConstraintLost
CHECK_DEADLOCK FALSE
