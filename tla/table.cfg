SPECIFICATION Spec
CONSTANTS
  left = left
  right = right
  plate = plate
  cup = cup
  fork = fork
  drawer = drawer
  None = None
  Arms <- MCArms
  Objects <- MCObjects
  Bimanual <- MCBimanual
  Drawers <- MCDrawers
  DrawerOf <- MCDrawerOf
  DrawerArm <- MCDrawerArm
  Order <- MCOrder
  DefaultArm <- MCDefaultArm
  Reach <- MCReach
  MayFail <- MCMayFail
  RealDrawers = FALSE
  MaxTries = 2
  MaxDefer = 3
  MaxRevisions = 4
INVARIANTS
  GripMatchesClaim
  StepWaitsForAll
  EveryoneTried
PROPERTIES
  TableRunEnds
CHECK_DEADLOCK FALSE
