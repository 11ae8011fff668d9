SPECIFICATION FairSpec
CONSTANTS
  NoRequest = 0
  p = p
  Requests = {1, 2, 3}
  Projects = {p}
  LegacyProjects = {p}
  Cap = 2
  MaxPush = 1
  Modes = {"fetch", "dryrun"}
ACTION_CONSTRAINT InOrder
INVARIANTS TypeOK SlotAccounting PendingIsRunning SupersededIsCovered AcceptedIsServed
PROPERTIES ImplementsPool SlotsComeBack
CHECK_DEADLOCK FALSE
