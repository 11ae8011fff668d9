SPECIFICATION Spec
CONSTANTS
  r1 = r1
  r2 = r2
  r3 = r3
  NoRequest = NoRequest
  p = p
  Requests = {r1, r2, r3}
  Projects = {p}
  LegacyProjects = {p}
  Cap = 3
  MaxPush = 1
  Modes = {"fetch"}
SYMMETRY Symmetry
INVARIANTS OneFetchPerProject
CHECK_DEADLOCK FALSE
