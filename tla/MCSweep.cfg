SPECIFICATION FairSpec
CONSTANTS
  GitMode = "rsync"
  Backend = "fs"
  HasRegistry = FALSE
  RegistryFS = FALSE
  ApiEnabled = TRUE
  FSPaths <- TwoPaths
  Items = {x}
  NoSrc = {"artifacts"}
  NoDst = {}
INVARIANTS TypeOK SweepIsComplete OneCallAfterCancel
PROPERTIES OKMeansMirrored KeepsSweeping
CHECK_DEADLOCK FALSE
