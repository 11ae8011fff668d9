SPECIFICATION Spec
CONSTANTS
  GitMode = "rsync"
  Backend = "s3"
  HasRegistry = FALSE
  RegistryFS = FALSE
  ApiEnabled = FALSE
  FSPaths <- NoPath
  Items = {x}
  NoSrc = {}
  NoDst = {}
INVARIANTS PromotedWritesSurvive
CHECK_DEADLOCK FALSE
