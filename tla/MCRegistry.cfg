SPECIFICATION Spec
CONSTANTS
  NRepos = 3
  Tags = {v1}
  CatalogMax = 2
  MaxChange = 1
INVARIANTS TypeOK OKMeansAllCompared
PROPERTIES ImplementsCall
CHECK_DEADLOCK FALSE
