SPECIFICATION Spec
CONSTANTS
  NKeys = 2
  Contents = {1, 2, 3}
  SizeOf <- ThreeSizes
  MaxChange = 1
INVARIANTS TypeOK QuietVerdictIsExact RetryForgives
CHECK_DEADLOCK FALSE
