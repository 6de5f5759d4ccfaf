CONSTANTS
  Targets = {t1, fuzz}
  Required = {t1}
  Fuzz = fuzz
  Payloads = {p1, report}
  Report = report
  MaxList = 2
SPECIFICATION Spec
INVARIANT TypeOK
INVARIANT CoverageExact
CHECK_DEADLOCK FALSE
