\* Two days; the server is a tick east of Greenwich.
CONSTANTS
  Day = 4
  Zone = 1
  Locations = {0, 1, 2}
  Gap = 2
  MaxTime = 8
  MaxGOP = 3
  OldSets <- MCOldSets
SPECIFICATION Spec
INVARIANTS CopiesAgree RangeComplete RangesExact RangesFound
