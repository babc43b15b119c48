SPECIFICATION FairSpec
CONSTANTS
  Puller = puller
  Controllers = {c1, c2}
  Params = {h264, h265, bad}
  BadParams = {bad}
  None = None
  MaxSamples = 3
  SubmitResults = {"ok", "error"}
  Pressure = TRUE
INVARIANTS
  GOPWellFormed
  JobsDistinct
  InitCarriedOnce
PROPERTIES
  CallsReturn
