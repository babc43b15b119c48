SPECIFICATION Spec
CONSTANTS
  Puller = puller
  Controllers = {c1}
  Params = {h264, h265}
  BadParams = {}
  None = None
  MaxSamples = 4
  SubmitResults = {"ok"}
  Pressure = FALSE
INVARIANTS
  GOPDecodable
