CONSTANTS
  a = a
  b = b
  bin = bin
  end = end
  Payloads = {a, b, bin, end}
  Text = {a, b, end}
  Ending = {end}
  CompLen <- MCCompLen
  ShapeLens <- MCShapeLens
  Slack = 1
  Scan = 4
  Backends = {"openexr"}
  ModelLists <- Documents
  PayloadsOf <- SafePayloads
  Careful = {"zarr", "openexr"}
  MaxFaults = 1
  Garbled = Garbled
  Refused = Refused
  Unknown = Unknown
SPECIFICATION Spec
INVARIANTS WriteReturns
\* an image list the backend refuses ends the behavior
CHECK_DEADLOCK FALSE
