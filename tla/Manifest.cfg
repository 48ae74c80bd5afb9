CONSTANTS
  Namespaces = {pds}
  MaxAdded = 3
  MaxLinks = 1
  AxisKinds = {"x", "band"}
  Extents = {0, 5}
  MaxAxes = 2
  MaxExact = 4
  Versions = {5}
  ExternalIds <- SmallIds
  Samples <- SmallSamples
  CharOf <- MCCharOf
  MaxInteger = 1000
  MaxDepth = 5
SPECIFICATION ManifestSpec
INVARIANTS ManifestTypeOK DocumentLossless TextReadsBack OrderFree
