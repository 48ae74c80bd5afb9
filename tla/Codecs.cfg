CONSTANTS
  B = 2
  FirstWidth = 3
  LastWidth = 4
  MaxDictionaryCode = 9
  MaxRun = 3
  Tiles <- SmallTiles
  MaxNoise = 5
SPECIFICATION Spec
INVARIANTS TypeOK Decoded InStep DecoderSafe
