CONSTANTS
  Numbers = {"0", "1", "7", "8", "9", "identity"}
  Identity = "identity"
  KnownFrames = {"J2000", "IAU_MOON", "IAU_EARTH"}
  Projections = {"equirectangular", "sinusoidal"}
  LensKinds = {"pinhole", "fisheye"}
  Absent = Absent
  Malformed = Malformed
  Paths = {p, q}
  Contents = {"zero", "x"}
  Zero = "zero"
  Jobs <- ZeroedJobs
  ForeignFiles <- SmallFiles
  Built = {"None", "PackBits"}
  Sinks = {"s"}
  WithNul = {"odd"}
  NoFile = NoFile
  Null = Null
  Unknown = Unknown
  MaxWrites = 2
  MaxFaults = 1
  MaxHeld = 2
  MaxFiles = 2
SYMMETRY Symmetric
SPECIFICATION Spec
INVARIANTS SameCalibration
