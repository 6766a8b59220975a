SPECIFICATION Spec
CHECK_DEADLOCK FALSE
CONSTANTS
  r1 = r1  r2 = r2  s1 = s1  s2 = s2  s3 = s3  i1 = i1  i2 = i2
  Readers = {r1, r2}
  Owning = {2}
  TextSize <- MCTextSize
  MaxEntry = 3
  MaxTotal = 2
  MaxEdits = 2
  MaxGates = 1
  Viewers = {s1, s2, s3}
  Images = {i1, i2}
  ImageSize <- MCImageSize
  MaxWebPBytes = 2
  MaxFaults = 1
INVARIANTS LimitsExact GateAsked ImagesWhole
PROPERTIES CachedIsCurrent
