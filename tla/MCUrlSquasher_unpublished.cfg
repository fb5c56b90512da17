SPECIFICATION FairSpec
CONSTANTS
  a = a
  b = b
  x = x
  y = y
  z = z
  dots = dots
  f1 = f1
  f2 = f2
  Segments = {a, b, x, y, z}
  Dots = dots
  Urls <- News
  Configured = {}
  Seeds = {}
  Factor = 12
  MaxSegments = 3
  Flushers = {f1}
  MayFail = FALSE
  MaxDocs = 4
  MaxCrashes = 0
PROPERTIES
  SquashedIsPublished
