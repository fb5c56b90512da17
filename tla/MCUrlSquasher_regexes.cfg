SPECIFICATION FairSpec
CONSTANTS
  a = a
  b = b
  x = x
  y = y
  z = z
  dots = dots
  f1 = f1
  f2 = f2
  Segments = {a, b, x, y, z}
  Dots = dots
  Urls <- NewsAndStatic
  Configured <- Static
  Seeds <- Seed
  Factor = 12
  MaxSegments = 3
  Flushers = {f1}
  MayFail = TRUE
  MaxDocs = 4
  MaxCrashes = 1
INVARIANTS
  TypeOK
  UrlsKeepTheirPlace
  WildcardsAreEarned
PROPERTIES
  RegexesAreLearned
