SPECIFICATION Spec
CONSTANTS
  p3 = p3  h1 = h1  h2 = h2
  Processes = {p1, p2}
  Host <- MCHost
  NoFile = NoFile
  MaxCrashes = 0
  MaxErrors = 0
INVARIANT SingleOwner
