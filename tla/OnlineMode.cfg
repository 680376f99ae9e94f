SPECIFICATION FairSpec
CONSTANTS
  Pages = {p1, p2}
  Faults = {"refused", "closed", "silent"}
  MaxFlight = 1
  MaxDrift = 1
PROPERTIES RefreshesUnlessDropped Reconnects
