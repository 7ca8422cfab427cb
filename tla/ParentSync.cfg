\* Three collectors, one of them set up wrongly; scans of two pages of two rows,
\* one row fewer than there are in the end.
SPECIFICATION ParentSpec
CONSTANTS
  k1 = k1
  k2 = k2
  k3 = k3
  a = a
  b = b
  Collector = {k1, k2, k3}
  Mapping = {a, b}
  config <- Configured
  Nobody = Nobody
  Unmapped = Unmapped
  MaxRows = 5
  Fate <- Fates
  PageSize = 2
  MaxPages = 2
SYMMETRY Interchangeable
INVARIANTS
  CompleteScanSawAll
  IncidentsFollow
  OneScan
PROPERTIES
  IsMirror
