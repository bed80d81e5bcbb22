SPECIFICATION Spec
CONSTANTS
  Sales = {s1, s2}
  Keys = {s1}
  Procs = {p1, p2}
  Total = 1
  MaxRequests = 3
  None = None
  MaxJobs = 2
  Workers = 2
  Attempts = 2
  MaxCrashes = 1
INVARIANTS ReceiptsOK AnnouncedIsTrue
PROPERTY SettledMailStays
SYMMETRY Perms
