\* Two commands start in a directory without a lock file; nothing fails.
SPECIFICATION Spec
CONSTANTS
  Proc = {p1, p2}
  Package = {a}
  Absent = Absent
  Incomplete = Incomplete
  Contents <- MCContents
  NoPackages <- MCNoPackages
  InitialFile <- MCNoFile
  Faults = FALSE
  MaxSessions = 1
INVARIANT LoadParses
