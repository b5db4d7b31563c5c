\* Three processes, one command each, in every interleaving, with deaths and I/O
\* errors, in a directory with and without a lock file.
SPECIFICATION Spec
CONSTANTS
  Proc = {p1, p2, p3}
  Package = {a}
  Absent = Absent
  Incomplete = Incomplete
  Contents <- MCContents
  NoPackages <- MCNoPackages
  InitialFile <- MCAnyFile
  Faults = TRUE
  MaxSessions = 1
INVARIANTS TypeOK HeldFile
PROPERTIES SerialStore SessionsEnd
