\* Three clients of one registry, one of them offline, with every fault at every step.
SPECIFICATION Spec
CONSTANTS
  Client = {c1, c2, c3}
  Offline = {c3}
  Elsewhere = {}
  here = here
  there = there
  Digest <- MCDigest
  Upstream <- MCUpstream
  Chunks = 2
  Absent = Absent
  Incomplete = Incomplete
  Faults = TRUE
INVARIANTS TypeOK MissingAnsweredFor WarmServed
PROPERTIES RestingKept EntryCompletes
