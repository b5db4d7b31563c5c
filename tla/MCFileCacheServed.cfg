\* Two commands of one registry on an empty cache; nothing fails.
SPECIFICATION Spec
CONSTANTS
  Client = {c1, c2}
  Offline = {}
  Elsewhere = {}
  here = here
  there = there
  Digest <- MCDigest
  Upstream <- MCUpstream
  Chunks = 2
  Absent = Absent
  Incomplete = Incomplete
  Faults = FALSE
INVARIANT ServedIntact
