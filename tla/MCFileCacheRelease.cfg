\* Two commands configured with different registries; nothing fails.
SPECIFICATION Spec
CONSTANTS
  Client = {c1, c2}
  Offline = {}
  Elsewhere = {c2}
  here = here
  there = there
  Digest <- MCDigest
  Upstream <- MCUpstream
  Chunks = 2
  Absent = Absent
  Incomplete = Incomplete
  Faults = FALSE
INVARIANT OwnRelease
