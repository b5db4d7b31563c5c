\* Two of everything that runs at once; three dependencies, two fetches, three calls.
SPECIFICATION Spec
CONSTANTS
  p1 = p1
  p2 = p2
  r1 = r1
  r2 = r2
  host = host
  ns = ns
  ns2 = ns2
  pkg = pkg
  pkg2 = pkg2
  t1 = t1
  t2 = t2
  g1 = g1
  g2 = g2
  d1 = d1
  d2 = d2
  d3 = d3
  top = top
  a = a
  b = b
  c = c
  inner = inner
  star = star
  app = app
  base = base
  ext = ext
  other = other
  None = None
  Oci = Oci
  Local = Local
  User = User
  Invalid = Invalid
  Foreign = Foreign
  WellKnownNamespaces <- MCWellKnownNamespaces
  Process <- MCProcess
  Registry <- MCRegistry
  Texts <- MCTexts
  Task <- MCTask
  Configs <- MCConfigs
  Requests <- MCRequests
  WellKnown <- MCWellKnown
  Bearers <- MCBearers
  Docker <- MCDocker
  Getter <- MCGetter
  Downloads <- MCDownloads
  Arguments <- MCArguments
  Trees <- MCTrees
  Wit <- MCWit
  Releases <- MCReleases
  Bundled <- MCBundled
  Dependency <- MCDependency
  Roots <- MCRoots
  MaxCommands = 3
  MaxCalls = 3
  Whole = 2
  MaxFetches = 2
SYMMETRY MCSymmetry
CHECK_DEADLOCK FALSE
INVARIANTS TypeOK SettingsKept LayersAgree MetadataOfRegistry OneIdentity GetsWhole FetchPins DepsMatchLock SortedByNeeds MergesWhatItCan
PROPERTIES GetKeepsFiles SharedPinsStay OwnWorkspace
