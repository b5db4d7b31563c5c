\* The author publishes twice, the vendor once.
SPECIFICATION Spec
CONSTANTS
  author = author
  vendor = vendor
  app = app
  base = base
  old = old
  more = more
  w = w
  x = x
  y = y
  None = None
  Broken = Broken
  Publisher <- MCPublisher
  Package <- MCPackage
  Version <- MCVersion
  Jobs <- MCJobs
  MaxRuns <- MCMaxRuns
CHECK_DEADLOCK FALSE
INVARIANTS TypeOK SeriesCompatible WaveNeverEmpty AllPublished FitsTogether PublishedAsLocked
PROPERTIES ReleasesKept ReleasesOrdered PublishEnds
