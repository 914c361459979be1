SPECIFICATION Reports
CONSTANTS
  Workers = {w1, w2}
  MatcherSeq <- MCMatchers
  Enrichers <- MCEnrichers
  Inputs <- MCInputs
  MaxFault = 2
  AlpineReleases <- MCAlpine
  DebianReleases <- MCDebian
  UbuntuReleases <- MCUbuntu
  Layers <- MCLayers
  Databases <- MCDatabases
  FileImages <- MCFileImages
  Documents <- MCDocuments
  Publications <- MCPublications
  Containers <- MCContainers
  Intervals <- MCIntervals
  Pep440Pairs <- MCPep440Pairs
  MavenPairs <- MCMavenPairs
  Stored <- MCStored
  Images <- MCImages
  BatchSize = 2
INVARIANTS ReportComplete CoalescersAgree FinalImage AdvisoriesApplied VersionOrder StoredReturns AffectedAgrees InstalledIndexed
PROPERTY Returns
CHECK_DEADLOCK FALSE
