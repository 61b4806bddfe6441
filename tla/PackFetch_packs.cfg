SPECIFICATION Spec
CONSTANTS
  dir = dir
  file = file
  text = text
  target = target
  zip = zip
  octet = octet
  markdown = markdown
  None = None
  Torn = Torn
  Paths <- MCPaths
  Form <- MCForm
  Artifacts <- MCArtifacts
  MaxReplaced = 1
  References <- MCReferences
  Targets = {target}
  CachePath <- MCCachePath
  MediaTypes = {zip, octet, markdown}
  Preferred <- MCPreferred
  RepoBase = TRUE
  StoreBase = FALSE
  Images <- MCImages
  MaxFetches = 2
INVARIANT TypeOK CacheHoldsWhatItNames FetchedIsLoaded PulledIsPinned
PROPERTY LoadsIfSound
CHECK_DEADLOCK FALSE
