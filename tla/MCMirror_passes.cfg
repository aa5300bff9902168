CONSTANTS
  Dir <- Tree
  File <- Files
  Targets = {"a"}
  Excluded <- Videos
  Size = {1, 2}
  MaxFails = 2
  EnumAttempts = 2
  MaxFaults = 2
  MaxRewrites = 1
  MaxKills = 1
SPECIFICATION MCSpec
INVARIANT OncePerVersion
PROPERTIES ManifestWhole NothingLeft VerdictTrue MirrorEnds
CHECK_DEADLOCK FALSE
