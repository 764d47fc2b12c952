SPECIFICATION Spec
CONSTANTS
  manifest = manifest
  other = other
  first = first
  second = second
  main = main
  Detached = Detached
  NoPath = NoPath
  Unborn = Unborn
  Paths = {manifest, other}
  Rank <- MCRank
  Ignored = {other}
  Manifest = manifest
  Data = {0, 1}
  Bytes <- MCBytes
  Commits = {first, second}
  Refs = {main, Detached}
  Worlds <- MCWorlds
  StateDirs = {NoPath, other}
  MaxEdits = 2
INVARIANTS TypeOK UnchangedIsSteady MismatchHasCause DirtyHasPaths DeletedHasNoIdentity
