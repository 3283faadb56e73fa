CONSTANTS
  top = top
  sub = sub
  f = f
  g = g
  Dirs = {top, sub}
  Files = {f, g}
  Root = top
  Parent <- MCParent
  Place <- MCPlace
  Modes <- MCModes
  Byte = {0, 1}
  Contents <- MCContents
  Earlier <- MCEarlier
  ChunkSize = 2
  Depth = 2
  MaxEdits = 1
  MaxRestores = 2
  MaxDamage = 1
  Rot <- MCRot
SPECIFICATION RestoreSpec
CHECK_DEADLOCK FALSE
INVARIANTS RestoreTypeOK BackupFaithful RestoreFaithful FailsForCause
PROPERTIES CommandsEnd
