SPECIFICATION Spec
CONSTANTS
  Sources <- MCSources
  BlockSize = 2
  BatchFiles = 2
  BatchBytes = 4
  Damages = {FALSE, TRUE}
  MaxEdits = 1
INVARIANTS PublishedMatchesManifest VerifiedRestoresSources
CHECK_DEADLOCK FALSE
