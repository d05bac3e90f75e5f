SPECIFICATION Spec
CONSTANTS
  Sources <- SameName
  BlockSize = 2
  BatchFiles = 2
  BatchBytes = 4
  Damages = {FALSE}
  MaxEdits = 0
INVARIANT PublishedIsReadable
CHECK_DEADLOCK FALSE
