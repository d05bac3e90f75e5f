SPECIFICATION Spec
CONSTANTS
  Jobs = {j1, j2}
  Archive <- MCArchive
  Sorted <- MCSorted
  Absent = Absent
  User = User
INVARIANTS OnlySoundFilesAppear NoMixing DoneMeansExtracted CancelIsPrompt
PROPERTIES ExtractionIsPerFileAtomic
CHECK_DEADLOCK FALSE
