SPECIFICATION Spec
CONSTANTS
  MaxParts = 2
  MaxReplacements = 1
  Sources <- MCSources
  Face <- MCFace
  Requests <- MCRequests
  Scan <- MCScan
  Replay <- MCReplay
  Place <- MCPlace
  Substitutes <- MCSubstitutes
  Intruded <- MCIntruded
INVARIANTS
  SoundSource
  OnlyArchivedContent
  DoneMeansComplete
  FailuresHaveACause
PROPERTIES
  WrittenOnce
