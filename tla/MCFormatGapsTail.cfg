SPECIFICATION Spec
CONSTANTS
  MaxParts = 1
  MaxReplacements = 0
  Sources <- TailLost
  Face <- MCFace
  Requests <- MCRequests
  Scan <- MCScan
  Replay <- MCReplay
  Place <- MCPlace
  Substitutes <- MCSubstitutes
  Intruded <- MCIntruded
INVARIANT DoneMeansComplete
