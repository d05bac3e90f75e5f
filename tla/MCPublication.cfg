SPECIFICATION FairSpec
CONSTANTS
  Txs = {t1, t2}
  Targets = {a, b}
  Suffixes = {x, y}
  Absent = Absent
  User = User
  NoDir = NoDir
INVARIANTS FinalNeverPartial StagingPrivate ReportMatchesDisk
PROPERTIES NoOverwriteKeepsExisting ImplementsAtomicOutput StagingIsTransient
