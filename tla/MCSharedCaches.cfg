SPECIFICATION CachesSpec
CONSTANTS
  Owners = {t1, t2}
  Buffers = {b1, b2, b3}
  Sizes = {1, 2}
  Maximum = 3
  Allowances = {0, 2, 3}
  Capacity = 1
  Paths = {a, b}
  MaxDrops = 1
INVARIANTS PinsAreCounted PinsAreBounded BuffersAreExclusive NothingStaysPinned
PROPERTIES PaintedSizeIsCurrent RowsResolve
