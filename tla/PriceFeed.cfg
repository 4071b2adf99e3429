\* Two hours of three minutes, a midnight, two jobs at once.
SPECIFICATION Spec
CONSTANTS
  Missing = Missing
  Junk = Junk
  Jobs = {j1, j2}
  Readers = {r}
  Inodes = {i1, i2, i3}
  Hours = 2
  MinutesPerHour = 3
  Illegal = {2}
  BufferRows = 2
  Straddle = FALSE
  LastDay = 2
SYMMETRY Interchangeable
INVARIANT TypeOK
INVARIANT NoFuturePrice
INVARIANT Served
INVARIANT NoHoles
PROPERTY AloneIsExact
