\* One hour of ten minutes with the numbers the shell refuses. A single job at
\* once: every run ends within its minute.
SPECIFICATION Spec
CONSTANTS
  Missing = Missing
  Junk = Junk
  Jobs = {j1}
  Readers = {}
  Inodes = {i1, i2}
  Hours = 1
  MinutesPerHour = 10
  Illegal = {8, 9}
  BufferRows = 4
  Straddle = FALSE
  LastDay = 1
PROPERTY EveryMinutePublished
