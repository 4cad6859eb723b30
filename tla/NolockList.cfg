\* A ring of four slots (three packets) and three packets: the cursors wrap,
\* the list is empty, partly filled and full with either cursor ahead.
CONSTANTS
  NULL = NULL
  Packets = {p1, p2, p3}
  Length = 4
SPECIFICATION FairSpec
INVARIANTS Inv NoSlotRace PopTakesOldest
PROPERTIES ImplementsQueue EventuallyPopped
