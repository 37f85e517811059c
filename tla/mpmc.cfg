SPECIFICATION Spec
CONSTANTS
  Capacity = 2
  Width = 8
  Producers = {p1, p2}
  Consumers = {c1, c2}
  Items = {a, b}
  Blank = blank
  Nobody = nobody
  Sole = c1
  MaxLag = 2
SYMMETRY Alike
INVARIANT NoCellRace
PROPERTY IsSlotQueue
PROPERTY FailsOnlyWhenDue
