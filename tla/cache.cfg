\* Four identifiers in a cache of three, and a clock of three ticks.
SPECIFICATION Spec
CONSTANTS
  Ids = {a, b, c, d}
  MaxSize = 3
  Intervals = {0, 2}
  MaxTime = 3
SYMMETRY Symmetry
INVARIANT IndexMatchesList
PROPERTIES EvictsLeastRecent ImplementsContract
