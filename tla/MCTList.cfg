\* A pool that starts with one node, and a list of up to four elements.
SPECIFICATION Spec
CONSTANTS
  Nodes = {n1, n2, n3, n4, n5}
  Null = Null
  Values = {u, v}
  NoValue = NoValue
  MaxUnused = 1
  Limits = {0, 2, 3}
  MaxOffset = 5
SYMMETRY NodeSymmetry
INVARIANTS RingIntact NoNodeLost IteratorsCount
PROPERTY ImplementsBoundedList
\* a destroyed list does nothing
CHECK_DEADLOCK FALSE
