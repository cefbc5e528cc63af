\* Capacities 1 to 3, doubled up to 4 when the ring is unlimited.
SPECIFICATION Spec
CONSTANTS
  Values = {u, v}
  NoValue = NoValue
  Sizes = {1, 2, 3}
  MaxCapacity = 4
INVARIANT TestsAgree
PROPERTY ImplementsBoundedDeque
