SPECIFICATION Spec
CONSTANTS
  Node = {n1, n2, n3}
  Ttl = 1
  MaxDelay = 1
  Failing = {"Statement", "Release", "Crash"}
  MaxFaults = 3
  NoRow = NoRow
SYMMETRY NodeSymmetry
INVARIANTS OneActive
