SPECIFICATION FairSpec
CONSTANTS
  Node = {n1, n2}
  Ttl = 1
  MaxDelay = 2
  Failing <- Faults
  MaxFaults = 2
  NoRow = NoRow
PROPERTIES LeaseIsRespected SomebodyIsActive
