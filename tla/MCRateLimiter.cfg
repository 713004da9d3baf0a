SPECIFICATION Spec
CONSTANTS
  Ips = {ip1, ip2}
  MaxAttempts = 3
  Window = 2
  BaseBlock = 2
  MaxBlock = 5
  MaxTime = 8
  None = None
SYMMETRY IpSymmetry
INVARIANTS
  TypeOK
  FailureRateBounded
PROPERTIES
  BlocksAreServed
  BlocksDouble
