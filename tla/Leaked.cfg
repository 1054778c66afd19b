\* A subscription may still be connecting when its Redis closes.
CONSTANTS
  u1 = u1
  u2 = u2
  a1 = a1
  a2 = a2
  Uris = {u1, u2}
  Apps = {a1, a2}
  Instances <- MCInstances
  MaxClients = 3
SPECIFICATION ConnectionsSpec
CHECK_DEADLOCK FALSE
INVARIANTS ClosesSubscriptions
