SPECIFICATION Spec
CONSTANTS
  v7 = v7
  x1 = x1
  a1 = a1
  Services = {v7, v8}
  Bonded = {v8}
  Actions = {x1, x2}
  Addrs = {a1, a2}
  Legacy <- MCLegacy
  FeeCeiling = 2
  MaxNonce = 2
  MaxEpoch = 2
  MaxFaults = 2
  None = None
INVARIANTS
  TypeOK
  OneSignaturePerNonce
  AutomaticWaits
PROPERTIES
  SignsOnce
CHECK_DEADLOCK FALSE
