SPECIFICATION Spec
CONSTANTS
  Browsers = {b1}
  Users = {u1}
  Requests = {r1}
  NoToken = NoToken
  Lifetime = 2
  MaxTime = 2
  MaxSends = 2
  MaxFaults = 0
PROPERTY Rotates
\* Requests stop at the bound on their number.
CHECK_DEADLOCK FALSE
