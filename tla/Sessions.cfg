SPECIFICATION Spec
CONSTANTS
  Browsers = {b1, b2}
  Users = {u1}
  Requests = {r1, r2, r3}
  NoToken = NoToken
  Lifetime = 2
  MaxTime = 2
  MaxSends = 5
  MaxFaults = 1
SYMMETRY Interchangeable
INVARIANT TypeOK
INVARIANT ExchangedOnce
INVARIANT SessionsNotMultiplied
INVARIANT WalletCreatedOnce
INVARIANT AccountsHaveWallets
INVARIANT CookieHonoured
\* Requests stop at the bound on their number.
CHECK_DEADLOCK FALSE
