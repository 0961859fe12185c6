\* Two addresses; the client's changes and changes back.  A unit of time is five
\* seconds: 2 for the 10 of a restart, 3 and 1 for the 15 and 5 of a secret.
CONSTANTS
  a1 = a1
  a2 = a2
  c1 = c1
  c2 = c2
  c3 = c3
  None = None
  Addresses <- TwoAddresses
  FirstAddress = a1
  Cookies <- ThreeCookies
  ResendDelay = 0
  RestartDelay = 2
  SecretUpdateTime = 3
  SecretUpdateVariance = 1
  MaxDelay = 1
  MaxInFlight = 2
  MaxSwitches = 2
SYMMETRY Symmetry
SPECIFICATION Spec
INVARIANTS
  TypeOK
  CookieLifetime
  OneConnection
  SequencesAgree
PROPERTIES
  RestartMoved
