\* Two accounts, one with a Full Locker, buy all kinds of offers for each other.
SPECIFICATION Spec
CONSTANTS
  hat = hat  axe = axe
  Items = {hat, axe}
  Accounts = {x, y}
  Strangers = {z}
  FullLocker = {y}
  Offers <- AllOffers
  Opening = 3
  VBUCKS_PER_KILL = 1
  None = None
  Requests = {r1, r2}
SYMMETRY Symmetry
INVARIANTS LedgerBounds ExactUnlessContested SaleStillGood
\* The bound on requests is reached.
CHECK_DEADLOCK FALSE
