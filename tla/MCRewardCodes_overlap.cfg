\* Two accounts, one code of up to two rewards, two requests at once.
SPECIFICATION Spec
CONSTANTS
  Accounts = {x, y}
  Codes = {k}
  Rewards = {fullLocker, hat}
  FullLocker = fullLocker
  SellAuth = SellAuth
  Admin = Admin
  Customer = x
  None = None
  Slots = {r1, r2}
  MaxCopies <- Copies
SYMMETRY Symmetry
INVARIANTS OneRedeemer RedeemedIsOwned GrantsBounded
