\* Two accounts, two requests at once.
SPECIFICATION Spec
CONSTANTS
  Accounts = {x, y}
  Slots = {r1, r2}
  Ids = {i1, i2, i3, i4, i5}
  None = None
SYMMETRY Symmetry
INVARIANTS RecordsAgree FriendsByConsent
