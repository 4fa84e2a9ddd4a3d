\* Three users, two of whom contact each other; clients yield leadership or not.
SPECIFICATION Spec
CONSTANTS
  u1 = u1  u2 = u2  u3 = u3
  a = a  b = b  c = c
  Users = {u1, u2, u3}
  PartyIds = {a, b, c}
  None = None
  Yields = {FALSE, TRUE}
  Contacts <- BothWays
SYMMETRY SymmetricIds
INVARIANTS OneParty NotifiedOnce
PROPERTIES CaptainKept MembershipImplemented
\* The system stops when the bound on ids is reached and everyone has left.
CHECK_DEADLOCK FALSE
