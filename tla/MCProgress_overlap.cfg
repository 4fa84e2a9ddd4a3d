\* Three requests at once, small choices.
SPECIFICATION ProgressSpec
CONSTANTS
  Last = 3
  Total <- Rising
  Starred <- OnlyFirst
  FreePass = "granted"
  Games <- OneGame
  Offers <- TwoOffers
  Exchanges <- StarExchanges
  Opening = 150
  None = None
  Requests = {r1, r2, r3}
SYMMETRY Symmetry
INVARIANTS ProgressTypeOK StarsCoverLevels GivenBeforeTaken RecordsAgree
\* The bound on requests is reached.
CHECK_DEADLOCK FALSE
