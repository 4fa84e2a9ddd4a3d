\* Two seasons, clients of either, two requests at once.
SPECIFICATION Spec
CONSTANTS
  Seasons = {1, 2}
  Current = 2
  Pages <- ClientPages
  Divisions <- TwoDivisions
  Points <- DivisionPoints
  Games <- ShortGames
  Placements <- PlacementTable
  Hype = 1
  Ids = {i1, i2, i3, i4}
  None = None
  Requests = {r1, r2}
SYMMETRY Symmetry
INVARIANTS DivisionsHeld StandingsAgree
\* The bound on requests is reached.
CHECK_DEADLOCK FALSE
