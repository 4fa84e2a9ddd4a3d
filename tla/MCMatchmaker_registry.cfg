\* Two buckets: servers register, leave and are looked up while a player is handed
\* over, under fairness.
SPECIFICATION FairSpec
CONSTANTS
  Players = {p1}
  GameServers = {g1, g2}
  Buckets = {b1, b2}
  Capacities = {1}
  None = None
  MaxBacklog = 1
  Lookups = {g1}
\* Every client may leave and every game server may close: the system may stop.
CHECK_DEADLOCK FALSE
INVARIANTS RegistryConsistent PlayedSessionResolves
PROPERTIES PickedIsPlayed RoomIsTaken
