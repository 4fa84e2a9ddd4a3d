\* Two players of one bucket compete for two game servers with one place each.
SPECIFICATION Spec
CONSTANTS
  Players = {p1, p2}
  GameServers = {g1, g2}
  Buckets = {b1}
  Capacities = {1}
  None = None
  MaxBacklog = 1
  Lookups = {}
SYMMETRY Symmetry
\* Every client may leave and every game server may close: the system may stop.
CHECK_DEADLOCK FALSE
INVARIANTS FilledInOrder QueueMatchesMaps
PROPERTIES AssignmentIsFinal AdmissionImplemented
