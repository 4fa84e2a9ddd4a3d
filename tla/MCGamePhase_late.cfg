\* Frames late enough to pass several deadlines at once; three players; no symmetry,
\* since liveness is checked.
SPECIFICATION Spec
CONSTANTS
  Players = {a, b, c}
  Unset = Unset
  Zones = 4
  Countdown = 3
  Lead = 1
  DropStart = 1
  DropEnd = 2
  FlightEnd = 4
  ZoneDelay = 1
  Wait = 2
  Shrink = 1
  MaxFrame = 3
INVARIANTS NobodyAboard ClosedBeforeFlight
PROPERTIES StepsInOrder StormComes ServerEnds
\* The process ends after the match.
CHECK_DEADLOCK FALSE
