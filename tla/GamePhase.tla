----------------------------- MODULE GamePhase ------------------------------
(***************************************************************************)
(* The phases of a match on the game server: warm-up, flight, safe zones   *)
(* and end (GamePhaseLogic.cpp, the match handlers of GameMode.cpp).       *)
(*                                                                         *)
(* GamePhaseLogic__Tick runs once per frame, compares deadlines with the   *)
(* time of the world and takes at most a few steps; a frame may be late,   *)
(* so that several deadlines pass at once.  left says how far each         *)
(* deadline still is, 0 once it has passed: the time itself is unbounded.  *)
(* The engine starts and ends the match and kills, moves and disconnects   *)
(* players between two frames.  Bots, positions and damage are left out.   *)
(***************************************************************************)
EXTENDS Integers, FiniteSets

CONSTANTS
  Players,
  Unset,       \* a deadline that is not set, -1 in the code
  Zones,       \* the number of safe zones of the map
  Countdown,   \* WarmupCountdownDuration
  Lead,        \* ten seconds in the code
  DropStart, DropEnd, FlightEnd,  \* of the aircraft, from the takeoff
  ZoneDelay,   \* SafeZoneStartDelay
  Wait, Shrink, \* of each safe zone
  MaxFrame     \* bound: the longest frame

ASSUME TimesAssumption ==
  /\ {Countdown, Lead, Wait, Shrink, MaxFrame} \subseteq Nat
  /\ {DropStart, DropEnd, FlightEnd, ZoneDelay} \subseteq Nat
ASSUME ZonesAssumption == Zones \in Nat \ {0}
\* What the data of the map says; only the order of the steps rests on it.
ASSUME MapAssumption   == DropStart <= DropEnd /\ ZoneDelay > 0 /\ Zones > 1
ASSUME UnsetAssumption == Unset \notin Int

VARIABLES
  skips,     \* bSkipAircraft of the playlist
  phase,     \* GamePhase
  step,      \* GamePhaseStep
  left,      \* until each deadline, or Unset
  done,      \* the statics of the tick that are true
  aircraft,  \* there is an aircraft in Aircrafts_GameState
  locked,    \* bAircraftIsLocked
  zone,      \* CurrentPhase of the safe-zone indicator
  socket,    \* gsSocket is open: the matchmaker may send players
  where,     \* of each player: "out", "ground", "aircraft" or "dead"
  over       \* the process has ended

vars == <<skips, phase, step, left, done, aircraft, locked, zone, socket, where, over>>

Deadlines == {"ready", "warmup", "dropStart", "dropEnd", "flightEnd", "zones", "shrink", "shrunk"}
Statics == {"gettingReady", "busUnlocked", "startedForming", "finishedFlight", "formedZone",
            "bUpdatedPhase"}

\* What the tick works on.
Now == [skips |-> skips, phase |-> phase, step |-> step, left |-> left, done |-> done,
        aircraft |-> aircraft, locked |-> locked, zone |-> zone, socket |-> socket,
        where |-> where, over |-> over]

Becomes(s) ==
  /\ phase' = s.phase /\ step' = s.step /\ left' = s.left /\ done' = s.done
  /\ aircraft' = s.aircraft /\ locked' = s.locked /\ zone' = s.zone
  /\ socket' = s.socket /\ where' = s.where /\ over' = s.over
  /\ UNCHANGED skips

Alive(s) == {p \in Players : s.where[p] \in {"ground", "aircraft"}}

\* A deadline that has been set and has passed, while anybody is alive.
Due(s, d) == Alive(s) # {} /\ s.left[d] = 0

Moved(w, from, to) == [p \in Players |-> IF w[p] \in from THEN to ELSE w[p]]
-----------------------------------------------------------------------------
Init ==
  /\ skips \in BOOLEAN
  /\ phase = "Setup" /\ step = "Setup"
  /\ left = [d \in Deadlines |-> Unset]
  /\ done = {}
  /\ aircraft = FALSE /\ locked = FALSE
  /\ zone = 0
  /\ socket = TRUE
  /\ where = [p \in Players |-> "out"]
  /\ over = FALSE

\* HandleMatchHasStarted, once one player is ready.
MatchStarts ==
  /\ left["warmup"] = Unset
  /\ Alive(Now) # {}
  /\ phase' = "Warmup" /\ step' = "Warmup"
  /\ left' = [left EXCEPT !["warmup"] = Countdown,
                          !["ready"] = IF Countdown > Lead THEN Countdown - Lead ELSE 0]
  /\ aircraft' = TRUE
  /\ UNCHANGED <<skips, done, locked, zone, socket, where, over>>

\* Ten seconds before the flight: the matchmaker sends nobody any more.
GetsReady(s) == s.phase = "Warmup" /\ "gettingReady" \notin s.done /\ Due(s, "ready")
MadeReady(s) ==
  [s EXCEPT !.done = @ \union {"gettingReady"}, !.socket = FALSE, !.step = "GetReady"]

\* StartAircraftPhase: everybody alive boards.
TakesOff(s) == s.phase = "Warmup" /\ "gettingReady" \in s.done /\ Due(s, "warmup")
TakenOff(s) ==
  [s EXCEPT !.phase = "Aircraft", !.step = "BusLocked", !.locked = TRUE,
            !.left = [@ EXCEPT !["dropStart"] = DropStart, !["dropEnd"] = DropEnd,
                               !["flightEnd"] = FlightEnd],
            !.where = Moved(@, {"ground"}, "aircraft")]

Unlocks(s) == s.phase = "Aircraft" /\ "busUnlocked" \notin s.done /\ Due(s, "dropStart")
Unlocked(s) ==
  [s EXCEPT !.done = @ \union {"busUnlocked"}, !.locked = FALSE, !.step = "BusFlying"]

\* The end of the drop: whoever is aboard jumps.
Forms(s) == s.phase = "Aircraft" /\ "startedForming" \notin s.done /\ Due(s, "dropEnd")

\* Mutant of Formed: those aboard are left aboard.
FormedAboard(s) ==
  [s EXCEPT !.done = @ \union {"startedForming"}, !.phase = "SafeZones", !.step = "StormForming",
            !.left = [@ EXCEPT !["zones"] = ZoneDelay]]

Formed(s) ==
  [s EXCEPT !.done = @ \union {"startedForming"}, !.phase = "SafeZones", !.step = "StormForming",
            !.left = [@ EXCEPT !["zones"] = ZoneDelay],
            !.where = Moved(@, {"aircraft"}, "ground")]

\* A playlist without a flight.
Skipped(s) ==
  [s EXCEPT !.done = @ \union {"finishedFlight"}, !.phase = "SafeZones", !.step = "StormForming"]

\* The part of the tick that depends on the flight, where it does not return.
Flown(s) ==
  IF s.skips THEN (IF "finishedFlight" \in s.done THEN s ELSE Skipped(s))
  ELSE IF Forms(s) THEN Formed(s) ELSE s
-----------------------------------------------------------------------------
(* The safe zones. *)

\* The flight is over: the aircraft goes.
Landed(s) ==
  IF "finishedFlight" \notin s.done /\ Due(s, "flightEnd")
  THEN [s EXCEPT !.done = @ \union {"finishedFlight"}, !.aircraft = FALSE]
  ELSE s

\* StartNewSafeZonePhase, for a zone that exists.
StartNewSafeZonePhase(s, z) ==
  IF z \notin 0 .. Zones - 1 THEN s
  ELSE [s EXCEPT !.left = [@ EXCEPT !["shrink"] = Wait, !["shrunk"] = Wait + Shrink],
                 !.zone = z, !.step = "StormHolding"]

FormsZone(s) == "formedZone" \notin s.done /\ Due(s, "zones")

\* The deadlines of an indicator that holds no zone yet are at time zero.
FormedZone(s) ==
  StartNewSafeZonePhase([s EXCEPT !.done = @ \union {"formedZone"},
                                  !.left = [@ EXCEPT !["shrink"] = 0, !["shrunk"] = 0]], 1)

Shrinks(s) == "bUpdatedPhase" \notin s.done /\ s.left["shrink"] = 0
Shrinking(s) == [s EXCEPT !.done = @ \union {"bUpdatedPhase"}, !.step = "StormShrinking"]

\* Mutant of NextZone: bUpdatedPhase is not reset.
NextZoneUpdated(s) == IF s.zone + 1 < Zones THEN StartNewSafeZonePhase(s, s.zone + 1) ELSE s

NextZone(s) ==
  IF s.zone + 1 < Zones
  THEN [StartNewSafeZonePhase(s, s.zone + 1) EXCEPT !.done = @ \ {"bUpdatedPhase"}]
  ELSE s

\* Mutant of Zoned: a zone that is due to be over is not shrunk first.
ZonedOver(s) ==
  IF FormsZone(s) THEN FormedZone(s)
  ELSE IF "formedZone" \notin s.done THEN s
  ELSE IF s.left["shrunk"] = 0 THEN NextZone(s)
  ELSE IF Shrinks(s) THEN Shrinking(s) ELSE s

Zoned(s) ==
  IF FormsZone(s) THEN FormedZone(s)
  ELSE IF "formedZone" \notin s.done THEN s
  ELSE IF Shrinks(s) THEN Shrinking(s)
  ELSE IF s.left["shrunk"] = 0 THEN NextZone(s)
  ELSE s

\* Mutant of Closed: it waits for somebody alive.
ClosedAlive(s) ==
  IF s.phase = "EndGame" /\ Alive(s) # {} THEN [s EXCEPT !.over = TRUE] ELSE s

\* The process ends when the match has and everybody has left.
Closed(s) ==
  IF s.phase = "EndGame" /\ \A p \in Players : s.where[p] = "out"
  THEN [s EXCEPT !.over = TRUE] ELSE s

\* Mutant of Ticked: the flight is looked at before the countdown.
TickedFlightFirst(s) ==
  IF ~ s.skips /\ s.phase = "Warmup" /\ Due(s, "warmup") THEN TakenOff(s)
  ELSE IF ~ s.skips /\ GetsReady(s) THEN MadeReady(s)
  ELSE IF ~ s.skips /\ Unlocks(s) THEN Unlocked(s)
  ELSE LET t == Flown(s)
       IN Closed(IF t.phase = "SafeZones" THEN Zoned(Landed(t)) ELSE t)

\* GamePhaseLogic__Tick.
Ticked(s) ==
  IF ~ s.skips /\ GetsReady(s) THEN MadeReady(s)
  ELSE IF ~ s.skips /\ TakesOff(s) THEN TakenOff(s)
  ELSE IF ~ s.skips /\ Unlocks(s) THEN Unlocked(s)
  ELSE LET t == Flown(s)
       IN Closed(IF t.phase = "SafeZones" THEN Zoned(Landed(t)) ELSE t)

\* n later.
Elapsed(n) ==
  [d \in Deadlines |-> IF left[d] = Unset THEN Unset
                       ELSE IF left[d] > n THEN left[d] - n ELSE 0]

Tick(n) == Becomes(Ticked([Now EXCEPT !.left = Elapsed(n)]))
-----------------------------------------------------------------------------
(* The engine. *)

\* A client connects; one that connects during or after the flight only watches.
Join(p) ==
  /\ where[p] = "out"
  /\ phase \in {"Setup", "Warmup"} \/ (skips /\ phase = "SafeZones")
  /\ where' = [where EXCEPT ![p] = "ground"]
  /\ UNCHANGED <<skips, phase, step, left, done, aircraft, locked, zone, socket, over>>

Leave(p) ==
  /\ where[p] # "out"
  /\ where' = [where EXCEPT ![p] = "out"]
  /\ UNCHANGED <<skips, phase, step, left, done, aircraft, locked, zone, socket, over>>

\* ServerAttemptAircraftJump, which a client offers once the aircraft is unlocked.
Jump(p) ==
  /\ where[p] = "aircraft" /\ ~ locked
  /\ where' = [where EXCEPT ![p] = "ground"]
  /\ UNCHANGED <<skips, phase, step, left, done, aircraft, locked, zone, socket, over>>

\* OnPawnDied, of a player who may not respawn.
Die(p) ==
  /\ where[p] = "ground"
  /\ where' = [where EXCEPT ![p] = "dead"]
  /\ UNCHANGED <<skips, phase, step, left, done, aircraft, locked, zone, socket, over>>

\* HandleMatchHasEnded, when at most one is left of those who flew.
MatchEnds ==
  /\ phase \in {"Aircraft", "SafeZones"} /\ left["warmup"] # Unset
  /\ Cardinality(Alive(Now)) <= 1
  /\ phase' = "EndGame" /\ step' = "EndGame"
  /\ UNCHANGED <<skips, left, done, aircraft, locked, zone, socket, where, over>>

Next ==
  /\ ~ over
  /\ \/ MatchStarts
     \/ \E n \in 0 .. MaxFrame : Tick(n)
     \/ \E p \in Players : Join(p) \/ Leave(p) \/ Jump(p) \/ Die(p)
     \/ MatchEnds

\* The network driver ticks every frame, and time passes.
Spec ==
  /\ Init /\ [][Next]_vars
  /\ WF_vars(~ over /\ \E n \in 1 .. MaxFrame : Tick(n))
-----------------------------------------------------------------------------
Phases == {"Setup", "Warmup", "Aircraft", "SafeZones", "EndGame"}
Steps  == {"Setup", "Warmup", "GetReady", "BusLocked", "BusFlying", "StormForming",
           "StormHolding", "StormShrinking", "EndGame"}

Match ==
  [skips : BOOLEAN, phase : Phases, step : Steps, left : [Deadlines -> Nat \union {Unset}],
   done : SUBSET Statics, aircraft : BOOLEAN, locked : BOOLEAN, zone : 0 .. Zones - 1,
   socket : BOOLEAN, where : [Players -> {"out", "ground", "aircraft", "dead"}], over : BOOLEAN]

TypeOK == Now \in Match

\* Nobody is still aboard when the storm forms or the aircraft is destroyed,
\* whoever connects, jumps, dies or leaves and however late the frames are
\* (GamePhaseLogic.cpp:311-317, 353-357).
NobodyAboard ==
  phase = "SafeZones" \/ (phase = "Aircraft" /\ ~ aircraft) =>
    \A p \in Players : where[p] # "aircraft"

\* The tick indexes Aircrafts_GameState[0] in these states (lines 293, 306 and
\* 348); the list is emptied at line 356, and is never empty in them.
AircraftThere ==
  (phase = "Aircraft" \/ (phase = "SafeZones" /\ "finishedFlight" \notin done)) => aircraft

\* The matchmaker has been told to send nobody (line 269) before anybody boards:
\* no late frame takes the countdown past it.
ClosedBeforeFlight == phase = "Aircraft" \/ (phase = "SafeZones" /\ ~ skips) => ~ socket

\* The place of a step in a match with a flight.
Rank(st, z) ==
  CASE st = "Setup" -> 0
    [] st = "Warmup" -> 1
    [] st = "GetReady" -> 2
    [] st = "BusLocked" -> 3
    [] st = "BusFlying" -> 4
    [] st = "StormForming" -> 5
    [] st = "StormHolding" -> 4 + 2 * z
    [] st = "StormShrinking" -> 5 + 2 * z
    [] OTHER -> 6 + 2 * Zones

\* Clients see every step in its order, each zone held before it shrinks and
\* shrunk before the next: a late frame delays steps and never skips one, and
\* nothing follows the end.  (A zone that forms with no delay hides StormForming.)
StepsInOrder ==
  [][skips \/ Rank(step', zone') = Rank(step, zone) + 1
           \/ (step' = "EndGame" /\ step # "EndGame")]_<<step, zone>>

NoneAboard(s) == \A p \in Players : s.where[p] # "aircraft"

\* What each phase of a match with a flight relies on.
WithFlight(s) ==
  /\ (s.left["warmup"] = Unset) = (s.phase = "Setup")
  /\ s.phase = "Setup" => s.step = "Setup" /\ s.done = {} /\ s.zone = 0 /\ NoneAboard(s)
  /\ s.phase = "Warmup" =>
       /\ s.step = (IF "gettingReady" \in s.done THEN "GetReady" ELSE "Warmup")
       /\ "gettingReady" \in s.done => ~ s.socket
       /\ s.aircraft /\ s.zone = 0 /\ s.done \subseteq {"gettingReady"} /\ NoneAboard(s)
  /\ s.phase = "Aircraft" =>
       /\ s.step = (IF "busUnlocked" \in s.done THEN "BusFlying" ELSE "BusLocked")
       /\ s.done \subseteq {"gettingReady", "busUnlocked"} /\ s.zone = 0
       /\ s.aircraft /\ ~ s.socket
       /\ {s.left["dropStart"], s.left["dropEnd"]} \subseteq Nat
       /\ s.left["dropStart"] <= s.left["dropEnd"]
  /\ s.phase = "SafeZones" =>
       /\ ~ s.socket /\ NoneAboard(s)
       /\ "finishedFlight" \notin s.done => s.aircraft
       /\ IF "formedZone" \notin s.done
          THEN s.step = "StormForming" /\ s.zone = 0 /\ "bUpdatedPhase" \notin s.done
          ELSE /\ s.step = (IF "bUpdatedPhase" \in s.done THEN "StormShrinking" ELSE "StormHolding")
               /\ s.zone > 0 /\ {s.left["shrink"], s.left["shrunk"]} \subseteq Nat
               /\ s.left["shrink"] <= s.left["shrunk"]
  /\ s.phase = "EndGame" => s.step = "EndGame"

\* A match without one never gets further than the end of the warm-up or the
\* forming storm: nothing sets SafeZonesStartTime.
WithoutFlight(s) ==
  /\ NoneAboard(s) /\ s.left["zones"] = Unset
  /\ s.done \subseteq {"finishedFlight"} /\ s.phase # "Aircraft"
  /\ s.phase = "SafeZones" => "finishedFlight" \in s.done
  /\ s.phase = "EndGame" => s.step = "EndGame" /\ s.left["warmup"] # Unset

Sound(s) == s \in Match /\ IF s.skips THEN WithoutFlight(s) ELSE WithFlight(s)

\* The inductive invariant: where a match is determines its step, its statics,
\* its deadlines and who may be aboard.
IInv == Sound(Now)

\* If somebody stays alive from the start of the match, the last zone shrinks,
\* unless the match ends.
StormComes ==
  ~ skips /\ phase = "Warmup" ~>
    \/ zone = Zones - 1 /\ step = "StormShrinking"
    \/ phase = "EndGame"
    \/ Alive(Now) = {}

\* When the match has ended and everybody has left, the process ends.
ServerEnds == phase = "EndGame" /\ (\A p \in Players : where[p] = "out") ~> over
=============================================================================
