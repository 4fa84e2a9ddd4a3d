----------------------------- MODULE Admission ------------------------------
(***************************************************************************)
(* What the matchmaker promises its players and its game servers, without  *)
(* threads, locks, queues or messages in flight: every game server opens   *)
(* with a capacity, admits at most that many players, becomes ready, and   *)
(* only then invites the players it admitted.  A player is admitted once.  *)
(***************************************************************************)
EXTENDS Naturals, FiniteSets

CONSTANTS Players, GameServers, Capacities, None

VARIABLES
  capacity,  \* the players each server can take; 0 before it opens
  ready,     \* the servers that accept invited players
  seat,      \* the server that admitted each player, or None
  invited    \* the players who were told to play

avars == <<capacity, ready, seat, invited>>

Admitted(g) == {p \in Players : seat[p] = g}

AInit ==
  /\ capacity = [g \in GameServers |-> 0]
  /\ ready = {}
  /\ seat = [p \in Players |-> None]
  /\ invited = {}

\* A server opens before it admitted anyone.
Open(g) ==
  /\ Admitted(g) = {}
  /\ g \notin ready
  /\ \E m \in Capacities : capacity' = [capacity EXCEPT ![g] = m]
  /\ UNCHANGED <<ready, seat, invited>>

Admit(p, g) ==
  /\ seat[p] = None
  /\ Cardinality(Admitted(g)) < capacity[g]
  /\ seat' = [seat EXCEPT ![p] = g]
  /\ UNCHANGED <<capacity, ready, invited>>

BecomeReady(g) ==
  /\ ready' = ready \union {g}
  /\ UNCHANGED <<capacity, seat, invited>>

Invite(p) ==
  /\ seat[p] \in ready
  /\ invited' = invited \union {p}
  /\ UNCHANGED <<capacity, ready, seat>>

ANext ==
  \/ \E g \in GameServers : Open(g) \/ BecomeReady(g)
  \/ \E p \in Players : Invite(p) \/ \E g \in GameServers : Admit(p, g)

ASpec == AInit /\ [][ANext]_avars
=============================================================================
