----------------------------- MODULE Matchmaker -----------------------------
(***************************************************************************)
(* The standalone matchmaker (Remix-Matchmaker): a seasocks event loop, a  *)
(* detached thread for every player socket, the game servers that register *)
(* over /gs, and the HTTP thread that resolves a session id.               *)
(*                                                                         *)
(* One action is one critical section of gMtx, one callback of the event   *)
(* loop, or one Server::execute call.  The event loop runs one callback at *)
(* a time, so all of its actions wait for onConnect to come back           *)
(* (connecting).  The library seasocks, the network and the player's       *)
(* client are external: they are modelled from how the code uses them.     *)
(***************************************************************************)
EXTENDS Naturals, Sequences, FiniteSets, SequencesExt

CONSTANTS
  Players,      \* the player sockets of /mm (one connection each)
  GameServers,  \* the game-server processes, one /gs socket each
  Buckets,      \* the (region, playlist) pairs of ServerMap and QueueMap
  Capacities,   \* the maxPlayers values a game server may announce
  None,         \* no socket, no server, no bucket
  Lookups,      \* bound: the session ids the HTTP thread is asked for
  MaxBacklog    \* bound: closures of one player that wait for the loop

ASSUME PlayersAssumption == IsFiniteSet(Players)
ASSUME CapacitiesAssumption == Capacities \subseteq Nat
ASSUME BoundsAssumption == Lookups \subseteq GameServers /\ MaxBacklog \in Nat \ {0}
ASSUME NoneAssumption == None \notin Players \union GameServers \union Buckets

VARIABLES
  \* the event loop (seasocks)
  tasks,          \* closures posted by Server::execute and not yet run
  connecting,     \* the socket whose onConnect is running, or None
  sock,           \* a player socket: "new", "open", "closing", "gone"
  shown,          \* the last message the player's client was sent
  \* the maps of mm_socket.cpp, all guarded by gMtx
  connections, QueueMap, SocketMap, TicketMap, ThreadMap,
  \* the player threads
  pc, bucket, pickedServer, cancelled,
  \* the registry of game servers and the MMServer objects
  ServerMap, GSServerMap, ServerMapById,
  starting, queuedPlayers, maxPlayers, serverBucket,
  \* the game servers and their sockets
  gsSocket, bInit, bReady, worldReady, wire

loopVars   == <<tasks, connecting, sock, shown>>
mapVars    == <<connections, QueueMap, SocketMap, TicketMap, ThreadMap>>
threadVars == <<pc, bucket, pickedServer, cancelled>>
regVars    == <<ServerMap, GSServerMap, ServerMapById,
                starting, queuedPlayers, maxPlayers, serverBucket>>
gsVars     == <<gsSocket, bInit, bReady, worldReady, wire>>
vars       == <<loopVars, mapVars, threadVars, regVars, gsVars>>

-----------------------------------------------------------------------------
(* Values.                                                                 *)

States == {"Connecting", "Waiting", "Queued", "SessionAssignment", "Play"}

\* What socket->send carries: the StatusUpdate state or Play, with its session.
Message == [state : States, session : GameServers \union {None}]
Status(s) == [state |-> s, session |-> None]
Play(g)   == [state |-> "Play", session |-> g]
Silence   == [state |-> "none", session |-> None]

\* A closure handed to Server::execute: a send or a close of one socket.
Task == [sock : Players, msg : Message \union {[state |-> "close", session |-> None]}]
Send(p, m) == Append(tasks, [sock |-> p, msg |-> m])
Close(p)   == Append(tasks, [sock |-> p, msg |-> Status("close")])

Steps == {"unborn", "start", "auth", "drop", "waiting", "enqueue", "announce",
          "check", "pick", "dequeue", "assign", "await", "recheck", "play",
          "unthread", "close", "done"}

\* The steps right after a cancellation point of POSIX threads (the write of
\* execute, sleep_for, printf): a pending pthread_cancel may take effect here.
CancellationPoints == {"auth", "drop", "waiting", "enqueue", "check", "assign",
                       "await", "unthread"}

GsMessage == [type : {"create"}, bucket : Buckets, maxPlayers : Capacities]
             \union [type : {"ready", "close"}]

Entry == {"absent", "null", "server"}   \* of a map of shared_ptr<MMServer>

ServerMapType == [Buckets -> Seq(GameServers)]

TypeOK ==
  /\ tasks \in Seq(Task)
  /\ connecting \in Players \union {None}
  /\ sock \in [Players -> {"new", "open", "closing", "gone"}]
  /\ shown \in [Players -> Message \union {Silence}]
  /\ connections \in SUBSET Players
  /\ QueueMap \in [Buckets -> SUBSET Players]
  /\ SocketMap \in [Players -> Buckets \union {None}]
  /\ TicketMap \in SUBSET Players
  /\ ThreadMap \in SUBSET Players
  /\ pc \in [Players -> Steps]
  /\ bucket \in [Players -> Buckets \union {None}]
  /\ pickedServer \in [Players -> GameServers \union {None}]
  /\ cancelled \in SUBSET Players
  /\ ServerMap \in ServerMapType
  /\ GSServerMap \in [GameServers -> Entry]
  /\ ServerMapById \in [GameServers -> Entry]
  /\ starting \in [GameServers -> BOOLEAN]
  /\ queuedPlayers \in [GameServers -> Nat]
  /\ maxPlayers \in [GameServers -> Nat]
  /\ serverBucket \in [GameServers -> Buckets \union {None}]
  /\ gsSocket \in [GameServers -> {"open", "gone"}]
  /\ bInit \in [GameServers -> BOOLEAN]
  /\ bReady \in [GameServers -> BOOLEAN]
  /\ worldReady \in [GameServers -> BOOLEAN]
  /\ wire \in [GameServers -> Seq(GsMessage)]

\* Game servers are connected from the start: GSHandler::onConnect only prints.
Init ==
  /\ tasks = << >>
  /\ connecting = None
  /\ sock = [p \in Players |-> "new"]
  /\ shown = [p \in Players |-> Silence]
  /\ connections = {}
  /\ QueueMap = [b \in Buckets |-> {}]
  /\ SocketMap = [p \in Players |-> None]
  /\ TicketMap = {}
  /\ ThreadMap = {}
  /\ pc = [p \in Players |-> "unborn"]
  /\ bucket = [p \in Players |-> None]
  /\ pickedServer = [p \in Players |-> None]
  /\ cancelled = {}
  /\ ServerMap = [b \in Buckets |-> << >>]
  /\ GSServerMap = [g \in GameServers |-> "absent"]
  /\ ServerMapById = [g \in GameServers |-> "absent"]
  /\ starting = [g \in GameServers |-> TRUE]
  /\ queuedPlayers = [g \in GameServers |-> 0]
  /\ maxPlayers = [g \in GameServers |-> 0]
  /\ serverBucket = [g \in GameServers |-> None]
  /\ gsSocket = [g \in GameServers |-> "open"]
  /\ bInit = [g \in GameServers |-> FALSE]
  /\ bReady = [g \in GameServers |-> FALSE]
  /\ worldReady = [g \in GameServers |-> FALSE]
  /\ wire = [g \in GameServers |-> << >>]

-----------------------------------------------------------------------------
(* The player threads.                                                     *)

Goto(p, step) == pc' = [pc EXCEPT ![p] = step]

\* execute and sleep_for are cancellation points: a thread that was already
\* cancelled dies there, after the closure was posted.
GotoOrDie(p, step) == Goto(p, IF p \in cancelled THEN "done" ELSE step)

\* The loop runs the closures in the order they were posted, so a thread that
\* is far ahead of it only waits to be seen: MaxBacklog keeps it this near.
LoopKeepsUp(p) == Cardinality({i \in DOMAIN tasks : tasks[i].sock = p}) < MaxBacklog

Post(p, q, step) ==
  /\ LoopKeepsUp(p)
  /\ tasks' = q
  /\ GotoOrDie(p, step)
  /\ UNCHANGED <<connecting, sock, shown, mapVars, regVars, gsVars,
                 bucket, pickedServer, cancelled>>

\* Mutant of DropSocket: the queue entry is forgotten.
DropSocketKeepsQueue(p) ==
  /\ cancelled' = IF p \in ThreadMap THEN cancelled \union {p} ELSE cancelled
  /\ ThreadMap' = ThreadMap \ {p}
  /\ TicketMap' = TicketMap \ {p}
  /\ connections' = connections \ {p}
  /\ SocketMap' = [SocketMap EXCEPT ![p] = None]
  /\ UNCHANGED QueueMap

\* MMHandler::dropSocket: the whole critical section.
DropSocket(p) ==
  /\ cancelled' = IF p \in ThreadMap THEN cancelled \union {p} ELSE cancelled
  /\ ThreadMap' = ThreadMap \ {p}
  /\ TicketMap' = TicketMap \ {p}
  /\ connections' = connections \ {p}
  /\ QueueMap' = [b \in Buckets |->
                    IF b = SocketMap[p] THEN QueueMap[b] \ {p} ELSE QueueMap[b]]
  /\ SocketMap' = [SocketMap EXCEPT ![p] = None]

\* The thread's first critical section: connections.insert(socket).
InsertConnection(p) ==
  /\ pc[p] = "start"
  /\ connections' = connections \union {p}
  /\ Goto(p, "auth")
  /\ UNCHANGED <<loopVars, regVars, gsVars, QueueMap, SocketMap, TicketMap,
                 ThreadMap, bucket, pickedServer, cancelled>>

\* The ticket is refused (signature size, HMAC or expiry): closeSocket posts
\* the close, then drops the socket from this thread.
RejectTicket(p) ==
  /\ pc[p] = "auth"
  /\ Post(p, Close(p), "drop")

DropRejected(p) ==
  /\ pc[p] = "drop"
  /\ DropSocket(p)
  /\ Goto(p, "done")
  /\ UNCHANGED <<loopVars, regVars, gsVars, bucket, pickedServer>>

\* The ticket is good: its region and playlist are the thread's from here on.
AcceptTicket(p) ==
  /\ pc[p] = "auth"
  /\ LoopKeepsUp(p)
  /\ \E b \in Buckets : bucket' = [bucket EXCEPT ![p] = b]
  /\ tasks' = Send(p, Status("Connecting"))
  /\ GotoOrDie(p, "waiting")
  /\ UNCHANGED <<connecting, sock, shown, mapVars, regVars, gsVars,
                 pickedServer, cancelled>>

PostWaiting(p) ==
  /\ pc[p] = "waiting"
  /\ Post(p, Send(p, Status("Waiting")), "enqueue")

\* QueueMap, SocketMap and TicketMap gain the socket under one lock, whether
\* or not the event loop has dropped it since the last cancellation point.
Enqueue(p) ==
  /\ pc[p] = "enqueue"
  /\ QueueMap' = [QueueMap EXCEPT ![bucket[p]] = @ \union {p}]
  /\ SocketMap' = [SocketMap EXCEPT ![p] = bucket[p]]
  /\ TicketMap' = TicketMap \union {p}
  /\ Goto(p, "announce")
  /\ UNCHANGED <<loopVars, regVars, gsVars, connections, ThreadMap,
                 bucket, pickedServer, cancelled>>

PostQueued(p) ==
  /\ pc[p] = "announce"
  /\ Post(p, Send(p, Status("Queued")), "check")

\* Top of the pick loop: a socket that is gone from SocketMap ends its thread.
CheckSocket(p) ==
  /\ pc[p] = "check"
  /\ Goto(p, IF SocketMap[p] = None THEN "done" ELSE "pick")
  /\ UNCHANGED <<loopVars, mapVars, regVars, gsVars,
                 bucket, pickedServer, cancelled>>

HasRoom(g) == queuedPlayers[g] < maxPlayers[g]

\* Mutant of IsFirstFit: any server with room will do.
IsAnyFit(b, i) ==
  /\ i \in DOMAIN ServerMap[b]
  /\ HasRoom(ServerMap[b][i])

\* i is the place of the first server of bucket b that still has room.
IsFirstFit(b, i) ==
  /\ i \in DOMAIN ServerMap[b]
  /\ HasRoom(ServerMap[b][i])
  /\ \A j \in DOMAIN ServerMap[b] : j < i => ~ HasRoom(ServerMap[b][j])

TakeSlot(p, g) ==
  /\ queuedPlayers' = [queuedPlayers EXCEPT ![g] = @ + 1]
  /\ pickedServer' = [pickedServer EXCEPT ![p] = g]

PickServer(p) ==
  /\ pc[p] = "pick"
  /\ \E i \in DOMAIN ServerMap[bucket[p]] :
       /\ IsFirstFit(bucket[p], i)
       /\ TakeSlot(p, ServerMap[bucket[p]][i])
  /\ Goto(p, "dequeue")
  /\ UNCHANGED <<loopVars, mapVars, gsVars, ServerMap, GSServerMap, ServerMapById,
                 starting, maxPlayers, serverBucket, bucket, cancelled>>

\* Mutant of PickNothing: the thread gives up instead of looking again.
PickNothingGivesUp(p) ==
  /\ pc[p] = "pick"
  /\ \A i \in DOMAIN ServerMap[bucket[p]] : ~ HasRoom(ServerMap[bucket[p]][i])
  /\ Goto(p, "done")
  /\ UNCHANGED <<loopVars, mapVars, regVars, gsVars,
                 bucket, pickedServer, cancelled>>

\* No server has room: sleep ten milliseconds, then look again.
PickNothing(p) ==
  /\ pc[p] = "pick"
  /\ \A i \in DOMAIN ServerMap[bucket[p]] : ~ HasRoom(ServerMap[bucket[p]][i])
  /\ GotoOrDie(p, "check")
  /\ UNCHANGED <<loopVars, mapVars, regVars, gsVars,
                 bucket, pickedServer, cancelled>>

\* Mutant of LeaveQueue: the socket stays in QueueMap.
LeaveQueueStays(p) ==
  /\ pc[p] = "dequeue"
  /\ Goto(p, "assign")
  /\ UNCHANGED <<loopVars, mapVars, regVars, gsVars,
                 bucket, pickedServer, cancelled>>

LeaveQueue(p) ==
  /\ pc[p] = "dequeue"
  /\ QueueMap' = [QueueMap EXCEPT ![bucket[p]] = @ \ {p}]
  /\ Goto(p, "assign")
  /\ UNCHANGED <<loopVars, regVars, gsVars, connections, SocketMap, TicketMap,
                 ThreadMap, bucket, pickedServer, cancelled>>

\* Mutant of PostAssignment: the thread does not wait for the server.
PostAssignmentNoWait(p) ==
  /\ pc[p] = "assign"
  /\ Post(p, Send(p, Status("SessionAssignment")), "play")

PostAssignment(p) ==
  /\ pc[p] = "assign"
  /\ Post(p, Send(p, Status("SessionAssignment")), "await")

\* while (server->starting), read without the lock.
AwaitServer(p) ==
  /\ pc[p] = "await"
  /\ Goto(p, IF starting[pickedServer[p]] THEN "recheck" ELSE "play")
  /\ UNCHANGED <<loopVars, mapVars, regVars, gsVars,
                 bucket, pickedServer, cancelled>>

\* Mutant of RecheckSocket: leaves when the socket is still there.
RecheckSocketInverted(p) ==
  /\ pc[p] = "recheck"
  /\ IF SocketMap[p] # None THEN Goto(p, "done") ELSE GotoOrDie(p, "await")
  /\ UNCHANGED <<loopVars, mapVars, regVars, gsVars,
                 bucket, pickedServer, cancelled>>

\* Body of that loop: leave if the socket was dropped, otherwise sleep.
RecheckSocket(p) ==
  /\ pc[p] = "recheck"
  /\ IF SocketMap[p] = None THEN Goto(p, "done") ELSE GotoOrDie(p, "await")
  /\ UNCHANGED <<loopVars, mapVars, regVars, gsVars,
                 bucket, pickedServer, cancelled>>

PostPlay(p) ==
  /\ pc[p] = "play"
  /\ Post(p, Send(p, Play(pickedServer[p])), "unthread")

EraseThread(p) ==
  /\ pc[p] = "unthread"
  /\ ThreadMap' = ThreadMap \ {p}
  /\ Goto(p, "close")
  /\ UNCHANGED <<loopVars, regVars, gsVars, connections, QueueMap, SocketMap,
                 TicketMap, bucket, pickedServer, cancelled>>

PostClose(p) ==
  /\ pc[p] = "close"
  /\ Post(p, Close(p), "done")

\* A pthread_cancel that arrived while the thread stood at a cancellation
\* point: it unwinds there, whatever it would have done next.
DieCancelled(p) ==
  /\ p \in cancelled
  /\ pc[p] \in CancellationPoints
  /\ Goto(p, "done")
  /\ UNCHANGED <<loopVars, mapVars, regVars, gsVars,
                 bucket, pickedServer, cancelled>>

ThreadStep(p) ==
  \/ InsertConnection(p)
  \/ RejectTicket(p)
  \/ DropRejected(p)
  \/ AcceptTicket(p)
  \/ PostWaiting(p)
  \/ Enqueue(p)
  \/ PostQueued(p)
  \/ CheckSocket(p)
  \/ PickServer(p)
  \/ PickNothing(p)
  \/ LeaveQueue(p)
  \/ PostAssignment(p)
  \/ AwaitServer(p)
  \/ RecheckSocket(p)
  \/ PostPlay(p)
  \/ EraseThread(p)
  \/ PostClose(p)
  \/ DieCancelled(p)

-----------------------------------------------------------------------------
(* The event loop: callbacks of MMHandler, and the closures of execute.    *)

LoopIdle == connecting = None

\* onConnect, first half: the thread runs before its handle is recorded.
OnConnect(p) ==
  /\ LoopIdle
  /\ sock[p] = "new"
  /\ sock' = [sock EXCEPT ![p] = "open"]
  /\ connecting' = p
  /\ Goto(p, "start")
  /\ UNCHANGED <<tasks, shown, mapVars, regVars, gsVars,
                 bucket, pickedServer, cancelled>>

\* onConnect, second half: ThreadMap[socket] = _Thread.native_handle().
RecordThread(p) ==
  /\ connecting = p
  /\ connecting' = None
  /\ ThreadMap' = ThreadMap \union {p}
  /\ UNCHANGED <<tasks, sock, shown, connections, QueueMap, SocketMap, TicketMap,
                 threadVars, regVars, gsVars>>

\* The player's client sends anything: its whole queue gets a fresh status.
\* A send on a socket that is closed or destroyed reaches no client.
OnData(p) ==
  /\ LoopIdle
  /\ sock[p] = "open"
  /\ SocketMap[p] # None
  /\ shown' = [q \in Players |->
                 IF q \in QueueMap[SocketMap[p]] /\ sock[q] = "open"
                 THEN Status("Queued") ELSE shown[q]]
  /\ UNCHANGED <<tasks, connecting, sock, mapVars, threadVars, regVars, gsVars>>

\* The client leaves, or a close completes: onDisconnect calls dropSocket.
OnDisconnect(p) ==
  /\ LoopIdle
  /\ sock[p] \in {"open", "closing"}
  /\ sock' = [sock EXCEPT ![p] = "gone"]
  /\ DropSocket(p)
  /\ UNCHANGED <<tasks, connecting, shown, pc, bucket, pickedServer, regVars, gsVars>>

\* The loop runs the closures in the order they were posted.
RunTask ==
  /\ LoopIdle
  /\ tasks # << >>
  /\ tasks' = Tail(tasks)
  /\ LET t == Head(tasks)
     IN  /\ shown' = IF sock[t.sock] = "open" /\ t.msg.state \in States
                     THEN [shown EXCEPT ![t.sock] = t.msg] ELSE shown
         /\ sock' = IF sock[t.sock] = "open" /\ t.msg.state = "close"
                    THEN [sock EXCEPT ![t.sock] = "closing"] ELSE sock
  /\ UNCHANGED <<connecting, mapVars, threadVars, regVars, gsVars>>

-----------------------------------------------------------------------------
(* The game servers and GSHandler.                                         *)

Transmit(g, msgs) == wire' = [wire EXCEPT ![g] = @ \o msgs]

\* OnGetIP: the address is known, so announce the session; send a ready that
\* FinishWorldInitialization held back.
OnGetIP(g) ==
  /\ gsSocket[g] = "open"
  /\ ~ bInit[g]
  /\ \E b \in Buckets, m \in Capacities :
       LET create == [type |-> "create", bucket |-> b, maxPlayers |-> m]
       IN  Transmit(g, IF bReady[g] THEN <<create, [type |-> "ready"]>>
                                    ELSE <<create>>)
  /\ bInit' = [bInit EXCEPT ![g] = TRUE]
  /\ UNCHANGED <<loopVars, mapVars, threadVars, regVars,
                 gsSocket, bReady, worldReady>>

\* FinishWorldInitialization: the end of the loading of the map.
WorldReady(g) ==
  /\ gsSocket[g] = "open"
  /\ ~ worldReady[g]
  /\ worldReady' = [worldReady EXCEPT ![g] = TRUE]
  /\ IF bInit[g] THEN Transmit(g, <<[type |-> "ready"]>>) /\ UNCHANGED bReady
                 ELSE bReady' = [bReady EXCEPT ![g] = TRUE] /\ UNCHANGED wire
  /\ UNCHANGED <<loopVars, mapVars, threadVars, regVars, gsSocket, bInit>>

\* GamePhaseLogic__Tick: ten seconds before the flight, with a player in the
\* match, the game server closes its socket and takes no more players.
GetReady(g) ==
  /\ gsSocket[g] = "open"
  /\ worldReady[g]
  /\ \E p \in Players : shown[p] = Play(g)
  /\ [type |-> "close"] \notin ToSet(wire[g])
  /\ Transmit(g, <<[type |-> "close"]>>)
  /\ UNCHANGED <<loopVars, mapVars, threadVars, regVars,
                 gsSocket, bInit, bReady, worldReady>>

\* GSHandler::onData of a create.
GsCreate(g) ==
  /\ LoopIdle
  /\ gsSocket[g] = "open"
  /\ wire[g] # << >>
  /\ Head(wire[g]).type = "create"
  /\ LET payload == Head(wire[g])
     IN  /\ maxPlayers' = [maxPlayers EXCEPT ![g] = payload.maxPlayers]
         /\ serverBucket' = [serverBucket EXCEPT ![g] = payload.bucket]
         /\ ServerMap' = [ServerMap EXCEPT ![payload.bucket] = Append(@, g)]
  /\ starting' = [starting EXCEPT ![g] = TRUE]
  /\ queuedPlayers' = [queuedPlayers EXCEPT ![g] = 0]
  /\ GSServerMap' = [GSServerMap EXCEPT ![g] = "server"]
  /\ ServerMapById' = [ServerMapById EXCEPT ![g] = "server"]
  /\ wire' = [wire EXCEPT ![g] = Tail(@)]
  /\ UNCHANGED <<loopVars, mapVars, threadVars, gsSocket, bInit, bReady, worldReady>>

\* GSHandler::onData of a ready: operator[] leaves a null entry when there
\* was none.
GsReady(g) ==
  /\ LoopIdle
  /\ gsSocket[g] = "open"
  /\ wire[g] # << >>
  /\ Head(wire[g]).type = "ready"
  /\ IF GSServerMap[g] = "server"
     THEN starting' = [starting EXCEPT ![g] = FALSE] /\ UNCHANGED GSServerMap
     ELSE GSServerMap' = [GSServerMap EXCEPT ![g] = "null"] /\ UNCHANGED starting
  /\ wire' = [wire EXCEPT ![g] = Tail(@)]
  /\ UNCHANGED <<loopVars, mapVars, threadVars, ServerMap, ServerMapById,
                 queuedPlayers, maxPlayers, serverBucket,
                 gsSocket, bInit, bReady, worldReady>>

\* Mutant of Unlist: the head of the list goes, whichever server left.
UnlistHead(g) ==
  ServerMap' = [ServerMap EXCEPT ![serverBucket[g]] = Tail(@)]

\* serverList.erase(find(begin, end, server)).
Unlist(g) ==
  \E i \in DOMAIN ServerMap[serverBucket[g]] :
    /\ ServerMap[serverBucket[g]][i] = g
    /\ ServerMap' = [ServerMap EXCEPT ![serverBucket[g]] = RemoveAt(@, i)]

\* GSHandler::onDisconnect: the process is gone, or its close frame arrived.
\* What it had sent and the loop had not read is lost.
GsDisconnect(g) ==
  /\ LoopIdle
  /\ gsSocket[g] = "open"
  /\ gsSocket' = [gsSocket EXCEPT ![g] = "gone"]
  /\ wire' = [wire EXCEPT ![g] = << >>]
  /\ IF GSServerMap[g] = "server"
     THEN /\ GSServerMap' = [GSServerMap EXCEPT ![g] = "absent"]
          /\ ServerMapById' = [ServerMapById EXCEPT ![g] = "absent"]
          /\ Unlist(g)
     ELSE /\ GSServerMap' = [GSServerMap EXCEPT ![g] = "null"]
          /\ UNCHANGED <<ServerMapById, ServerMap>>
  /\ UNCHANGED <<loopVars, mapVars, threadVars, starting, queuedPlayers, maxPlayers,
                 serverBucket, bInit, bReady, worldReady>>

\* Mutant of GetSession: the entry is overwritten, not looked up.
GetSessionOverwrites(g) ==
  /\ g \in Lookups
  /\ ServerMapById' = [ServerMapById EXCEPT ![g] = "null"]
  /\ UNCHANGED <<loopVars, mapVars, threadVars, ServerMap, GSServerMap, starting,
                 queuedPlayers, maxPlayers, serverBucket, gsVars>>

\* GetSession on the HTTP thread: operator[] records an id it does not know.
GetSession(g) ==
  /\ g \in Lookups
  /\ ServerMapById[g] = "absent"
  /\ ServerMapById' = [ServerMapById EXCEPT ![g] = "null"]
  /\ UNCHANGED <<loopVars, mapVars, threadVars, ServerMap, GSServerMap, starting,
                 queuedPlayers, maxPlayers, serverBucket, gsVars>>

PlayerSocketEvent(p) == OnConnect(p) \/ RecordThread(p) \/ OnData(p) \/ OnDisconnect(p)

GameServerStep(g) == OnGetIP(g) \/ WorldReady(g) \/ GetReady(g)

RegistryEvent(g) == GsCreate(g) \/ GsReady(g) \/ GsDisconnect(g) \/ GetSession(g)

Next ==
  \/ \E p \in Players : ThreadStep(p) \/ PlayerSocketEvent(p)
  \/ RunTask
  \/ \E g \in GameServers : GameServerStep(g) \/ RegistryEvent(g)

Spec == Init /\ [][Next]_vars

\* Every thread is scheduled, the loop keeps serving what is pending, and a
\* game server that is up learns its address and finishes loading its map.
\* No client or game server has to stay or to leave.
Fairness ==
  /\ \A p \in Players :
       /\ WF_vars(ThreadStep(p))
       /\ WF_vars(RecordThread(p) \/ (sock[p] = "closing" /\ OnDisconnect(p)))
  /\ WF_vars(RunTask)
  /\ \A g \in GameServers :
       /\ WF_vars(OnGetIP(g) \/ WorldReady(g))
       /\ WF_vars(GsCreate(g) \/ GsReady(g))

FairSpec == Spec /\ Fairness

-----------------------------------------------------------------------------
(* Safety.                                                                 *)

Seated(g) == {p \in Players : pickedServer[p] = g}

(* A server is never given more players than it announced: the test and    *)
(* the increment of queuedPlayers happen under one hold of gMtx.           *)
CapacityRespected == \A g \in GameServers : queuedPlayers[g] <= maxPlayers[g]

(* queuedPlayers counts exactly the threads that ever picked the server,   *)
(* those of players who left included: nothing is counted twice, and no    *)
(* slot ever comes back.                                                   *)
SlotsAccounted ==
  \A g \in GameServers : queuedPlayers[g] = Cardinality(Seated(g))

(* The three maps of a waiting player agree whatever the thread and the    *)
(* loop do in between: a queued socket is in SocketMap under that bucket   *)
(* and has the ticket onData quotes, and a player still looking for a      *)
(* server is counted in the queue it is in.                                *)
QueueMatchesMaps ==
  \A p \in Players, b \in Buckets :
    /\ p \in QueueMap[b] => SocketMap[p] = b /\ p \in TicketMap
    /\ SocketMap[p] = b /\ pc[p] \in {"announce", "check", "pick"}
         => p \in QueueMap[b]

(* A player is told to play only on the server its thread picked, and only *)
(* once that server said it is ready.                                      *)
PlayAfterReady ==
  \A p \in Players, g \in GameServers :
    shown[p] = Play(g) => pickedServer[p] = g /\ ~ starting[g]

(* Matches are filled one after the other: while two servers of a bucket   *)
(* are listed, the later one has players only if the earlier one is full.  *)
FilledInOrder ==
  \A b \in Buckets : \A i, j \in DOMAIN ServerMap[b] :
    i < j /\ queuedPlayers[ServerMap[b][j]] > 0 => ~ HasRoom(ServerMap[b][i])

(* The three indexes of the registry name the same servers, at any moment: *)
(* a server is listed once, under its own bucket, exactly while its socket *)
(* owns it and its session id resolves.                                    *)
RegistryConsistent ==
  \A g \in GameServers :
    /\ GSServerMap[g] = "server" <=> ServerMapById[g] = "server"
    /\ GSServerMap[g] = "server" => gsSocket[g] = "open"
    /\ \A b \in Buckets :
         Cardinality({i \in DOMAIN ServerMap[b] : ServerMap[b][i] = g})
           = IF GSServerMap[g] = "server" /\ serverBucket[g] = b THEN 1 ELSE 0

(* A player told to play on a session finds it: GetSession resolves the    *)
(* session while the game server's socket is open.                         *)
PlayedSessionResolves ==
  \A p \in Players, g \in GameServers :
    shown[p] = Play(g) /\ gsSocket[g] = "open" => ServerMapById[g] = "server"

(* A client that was told its session is never put back in the queue by a  *)
(* status that another player's message triggers, nor by a late closure.   *)
AssignmentIsFinal ==
  [][\A p \in Players :
       /\ shown[p].state = "SessionAssignment" =>
            shown'[p].state \in {"SessionAssignment", "Play"}
       /\ shown[p].state = "Play" => shown'[p] = shown[p]]_vars

\* The parts of the inductive invariant behind the theorems of
\* MatchmakerProofs: what each step of a thread has established, what the
\* registry and the wire of a game server may hold, and which messages can
\* still be on their way to a player who was told to play.

HasTicket == Steps \ {"unborn", "start", "auth", "drop", "done"}
HasServer == {"dequeue", "assign", "await", "recheck", "play", "unthread", "close"}
HasPlayed == {"unthread", "close", "done"}

ThreadInv ==
  \A p \in Players :
    /\ sock[p] = "new" => pc[p] = "unborn"
    /\ pc[p] \in HasTicket => bucket[p] \in Buckets
    /\ pc[p] \in HasServer => pickedServer[p] \in GameServers
    /\ pc[p] \notin HasServer \union {"done"} => pickedServer[p] = None
    /\ pc[p] = "play" => ~ starting[pickedServer[p]]

RegistryInv ==
  /\ \A g \in GameServers : GSServerMap[g] = "server" => serverBucket[g] \in Buckets
  /\ \A b \in Buckets : \A i \in DOMAIN ServerMap[b] :
       /\ GSServerMap[ServerMap[b][i]] = "server"
       /\ serverBucket[ServerMap[b][i]] = b
       /\ \A j \in DOMAIN ServerMap[b] : ServerMap[b][j] = ServerMap[b][i] => j = i

\* The create of g has not been handled: it is first on the wire or not sent.
Unregistered(g) == ~ bInit[g] \/ \E i \in DOMAIN wire[g] : wire[g][i].type = "create"

WireInv ==
  \A g \in GameServers :
    /\ ~ bInit[g] => wire[g] = << >>
    /\ \A i \in DOMAIN wire[g] : wire[g][i].type = "create" => i = 1
    /\ Unregistered(g) => /\ starting[g]
                          /\ GSServerMap[g] # "server"
                          /\ Seated(g) = {}

QueueInv ==
  \A p \in Players, b \in Buckets :
    p \in QueueMap[b] =>
      /\ b = bucket[p]
      /\ pc[p] \in {"announce", "check", "pick", "dequeue", "done"}
      /\ pc[p] = "dequeue" \/ pickedServer[p] = None

\* p may no longer be sent anything but the close of its socket.
ToldToPlay(p, g) == pickedServer[p] = g /\ ~ starting[g] /\ pc[p] \in HasPlayed

\* Of the closures behind the k-th, those of p are closes.
OnlyCloses(p, k) ==
  \A i \in DOMAIN tasks : i > k /\ tasks[i].sock = p => tasks[i].msg.state \notin States

PlayInv ==
  /\ \A p \in Players, g \in GameServers :
       shown[p] = Play(g) => ToldToPlay(p, g) /\ OnlyCloses(p, 0)
  /\ \A i \in DOMAIN tasks, p \in Players, g \in GameServers :
       tasks[i].sock = p /\ tasks[i].msg = Play(g) => ToldToPlay(p, g) /\ OnlyCloses(p, i)
  /\ \A p \in Players : shown[p].state = "Play" => shown[p].session # None
  /\ \A i \in DOMAIN tasks : tasks[i].msg.state = "Play" => tasks[i].msg.session # None

IInv ==
  /\ TypeOK
  /\ ThreadInv
  /\ RegistryInv
  /\ WireInv
  /\ QueueInv
  /\ PlayInv
  /\ CapacityRespected
  /\ SlotsAccounted

\* The parts behind the theorems on the registry and on what a client is shown.
\* A server that owns its socket resolves and is listed; a ready one owns its
\* socket as long as that is open.
OwnedInv ==
  \A g \in GameServers :
    /\ GSServerMap[g] = "server" <=> ServerMapById[g] = "server"
    /\ GSServerMap[g] = "server" =>
         /\ gsSocket[g] = "open"
         /\ \E i \in DOMAIN ServerMap[serverBucket[g]] : ServerMap[serverBucket[g]][i] = g
    /\ ~ starting[g] /\ gsSocket[g] = "open" => GSServerMap[g] = "server"

\* The thread of p has posted the assignment, and will not wait or queue again.
Assigned(p) == pickedServer[p] # None /\ pc[p] \in {"await", "recheck", "play"} \union HasPlayed

\* Of the closures behind the k-th, none puts p back in the queue.
OnlyOnward(p, k) ==
  \A i \in DOMAIN tasks : i > k /\ tasks[i].sock = p =>
    tasks[i].msg.state \in {"SessionAssignment", "Play", "close"}

AssignInv ==
  /\ \A p \in Players : shown[p].state = "SessionAssignment" => Assigned(p) /\ OnlyOnward(p, 0)
  /\ \A i \in DOMAIN tasks, p \in Players :
       tasks[i].sock = p /\ tasks[i].msg.state = "SessionAssignment" =>
         Assigned(p) /\ OnlyOnward(p, i)

(* The matchmaker implements Admission: a seat is the server the thread    *)
(* picked, and an invitation is the Play message the client was sent.      *)
Service == INSTANCE Admission WITH
  capacity <- maxPlayers,
  ready    <- {g \in GameServers : ~ starting[g]},
  seat     <- pickedServer,
  invited  <- {p \in Players : shown[p].state = "Play"}

AdmissionImplemented == Service!ASpec

-----------------------------------------------------------------------------
(* Liveness, under FairSpec.                                               *)

(* A player whose thread picked a server is told to play on it, unless the *)
(* player leaves or that game server does.                                 *)
PickedIsPlayed ==
  \A p \in Players, g \in GameServers :
    pickedServer[p] = g ~>
      \/ shown[p] = Play(g)
      \/ sock[p] \in {"closing", "gone"}
      \/ gsSocket[g] = "gone"

(* Room does not stay unused while a connected player waits for it.  (A    *)
(* socket dropped just before Enqueue stays queued for ever, so gone is an *)
(* outcome here.)                                                          *)
RoomIsTaken ==
  \A p \in Players, b \in Buckets :
    (p \in QueueMap[b] /\ \E i \in DOMAIN ServerMap[b] : HasRoom(ServerMap[b][i])) ~>
      \/ p \notin QueueMap[b]
      \/ sock[p] = "gone"
      \/ \A i \in DOMAIN ServerMap[b] : ~ HasRoom(ServerMap[b][i])

=============================================================================
