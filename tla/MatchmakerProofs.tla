-------------------------- MODULE MatchmakerProofs --------------------------
(***************************************************************************)
(* Theorems about Matchmaker, for any finite set of players, any game      *)
(* servers, buckets and capacities.                                        *)
(***************************************************************************)
EXTENDS Matchmaker, SequenceTheorems, FiniteSetTheorems, TLAPS

(* Erasing place i of a list keeps the others, in their order. *)
LEMMA RemoveAtProperties ==
  ASSUME NEW S, NEW s \in Seq(S), NEW i \in 1 .. Len(s)
  PROVE  /\ RemoveAt(s, i) \in Seq(S)
         /\ Len(RemoveAt(s, i)) = Len(s) - 1
         /\ \A k \in 1 .. Len(s) - 1 :
              RemoveAt(s, i)[k] = IF k < i THEN s[k] ELSE s[k + 1]
<1> DEFINE before == SubSeq(s, 1, i - 1)
           after  == SubSeq(s, i + 1, Len(s))
<1>1. /\ before \in Seq(S)
      /\ Len(before) = i - 1
      /\ \A k \in 1 .. i - 1 : before[k] = s[k]
  BY SubSeqProperties, ElementOfSeq, LenProperties
<1>2. /\ after \in Seq(S)
      /\ Len(after) = Len(s) - i
      /\ \A k \in 1 .. Len(s) - i : after[k] = s[i + k]
  BY SubSeqProperties, ElementOfSeq, LenProperties
<1>3. RemoveAt(s, i) = before \o after
  BY DEF RemoveAt
<1> HIDE DEF before, after
<1>4. /\ before \o after \in Seq(S)
      /\ Len(before \o after) = Len(before) + Len(after)
      /\ \A k \in 1 .. Len(before) + Len(after) :
           (before \o after)[k] = IF k <= Len(before) THEN before[k]
                                                      ELSE after[k - Len(before)]
  BY <1>1, <1>2, ConcatProperties
<1>5. Len(s) \in Nat
  BY LenProperties
<1>6. \A k \in 1 .. Len(s) - 1 : RemoveAt(s, i)[k] = IF k < i THEN s[k] ELSE s[k + 1]
  <2> SUFFICES ASSUME NEW k \in 1 .. Len(s) - 1
               PROVE  (before \o after)[k] = IF k < i THEN s[k] ELSE s[k + 1]
    BY <1>3
  <2>1. CASE k < i
    BY <2>1, <1>1, <1>2, <1>4, <1>5
  <2>2. CASE ~ (k < i)
    <3>1. k - (i - 1) \in 1 .. Len(s) - i
      BY <2>2, <1>5
    <3>2. after[k - (i - 1)] = s[i + (k - (i - 1))]
      BY <3>1, <1>2
    <3> QED
      BY <2>2, <3>2, <1>1, <1>2, <1>4, <1>5
  <2> QED
    BY <2>1, <2>2
<1> QED
  BY <1>1, <1>2, <1>3, <1>4, <1>5, <1>6

(* A list keeps the others when a server is appended to it or erased from it. *)
LEMMA AppendKeeps ==
  ASSUME NEW S, NEW s \in Seq(S), NEW g \in S, NEW h, \E i \in DOMAIN s : s[i] = h
  PROVE  \E i \in DOMAIN Append(s, g) : Append(s, g)[i] = h
<1>1. PICK i \in DOMAIN s : s[i] = h
  OBVIOUS
<1>2. /\ DOMAIN s = 1 .. Len(s) /\ Len(s) \in Nat
      /\ DOMAIN Append(s, g) = 1 .. Len(s) + 1
      /\ \A j \in 1 .. Len(s) : Append(s, g)[j] = s[j]
  OBVIOUS
<1> QED
  BY <1>1, <1>2

LEMMA EraseKeeps ==
  ASSUME NEW S, NEW s \in Seq(S), NEW k \in DOMAIN s, NEW h, s[k] # h,
         \E i \in DOMAIN s : s[i] = h
  PROVE  \E i \in DOMAIN RemoveAt(s, k) : RemoveAt(s, k)[i] = h
<1>1. PICK i \in DOMAIN s : s[i] = h
  OBVIOUS
<1>2. DOMAIN s = 1 .. Len(s) /\ Len(s) \in Nat
  OBVIOUS
<1>3. /\ RemoveAt(s, k) \in Seq(S)
      /\ Len(RemoveAt(s, k)) = Len(s) - 1
      /\ \A n \in 1 .. Len(s) - 1 : RemoveAt(s, k)[n] = IF n < k THEN s[n] ELSE s[n + 1]
  BY <1>2, RemoveAtProperties
<1>4. DOMAIN RemoveAt(s, k) = 1 .. Len(s) - 1
  BY <1>3
<1>5. CASE i < k
  BY <1>1, <1>2, <1>3, <1>4, <1>5
<1>6. CASE i > k
  <2>1. i - 1 \in 1 .. Len(s) - 1 /\ ~ (i - 1 < k) /\ (i - 1) + 1 = i
    BY <1>1, <1>2, <1>6
  <2> QED
    BY <1>1, <1>3, <1>4, <2>1
<1> QED
  BY <1>1, <1>2, <1>5, <1>6

-----------------------------------------------------------------------------
(* Type correctness.                                                       *)

(* What a thread posts is a task, and appending it keeps tasks a sequence. *)
LEMMA PostedIsTask ==
  ASSUME TypeOK, NEW p \in Players
  PROVE  /\ Close(p) \in Seq(Task)
         /\ \A s \in States : Send(p, Status(s)) \in Seq(Task)
         /\ \A g \in GameServers : Send(p, Play(g)) \in Seq(Task)
<1>1. /\ [sock |-> p, msg |-> Status("close")] \in Task
      /\ \A s \in States : [sock |-> p, msg |-> Status(s)] \in Task
      /\ \A g \in GameServers : [sock |-> p, msg |-> Play(g)] \in Task
  BY DEF Status, Play, Task, Message, States
<1>2. \A t \in Task : Append(tasks, t) \in Seq(Task)
  BY DEF TypeOK
<1> QED
  BY <1>1, <1>2 DEF Close, Send

LEMMA DropSocketType ==
  ASSUME TypeOK, NEW p \in Players, DropSocket(p)
  PROVE  /\ cancelled' \in SUBSET Players
         /\ ThreadMap' \in SUBSET Players
         /\ TicketMap' \in SUBSET Players
         /\ connections' \in SUBSET Players
         /\ QueueMap' \in [Buckets -> SUBSET Players]
         /\ SocketMap' \in [Players -> Buckets \union {None}]
  BY DEF TypeOK, DropSocket

(* A thread that picks takes one slot of a listed server that has room. *)
LEMMA PickedIsListed ==
  ASSUME IInv, NEW p \in Players, PickServer(p)
  PROVE  \E g \in GameServers :
           /\ HasRoom(g)
           /\ GSServerMap[g] = "server"
           /\ TakeSlot(p, g)
<1>1. bucket[p] \in Buckets
  BY DEF PickServer, IInv, ThreadInv, HasTicket, Steps
<1>2. PICK i \in DOMAIN ServerMap[bucket[p]] :
        /\ IsFirstFit(bucket[p], i)
        /\ TakeSlot(p, ServerMap[bucket[p]][i])
  BY DEF PickServer
<1>3. ServerMap[bucket[p]] \in Seq(GameServers)
  BY <1>1 DEF IInv, TypeOK, ServerMapType
<1>4. ServerMap[bucket[p]][i] \in GameServers
  BY <1>3
<1>5. GSServerMap[ServerMap[bucket[p]][i]] = "server"
  BY <1>1 DEF IInv, RegistryInv
<1>6. HasRoom(ServerMap[bucket[p]][i])
  BY <1>2 DEF IsFirstFit
<1> QED
  BY <1>2, <1>4, <1>5, <1>6

(* Every step of a player thread keeps the types. *)
LEMMA TypeOKThread ==
  ASSUME IInv, NEW p \in Players, ThreadStep(p)
  PROVE  TypeOK'
<1> USE DEF Goto, GotoOrDie, loopVars, mapVars, threadVars, regVars, gsVars, Steps
<1>0. TypeOK
  BY DEF IInv
<1>1. CASE InsertConnection(p)
  BY <1>0, <1>1 DEF InsertConnection, TypeOK
<1>2. CASE RejectTicket(p)
  BY <1>0, <1>2, PostedIsTask DEF RejectTicket, Post, TypeOK
<1>3. CASE DropRejected(p)
  BY <1>0, <1>3, DropSocketType DEF DropRejected, TypeOK
<1>4. CASE AcceptTicket(p)
  <2>1. PICK b \in Buckets : bucket' = [bucket EXCEPT ![p] = b]
    BY <1>4 DEF AcceptTicket
  <2>2. tasks' \in Seq(Task)
    BY <1>0, <1>4, PostedIsTask DEF AcceptTicket, States
  <2> QED
    BY <1>0, <1>4, <2>1, <2>2 DEF AcceptTicket, TypeOK
<1>5. CASE PostWaiting(p)
  BY <1>0, <1>5, PostedIsTask DEF PostWaiting, Post, TypeOK, States
<1>6. CASE Enqueue(p)
  <2>1. bucket[p] \in Buckets
    BY <1>6 DEF Enqueue, IInv, ThreadInv, HasTicket
  <2> QED
    BY <1>0, <1>6, <2>1 DEF Enqueue, TypeOK
<1>7. CASE PostQueued(p)
  BY <1>0, <1>7, PostedIsTask DEF PostQueued, Post, TypeOK, States
<1>8. CASE CheckSocket(p)
  BY <1>0, <1>8 DEF CheckSocket, TypeOK
<1>9. CASE PickServer(p)
  <2>1. PICK g \in GameServers : TakeSlot(p, g)
    BY <1>9, PickedIsListed
  <2> QED
    BY <1>0, <1>9, <2>1 DEF PickServer, TakeSlot, TypeOK
<1>10. CASE PickNothing(p)
  BY <1>0, <1>10 DEF PickNothing, TypeOK
<1>11. CASE LeaveQueue(p)
  BY <1>0, <1>11 DEF LeaveQueue, TypeOK
<1>12. CASE PostAssignment(p)
  BY <1>0, <1>12, PostedIsTask DEF PostAssignment, Post, TypeOK, States
<1>13. CASE AwaitServer(p)
  BY <1>0, <1>13 DEF AwaitServer, TypeOK
<1>14. CASE RecheckSocket(p)
  BY <1>0, <1>14 DEF RecheckSocket, TypeOK
<1>15. CASE PostPlay(p)
  <2>1. pickedServer[p] \in GameServers
    BY <1>15 DEF PostPlay, IInv, ThreadInv, HasServer
  <2>2. tasks' \in Seq(Task)
    BY <1>0, <1>15, <2>1, PostedIsTask DEF PostPlay, Post
  <2> QED
    BY <1>0, <1>15, <2>2 DEF PostPlay, Post, TypeOK
<1>16. CASE EraseThread(p)
  BY <1>0, <1>16 DEF EraseThread, TypeOK
<1>17. CASE PostClose(p)
  BY <1>0, <1>17, PostedIsTask DEF PostClose, Post, TypeOK
<1>18. CASE DieCancelled(p)
  BY <1>0, <1>18 DEF DieCancelled, TypeOK
<1> QED
  BY <1>1, <1>2, <1>3, <1>4, <1>5, <1>6, <1>7, <1>8, <1>9, <1>10, <1>11, <1>12,
     <1>13, <1>14, <1>15, <1>16, <1>17, <1>18 DEF ThreadStep

(* Every callback of the event loop for a player socket keeps the types. *)
LEMMA TypeOKSocket ==
  ASSUME IInv, NEW p \in Players, PlayerSocketEvent(p)
  PROVE  TypeOK'
<1> USE DEF loopVars, mapVars, threadVars, regVars, gsVars
<1>0. TypeOK
  BY DEF IInv
<1>1. CASE OnConnect(p)
  BY <1>0, <1>1 DEF OnConnect, Goto, Steps, TypeOK
<1>2. CASE RecordThread(p)
  BY <1>0, <1>2 DEF RecordThread, TypeOK
<1>3. CASE OnData(p)
  BY <1>0, <1>3 DEF OnData, Status, Message, States, TypeOK
<1>4. CASE OnDisconnect(p)
  BY <1>0, <1>4, DropSocketType DEF OnDisconnect, TypeOK
<1> QED
  BY <1>1, <1>2, <1>3, <1>4 DEF PlayerSocketEvent

LEMMA TypeOKTask ==
  ASSUME IInv, RunTask
  PROVE  TypeOK'
<1>0. TypeOK
  BY DEF IInv
<1>1. /\ Head(tasks) \in Task
      /\ Tail(tasks) \in Seq(Task)
  BY <1>0, HeadTailProperties DEF RunTask, TypeOK
<1>2. Head(tasks).msg.state \in States => Head(tasks).msg \in Message
  BY <1>1 DEF Task, Message, States
<1> QED
  BY <1>0, <1>1, <1>2 DEF RunTask, Task, TypeOK, mapVars, threadVars, regVars, gsVars

(* Every step of a game server and of its handler keeps the types. *)
LEMMA TypeOKRegistry ==
  ASSUME IInv, NEW g \in GameServers, GameServerStep(g) \/ RegistryEvent(g)
  PROVE  TypeOK'
<1> USE DEF loopVars, mapVars, threadVars, regVars, gsVars
<1>0. TypeOK
  BY DEF IInv
<1>1. CASE OnGetIP(g)
  <2>1. PICK b \in Buckets, m \in Capacities :
          wire' = [wire EXCEPT ![g] =
                     @ \o IF bReady[g]
                          THEN <<[type |-> "create", bucket |-> b, maxPlayers |-> m],
                                 [type |-> "ready"]>>
                          ELSE <<[type |-> "create", bucket |-> b, maxPlayers |-> m]>>]
    BY <1>1 DEF OnGetIP, Transmit
  <2>2. /\ [type |-> "create", bucket |-> b, maxPlayers |-> m] \in GsMessage
        /\ [type |-> "ready"] \in GsMessage
    BY DEF GsMessage
  <2>3. wire' \in [GameServers -> Seq(GsMessage)]
    BY <1>0, <2>1, <2>2, ConcatProperties DEF TypeOK
  <2> QED
    BY <1>0, <1>1, <2>3 DEF OnGetIP, TypeOK
<1>2. CASE WorldReady(g)
  <2>1. [type |-> "ready"] \in GsMessage
    BY DEF GsMessage
  <2>2. CASE bInit[g]
    <3>1. wire' = [wire EXCEPT ![g] = @ \o <<[type |-> "ready"]>>]
      BY <1>2, <2>2 DEF WorldReady, Transmit
    <3>2. wire' \in [GameServers -> Seq(GsMessage)]
      BY <1>0, <2>1, <3>1, ConcatProperties DEF TypeOK
    <3> QED
      BY <1>0, <1>2, <2>2, <3>2 DEF WorldReady, TypeOK
  <2>3. CASE ~ bInit[g]
    BY <1>0, <1>2, <2>3 DEF WorldReady, TypeOK
  <2> QED
    BY <2>2, <2>3
<1>3. CASE GetReady(g)
  <2>1. [type |-> "close"] \in GsMessage
    BY DEF GsMessage
  <2>2. wire' \in [GameServers -> Seq(GsMessage)]
    BY <1>0, <1>3, <2>1, ConcatProperties DEF GetReady, Transmit, TypeOK
  <2> QED
    BY <1>0, <1>3, <2>2 DEF GetReady, TypeOK
<1>4. CASE GsCreate(g)
  <2>1. /\ Head(wire[g]) \in GsMessage
        /\ Tail(wire[g]) \in Seq(GsMessage)
    BY <1>0, <1>4, HeadTailProperties DEF GsCreate, TypeOK
  <2>2. /\ Head(wire[g]).bucket \in Buckets
        /\ Head(wire[g]).maxPlayers \in Nat
    BY <1>4, <2>1, CapacitiesAssumption DEF GsCreate, GsMessage
  <2> QED
    BY <1>0, <1>4, <2>1, <2>2 DEF GsCreate, TypeOK, ServerMapType, Entry
<1>5. CASE GsReady(g)
  <2>1. Tail(wire[g]) \in Seq(GsMessage)
    BY <1>0, <1>5, HeadTailProperties DEF GsReady, TypeOK
  <2> QED
    BY <1>0, <1>5, <2>1 DEF GsReady, TypeOK, Entry
<1>6. CASE GsDisconnect(g)
  <2>1. ASSUME Unlist(g), GSServerMap[g] = "server"
        PROVE  ServerMap' \in ServerMapType
    <3>1. serverBucket[g] \in Buckets
      BY <2>1 DEF IInv, RegistryInv
    <3>2. ServerMap[serverBucket[g]] \in Seq(GameServers)
      BY <1>0, <3>1 DEF TypeOK, ServerMapType
    <3>3. PICK i \in DOMAIN ServerMap[serverBucket[g]] :
            ServerMap' = [ServerMap EXCEPT ![serverBucket[g]] = RemoveAt(@, i)]
      BY <2>1 DEF Unlist
    <3>4. RemoveAt(ServerMap[serverBucket[g]], i) \in Seq(GameServers)
      BY <3>2, RemoveAtProperties
    <3> QED
      BY <1>0, <3>1, <3>3, <3>4 DEF TypeOK, ServerMapType
  <2>2. << >> \in Seq(GsMessage)
    OBVIOUS
  <2>3. CASE GSServerMap[g] = "server"
    BY <1>0, <1>6, <2>1, <2>2, <2>3 DEF GsDisconnect, TypeOK, Entry
  <2>4. CASE GSServerMap[g] # "server"
    BY <1>0, <1>6, <2>2, <2>4 DEF GsDisconnect, TypeOK, Entry
  <2> QED
    BY <2>3, <2>4
<1>7. CASE GetSession(g)
  BY <1>0, <1>7 DEF GetSession, TypeOK, Entry
<1> QED
  BY <1>1, <1>2, <1>3, <1>4, <1>5, <1>6, <1>7 DEF GameServerStep, RegistryEvent

-----------------------------------------------------------------------------
(* What each kind of step leaves alone.                                    *)

LEMMA ThreadFrame ==
  ASSUME NEW p \in Players, ThreadStep(p)
  PROVE  /\ UNCHANGED <<connecting, sock, shown, gsVars, ServerMap, GSServerMap,
                        ServerMapById, starting, maxPlayers, serverBucket>>
         /\ ~ PickServer(p) => UNCHANGED <<queuedPlayers, pickedServer>>
         /\ ~ AcceptTicket(p) => UNCHANGED bucket
<1> USE DEF loopVars, mapVars, threadVars, regVars, gsVars
<1>1. CASE InsertConnection(p)
  BY <1>1 DEF InsertConnection
<1>2. CASE RejectTicket(p)
  BY <1>2 DEF RejectTicket, Post
<1>3. CASE DropRejected(p)
  BY <1>3 DEF DropRejected
<1>4. CASE AcceptTicket(p)
  BY <1>4 DEF AcceptTicket
<1>5. CASE PostWaiting(p) \/ PostQueued(p) \/ PostAssignment(p) \/ PostPlay(p) \/ PostClose(p)
  BY <1>5 DEF PostWaiting, PostQueued, PostAssignment, PostPlay, PostClose, Post
<1>6. CASE Enqueue(p) \/ LeaveQueue(p) \/ EraseThread(p)
  BY <1>6 DEF Enqueue, LeaveQueue, EraseThread
<1>7. CASE CheckSocket(p) \/ AwaitServer(p) \/ RecheckSocket(p) \/ DieCancelled(p)
  BY <1>7 DEF CheckSocket, AwaitServer, RecheckSocket, DieCancelled
<1>8. CASE PickServer(p)
  BY <1>8 DEF PickServer
<1>9. CASE PickNothing(p)
  BY <1>9 DEF PickNothing
<1> QED
  BY <1>1, <1>2, <1>3, <1>4, <1>5, <1>6, <1>7, <1>8, <1>9 DEF ThreadStep

LEMMA SocketFrame ==
  ASSUME NEW p \in Players, PlayerSocketEvent(p)
  PROVE  UNCHANGED <<tasks, bucket, pickedServer, regVars, gsVars>>
BY DEF PlayerSocketEvent, OnConnect, RecordThread, OnData, OnDisconnect, threadVars

LEMMA RegistryFrame ==
  ASSUME NEW g \in GameServers, GameServerStep(g) \/ RegistryEvent(g)
  PROVE  UNCHANGED <<loopVars, mapVars, threadVars>>
BY DEF GameServerStep, RegistryEvent, OnGetIP, WorldReady, GetReady, GsCreate,
       GsReady, GsDisconnect, GetSession

-----------------------------------------------------------------------------
(* The registry.                                                           *)

(* Only the handlers of a game server touch the lists and their owners.    *)
LEMMA RegistryInvStep ==
  ASSUME IInv, Next
  PROVE  RegistryInv'
<1>0. RegistryInv /\ TypeOK /\ WireInv
  BY DEF IInv
<1>1. ASSUME UNCHANGED <<ServerMap, GSServerMap, serverBucket>>
      PROVE  RegistryInv'
  BY <1>0, <1>1 DEF RegistryInv
<1>2. ASSUME NEW p \in Players, ThreadStep(p)
      PROVE  RegistryInv'
  BY <1>1, <1>2, ThreadFrame
<1>3. ASSUME NEW p \in Players, PlayerSocketEvent(p)
      PROVE  RegistryInv'
  BY <1>1, <1>3, SocketFrame DEF regVars
<1>4. CASE RunTask
  BY <1>1, <1>4 DEF RunTask, regVars
<1>5. ASSUME NEW g \in GameServers, GameServerStep(g)
      PROVE  RegistryInv'
  BY <1>1, <1>5 DEF GameServerStep, OnGetIP, WorldReady, GetReady, regVars
<1>6. ASSUME NEW g \in GameServers, GsCreate(g)
      PROVE  RegistryInv'
  <2> DEFINE c == Head(wire[g]).bucket
  <2>1. /\ c \in Buckets
        /\ wire[g] # << >>
        /\ wire[g] \in Seq(GsMessage)
    <3>1. wire[g] \in Seq(GsMessage) /\ wire[g] # << >> /\ Head(wire[g]).type = "create"
      BY <1>0, <1>6 DEF GsCreate, TypeOK
    <3>2. Head(wire[g]) \in GsMessage
      BY <3>1, HeadTailProperties
    <3> QED
      BY <3>1, <3>2 DEF GsMessage
  <2>2. wire[g][1].type = "create" /\ 1 \in DOMAIN wire[g]
    BY <1>6, <2>1 DEF GsCreate
  <2>3. GSServerMap[g] # "server"
    BY <1>0, <2>2 DEF WireInv, Unregistered
  <2>4. /\ GSServerMap' = [GSServerMap EXCEPT ![g] = "server"]
        /\ serverBucket' = [serverBucket EXCEPT ![g] = c]
        /\ ServerMap' = [ServerMap EXCEPT ![c] = Append(ServerMap[c], g)]
    BY <1>6 DEF GsCreate
  <2> HIDE DEF c
  <2>5. \A b \in Buckets : ServerMap[b] \in Seq(GameServers)
    BY <1>0 DEF TypeOK, ServerMapType
  <2>6. \A b \in Buckets : \A i \in DOMAIN ServerMap[b] : ServerMap[b][i] \in GameServers \ {g}
    BY <1>0, <2>3, <2>5 DEF RegistryInv
  <2>7. \A h \in GameServers :
           /\ GSServerMap'[h] = IF h = g THEN "server" ELSE GSServerMap[h]
           /\ serverBucket'[h] = IF h = g THEN c ELSE serverBucket[h]
    BY <1>0, <2>4 DEF TypeOK
  <2>8. \A b \in Buckets :
           ServerMap'[b] = IF b = c THEN Append(ServerMap[c], g) ELSE ServerMap[b]
    BY <1>0, <2>4 DEF TypeOK, ServerMapType
  <2>9. \A h \in GameServers : GSServerMap'[h] = "server" => serverBucket'[h] \in Buckets
    BY <1>0, <2>1, <2>7 DEF RegistryInv
  <2>10. ASSUME NEW b \in Buckets, NEW i \in DOMAIN ServerMap'[b]
         PROVE  /\ GSServerMap'[ServerMap'[b][i]] = "server"
                /\ serverBucket'[ServerMap'[b][i]] = b
                /\ \A j \in DOMAIN ServerMap'[b] :
                     ServerMap'[b][j] = ServerMap'[b][i] => j = i
    <3>1. CASE b # c
      BY <1>0, <2>6, <2>7, <2>8, <2>10, <3>1 DEF RegistryInv
    <3>2. CASE b = c
      <4>1. /\ DOMAIN ServerMap'[b] = 1 .. Len(ServerMap[c]) + 1
            /\ DOMAIN ServerMap[c] = 1 .. Len(ServerMap[c])
            /\ Len(ServerMap[c]) \in Nat
            /\ ServerMap'[b][Len(ServerMap[c]) + 1] = g
            /\ \A k \in 1 .. Len(ServerMap[c]) : ServerMap'[b][k] = ServerMap[c][k]
        <5>1. ServerMap[c] \in Seq(GameServers)
          BY <2>1, <2>5
        <5>2. ServerMap'[b] = Append(ServerMap[c], g)
          BY <2>8, <3>2
        <5> QED
          BY <5>1, <5>2
      <4>2. \A k \in 1 .. Len(ServerMap[c]) : ServerMap'[b][k] \in GameServers \ {g}
        BY <2>1, <2>6, <4>1
      <4>3. CASE i = Len(ServerMap[c]) + 1
        BY <2>7, <3>2, <4>1, <4>2, <4>3
      <4>4. CASE i # Len(ServerMap[c]) + 1
        <5>1. i \in 1 .. Len(ServerMap[c])
          BY <2>10, <4>1, <4>4
        <5>2. \A n \in 1 .. Len(ServerMap[c]) :
                /\ GSServerMap[ServerMap[c][n]] = "server"
                /\ serverBucket[ServerMap[c][n]] = c
                /\ \A m \in 1 .. Len(ServerMap[c]) :
                     ServerMap[c][m] = ServerMap[c][n] => m = n
          BY <1>0, <2>1, <4>1 DEF RegistryInv
        <5>3. \A j \in DOMAIN ServerMap'[b] :
                ServerMap'[b][j] = ServerMap'[b][i] => j \in 1 .. Len(ServerMap[c])
          BY <4>1, <4>2, <5>1
        <5>4. \A j \in DOMAIN ServerMap'[b] :
                ServerMap'[b][j] = ServerMap'[b][i] => j = i
          BY <4>1, <5>1, <5>2, <5>3
        <5> QED
          BY <2>7, <3>2, <4>1, <4>2, <5>1, <5>2, <5>4
      <4> QED
        BY <4>3, <4>4
    <3> QED
      BY <3>1, <3>2
  <2> QED
    BY <2>9, <2>10 DEF RegistryInv
<1>7. ASSUME NEW g \in GameServers, GsReady(g)
      PROVE  RegistryInv'
  BY <1>0, <1>7 DEF GsReady, RegistryInv, TypeOK, Entry, ServerMapType
<1>8. ASSUME NEW g \in GameServers, GsDisconnect(g), GSServerMap[g] = "server"
      PROVE  RegistryInv'
  <2> DEFINE c == serverBucket[g]
             old == ServerMap[c]
  <2>1. c \in Buckets
    BY <1>0, <1>8 DEF RegistryInv
  <2>2. PICK k \in DOMAIN old :
          /\ old[k] = g
          /\ ServerMap' = [ServerMap EXCEPT ![c] = RemoveAt(old, k)]
    BY <1>8 DEF GsDisconnect, Unlist
  <2>3. /\ GSServerMap' = [GSServerMap EXCEPT ![g] = "absent"]
        /\ UNCHANGED serverBucket
    BY <1>8 DEF GsDisconnect
  <2>4. old \in Seq(GameServers)
    BY <1>0, <2>1 DEF TypeOK, ServerMapType
  <2> HIDE DEF c
  <2>5. /\ RemoveAt(old, k) \in Seq(GameServers)
        /\ Len(RemoveAt(old, k)) = Len(old) - 1
        /\ \A i \in 1 .. Len(old) - 1 :
             RemoveAt(old, k)[i] = IF i < k THEN old[i] ELSE old[i + 1]
    <3>1. k \in 1 .. Len(old)
      BY <2>4
    <3> HIDE DEF old
    <3> QED
      BY <2>4, <3>1, RemoveAtProperties
  <2>6. \A b \in Buckets :
           ServerMap'[b] = IF b = c THEN RemoveAt(old, k) ELSE ServerMap[b]
    BY <1>0, <2>2 DEF TypeOK, ServerMapType
  <2>7. \A h \in GameServers : GSServerMap'[h] = IF h = g THEN "absent" ELSE GSServerMap[h]
    BY <1>0, <2>3 DEF TypeOK
  <2>8. ASSUME NEW b \in Buckets, NEW i \in DOMAIN ServerMap'[b]
        PROVE  /\ GSServerMap'[ServerMap'[b][i]] = "server"
               /\ serverBucket'[ServerMap'[b][i]] = b
               /\ \A j \in DOMAIN ServerMap'[b] :
                    ServerMap'[b][j] = ServerMap'[b][i] => j = i
    <3>1. CASE b # c
      <4>1. ServerMap'[b] = ServerMap[b]
        BY <2>6, <3>1
      <4>2. ServerMap[b][i] # g /\ ServerMap[b][i] \in GameServers
        BY <1>0, <2>8, <3>1, <4>1 DEF RegistryInv, TypeOK, ServerMapType, c
      <4> QED
        BY <1>0, <2>3, <2>7, <2>8, <4>1, <4>2 DEF RegistryInv
    <3>2. CASE b = c
      <4> DEFINE at(n) == IF n < k THEN n ELSE n + 1
      <4>1. /\ DOMAIN ServerMap'[b] = 1 .. Len(old) - 1
            /\ DOMAIN old = 1 .. Len(old)
            /\ Len(old) \in Nat
        BY <2>4, <2>5, <2>6, <3>2
      <4>2. \A n \in 1 .. Len(old) - 1 :
               /\ at(n) \in 1 .. Len(old)
               /\ at(n) # k
               /\ ServerMap'[b][n] = old[at(n)]
        BY <2>2, <2>5, <2>6, <3>2, <4>1
      <4>3. \A n, m \in 1 .. Len(old) - 1 : at(n) = at(m) => n = m
        BY <2>2, <4>1
      <4> HIDE DEF at
      <4>4. \A n \in 1 .. Len(old) : /\ GSServerMap[old[n]] = "server"
                                     /\ serverBucket[old[n]] = c
                                     /\ \A m \in 1 .. Len(old) : old[m] = old[n] => m = n
        BY <1>0, <2>1, <4>1 DEF RegistryInv
      <4>5. \A n \in 1 .. Len(old) : n # k => old[n] \in GameServers \ {g}
        BY <2>2, <2>4, <4>1, <4>4
      <4> QED
        BY <2>3, <2>7, <2>8, <3>2, <4>1, <4>2, <4>3, <4>4, <4>5
    <3> QED
      BY <3>1, <3>2
  <2>9. \A h \in GameServers : GSServerMap'[h] = "server" => serverBucket'[h] \in Buckets
    BY <1>0, <2>3, <2>7 DEF RegistryInv
  <2> QED
    BY <2>8, <2>9 DEF RegistryInv
<1>9. ASSUME NEW g \in GameServers, GsDisconnect(g), GSServerMap[g] # "server"
      PROVE  RegistryInv'
  BY <1>0, <1>9 DEF GsDisconnect, RegistryInv, TypeOK, ServerMapType
<1>10. ASSUME NEW g \in GameServers, GetSession(g)
       PROVE  RegistryInv'
  BY <1>1, <1>10 DEF GetSession
<1> QED
  BY <1>2, <1>3, <1>4, <1>5, <1>6, <1>7, <1>8, <1>9, <1>10 DEF Next, RegistryEvent

-----------------------------------------------------------------------------
(* What a thread has established at each of its steps.                     *)

LEMMA ThreadInvThread ==
  ASSUME IInv, NEW p \in Players, ThreadStep(p)
  PROVE  ThreadInv'
<1>0. TypeOK /\ ThreadInv
  BY DEF IInv
<1> USE DEF Goto, GotoOrDie, HasTicket, HasServer, Steps
<1>1. /\ pc \in [Players -> Steps]
      /\ bucket \in [Players -> Buckets \union {None}]
      /\ pickedServer \in [Players -> GameServers \union {None}]
      /\ starting \in [GameServers -> BOOLEAN]
  BY <1>0 DEF TypeOK
<1>2. UNCHANGED <<sock, starting>>
  BY ThreadFrame
<1>3. pc[p] # "unborn" /\ sock[p] # "new"
  BY <1>0 DEF ThreadInv, ThreadStep, InsertConnection, RejectTicket, DropRejected,
              AcceptTicket, PostWaiting, Enqueue, PostQueued, CheckSocket, PickServer,
              PickNothing, LeaveQueue, PostAssignment, AwaitServer, RecheckSocket,
              PostPlay, EraseThread, PostClose, DieCancelled, CancellationPoints
<1>4. ASSUME ~ AcceptTicket(p), ~ PickServer(p),
             NEW step \in Steps, pc' = [pc EXCEPT ![p] = step],
             step \in HasTicket => pc[p] \in HasTicket,
             step \in HasServer => pc[p] \in HasServer,
             step \notin HasServer \union {"done"} => pc[p] \notin HasServer \union {"done"},
             step = "play" => ~ starting[pickedServer[p]]
      PROVE  ThreadInv'
  <2>1. UNCHANGED <<bucket, pickedServer>>
    BY <1>4, ThreadFrame
  <2> QED
    BY <1>0, <1>1, <1>2, <1>3, <1>4, <2>1 DEF ThreadInv
<1>5. CASE AcceptTicket(p)
  <2>1. UNCHANGED pickedServer
    BY <1>5, ThreadFrame DEF AcceptTicket, PickServer
  <2> QED
    BY <1>0, <1>1, <1>2, <1>3, <1>5, <2>1 DEF AcceptTicket, ThreadInv
<1>6. CASE PickServer(p)
  <2>1. PICK g \in GameServers : TakeSlot(p, g)
    BY <1>6, PickedIsListed
  <2>2. UNCHANGED bucket
    BY <1>6, ThreadFrame DEF AcceptTicket, PickServer
  <2> QED
    BY <1>0, <1>1, <1>2, <1>3, <1>6, <2>1, <2>2 DEF PickServer, TakeSlot, ThreadInv
<1>7. CASE InsertConnection(p)
  BY <1>4, <1>7 DEF InsertConnection, AcceptTicket, PickServer
<1>8. CASE RejectTicket(p)
  <2>1. UNCHANGED <<bucket, pickedServer>>
    BY <1>8 DEF RejectTicket, Post
  <2> QED
    BY <1>0, <1>1, <1>2, <1>3, <1>8, <2>1 DEF RejectTicket, Post, ThreadInv
<1>9. CASE DropRejected(p)
  BY <1>4, <1>9 DEF DropRejected, AcceptTicket, PickServer
<1>10. CASE PostWaiting(p)
  BY <1>4, <1>10 DEF PostWaiting, Post, AcceptTicket, PickServer
<1>11. CASE Enqueue(p)
  BY <1>4, <1>11 DEF Enqueue, AcceptTicket, PickServer
<1>12. CASE PostQueued(p)
  BY <1>4, <1>12 DEF PostQueued, Post, AcceptTicket, PickServer
<1>13. CASE CheckSocket(p)
  BY <1>4, <1>13 DEF CheckSocket, AcceptTicket, PickServer
<1>14. CASE PickNothing(p)
  BY <1>0, <1>1, <1>2, <1>3, <1>14 DEF PickNothing, ThreadInv
<1>15. CASE LeaveQueue(p)
  BY <1>4, <1>15 DEF LeaveQueue, AcceptTicket, PickServer
<1>16. CASE PostAssignment(p)
  BY <1>4, <1>16 DEF PostAssignment, Post, AcceptTicket, PickServer
<1>17. CASE AwaitServer(p)
  <2>1. UNCHANGED <<bucket, pickedServer>>
    BY <1>17 DEF AwaitServer
  <2> QED
    BY <1>0, <1>1, <1>2, <1>3, <1>17, <2>1 DEF AwaitServer, ThreadInv
<1>18. CASE RecheckSocket(p)
  <2>1. UNCHANGED <<bucket, pickedServer>>
    BY <1>18 DEF RecheckSocket
  <2> QED
    BY <1>0, <1>1, <1>2, <1>3, <1>18, <2>1 DEF RecheckSocket, ThreadInv
<1>19. CASE PostPlay(p)
  BY <1>4, <1>19 DEF PostPlay, Post, AcceptTicket, PickServer
<1>20. CASE EraseThread(p)
  BY <1>4, <1>20 DEF EraseThread, AcceptTicket, PickServer
<1>21. CASE PostClose(p)
  BY <1>4, <1>21 DEF PostClose, Post, AcceptTicket, PickServer
<1>22. CASE DieCancelled(p)
  BY <1>0, <1>1, <1>2, <1>3, <1>22 DEF DieCancelled, ThreadInv
<1> QED
  BY <1>5, <1>6, <1>7, <1>8, <1>9, <1>10, <1>11, <1>12, <1>13, <1>14, <1>15, <1>16,
     <1>17, <1>18, <1>19, <1>20, <1>21, <1>22 DEF ThreadStep

(* Once a server is ready it stays so: only its one create sets starting. *)
LEMMA ReadyForever ==
  ASSUME IInv, NEW g \in GameServers, GameServerStep(g) \/ RegistryEvent(g)
  PROVE  \A h \in GameServers : ~ starting[h] => ~ starting'[h]
<1>0. TypeOK /\ WireInv
  BY DEF IInv
<1>1. CASE GsCreate(g)
  <2>1. wire[g] # << >> /\ wire[g] \in Seq(GsMessage) /\ Head(wire[g]).type = "create"
    BY <1>0, <1>1 DEF GsCreate, TypeOK
  <2>2. 1 \in DOMAIN wire[g] /\ wire[g][1].type = "create"
    BY <2>1
  <2>3. starting[g]
    BY <1>0, <2>2 DEF WireInv, Unregistered
  <2> QED
    BY <1>0, <1>1, <2>3 DEF GsCreate, TypeOK
<1>2. CASE GsReady(g)
  BY <1>0, <1>2 DEF GsReady, TypeOK
<1>3. CASE GameServerStep(g) \/ GsDisconnect(g) \/ GetSession(g)
  BY <1>3 DEF GameServerStep, OnGetIP, WorldReady, GetReady, GsDisconnect,
              GetSession, regVars
<1> QED
  BY <1>1, <1>2, <1>3 DEF RegistryEvent

LEMMA ThreadInvStep ==
  ASSUME IInv, Next
  PROVE  ThreadInv'
<1>0. TypeOK /\ ThreadInv /\ WireInv
  BY DEF IInv
<1>1. ASSUME NEW p \in Players, ThreadStep(p)
      PROVE  ThreadInv'
  BY <1>1, ThreadInvThread
<1>2. ASSUME NEW p \in Players, PlayerSocketEvent(p)
      PROVE  ThreadInv'
  <2>0. UNCHANGED <<bucket, pickedServer, starting>>
    BY <1>2, SocketFrame DEF regVars
  <2>1. CASE OnConnect(p)
    BY <1>0, <2>0, <2>1
       DEF OnConnect, Goto, ThreadInv, TypeOK, HasTicket, HasServer, Steps
  <2>2. CASE RecordThread(p) \/ OnData(p)
    BY <1>0, <2>0, <2>2 DEF RecordThread, OnData, threadVars, ThreadInv
  <2>3. CASE OnDisconnect(p)
    BY <1>0, <2>0, <2>3 DEF OnDisconnect, ThreadInv, TypeOK
  <2> QED
    BY <1>2, <2>1, <2>2, <2>3 DEF PlayerSocketEvent
<1>3. CASE RunTask
  <2>1. UNCHANGED <<pc, bucket, pickedServer, starting>>
    BY <1>3 DEF RunTask, threadVars, regVars
  <2>2. \A p \in Players : sock'[p] = "new" => sock[p] = "new"
    BY <1>0, <1>3 DEF RunTask, TypeOK
  <2> QED
    BY <1>0, <2>1, <2>2 DEF ThreadInv
<1>4. ASSUME NEW g \in GameServers, GameServerStep(g) \/ RegistryEvent(g)
      PROVE  ThreadInv'
  <2>1. UNCHANGED <<sock, pc, bucket, pickedServer>>
    BY <1>4, RegistryFrame DEF loopVars, threadVars
  <2>2. \A h \in GameServers : ~ starting[h] => ~ starting'[h]
    BY <1>4, ReadyForever
  <2>3. \A p \in Players : pc[p] = "play" => pickedServer[p] \in GameServers
    BY <1>0 DEF ThreadInv, HasServer
  <2> QED
    BY <1>0, <2>1, <2>2, <2>3 DEF ThreadInv
<1> QED
  BY <1>1, <1>2, <1>3, <1>4 DEF Next

-----------------------------------------------------------------------------
(* The wire of a game server, and the accounts of its slots.               *)

LEMMA SeatedBy ==
  ASSUME IInv, NEW p \in Players, ThreadStep(p), NEW g \in GameServers
  PROVE  \/ Seated(g)' = Seated(g)
         \/ /\ PickServer(p)
            /\ GSServerMap[g] = "server"
            /\ HasRoom(g)
            /\ p \notin Seated(g)
            /\ Seated(g)' = Seated(g) \union {p}
            /\ TakeSlot(p, g)
<1>0. TypeOK /\ ThreadInv
  BY DEF IInv
<1>1. CASE PickServer(p)
  <2>1. PICK h \in GameServers : HasRoom(h) /\ GSServerMap[h] = "server" /\ TakeSlot(p, h)
    BY <1>1, PickedIsListed
  <2>2. pickedServer[p] = None
    BY <1>0, <1>1 DEF PickServer, ThreadInv, HasServer
  <2>3. None \notin GameServers
    BY NoneAssumption
  <2>4. CASE h = g
    BY <1>0, <1>1, <2>1, <2>2, <2>3, <2>4 DEF TakeSlot, Seated, TypeOK
  <2>5. CASE h # g
    BY <1>0, <2>1, <2>2, <2>3, <2>5 DEF TakeSlot, Seated, TypeOK
  <2> QED
    BY <2>4, <2>5
<1>2. CASE ~ PickServer(p)
  BY <1>2, ThreadFrame DEF Seated
<1> QED
  BY <1>1, <1>2

(* No server is overbooked, and its count is the number of its players. *)
LEMMA SlotsStep ==
  ASSUME IInv, Next
  PROVE  CapacityRespected' /\ SlotsAccounted'
<1>0. TypeOK /\ CapacityRespected /\ SlotsAccounted /\ WireInv
  BY DEF IInv
<1>1. ASSUME UNCHANGED <<queuedPlayers, maxPlayers, pickedServer>>
      PROVE  CapacityRespected' /\ SlotsAccounted'
  BY <1>0, <1>1 DEF CapacityRespected, SlotsAccounted, Seated
<1>2. ASSUME NEW p \in Players, ThreadStep(p), PickServer(p)
      PROVE  CapacityRespected' /\ SlotsAccounted'
  <2> SUFFICES ASSUME NEW g \in GameServers
               PROVE  /\ queuedPlayers'[g] <= maxPlayers'[g]
                      /\ queuedPlayers'[g] = Cardinality(Seated(g)')
    BY DEF CapacityRespected, SlotsAccounted
  <2>1. UNCHANGED maxPlayers
    BY <1>2 DEF PickServer
  <2>2. /\ queuedPlayers[g] <= maxPlayers[g]
        /\ queuedPlayers[g] = Cardinality(Seated(g))
        /\ queuedPlayers[g] \in Nat
        /\ maxPlayers[g] \in Nat
    BY <1>0 DEF CapacityRespected, SlotsAccounted, TypeOK
  <2>3. IsFiniteSet(Seated(g))
    BY PlayersAssumption, FS_Subset DEF Seated
  <2>4. PICK h \in GameServers : TakeSlot(p, h)
    BY <1>2, PickedIsListed
  <2>5. CASE h = g
    <3>1. /\ HasRoom(g)
          /\ p \notin Seated(g)
          /\ Seated(g)' = Seated(g) \union {p}
      <4>1. pickedServer'[p] = g
        BY <1>0, <2>4, <2>5 DEF TakeSlot, TypeOK
      <4>2. pickedServer[p] = None
        BY <1>2 DEF IInv, PickServer, ThreadInv, HasServer
      <4>3. Seated(g)' # Seated(g)
        BY <4>1, <4>2, NoneAssumption DEF Seated
      <4> QED
        BY <1>2, <4>3, SeatedBy
    <3>2. Cardinality(Seated(g)') = Cardinality(Seated(g)) + 1
      BY <2>3, <3>1, FS_AddElement
    <3>3. queuedPlayers'[g] = queuedPlayers[g] + 1
      BY <1>0, <2>4, <2>5 DEF TakeSlot, TypeOK
    <3> QED
      BY <2>1, <2>2, <3>1, <3>2, <3>3 DEF HasRoom
  <2>6. CASE h # g
    <3>1. /\ queuedPlayers'[g] = queuedPlayers[g]
          /\ pickedServer' = [pickedServer EXCEPT ![p] = h]
      BY <1>0, <2>4, <2>6 DEF TakeSlot, TypeOK
    <3>2. pickedServer[p] = None
      BY <1>2 DEF IInv, PickServer, ThreadInv, HasServer
    <3>3. Seated(g)' = Seated(g)
      BY <1>0, <2>6, <3>1, <3>2, NoneAssumption DEF Seated, TypeOK
    <3> QED
      BY <2>1, <2>2, <3>1, <3>3
  <2> QED
    BY <2>5, <2>6
<1>3. ASSUME NEW p \in Players, ThreadStep(p), ~ PickServer(p)
      PROVE  CapacityRespected' /\ SlotsAccounted'
  BY <1>1, <1>3, ThreadFrame
<1>4. ASSUME NEW p \in Players, PlayerSocketEvent(p)
      PROVE  CapacityRespected' /\ SlotsAccounted'
  BY <1>1, <1>4, SocketFrame DEF regVars
<1>5. CASE RunTask
  BY <1>1, <1>5 DEF RunTask, threadVars, regVars
<1>6. ASSUME NEW g \in GameServers, GsCreate(g)
      PROVE  CapacityRespected' /\ SlotsAccounted'
  <2>1. wire[g] # << >> /\ wire[g] \in Seq(GsMessage) /\ Head(wire[g]).type = "create"
    BY <1>0, <1>6 DEF GsCreate, TypeOK
  <2>2. 1 \in DOMAIN wire[g] /\ wire[g][1].type = "create"
    BY <2>1
  <2>3. Seated(g) = {}
    BY <1>0, <2>2 DEF WireInv, Unregistered
  <2>4. /\ UNCHANGED pickedServer
        /\ queuedPlayers' = [queuedPlayers EXCEPT ![g] = 0]
        /\ maxPlayers' = [maxPlayers EXCEPT ![g] = Head(wire[g]).maxPlayers]
    BY <1>6 DEF GsCreate, threadVars
  <2>5. Head(wire[g]).maxPlayers \in Nat
    <3>1. Head(wire[g]) \in GsMessage
      BY <2>1, HeadTailProperties
    <3> QED
      BY <2>1, <3>1, CapacitiesAssumption DEF GsMessage
  <2> QED
    BY <1>0, <2>3, <2>4, <2>5, FS_EmptySet
       DEF CapacityRespected, SlotsAccounted, Seated, TypeOK
<1>7. ASSUME NEW g \in GameServers,
             GameServerStep(g) \/ GsReady(g) \/ GsDisconnect(g) \/ GetSession(g)
      PROVE  CapacityRespected' /\ SlotsAccounted'
  BY <1>1, <1>7 DEF GameServerStep, OnGetIP, WorldReady, GetReady, GsReady,
                    GsDisconnect, GetSession, regVars, threadVars
<1> QED
  BY <1>2, <1>3, <1>4, <1>5, <1>6, <1>7 DEF Next, RegistryEvent

(* A create is the first message on a wire, and nobody is seated before it *)
(* is handled.                                                             *)
LEMMA WireInvStep ==
  ASSUME IInv, Next
  PROVE  WireInv'
<1>0. TypeOK /\ WireInv /\ PlayInv
  BY DEF IInv
<1>1. ASSUME NEW p \in Players, ThreadStep(p)
      PROVE  WireInv'
  <2>1. UNCHANGED <<wire, bInit, starting, GSServerMap>>
    BY <1>1, ThreadFrame DEF gsVars
  <2>2. \A g \in GameServers : GSServerMap[g] # "server" => Seated(g)' = Seated(g)
    BY <1>1, SeatedBy
  <2> QED
    BY <1>0, <2>1, <2>2 DEF WireInv, Unregistered
<1>2. ASSUME UNCHANGED <<wire, bInit, starting, GSServerMap, pickedServer>>
      PROVE  WireInv'
  BY <1>0, <1>2 DEF WireInv, Unregistered, Seated
<1>3. ASSUME NEW p \in Players, PlayerSocketEvent(p)
      PROVE  WireInv'
  BY <1>2, <1>3, SocketFrame DEF regVars, gsVars
<1>4. CASE RunTask
  BY <1>2, <1>4 DEF RunTask, threadVars, regVars, gsVars
<1>5. ASSUME NEW g \in GameServers, GameServerStep(g) \/ RegistryEvent(g)
      PROVE  WireInv'
  <2>1. UNCHANGED pickedServer
    BY <1>5, RegistryFrame DEF threadVars
  <2>2. \A h \in GameServers : Seated(h)' = Seated(h)
    BY <2>1 DEF Seated
  <2>3. wire[g] \in Seq(GsMessage)
    BY <1>0 DEF TypeOK
  <2>4. ASSUME \A h \in GameServers \ {g} :
                 /\ wire'[h] = wire[h]
                 /\ bInit'[h] = bInit[h]
                 /\ starting'[h] = starting[h]
                 /\ GSServerMap'[h] = GSServerMap[h],
               ~ bInit'[g] => wire'[g] = << >>,
               \A i \in DOMAIN wire'[g] : wire'[g][i].type = "create" => i = 1,
               Unregistered(g)' => /\ Unregistered(g)
                                   /\ starting'[g] = starting[g]
                                   /\ GSServerMap'[g] # "server"
        PROVE  WireInv'
    BY <1>0, <2>2, <2>4 DEF WireInv, Unregistered
  <2>5. CASE OnGetIP(g)
    <3>1. PICK b \in Buckets, m \in Capacities :
            wire' = [wire EXCEPT ![g] =
                       @ \o IF bReady[g]
                            THEN <<[type |-> "create", bucket |-> b, maxPlayers |-> m],
                                   [type |-> "ready"]>>
                            ELSE <<[type |-> "create", bucket |-> b, maxPlayers |-> m]>>]
      BY <2>5 DEF OnGetIP, Transmit
    <3>2. wire[g] = << >> /\ Unregistered(g) /\ GSServerMap[g] # "server"
      BY <1>0, <2>5 DEF OnGetIP, WireInv, Unregistered
    <3>3. wire'[g] = IF bReady[g]
                     THEN <<[type |-> "create", bucket |-> b, maxPlayers |-> m],
                            [type |-> "ready"]>>
                     ELSE <<[type |-> "create", bucket |-> b, maxPlayers |-> m]>>
      BY <1>0, <3>1, <3>2 DEF TypeOK
    <3>4. \A i \in DOMAIN wire'[g] : wire'[g][i].type = "create" => i = 1
      BY <3>3
    <3>5. /\ UNCHANGED <<starting, GSServerMap>>
          /\ bInit' = [bInit EXCEPT ![g] = TRUE]
      BY <2>5 DEF OnGetIP, regVars
    <3>6. /\ bInit'[g]
          /\ \A h \in GameServers \ {g} : wire'[h] = wire[h] /\ bInit'[h] = bInit[h]
      BY <1>0, <3>1, <3>5 DEF TypeOK
    <3> QED
      BY <2>4, <3>2, <3>4, <3>5, <3>6
  <2>6. CASE WorldReady(g)
    <3>1. UNCHANGED <<bInit, starting, GSServerMap>>
      BY <2>6 DEF WorldReady, regVars
    <3>2. CASE bInit[g]
      <4>1. wire' = [wire EXCEPT ![g] = @ \o <<[type |-> "ready"]>>]
        BY <2>6, <3>2 DEF WorldReady, Transmit
      <4>2. wire'[g] = wire[g] \o <<[type |-> "ready"]>>
        BY <1>0, <4>1 DEF TypeOK
      <4>3. \A i \in DOMAIN wire'[g] : wire'[g][i].type = "create" =>
              i \in DOMAIN wire[g] /\ wire[g][i].type = "create"
        BY <2>3, <4>2
      <4>4. \A h \in GameServers \ {g} : wire'[h] = wire[h]
        BY <1>0, <4>1 DEF TypeOK
      <4> QED
        BY <1>0, <2>4, <3>1, <3>2, <4>3, <4>4 DEF WireInv, Unregistered
    <3>3. CASE ~ bInit[g]
      BY <1>2, <2>1, <2>6, <3>1, <3>3 DEF WorldReady
    <3> QED
      BY <3>2, <3>3
  <2>7. CASE GetReady(g)
    <3>1. UNCHANGED <<bInit, starting, GSServerMap>>
      BY <2>7 DEF GetReady, regVars
    <3>2. PICK p \in Players : shown[p] = Play(g)
      BY <2>7 DEF GetReady
    <3>3. ~ starting[g]
      BY <1>0, <3>2 DEF PlayInv, ToldToPlay
    <3>4. ~ Unregistered(g)
      BY <1>0, <3>3 DEF WireInv
    <3>5. wire' = [wire EXCEPT ![g] = @ \o <<[type |-> "close"]>>]
      BY <2>7 DEF GetReady, Transmit
    <3>6. wire'[g] = wire[g] \o <<[type |-> "close"]>>
      BY <1>0, <3>5 DEF TypeOK
    <3>7. \A i \in DOMAIN wire'[g] : wire'[g][i].type = "create" =>
            i \in DOMAIN wire[g] /\ wire[g][i].type = "create"
      BY <2>3, <3>6
    <3>8. \A h \in GameServers \ {g} : wire'[h] = wire[h]
      BY <1>0, <3>5 DEF TypeOK
    <3> QED
      BY <1>0, <2>4, <3>1, <3>4, <3>7, <3>8 DEF WireInv, Unregistered
  <2>8. ASSUME wire[g] # << >>, wire' = [wire EXCEPT ![g] = Tail(@)]
        PROVE  /\ \A h \in GameServers \ {g} : wire'[h] = wire[h]
               /\ wire[g] # << >> => bInit[g]
               /\ \A i \in DOMAIN wire'[g] : wire'[g][i].type # "create"
    <3>1. wire'[g] = Tail(wire[g]) /\ \A h \in GameServers \ {g} : wire'[h] = wire[h]
      BY <1>0, <2>8 DEF TypeOK
    <3>2. \A i \in DOMAIN wire'[g] : /\ i + 1 \in DOMAIN wire[g]
                                     /\ i + 1 # 1
                                     /\ wire'[g][i] = wire[g][i + 1]
      <4>1. /\ Tail(wire[g]) \in Seq(GsMessage)
            /\ Len(Tail(wire[g])) = Len(wire[g]) - 1
            /\ \A i \in 1 .. Len(Tail(wire[g])) : Tail(wire[g])[i] = wire[g][i + 1]
        BY <2>3, <2>8, HeadTailProperties
      <4>2. /\ DOMAIN wire'[g] = 1 .. Len(wire[g]) - 1
            /\ DOMAIN wire[g] = 1 .. Len(wire[g])
            /\ Len(wire[g]) \in Nat
        BY <2>3, <3>1, <4>1, LenProperties
      <4> QED
        BY <3>1, <4>1, <4>2
    <3> QED
      BY <1>0, <2>8, <3>1, <3>2 DEF WireInv
  <2>9. CASE GsCreate(g)
    <3>1. /\ wire[g] # << >>
          /\ wire' = [wire EXCEPT ![g] = Tail(@)]
          /\ UNCHANGED bInit
          /\ starting' = [starting EXCEPT ![g] = TRUE]
          /\ GSServerMap' = [GSServerMap EXCEPT ![g] = "server"]
      BY <2>9 DEF GsCreate
    <3>2. \A h \in GameServers \ {g} : /\ starting'[h] = starting[h]
                                        /\ GSServerMap'[h] = GSServerMap[h]
      BY <1>0, <3>1 DEF TypeOK
    <3> QED
      BY <2>4, <2>8, <3>1, <3>2 DEF Unregistered
  <2>10. CASE GsReady(g)
    <3>1. /\ wire[g] # << >>
          /\ wire' = [wire EXCEPT ![g] = Tail(@)]
          /\ UNCHANGED bInit
          /\ starting' = starting \/ starting' = [starting EXCEPT ![g] = FALSE]
          /\ GSServerMap' = GSServerMap \/ GSServerMap' = [GSServerMap EXCEPT ![g] = "null"]
      BY <2>10 DEF GsReady
    <3>2. \A h \in GameServers \ {g} : /\ starting'[h] = starting[h]
                                        /\ GSServerMap'[h] = GSServerMap[h]
      BY <1>0, <3>1 DEF TypeOK
    <3> QED
      BY <2>4, <2>8, <3>1, <3>2 DEF Unregistered
  <2>11. CASE GsDisconnect(g)
    <3>1. /\ wire' = [wire EXCEPT ![g] = << >>]
          /\ UNCHANGED <<bInit, starting>>
          /\ \/ GSServerMap' = [GSServerMap EXCEPT ![g] = "absent"]
             \/ GSServerMap' = [GSServerMap EXCEPT ![g] = "null"]
      BY <2>11 DEF GsDisconnect
    <3>2. /\ wire'[g] = << >>
          /\ GSServerMap'[g] # "server"
          /\ \A h \in GameServers \ {g} : /\ wire'[h] = wire[h]
                                           /\ GSServerMap'[h] = GSServerMap[h]
      BY <1>0, <3>1 DEF TypeOK
    <3>3. \A i \in DOMAIN wire'[g] : FALSE
      BY <3>2
    <3> QED
      BY <2>4, <3>1, <3>2, <3>3 DEF Unregistered
  <2>12. CASE GetSession(g)
    BY <1>2, <2>12 DEF GetSession, threadVars, gsVars
  <2> QED
    BY <1>5, <2>5, <2>6, <2>7, <2>9, <2>10, <2>11, <2>12
       DEF GameServerStep, RegistryEvent
<1> QED
  BY <1>1, <1>3, <1>4, <1>5 DEF Next

-----------------------------------------------------------------------------
(* The queues, and the messages on their way to a player.                  *)

(* Who is in a queue when a thread or the loop takes a step. *)
LEMMA QueueInvStep ==
  ASSUME IInv, Next
  PROVE  QueueInv'
<1>0. TypeOK /\ QueueInv /\ ThreadInv
  BY DEF IInv
<1>1. ASSUME \A b \in Buckets : QueueMap'[b] \subseteq QueueMap[b],
             UNCHANGED <<pc, bucket, pickedServer>>
      PROVE  QueueInv'
  BY <1>0, <1>1 DEF QueueInv
<1>2. ASSUME NEW p \in Players, DropSocket(p)
      PROVE  \A b \in Buckets : QueueMap'[b] \subseteq QueueMap[b]
  BY <1>2 DEF DropSocket
<1>3. ASSUME NEW p \in Players, ThreadStep(p)
      PROVE  QueueInv'
  <2> USE DEF Goto, GotoOrDie, Steps
  <2>1. ASSUME \A b \in Buckets : QueueMap'[b] \subseteq QueueMap[b],
               NEW step \in Steps, pc' = [pc EXCEPT ![p] = step],
               UNCHANGED <<bucket, pickedServer>>,
               \/ \A b \in Buckets : p \notin QueueMap'[b]
               \/ /\ step \in {"announce", "check", "pick", "done"}
                  /\ pc[p] # "dequeue"
        PROVE  QueueInv'
    BY <1>0, <2>1 DEF QueueInv, TypeOK
  <2>2. pc[p] \notin {"announce", "check", "pick", "dequeue", "done"} =>
          \A b \in Buckets : p \notin QueueMap[b]
    BY <1>0 DEF QueueInv
  <2>3. CASE InsertConnection(p) \/ EraseThread(p)
    <3>1. QueueMap' = QueueMap /\ UNCHANGED <<bucket, pickedServer>>
      BY <2>3 DEF InsertConnection, EraseThread
    <3>2. CASE InsertConnection(p)
      BY <2>1, <2>2, <3>1, <3>2 DEF InsertConnection
    <3>3. CASE EraseThread(p)
      BY <2>1, <2>2, <3>1, <3>3 DEF EraseThread
    <3> QED
      BY <2>3, <3>2, <3>3
  <2>4. CASE DropRejected(p)
    <3>1. /\ \A b \in Buckets : QueueMap'[b] \subseteq QueueMap[b]
          /\ \A b \in Buckets : p \notin QueueMap'[b]
      BY <1>2, <2>2, <2>4 DEF DropRejected
    <3> QED
      BY <2>1, <2>4, <3>1 DEF DropRejected
  <2>5. ASSUME NEW q, NEW step \in Steps, Post(p, q, step),
               \/ \A b \in Buckets : p \notin QueueMap[b]
               \/ step = "check" /\ pc[p] # "dequeue"
        PROVE  QueueInv'
    <3>1. QueueMap' = QueueMap /\ UNCHANGED <<bucket, pickedServer>>
      BY <2>5 DEF Post, mapVars
    <3>2. CASE p \in cancelled
      <4>1. pc' = [pc EXCEPT ![p] = "done"]
        BY <2>5, <3>2 DEF Post
      <4> QED
        BY <2>1, <2>5, <3>1, <4>1
    <3>3. CASE p \notin cancelled
      <4>1. pc' = [pc EXCEPT ![p] = step]
        BY <2>5, <3>3 DEF Post
      <4> QED
        BY <2>1, <2>5, <3>1, <4>1
    <3> QED
      BY <3>2, <3>3
  <2>6. CASE RejectTicket(p) \/ PostWaiting(p) \/ PostQueued(p) \/ PostAssignment(p)
               \/ PostPlay(p) \/ PostClose(p)
    BY <2>2, <2>5, <2>6 DEF RejectTicket, PostWaiting, PostQueued, PostAssignment,
                            PostPlay, PostClose
  <2>7. CASE AcceptTicket(p)
    <3>1. \A b \in Buckets : p \notin QueueMap[b]
      BY <2>2, <2>7 DEF AcceptTicket
    <3>2. UNCHANGED <<QueueMap, pickedServer>>
      BY <2>7 DEF AcceptTicket, mapVars
    <3>3. \A q \in Players \ {p} : pc'[q] = pc[q] /\ bucket'[q] = bucket[q]
      BY <1>0, <2>7 DEF AcceptTicket, TypeOK
    <3> QED
      BY <1>0, <3>1, <3>2, <3>3 DEF QueueInv
  <2>8. CASE Enqueue(p)
    <3>1. pickedServer[p] = None
      BY <1>0, <2>8 DEF Enqueue, ThreadInv, HasServer
    <3>2. /\ UNCHANGED <<bucket, pickedServer>>
          /\ pc' = [pc EXCEPT ![p] = "announce"]
          /\ \A b \in Buckets : QueueMap'[b] =
               IF b = bucket[p] THEN QueueMap[b] \union {p} ELSE QueueMap[b]
      BY <1>0, <2>8 DEF Enqueue, TypeOK
    <3>3. \A b \in Buckets : p \notin QueueMap[b]
      BY <2>2, <2>8 DEF Enqueue
    <3>4. pc'[p] = "announce" /\ \A q \in Players \ {p} : pc'[q] = pc[q]
      BY <1>0, <3>2 DEF TypeOK
    <3>5. ASSUME NEW q \in Players, NEW b \in Buckets, q \in QueueMap'[b]
          PROVE  /\ b = bucket'[q]
                 /\ pc'[q] \in {"announce", "check", "pick", "dequeue", "done"}
                 /\ pc'[q] = "dequeue" \/ pickedServer'[q] = None
      <4>1. CASE q = p
        BY <3>1, <3>2, <3>3, <3>4, <3>5, <4>1
      <4>2. CASE q # p
        <5>1. q \in QueueMap[b] /\ pc'[q] = pc[q]
          BY <3>2, <3>4, <3>5, <4>2
        <5>2. /\ b = bucket[q]
              /\ pc[q] \in {"announce", "check", "pick", "dequeue", "done"}
              /\ pc[q] = "dequeue" \/ pickedServer[q] = None
          BY <1>0, <5>1 DEF QueueInv
        <5> QED
          BY <3>2, <5>1, <5>2
      <4> QED
        BY <4>1, <4>2
    <3> QED
      BY <3>5 DEF QueueInv
  <2>9. CASE PickServer(p)
    <3>1. PICK g \in GameServers : TakeSlot(p, g)
      BY <2>9, PickedIsListed
    <3>2. /\ UNCHANGED <<QueueMap, bucket>>
          /\ pc' = [pc EXCEPT ![p] = "dequeue"]
          /\ pickedServer' = [pickedServer EXCEPT ![p] = g]
      BY <2>9, <3>1 DEF PickServer, TakeSlot, mapVars
    <3> QED
      BY <1>0, <3>2 DEF QueueInv, TypeOK
  <2>10. CASE LeaveQueue(p)
    <3>1. /\ UNCHANGED <<bucket, pickedServer>>
          /\ pc' = [pc EXCEPT ![p] = "assign"]
          /\ \A b \in Buckets : QueueMap'[b] =
               IF b = bucket[p] THEN QueueMap[b] \ {p} ELSE QueueMap[b]
      BY <1>0, <2>10 DEF LeaveQueue, TypeOK
    <3>2. \A b \in Buckets : p \notin QueueMap'[b]
      BY <1>0, <3>1 DEF QueueInv
    <3> QED
      BY <2>1, <3>1, <3>2
  <2>11. CASE CheckSocket(p) \/ PickNothing(p) \/ AwaitServer(p) \/ RecheckSocket(p) \/ DieCancelled(p)
    <3>1. QueueMap' = QueueMap /\ UNCHANGED <<bucket, pickedServer>>
      BY <2>11 DEF CheckSocket, PickNothing, AwaitServer, RecheckSocket, DieCancelled, mapVars
    <3>2. CASE CheckSocket(p) \/ PickNothing(p) \/ DieCancelled(p)
      <4>1. /\ pc[p] # "dequeue"
            /\ \E step \in {"check", "pick", "done"} : pc' = [pc EXCEPT ![p] = step]
        BY <3>2 DEF CheckSocket, PickNothing, DieCancelled, CancellationPoints
      <4> QED
        BY <2>1, <3>1, <4>1
    <3>3. CASE AwaitServer(p) \/ RecheckSocket(p)
      <4>1. /\ pc[p] \in {"await", "recheck"}
            /\ \E step \in {"recheck", "play", "done", "await"} : pc' = [pc EXCEPT ![p] = step]
        BY <3>3 DEF AwaitServer, RecheckSocket
      <4>2. \A b \in Buckets : p \notin QueueMap'[b]
        BY <2>2, <3>1, <4>1
      <4> QED
        BY <2>1, <3>1, <4>1, <4>2
    <3> QED
      BY <2>11, <3>2, <3>3
  <2> QED
    BY <1>3, <2>3, <2>4, <2>6, <2>7, <2>8, <2>9, <2>10, <2>11 DEF ThreadStep
<1>4. ASSUME NEW p \in Players, PlayerSocketEvent(p)
      PROVE  QueueInv'
  <2>1. UNCHANGED <<bucket, pickedServer>>
    BY <1>4, SocketFrame
  <2>2. CASE OnConnect(p)
    <3>1. pc[p] = "unborn"
      BY <1>0, <2>2 DEF OnConnect, ThreadInv
    <3> QED
      BY <1>0, <2>1, <2>2, <3>1 DEF OnConnect, Goto, mapVars, QueueInv, TypeOK
  <2>3. CASE RecordThread(p) \/ OnData(p)
    BY <1>1, <2>1, <2>3 DEF RecordThread, OnData, threadVars, mapVars
  <2>4. CASE OnDisconnect(p)
    BY <1>1, <1>2, <2>1, <2>4 DEF OnDisconnect
  <2> QED
    BY <1>4, <2>2, <2>3, <2>4 DEF PlayerSocketEvent
<1>5. CASE RunTask
  BY <1>1, <1>5 DEF RunTask, mapVars, threadVars
<1>6. ASSUME NEW g \in GameServers, GameServerStep(g) \/ RegistryEvent(g)
      PROVE  QueueInv'
  BY <1>1, <1>6, RegistryFrame DEF mapVars, threadVars
<1> QED
  BY <1>3, <1>4, <1>5, <1>6 DEF Next

(* A player who may be told to play stays so. *)
LEMMA ToldToPlayStep ==
  ASSUME IInv, Next, NEW q \in Players, NEW g \in GameServers, ToldToPlay(q, g)
  PROVE  ToldToPlay(q, g)'
<1>0. TypeOK /\ ThreadInv
  BY DEF IInv
<1>1. ASSUME NEW p \in Players, ThreadStep(p)
      PROVE  ToldToPlay(q, g)'
  <2>1. UNCHANGED starting
    BY <1>1, ThreadFrame
  <2>2. pickedServer'[q] = pickedServer[q]
    <3>1. CASE PickServer(p)
      <4>1. PICK h \in GameServers : TakeSlot(p, h)
        BY <1>1, <3>1, PickedIsListed
      <4>2. p # q
        BY <3>1 DEF PickServer, ToldToPlay, HasPlayed
      <4> QED
        BY <1>0, <4>1, <4>2 DEF TakeSlot, TypeOK
    <3>2. CASE ~ PickServer(p)
      BY <1>1, <3>2, ThreadFrame
    <3> QED
      BY <3>1, <3>2
  <2>3. CASE p # q
    <3>1. pc'[q] = pc[q]
      BY <1>0, <1>1, <2>3
         DEF ThreadStep, InsertConnection, RejectTicket, DropRejected, AcceptTicket,
             PostWaiting, Enqueue, PostQueued, CheckSocket, PickServer, PickNothing,
             LeaveQueue, PostAssignment, AwaitServer, RecheckSocket, PostPlay,
             EraseThread, PostClose, DieCancelled, Post, Goto, GotoOrDie, TypeOK
    <3> QED
      BY <2>1, <2>2, <3>1 DEF ToldToPlay
  <2>4. CASE p = q
    <3>1. pc[p] \in HasPlayed
      BY <2>4 DEF ToldToPlay
    <3>2. EraseThread(p) \/ PostClose(p) \/ DieCancelled(p)
      BY <1>1, <3>1
         DEF ThreadStep, InsertConnection, RejectTicket, DropRejected, AcceptTicket,
             PostWaiting, Enqueue, PostQueued, CheckSocket, PickServer, PickNothing,
             LeaveQueue, PostAssignment, AwaitServer, RecheckSocket, PostPlay, HasPlayed
    <3>3. pc'[p] \in HasPlayed
      BY <1>0, <3>1, <3>2 DEF EraseThread, PostClose, DieCancelled, Post, Goto, GotoOrDie,
                              HasPlayed, TypeOK
    <3> QED
      BY <2>1, <2>2, <2>4, <3>3 DEF ToldToPlay
  <2> QED
    BY <2>3, <2>4
<1>2. ASSUME NEW p \in Players, PlayerSocketEvent(p)
      PROVE  ToldToPlay(q, g)'
  <2>1. UNCHANGED <<pickedServer, starting>>
    BY <1>2, SocketFrame DEF regVars
  <2>2. CASE OnConnect(p)
    <3>1. pc[p] = "unborn"
      BY <1>0, <2>2 DEF OnConnect, ThreadInv
    <3>2. p # q
      BY <3>1 DEF ToldToPlay, HasPlayed
    <3> QED
      BY <1>0, <2>1, <2>2, <3>2 DEF OnConnect, Goto, ToldToPlay, TypeOK
  <2>3. CASE RecordThread(p) \/ OnData(p) \/ OnDisconnect(p)
    BY <2>1, <2>3 DEF RecordThread, OnData, OnDisconnect, threadVars, ToldToPlay
  <2> QED
    BY <1>2, <2>2, <2>3 DEF PlayerSocketEvent
<1>3. CASE RunTask
  BY <1>3 DEF RunTask, threadVars, regVars, ToldToPlay
<1>4. ASSUME NEW h \in GameServers, GameServerStep(h) \/ RegistryEvent(h)
      PROVE  ToldToPlay(q, g)'
  BY <1>4, RegistryFrame, ReadyForever DEF threadVars, ToldToPlay
<1> QED
  BY <1>1, <1>2, <1>3, <1>4 DEF Next

(* A thread posts closures of its own socket; after its Play, only a close. *)
LEMMA PostedTask ==
  ASSUME IInv, Next, NEW p \in Players, ThreadStep(p), tasks' # tasks
  PROVE  \E m \in Message \union {Status("close")} :
           /\ tasks' = Append(tasks, [sock |-> p, msg |-> m])
           /\ m.state \in States => pc[p] \notin HasPlayed
           /\ \A g \in GameServers : m = Play(g) => ToldToPlay(p, g)'
           /\ m.state = "Play" => m.session # None
<1>0. TypeOK /\ ThreadInv
  BY DEF IInv
<1>1. \/ RejectTicket(p) \/ AcceptTicket(p) \/ PostWaiting(p) \/ PostQueued(p)
      \/ PostAssignment(p) \/ PostPlay(p) \/ PostClose(p)
  BY DEF ThreadStep, InsertConnection, DropRejected, Enqueue, CheckSocket, PickServer,
         PickNothing, LeaveQueue, AwaitServer, RecheckSocket, EraseThread, DieCancelled,
         loopVars
<1>2. ASSUME NEW s \in {"Connecting", "Waiting", "Queued", "SessionAssignment"},
             tasks' = Send(p, Status(s)), pc[p] \notin HasPlayed
      PROVE  \E m \in Message \union {Status("close")} :
               /\ tasks' = Append(tasks, [sock |-> p, msg |-> m])
               /\ m.state \in States => pc[p] \notin HasPlayed
               /\ \A g \in GameServers : m = Play(g) => ToldToPlay(p, g)'
               /\ m.state = "Play" => m.session # None
  <2>1. Status(s) \in Message /\ Status(s).state # "Play"
    BY DEF Status, Message, States
  <2>2. \A g \in GameServers : Status(s) # Play(g)
    BY <2>1 DEF Play
  <2> QED
    BY <1>2, <2>1, <2>2 DEF Send
<1>3. CASE RejectTicket(p) \/ PostClose(p)
  <2>1. tasks' = Append(tasks, [sock |-> p, msg |-> Status("close")])
    BY <1>3 DEF RejectTicket, PostClose, Post, Close
  <2>2. Status("close").state \notin States /\ Status("close").state # "Play"
    BY DEF Status, States
  <2>3. \A g \in GameServers : Status("close") # Play(g)
    BY <2>2 DEF Play
  <2> QED
    BY <2>1, <2>2, <2>3
<1>4. CASE AcceptTicket(p)
  BY <1>2, <1>4 DEF AcceptTicket, HasPlayed
<1>5. CASE PostWaiting(p)
  BY <1>2, <1>5 DEF PostWaiting, Post, HasPlayed
<1>6. CASE PostQueued(p)
  BY <1>2, <1>6 DEF PostQueued, Post, HasPlayed
<1>7. CASE PostAssignment(p)
  BY <1>2, <1>7 DEF PostAssignment, Post, HasPlayed
<1>8. CASE PostPlay(p)
  <2> DEFINE h == pickedServer[p]
  <2>1. h \in GameServers /\ ~ starting[h]
    BY <1>0, <1>8 DEF PostPlay, ThreadInv, HasServer
  <2>2. /\ UNCHANGED <<pickedServer, starting>>
        /\ pc'[p] \in HasPlayed
        /\ pc[p] \notin HasPlayed
    BY <1>0, <1>8 DEF PostPlay, Post, GotoOrDie, Goto, HasPlayed, regVars, TypeOK
  <2>3. tasks' = Append(tasks, [sock |-> p, msg |-> Play(h)])
    BY <1>8 DEF PostPlay, Post, Send
  <2>4. Play(h) \in Message /\ Play(h).session # None
    BY <2>1, NoneAssumption DEF Play, Message, States
  <2>5. \A g \in GameServers : Play(h) = Play(g) => g = h
    BY DEF Play
  <2> QED
    BY <2>1, <2>2, <2>3, <2>4, <2>5 DEF ToldToPlay
<1> QED
  BY <1>1, <1>3, <1>4, <1>5, <1>6, <1>7, <1>8

(* Nothing but a close is on its way to a player who was told to play. *)
LEMMA PlayInvStep ==
  ASSUME IInv, Next
  PROVE  PlayInv'
<1>0. TypeOK /\ PlayInv
  BY DEF IInv
<1>1. tasks \in Seq(Task) /\ DOMAIN tasks = 1 .. Len(tasks) /\ Len(tasks) \in Nat
  BY <1>0 DEF TypeOK
<1>2. \A q \in Players, g \in GameServers : ToldToPlay(q, g) => ToldToPlay(q, g)'
  BY ToldToPlayStep
<1>3. ASSUME tasks' = tasks,
             \A q \in Players : shown'[q] = shown[q] \/ shown'[q].state # "Play"
      PROVE  PlayInv'
  <2>1. \A q \in Players, g \in GameServers : shown'[q] = Play(g) => shown[q] = Play(g)
    BY <1>3 DEF Play
  <2>2. \A q \in Players : shown'[q].state = "Play" => shown'[q].session # None
    BY <1>0, <1>3 DEF PlayInv
  <2>3. \A q \in Players, k \in Nat : OnlyCloses(q, k) => OnlyCloses(q, k)'
    BY <1>3 DEF OnlyCloses
  <2> QED
    BY <1>0, <1>1, <1>2, <1>3, <2>1, <2>2, <2>3 DEF PlayInv
<1>4. ASSUME NEW p \in Players, ThreadStep(p), tasks' # tasks
      PROVE  PlayInv'
  <2>1. PICK m \in Message \union {Status("close")} :
           /\ tasks' = Append(tasks, [sock |-> p, msg |-> m])
           /\ m.state \in States => pc[p] \notin HasPlayed
           /\ \A g \in GameServers : m = Play(g) => ToldToPlay(p, g)'
           /\ m.state = "Play" => m.session # None
    BY <1>4, PostedTask
  <2>2. shown' = shown
    BY <1>4, ThreadFrame
  <2> DEFINE n == Len(tasks) + 1
  <2>3. /\ DOMAIN tasks' = 1 .. n
        /\ tasks'[n].sock = p
        /\ tasks'[n].msg = m
        /\ \A i \in 1 .. Len(tasks) : tasks'[i] = tasks[i]
    <3>1. [sock |-> p, msg |-> m] \in Task
      BY DEF Task, Status
    <3> QED
      BY <1>1, <2>1, <3>1
  <2>4. \A g \in GameServers : ToldToPlay(p, g) => m.state \notin States
    BY <2>1 DEF ToldToPlay
  <2>5. ASSUME NEW q \in Players, NEW g \in GameServers, NEW k \in Nat,
               ToldToPlay(q, g), OnlyCloses(q, k)
        PROVE  OnlyCloses(q, k)'
    <3> SUFFICES ASSUME NEW i \in DOMAIN tasks', i > k, tasks'[i].sock = q
                 PROVE  tasks'[i].msg.state \notin States
      BY DEF OnlyCloses
    <3>1. CASE i = n
      BY <2>3, <2>4, <2>5, <3>1
    <3>2. CASE i # n
      <4>1. i \in DOMAIN tasks /\ tasks'[i] = tasks[i]
        BY <1>1, <2>3, <3>2
      <4> QED
        BY <2>5, <4>1 DEF OnlyCloses
    <3> QED
      BY <3>1, <3>2
  <2>6. ASSUME NEW q \in Players, NEW g \in GameServers, shown'[q] = Play(g)
        PROVE  ToldToPlay(q, g)' /\ OnlyCloses(q, 0)'
    <3>1. ToldToPlay(q, g) /\ OnlyCloses(q, 0)
      BY <1>0, <2>2, <2>6 DEF PlayInv
    <3> QED
      BY <1>2, <2>5, <3>1
  <2>7. ASSUME NEW i \in DOMAIN tasks', NEW q \in Players, NEW g \in GameServers,
               tasks'[i].sock = q, tasks'[i].msg = Play(g)
        PROVE  ToldToPlay(q, g)' /\ OnlyCloses(q, i)'
    <3>1. CASE i = n
      <4>1. ToldToPlay(q, g)'
        BY <2>1, <2>3, <2>7, <3>1
      <4>2. \A j \in DOMAIN tasks' : ~ (j > i)
        BY <1>1, <2>3, <3>1
      <4> QED
        BY <4>1, <4>2 DEF OnlyCloses
    <3>2. CASE i # n
      <4>1. i \in DOMAIN tasks /\ tasks'[i] = tasks[i] /\ i \in Nat
        BY <1>1, <2>3, <3>2
      <4>2. ToldToPlay(q, g) /\ OnlyCloses(q, i)
        BY <1>0, <2>7, <4>1 DEF PlayInv
      <4> QED
        BY <1>2, <2>5, <4>1, <4>2
    <3> QED
      BY <3>1, <3>2
  <2>8. \A q \in Players : shown'[q].state = "Play" => shown'[q].session # None
    BY <1>0, <2>2 DEF PlayInv
  <2>9. \A i \in DOMAIN tasks' : tasks'[i].msg.state = "Play" => tasks'[i].msg.session # None
    BY <1>0, <1>1, <2>1, <2>3 DEF PlayInv
  <2> QED
    BY <2>6, <2>7, <2>8, <2>9 DEF PlayInv
<1>5. ASSUME NEW p \in Players, ThreadStep(p), tasks' = tasks
      PROVE  PlayInv'
  BY <1>3, <1>5, ThreadFrame
<1>6. ASSUME NEW p \in Players, PlayerSocketEvent(p)
      PROVE  PlayInv'
  <2>1. tasks' = tasks
    BY <1>6, SocketFrame
  <2>2. \A q \in Players : shown'[q] = shown[q] \/ shown'[q].state # "Play"
    BY <1>6 DEF PlayerSocketEvent, OnConnect, RecordThread, OnData, OnDisconnect, Status
  <2> QED
    BY <1>3, <2>1, <2>2
<1>7. CASE RunTask
  <2> DEFINE t == Head(tasks)
  <2>1. /\ tasks # << >>
        /\ tasks' = Tail(tasks)
        /\ shown' = IF sock[t.sock] = "open" /\ t.msg.state \in States
                    THEN [shown EXCEPT ![t.sock] = t.msg] ELSE shown
    BY <1>7 DEF RunTask
  <2>2. t = tasks[1] /\ 1 \in DOMAIN tasks
    BY <1>1, <2>1
  <2>3. \A i \in DOMAIN tasks' : i + 1 \in DOMAIN tasks /\ tasks'[i] = tasks[i + 1]
    <3>1. /\ Tail(tasks) \in Seq(Task)
          /\ Len(Tail(tasks)) = Len(tasks) - 1
          /\ \A i \in 1 .. Len(Tail(tasks)) : Tail(tasks)[i] = tasks[i + 1]
      BY <1>1, <2>1, HeadTailProperties
    <3>2. DOMAIN tasks' = 1 .. Len(tasks) - 1
      BY <2>1, <3>1, LenProperties
    <3> QED
      BY <1>1, <2>1, <3>1, <3>2
  <2> HIDE DEF t
  <2>4. \A q \in Players : \/ shown'[q] = shown[q]
                           \/ q = t.sock /\ shown'[q] = t.msg
    <3>1. shown \in [Players -> Message \union {Silence}]
      BY <1>0 DEF TypeOK
    <3> QED
      BY <2>1, <3>1
  <2>5. \A i \in DOMAIN tasks' : i \in Nat /\ i > 0
    <3>1. tasks' \in Seq(Task)
      BY <1>1, <2>1
    <3> QED
      BY <3>1, LenProperties
  <2>6. ASSUME NEW q \in Players, NEW k \in Nat, OnlyCloses(q, k + 1)
        PROVE  OnlyCloses(q, k)'
    BY <2>3, <2>5, <2>6 DEF OnlyCloses
  <2>7. ASSUME NEW q \in Players, NEW g \in GameServers, shown'[q] = Play(g)
        PROVE  ToldToPlay(q, g)' /\ OnlyCloses(q, 0)'
    <3>1. CASE shown[q] = Play(g)
      <4>1. ToldToPlay(q, g) /\ OnlyCloses(q, 0)
        BY <1>0, <3>1 DEF PlayInv
      <4>2. OnlyCloses(q, 0 + 1)
        BY <1>1, <4>1 DEF OnlyCloses
      <4> QED
        BY <1>2, <2>6, <4>1, <4>2
    <3>2. CASE q = t.sock /\ t.msg = Play(g)
      <4>1. ToldToPlay(q, g) /\ OnlyCloses(q, 1)
        BY <1>0, <2>2, <3>2 DEF PlayInv
      <4> QED
        BY <1>2, <2>6, <4>1
    <3> QED
      BY <2>4, <2>7, <3>1, <3>2
  <2>8. ASSUME NEW i \in DOMAIN tasks', NEW q \in Players, NEW g \in GameServers,
               tasks'[i].sock = q, tasks'[i].msg = Play(g)
        PROVE  ToldToPlay(q, g)' /\ OnlyCloses(q, i)'
    <3>1. ToldToPlay(q, g) /\ OnlyCloses(q, i + 1)
      BY <1>0, <2>3, <2>8 DEF PlayInv
    <3> QED
      BY <1>2, <2>5, <2>6, <3>1
  <2>9. \A q \in Players : shown'[q].state = "Play" => shown'[q].session # None
    BY <1>0, <2>2, <2>4 DEF PlayInv
  <2>10. \A i \in DOMAIN tasks' : tasks'[i].msg.state = "Play" => tasks'[i].msg.session # None
    BY <1>0, <2>3 DEF PlayInv
  <2> QED
    BY <2>7, <2>8, <2>9, <2>10 DEF PlayInv
<1>8. ASSUME NEW g \in GameServers, GameServerStep(g) \/ RegistryEvent(g)
      PROVE  PlayInv'
  BY <1>3, <1>8, RegistryFrame DEF loopVars
<1> QED
  BY <1>4, <1>5, <1>6, <1>7, <1>8 DEF Next

-----------------------------------------------------------------------------
(* The inductive invariant, and what follows from it.                      *)

(* No thread, no message and no listed server: the initial state. *)
LEMMA IInvInit == Init => IInv
<1> SUFFICES ASSUME Init PROVE IInv
  OBVIOUS
<1>1. TypeOK
  BY DEF Init, TypeOK, Message, Silence, States, Steps, Entry, ServerMapType, GsMessage, Task
<1>2. ThreadInv
  BY DEF Init, ThreadInv, HasTicket, HasServer
<1>3. RegistryInv
  BY DEF Init, RegistryInv
<1>4. \A g \in GameServers : Seated(g) = {}
  BY NoneAssumption DEF Init, Seated
<1>5. WireInv
  BY <1>4 DEF Init, WireInv
<1>6. QueueInv
  BY DEF Init, QueueInv
<1>7. PlayInv
  BY DEF Init, PlayInv, Silence, Play
<1>8. CapacityRespected /\ SlotsAccounted
  <2>1. \A g \in GameServers : queuedPlayers[g] = 0 /\ maxPlayers[g] = 0
    BY DEF Init
  <2>2. \A g \in GameServers : Cardinality(Seated(g)) = 0
    BY <1>4, FS_EmptySet
  <2> QED
    BY <2>1, <2>2 DEF CapacityRespected, SlotsAccounted
<1> QED
  BY <1>1, <1>2, <1>3, <1>5, <1>6, <1>7, <1>8 DEF IInv

(* Every step of a thread, of the loop or of a game server keeps it. *)
LEMMA IInvStep == IInv /\ [Next]_vars => IInv'
<1> SUFFICES ASSUME IInv, [Next]_vars PROVE IInv'
  OBVIOUS
<1>1. CASE Next
  <2>1. TypeOK'
    BY <1>1, TypeOKThread, TypeOKSocket, TypeOKTask, TypeOKRegistry DEF Next
  <2> QED
    BY <1>1, <2>1, ThreadInvStep, RegistryInvStep, WireInvStep, QueueInvStep, PlayInvStep,
       SlotsStep DEF IInv
<1>2. CASE UNCHANGED vars
  <2>1. TypeOK' /\ ThreadInv' /\ RegistryInv'
    BY <1>2 DEF IInv, vars, loopVars, mapVars, threadVars, regVars, gsVars,
                TypeOK, ThreadInv, RegistryInv
  <2>2. WireInv' /\ CapacityRespected' /\ SlotsAccounted'
    BY <1>2 DEF IInv, vars, threadVars, regVars, gsVars, WireInv, Unregistered,
                Seated, CapacityRespected, SlotsAccounted
  <2>3. QueueInv' /\ PlayInv'
    BY <1>2 DEF IInv, vars, loopVars, mapVars, threadVars, regVars,
                QueueInv, PlayInv, ToldToPlay, OnlyCloses
  <2> QED
    BY <2>1, <2>2, <2>3 DEF IInv
<1> QED
  BY <1>1, <1>2

(* The conjunction that every theorem below is read off. *)
THEOREM Invariance == Spec => []IInv
  BY IInvInit, IInvStep, PTL DEF Spec

(* The maps, the threads, the wire and the messages keep their shapes: in   *)
(* particular a counter of players never goes below zero and the bucket a   *)
(* registered server is unlisted from exists.                               *)
THEOREM TypeCorrect == Spec => []TypeOK
<1>1. IInv => TypeOK
  BY DEF IInv
<1> QED
  BY <1>1, Invariance, PTL

(* Concurrent threads never book a game server beyond its maxPlayers. *)
THEOREM CapacityNeverExceeded == Spec => []CapacityRespected
<1>1. IInv => CapacityRespected
  BY DEF IInv
<1> QED
  BY <1>1, Invariance, PTL

(* queuedPlayers is the number of threads that picked the server, for any   *)
(* number of threads that pick, leave and are cancelled at the same time.   *)
THEOREM EverySlotAccounted == Spec => []SlotsAccounted
<1>1. IInv => SlotsAccounted
  BY DEF IInv
<1> QED
  BY <1>1, Invariance, PTL

(* A client is told to play only on the ready server its thread picked,     *)
(* although the message waits in the event loop while the rest moves on.    *)
THEOREM OnlyReadyServersPlayed == Spec => []PlayAfterReady
<1>1. IInv => PlayAfterReady
  BY DEF IInv, PlayInv, ToldToPlay, PlayAfterReady
<1> QED
  BY <1>1, Invariance, PTL

-----------------------------------------------------------------------------
(* The maps of a waiting player.                                           *)

(* The three maps of a waiting player change together: under one lock when  *)
(* the thread queues the socket, under one lock when somebody drops it.     *)
LEMMA QueueMatchesStep ==
  ASSUME IInv, QueueMatchesMaps, Next
  PROVE  QueueMatchesMaps'
<1> DEFINE Looking == {"announce", "check", "pick"}
           lookers(q) == pc'[q] \in Looking => pc[q] \in Looking
<1>0. TypeOK /\ QueueInv /\ ThreadInv /\ None \notin Buckets
  BY NoneAssumption DEF IInv
<1>1. ASSUME UNCHANGED <<QueueMap, SocketMap, TicketMap>>, \A q \in Players : lookers(q)
      PROVE  QueueMatchesMaps'
  BY <1>1 DEF QueueMatchesMaps
<1>2. ASSUME NEW p \in Players, DropSocket(p), \A q \in Players : lookers(q)
      PROVE  QueueMatchesMaps'
  <2>1. /\ \A b \in Buckets : QueueMap'[b] = IF b = SocketMap[p] THEN QueueMap[b] \ {p}
                                                                ELSE QueueMap[b]
        /\ \A q \in Players : SocketMap'[q] = IF q = p THEN None ELSE SocketMap[q]
        /\ TicketMap' = TicketMap \ {p}
    BY <1>0, <1>2 DEF DropSocket, TypeOK
  <2>2. \A b \in Buckets : p \notin QueueMap'[b]
    BY <2>1 DEF QueueMatchesMaps
  <2>3. ASSUME NEW q \in Players, q # p, NEW b \in Buckets
        PROVE  /\ q \in QueueMap'[b] <=> q \in QueueMap[b]
               /\ SocketMap'[q] = SocketMap[q]
               /\ q \in TicketMap' <=> q \in TicketMap
    BY <2>1, <2>3
  <2> QED
    BY <1>0, <1>2, <2>1, <2>2, <2>3 DEF QueueMatchesMaps
<1>3. ASSUME NEW p \in Players, Enqueue(p)
      PROVE  QueueMatchesMaps'
  <2>1. bucket[p] \in Buckets /\ \A b \in Buckets : p \notin QueueMap[b]
    BY <1>0, <1>3 DEF Enqueue, ThreadInv, QueueInv, HasTicket, Steps
  <2>2. /\ \A b \in Buckets : QueueMap'[b] = IF b = bucket[p] THEN QueueMap[b] \union {p}
                                                              ELSE QueueMap[b]
        /\ \A q \in Players : SocketMap'[q] = IF q = p THEN bucket[p] ELSE SocketMap[q]
        /\ TicketMap' = TicketMap \union {p}
        /\ \A q \in Players : q # p => pc'[q] = pc[q]
    BY <1>0, <1>3, <2>1 DEF Enqueue, Goto, TypeOK
  <2>3. \A b \in Buckets : /\ p \in QueueMap'[b] <=> b = bucket[p]
                           /\ SocketMap'[p] = bucket[p] /\ p \in TicketMap'
    BY <2>1, <2>2
  <2>4. ASSUME NEW q \in Players, q # p, NEW b \in Buckets
        PROVE  /\ q \in QueueMap'[b] <=> q \in QueueMap[b]
               /\ SocketMap'[q] = SocketMap[q] /\ pc'[q] = pc[q]
               /\ q \in TicketMap' <=> q \in TicketMap
    BY <2>2, <2>4
  <2>5. ASSUME NEW q \in Players, NEW b \in Buckets
        PROVE  /\ q \in QueueMap'[b] => SocketMap'[q] = b /\ q \in TicketMap'
               /\ SocketMap'[q] = b /\ pc'[q] \in Looking => q \in QueueMap'[b]
    <3>1. CASE q = p
      BY <2>3, <3>1
    <3>2. CASE q # p
      BY <2>4, <3>2 DEF QueueMatchesMaps
    <3> QED
      BY <3>1, <3>2
  <2> QED
    BY <2>5 DEF QueueMatchesMaps
<1>4. ASSUME NEW p \in Players, LeaveQueue(p)
      PROVE  QueueMatchesMaps'
  <2>1. /\ \A b \in Buckets : \A q \in Players :
             q \in QueueMap'[b] => q \in QueueMap[b]
        /\ \A b \in Buckets : \A q \in Players :
             q # p /\ q \in QueueMap[b] => q \in QueueMap'[b]
        /\ UNCHANGED <<SocketMap, TicketMap>>
        /\ \A q \in Players : pc'[q] = IF q = p THEN "assign" ELSE pc[q]
    BY <1>0, <1>4 DEF LeaveQueue, Goto, TypeOK
  <2> QED
    BY <2>1 DEF QueueMatchesMaps
<1>5. ASSUME NEW p \in Players, ThreadStep(p), ~ Enqueue(p)
      PROVE  \A q \in Players : lookers(q)
  BY <1>0, <1>5 DEF ThreadStep, InsertConnection, RejectTicket, DropRejected, AcceptTicket,
       PostWaiting, PostQueued, CheckSocket, PickServer, PickNothing,
       LeaveQueue, PostAssignment, AwaitServer, RecheckSocket, PostPlay,
       EraseThread, PostClose, DieCancelled, Post, Goto, GotoOrDie, TypeOK
<1>6. ASSUME NEW p \in Players, ThreadStep(p)
      PROVE  QueueMatchesMaps'
  <2>1. CASE DropRejected(p)
    BY <1>2, <1>5, <1>6, <2>1 DEF DropRejected, Enqueue
  <2>2. CASE ~ DropRejected(p) /\ ~ Enqueue(p) /\ ~ LeaveQueue(p)
    <3>1. UNCHANGED <<QueueMap, SocketMap, TicketMap>>
      BY <1>6, <2>2 DEF ThreadStep, InsertConnection, RejectTicket, AcceptTicket,
           PostWaiting, PostQueued, CheckSocket, PickServer, PickNothing, PostAssignment,
           AwaitServer, RecheckSocket, PostPlay, EraseThread, PostClose, DieCancelled,
           Post, mapVars
    <3> QED
      BY <1>1, <1>5, <1>6, <2>2, <3>1
  <2> QED
    BY <1>3, <1>4, <2>1, <2>2
<1>7. ASSUME NEW p \in Players, PlayerSocketEvent(p)
      PROVE  QueueMatchesMaps'
  <2>1. CASE OnConnect(p)
    BY <1>0, <1>1, <2>1 DEF OnConnect, Goto, mapVars, TypeOK
  <2>2. CASE RecordThread(p) \/ OnData(p)
    BY <1>1, <2>2 DEF RecordThread, OnData, mapVars, threadVars
  <2>3. CASE OnDisconnect(p)
    BY <1>2, <2>3 DEF OnDisconnect
  <2> QED
    BY <1>7, <2>1, <2>2, <2>3 DEF PlayerSocketEvent
<1>8. CASE RunTask
  BY <1>1, <1>8 DEF RunTask, mapVars, threadVars
<1>9. ASSUME NEW g \in GameServers, GameServerStep(g) \/ RegistryEvent(g)
      PROVE  QueueMatchesMaps'
  BY <1>1, <1>9, RegistryFrame DEF mapVars, threadVars
<1> QED
  BY <1>6, <1>7, <1>8, <1>9 DEF Next

(* A player waits in the one queue its socket, ticket and thread agree on.  *)
THEOREM QueuesAgree == Spec => []QueueMatchesMaps
<1>1. Init => QueueMatchesMaps
  BY NoneAssumption DEF Init, QueueMatchesMaps
<1>2. IInv /\ QueueMatchesMaps /\ [Next]_vars => QueueMatchesMaps'
  <2>1. CASE UNCHANGED vars
    BY <2>1 DEF vars, mapVars, threadVars, QueueMatchesMaps
  <2> QED
    BY <2>1, QueueMatchesStep
<1> QED
  BY <1>1, <1>2, Invariance, PTL DEF Spec

-----------------------------------------------------------------------------
(* The indexes of the registry.                                            *)

(* A server is listed, resolves and owns its socket together. *)
LEMMA OwnedStep ==
  ASSUME IInv, OwnedInv, Next
  PROVE  OwnedInv'
<1>0. TypeOK /\ RegistryInv /\ WireInv
  BY DEF IInv
<1>1. ASSUME UNCHANGED <<ServerMap, GSServerMap, ServerMapById, starting, serverBucket, gsSocket>>
      PROVE  OwnedInv'
  BY <1>1 DEF OwnedInv
<1>2. ASSUME NEW p \in Players, ThreadStep(p)
      PROVE  OwnedInv'
  BY <1>1, <1>2, ThreadFrame DEF gsVars
<1>3. ASSUME NEW p \in Players, PlayerSocketEvent(p)
      PROVE  OwnedInv'
  BY <1>1, <1>3, SocketFrame DEF regVars, gsVars
<1>4. CASE RunTask
  BY <1>1, <1>4 DEF RunTask, regVars, gsVars
<1>5. ASSUME NEW g \in GameServers, GameServerStep(g)
      PROVE  OwnedInv'
  BY <1>1, <1>5 DEF GameServerStep, OnGetIP, WorldReady, GetReady, regVars
<1>l. ASSUME NEW h \in GameServers, GSServerMap[h] = "server"
      PROVE  /\ serverBucket[h] \in Buckets
             /\ \E i \in DOMAIN ServerMap[serverBucket[h]] : ServerMap[serverBucket[h]][i] = h
  BY <1>0, <1>l DEF OwnedInv, RegistryInv
<1>s. \A b \in Buckets : ServerMap[b] \in Seq(GameServers)
  BY <1>0 DEF TypeOK, ServerMapType
<1>6. ASSUME NEW g \in GameServers, GsCreate(g)
      PROVE  OwnedInv'
  <2> DEFINE c == Head(wire[g]).bucket
  <2>1. c \in Buckets /\ GSServerMap[g] # "server"
    <3>1. wire[g] \in Seq(GsMessage) /\ wire[g] # << >> /\ Head(wire[g]).type = "create"
      BY <1>0, <1>6 DEF GsCreate, TypeOK
    <3>2. Head(wire[g]) \in GsMessage
      BY <3>1, HeadTailProperties
    <3>3. wire[g][1].type = "create" /\ 1 \in DOMAIN wire[g]
      BY <3>1
    <3> QED
      BY <1>0, <3>1, <3>2, <3>3 DEF GsMessage, WireInv, Unregistered
  <2>2. /\ ServerMap' = [ServerMap EXCEPT ![c] = Append(ServerMap[c], g)]
        /\ serverBucket' = [serverBucket EXCEPT ![g] = c]
    BY <1>6 DEF GsCreate
  <2> HIDE DEF c
  <2>3. \A b \in Buckets : ServerMap'[b] = IF b = c THEN Append(ServerMap[c], g) ELSE ServerMap[b]
    BY <1>0, <2>2 DEF TypeOK, ServerMapType
  <2>4. \A h \in GameServers :
          /\ GSServerMap'[h] = IF h = g THEN "server" ELSE GSServerMap[h]
          /\ ServerMapById'[h] = IF h = g THEN "server" ELSE ServerMapById[h]
          /\ starting'[h] = IF h = g THEN TRUE ELSE starting[h]
          /\ serverBucket'[h] = IF h = g THEN c ELSE serverBucket[h]
          /\ gsSocket'[h] = gsSocket[h]
    BY <1>0, <1>6, <2>2 DEF GsCreate, TypeOK
  <2>5. \E i \in DOMAIN ServerMap'[c] : ServerMap'[c][i] = g
    <3>1. ServerMap[c] \in Seq(GameServers)
      BY <1>s, <2>1
    <3>2. /\ Len(ServerMap[c]) + 1 \in DOMAIN Append(ServerMap[c], g)
          /\ Append(ServerMap[c], g)[Len(ServerMap[c]) + 1] = g
      BY <3>1
    <3> QED
      BY <2>1, <2>3, <3>2
  <2>6. ASSUME NEW h \in GameServers, h # g, GSServerMap[h] = "server"
        PROVE  \E i \in DOMAIN ServerMap'[serverBucket[h]] : ServerMap'[serverBucket[h]][i] = h
    <3>1. CASE serverBucket[h] = c
      <4>1. ServerMap[c] \in Seq(GameServers) /\ \E i \in DOMAIN ServerMap[c] : ServerMap[c][i] = h
        BY <1>l, <1>s, <2>1, <2>6, <3>1
      <4>2. \E i \in DOMAIN Append(ServerMap[c], g) : Append(ServerMap[c], g)[i] = h
        BY <2>6, <4>1, AppendKeeps
      <4> QED
        BY <2>1, <2>3, <3>1, <4>2
    <3>2. CASE serverBucket[h] # c
      BY <1>l, <2>3, <2>6, <3>2
    <3> QED
      BY <3>1, <3>2
  <2>7. gsSocket[g] = "open"
    BY <1>6 DEF GsCreate
  <2>8. ASSUME NEW h \in GameServers
        PROVE  /\ GSServerMap'[h] = "server" <=> ServerMapById'[h] = "server"
               /\ GSServerMap'[h] = "server" =>
                    /\ gsSocket'[h] = "open"
                    /\ \E i \in DOMAIN ServerMap'[serverBucket'[h]] : ServerMap'[serverBucket'[h]][i] = h
               /\ ~ starting'[h] /\ gsSocket'[h] = "open" => GSServerMap'[h] = "server"
    <3>1. CASE h = g
      <4>1. /\ GSServerMap'[g] = "server" /\ ServerMapById'[g] = "server"
            /\ gsSocket'[g] = "open" /\ starting'[g] = TRUE /\ serverBucket'[g] = c
        BY <2>4, <2>7
      <4> QED
        BY <2>5, <3>1, <4>1
    <3>2. CASE h # g
      <4>1. /\ GSServerMap'[h] = GSServerMap[h] /\ ServerMapById'[h] = ServerMapById[h]
            /\ gsSocket'[h] = gsSocket[h] /\ starting'[h] = starting[h]
            /\ serverBucket'[h] = serverBucket[h]
        BY <2>4, <3>2
      <4>2. GSServerMap[h] = "server" =>
              \E i \in DOMAIN ServerMap'[serverBucket[h]] : ServerMap'[serverBucket[h]][i] = h
        BY <2>6, <3>2
      <4> QED
        BY <4>1, <4>2 DEF OwnedInv
    <3> QED
      BY <3>1, <3>2
  <2> QED
    BY <2>8 DEF OwnedInv
<1>7. ASSUME NEW g \in GameServers, GsReady(g)
      PROVE  OwnedInv'
  <2>1. /\ gsSocket[g] = "open"
        /\ UNCHANGED <<ServerMap, ServerMapById, serverBucket, gsSocket>>
    BY <1>7 DEF GsReady
  <2>2. CASE GSServerMap[g] = "server"
    <3>1. UNCHANGED GSServerMap /\ \A h \in GameServers : h # g => starting'[h] = starting[h]
      BY <1>0, <1>7, <2>2 DEF GsReady, TypeOK
    <3> QED
      BY <2>1, <2>2, <3>1 DEF OwnedInv
  <2>3. CASE GSServerMap[g] # "server"
    <3>1. /\ UNCHANGED starting
          /\ \A h \in GameServers : GSServerMap'[h] = IF h = g THEN "null" ELSE GSServerMap[h]
      BY <1>0, <1>7, <2>3 DEF GsReady, TypeOK
    <3> QED
      BY <2>1, <2>3, <3>1 DEF OwnedInv
  <2> QED
    BY <2>2, <2>3
<1>8. ASSUME NEW g \in GameServers, GsDisconnect(g), GSServerMap[g] = "server"
      PROVE  OwnedInv'
  <2> DEFINE c == serverBucket[g]
  <2>1. c \in Buckets
    BY <1>0, <1>8 DEF RegistryInv
  <2>2. PICK k \in DOMAIN ServerMap[c] :
          /\ ServerMap[c][k] = g
          /\ ServerMap' = [ServerMap EXCEPT ![c] = RemoveAt(ServerMap[c], k)]
    BY <1>8 DEF GsDisconnect, Unlist
  <2> HIDE DEF c
  <2>3. \A b \in Buckets : ServerMap'[b] = IF b = c THEN RemoveAt(ServerMap[c], k) ELSE ServerMap[b]
    BY <1>0, <2>2 DEF TypeOK, ServerMapType
  <2>4. /\ UNCHANGED <<serverBucket, starting>>
        /\ \A h \in GameServers :
             /\ GSServerMap'[h] = IF h = g THEN "absent" ELSE GSServerMap[h]
             /\ ServerMapById'[h] = IF h = g THEN "absent" ELSE ServerMapById[h]
             /\ gsSocket'[h] = IF h = g THEN "gone" ELSE gsSocket[h]
    BY <1>0, <1>8 DEF GsDisconnect, TypeOK
  <2>5. ASSUME NEW h \in GameServers, h # g, GSServerMap[h] = "server"
        PROVE  \E i \in DOMAIN ServerMap'[serverBucket[h]] : ServerMap'[serverBucket[h]][i] = h
    <3>1. CASE serverBucket[h] = c
      <4>1. ServerMap[c] \in Seq(GameServers) /\ \E i \in DOMAIN ServerMap[c] : ServerMap[c][i] = h
        BY <1>l, <1>s, <2>1, <2>5, <3>1
      <4>2. \E i \in DOMAIN RemoveAt(ServerMap[c], k) : RemoveAt(ServerMap[c], k)[i] = h
        <5> DEFINE list == ServerMap[c]
        <5>1. list[k] # h /\ k \in DOMAIN list
          BY <2>2, <2>5
        <5>2. list \in Seq(GameServers) /\ \E i \in DOMAIN list : list[i] = h
          BY <4>1
        <5> HIDE DEF list
        <5>3. \E i \in DOMAIN RemoveAt(list, k) : RemoveAt(list, k)[i] = h
          BY <5>1, <5>2, EraseKeeps, SMT
        <5> QED
          BY <5>3 DEF list
      <4> QED
        BY <2>1, <2>3, <3>1, <4>2
    <3>2. CASE serverBucket[h] # c
      BY <1>l, <2>3, <2>5, <3>2
    <3> QED
      BY <3>1, <3>2
  <2>6. ASSUME NEW h \in GameServers
        PROVE  /\ GSServerMap'[h] = "server" <=> ServerMapById'[h] = "server"
               /\ GSServerMap'[h] = "server" =>
                    /\ gsSocket'[h] = "open"
                    /\ \E i \in DOMAIN ServerMap'[serverBucket'[h]] : ServerMap'[serverBucket'[h]][i] = h
               /\ ~ starting'[h] /\ gsSocket'[h] = "open" => GSServerMap'[h] = "server"
    <3>1. CASE h = g
      BY <2>4, <3>1
    <3>2. CASE h # g
      BY <2>4, <2>5, <3>2 DEF OwnedInv
    <3> QED
      BY <3>1, <3>2
  <2> QED
    BY <2>6 DEF OwnedInv
<1>9. ASSUME NEW g \in GameServers, GsDisconnect(g), GSServerMap[g] # "server"
      PROVE  OwnedInv'
  <2>1. /\ UNCHANGED <<ServerMap, ServerMapById, serverBucket, starting>>
        /\ \A h \in GameServers :
             /\ GSServerMap'[h] = IF h = g THEN "null" ELSE GSServerMap[h]
             /\ gsSocket'[h] = IF h = g THEN "gone" ELSE gsSocket[h]
    BY <1>0, <1>9 DEF GsDisconnect, TypeOK
  <2> QED
    BY <1>9, <2>1 DEF OwnedInv
<1>10. ASSUME NEW g \in GameServers, GetSession(g)
       PROVE  OwnedInv'
  <2>1. /\ ServerMapById[g] = "absent"
        /\ UNCHANGED <<ServerMap, GSServerMap, serverBucket, starting, gsSocket>>
        /\ \A h \in GameServers : ServerMapById'[h] = IF h = g THEN "null" ELSE ServerMapById[h]
    BY <1>0, <1>10 DEF GetSession, TypeOK, gsVars
  <2> QED
    BY <2>1 DEF OwnedInv
<1> QED
  BY <1>2, <1>3, <1>4, <1>5, <1>6, <1>7, <1>8, <1>9, <1>10 DEF Next, RegistryEvent

LEMMA OwnedAlways == Spec => []OwnedInv
<1>1. Init => OwnedInv
  BY DEF Init, OwnedInv
<1>2. IInv /\ OwnedInv /\ [Next]_vars => OwnedInv'
  <2>1. CASE UNCHANGED vars
    BY <2>1 DEF vars, regVars, gsVars, OwnedInv
  <2> QED
    BY <2>1, OwnedStep
<1> QED
  BY <1>1, <1>2, Invariance, PTL DEF Spec

(* A server is listed once, under its own bucket, exactly while it owns its *)
(* socket and resolves, whatever sessions are looked up meanwhile.          *)
THEOREM RegistryAgrees == Spec => []RegistryConsistent
<1>1. IInv /\ OwnedInv => RegistryConsistent
  <2> SUFFICES ASSUME TypeOK, RegistryInv, OwnedInv, NEW g \in GameServers, NEW b \in Buckets
               PROVE  Cardinality({i \in DOMAIN ServerMap[b] : ServerMap[b][i] = g})
                        = IF GSServerMap[g] = "server" /\ serverBucket[g] = b THEN 1 ELSE 0
    BY DEF IInv, OwnedInv, RegistryConsistent
  <2> DEFINE places == {i \in DOMAIN ServerMap[b] : ServerMap[b][i] = g}
  <2>1. CASE GSServerMap[g] = "server" /\ serverBucket[g] = b
    <3>1. PICK i \in DOMAIN ServerMap[b] : ServerMap[b][i] = g
      BY <2>1 DEF OwnedInv
    <3>2. places = {i}
      BY <3>1 DEF RegistryInv
    <3> QED
      BY <2>1, <3>2, FS_Singleton
  <2>2. CASE ~ (GSServerMap[g] = "server" /\ serverBucket[g] = b)
    <3>1. places = {}
      BY <2>2 DEF RegistryInv
    <3> QED
      BY <2>2, <3>1, FS_EmptySet
  <2> QED
    BY <2>1, <2>2
<1> QED
  BY <1>1, Invariance, OwnedAlways, PTL

(* A session a player was sent to resolves as long as its server is up. *)
THEOREM SessionsResolve == Spec => []PlayedSessionResolves
<1>1. IInv /\ OwnedInv => PlayedSessionResolves
  BY DEF IInv, PlayInv, ToldToPlay, OwnedInv, PlayedSessionResolves
<1> QED
  BY <1>1, Invariance, OwnedAlways, PTL

-----------------------------------------------------------------------------
(* The order in which matches are filled.                                  *)

(* The thread takes the first server with room, a new server is listed last *)
(* and empty, and erasing one keeps the order of the others.                *)
LEMMA FilledStep ==
  ASSUME IInv, FilledInOrder, Next
  PROVE  FilledInOrder'
<1>0. TypeOK /\ RegistryInv /\ WireInv
  BY DEF IInv
<1>s. \A b \in Buckets : /\ ServerMap[b] \in Seq(GameServers)
                         /\ Len(ServerMap[b]) \in Nat
                         /\ DOMAIN ServerMap[b] = 1 .. Len(ServerMap[b])
                         /\ \A i \in DOMAIN ServerMap[b] : ServerMap[b][i] \in GameServers
  BY <1>0 DEF TypeOK, ServerMapType
<1>n. \A g \in GameServers : queuedPlayers[g] \in Nat /\ maxPlayers[g] \in Nat
  BY <1>0 DEF TypeOK
<1>1. ASSUME UNCHANGED <<ServerMap, queuedPlayers, maxPlayers>>
      PROVE  FilledInOrder'
  BY <1>1 DEF FilledInOrder, HasRoom
<1>2. ASSUME NEW p \in Players, PickServer(p)
      PROVE  FilledInOrder'
  <2>1. bucket[p] \in Buckets
    BY <1>0, <1>2 DEF PickServer, IInv, ThreadInv, HasTicket, Steps
  <2>2. PICK k \in DOMAIN ServerMap[bucket[p]] :
          /\ IsFirstFit(bucket[p], k)
          /\ TakeSlot(p, ServerMap[bucket[p]][k])
    BY <1>2 DEF PickServer
  <2> DEFINE g == ServerMap[bucket[p]][k]
  <2>3. /\ g \in GameServers /\ serverBucket[g] = bucket[p] /\ HasRoom(g)
        /\ \A j \in DOMAIN ServerMap[bucket[p]] : j < k => ~ HasRoom(ServerMap[bucket[p]][j])
    BY <1>0, <1>s, <2>1, <2>2 DEF RegistryInv, IsFirstFit
  <2>4. /\ UNCHANGED <<ServerMap, maxPlayers>>
        /\ \A h \in GameServers :
             queuedPlayers'[h] = IF h = g THEN queuedPlayers[h] + 1 ELSE queuedPlayers[h]
    BY <1>0, <1>2, <2>2, <2>3 DEF PickServer, TakeSlot, TypeOK
  <2> HIDE DEF g
  <2>5. ASSUME NEW b \in Buckets, NEW i \in DOMAIN ServerMap[b], NEW j \in DOMAIN ServerMap[b],
               i < j, queuedPlayers'[ServerMap[b][j]] > 0
        PROVE  ~ (queuedPlayers'[ServerMap[b][i]] < maxPlayers[ServerMap[b][i]])
    <3> DEFINE first == ServerMap[b][i]
               later == ServerMap[b][j]
    <3>1. first \in GameServers /\ later \in GameServers /\ first # later
      BY <1>0, <1>s, <2>5 DEF RegistryInv
    <3>2. CASE later = g
      <4>1. b = bucket[p] /\ j = k
        BY <1>0, <2>1, <2>2, <2>3, <2>5, <3>2 DEF RegistryInv, g
      <4>2. ~ HasRoom(first)
        BY <2>3, <2>5, <4>1
      <4> QED
        BY <2>4, <3>1, <3>2, <4>2 DEF HasRoom
    <3>3. CASE later # g
      <4>1. queuedPlayers[later] > 0
        BY <2>4, <2>5, <3>1, <3>3
      <4>2. ~ HasRoom(first)
        BY <2>5, <4>1 DEF FilledInOrder
      <4>3. first # g
        BY <2>3, <4>2
      <4> QED
        BY <2>4, <3>1, <4>2, <4>3 DEF HasRoom
    <3> QED
      BY <3>2, <3>3
  <2> QED
    BY <2>4, <2>5 DEF FilledInOrder, HasRoom
<1>3. ASSUME NEW p \in Players, ThreadStep(p)
      PROVE  FilledInOrder'
  BY <1>1, <1>2, <1>3, ThreadFrame
<1>4. ASSUME NEW p \in Players, PlayerSocketEvent(p)
      PROVE  FilledInOrder'
  BY <1>1, <1>4, SocketFrame DEF regVars
<1>5. CASE RunTask
  BY <1>1, <1>5 DEF RunTask, regVars
<1>6. ASSUME NEW g \in GameServers, GameServerStep(g) \/ GsReady(g) \/ GetSession(g)
      PROVE  FilledInOrder'
  BY <1>1, <1>6 DEF GameServerStep, OnGetIP, WorldReady, GetReady, GsReady, GetSession, regVars
<1>7. ASSUME NEW g \in GameServers, GsCreate(g)
      PROVE  FilledInOrder'
  <2> DEFINE c == Head(wire[g]).bucket
  <2>1. c \in Buckets /\ GSServerMap[g] # "server"
    <3>1. wire[g] \in Seq(GsMessage) /\ wire[g] # << >> /\ Head(wire[g]).type = "create"
      BY <1>0, <1>7 DEF GsCreate, TypeOK
    <3>2. Head(wire[g]) \in GsMessage
      BY <3>1, HeadTailProperties
    <3>3. wire[g][1].type = "create" /\ 1 \in DOMAIN wire[g]
      BY <3>1
    <3> QED
      BY <1>0, <3>1, <3>2, <3>3 DEF GsMessage, WireInv, Unregistered
  <2>2. ServerMap' = [ServerMap EXCEPT ![c] = Append(ServerMap[c], g)]
    BY <1>7 DEF GsCreate
  <2> HIDE DEF c
  <2>3. \A b \in Buckets : ServerMap'[b] = IF b = c THEN Append(ServerMap[c], g) ELSE ServerMap[b]
    BY <1>0, <2>2 DEF TypeOK, ServerMapType
  <2>4. \A h \in GameServers :
          /\ queuedPlayers'[h] = IF h = g THEN 0 ELSE queuedPlayers[h]
          /\ h # g => maxPlayers'[h] = maxPlayers[h]
    BY <1>0, <1>7 DEF GsCreate, TypeOK
  <2>5. \A b \in Buckets : \A i \in DOMAIN ServerMap[b] : ServerMap[b][i] # g
    BY <1>0, <2>1 DEF RegistryInv
  <2>6. ASSUME NEW b \in Buckets, NEW i \in DOMAIN ServerMap'[b], NEW j \in DOMAIN ServerMap'[b],
               i < j, queuedPlayers'[ServerMap'[b][j]] > 0
        PROVE  ~ (queuedPlayers'[ServerMap'[b][i]] < maxPlayers'[ServerMap'[b][i]])
    <3>1. /\ i \in DOMAIN ServerMap[b] /\ ServerMap'[b][i] = ServerMap[b][i]
          /\ j \in DOMAIN ServerMap[b] /\ ServerMap'[b][j] = ServerMap[b][j]
      <4>1. CASE b # c
        BY <2>3, <2>6, <4>1
      <4>2. CASE b = c
        <5> DEFINE list == ServerMap[c]
        <5>1. list \in Seq(GameServers) /\ ServerMap'[b] = Append(list, g) /\ ServerMap[b] = list
          BY <1>s, <2>1, <2>3, <4>2
        <5> HIDE DEF list
        <5>2. /\ DOMAIN Append(list, g) = 1 .. Len(list) + 1
              /\ DOMAIN list = 1 .. Len(list) /\ Len(list) \in Nat
              /\ Append(list, g)[Len(list) + 1] = g
              /\ \A n \in 1 .. Len(list) : Append(list, g)[n] = list[n]
          BY <5>1
        <5>3. j # Len(list) + 1
          BY <2>4, <2>6, <5>1, <5>2
        <5> QED
          BY <2>6, <5>1, <5>2, <5>3
      <4> QED
        BY <4>1, <4>2
    <3>2. /\ ServerMap[b][i] \in GameServers \ {g}
          /\ ServerMap[b][j] \in GameServers \ {g}
      BY <1>s, <2>5, <3>1
    <3>3. queuedPlayers[ServerMap[b][j]] > 0
      BY <2>4, <2>6, <3>1, <3>2
    <3>4. ~ HasRoom(ServerMap[b][i])
      BY <2>6, <3>1, <3>3 DEF FilledInOrder
    <3> QED
      BY <2>4, <3>1, <3>2, <3>4 DEF HasRoom
  <2> QED
    BY <2>6 DEF FilledInOrder, HasRoom
<1>8. ASSUME NEW g \in GameServers, GsDisconnect(g)
      PROVE  FilledInOrder'
  <2>1. CASE GSServerMap[g] # "server"
    BY <1>1, <1>8, <2>1 DEF GsDisconnect
  <2>2. CASE GSServerMap[g] = "server"
    <3> DEFINE c == serverBucket[g]
               list == ServerMap[c]
    <3>1. c \in Buckets
      BY <1>0, <2>2 DEF RegistryInv
    <3>2. PICK k \in DOMAIN list : ServerMap' = [ServerMap EXCEPT ![c] = RemoveAt(list, k)]
      BY <1>8, <2>2 DEF GsDisconnect, Unlist
    <3>3. UNCHANGED <<queuedPlayers, maxPlayers>>
      BY <1>8 DEF GsDisconnect
    <3>4. list \in Seq(GameServers)
      BY <1>s, <3>1
    <3> HIDE DEF c
    <3>5. \A b \in Buckets : ServerMap'[b] = IF b = c THEN RemoveAt(list, k) ELSE ServerMap[b]
      BY <1>0, <3>2 DEF TypeOK, ServerMapType
    <3>6. /\ DOMAIN RemoveAt(list, k) = 1 .. Len(list) - 1
          /\ Len(list) \in Nat /\ DOMAIN list = 1 .. Len(list)
          /\ \A n \in 1 .. Len(list) - 1 :
               RemoveAt(list, k)[n] = IF n < k THEN list[n] ELSE list[n + 1]
      <4> HIDE DEF list
      <4>1. k \in 1 .. Len(list)
        BY <3>4
      <4>2. /\ RemoveAt(list, k) \in Seq(GameServers)
            /\ Len(RemoveAt(list, k)) = Len(list) - 1
            /\ \A n \in 1 .. Len(list) - 1 :
                 RemoveAt(list, k)[n] = IF n < k THEN list[n] ELSE list[n + 1]
        BY <3>4, <4>1, RemoveAtProperties
      <4> QED
        BY <3>4, <4>2
    <3>7. ASSUME NEW b \in Buckets, NEW i \in DOMAIN ServerMap'[b], NEW j \in DOMAIN ServerMap'[b],
                 i < j, queuedPlayers[ServerMap'[b][j]] > 0
          PROVE  ~ HasRoom(ServerMap'[b][i])
      <4>1. CASE b # c
        BY <3>5, <3>7, <4>1 DEF FilledInOrder
      <4>2. CASE b = c
        <5> DEFINE at(n) == IF n < k THEN n ELSE n + 1
        <5>1. k \in 1 .. Len(list) /\ i \in 1 .. Len(list) - 1 /\ j \in 1 .. Len(list) - 1
          BY <3>5, <3>6, <3>7, <4>2
        <5>2. /\ at(i) \in DOMAIN list /\ at(j) \in DOMAIN list /\ at(i) < at(j)
          BY <3>6, <3>7, <5>1
        <5>3. ServerMap'[b][i] = list[at(i)] /\ ServerMap'[b][j] = list[at(j)]
          BY <3>5, <3>6, <4>2, <5>1
        <5>4. queuedPlayers[ServerMap[b][at(j)]] > 0
          BY <3>7, <4>2, <5>3
        <5>5. ~ HasRoom(ServerMap[b][at(i)])
          <6> HIDE DEF at
          <6> QED
            BY <4>2, <5>2, <5>4 DEF FilledInOrder
        <5> QED
          BY <4>2, <5>3, <5>5
      <4> QED
        BY <4>1, <4>2
    <3> QED
      BY <3>3, <3>7 DEF FilledInOrder, HasRoom
  <2> QED
    BY <2>1, <2>2
<1> QED
  BY <1>3, <1>4, <1>5, <1>6, <1>7, <1>8 DEF Next, RegistryEvent

(* A later server of a bucket has players only if the earlier ones are full, *)
(* for any number of threads that pick while servers come and go.            *)
THEOREM MatchesFilledInOrder == Spec => []FilledInOrder
<1>1. Init => FilledInOrder
  BY DEF Init, FilledInOrder
<1>2. IInv /\ FilledInOrder /\ [Next]_vars => FilledInOrder'
  <2>1. CASE UNCHANGED vars
    BY <2>1 DEF vars, regVars, FilledInOrder, HasRoom
  <2> QED
    BY <2>1, FilledStep
<1> QED
  BY <1>1, <1>2, Invariance, PTL DEF Spec

-----------------------------------------------------------------------------
(* What a client is shown.                                                 *)

(* Only a player who was told to play counts as invited, and stays so: no   *)
(* status reaches a player of whom the invariant says ToldToPlay.           *)
LEMMA InvitedIsTold ==
  ASSUME IInv, NEW q \in Players, shown[q].state = "Play"
  PROVE  \E g \in GameServers : ToldToPlay(q, g) /\ OnlyCloses(q, 0)
<1>1. TypeOK /\ PlayInv
  BY DEF IInv
<1>2. shown[q].session \in GameServers
  <2>1. shown[q] \in Message \union {Silence} /\ shown[q].session # None
    BY <1>1 DEF TypeOK, PlayInv
  <2>2. shown[q] \in Message
    BY <2>1 DEF Silence
  <2> QED
    BY <2>1, <2>2 DEF Message
<1>3. shown[q] = Play(shown[q].session)
  <2>1. shown[q] \in Message \/ shown[q] = Silence
    BY <1>1 DEF TypeOK
  <2>2. Silence.state # "Play"
    BY DEF Silence
  <2> QED
    BY <2>1, <2>2 DEF Message, Play
<1> QED
  BY <1>1, <1>2, <1>3 DEF PlayInv

(* An assigned thread stays assigned: it may only play, close and end. *)
LEMMA AssignedStep ==
  ASSUME IInv, Next, NEW q \in Players, Assigned(q)
  PROVE  Assigned(q)'
<1>0. TypeOK /\ ThreadInv
  BY DEF IInv
<1> DEFINE After == {"await", "recheck", "play", "unthread", "close", "done"}
<1>a. Assigned(q) <=> pickedServer[q] # None /\ pc[q] \in After
  BY DEF Assigned, HasPlayed
<1>b. pickedServer'[q] # None /\ pc'[q] \in After => Assigned(q)'
  BY DEF Assigned, HasPlayed
<1>1. ASSUME NEW p \in Players, ThreadStep(p)
      PROVE  Assigned(q)'
  <2>1. pickedServer'[q] = pickedServer[q]
    <3>1. CASE PickServer(p)
      <4>1. PICK h \in GameServers : TakeSlot(p, h)
        BY <1>1, <3>1, PickedIsListed
      <4>2. p # q
        BY <1>a, <3>1 DEF PickServer
      <4> QED
        BY <1>0, <4>1, <4>2 DEF TakeSlot, TypeOK
    <3>2. CASE ~ PickServer(p)
      BY <1>1, <3>2, ThreadFrame
    <3> QED
      BY <3>1, <3>2
  <2>2. CASE p # q
    <3>1. pc'[q] = pc[q]
      BY <1>0, <1>1, <2>2
         DEF ThreadStep, InsertConnection, RejectTicket, DropRejected, AcceptTicket,
             PostWaiting, Enqueue, PostQueued, CheckSocket, PickServer, PickNothing,
             LeaveQueue, PostAssignment, AwaitServer, RecheckSocket, PostPlay,
             EraseThread, PostClose, DieCancelled, Post, Goto, GotoOrDie, TypeOK
    <3> QED
      BY <1>a, <1>b, <2>1, <3>1
  <2>3. CASE p = q
    <3>1. AwaitServer(p) \/ RecheckSocket(p) \/ PostPlay(p) \/ EraseThread(p) \/ PostClose(p)
          \/ DieCancelled(p)
      BY <1>1, <1>a, <2>3
         DEF ThreadStep, InsertConnection, RejectTicket, DropRejected, AcceptTicket,
             PostWaiting, Enqueue, PostQueued, CheckSocket, PickServer, PickNothing,
             LeaveQueue, PostAssignment
    <3>2. pc'[p] \in After
      BY <1>0, <3>1 DEF AwaitServer, RecheckSocket, PostPlay, EraseThread, PostClose,
           DieCancelled, Post, Goto, GotoOrDie, TypeOK
    <3> QED
      BY <1>a, <1>b, <2>1, <2>3, <3>2
  <2> QED
    BY <2>2, <2>3
<1>2. ASSUME NEW p \in Players, PlayerSocketEvent(p)
      PROVE  Assigned(q)'
  <2>1. UNCHANGED pickedServer
    BY <1>2, SocketFrame
  <2>2. CASE OnConnect(p)
    <3>1. pc[p] = "unborn"
      BY <1>0, <2>2 DEF OnConnect, ThreadInv
    <3>2. p # q
      BY <1>a, <3>1
    <3> QED
      BY <1>0, <2>1, <2>2, <3>2 DEF OnConnect, Goto, Assigned, TypeOK
  <2>3. CASE RecordThread(p) \/ OnData(p) \/ OnDisconnect(p)
    BY <2>1, <2>3 DEF RecordThread, OnData, OnDisconnect, threadVars, Assigned
  <2> QED
    BY <1>2, <2>2, <2>3 DEF PlayerSocketEvent
<1>3. CASE RunTask
  BY <1>3 DEF RunTask, threadVars, Assigned
<1>4. ASSUME NEW h \in GameServers, GameServerStep(h) \/ RegistryEvent(h)
      PROVE  Assigned(q)'
  BY <1>4, RegistryFrame DEF threadVars, Assigned
<1> QED
  BY <1>1, <1>2, <1>3, <1>4 DEF Next

(* An assigned thread posts nothing but Play and the close, and a thread     *)
(* that posts the assignment is assigned from there on.                      *)
LEMMA PostedOnward ==
  ASSUME IInv, Next, NEW p \in Players, ThreadStep(p), tasks' # tasks
  PROVE  \E m \in Message \union {Status("close")} :
           /\ tasks' = Append(tasks, [sock |-> p, msg |-> m])
           /\ Assigned(p) => m.state \in {"SessionAssignment", "Play", "close"}
           /\ m.state = "SessionAssignment" => Assigned(p)'
<1>0. TypeOK /\ ThreadInv
  BY DEF IInv
<1>1. \/ RejectTicket(p) \/ AcceptTicket(p) \/ PostWaiting(p) \/ PostQueued(p)
      \/ PostAssignment(p) \/ PostPlay(p) \/ PostClose(p)
  BY DEF ThreadStep, InsertConnection, DropRejected, Enqueue, CheckSocket, PickServer,
         PickNothing, LeaveQueue, AwaitServer, RecheckSocket, EraseThread, DieCancelled,
         loopVars
<1>2. ASSUME NEW s \in {"Connecting", "Waiting", "Queued"}, tasks' = Send(p, Status(s)),
             pc[p] \in {"auth", "waiting", "announce"}
      PROVE  \E m \in Message \union {Status("close")} :
               /\ tasks' = Append(tasks, [sock |-> p, msg |-> m])
               /\ Assigned(p) => m.state \in {"SessionAssignment", "Play", "close"}
               /\ m.state = "SessionAssignment" => Assigned(p)'
  <2>1. Status(s) \in Message /\ Status(s).state # "SessionAssignment"
    BY DEF Status, Message, States
  <2>2. ~ Assigned(p)
    BY <1>2 DEF Assigned, HasPlayed
  <2> QED
    BY <1>2, <2>1, <2>2 DEF Send
<1>3. CASE RejectTicket(p) \/ PostClose(p)
  <2>1. tasks' = Append(tasks, [sock |-> p, msg |-> Status("close")])
    BY <1>3 DEF RejectTicket, PostClose, Post, Close
  <2>2. Status("close").state = "close"
    BY DEF Status
  <2> QED
    BY <2>1, <2>2
<1>4. CASE AcceptTicket(p) \/ PostWaiting(p) \/ PostQueued(p)
  BY <1>2, <1>4 DEF AcceptTicket, PostWaiting, PostQueued, Post
<1>5. CASE PostAssignment(p)
  <2>1. /\ tasks' = Append(tasks, [sock |-> p, msg |-> Status("SessionAssignment")])
        /\ UNCHANGED pickedServer
        /\ pc'[p] \in {"await", "done"}
    BY <1>0, <1>5 DEF PostAssignment, Post, Send, GotoOrDie, Goto, TypeOK
  <2>2. Status("SessionAssignment") \in Message /\ Status("SessionAssignment").state = "SessionAssignment"
    BY DEF Status, Message, States
  <2>3. pickedServer[p] # None
    BY <1>0, <1>5, NoneAssumption DEF PostAssignment, ThreadInv, HasServer
  <2>4. Assigned(p)'
    BY <2>1, <2>3 DEF Assigned, HasPlayed
  <2> QED
    BY <2>1, <2>2, <2>4
<1>6. CASE PostPlay(p)
  <2>1. tasks' = Append(tasks, [sock |-> p, msg |-> Play(pickedServer[p])])
    BY <1>6 DEF PostPlay, Post, Send
  <2>2. Play(pickedServer[p]) \in Message /\ Play(pickedServer[p]).state = "Play"
    BY <1>0 DEF Play, Message, States, TypeOK
  <2> QED
    BY <2>1, <2>2
<1> QED
  BY <1>1, <1>3, <1>4, <1>5, <1>6

(* No status that would put it back is on its way to an assigned player. *)
LEMMA AssignInvStep ==
  ASSUME IInv, AssignInv, Next
  PROVE  AssignInv'
<1>0. TypeOK
  BY DEF IInv
<1>1. /\ tasks \in Seq(Task) /\ DOMAIN tasks = 1 .. Len(tasks) /\ Len(tasks) \in Nat
  BY <1>0 DEF TypeOK
<1>2. \A q \in Players : Assigned(q) => Assigned(q)'
  BY AssignedStep
<1>3. ASSUME tasks' = tasks,
             \A q \in Players : shown'[q] = shown[q] \/ shown'[q].state # "SessionAssignment"
      PROVE  AssignInv'
  <2>1. \A q \in Players, k \in Nat : OnlyOnward(q, k) => OnlyOnward(q, k)'
    BY <1>3 DEF OnlyOnward
  <2>2. \A i \in DOMAIN tasks : i \in Nat
    BY <1>1
  <2>3. \A q \in Players : shown'[q].state = "SessionAssignment" => Assigned(q)' /\ OnlyOnward(q, 0)'
    BY <1>2, <1>3, <2>1 DEF AssignInv
  <2>4. ASSUME NEW i \in DOMAIN tasks', NEW q \in Players, tasks'[i].sock = q,
               tasks'[i].msg.state = "SessionAssignment"
        PROVE  Assigned(q)' /\ OnlyOnward(q, i)'
    BY <1>2, <1>3, <2>1, <2>2, <2>4 DEF AssignInv
  <2> QED
    BY <2>3, <2>4 DEF AssignInv
<1>4. ASSUME NEW p \in Players, ThreadStep(p), tasks' # tasks
      PROVE  AssignInv'
  <2>1. PICK m \in Message \union {Status("close")} :
           /\ tasks' = Append(tasks, [sock |-> p, msg |-> m])
           /\ Assigned(p) => m.state \in {"SessionAssignment", "Play", "close"}
           /\ m.state = "SessionAssignment" => Assigned(p)'
    BY <1>4, PostedOnward
  <2>2. shown' = shown
    BY <1>4, ThreadFrame
  <2> DEFINE n == Len(tasks) + 1
  <2>3. /\ DOMAIN tasks' = 1 .. n
        /\ tasks'[n].sock = p
        /\ tasks'[n].msg = m
        /\ \A i \in 1 .. Len(tasks) : tasks'[i] = tasks[i]
    <3>1. [sock |-> p, msg |-> m] \in Task
      BY DEF Task, Status
    <3> QED
      BY <1>1, <2>1, <3>1
  <2>4. ASSUME NEW q \in Players, NEW k \in Nat, Assigned(q), OnlyOnward(q, k)
        PROVE  OnlyOnward(q, k)'
    <3> SUFFICES ASSUME NEW i \in DOMAIN tasks', i > k, tasks'[i].sock = q
                 PROVE  tasks'[i].msg.state \in {"SessionAssignment", "Play", "close"}
      BY DEF OnlyOnward
    <3>1. CASE i = n
      BY <2>1, <2>3, <2>4, <3>1
    <3>2. CASE i # n
      <4>1. i \in DOMAIN tasks /\ tasks'[i] = tasks[i]
        BY <1>1, <2>3, <3>2
      <4> QED
        BY <2>4, <4>1 DEF OnlyOnward
    <3> QED
      BY <3>1, <3>2
  <2>5. ASSUME NEW q \in Players, shown'[q].state = "SessionAssignment"
        PROVE  Assigned(q)' /\ OnlyOnward(q, 0)'
    BY <1>2, <2>2, <2>4, <2>5 DEF AssignInv
  <2>6. ASSUME NEW i \in DOMAIN tasks', NEW q \in Players, tasks'[i].sock = q,
               tasks'[i].msg.state = "SessionAssignment"
        PROVE  Assigned(q)' /\ OnlyOnward(q, i)'
    <3>1. CASE i = n
      <4>1. \A j \in DOMAIN tasks' : ~ (j > i)
        BY <1>1, <2>3, <3>1
      <4> QED
        BY <2>1, <2>3, <2>6, <3>1, <4>1 DEF OnlyOnward
    <3>2. CASE i # n
      <4>1. i \in DOMAIN tasks /\ tasks'[i] = tasks[i] /\ i \in Nat
        BY <1>1, <2>3, <3>2
      <4>2. Assigned(q) /\ OnlyOnward(q, i)
        BY <2>6, <4>1 DEF AssignInv
      <4> QED
        BY <1>1, <1>2, <2>4, <4>1, <4>2
    <3> QED
      BY <3>1, <3>2
  <2> QED
    BY <2>5, <2>6 DEF AssignInv
<1>5. ASSUME NEW p \in Players, ThreadStep(p), tasks' = tasks
      PROVE  AssignInv'
  BY <1>3, <1>5, ThreadFrame
<1>6. ASSUME NEW p \in Players, PlayerSocketEvent(p)
      PROVE  AssignInv'
  <2>1. tasks' = tasks
    BY <1>6, SocketFrame
  <2>2. \A q \in Players : shown'[q] = shown[q] \/ shown'[q].state # "SessionAssignment"
    BY <1>6 DEF PlayerSocketEvent, OnConnect, RecordThread, OnData, OnDisconnect, Status
  <2> QED
    BY <1>3, <2>1, <2>2
<1>7. CASE RunTask
  <2> DEFINE t == Head(tasks)
  <2>1. /\ tasks # << >>
        /\ tasks' = Tail(tasks)
        /\ shown' = IF sock[t.sock] = "open" /\ t.msg.state \in States
                    THEN [shown EXCEPT ![t.sock] = t.msg] ELSE shown
    BY <1>7 DEF RunTask
  <2>2. t = tasks[1] /\ 1 \in DOMAIN tasks
    BY <1>1, <2>1
  <2>3. \A i \in DOMAIN tasks' : /\ i \in Nat /\ i > 0
                                 /\ i + 1 \in DOMAIN tasks /\ tasks'[i] = tasks[i + 1]
    <3>1. /\ Tail(tasks) \in Seq(Task)
          /\ Len(Tail(tasks)) = Len(tasks) - 1
          /\ \A i \in 1 .. Len(Tail(tasks)) : Tail(tasks)[i] = tasks[i + 1]
      BY <1>1, <2>1, HeadTailProperties
    <3>2. DOMAIN tasks' = 1 .. Len(tasks) - 1
      BY <2>1, <3>1, LenProperties
    <3> QED
      BY <1>1, <2>1, <3>1, <3>2
  <2> HIDE DEF t
  <2>4. \A q \in Players : shown'[q] = shown[q] \/ (q = t.sock /\ shown'[q] = t.msg)
    <3>1. shown \in [Players -> Message \union {Silence}]
      BY <1>0 DEF TypeOK
    <3> QED
      BY <2>1, <3>1
  <2>5. ASSUME NEW q \in Players, NEW k \in Nat, OnlyOnward(q, k + 1)
        PROVE  OnlyOnward(q, k)'
    BY <2>3, <2>5 DEF OnlyOnward
  <2>6. ASSUME NEW q \in Players, shown'[q].state = "SessionAssignment"
        PROVE  Assigned(q)' /\ OnlyOnward(q, 0)'
    <3>1. CASE shown'[q] = shown[q]
      <4>1. Assigned(q) /\ OnlyOnward(q, 0)
        BY <2>6, <3>1 DEF AssignInv
      <4>2. OnlyOnward(q, 0 + 1)
        BY <1>1, <4>1 DEF OnlyOnward
      <4> QED
        BY <1>2, <2>5, <4>1, <4>2
    <3>2. CASE q = t.sock /\ shown'[q] = t.msg
      <4>1. Assigned(q) /\ OnlyOnward(q, 0 + 1)
        BY <2>2, <2>6, <3>2 DEF AssignInv
      <4> QED
        BY <1>2, <2>5, <4>1
    <3> QED
      BY <2>4, <3>1, <3>2
  <2>7. ASSUME NEW i \in DOMAIN tasks', NEW q \in Players, tasks'[i].sock = q,
               tasks'[i].msg.state = "SessionAssignment"
        PROVE  Assigned(q)' /\ OnlyOnward(q, i)'
    <3>1. /\ i + 1 \in DOMAIN tasks /\ tasks'[i] = tasks[i + 1] /\ i \in Nat
      BY <1>1, <2>3
    <3>2. Assigned(q) /\ OnlyOnward(q, i + 1)
      BY <2>7, <3>1 DEF AssignInv
    <3> QED
      BY <1>2, <2>5, <3>1, <3>2
  <2> QED
    BY <2>6, <2>7 DEF AssignInv
<1>8. ASSUME NEW g \in GameServers, GameServerStep(g) \/ RegistryEvent(g)
      PROVE  AssignInv'
  BY <1>3, <1>8, RegistryFrame DEF loopVars
<1> QED
  BY <1>4, <1>5, <1>6, <1>7, <1>8 DEF Next

LEMMA AssignAlways == Spec => []AssignInv
<1>1. Init => AssignInv
  BY DEF Init, AssignInv, Silence
<1>2. IInv /\ AssignInv /\ [Next]_vars => AssignInv'
  <2>1. CASE UNCHANGED vars
    BY <2>1 DEF vars, loopVars, threadVars, AssignInv, Assigned, OnlyOnward
  <2> QED
    BY <2>1, AssignInvStep
<1> QED
  BY <1>1, <1>2, Invariance, PTL DEF Spec

(* A status that another player's message triggers, or a closure that comes  *)
(* late, never puts a client back that was told its session.                 *)
THEOREM AssignmentsAreFinal == Spec => AssignmentIsFinal
<1> DEFINE Final(q) ==
      /\ shown[q].state = "SessionAssignment" => shown'[q].state \in {"SessionAssignment", "Play"}
      /\ shown[q].state = "Play" => shown'[q] = shown[q]
<1>1. ASSUME IInv, AssignInv, [Next]_vars, NEW q \in Players
      PROVE  Final(q)
  <2>0. TypeOK /\ QueueInv
    BY <1>1 DEF IInv
  <2>1. ASSUME shown'[q] = shown[q]
        PROVE  Final(q)
    BY <2>1
  <2>2. ASSUME NEW p \in Players, OnData(p)
        PROVE  Final(q)
    <3>1. CASE q \in QueueMap[SocketMap[p]]
      <4>1. SocketMap[p] \in Buckets
        BY <2>0, <2>2 DEF OnData, TypeOK
      <4>2. pc[q] = "dequeue" \/ pickedServer[q] = None
        BY <2>0, <3>1, <4>1 DEF QueueInv
      <4>3. ~ Assigned(q)
        BY <4>2 DEF Assigned, HasPlayed
      <4>4. \A g \in GameServers : ~ ToldToPlay(q, g)
        BY <4>2, NoneAssumption DEF ToldToPlay, HasPlayed
      <4> QED
        BY <1>1, <4>3, <4>4, InvitedIsTold DEF AssignInv
    <3>2. CASE q \notin QueueMap[SocketMap[p]]
      BY <2>1, <2>2, <3>2 DEF OnData
    <3> QED
      BY <3>1, <3>2
  <2>3. CASE RunTask
    <3> DEFINE t == Head(tasks)
    <3>1. /\ tasks # << >>
          /\ shown' = IF sock[t.sock] = "open" /\ t.msg.state \in States
                      THEN [shown EXCEPT ![t.sock] = t.msg] ELSE shown
      BY <2>3 DEF RunTask
    <3>2. t = tasks[1] /\ 1 \in DOMAIN tasks
      BY <2>0, <3>1 DEF TypeOK
    <3> HIDE DEF t
    <3>3. CASE shown'[q] # shown[q]
      <4>1. t.sock = q /\ shown'[q] = t.msg /\ t.msg.state \in States
        BY <2>0, <3>1, <3>3 DEF TypeOK
      <4>2. ASSUME shown[q].state = "SessionAssignment"
            PROVE  t.msg.state \in {"SessionAssignment", "Play"}
        BY <1>1, <3>2, <4>1, <4>2 DEF AssignInv, OnlyOnward, States
      <4>3. shown[q].state # "Play"
        <5>1. SUFFICES ASSUME shown[q].state = "Play" PROVE FALSE
          OBVIOUS
        <5>2. OnlyCloses(q, 0)
          BY <1>1, <5>1, InvitedIsTold
        <5> QED
          BY <3>2, <4>1, <5>2 DEF OnlyCloses
      <4> QED
        BY <4>1, <4>2, <4>3
    <3> QED
      BY <2>1, <3>3
  <2>4. ASSUME NEW p \in Players, ThreadStep(p)
        PROVE  Final(q)
    BY <2>1, <2>4, ThreadFrame
  <2>5. ASSUME NEW p \in Players, PlayerSocketEvent(p)
        PROVE  Final(q)
    BY <2>1, <2>2, <2>5 DEF PlayerSocketEvent, OnConnect, RecordThread, OnDisconnect
  <2>6. ASSUME NEW g \in GameServers, GameServerStep(g) \/ RegistryEvent(g)
        PROVE  Final(q)
    BY <2>1, <2>6, RegistryFrame DEF loopVars
  <2>7. CASE UNCHANGED vars
    BY <2>1, <2>7 DEF vars, loopVars
  <2> QED
    BY <1>1, <2>3, <2>4, <2>5, <2>6, <2>7 DEF Next
<1>2. IInv /\ AssignInv /\ [Next]_vars =>
        [\A p \in Players :
           /\ shown[p].state = "SessionAssignment" =>
                shown'[p].state \in {"SessionAssignment", "Play"}
           /\ shown[p].state = "Play" => shown'[p] = shown[p]]_vars
  BY <1>1
<1> QED
  BY <1>2, Invariance, AssignAlways, PTL DEF Spec, AssignmentIsFinal

-----------------------------------------------------------------------------
(* The matchmaker implements Admission.                                    *)

(* The steps of Admission, one for each kind of step of the matchmaker. *)
LEMMA ImplementsStep == IInv /\ [Next]_vars => [Service!ANext]_(Service!avars)
<1> SUFFICES ASSUME IInv, [Next]_vars
             PROVE  [Service!ANext]_(Service!avars)
  OBVIOUS
<1> DEFINE Inv == {p \in Players : shown[p].state = "Play"}
<1>0. TypeOK /\ ThreadInv /\ SlotsAccounted /\ WireInv /\ QueueInv /\ PlayInv
  BY DEF IInv
<1>1. ASSUME UNCHANGED <<maxPlayers, starting, pickedServer>>,
             \A q \in Players : shown'[q].state = "Play" <=> shown[q].state = "Play"
      PROVE  UNCHANGED Service!avars
  BY <1>1 DEF Service!avars
<1>2. ASSUME NEW p \in Players, ThreadStep(p)
      PROVE  [Service!ANext]_(Service!avars)
  <2>1. UNCHANGED <<maxPlayers, starting, shown>>
    BY <1>2, ThreadFrame
  <2>2. CASE PickServer(p)
    <3>1. PICK g \in GameServers : HasRoom(g) /\ TakeSlot(p, g)
      BY <2>2, PickedIsListed
    <3>2. pickedServer[p] = None
      BY <1>0, <2>2 DEF PickServer, ThreadInv, HasServer
    <3>3. Cardinality(Seated(g)) < maxPlayers[g]
      BY <1>0, <3>1 DEF HasRoom, SlotsAccounted
    <3>4. Service!Admit(p, g)
      <4>1. Service!Admitted(g) = Seated(g)
        BY DEF Service!Admitted, Seated
      <4>2. pickedServer' = [pickedServer EXCEPT ![p] = g]
        BY <3>1 DEF TakeSlot
      <4>3. Service!Cardinality(Service!Admitted(g)) < maxPlayers[g]
        <5>1. Service!Cardinality(Seated(g)) = Cardinality(Seated(g))
          BY DEF Service!Cardinality, Cardinality
        <5> QED
          BY <3>3, <4>1, <5>1
      <4>4. /\ {h \in GameServers : ~ starting'[h]} = {h \in GameServers : ~ starting[h]}
            /\ {q \in Players : shown'[q].state = "Play"} = {q \in Players : shown[q].state = "Play"}
        BY <2>1
      <4> QED
        BY <2>1, <3>2, <4>2, <4>3, <4>4 DEF Service!Admit
    <3> QED
      BY <3>4 DEF Service!ANext
  <2>3. CASE ~ PickServer(p)
    BY <1>1, <1>2, <2>1, <2>3, ThreadFrame
  <2> QED
    BY <2>2, <2>3
<1>3. ASSUME NEW p \in Players, PlayerSocketEvent(p)
      PROVE  [Service!ANext]_(Service!avars)
  <2>1. UNCHANGED <<maxPlayers, starting, pickedServer>>
    BY <1>3, SocketFrame DEF regVars
  <2>2. CASE OnData(p)
    <3>1. ASSUME NEW q \in Players, shown'[q] # shown[q]
          PROVE  shown'[q].state # "Play" /\ shown[q].state # "Play"
      <4>1. /\ SocketMap[p] \in Buckets
            /\ q \in QueueMap[SocketMap[p]]
            /\ shown'[q] = Status("Queued")
        BY <1>0, <2>2, <3>1 DEF OnData, TypeOK
      <4>2. pc[q] = "dequeue" \/ pickedServer[q] = None
        BY <1>0, <4>1 DEF QueueInv
      <4>3. shown[q].state # "Play"
        BY <4>2, InvitedIsTold, NoneAssumption DEF ToldToPlay, HasPlayed
      <4> QED
        BY <4>1, <4>3 DEF Status
    <3> QED
      BY <1>1, <2>1, <3>1
  <2>3. CASE ~ OnData(p)
    <3>1. shown' = shown
      BY <1>3, <2>3 DEF PlayerSocketEvent, OnConnect, RecordThread, OnDisconnect
    <3> QED
      BY <1>1, <2>1, <3>1
  <2> QED
    BY <2>2, <2>3
<1>4. CASE RunTask
  <2> DEFINE t == Head(tasks)
  <2>1. /\ UNCHANGED <<maxPlayers, starting, pickedServer>>
        /\ shown' = IF sock[t.sock] = "open" /\ t.msg.state \in States
                    THEN [shown EXCEPT ![t.sock] = t.msg] ELSE shown
    BY <1>4 DEF RunTask, threadVars, regVars
  <2>2. /\ t = tasks[1] /\ 1 \in DOMAIN tasks /\ 1 > 0
        /\ t \in Task
    BY <1>0, <1>4 DEF RunTask, TypeOK
  <2> HIDE DEF t
  <2>3. CASE shown' = shown
    BY <1>1, <2>1, <2>3
  <2>4. CASE shown' # shown
    <3>1. t.msg.state \in States /\ shown' = [shown EXCEPT ![t.sock] = t.msg]
      BY <2>1, <2>4
    <3>2. t.sock \in Players /\ t.msg \in Message
      BY <2>2, <3>1 DEF Task, States
    <3>3. /\ shown'[t.sock] = t.msg
          /\ \A q \in Players \ {t.sock} : shown'[q] = shown[q]
      BY <1>0, <3>1, <3>2 DEF TypeOK
    <3>4. shown[t.sock].state # "Play"
      BY <2>2, <3>1, <3>2, InvitedIsTold DEF OnlyCloses
    <3>5. CASE t.msg.state # "Play"
      BY <1>1, <2>1, <3>3, <3>4, <3>5
    <3>6. CASE t.msg.state = "Play"
      <4> DEFINE g == t.msg.session
      <4>1. g \in GameServers /\ t.msg = Play(g)
        BY <1>0, <2>2, <3>2, <3>6 DEF PlayInv, Message, Play
      <4>2. pickedServer[t.sock] = g /\ ~ starting[g]
        BY <1>0, <2>2, <3>2, <4>1 DEF PlayInv, ToldToPlay
      <4>3. Inv' = Inv \union {t.sock}
        BY <3>2, <3>3, <3>6
      <4>4. PICK q \in Players : q = t.sock
        BY <3>2
      <4>5. Service!Invite(q)
        BY <2>1, <4>1, <4>2, <4>3, <4>4 DEF Service!Invite
      <4> QED
        BY <4>5 DEF Service!ANext
    <3> QED
      BY <3>5, <3>6
  <2> QED
    BY <2>3, <2>4
<1>5. ASSUME NEW g \in GameServers, GameServerStep(g) \/ RegistryEvent(g)
      PROVE  [Service!ANext]_(Service!avars)
  <2>1. UNCHANGED <<shown, pickedServer>>
    BY <1>5, RegistryFrame DEF loopVars, threadVars
  <2>2. CASE GsCreate(g)
    <3>1. Unregistered(g)
      <4>1. wire[g] # << >> /\ Head(wire[g]).type = "create" /\ wire[g] \in Seq(GsMessage)
        BY <1>0, <2>2 DEF GsCreate, TypeOK
      <4>2. 1 \in DOMAIN wire[g] /\ wire[g][1] = Head(wire[g])
        BY <4>1
      <4> QED
        BY <4>1, <4>2 DEF Unregistered
    <3>2. starting[g] /\ Seated(g) = {}
      BY <1>0, <3>1 DEF WireInv
    <3>3. Head(wire[g]).maxPlayers \in Capacities
      <4>1. Head(wire[g]) \in GsMessage /\ Head(wire[g]).type = "create"
        BY <1>0, <2>2 DEF GsCreate, TypeOK
      <4> QED
        BY <4>1 DEF GsMessage
    <3>4. \E m \in Capacities : maxPlayers' = [maxPlayers EXCEPT ![g] = m]
      BY <2>2, <3>3 DEF GsCreate
    <3>5. \A h \in GameServers : starting'[h] = starting[h]
      BY <1>0, <2>2, <3>2 DEF GsCreate, TypeOK
    <3>6. Service!Open(g)
      BY <2>1, <3>2, <3>4, <3>5 DEF Service!Open, Service!Admitted, Seated
    <3> QED
      BY <3>6 DEF Service!ANext
  <2>3. CASE GsReady(g) /\ starting' # starting
    <3>1. starting' = [starting EXCEPT ![g] = FALSE] /\ UNCHANGED maxPlayers
      BY <2>3 DEF GsReady
    <3>2. {h \in GameServers : ~ starting'[h]} = {h \in GameServers : ~ starting[h]} \union {g}
      BY <1>0, <3>1 DEF TypeOK
    <3>3. Service!BecomeReady(g)
      BY <2>1, <3>1, <3>2 DEF Service!BecomeReady
    <3> QED
      BY <3>3 DEF Service!ANext
  <2>4. CASE ~ GsCreate(g) /\ ~ (GsReady(g) /\ starting' # starting)
    <3>1. UNCHANGED <<maxPlayers, starting>>
      BY <1>5, <2>4 DEF GameServerStep, RegistryEvent, OnGetIP, WorldReady, GetReady,
                        GsReady, GsDisconnect, GetSession, regVars
    <3> QED
      BY <1>1, <2>1, <3>1
  <2> QED
    BY <2>2, <2>3, <2>4
<1>6. CASE UNCHANGED vars
  BY <1>1, <1>6 DEF vars, loopVars, threadVars, regVars
<1> QED
  BY <1>2, <1>3, <1>4, <1>5, <1>6 DEF Next

(* Threads, locks and messages in flight change nothing of what players and *)
(* game servers were promised: the matchmaker is an Admission.              *)
THEOREM ImplementsAdmission == Spec => AdmissionImplemented
<1>1. Init => Service!AInit
  BY DEF Init, Service!AInit, Silence
<1> QED
  BY <1>1, Invariance, ImplementsStep, PTL
     DEF Spec, AdmissionImplemented, Service!ASpec

=============================================================================
