# Remix-Files: a TLA+ verification project

TLA+ modules, TLC configurations and TLAPS proofs for the programs of the
repository: a matchmaker, a game backend, a game-server library, a launcher and
a redirect library.  Each definition is translated from the source; where a
definition stands for something the repository only uses (the seasocks event
loop, POSIX cancellation, a socket, the end of a process) it is modelled from
that use and marked external in `PROJECT.json`.

| part of the system | modules | TLC | TLAPS |
|---|---|---|---|
| standalone matchmaker, game server's socket | `Matchmaker`, `Admission` | 2 runs | `MatchmakerProofs` |
| backend parties | `Party`, `Membership` | 1 run | `PartyProofs` |
| backend purchases, gifts, rewards per kill and win | `Profiles` | 1 run | `ProfilesProofs` |
| backend friends | `Friends` | 1 run | `FriendsProofs` |
| backend gift codes, shop webhook | `RewardCodes` | 1 run | `RewardCodesProofs` |
| backend match results: scores and divisions | `Arena` | 1 run | `ArenaProofs` |
| backend match results, levels and stars | `Progress` | 1 run | `MatchProofs` |
| game server: inventories and pickups | `Inventory` | 1 run | `MatchProofs` |
| game server: phases of a match | `GamePhase` | 1 run | `MatchProofs` |
| launcher: downloads | `Downloads` | 2 runs | `DownloadsProofs` |

To repeat the checks, in this directory:
`tlc -config MCParty_contacts.cfg MCParty`, `tlapm PartyProofs.tla`, and so on.

## 1. Inventory

### 1.1 Remix-Matchmaker (C++)

One process, three kinds of threads.

* *The event loop.*  seasocks accepts WebSockets on `/mm` (players, `MMHandler`)
  and `/gs` (game servers, `GSHandler`) and runs one callback, or one closure
  posted by `Server::execute`, at a time.
* *A detached thread per player socket*, started by `MMHandler::onConnect`.  It
  checks the ticket, queues the player, polls for a game server with room, waits
  until that server is ready, tells the player to play, and closes the socket.
  `dropSocket` ends it with `pthread_cancel` (deferred cancellation).
* *An HTTP thread* (`api.cpp`) that resolves a session id to an address.  The
  backend's `GetMatchmakingSession` calls it.

State: `connections`, `QueueMap`, `SocketMap`, `TicketMap`, `ThreadMap`
(mm_socket.cpp), `ServerMap`, `GSServerMap`, `ServerMapById` and the `MMServer`
objects (`starting`, `queuedPlayers`, `maxPlayers`), nearly all under `gMtx`.

Hard: the thread and the loop drop, queue and message the same socket; a thread
may be cancelled between any two steps that pass a cancellation point; closures
run later than they were posted; `starting` is read without the lock; game
servers come and go while threads hold pointers to them.

Correct means: no game server is booked beyond what it announced and a slot is
counted once; servers are filled in order; the maps agree on who waits where and
the registry's indexes agree; a client is told to play only on a ready server
its thread picked, and never falls back to a queue; room does not stay unused;
threads of dropped players end.

### 1.2 Remix-Backend (Go, gin, the odin/bbolt store)

One process; every request runs in a goroutine of its own.  Parties, sessions and
sockets live in memory; accounts, profiles, friends and codes in the store, which
is read and written by whole records and has no transactions across calls.

* **Parties** (`router/party/party.go`).  State: `parties`, `pings`, and of every
  party its members with roles, invites and meta, under one `RWMutex`.
  Operations: create, join, join via ping, leave or kick, promote, ping, invite,
  patch.  Responses and the goroutines that notify members read after the unlock.
  Correct: one party per user, no empty party, one captain, a party does not lose
  its captain without cause, one ping and one invite per pair.
* **Profile commands** (`router/fortnite/mcp`, `managers`).  State: the records
  `common_core`, `athena`, `Season` of an account.  A command reads records,
  decides and writes them back without a lock, through a crash or another
  command.  Correct: V-Bucks, items, boxes and levels add up.
* **Rewards and match results** (`router/remix/server/fortnite`): the game server
  posts kills, wins and match results, which change the same records: V-Bucks,
  then stars and cosmetics, then the season, and the scores and division tokens of
  the arena, which the page of events (`fortnite_events.go`) creates too.
  Correct: stars and V-Bucks follow from levels and results; the stored scores
  have the tokens of their divisions.
* **Friends** (`fortnite_friends.go`).  Two records per friendship, one for each
  side, with status and direction, found, created and saved in separate calls; add,
  accept, delete.  Correct: the two sides agree; nobody is a friend without having
  asked or accepted.
* **Gift codes** (`remix_server_codes.go`) and shop webhooks
  (`remix_server_sellauth.go`).  Find the code, save the rewards one by one, delete
  the code; the webhook grants a Full Locker to an account without one;
  administrators grant it to any and delete the records of it
  (`remix_server_register.go:443-571`).  Correct: a code serves one account and gives
  it everything; a repeated delivery grants nothing more.
* **OAuth, EOS, accounts** (`router/oauth`, `eos`, `account_public`, `mercury`,
  `iridium`).  Tokens and exchange codes; an exchange code should work once.
* **Messaging hub** (`modules/synapse`).  One XMPP client, started lazily and
  restarted after a failed send, under a mutex that `SendMessage` releases while
  it starts the client.
* **Launcher sockets** (`router/remix/launcher`).  `LauncherClients` by account;
  a reconnect replaces the entry, the reader and the close handler of the old
  connection delete by account id.
* **Matchmaking sessions** (`modules/matchmaking`).  `Clients`, `Sessions`,
  playlists, a ticker that assigns players, a reaper for old sockets.  Tickets
  (`fortnite_matchmaking.go:85-94`) have two parts and `socket_base.go:53-57`
  asks for three, so no player enters `Clients` and the assignment code does not
  run; the standalone matchmaker took its place.  The session side does run.
* **Database proxy, storefront, content, cloud storage, discovery,
  administration API, start-up**: a viewer and a cache over the store, a daily
  shop job, and single-record or static responses.

### 1.3 The rest

* **Remix-GS/32.11** (C++ library in the game server): hooks of a closed engine.
  Its matchmaker socket sends `create` once the address is known, `ready` once
  the map is loaded too, and closes before the flight (`OnGetIP`,
  `FinishWorldInitialization`, `GamePhaseLogic__Tick`).  A tick per frame takes the
  match through its phases by comparing deadlines with the time; correct: no step
  is skipped, nobody stays aboard an aircraft that goes, the match does not stall.
  Hooks of pickups, drops, harvests, traps, upgrades and deaths change stacks that
  are kept twice; correct: no item is made or lost, the copies agree.
* **Remix-Launcher** (desktop client).  A download is one thread per chunk; they
  share counters and a list without a lock, and leave the list on disk for a
  download that resumes.  Correct: what is skipped was written, what is announced
  is there, a download ends.
* **Remix-Redirect** (a byte-pattern search and URL rewriting in another process),
  **Files** (binaries).

The components, with their sources, and the hazards, each at its line and with
the properties that would catch it, are listed in `PROJECT.json`.  Left out of
that list, because nothing checks them or they are of less weight:

* matchmaker: a thread queues a socket that was dropped since its last
  cancellation point (mm_socket.cpp:112); ThreadMap is filled after the thread was
  started (mm_socket.cpp:218); a second `create` on one socket;
* parties: `max_size` and revisions are ignored, `RawSquadAssignments` is stale,
  the order of notifications; a join that yields leadership makes a second captain;
* profiles: offers are decoded into pooled structs that are not cleared
  (purchasecatalogentry.go:276); a finished daily quest pays no V-Bucks
  (match.go:229); an exchange code is found, used and deleted in separate calls
  (oauth_create.go:135);
* sockets: a failed write returns with `ClientM` locked
  (modules/matchmaking/main.go:63), the clean-up of an old game-server socket
  removes the new one (socket_session.go:157), as does the reader of an old
  launcher connection (launcher_socket_conn.go:160), an account saved stale by the
  launcher, `SendMessage` unlocks its mutex to start the client
  (modules/synapse/main.go:109);
* the cache of the store's viewer is keyed by 16 bytes of the value (proxy.go:122).

## 2. Plan

| order | modules | state |
|---|---|---|
| 1 | `Matchmaker` with the game servers; `Admission`, its abstraction; proofs | done |
| 2 | `Party`; `Membership`, its abstraction; proofs | done |
| 3 | `Profiles`; proofs | done |
| 4 | `Friends`: the two records of a friendship; proofs | done |
| 5 | `RewardCodes`: codes and the shop webhook; proofs | done |
| 6 | `Arena`: scores, divisions and tokens; proofs | done |
| 7 | `Progress`: levels, stars, V-Bucks of results, purchases and exchanges; proofs | done |
| 8 | `Inventory`, `GamePhase` of the game server; proofs | done |
| 9 | `Downloads` of the launcher; proofs | done |
| 10 | Proofs of every safety property the passing runs check | done |
| 11 | `Profiles`: quests, lockers; `Matchmaker`: several `create` on one socket | if worth it |

`Matchmaker` composes the player threads, the loop, the HTTP thread and the game
servers because their steps interleave on the same maps.  The backend's modules
share no state, except that `Profiles`, `Progress` and `Arena` are served by some of
the same requests: a match result is played in `Progress` (V-Bucks, stars, season)
and, independently of it, in `Arena` (tokens, scores).  `common_core` is in both
`Profiles` and `Progress`; what overlapping writes of it do is asked in `Profiles`,
what the order of the three saves protects in `Progress`.

No module declares a RECURSIVE operator, so all can be proved about.  Where the code
loops (the items of an inventory that is emptied, the three resources of an upgrade,
the count of a bar) the model has a recursive function along `0 .. n`, and sums are
recursive functions too; `MatchProofs` says how such recursions are proved about.  It
holds the proofs of three modules, which it extends together; this is why
`Inventory` and `Progress` prefix the names that every specification has
(`InventoryInit`, `ProgressTypeOK`, ...).

## 3. Modules and code

### 3.1 `Matchmaker.tla`

| model | code |
|---|---|
| `connections`, `QueueMap`, `SocketMap`, `TicketMap`, `ThreadMap` | the globals of mm_socket.cpp |
| `ServerMap`, `GSServerMap`, `ServerMapById`, `starting`, `queuedPlayers`, `maxPlayers` | global.h, server.h |
| `pc`, `bucket`, `pickedServer`, `cancelled` | a player's thread: where it stands in mm_socket.cpp:42-217, its locals, a pending pthread_cancel |
| `tasks`, `connecting`, `sock`, `shown` | the loop: closures given to `Server::execute`, the running `onConnect`, the sockets, what a client was last sent |
| `gsSocket`, `bInit`, `bReady`, `worldReady`, `wire` | the game server library and its socket |
| `OnConnect`, `OnData`, `OnDisconnect`, `RecordThread` | callbacks of `MMHandler` |
| `GsCreate`, `GsReady`, `GsDisconnect` | callbacks of `GSHandler` |
| `OnGetIP`, `WorldReady`, `GetReady` | the game server library |
| `GetSession` | api.cpp |

One action is a critical section under `gMtx`, or the code between two points
where another thread may step in.  A cancelled thread goes on to its next
cancellation point and ends there.  The build with `bProd` false (Config.h) is
modelled.  Initially the game servers are connected and nothing is registered.
Malformed headers and JSON are left out.  A send to a destroyed socket reaches no
client.  A dead socket that its thread queued after it was dropped stays in the
maps; `QueueMatchesMaps` and `RoomIsTaken` are stated so that they allow exactly
that.

`Admission.tla` says what the matchmaker promises: a server opens with a
capacity, admits at most that many players, becomes ready, and only then invites
players, and only those it admitted.  A player is admitted once.  `Matchmaker` refines it (`AdmissionImplemented`).

### 3.2 `Party.tla`

Every handler is one action because it holds `mu` from its first read to its last
write.  `parties`, `members`, `elder` (the order of the list) and `captains` are
the party map; `pings` and `invites` count the entries of each pair.  The reads
after the unlock are kept: a party in `encoding` is being read; a PATCH of it, and
who joins it or leaves others behind in it (`RewriteAssignments`), may meet that, and
the Go runtime then ends the process (`Fatal`), after which there are no parties.  Party and member meta, revisions,
configuration, `RawSquadAssignments`, intentions and the order of notifications
are left out.  The connection id in a request belongs to the account in its path.

`Membership.tla` is the promise: a function from users to the party they are in,
changed for one user at a time; an id is used once; all parties may end at once.

### 3.3 `Profiles.tla`

A command is a `job`: the step its goroutine has reached and copies of the
records it has read.  One action is one call of the store and the decision after
it; `Crash` may come between any two.  `Read` marks a record `contested` when
another command holds it, that is, has read it and may still write it.  `ledger`
records what each write was for; both are history variables and guard nothing.

| action | code |
|---|---|
| `FindProfile`, `FindAthena` (with `Owned`, `FinalPrice`, `Grantable`, `Affordable`) | the reads and checks of POSTPurchaseCatalogEntry and POSTGiftCatalogEntry |
| `FindSeason`, `SaveVip`, `SaveLevels` | setBattlePassPurchased, grantLevels |
| `FindReceiver`, `FindReceiverCommon`, `SaveReceiverCommon`, `SaveReceiverAthena` | the loop over the receivers of a gift |
| `SaveProfile`, `SaveAthena` | the two saves at the end |
| `FindToUnbox` | POSTRemoveGiftBox |
| `SaveReward` | POSTVbucksPerKill, and POSTWonGame |
| `FindUnseen`, `SaveSeen` | POSTMarkItemSeen |

`FindSeason` may fail: the code ignores that and saves a fresh season over what is
stored (purchasecatalogentry.go:29, 42), so the levels and the pass that were there
are gone.  The season counts as contested from then on.
Assumed: registration created the currency item; the client sends commands about
V-Bucks to `common_core`; the reduction per owned item of a bundle is uniform.
Left out: offers not paid in V-Bucks, items that are not cosmetics, one receiver
named twice, the administrators' writes to a balance and to items
(`remix_server_register.go:385-571`), which follow no ledger, quests, lockers, banners; match results are in
`Progress`.

### 3.4 `Downloads.tla`

| model | code |
|---|---|
| `numThreads`, `i`, `CompletedChunks`, `downloading`, `progress`, `pending` | the globals of downloads.cpp:171-177 and of the page |
| `task`: `ReadList`, `Spawn`, `RemoveList`, `Announce` | DownloadThread |
| `threads`: `LoadCount`, `StoreCount`, `Open`, `Write`, `PushBack`, `Truncate`, `Save`, ... | DownloaderThread, one per missing chunk |
| `rmx`, `written`, `library` | the disk |
| `Click`, `Draw`, `RemoveBuild`, `Restart` | the page, the library page, LoadBuilds |

A step of a thread is one access to something shared; an increment is a load and a
store.  `Crash` ends the process between any two steps and leaves the disk: a `.rmx`
that was opened and not written is empty and does not parse, which ends the next
attempt.  A chunk is fetched until its hash is right before its first file is
opened; a file that another thread holds open is tried again.  Results of WriteFile
are ignored by the code, so a failed write is a step that leaves nothing.  Not
modelled: the race of the vector of speeds, and `has_partial`, which looks for
`.rmx` in another folder than the one it is written to (downloads.cpp:384), so that
the button never says Resume.

### 3.5 `Inventory.tla`

`items[o]` are the stacks of an owner in the order of `ReplicatedEntries`, each with
its two copies (`count` of the entry, `inst` of the instance); `hand` is the
weapon in hand and where its stack is; `ground` is the sequence of the pickups, in
the order they appeared; any may be taken next.  All hooks run
on the game thread, so a hook is one action: `Loot`, `PickUp`, `GiveItemToOwner`,
`GiveDirectly`, `Equip`, `DropStack`, `RemoveInventoryItem`, `RemoveItem`,
`K2_RemoveItemFromPlayer`, `Harvest`, `PlaceTrap`, `Upgrade`, and the three ways an
inventory is emptied.  They share the operators `Give`, `Take`, `Set`, `Spawn`,
`GiveOrSwap`, `GiveOrSwapStack`, `TopUp`, named as in the code, which work on a state
of one owner (`State(o)`); `EndsAs` writes it back and enters in `ledger`, a history of
what came in less what was used, what the operation says came in; `made` is what came
out of nothing, by `Makes` alone.  `Paid` takes the
resources of an upgrade in turn, `Emptied` goes through the stacks from the last to the
first.  `Amount` is what a sequence of stacks or pickups holds of a definition, `Slots`
what it takes of the bar.

InternalPickupLogic keeps a pointer into `ReplicatedEntries` while GiveOrSwapStack
may make the array grow and move (Pickups.cpp:166-193).  What is then read is any
value (`seen`); if it is not the right one `dangled` is set and nothing is claimed
after it, since the behaviour is undefined.  Assumed: each definition has a pickup
component (without one GiveOrSwap swaps and GiveOrSwapStack spawns), and an upgrade is
asked for by who can pay, which the bench tests.  `GiveDirectly` is GiveItem as the
starting items, the crown of a winner (PlayerController.cpp:499), the weapon of a seat
and the weapons of bots (FortInventoryOwnerInterface.cpp:199-213) call it, for items of
the bar as well, a stack at a time.

A client drops, and a script removes, a count that nobody compares with the stack.
`DropStack` takes every count from -1 to one more than there is; more than that, or less
than -1, differs in how much is made, not in what follows.  -1 is the odd one: the
entry grows by one before the pickup copies it and the stack goes
(PlayerController.cpp:288-309), so that an item is made; a drop of more than there is
makes the difference.  `RemoveItem` of -1 from a stack that is to persist adds one
(InventoryManagementLibrary.cpp:29-36).  `Conserved` says that nothing else makes an item,
and `MaxOdd` bounds what is so made or left empty.  Assumed of the engine and its scripts
(no client calls these two) is that they remove no more than a stack has: one that
persists would go below zero.  In the run a pickup is of at most one more than a stack.
Ammunition, levels and positions are left out; there is one owner in the run, because
owners meet only on the ground.

### 3.6 `GamePhase.tla`

One action is a frame (`Tick(n)`: n units pass, then the whole of
GamePhaseLogic__Tick) or what the engine does between frames (`MatchStarts`,
`MatchEnds`, players that connect, leave, jump, die).  `left` is how far each
deadline is; a late frame passes several.  `done` are the function's statics.  The
tick is a function of the state, `Ticked`, composed of the blocks of the code in
their order.  In a playlist that skips the aircraft nothing ever sets the start of
the zones and the socket of the matchmaker stays open; a frame that comes before the
match starts puts such a match back to Warmup for good.  Both follow the code;
`ClosedBeforeFlight`, `StepsInOrder` and `StormComes` are about playlists with a
flight.  While nobody is alive the phases wait.  Left out: bots, positions, damage,
the playlist flag `bNoAircraft` together with a flight; the build is `bProd`.

### 3.7 `Friends.tla`

A record is owned by one side and has an id of its own, which the store gives; a
look returns any record that matches.  `request` is what the goroutine of a request
knows: its step, the records it found as it read them, those it still has to delete.
An id is drawn at random by `generateID`, and taken to be one that no record has and
no request holds (`Held`).  AddPublicFriend finds its own record, then the other side's, then accepts, or saves
a request, each in two calls (`Accept`, `AcceptTheirs`, `Ask`, `AskTheirs`);
DeleteFriend finds all records of the pair and deletes them one by one.  A save
writes what was read, also where the record was deleted since.  Each call may fail,
which ends the request; `Crash` ends all.  `tried` and `asked` are histories of who
asked whom; `contested` are the pairs that overlapping or broken requests touched.

### 3.8 `RewardCodes.tla`

Redeem finds a code, the account's records of that code, all its records, saves one
record per reward that is new, and deletes the code; CreateCode looks and saves;
the webhook looks and saves.  A look that fails finds nothing, since the code
ignores the error of FindWhere.  `records` counts equal records, because the code may
store several.  An administrator's grant (`POSTGrantFullLocker`) saves a record
without a look; a withdrawal finds the account's records (`DELETEFullLocker`) and
deletes those of the Full Locker one by one (`DeleteReward`), while other requests
run; DELETEAllItems does the same before it empties the locker.  `withdrawn` remembers
in the history of a request past its look that a record was deleted under it.
Which of several equal records a delete removes is not told apart.  The account that
the webhook may register is left out.  An account
and a code are different things (`Accounts`, `Codes`), and finitely many requests are
served at once (`Slots`): `contested` holds both, and a record count is compared with
the number of slots.

### 3.9 `Arena.tla`

The tournament part of POSTBroadcastMatchResults and DownloadEventsViaAccountId.
The code looks scores up by account only, so the score of every season gets the
points, and a score of an old season that reaches a division is granted the current
season's; the model does the same.  A page covers the seasons up to that of the
client that asks for it (`Pages`), which may be older than the current one.  `missed` are divisions whose token could not be
created: the code goes on and never tries again.  A look that fails creates a second
token or score.

### 3.10 `Progress.tla`

Three kinds of requests read whole records and write them back: results save
`common_core`, `athena`, then the season; a purchase changes the season twice (the
pass, the levels) before it saves `common_core` and `athena`; an exchange gives
V-Bucks before it saves `athena`.  History is kept in the records themselves, so that
an overwritten record loses it too.  `mishaps` says what disturbed the requests: an
overlap, a season that could not be read (results then start at level 1, purchases
at level 0), a failing save, a request that broke off.  `FreePass` is what the pass
data of the version gives an account without the pass.  The run uses data where it
works, as in season 23; two more instances, with absent data and with that of season
32, were checked as well (1.4 and 0.8 million states).  Two assumptions: the client
is of the current version, since purchases key the season by its User-Agent
(purchasemultiplecatalogentries.go:96-100) and results by CURRENT_VERSION
(match.go:98), and other versions write other records; and a list of offers to
exchange has one for V-Bucks at most, since the code finds and saves `common_core`
once for each (fortnite_mcp_exchangegamecurrencyforbattlepassoffer.go:226-246), where the model does so once.

## 4. Runs

| run | instance | asks |
|---|---|---|
| `matchmaker_contention` | 2 players, 2 servers of one place | is a later server filled first, do the queue maps agree, is an assigned client told Queued again; is every step one of `Admission`, so that no server is overbooked |
| `matchmaker_registry` | 1 player, 2 servers, 2 buckets, lookups, fairness | do the indexes agree after any sequence of create, ready, close and lookups of ids not yet known, does an id given to a client resolve, is a picked player played, is a free place taken |
| `party_contacts` | 3 users, 3 ids, a pair that contacts both ways, joins that yield leadership or not | memberships, captains, pings and invites; every step one of `Membership` |
| `profiles_gifts` | 2 accounts, one with a Full Locker, one stranger, all kinds of offers, 2 requests | bounds and books across accounts |
| `downloads_resume` | 1 folder, 2 chunks in 2 files, 2 downloads, 1 crash, 1 removal, 1 failed write, fairness | does a resumed download skip only what is there, is what is announced written or on its way, does a download end |
| `downloads_installed` | 1 folder, 1 download | expects a violation: is a build complete when the toast says installed |
| `inventory_bar` | a weapon, a consumable that is placed like a trap, a resource, a bar of one place | is an item made or lost, do the copies agree, how can stacks and bar exceed their sizes |
| `gamephase_late` | 3 players, 4 zones, frames of up to 3 units against deadlines 1 to 4 units apart | is a step skipped, is somebody left aboard, is the matchmaker told in time, does the match go on and the process end |
| `friends_overlap` | 2 accounts, 2 requests at once, 5 ids, failures and crashes | do the records agree, is somebody a friend unasked |
| `codes_overlap` | 2 accounts, 1 code of up to 2 rewards, 2 requests at once, administrators, failures and crashes | who gets what of a code, how often is a reward granted |
| `arena_overlap` | 2 seasons, clients of either, 2 divisions, 2 requests, failures and crashes | are divisions held, do the standings agree |
| `progress_overlap` | 3 levels, 3 requests, failures and crashes | what each order of saves protects |

All but one pass; every property of a passing run has a mutant in `PROJECT.json`, a
plausible slip in one definition of the code's model, under which its run fails.
The type invariants are left to the provers, but for those of `Downloads`, `Inventory`
and `Progress`, which both check: there a slip of the code can break one.

*Bounds.*  `MaxBacklog` bounds the closures of one player that wait for the loop.
`Lookups` are the ids asked for over HTTP.  Two players and one place are what a
lost test-and-increment needs; a second server what the order of filling and the
indexes need.  Three users let a captain leave a party of two for another; an id is
used once, so `PartyIds` bounds the parties that are ever created.  `Requests` and
`Slots` bound the commands that are made, or served at once: two lose an update;
where a third may overwrite the record that was lost (`Progress`) there are three.
`Ids` leaves room for the duplicates two requests can store.  Prices, points and
levels are chosen so that one purchase is affordable and two are not always, and
that one game reaches both divisions.  `Throttle` 1 makes the wait of DownloadThread
matter with two chunks; two chunks share a file, so that threads meet on it.  In
`Inventory` a stack holds two, a pickup up to three, so that a pickup fills one stack
and starts the next; `MaxAmount` bounds what is in the world.  Larger instances that
were checked and are left out for their time: `Profiles` with three requests on two
accounts (4.1 million states), `Matchmaker` with
two players, two servers and lookups (4.6 million), `Downloads` with three downloads
and two crashes (1.3 million), `Arena` with three requests (0.2 million).
`RewardCodes` counts up to two records of the Full Locker from the webhook and one
from the code: with fewer, no account could reach more copies of a reward than there
are requests.  Webhooks and administrators serve one of its two accounts; the other
competes for the code and takes the hat (with the Full Locker for both: 6.2 million
states).

*Deadlock* is not checked where the system may stop: every player may be served or
have left, every party be ended, every request be made, nobody click.  It is checked
in `Friends` and `RewardCodes`, which can always begin a request.

*Symmetry* is used in runs without liveness only.

*Fairness.*  `Matchmaker!FairSpec`: a thread is scheduled (each `ThreadStep`, and the
return of `onConnect`), the loop runs its closures and the closing of sockets, the
game server learns its address, loads its map and sends what it has to send.  No
client and no game server is obliged to stay, to leave or to send anything else.
`PickedIsPlayed` and `RoomIsTaken` therefore have the outcome that somebody
left: the code then waits for ever on `starting`, or leaves a dead socket queued.
`Downloads!FairSpec`: the operating system runs each thread that has something to do;
no click and no crash is owed.  `GamePhase!Spec`: the net driver's TickFlush runs the
tick every frame (NetDriver.cpp:45-67) and time passes.

## 5. Proofs

For every value of the constants, from the assumptions the modules state
(finitely many players, amounts that are natural numbers, `None` outside the
sets, offers that are offers).

**`MatchmakerProofs`**: `Invariance`, `TypeCorrect`, `CapacityNeverExceeded`,
`EverySlotAccounted`, `OnlyReadyServersPlayed`, `ImplementsAdmission`,
`QueuesAgree`, `RegistryAgrees`, `SessionsResolve`, `MatchesFilledInOrder`,
`AssignmentsAreFinal`.  `CapacityRespected` alone is not inductive: it needs that
`queuedPlayers` is the number of threads that picked the server (`SlotsAccounted`),
which needs that a thread picks once (`ThreadInv`) and that a listed server exists
and its announced size does not change (`RegistryInv`, `WireInv`); `PlayAfterReady`
needs that a Play that waits in the loop was posted after ready (`PlayInv`,
`QueueInv`). Together these are `IInv`, and the rest builds on it:
`QueueMatchesMaps` and `FilledInOrder` are inductive with it; the indexes agree
because a server that owns its socket resolves and is listed once, and a ready one
owns its socket while that is open (`OwnedInv`), which is also why a session given
to a client resolves.  `AssignmentIsFinal` is an action property: a thread that
posted an assignment never waits or queues again, and no closure behind it in the
loop would show the client Queued (`AssignInv`).

**`PartyProofs`**: `TypeCorrect`, `InOneParty`, `NeverEmpty`, `AtMostOneCaptain`,
`OneNotificationEach`, `CaptainsReplaced`, `ImplementsMembership`.  The
invariant is `TypeOK`, `OneParty`, `NoEmptyParty`, `OneCaptain`; the last says
that captains are members, and that there is one at most as long as no client
yields leadership.  `CaptainsReplaced` is an action property: a party that goes
on loses its captain only when that captain enters another party or is left as a
plain member.

**`ProfilesProofs`**: `Invariance`, `TypeCorrect`, `WithinLedger`, `Exact`,
`SaleHolds`.  The two statements about the ledger are not inductive because a
write puts back what a command read some steps ago.  `IInv` adds what a request
knows: it is well formed (`JobsShaped`), its copies were within the bounds of the
ledger, which only grows (`JobsBounded`), its copies are still in the store unless
the record is contested (`JobsFresh`), and two holders make a record contested
(`SoleHolder`).  `StepKeeps` states once what a step of one request must do to
keep it; `ReadKeeps`, `FinishKeeps`, `CommonKeeps`, `AthenaKeeps` and
`SeasonKeeps` specialise it for reading, giving up and saving each record, and
each action has a lemma that applies one of them.  `Exact` is about a season only
while it could always be read: a read that fails contests it (`FindSeason`).

**`MatchProofs`**, `GamePhase`: `Invariance`, `TypeCorrect`, `NobodyLeftAboard`,
`AircraftIndexed`, `MatchmakerTold`, `NoStepSkipped`, for any lengths of the phases
and of the frames.  That nobody is aboard depends on which statics are set and which
deadlines were, so the invariant (`Sound`) says it all at once, one part for
playlists with a flight (`WithFlight`), one for those without; it is proved of each
block of the tick in turn, since the tick is their composition.  Only
`NoStepSkipped` uses `MapAssumption`.

**`MatchProofs`**, `Progress`: `ProgressInvariance`, `ProgressTypeCorrect`,
`StarsAreCovered`, `GivenFirst`, `RecordsDoAgree`, for any levels, results, offers and
exchanges.  None of the three properties is inductive, since they speak of the stored
records while a request has saved some of its three.  The invariant (`ProgressInv`)
says that until requests overlap or a call fails unnoticed at most one is at work, that
its copies are what is stored plus what it has worked out (`Copies`), and that the books
balance up to what it has still to save (`Books`): the levels, V-Bucks, pay and stars
that are out (`LevelsOut`, `MtxOut`, `PayOut`, `StarsOut`).  They balance exactly while
nothing broke off; after that what was given covers what was taken, because each of
those amounts is not negative, which is the order of the saves.  The step of a request
that reads, that saves, that is disturbed or breaks off is treated once each
(`ReadKeeps`, `StepKeeps`, `UnnoticedKeeps`, `BrokenOff`), and each action applies one.

**`MatchProofs`**, `Inventory`: `InventoryInvariance`, `InventoryTypeCorrect`,
`CopiesDoAgree`, `NothingIsLost`, `StacksAreBounded`, `SpillsAndGiftsOverflowTheBar`, for
any items, stack sizes and traits, any bar and any number of owners.  Each operator on the
state of an owner keeps it good (`Good`: typed, the copies equal, the hand at its place)
and changes the balance of stacks, ground and books by what it says (`Gains`); an action
composes these, and `Ended` carries its result into the sum over all owners.  What the
recursive functions yield is proved without an induction theorem: `CountUp`, from the
well-foundedness of the numbers, takes the set for which a fact holds and counts
through it, and `StepsExist` gives a recursion along `0 .. n` its value.  The loops then
have invariants, as in a program: `Emptying` and `Paying` say what became of the
inventory when `m` stacks, or `i` resources, are still to come, or done.  Two results
have a hypothesis on the data of the game.  `StacksAreBounded` needs that no pickup or
harvest is more than one above a stack (`SmallPickups`): the code splits a larger one in two
only (section 6).  It carries a stronger invariant, that also the ground holds nothing
larger, both up to what counts made (`Sized`, with `made` for the slack).
`SpillsAndGiftsOverflowTheBar` is an action property; it needs that an item of
the bar takes one place and may be swapped for what is in hand (`OnePlaceEach`):
otherwise GiveOrSwap gives it beyond the bar (Pickups.cpp:71).  The instance of the
run satisfies both.

**`FriendsProofs`**: `Invariance`, `TypeCorrect`, `Consent`, `UndisturbedAgree`.
Consent is not inductive: a request accepts on the ground of records it read some
steps ago, and the records of one side are supported by what the other side wrote.
The invariant says that every stored record (`Supported`), and every record a
request remembers (`Informed`), says no more than `tried` does, and that a removal
that nothing disturbed leaves nothing behind (`Undisturbed`). That the records of a
pair nothing contested agree (`RecordsAgree`) needs more: an id in a request's hands
belongs to its pair (`HeldInv`), what the request of such a pair read is still so,
and after the first of its two saves the second is all that is missing (`Midway`,
`PairInv`).

**`RewardCodesProofs`**: `Invariance`, `TypeCorrect`, `Redeemed`, `ServedOnce`,
`GrantsStayBounded`. What a redemption has found to be owned stays owned while no
record of it is deleted (`OwnedStays`); only records of the Full Locker are, and
deleting one marks the requests of the account that are past their look
(`DeleteRewardKeeps`). So what a redemption has still to save, what is owned and what
was taken make up the code, and `RedeemedIsOwned` has no other exception. A code that is not contested has one redemption at a time, which
alone has taken from it, and is gone when that redemption is done (`CodesInv`). The
bound on records is not inductive, since a request decides to save some steps before
it does: the invariant (`GrantsInv`) is that the records of a reward and the
requests about to save one never exceed the slots (`SlotsCover`), because a request
decides only while it finds none. It counts the records of codes and webhooks;
those of administrators are only looked at, and nothing bounds them.

**`ArenaProofs`**: `Invariance`, `TypeCorrect`, `DivisionsAreHeld`,
`UndisturbedAgree`. A request saves a score some steps after it created the tokens;
the invariant says that the divisions the new value reaches are held, missed or
still to be granted, in the order token before score. That undisturbed standings
agree needs what they are in the middle of a request: the scores it has brought up
to date (`Worked`) count its points already, a score reached has its token unless
the request still creates it, and what it remembers is what is stored (`Agrees`,
`StandingsInv`).

**`DownloadsProofs`**: `Invariance`, `TypeCorrect`, `ListsAreTrue`,
`NothingIsLeftOut`, for any build, any folders and any number of downloads that
overlap.  The threads share the list, the file and the counters without a lock, so
nothing can be said of what a list contains except that it is true: every list, in
memory, in a thread's hands or on disk, names only what was brought to some folder
(`ListsInv`), because a thread has all parts of its chunk behind it before it enters
it (`PartsInv`), and what was brought stays.  The counters are only numbers: neither
theorem depends on them, which is why lost updates do not matter.
`NothingIsLeftOut` assumes `OneFolder`, as its run does (with two it is false, section
6): a chunk not left in `todo` is there or has a thread (`TaskInv`), the thread a
download starts is always a new one (`RunsInv`), and a thread that ended brought its
chunk.  `Spawn` takes the first chunk of `todo`; that there is one (`SmallestExists`)
comes from the library's theorem that the natural numbers are well-founded.

**Model-checked only**: the liveness properties `PickedIsPlayed`, `RoomIsTaken`,
`DownloadEnds`, `StormComes` and `ServerEnds`, which rest on fairness and so are out of
the prover's reach.  Every invariant and action property of a passing run is a theorem,
the two of `Inventory` just named under their hypotheses, `NothingIsLeftOut` of
`Downloads` for one folder.

## 6. What the checks say about the code

What holds is stated above.  What was seen not to hold, and is why a property is
weaker than one would like:

* A thread can queue a socket that was dropped while it ran on to its next
  cancellation point; the entry stays (mm_socket.cpp:112).
* `queuedPlayers` is never decremented (mm_socket.cpp:150): a place of a player
  who left is not given again.
* A game server that closes before `ready` leaves its picked players waiting on
  `starting` (mm_socket.cpp:182).
* With leadership yielded on a join, a party can have two captains; when its
  captain enters another party, or a stranger is promoted, it can have none.
* Overlapping profile commands lose updates: only the bounds hold then, not the
  exact books.  A crash between the saves takes the price without the goods, or
  gives a receiver, or a season its levels, without the price.  A season that cannot
  be read is overwritten by a fresh one (purchasecatalogentry.go:29, 42), which takes
  earlier levels and the pass.
* Downloads.  A thread counts itself after it was started, so that the wait for the
  count may pass before it: `downloads_installed` shows the toast "Build installed!
  Check your Library." (downloads.cpp:334) with chunks missing.  `CompletedChunks`
  is never cleared: with two folders, a download to the second lists what went to
  the first, and a resumed one skips it for good; `AnnouncedOrInFlight` fails there
  (`Folders = {x, y}`, three downloads, one crash, one removal), which is why its
  run has one folder.  A lost update of `numThreads` can make a download endless
  (`DownloadEnds` has that outcome), and a torn `.rmx` ends the process that reads it.
* Inventory.  The counts of drops and removals are not compared with the stack, so
  that -1, or more than there is, makes an item (PlayerController.cpp:288-309,
  InventoryManagementLibrary.cpp:29-36).  With a full bar and nothing in hand a pickup
  vanishes (Pickups.cpp:73); a stack that spills takes the bar beyond its places (120),
  and so does what GiveItem gives (Inventory.cpp:7); a
  pickup larger than two stacks makes a stack too large (122); the pointer kept
  across the growth of the array reads freed memory (166-193).
* Game phase.  See 3.6 for playlists that skip the aircraft.
* Friends.  A request that breaks off between its two saves leaves a pair that can
  neither ask nor accept until one side deletes; a save after a delete brings the
  record back; overlapping requests store duplicates; the route that should
  remove an alias removes the friend (main.go:638).
* Codes.  Overlapping redemptions serve several accounts.  A redemption beside a
  withdrawal is answered with success although its Full Locker is gone.  An account that got part
  of a code is told it was redeemed already and never gets the rest.  An expired
  code is never deleted and blocks its name.
* Arena.  Old seasons' scores collect points and grant the current season's
  divisions; divisions passed in an earlier season are not granted in a new one; a
  token that could not be created is never made up for.
* Progress.  With the pass data that ships for season 32 the cosmetic of a level is
  not in the list of variants, and match results of accounts without the pass end
  in a nil dereference (recovered by gin): they are lost.  A season that cannot be
  read is overwritten by a fresh one.  Purchases that break off leave levels
  unpaid.  The test whether something is owned compares an id without its type and
  never refuses an exchange.

One statement the repository makes about these contradicts what the code does, the
toast of the launcher; the run `downloads_installed` shows it.  The repository has no
tests.

## 7. Not modelled

* The messaging hub is a wrapper around an XMPP client: delivery and order are the
  external server's.  The table of launcher connections serves one count for the
  metrics (main.go:412).  No player enters the backend's own matchmaking (1.2).
  OAuth, EOS and account endpoints parse, sign and format; of exchange codes, found,
  used and deleted, there is less to say than of reward codes.
* Storefront generation, content, cloud storage, discovery, administration and
  start-up are single-record or static responses without interaction.  The database
  proxy is a viewer over an external store.
* Of the profile commands: quests, lockers, banners, favourites, which set a field
  of one record; versions before 17; offers not paid in V-Bucks.
* Building, abilities, bots, loot tables and vehicles of the game server, the
  launcher's login and process start, and the redirect library drive closed
  programs or a user interface.  Vendored and generated code is taken as given.
