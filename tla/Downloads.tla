----------------------------- MODULE Downloads ------------------------------
(***************************************************************************)
(* The launcher's build downloads (ui/pages/src/downloads.cpp).  A click   *)
(* starts a DownloadThread, which reads the list of completed chunks that  *)
(* an earlier download left in .rmx and starts one detached                *)
(* DownloaderThread per missing chunk.  The threads share numThreads, i    *)
(* and CompletedChunks without a lock, and each writes the whole list to   *)
(* .rmx.  When no thread is counted any more, .rmx is removed and the      *)
(* build is announced to the page that is drawn (Draw).                    *)
(*                                                                         *)
(* An increment of a shared counter is a load and a store; push_back is a  *)
(* copy and a store (its outcomes that corrupt the heap end the process,   *)
(* which may end anywhere: Crash).  A step of a thread is one access to    *)
(* what is shared, with the load of the next one: loading early only       *)
(* widens a race.  A chunk is fetched, until its SHA-1 is right, before    *)
(* its first file is opened.  Speeds and byte counts are left out, and     *)
(* progress is counted in chunks.                                          *)
(***************************************************************************)
EXTENDS Integers, FiniteSets, Sequences

CONSTANTS
  Folders,         \* the folders a user browses to
  NoFolder,
  Files,           \* the files of the build
  NumChunks,       \* the chunks of the manifest, in the order of their hashes
  FilesOf,         \* FilesOf[c]: the files chunk c has a part of, in order
  Required,        \* files in the directories AddBuild insists on
  Executable,      \* the file AddBuild reads the version from
  Throttle,        \* half of the hardware threads, at most 4
  MaxDownloads,    \* bound: clicks
  MaxOverlap,      \* bound: threads that still run when a download is started
  MaxRemovals,     \* bound: builds removed from the library
  MaxCrashes,      \* bound: ends of the process at an arbitrary point
  MaxFailedWrites  \* bound: calls of WriteFile that fail

ASSUME BoundsAssumption ==
  /\ NumChunks \in Nat \ {0} /\ Throttle \in 0 .. 4
  /\ MaxDownloads \in Nat /\ MaxOverlap \in Nat /\ MaxRemovals \in Nat
  /\ MaxCrashes \in Nat /\ MaxFailedWrites \in Nat
ASSUME FilesAssumption ==
  /\ \A c \in 1 .. NumChunks : FilesOf[c] \in Seq(Files) /\ FilesOf[c] # <<>>
  /\ Required \subseteq Files /\ Executable \in Files
ASSUME FoldersAssumption == NoFolder \notin Folders

Chunks  == 1 .. NumChunks
Runs    == 1 .. MaxDownloads
Threads == Runs \X Chunks

VARIABLES
  rmx,      \* disk: the content of .rmx in each folder
  written,  \* disk: the parts of chunks that were written
  library,  \* r_builds, saved with every change: how each folder stands in it
  up,       \* the launcher runs
  downloading, progress, i, numThreads, CompletedChunks,
  pending,  \* r_pending_add_build_path, NoFolder when nothing is pending
  task,     \* the DownloadThread
  dest,     \* the folder of each download
  threads,  \* the DownloaderThreads of each download
  announced,\* history: the folders a toast called installed
  failed,   \* history: the parts whose WriteFile failed
  crashes, removals  \* so far

disk   == <<rmx, written, library>>
memory == <<downloading, progress, i, numThreads, CompletedChunks, pending, task, threads>>
ghosts == <<announced, failed, crashes, removals>>
vars   == <<disk, up, memory, dest, ghosts>>

\* A list of chunk hashes: its length, which is that of its JSON, and members.
List   == [n : Nat, of : SUBSET Chunks]
Nil    == [n |-> 0, of |-> {}]
Push(list, c) == [n |-> list.n + 1, of |-> list.of \union {c}]

\* A file with a list: an empty one, or one of torn JSON, does not parse.
NoFile == [ok |-> TRUE, list |-> Nil]
Parts(c)  == {FilesOf[c][k] : k \in DOMAIN FilesOf[c]}

\* Every part of the chunk was written, or its WriteFile failed.
Attempted(f, c) == \A part \in Parts(c) : <<f, c, part>> \in written \union failed

\* What a DownloaderThread does next, in the order of the code.
Steps == {"none", "born", "count", "open", "write", "push", "truncate", "save",
          "tally", "uncount", "done"}
NoThread == [pc |-> "none", k |-> 1, reg |-> 0, list |-> Nil]
Worker   == [pc : Steps, k : Nat \ {0}, reg : Int, list : List]
Idle     == [pc |-> "idle", run |-> 0, todo |-> {}]

FolderOf(t) == dest[t[1]]
FileOf(t)   == FilesOf[t[2]][threads[t].k]
Live(t)     == threads[t].pc \notin {"none", "done"}
-----------------------------------------------------------------------------
Init ==
  /\ rmx = [f \in Folders |-> NoFile]
  /\ written = {}
  /\ library = [f \in Folders |-> "absent"]
  /\ up = TRUE /\ downloading = FALSE
  /\ progress = 0 /\ i = 0 /\ numThreads = 0
  /\ CompletedChunks = Nil
  /\ pending = NoFolder
  /\ task = Idle
  /\ dest = [r \in Runs |-> NoFolder]
  /\ threads = [t \in Threads |-> NoThread]
  /\ announced = {} /\ failed = {} /\ crashes = 0 /\ removals = 0

\* The process ends, and with it every thread and every global.
End ==
  /\ up' = FALSE
  /\ downloading' = FALSE
  /\ progress' = 0 /\ i' = 0 /\ numThreads' = 0
  /\ CompletedChunks' = Nil
  /\ pending' = NoFolder
  /\ task' = Idle
  /\ threads' = [t \in Threads |-> NoThread]

Crash ==
  /\ up /\ crashes < MaxCrashes
  /\ End
  /\ crashes' = crashes + 1
  /\ UNCHANGED <<disk, dest, announced, failed, removals>>

\* AddBuild: a folder is refused while the directories of the build, created
\* with the first part of a file in them, are missing; its version is that of the executable, if there is one.
Added(f) ==
  CASE \E file \in Required : \A c \in Chunks : <<f, c, file>> \notin written -> "absent"
    [] \E c \in Chunks : <<f, c, Executable>> \in written -> "versioned"
    [] OTHER -> "added"

\* The launcher starts again: LoadBuilds adds the saved folders anew.
Restart ==
  /\ ~up
  /\ up' = TRUE
  /\ library' = [f \in Folders |-> IF library[f] = "absent" THEN "absent" ELSE Added(f)]
  /\ UNCHANGED <<rmx, written, memory, dest, ghosts>>
-----------------------------------------------------------------------------
(* The page. *)

\* The progress of the card as a frame shows it, for the builds of lib.  Only
\* the version matches: builds end in "32.11", dest_folder does not.
Shown(lib) ==
  CASE downloading -> progress
    [] ~downloading /\ \E f \in Folders : lib[f] = "versioned" -> NumChunks
    [] OTHER -> IF progress >= NumChunks THEN 0 ELSE progress

\* A frame of Draw: a pending build is added and announced.
Draw ==
  LET lib == IF pending = NoFolder \/ library[pending] # "absent" THEN library
             ELSE [library EXCEPT ![pending] = Added(pending)]
  IN /\ up
     /\ library' = lib
     /\ announced' = announced \union ({pending} \ {NoFolder})
     /\ pending' = NoFolder
     /\ progress' = Shown(lib)
     /\ UNCHANGED <<rmx, written, up, downloading, i, numThreads, CompletedChunks, task,
                    dest, threads, failed, crashes, removals>>

\* A click on a card with no bar and no badge, and a folder is chosen.
Click(r, f) ==
  /\ up /\ pending = NoFolder /\ ~downloading
  /\ Shown(library) = 0
  /\ Cardinality({t \in Threads : Live(t)}) <= MaxOverlap
  /\ dest[r] = NoFolder /\ \A s \in Runs : s < r => dest[s] # NoFolder
  /\ dest' = [dest EXCEPT ![r] = f]
  /\ downloading' = TRUE
  /\ progress' = 0
  /\ task' = [pc |-> "manifest", run |-> r, todo |-> {}]
  /\ UNCHANGED <<disk, up, i, numThreads, CompletedChunks, pending, threads, ghosts>>

\* Remove on the library page; the files stay.
RemoveBuild(f) ==
  /\ up /\ library[f] # "absent" /\ removals < MaxRemovals
  /\ library' = [library EXCEPT ![f] = "absent"]
  /\ removals' = removals + 1
  /\ UNCHANGED <<rmx, written, up, memory, dest, announced, failed, crashes>>
-----------------------------------------------------------------------------
(* DownloadThread. *)

Folder == dest[task.run]

\* Mutant of Missing: with a list there is nothing left to fetch.
MissingNothing(list) == IF list.n = 0 THEN Chunks ELSE {}

\* The chunks a list leaves to be fetched.
Missing(list) == Chunks \ list.of

\* The manifest and the list are read.  A list that does not parse throws, and
\* nothing catches it: the process ends.
ReadList ==
  /\ task.pc = "manifest"
  /\ IF rmx[Folder].ok
     THEN LET skipped == Chunks \ Missing(rmx[Folder].list)
          IN /\ i' = Cardinality(skipped)
             /\ progress' = i'
             /\ CompletedChunks' = [n |-> CompletedChunks.n + Cardinality(skipped),
                                    of |-> CompletedChunks.of \union skipped]
             /\ task' = [task EXCEPT !.pc = "spawn", !.todo = Missing(rmx[Folder].list)]
             /\ UNCHANGED <<up, downloading, numThreads, pending, threads>>
     ELSE End
  /\ UNCHANGED <<disk, dest, ghosts>>

\* Mutant of Rest: the chunk is not taken out.
RestAll(todo, c) == todo

\* The chunks left when c has its thread.
Rest(todo, c) == todo \ {c}

\* One more thread.  The count is compared as an unsigned number: below zero
\* it holds the loop up.  The thread counts itself later.
Spawn ==
  /\ task.pc = "spawn" /\ task.todo # {}
  /\ numThreads \in 0 .. Throttle
  /\ LET c == CHOOSE m \in task.todo : \A o \in task.todo : m <= o
     IN /\ threads' = [threads EXCEPT ![<<task.run, c>>].pc = "born"]
        /\ task' = [task EXCEPT !.todo = Rest(@, c)]
  /\ UNCHANGED <<disk, up, downloading, progress, i, numThreads, CompletedChunks, pending,
                 dest, ghosts>>

\* Mutant of NoneCounted: the thread waits for the count to be negative.
NoneCountedStrict == numThreads < 0

NoneCounted == numThreads <= 0

\* No thread is counted: .rmx is removed.  While a thread has it open, the
\* removal throws and the process ends.
RemoveList ==
  /\ task.pc = "spawn" /\ task.todo = {}
  /\ NoneCounted
  /\ IF \E t \in Threads : threads[t].pc = "save" /\ FolderOf(t) = Folder
     THEN End /\ UNCHANGED rmx
     ELSE /\ rmx' = [rmx EXCEPT ![Folder] = NoFile]
          /\ task' = [task EXCEPT !.pc = "announce"]
          /\ UNCHANGED <<up, downloading, progress, i, numThreads, CompletedChunks, pending, threads>>
  /\ UNCHANGED <<written, library, dest, ghosts>>

Announce ==
  /\ task.pc = "announce"
  /\ pending' = Folder
  /\ downloading' = FALSE
  /\ task' = Idle
  /\ UNCHANGED <<disk, up, progress, i, numThreads, CompletedChunks, threads, dest, ghosts>>
-----------------------------------------------------------------------------
(* DownloaderThread: one step t is one access to what the threads share. *)

Goto(t, pc) == threads' = [threads EXCEPT ![t].pc = pc]

\* numThreads++.
LoadCount(t) ==
  /\ threads[t].pc = "born"
  /\ threads' = [threads EXCEPT ![t] = [@ EXCEPT !.pc = "count", !.reg = numThreads + 1]]
  /\ UNCHANGED <<disk, up, downloading, progress, i, numThreads, CompletedChunks, pending, task,
                 dest, ghosts>>

StoreCount(t) ==
  /\ threads[t].pc = "count"
  /\ Goto(t, "open")
  /\ numThreads' = threads[t].reg
  /\ UNCHANGED <<disk, up, downloading, progress, i, CompletedChunks, pending, task, dest, ghosts>>

\* Whether the thread has its file open.
HasOpen(t) == threads[t].pc = "write"

\* The chunk is there.  The file is opened for this thread alone: the thread
\* tries again while another one has it open.
Open(t) ==
  /\ threads[t].pc = "open"
  /\ \A s \in Threads \ {t} : HasOpen(s) =>
        <<FolderOf(s), FileOf(s)>> # <<FolderOf(t), FileOf(t)>>
  /\ Goto(t, "write")
  /\ UNCHANGED <<disk, up, downloading, progress, i, numThreads, CompletedChunks, pending, task,
                 dest, ghosts>>

\* Mutant of Finished: the last file of a chunk is left out.
FinishedEarly(c, k) == k + 1 >= Len(FilesOf[c])

\* Whether k was the last file of chunk c.
Finished(c, k) == k = Len(FilesOf[c])

\* The part is written and the file closed; then the next file, or
\* CompletedChunks is loaded.  The result of WriteFile is not looked at.
Write(t) ==
  LET part == <<FolderOf(t), t[2], FileOf(t)>>
  IN /\ threads[t].pc = "write"
     /\ \/ written' = written \union {part} /\ UNCHANGED failed
        \/ /\ Cardinality(failed) < MaxFailedWrites
           /\ failed' = failed \union {part}
           /\ UNCHANGED written
     /\ threads' = IF Finished(t[2], threads[t].k)
                   THEN [threads EXCEPT ![t] =
                           [@ EXCEPT !.pc = "push", !.list = Push(CompletedChunks, t[2])]]
                   ELSE [threads EXCEPT ![t] = [@ EXCEPT !.pc = "open", !.k = threads[t].k + 1]]
     /\ UNCHANGED <<rmx, library, up, downloading, progress, i, numThreads, CompletedChunks,
                    pending, task, dest, announced, crashes, removals>>

\* CompletedChunks.push_back and the dump: what another thread pushed since the
\* load is lost.
PushBack(t) ==
  /\ threads[t].pc = "push"
  /\ Goto(t, "truncate")
  /\ CompletedChunks' = threads[t].list
  /\ UNCHANGED <<disk, up, downloading, progress, i, numThreads, pending, task, dest, ghosts>>

\* The ofstream empties the file ...
Truncate(t) ==
  /\ threads[t].pc = "truncate"
  /\ Goto(t, "save")
  /\ rmx' = [rmx EXCEPT ![FolderOf(t)] = [ok |-> FALSE, list |-> Nil]]
  /\ UNCHANGED <<written, library, up, downloading, progress, i, numThreads,
                 CompletedChunks, pending, task, dest, ghosts>>

\* ... and writes from its start.  Over a longer list of another thread, that
\* opened the file at the same time, the tail of the longer one stays.
Over(old, list) ==
  IF list.n >= old.list.n THEN [ok |-> TRUE, list |-> list]
  ELSE [ok |-> FALSE, list |-> old.list]

Save(t) ==
  /\ threads[t].pc = "save"
  /\ threads' = [threads EXCEPT ![t] = [@ EXCEPT !.pc = "tally", !.reg = i + 1, !.list = Nil]]
  /\ rmx' = [rmx EXCEPT ![FolderOf(t)] = Over(@, threads[t].list)]
  /\ UNCHANGED <<written, library, up, downloading, progress, i, numThreads,
                 CompletedChunks, pending, task, dest, ghosts>>

\* i++ and the progress of the card.
Tally(t) ==
  /\ threads[t].pc = "tally"
  /\ threads' = [threads EXCEPT ![t] = [@ EXCEPT !.pc = "uncount", !.reg = numThreads - 1]]
  /\ i' = threads[t].reg
  /\ progress' = i'
  /\ UNCHANGED <<disk, up, downloading, numThreads, CompletedChunks, pending, task, dest, ghosts>>

\* numThreads--.
Uncount(t) ==
  /\ threads[t].pc = "uncount"
  /\ threads' = [threads EXCEPT ![t] = [NoThread EXCEPT !.pc = "done"]]
  /\ numThreads' = threads[t].reg
  /\ UNCHANGED <<disk, up, downloading, progress, i, CompletedChunks, pending, task, dest, ghosts>>

Thread(t) ==
  \/ LoadCount(t) \/ StoreCount(t) \/ Open(t) \/ Write(t)
  \/ PushBack(t) \/ Truncate(t) \/ Save(t) \/ Tally(t) \/ Uncount(t)

Download == ReadList \/ Spawn \/ RemoveList \/ Announce

Next ==
  \/ Crash \/ Restart \/ Draw
  \/ \E r \in Runs, f \in Folders : Click(r, f)
  \/ \E f \in Folders : RemoveBuild(f)
  \/ Download
  \/ \E t \in Threads : Thread(t)

Spec == Init /\ [][Next]_vars

\* The operating system runs every thread that has something to do.
Fairness == WF_vars(Download) /\ \A t \in Threads : WF_vars(Thread(t))

FairSpec == Spec /\ Fairness
-----------------------------------------------------------------------------
TypeOK ==
  /\ rmx \in [Folders -> [ok : BOOLEAN, list : List]]
  /\ written \subseteq Folders \X Chunks \X Files
  /\ failed \subseteq Folders \X Chunks \X Files
  /\ library \in [Folders -> {"absent", "added", "versioned"}]
  /\ up \in BOOLEAN /\ downloading \in BOOLEAN
  /\ progress \in Nat /\ i \in Nat /\ numThreads \in Int
  /\ CompletedChunks \in List
  /\ pending \in Folders \union {NoFolder}
  /\ task \in [pc : {"idle", "manifest", "spawn", "announce"}, run : Runs \union {0},
               todo : SUBSET Chunks]
  /\ \A c \in task.todo : task.run # 0 /\ threads[<<task.run, c>>].pc = "none"
  /\ dest \in [Runs -> Folders \union {NoFolder}]
  /\ threads \in [Threads -> Worker]
  /\ announced \subseteq Folders
  /\ crashes \in 0 .. MaxCrashes /\ removals \in 0 .. MaxRemovals

\* Whatever the threads do to .rmx and CompletedChunks at the same time, and
\* wherever the process ends, a chunk listed in a .rmx was written, each part,
\* to a folder of this launcher: with one folder, a resumed download skips only
\* what is there.  The calls of WriteFile that failed are the exception.
ListedWasWritten ==
  \A f \in Folders : \A c \in rmx[f].list.of : \E g \in Folders : Attempted(g, c)

\* A download that is announced leaves no chunk out: what is not in its folder
\* yet, a thread that runs will bring.  It holds for a user with one folder: a
\* .rmx lists what this process completed elsewhere, too, and a resumed download
\* then skips what its folder does not have.
AnnouncedOrInFlight ==
  [][Announce => \A c \in Chunks : Attempted(Folder, c)
       \/ \E r \in Runs : Live(<<r, c>>) /\ dest[r] = Folder]_vars

\* Unless an update of numThreads was lost, every download ends.
Counted(t) == threads[t].pc \notin {"none", "born", "count", "done"}
CountExact == numThreads = Cardinality({t \in Threads : Counted(t)})
DownloadEnds == []CountExact => (downloading ~> ~downloading)

\* The inductive invariant behind these: what a list holds in the threads, in
\* memory and on disk was brought, to some folder; ...
Brought(list) == \A c \in list.of : \E g \in Folders : Attempted(g, c)
ListsInv ==
  /\ Brought(CompletedChunks)
  /\ \A f \in Folders : Brought(rmx[f].list)
  /\ \A t \in Threads : Brought(threads[t].list)

\* ... a thread has its parts behind it, and those up to its last before it
\* enters its chunk in the list; ...
Behind(t, w) ==
  /\ w.k \in DOMAIN FilesOf[t[2]]
  /\ w.pc \in {"none", "born", "count"} => w.k = 1
  /\ \A j \in 1 .. w.k - 1 :
       <<FolderOf(t), t[2], FilesOf[t[2]][j]>> \in written \union failed
  /\ w.pc \in {"push", "truncate", "save", "tally", "uncount", "done"} =>
       Attempted(FolderOf(t), t[2])
  /\ w.pc = "tally" => w.reg \in Nat
PartsInv == \A t \in Threads : Behind(t, threads[t])

\* ... and a download has a folder before it has threads, of which none is
\* there before the list is read, and one for every chunk taken from todo.
RunsInv ==
  /\ \A t \in Threads : threads[t].pc # "none" => FolderOf(t) \in Folders
  /\ task.pc # "idle" => task.run \in Runs /\ Folder \in Folders
  /\ task.pc = "manifest" => \A c \in Chunks : threads[<<task.run, c>>].pc = "none"
  /\ task.pc = "announce" => task.todo = {}

\* The chunks that are not left to a thread of the task are there.
OneFolder == \A f \in Folders, g \in Folders : f = g
TaskInv ==
  OneFolder /\ task.pc \in {"spawn", "announce"} =>
    \A c \in Chunks \ task.todo :
      threads[<<task.run, c>>].pc # "none" \/ Attempted(Folder, c)

IInv == TypeOK /\ ListsInv /\ PartsInv /\ RunsInv /\ TaskInv

\* What the toast of downloads.cpp:334 says: the build is installed.
InstalledIsWhole == \A f \in announced : \A c \in Chunks : Attempted(f, c)
=============================================================================
