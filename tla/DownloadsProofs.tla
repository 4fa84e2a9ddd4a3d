-------------------------- MODULE DownloadsProofs ---------------------------
(***************************************************************************)
(* Theorems about the downloads of the launcher, for any build and folders *)
(* and any number of downloads, threads, crashes and failed writes.        *)
(***************************************************************************)
EXTENDS Downloads, FiniteSetTheorems, WellFoundedInduction, TLAPS

(* A part that was attempted stays so: nothing deletes a part.             *)
LEMMA AttemptedStays ==
  ASSUME written \subseteq written', failed \subseteq failed',
         NEW f, NEW c, Attempted(f, c)
  PROVE  Attempted(f, c)'
PROOF
  BY DEF Attempted

LEMMA BroughtStays ==
  ASSUME written \subseteq written', failed \subseteq failed',
         NEW list, Brought(list)
  PROVE  Brought(list)'
PROOF
  BY AttemptedStays DEF Brought

(* What a thread has behind it stays, as its download keeps its folder.    *)
LEMMA BehindStays ==
  ASSUME written \subseteq written', failed \subseteq failed', NEW t \in Threads, NEW w \in Worker,
         FolderOf(t)' = FolderOf(t), Behind(t, w)
  PROVE  Behind(t, w)'
PROOF
<1>1. w.pc \in {"push", "truncate", "save", "tally", "uncount", "done"} =>
        Attempted(FolderOf(t), t[2])'
  BY AttemptedStays DEF Behind, Attempted
<1>. QED  BY <1>1 DEF Behind, Attempted

LEMMA NothingBrought == Brought(Nil)
PROOF
  BY DEF Brought, Nil

LEMMA ThreadTyped == NoThread \in Worker /\ NoFile \in [ok : BOOLEAN, list : List] /\ Nil \in List
PROOF
  BY DEF NoThread, Worker, Steps, NoFile, Nil, List

LEMMA NewThread == ASSUME NEW t \in Threads PROVE Behind(t, NoThread)
PROOF
<1>1. t[2] \in Chunks
  BY DEF Threads
<1>2. 1 \in DOMAIN FilesOf[t[2]]
  BY <1>1, FilesAssumption DEF Chunks
<1>. QED  BY <1>2 DEF Behind, NoThread

(* The process ends: the disk keeps what it has.                           *)
LEMMA EndKeeps ==
  ASSUME IInv, End, dest' = dest, written' = written, failed' = failed,
         library' = library, announced' = announced, removals' = removals, rmx' = rmx,
         crashes' \in 0 .. MaxCrashes
  PROVE  IInv'
PROOF
<1>t. TypeOK
  BY DEF IInv
<1>1. TypeOK'
  <2>1. threads' \in [Threads -> Worker]
    BY ThreadTyped DEF End
  <2>2. task' \in [pc : {"idle", "manifest", "spawn", "announce"}, run : Runs \union {0},
                   todo : SUBSET Chunks] /\ task'.todo = {}
    BY DEF End, Idle
  <2>3. CompletedChunks' \in List
    BY ThreadTyped DEF End
  <2>4. /\ progress' \in Nat /\ i' \in Nat /\ numThreads' \in Int
        /\ pending' \in Folders \union {NoFolder}
    BY DEF End
  <2>7. up' \in BOOLEAN /\ downloading' \in BOOLEAN
    BY Zenon DEF End
  <2>5. \A c \in task'.todo : task'.run # 0 /\ threads'[<<task'.run, c>>].pc = "none"
    BY <2>2
  <2>6. /\ rmx' \in [Folders -> [ok : BOOLEAN, list : List]]
        /\ written' \subseteq Folders \X Chunks \X Files
        /\ failed' \subseteq Folders \X Chunks \X Files
        /\ library' \in [Folders -> {"absent", "added", "versioned"}]
        /\ dest' \in [Runs -> Folders \union {NoFolder}]
        /\ announced' \subseteq Folders
        /\ crashes' \in 0 .. MaxCrashes /\ removals' \in 0 .. MaxRemovals
    BY <1>t DEF TypeOK
  <2>. QED  BY ONLY <2>1, <2>2, <2>3, <2>4, <2>5, <2>6, <2>7 DEF TypeOK
<1>2. \A t \in Threads : threads'[t] = NoThread
  BY DEF End
<1>3. ListsInv'
  <2>1. \A list : Brought(list) => Brought(list)'
    BY BroughtStays
  <2>2. NoThread.list = Nil
    BY DEF NoThread
  <2>. QED  BY <1>2, <2>1, <2>2, NothingBrought DEF IInv, ListsInv, End
<1>4. PartsInv'
  <2>1. \A t \in Threads : Behind(t, NoThread)'
    BY NewThread, FilesAssumption DEF Behind, NoThread, Threads, Chunks
  <2>. QED  BY <1>2, <2>1 DEF PartsInv
<1>5. RunsInv' /\ TaskInv'
  BY <1>2 DEF RunsInv, TaskInv, End, Idle, NoThread
<1>. QED  BY <1>1, <1>3, <1>4, <1>5 DEF IInv

(* What a thread leaves alone.                                             *)
Others == <<library, up, downloading, pending, task, dest, announced, crashes, removals>>

(* A step of a thread: the thread's own part of the invariant carries it.  *)
LEMMA ThreadKeeps ==
  ASSUME IInv, NEW t \in Threads, NEW w \in Worker, threads' = [threads EXCEPT ![t] = w],
         threads[t].pc # "none", w.pc # "none", UNCHANGED Others,
         rmx' \in [Folders -> [ok : BOOLEAN, list : List]], CompletedChunks' \in List,
         progress' \in Nat, i' \in Nat, numThreads' \in Int,
         written \subseteq written', written' \subseteq Folders \X Chunks \X Files,
         failed \subseteq failed', failed' \subseteq Folders \X Chunks \X Files,
         \A f \in Folders : Brought(rmx[f].list)', Brought(CompletedChunks)',
         Brought(w.list)', Behind(t, w)'
  PROVE  IInv'
PROOF
<1>t. TypeOK /\ ListsInv /\ PartsInv /\ RunsInv /\ TaskInv
  BY DEF IInv
<1>u. /\ library' = library /\ up' = up /\ downloading' = downloading /\ pending' = pending
      /\ task' = task /\ dest' = dest /\ announced' = announced
      /\ crashes' = crashes /\ removals' = removals
  BY Zenon DEF Others
<1>1. \A s \in Threads : threads'[s] = IF s = t THEN w ELSE threads[s]
  BY <1>t DEF TypeOK
<1>o. TypeOK'
  <2>1. threads' \in [Threads -> Worker]
    BY <1>t DEF TypeOK
  <2>2. \A c \in task'.todo : task'.run # 0 /\ threads'[<<task'.run, c>>].pc = "none"
    <3>1. ASSUME NEW c \in task.todo PROVE task.run # 0 /\ threads'[<<task.run, c>>].pc = "none"
      <4>1. task.run \in Runs /\ c \in Chunks /\ threads[<<task.run, c>>].pc = "none"
        BY <1>t DEF TypeOK
      <4>2. <<task.run, c>> \in Threads
        BY <4>1 DEF Threads
      <4>. QED  BY <1>t, <1>1, <4>1, <4>2 DEF TypeOK
    <3>. QED  BY <1>u, <3>1
  <2>3. up' \in BOOLEAN /\ downloading' \in BOOLEAN
    BY <1>t, <1>u, Zenon DEF TypeOK
  <2>. QED  BY <1>t, <1>u, <2>1, <2>2, <2>3 DEF TypeOK
<1>2. ASSUME NEW s \in Threads PROVE Brought(threads[s].list)' /\ Behind(s, threads[s])'
  <2>1. CASE s = t
    BY <1>1, <2>1 DEF Brought, Behind
  <2>2. CASE s # t
    <3>1. PICK v : v = threads[s]
      OBVIOUS
    <3>2. v \in Worker /\ threads'[s] = v /\ Brought(v.list) /\ Behind(s, v)
      BY <1>t, <1>1, <2>2, <3>1 DEF TypeOK, ListsInv, PartsInv
    <3>3. Brought(v.list)' /\ Behind(s, v)'
      BY <1>u, <3>2, BroughtStays, BehindStays DEF FolderOf
    <3>. QED  BY <3>2, <3>3 DEF Brought, Behind
  <2>. QED  BY <2>1, <2>2
<1>3. ListsInv' /\ PartsInv'
  BY <1>2 DEF ListsInv, PartsInv
<1>4. RunsInv'
  <2>1. \A s \in Threads : threads'[s].pc # "none" => threads[s].pc # "none"
    BY <1>1
  <2>2. \A s \in Threads : FolderOf(s)' = FolderOf(s)
    BY <1>u DEF FolderOf
  <2>3. task.pc = "manifest" => \A c \in Chunks : <<task.run, c>> \in Threads /\ <<task.run, c>> # t
    BY <1>t DEF RunsInv, Threads
  <2>. QED  BY <1>t, <1>u, <1>1, <2>1, <2>2, <2>3 DEF RunsInv, Folder
<1>5. TaskInv'
  <2>1. SUFFICES ASSUME OneFolder, task.pc \in {"spawn", "announce"}, NEW c \in Chunks \ task.todo
                 PROVE  threads'[<<task.run, c>>].pc # "none" \/ Attempted(Folder, c)'
    BY <1>u DEF TaskInv, OneFolder
  <2>2. <<task.run, c>> \in Threads
    BY <1>t, <2>1 DEF RunsInv, Threads
  <2>3. CASE Attempted(Folder, c)
    BY <1>u, <2>3 DEF Attempted, Folder
  <2>4. CASE threads[<<task.run, c>>].pc # "none"
    BY <1>1, <2>2, <2>4
  <2>. QED  BY <1>t, <2>1, <2>3, <2>4 DEF TaskInv
<1>. QED  BY <1>o, <1>3, <1>4, <1>5 DEF IInv


(* What the invariant says of one thread.                                  *)
LEMMA OneThread ==
  ASSUME IInv, NEW t \in Threads
  PROVE  threads[t] \in Worker /\ Behind(t, threads[t]) /\ Brought(threads[t].list)
PROOF
  BY DEF IInv, TypeOK, PartsInv, ListsInv

(* A step that opens, counts or tallies: neither lists nor parts change.   *)
LEMMA PlainStep ==
  ASSUME IInv, NEW t \in Threads, NEW w \in Worker, threads' = [threads EXCEPT ![t] = w],
         threads[t].pc # "none", w.pc # "none", UNCHANGED Others,
         UNCHANGED <<rmx, written, failed, CompletedChunks>>,
         progress' \in Nat, i' \in Nat, numThreads' \in Int,
         Brought(w.list), Behind(t, w)
  PROVE  IInv'
PROOF
<1>1. TypeOK /\ ListsInv
  BY DEF IInv
<1>2. rmx' = rmx /\ written' = written /\ failed' = failed /\ CompletedChunks' = CompletedChunks
      /\ dest' = dest
  BY Zenon DEF Others
<1>3. /\ \A f \in Folders : Brought(rmx[f].list)'
      /\ Brought(CompletedChunks)' /\ Brought(w.list)'
  BY <1>1, <1>2 DEF ListsInv, Brought, Attempted
<1>4. Behind(t, w)'
  BY <1>2 DEF Behind, FolderOf, Attempted
<1>5. /\ rmx' \in [Folders -> [ok : BOOLEAN, list : List]] /\ CompletedChunks' \in List
      /\ written \subseteq written' /\ written' \subseteq Folders \X Chunks \X Files
      /\ failed \subseteq failed' /\ failed' \subseteq Folders \X Chunks \X Files
  BY <1>1, <1>2 DEF TypeOK
<1>. QED  BY ONLY IInv, t \in Threads, w \in Worker, threads' = [threads EXCEPT ![t] = w],
              threads[t].pc # "none", w.pc # "none", UNCHANGED Others,
              progress' \in Nat, i' \in Nat, numThreads' \in Int,
              <1>3, <1>4, <1>5, ThreadKeeps

LEMMA LoadCountKeeps == ASSUME IInv, NEW t \in Threads, LoadCount(t) PROVE IInv'
PROOF
<1>t. TypeOK
  BY DEF IInv
<1>1. PICK v : v = threads[t]
  OBVIOUS
<1>2. v \in Worker /\ Behind(t, v) /\ Brought(v.list) /\ v.pc = "born"
  BY <1>1, OneThread DEF LoadCount
<1>n. PICK n \in Int : n = numThreads + 1
  BY <1>t DEF TypeOK
<1>3. PICK w : w = [v EXCEPT !.pc = "count", !.reg = n]
  OBVIOUS
<1>4. w \in Worker /\ w.pc = "count" /\ w.list = v.list /\ w.k = v.k
  BY <1>2, <1>3 DEF Worker, Steps
<1>5. threads' = [threads EXCEPT ![t] = w]
  BY <1>t, <1>1, <1>n, <1>3 DEF LoadCount, TypeOK
<1>6. Behind(t, w) /\ Brought(w.list)
  BY <1>2, <1>4 DEF Behind
<1>7. UNCHANGED Others /\ UNCHANGED <<rmx, written, failed, CompletedChunks>>
  BY Zenon DEF LoadCount, Others, disk, ghosts
<1>8. progress' \in Nat /\ i' \in Nat /\ numThreads' \in Int
  BY <1>t DEF LoadCount, TypeOK
<1>. QED  BY <1>1, <1>2, <1>4, <1>5, <1>6, <1>7, <1>8, PlainStep

LEMMA StoreCountKeeps == ASSUME IInv, NEW t \in Threads, StoreCount(t) PROVE IInv'
PROOF
<1>t. TypeOK
  BY DEF IInv
<1>1. PICK v : v = threads[t]
  OBVIOUS
<1>2. v \in Worker /\ Behind(t, v) /\ Brought(v.list) /\ v.pc = "count"
  BY <1>1, OneThread DEF StoreCount
<1>3. PICK w : w = [v EXCEPT !.pc = "open"]
  OBVIOUS
<1>4. w \in Worker /\ w.pc = "open" /\ w.list = v.list /\ w.k = v.k
  BY <1>t, <1>2, <1>3 DEF Worker, Steps, TypeOK
<1>5. threads' = [threads EXCEPT ![t] = w]
  BY <1>t, <1>1, <1>3 DEF StoreCount, Goto, TypeOK
<1>6. Behind(t, w) /\ Brought(w.list)
  BY <1>2, <1>4 DEF Behind
<1>7. UNCHANGED Others /\ UNCHANGED <<rmx, written, failed, CompletedChunks>>
  BY Zenon DEF StoreCount, Others, disk, ghosts
<1>8. progress' \in Nat /\ i' \in Nat /\ numThreads' \in Int
  BY <1>t, <1>1, <1>2 DEF StoreCount, TypeOK, Worker
<1>. QED  BY <1>1, <1>2, <1>4, <1>5, <1>6, <1>7, <1>8, PlainStep

LEMMA OpenKeeps == ASSUME IInv, NEW t \in Threads, Open(t) PROVE IInv'
PROOF
<1>t. TypeOK
  BY DEF IInv
<1>1. PICK v : v = threads[t]
  OBVIOUS
<1>2. v \in Worker /\ Behind(t, v) /\ Brought(v.list) /\ v.pc = "open"
  BY <1>1, OneThread DEF Open
<1>3. PICK w : w = [v EXCEPT !.pc = "write"]
  OBVIOUS
<1>4. w \in Worker /\ w.pc = "write" /\ w.list = v.list /\ w.k = v.k
  BY <1>t, <1>2, <1>3 DEF Worker, Steps, TypeOK
<1>5. threads' = [threads EXCEPT ![t] = w]
  BY <1>t, <1>1, <1>3 DEF Open, Goto, TypeOK
<1>6. Behind(t, w) /\ Brought(w.list)
  BY <1>2, <1>4 DEF Behind
<1>7. UNCHANGED Others /\ UNCHANGED <<rmx, written, failed, CompletedChunks>>
  BY Zenon DEF Open, Others, disk, ghosts
<1>8. progress' \in Nat /\ i' \in Nat /\ numThreads' \in Int
  BY <1>t DEF Open, TypeOK
<1>. QED  BY <1>1, <1>2, <1>4, <1>5, <1>6, <1>7, <1>8, PlainStep

LEMMA TallyKeeps == ASSUME IInv, NEW t \in Threads, Tally(t) PROVE IInv'
PROOF
<1>t. TypeOK
  BY DEF IInv
<1>1. PICK v : v = threads[t]
  OBVIOUS
<1>2. v \in Worker /\ Behind(t, v) /\ Brought(v.list) /\ v.pc = "tally"
  BY <1>1, OneThread DEF Tally
<1>n. PICK n \in Int : n = numThreads - 1
  BY <1>t DEF TypeOK
<1>3. PICK w : w = [v EXCEPT !.pc = "uncount", !.reg = n]
  OBVIOUS
<1>4. w \in Worker /\ w.pc = "uncount" /\ w.list = v.list /\ w.k = v.k
  BY <1>2, <1>3 DEF Worker, Steps
<1>5. threads' = [threads EXCEPT ![t] = w]
  BY <1>t, <1>1, <1>n, <1>3 DEF Tally, TypeOK
<1>6. Behind(t, w) /\ Brought(w.list)
  BY <1>2, <1>4 DEF Behind
<1>7. UNCHANGED Others /\ UNCHANGED <<rmx, written, failed, CompletedChunks>>
  BY Zenon DEF Tally, Others, disk, ghosts
<1>8. progress' \in Nat /\ i' \in Nat /\ numThreads' \in Int
  BY <1>t, <1>1, <1>2 DEF Tally, TypeOK, Behind
<1>. QED  BY <1>1, <1>2, <1>4, <1>5, <1>6, <1>7, <1>8, PlainStep

LEMMA UncountKeeps == ASSUME IInv, NEW t \in Threads, Uncount(t) PROVE IInv'
PROOF
<1>t. TypeOK
  BY DEF IInv
<1>1. PICK v : v = threads[t]
  OBVIOUS
<1>2. v \in Worker /\ Behind(t, v) /\ Brought(v.list) /\ v.pc = "uncount"
  BY <1>1, OneThread DEF Uncount
<1>3. PICK w : w = [NoThread EXCEPT !.pc = "done"]
  OBVIOUS
<1>4. w \in Worker /\ w.pc = "done" /\ w.list = Nil /\ w.k = 1
  BY <1>3, ThreadTyped DEF Worker, Steps, NoThread
<1>5. threads' = [threads EXCEPT ![t] = w]
  BY <1>3 DEF Uncount
<1>6. Behind(t, w) /\ Brought(w.list)
  BY <1>2, <1>4, NewThread, NothingBrought DEF Behind, NoThread
<1>7. UNCHANGED Others /\ UNCHANGED <<rmx, written, failed, CompletedChunks>>
  BY Zenon DEF Uncount, Others, disk, ghosts
<1>8. progress' \in Nat /\ i' \in Nat /\ numThreads' \in Int
  BY <1>t, <1>1, <1>2 DEF Uncount, TypeOK, Worker
<1>. QED  BY <1>1, <1>2, <1>4, <1>5, <1>6, <1>7, <1>8, PlainStep


(* The part a thread has open is one of the build, in a folder of a user.  *)
LEMMA PartTyped ==
  ASSUME IInv, NEW t \in Threads, threads[t].pc # "none"
  PROVE  <<FolderOf(t), t[2], FileOf(t)>> \in Folders \X Chunks \X Files
PROOF
<1>1. t[2] \in Chunks
  BY DEF Threads
<1>2. FilesOf[t[2]] \in Seq(Files)
  BY <1>1, FilesAssumption DEF Chunks
<1>3. threads[t].k \in DOMAIN FilesOf[t[2]]
  BY OneThread DEF Behind
<1>4. FileOf(t) \in Files
  BY <1>2, <1>3 DEF FileOf
<1>5. FolderOf(t) \in Folders
  BY DEF IInv, RunsInv
<1>. QED  BY <1>1, <1>4, <1>5

(* A part that is behind the thread together with those before it.         *)
LEMMA PartDone ==
  ASSUME IInv, NEW t \in Threads, NEW v \in Worker, v = threads[t], v.pc = "write",
         written \subseteq written', failed \subseteq failed', dest' = dest,
         <<FolderOf(t), t[2], FileOf(t)>> \in written' \union failed'
  PROVE  /\ \A j \in 1 .. v.k : <<FolderOf(t), t[2], FilesOf[t[2]][j]>> \in written' \union failed'
         /\ Finished(t[2], v.k) => Attempted(FolderOf(t), t[2])'
         /\ v.k \in 1 .. Len(FilesOf[t[2]])
PROOF
<1>1. t[2] \in Chunks
  BY DEF Threads
<1>2. FilesOf[t[2]] \in Seq(Files)
  BY <1>1, FilesAssumption DEF Chunks
<1>3. Behind(t, v)
  BY OneThread
<1>4. v.k \in 1 .. Len(FilesOf[t[2]])
  BY <1>2, <1>3 DEF Behind
<1>5. ASSUME NEW j \in 1 .. v.k
      PROVE  <<FolderOf(t), t[2], FilesOf[t[2]][j]>> \in written' \union failed'
  <2>1. CASE j = v.k
    BY <2>1 DEF FileOf
  <2>2. CASE j # v.k
    <3>1. j \in 1 .. v.k - 1
      BY <1>4, <2>2
    <3>. QED  BY <1>3, <3>1 DEF Behind
  <2>. QED  BY <2>1, <2>2
<1>6. ASSUME Finished(t[2], v.k) PROVE Attempted(FolderOf(t), t[2])'
  <2>1. v.k = Len(FilesOf[t[2]]) /\ DOMAIN FilesOf[t[2]] = 1 .. v.k
    BY <1>2, <1>6 DEF Finished
  <2>2. \A part \in Parts(t[2]) : <<FolderOf(t), t[2], part>> \in written' \union failed'
    BY <1>5, <2>1 DEF Parts
  <2>. QED  BY <2>2 DEF Attempted, FolderOf
<1>. QED  BY <1>4, <1>5, <1>6

LEMMA WriteKeeps == ASSUME IInv, NEW t \in Threads, Write(t) PROVE IInv'
PROOF
<1>t. TypeOK /\ ListsInv
  BY DEF IInv
<1>1. PICK v : v = threads[t]
  OBVIOUS
<1>2. v \in Worker /\ Behind(t, v) /\ Brought(v.list) /\ v.pc = "write"
  BY <1>1, OneThread DEF Write
<1>u. /\ rmx' = rmx /\ CompletedChunks' = CompletedChunks /\ dest' = dest
      /\ progress' = progress /\ i' = i /\ numThreads' = numThreads
  BY Zenon DEF Write
<1>o. UNCHANGED Others
  BY Zenon DEF Write, Others
<1>3. PICK part : part = <<FolderOf(t), t[2], FileOf(t)>>
  OBVIOUS
<1>4. part \in Folders \X Chunks \X Files
  BY <1>1, <1>2, <1>3, PartTyped
<1>5. \/ written' = written \union {part} /\ failed' = failed
      \/ failed' = failed \union {part} /\ written' = written
  BY <1>3 DEF Write
<1>6. /\ written \subseteq written' /\ written' \subseteq Folders \X Chunks \X Files
      /\ failed \subseteq failed' /\ failed' \subseteq Folders \X Chunks \X Files
      /\ part \in written' \union failed'
  BY <1>t, <1>4, <1>5 DEF TypeOK
<1>7. /\ \A j \in 1 .. v.k : <<FolderOf(t), t[2], FilesOf[t[2]][j]>> \in written' \union failed'
      /\ Finished(t[2], v.k) => Attempted(FolderOf(t), t[2])'
      /\ v.k \in 1 .. Len(FilesOf[t[2]])
  BY <1>1, <1>2, <1>u, <1>3, <1>6, PartDone
<1>8. \A list : Brought(list) => Brought(list)'
  BY <1>6, BroughtStays
<1>9. \A f \in Folders : Brought(rmx[f].list)'
  <2>1. SUFFICES ASSUME NEW f \in Folders PROVE Brought(rmx[f].list)'
    OBVIOUS
  <2>2. PICK list : list = rmx[f].list
    OBVIOUS
  <2>3. Brought(list)'
    BY <1>t, <1>8, <2>2 DEF ListsInv
  <2>. QED  BY <1>u, <2>2, <2>3 DEF Brought
<1>10. Brought(CompletedChunks)'
  <2>2. PICK list : list = CompletedChunks
    OBVIOUS
  <2>3. Brought(list)'
    BY <1>t, <1>8, <2>2 DEF ListsInv
  <2>. QED  BY <1>u, <2>2, <2>3 DEF Brought
<1>11. \A w \in Worker : threads' = [threads EXCEPT ![t] = w] /\ w.pc # "none"
                           /\ Brought(w.list)' /\ Behind(t, w)' => IInv'
  BY <1>t, <1>1, <1>2, <1>u, <1>o, <1>6, <1>9, <1>10, ThreadKeeps DEF TypeOK
<1>12. t[2] \in Chunks /\ FolderOf(t) \in Folders /\ FolderOf(t)' = FolderOf(t)
  BY <1>1, <1>2, <1>u DEF Threads, IInv, RunsInv, FolderOf
<1>13. CASE Finished(t[2], v.k)
  <2>1. PICK list : list = Push(CompletedChunks, t[2])
    OBVIOUS
  <2>2. list \in List /\ list.of = CompletedChunks.of \union {t[2]}
    BY <1>t, <1>12, <2>1 DEF Push, List, TypeOK
  <2>3. Brought(list)'
    BY <1>7, <1>10, <1>12, <1>13, <1>u, <2>2 DEF Brought
  <2>4. PICK w : w = [v EXCEPT !.pc = "push", !.list = list]
    OBVIOUS
  <2>5. w \in Worker /\ w.pc = "push" /\ w.k = v.k /\ w.list = list
    BY <1>2, <2>2, <2>4 DEF Worker, Steps
  <2>6. threads' = [threads EXCEPT ![t] = w]
    BY <1>t, <1>1, <1>13, <2>1, <2>4 DEF Write, TypeOK
  <2>7. Behind(t, w)'
    BY <1>2, <1>7, <1>12, <1>13, <2>5 DEF Behind
  <2>. QED  BY <1>11, <2>3, <2>5, <2>6, <2>7
<1>14. CASE ~Finished(t[2], v.k)
  <2>1. PICK n : n = v.k + 1
    OBVIOUS
  <2>2. n \in Nat \ {0} /\ n \in DOMAIN FilesOf[t[2]] /\ 1 .. n - 1 = 1 .. v.k
    <3>1. FilesOf[t[2]] \in Seq(Files)
      BY <1>12, FilesAssumption DEF Chunks
    <3>. QED  BY <1>2, <1>7, <1>14, <2>1, <3>1 DEF Finished, Worker
  <2>4. PICK w : w = [v EXCEPT !.pc = "open", !.k = n]
    OBVIOUS
  <2>5. w \in Worker /\ w.pc = "open" /\ w.k = n /\ w.list = v.list
    BY <1>2, <2>2, <2>4 DEF Worker, Steps
  <2>6. threads' = [threads EXCEPT ![t] = w]
    <3>1. threads' = [threads EXCEPT ![t] = [threads[t] EXCEPT !.pc = "open", !.k = threads[t].k + 1]]
      BY <1>1, <1>14 DEF Write
    <3>. QED  BY <1>1, <2>1, <2>4, <3>1
  <2>7. Behind(t, w)'
    BY <1>7, <1>12, <2>2, <2>5 DEF Behind
  <2>8. Brought(w.list)'
    <3>1. Brought(v.list)'
      BY <1>2, <1>6, BroughtStays
    <3>. QED  BY <2>5, <3>1 DEF Brought
  <2>. QED  BY <1>11, <2>5, <2>6, <2>7, <2>8
<1>. QED  BY <1>13, <1>14


(* A step that changes a list or a file: no part and no counter changes.   *)
LEMMA ListStep ==
  ASSUME IInv, NEW t \in Threads, NEW w \in Worker, threads' = [threads EXCEPT ![t] = w],
         threads[t].pc # "none", w.pc # "none", UNCHANGED Others,
         UNCHANGED <<written, failed, progress, i, numThreads>>,
         rmx' \in [Folders -> [ok : BOOLEAN, list : List]],
         \A f \in Folders : Brought(rmx'[f].list),
         CompletedChunks' \in List, Brought(CompletedChunks'),
         Brought(w.list), Behind(t, w)
  PROVE  IInv'
PROOF
<1>1. TypeOK
  BY DEF IInv
<1>2. /\ written' = written /\ failed' = failed /\ dest' = dest
      /\ progress' = progress /\ i' = i /\ numThreads' = numThreads
  BY Zenon DEF Others
<1>3. /\ \A f \in Folders : Brought(rmx[f].list)'
      /\ Brought(CompletedChunks)' /\ Brought(w.list)'
  BY <1>2 DEF Brought, Attempted
<1>4. Behind(t, w)'
  BY <1>2 DEF Behind, FolderOf, Attempted
<1>5. /\ progress' \in Nat /\ i' \in Nat /\ numThreads' \in Int
      /\ written \subseteq written' /\ written' \subseteq Folders \X Chunks \X Files
      /\ failed \subseteq failed' /\ failed' \subseteq Folders \X Chunks \X Files
  BY <1>1, <1>2 DEF TypeOK
<1>. QED  BY ONLY IInv, t \in Threads, w \in Worker, threads' = [threads EXCEPT ![t] = w],
              threads[t].pc # "none", w.pc # "none", UNCHANGED Others,
              rmx' \in [Folders -> [ok : BOOLEAN, list : List]], CompletedChunks' \in List,
              <1>3, <1>4, <1>5, ThreadKeeps

LEMMA PushBackKeeps == ASSUME IInv, NEW t \in Threads, PushBack(t) PROVE IInv'
PROOF
<1>t. TypeOK /\ ListsInv
  BY DEF IInv
<1>1. PICK v : v = threads[t]
  OBVIOUS
<1>2. v \in Worker /\ Behind(t, v) /\ Brought(v.list) /\ v.pc = "push"
  BY <1>1, OneThread DEF PushBack
<1>3. PICK w : w = [v EXCEPT !.pc = "truncate"]
  OBVIOUS
<1>4. w \in Worker /\ w.pc = "truncate" /\ w.list = v.list /\ w.k = v.k
  BY <1>2, <1>3 DEF Worker, Steps
<1>5. threads' = [threads EXCEPT ![t] = w]
  BY <1>t, <1>1, <1>3 DEF PushBack, Goto, TypeOK
<1>6. Behind(t, w) /\ Brought(w.list)
  BY <1>2, <1>4 DEF Behind
<1>7. UNCHANGED Others /\ UNCHANGED <<written, failed, progress, i, numThreads>> /\ rmx' = rmx
  BY Zenon DEF PushBack, Others, disk, ghosts
<1>8. CompletedChunks' \in List /\ Brought(CompletedChunks')
  BY <1>1, <1>2 DEF PushBack, Worker
<1>9. /\ rmx' \in [Folders -> [ok : BOOLEAN, list : List]]
      /\ \A f \in Folders : Brought(rmx'[f].list)
  BY <1>t, <1>7 DEF TypeOK, ListsInv
<1>. QED  BY <1>1, <1>2, <1>4, <1>5, <1>6, <1>7, <1>8, <1>9, ListStep

LEMMA TruncateKeeps == ASSUME IInv, NEW t \in Threads, Truncate(t) PROVE IInv'
PROOF
<1>t. TypeOK /\ ListsInv
  BY DEF IInv
<1>1. PICK v : v = threads[t]
  OBVIOUS
<1>2. v \in Worker /\ Behind(t, v) /\ Brought(v.list) /\ v.pc = "truncate"
  BY <1>1, OneThread DEF Truncate
<1>3. PICK w : w = [v EXCEPT !.pc = "save"]
  OBVIOUS
<1>4. w \in Worker /\ w.pc = "save" /\ w.list = v.list /\ w.k = v.k
  BY <1>2, <1>3 DEF Worker, Steps
<1>5. threads' = [threads EXCEPT ![t] = w]
  BY <1>t, <1>1, <1>3 DEF Truncate, Goto, TypeOK
<1>6. Behind(t, w) /\ Brought(w.list)
  BY <1>2, <1>4 DEF Behind
<1>7. UNCHANGED Others /\ UNCHANGED <<written, failed, progress, i, numThreads>>
      /\ CompletedChunks' = CompletedChunks
  BY Zenon DEF Truncate, Others, ghosts
<1>8. CompletedChunks' \in List /\ Brought(CompletedChunks')
  BY <1>t, <1>7 DEF TypeOK, ListsInv
<1>9. PICK f : f = FolderOf(t)
  OBVIOUS
<1>10. PICK file : file = [ok |-> FALSE, list |-> Nil]
  OBVIOUS
<1>11. rmx' = [rmx EXCEPT ![f] = file] /\ file \in [ok : BOOLEAN, list : List] /\ Brought(file.list)
  BY <1>9, <1>10, ThreadTyped, NothingBrought DEF Truncate
<1>12. /\ rmx' \in [Folders -> [ok : BOOLEAN, list : List]]
       /\ \A g \in Folders : Brought(rmx'[g].list)
  BY <1>t, <1>11 DEF TypeOK, ListsInv
<1>. QED  BY <1>1, <1>2, <1>4, <1>5, <1>6, <1>7, <1>8, <1>12, ListStep

LEMMA SaveKeeps == ASSUME IInv, NEW t \in Threads, Save(t) PROVE IInv'
PROOF
<1>t. TypeOK /\ ListsInv
  BY DEF IInv
<1>1. PICK v : v = threads[t]
  OBVIOUS
<1>2. v \in Worker /\ Behind(t, v) /\ Brought(v.list) /\ v.pc = "save"
  BY <1>1, OneThread DEF Save
<1>n. PICK n \in Nat : n = i + 1
  BY <1>t DEF TypeOK
<1>m. PICK nil \in List : nil = Nil
  BY ThreadTyped
<1>3. PICK w : w = [v EXCEPT !.pc = "tally", !.reg = n, !.list = nil]
  OBVIOUS
<1>4. w \in Worker /\ w.pc = "tally" /\ w.list = Nil /\ w.k = v.k /\ w.reg \in Nat
  <2>1. v.k \in Nat \ {0} /\ v = [pc |-> v.pc, k |-> v.k, reg |-> v.reg, list |-> v.list]
    BY <1>2 DEF Worker
  <2>2. w = [pc |-> "tally", k |-> v.k, reg |-> n, list |-> nil]
    BY <1>3, <2>1
  <2>3. w \in Worker
    BY <2>1, <2>2 DEF Worker, Steps
  <2>. QED  BY <1>m, <2>2, <2>3
<1>5. threads' = [threads EXCEPT ![t] = w]
  BY <1>1, <1>n, <1>m, <1>3 DEF Save
<1>6. Behind(t, w) /\ Brought(w.list)
  BY <1>2, <1>4, NothingBrought DEF Behind
<1>7. UNCHANGED Others /\ UNCHANGED <<written, failed, progress, i, numThreads>>
      /\ CompletedChunks' = CompletedChunks
  BY Zenon DEF Save, Others, ghosts
<1>8. CompletedChunks' \in List /\ Brought(CompletedChunks')
  BY <1>t, <1>7 DEF TypeOK, ListsInv
<1>9. PICK f : f = FolderOf(t)
  OBVIOUS
<1>10. f \in Folders
  BY <1>1, <1>2, <1>9 DEF IInv, RunsInv
<1>11. PICK file : file = Over(rmx[f], v.list)
  OBVIOUS
<1>12. file \in [ok : BOOLEAN, list : List] /\ Brought(file.list)
  <2>1. rmx[f] \in [ok : BOOLEAN, list : List] /\ Brought(rmx[f].list)
    BY <1>t, <1>10 DEF TypeOK, ListsInv
  <2>. QED  BY <1>2, <1>11, <2>1 DEF Over, Worker
<1>13. rmx' = [rmx EXCEPT ![f] = file]
  BY <1>1, <1>9, <1>11 DEF Save
<1>14. /\ rmx' \in [Folders -> [ok : BOOLEAN, list : List]]
       /\ \A g \in Folders : Brought(rmx'[g].list)
  BY <1>t, <1>12, <1>13 DEF TypeOK, ListsInv
<1>. QED  BY <1>1, <1>2, <1>4, <1>5, <1>6, <1>7, <1>8, <1>14, ListStep

LEMMA ThreadStepKeeps == ASSUME IInv, NEW t \in Threads, Thread(t) PROVE IInv'
PROOF
  BY LoadCountKeeps, StoreCountKeeps, OpenKeeps, WriteKeeps, PushBackKeeps, TruncateKeeps,
     SaveKeeps, TallyKeeps, UncountKeeps DEF Thread


(* Steps of the page and of the start: neither threads nor parts change,   *)
(* and the task stays.                                                     *)
LEMMA PageKeeps ==
  ASSUME IInv, UNCHANGED <<rmx, written, failed, CompletedChunks, task, dest, threads>>,
         library' \in [Folders -> {"absent", "added", "versioned"}],
         up' \in BOOLEAN, downloading' = downloading,
         progress' \in Nat, i' = i, numThreads' = numThreads,
         pending' \in Folders \union {NoFolder}, announced' \subseteq Folders,
         crashes' \in 0 .. MaxCrashes, removals' \in 0 .. MaxRemovals
  PROVE  IInv'
PROOF
<1>1. TypeOK'
  <2>1. downloading' \in BOOLEAN
    BY Zenon DEF IInv, TypeOK
  <2>. QED  BY <2>1 DEF IInv, TypeOK
<1>2. ListsInv' /\ PartsInv' /\ RunsInv' /\ TaskInv'
  BY DEF IInv, ListsInv, PartsInv, RunsInv, TaskInv, Brought, Behind, Attempted, FolderOf, Folder
<1>. QED  BY <1>1, <1>2 DEF IInv

LEMMA AddedTyped == \A f : Added(f) \in {"absent", "added", "versioned"}
PROOF
  BY DEF Added

LEMMA CrashKeeps == ASSUME IInv, Crash PROVE IInv'
PROOF
<1>1. crashes' \in 0 .. MaxCrashes
  BY BoundsAssumption DEF IInv, TypeOK, Crash
<1>2. End /\ UNCHANGED <<rmx, written, library, dest, announced, failed, removals>>
  BY Zenon DEF Crash, disk
<1>. QED  BY <1>1, <1>2, EndKeeps

LEMMA RestartKeeps == ASSUME IInv, Restart PROVE IInv'
PROOF
<1>1. TypeOK
  BY DEF IInv
<1>2. /\ UNCHANGED <<rmx, written, failed, CompletedChunks, task, dest, threads>>
      /\ downloading' = downloading /\ progress' = progress /\ i' = i
      /\ numThreads' = numThreads /\ pending' = pending /\ announced' = announced
      /\ crashes' = crashes /\ removals' = removals
  BY Zenon DEF Restart, memory, ghosts
<1>3. library' \in [Folders -> {"absent", "added", "versioned"}]
  BY AddedTyped DEF Restart
<1>4. up' \in BOOLEAN
  BY Zenon DEF Restart
<1>. QED  BY <1>1, <1>2, <1>3, <1>4, PageKeeps DEF TypeOK

LEMMA ShownTyped == ASSUME TypeOK, NEW lib PROVE Shown(lib) \in Nat
PROOF
<1>1. downloading \in BOOLEAN
  BY Zenon DEF TypeOK
<1>. QED  BY <1>1, BoundsAssumption DEF TypeOK, Shown

LEMMA DrawKeeps == ASSUME IInv, Draw PROVE IInv'
PROOF
<1>1. TypeOK
  BY DEF IInv
<1>2. PICK lib : /\ lib = IF pending = NoFolder \/ library[pending] # "absent" THEN library
                          ELSE [library EXCEPT ![pending] = Added(pending)]
                 /\ library' = lib /\ progress' = Shown(lib)
  BY DEF Draw
<1>3. library' \in [Folders -> {"absent", "added", "versioned"}]
  BY <1>1, <1>2, AddedTyped DEF TypeOK
<1>4. progress' \in Nat
  BY <1>1, <1>2, ShownTyped
<1>5. /\ UNCHANGED <<rmx, written, failed, CompletedChunks, task, dest, threads>>
      /\ up' = up /\ downloading' = downloading /\ i' = i
      /\ numThreads' = numThreads /\ pending' = NoFolder /\ crashes' = crashes /\ removals' = removals
  BY Zenon DEF Draw
<1>6. announced' \subseteq Folders
  BY <1>1 DEF Draw, TypeOK
<1>7. up' \in BOOLEAN
  BY <1>1, <1>5, Zenon DEF TypeOK
<1>8. crashes' \in 0 .. MaxCrashes /\ removals' \in 0 .. MaxRemovals
      /\ pending' \in Folders \union {NoFolder}
  BY <1>1, <1>5 DEF TypeOK
<1>. QED  BY <1>3, <1>4, <1>5, <1>6, <1>7, <1>8, PageKeeps

LEMMA RemoveBuildKeeps == ASSUME IInv, NEW f \in Folders, RemoveBuild(f) PROVE IInv'
PROOF
<1>1. TypeOK
  BY DEF IInv
<1>2. /\ UNCHANGED <<rmx, written, failed, CompletedChunks, task, dest, threads>>
      /\ up' = up /\ downloading' = downloading /\ progress' = progress /\ i' = i
      /\ numThreads' = numThreads /\ pending' = pending /\ announced' = announced
      /\ crashes' = crashes
  BY Zenon DEF RemoveBuild, memory
<1>3. library' \in [Folders -> {"absent", "added", "versioned"}] /\ removals' \in 0 .. MaxRemovals
  BY <1>1, BoundsAssumption DEF RemoveBuild, TypeOK
<1>4. up' \in BOOLEAN
  BY <1>1, <1>2, Zenon DEF TypeOK
<1>5. progress' \in Nat /\ pending' \in Folders \union {NoFolder} /\ announced' \subseteq Folders
      /\ crashes' \in 0 .. MaxCrashes
  BY <1>1, <1>2 DEF TypeOK
<1>. QED  BY <1>2, <1>3, <1>4, <1>5, PageKeeps

(* A click: the download gets its folder, and has no thread yet.           *)
LEMMA ClickKeeps == ASSUME IInv, NEW r \in Runs, NEW f \in Folders, Click(r, f) PROVE IInv'
PROOF
<1>t. TypeOK /\ ListsInv /\ PartsInv /\ RunsInv
  BY DEF IInv
<1>1. /\ rmx' = rmx /\ written' = written /\ library' = library /\ up' = up /\ i' = i
      /\ numThreads' = numThreads /\ CompletedChunks' = CompletedChunks /\ pending' = pending
      /\ threads' = threads /\ announced' = announced /\ failed' = failed
      /\ crashes' = crashes /\ removals' = removals
  BY Zenon DEF Click, disk, ghosts
<1>2. /\ dest[r] = NoFolder /\ dest' = [dest EXCEPT ![r] = f] /\ progress' = 0
      /\ task' = [pc |-> "manifest", run |-> r, todo |-> {}]
  BY DEF Click
<1>3. \A t \in Threads : t[1] = r => threads[t].pc = "none"
  BY <1>t, <1>2, FoldersAssumption DEF RunsInv, FolderOf
<1>4. \A t \in Threads : t[1] # r => FolderOf(t)' = FolderOf(t)
  BY <1>t, <1>2 DEF FolderOf, TypeOK, Threads
<1>5. TypeOK'
  <2>1. up' \in BOOLEAN /\ downloading' \in BOOLEAN
    BY <1>t, <1>1, Zenon DEF TypeOK, Click
  <2>. QED  BY <1>t, <1>1, <1>2, <2>1 DEF TypeOK
<1>6. ListsInv'
  BY <1>t, <1>1 DEF ListsInv, Brought, Attempted
<1>7. PartsInv'
  <2>1. SUFFICES ASSUME NEW t \in Threads PROVE Behind(t, threads[t])'
    BY DEF PartsInv
  <2>2. PICK v : v = threads[t]
    OBVIOUS
  <2>3. v \in Worker /\ Behind(t, v)
    BY <2>2, <1>t DEF TypeOK, PartsInv
  <2>4. Behind(t, v)'
    <3>1. CASE t[1] = r
      <4>1. v.pc = "none" /\ v.k = 1
        BY <1>3, <2>2, <2>3, <3>1 DEF Behind
      <4>. QED  BY <2>3, <4>1 DEF Behind
    <3>2. CASE t[1] # r
      BY <1>1, <1>4, <2>3, <3>2, BehindStays
    <3>. QED  BY <3>1, <3>2
  <2>. QED  BY <1>1, <2>2, <2>4 DEF Behind
<1>8. RunsInv'
  <2>1. \A t \in Threads : threads'[t].pc # "none" => FolderOf(t)' \in Folders
    BY <1>t, <1>1, <1>3, <1>4 DEF RunsInv
  <2>2. Folder' = f
    BY <1>t, <1>2 DEF Folder, TypeOK
  <2>3. \A c \in Chunks : threads'[<<r, c>>].pc = "none"
    BY <1>1, <1>3 DEF Threads
  <2>. QED  BY <1>2, <2>1, <2>2, <2>3 DEF RunsInv
<1>9. TaskInv'
  BY <1>2 DEF TaskInv
<1>. QED  BY <1>5, <1>6, <1>7, <1>8, <1>9 DEF IInv


(* Spawn takes the first chunk of todo: a set of numbers has a least one.  *)
LEMMA SmallestExists ==
  ASSUME NEW S, S \subseteq Nat, S # {}
  PROVE  \E m \in S : \A o \in S : m <= o
PROOF
<1>1. PICK R : R = OpToRel(<, Nat)
  OBVIOUS
<1>2. IsWellFoundedOn(R, Nat)
  BY <1>1, NatLessThanWellFounded
<1>3. PICK m \in S : \A o \in S : <<o, m>> \notin R
  BY <1>2, WFMin
<1>4. \A o \in S : o \in Nat /\ m \in Nat /\ ~ (o < m)
  BY <1>1, <1>3 DEF OpToRel
<1>. QED  BY <1>4

(* What a list skips was brought, and can be counted.                      *)
LEMMA SkippedTyped ==
  ASSUME NEW list \in List
  PROVE  /\ Chunks \ Missing(list) \subseteq list.of
         /\ Cardinality(Chunks \ Missing(list)) \in Nat
PROOF
<1>1. IsFiniteSet(Chunks)
  BY FS_Interval, BoundsAssumption DEF Chunks
<1>2. IsFiniteSet(Chunks \ Missing(list))
  BY <1>1, FS_Subset
<1>3. Cardinality(Chunks \ Missing(list)) \in Nat
  BY <1>2, FS_CardinalityType
<1>. QED  BY <1>3 DEF Missing, List

(* The list is read: what it skips is in the folder, if there is one.      *)
LEMMA ReadListKeeps == ASSUME IInv, ReadList PROVE IInv'
PROOF
<1>t. TypeOK /\ ListsInv /\ PartsInv /\ RunsInv
  BY DEF IInv
<1>1. /\ rmx' = rmx /\ written' = written /\ library' = library /\ dest' = dest
      /\ announced' = announced /\ failed' = failed /\ crashes' = crashes /\ removals' = removals
  BY Zenon DEF ReadList, disk, ghosts
<1>2. task.pc = "manifest" /\ task.run \in Runs /\ Folder \in Folders
  BY <1>t DEF ReadList, RunsInv
<1>3. CASE End
  <2>1. crashes' \in 0 .. MaxCrashes
    BY <1>t, <1>1 DEF TypeOK
  <2>. QED  BY <1>1, <1>3, <2>1, EndKeeps
<1>4. CASE ~End
  <2>1. PICK list : list = rmx[Folder].list
    OBVIOUS
  <2>2. list \in List /\ Brought(list)
    BY <1>t, <1>2, <2>1 DEF TypeOK, ListsInv
  <2>3. PICK skipped : skipped = Chunks \ Missing(list)
    OBVIOUS
  <2>4. skipped \subseteq list.of /\ Cardinality(skipped) \in Nat /\ skipped \subseteq Chunks
    BY <2>2, <2>3, SkippedTyped
  <2>5. /\ i' = Cardinality(skipped) /\ progress' = i'
        /\ CompletedChunks' = [n |-> CompletedChunks.n + Cardinality(skipped),
                               of |-> CompletedChunks.of \union skipped]
        /\ task' = [task EXCEPT !.pc = "spawn", !.todo = Missing(list)]
    BY <1>4, <2>1, <2>3 DEF ReadList
  <2>6. /\ up' = up /\ downloading' = downloading /\ numThreads' = numThreads
        /\ pending' = pending /\ threads' = threads
    BY <1>4, Zenon DEF ReadList
  <2>7. task' = [pc |-> "spawn", run |-> task.run, todo |-> Missing(list)]
    BY <1>t, <2>5 DEF TypeOK
  <2>8. Missing(list) \subseteq Chunks
    BY DEF Missing
  <2>9. CompletedChunks' \in List /\ CompletedChunks'.of = CompletedChunks.of \union skipped
    <3>1. PICK m \in Nat : m = Cardinality(skipped)
      BY <2>4
    <3>2. CompletedChunks.n \in Nat /\ CompletedChunks.of \subseteq Chunks
      BY <1>t DEF TypeOK, List
    <3>3. CompletedChunks' = [n |-> CompletedChunks.n + m, of |-> CompletedChunks.of \union skipped]
      BY <2>5, <3>1
    <3>. QED  BY <2>4, <3>2, <3>3 DEF List
  <2>10. TypeOK'
    <3>1. up' \in BOOLEAN /\ downloading' \in BOOLEAN
      BY <1>t, <2>6, Zenon DEF TypeOK
    <3>2. i' \in Nat /\ progress' \in Nat
      BY <2>4, <2>5
    <3>3. task' \in [pc : {"idle", "manifest", "spawn", "announce"}, run : Runs \union {0},
                     todo : SUBSET Chunks]
      BY <1>2, <2>7, <2>8
    <3>4. \A c \in task'.todo : task'.run # 0 /\ threads'[<<task'.run, c>>].pc = "none"
      BY <1>t, <1>2, <2>6, <2>7, <2>8 DEF RunsInv, Runs
    <3>. QED  BY <1>t, <1>1, <2>6, <2>9, <3>1, <3>2, <3>3, <3>4 DEF TypeOK
  <2>11. ListsInv'
    <3>1. \A l : Brought(l) => Brought(l)'
      BY <1>1, BroughtStays
    <3>2. Brought(CompletedChunks)'
      BY <1>t, <1>1, <2>2, <2>4, <2>9 DEF ListsInv, Brought, Attempted
    <3>3. ASSUME NEW f \in Folders PROVE Brought(rmx[f].list)'
      BY <1>t, <1>1 DEF ListsInv, Brought, Attempted
    <3>4. ASSUME NEW t \in Threads PROVE Brought(threads[t].list)'
      BY <1>t, <1>1, <2>6 DEF ListsInv, Brought, Attempted
    <3>. QED  BY <3>2, <3>3, <3>4 DEF ListsInv
  <2>12. PartsInv'
    BY <1>t, <1>1, <2>6 DEF PartsInv, Behind, Attempted, FolderOf
  <2>13. RunsInv'
    BY <1>t, <1>1, <1>2, <2>6, <2>7 DEF RunsInv, FolderOf, Folder
  <2>14. TaskInv'
    <3>1. SUFFICES ASSUME OneFolder, NEW c \in Chunks \ Missing(list) PROVE Attempted(Folder, c)'
      BY <2>7 DEF TaskInv, OneFolder
    <3>2. PICK g \in Folders : Attempted(g, c)
      BY <2>2, <2>3, <2>4, <3>1 DEF Brought
    <3>3. Attempted(Folder, c)
      BY <1>2, <3>1, <3>2 DEF OneFolder
    <3>4. Folder' = Folder
      BY <1>1, <2>7 DEF Folder
    <3>. QED  BY <1>1, <3>3, <3>4 DEF Attempted
  <2>. QED  BY <2>10, <2>11, <2>12, <2>13, <2>14 DEF IInv
<1>. QED  BY <1>3, <1>4

(* A thread is started for a chunk of todo.                                *)
LEMMA SpawnKeeps == ASSUME IInv, Spawn PROVE IInv'
PROOF
<1>t. TypeOK /\ ListsInv /\ PartsInv /\ RunsInv /\ TaskInv
  BY DEF IInv
<1>1. /\ rmx' = rmx /\ written' = written /\ library' = library /\ dest' = dest
      /\ announced' = announced /\ failed' = failed /\ crashes' = crashes /\ removals' = removals
      /\ up' = up /\ downloading' = downloading /\ progress' = progress /\ i' = i
      /\ numThreads' = numThreads /\ CompletedChunks' = CompletedChunks /\ pending' = pending
  BY Zenon DEF Spawn, disk, ghosts
<1>2. task.pc = "spawn" /\ task.run \in Runs /\ Folder \in Folders /\ task.todo # {}
  BY <1>t DEF Spawn, RunsInv
<1>3. PICK c : c = CHOOSE m \in task.todo : \A o \in task.todo : m <= o
  OBVIOUS
<1>4. c \in task.todo
  <2>1. task.todo \subseteq 1 .. NumChunks
    BY <1>t DEF TypeOK, Chunks
  <2>2. \E m \in task.todo : \A o \in task.todo : m <= o
    <3>1. task.todo \subseteq Nat
      BY <2>1
    <3>. QED  BY <1>2, <3>1, SmallestExists
  <2>. QED  BY <1>3, <2>2
<1>5. PICK t : t = <<task.run, c>>
  OBVIOUS
<1>6. t \in Threads /\ c \in Chunks /\ threads[t].pc = "none" /\ t[1] = task.run /\ t[2] = c
  BY <1>t, <1>2, <1>4, <1>5 DEF TypeOK, Threads
<1>7. threads' = [threads EXCEPT ![t].pc = "born"]
      /\ task' = [task EXCEPT !.todo = Rest(task.todo, c)]
  BY <1>3, <1>5 DEF Spawn
<1>8. PICK v : v = threads[t]
  OBVIOUS
<1>9. v \in Worker /\ v.pc = "none" /\ Behind(t, v) /\ Brought(v.list)
  BY <1>6, <1>8, OneThread
<1>10. PICK w : w = [v EXCEPT !.pc = "born"]
  OBVIOUS
<1>11. w \in Worker /\ w.pc = "born" /\ w.k = v.k /\ w.list = v.list
  BY <1>9, <1>10 DEF Worker, Steps
<1>12. threads' = [threads EXCEPT ![t] = w]
  BY <1>t, <1>6, <1>7, <1>8, <1>10 DEF TypeOK
<1>13. \A s \in Threads : threads'[s] = IF s = t THEN w ELSE threads[s]
  BY <1>t, <1>12 DEF TypeOK
<1>14. task' = [pc |-> "spawn", run |-> task.run, todo |-> task.todo \ {c}]
  BY <1>t, <1>2, <1>7 DEF TypeOK, Rest
<1>15. TypeOK'
  <2>1. up' \in BOOLEAN /\ downloading' \in BOOLEAN
    BY <1>t, <1>1, Zenon DEF TypeOK
  <2>2. threads' \in [Threads -> Worker]
    BY <1>t, <1>11, <1>12 DEF TypeOK
  <2>3. task' \in [pc : {"idle", "manifest", "spawn", "announce"}, run : Runs \union {0},
                   todo : SUBSET Chunks]
    BY <1>t, <1>2, <1>14 DEF TypeOK
  <2>4. \A o \in task'.todo : task'.run # 0 /\ threads'[<<task'.run, o>>].pc = "none"
    <3>1. SUFFICES ASSUME NEW o \in task.todo, o # c
                   PROVE  task.run # 0 /\ threads'[<<task.run, o>>].pc = "none"
      BY <1>14
    <3>2. <<task.run, o>> \in Threads /\ <<task.run, o>> # t
      BY <1>t, <1>2, <1>5, <3>1 DEF TypeOK, Threads
    <3>3. threads[<<task.run, o>>].pc = "none" /\ task.run # 0
      BY <1>t, <3>1 DEF TypeOK
    <3>. QED  BY <1>13, <3>2, <3>3
  <2>. QED  BY <1>t, <1>1, <2>1, <2>2, <2>3, <2>4 DEF TypeOK
<1>16. ListsInv'
  BY <1>t, <1>1, <1>9, <1>11, <1>13 DEF ListsInv, Brought, Attempted
<1>17. PartsInv'
  <2>1. \A s \in Threads : threads[s] \in Worker /\ Behind(s, threads[s])
    BY <1>t DEF TypeOK, PartsInv
  <2>2. Behind(t, w)
    BY <1>9, <1>11 DEF Behind
  <2>3. \A s \in Threads : Behind(s, threads'[s])
    BY <1>13, <2>1, <2>2
  <2>. QED  BY <1>1, <2>3 DEF PartsInv, Behind, Attempted, FolderOf
<1>18. RunsInv'
  <2>1. \A s \in Threads : s # t /\ threads'[s].pc # "none" => FolderOf(s)' \in Folders
    BY <1>t, <1>1, <1>13 DEF RunsInv, FolderOf
  <2>2. FolderOf(t)' \in Folders
    BY <1>1, <1>2, <1>6 DEF FolderOf, Folder
  <2>. QED  BY <1>1, <1>2, <1>14, <2>1, <2>2 DEF RunsInv, Folder
<1>19. TaskInv'
  <2>1. SUFFICES ASSUME OneFolder, NEW o \in Chunks, o = c \/ o \notin task.todo
                 PROVE  threads'[<<task.run, o>>].pc # "none" \/ Attempted(Folder, o)'
    BY <1>14 DEF TaskInv, OneFolder
  <2>2. <<task.run, o>> \in Threads
    BY <1>2, <2>1 DEF Threads
  <2>3. CASE o = c
    BY <1>5, <1>11, <1>13, <2>2, <2>3
  <2>4. CASE o \notin task.todo
    <3>1. threads[<<task.run, o>>].pc # "none" \/ Attempted(Folder, o)
      BY <1>t, <1>2, <2>1, <2>4 DEF TaskInv
    <3>2. Folder' = Folder
      BY <1>1, <1>14 DEF Folder
    <3>. QED  BY <1>1, <1>11, <1>13, <2>2, <3>1, <3>2 DEF Attempted
  <2>. QED  BY <2>1, <2>3, <2>4
<1>. QED  BY <1>15, <1>16, <1>17, <1>18, <1>19 DEF IInv


(* The list is removed, or the process ends.                               *)
LEMMA RemoveListKeeps == ASSUME IInv, RemoveList PROVE IInv'
PROOF
<1>t. TypeOK /\ ListsInv /\ PartsInv /\ RunsInv /\ TaskInv
  BY DEF IInv
<1>1. /\ written' = written /\ library' = library /\ dest' = dest /\ announced' = announced
      /\ failed' = failed /\ crashes' = crashes /\ removals' = removals
  BY Zenon DEF RemoveList, ghosts
<1>2. task.pc = "spawn" /\ task.todo = {} /\ task.run \in Runs /\ Folder \in Folders
  BY <1>t DEF RemoveList, RunsInv
<1>3. CASE End /\ UNCHANGED rmx
  <2>1. crashes' \in 0 .. MaxCrashes
    BY <1>t, <1>1 DEF TypeOK
  <2>. QED  BY <1>1, <1>3, <2>1, EndKeeps
<1>4. CASE ~(End /\ UNCHANGED rmx)
  <2>1. /\ rmx' = [rmx EXCEPT ![Folder] = NoFile]
        /\ task' = [task EXCEPT !.pc = "announce"]
    BY <1>4, Zenon DEF RemoveList
  <2>2. /\ up' = up /\ downloading' = downloading /\ progress' = progress /\ i' = i
        /\ numThreads' = numThreads /\ CompletedChunks' = CompletedChunks
        /\ pending' = pending /\ threads' = threads
    BY <1>4, Zenon DEF RemoveList
  <2>3. task' = [pc |-> "announce", run |-> task.run, todo |-> {}]
    BY <1>t, <1>2, <2>1 DEF TypeOK
  <2>4. TypeOK'
    <3>1. up' \in BOOLEAN /\ downloading' \in BOOLEAN
      BY <1>t, <2>2, Zenon DEF TypeOK
    <3>2. rmx' \in [Folders -> [ok : BOOLEAN, list : List]]
      <4>1. PICK file \in [ok : BOOLEAN, list : List] : file = NoFile
        BY ThreadTyped
      <4>. QED  BY <1>t, <2>1, <4>1 DEF TypeOK
    <3>. QED  BY <1>t, <1>1, <1>2, <2>2, <2>3, <3>1, <3>2 DEF TypeOK
  <2>5. ListsInv'
    <3>1. \A f \in Folders : Brought(rmx'[f].list)
      BY <1>t, <2>1, NothingBrought DEF TypeOK, ListsInv, NoFile
    <3>. QED  BY <1>t, <1>1, <2>2, <3>1 DEF ListsInv, Brought, Attempted
  <2>6. PartsInv'
    BY <1>t, <1>1, <2>2 DEF PartsInv, Behind, Attempted, FolderOf
  <2>7. RunsInv' /\ TaskInv'
    <3>1. Folder' = Folder
      BY <1>1, <2>3 DEF Folder
    <3>2. RunsInv'
      BY <1>t, <1>1, <1>2, <2>2, <2>3, <3>1 DEF RunsInv, FolderOf
    <3>3. TaskInv'
      BY <1>t, <1>1, <1>2, <2>2, <2>3, <3>1 DEF TaskInv, OneFolder, Attempted
    <3>. QED  BY <3>2, <3>3
  <2>. QED  BY <2>4, <2>5, <2>6, <2>7 DEF IInv
<1>. QED  BY <1>3, <1>4

LEMMA AnnounceKeeps == ASSUME IInv, Announce PROVE IInv'
PROOF
<1>t. TypeOK /\ ListsInv /\ PartsInv /\ RunsInv /\ TaskInv
  BY DEF IInv
<1>1. /\ rmx' = rmx /\ written' = written /\ library' = library /\ dest' = dest /\ up' = up
      /\ progress' = progress /\ i' = i /\ numThreads' = numThreads
      /\ CompletedChunks' = CompletedChunks /\ threads' = threads
      /\ announced' = announced /\ failed' = failed /\ crashes' = crashes /\ removals' = removals
  BY Zenon DEF Announce, disk, ghosts
<1>2. task' = [pc |-> "idle", run |-> 0, todo |-> {}] /\ pending' \in Folders
  BY <1>t DEF Announce, Idle, RunsInv
<1>3. TypeOK'
  <2>1. up' \in BOOLEAN /\ downloading' \in BOOLEAN
    BY <1>t, <1>1, Zenon DEF TypeOK, Announce
  <2>. QED  BY <1>t, <1>1, <1>2, <2>1 DEF TypeOK
<1>4. ListsInv' /\ PartsInv'
  BY <1>t, <1>1 DEF ListsInv, Brought, PartsInv, Behind, Attempted, FolderOf
<1>5. RunsInv' /\ TaskInv'
  BY <1>t, <1>1, <1>2 DEF RunsInv, TaskInv, FolderOf
<1>. QED  BY <1>3, <1>4, <1>5 DEF IInv

LEMMA StutterKeeps == ASSUME IInv, UNCHANGED vars PROVE IInv'
PROOF
<1>1. /\ UNCHANGED <<rmx, written, failed, CompletedChunks, task, dest, threads>>
      /\ library' = library /\ up' = up /\ downloading' = downloading /\ progress' = progress
      /\ i' = i /\ numThreads' = numThreads /\ pending' = pending /\ announced' = announced
      /\ crashes' = crashes /\ removals' = removals
  BY Zenon DEF vars, disk, memory, ghosts
<1>2. up' \in BOOLEAN
  BY <1>1, Zenon DEF IInv, TypeOK
<1>. QED  BY <1>1, <1>2, PageKeeps DEF IInv, TypeOK

LEMMA InitHolds == Init => IInv
PROOF
<1>. SUFFICES ASSUME Init PROVE IInv
  OBVIOUS
<1>1. \A t \in Threads : threads[t] = NoThread
  BY DEF Init
<1>2. TypeOK
  <2>1. up \in BOOLEAN /\ downloading \in BOOLEAN
    BY Zenon DEF Init
  <2>2. rmx \in [Folders -> [ok : BOOLEAN, list : List]] /\ threads \in [Threads -> Worker]
        /\ CompletedChunks \in List
    BY ThreadTyped DEF Init
  <2>3. task \in [pc : {"idle", "manifest", "spawn", "announce"}, run : Runs \union {0},
                  todo : SUBSET Chunks] /\ task.todo = {}
    BY DEF Init, Idle
  <2>4. crashes \in 0 .. MaxCrashes /\ removals \in 0 .. MaxRemovals
    BY BoundsAssumption DEF Init
  <2>5. /\ progress \in Nat /\ i \in Nat /\ numThreads \in Int
        /\ written = {} /\ failed = {} /\ announced = {} /\ pending = NoFolder
        /\ library \in [Folders -> {"absent", "added", "versioned"}]
        /\ dest \in [Runs -> Folders \union {NoFolder}]
    BY DEF Init
  <2>. QED  BY <2>1, <2>2, <2>3, <2>4, <2>5 DEF TypeOK
<1>3. ListsInv
  BY <1>1, NothingBrought DEF Init, ListsInv, NoFile, NoThread
<1>4. PartsInv
  BY <1>1, NewThread DEF PartsInv
<1>5. RunsInv /\ TaskInv
  BY <1>1 DEF Init, Idle, RunsInv, TaskInv, NoThread
<1>. QED  BY <1>2, <1>3, <1>4, <1>5 DEF IInv

LEMMA NextKeeps == ASSUME IInv, [Next]_vars PROVE IInv'
PROOF
<1>1. CASE Crash
  BY <1>1, CrashKeeps
<1>2. CASE Restart
  BY <1>2, RestartKeeps
<1>3. CASE Draw
  BY <1>3, DrawKeeps
<1>4. ASSUME NEW r \in Runs, NEW f \in Folders, Click(r, f) PROVE IInv'
  BY <1>4, ClickKeeps
<1>5. ASSUME NEW f \in Folders, RemoveBuild(f) PROVE IInv'
  BY <1>5, RemoveBuildKeeps
<1>6. CASE Download
  BY <1>6, ReadListKeeps, SpawnKeeps, RemoveListKeeps, AnnounceKeeps DEF Download
<1>7. ASSUME NEW t \in Threads, Thread(t) PROVE IInv'
  BY <1>7, ThreadStepKeeps
<1>8. CASE UNCHANGED vars
  BY <1>8, StutterKeeps
<1>. QED  BY <1>1, <1>2, <1>3, <1>4, <1>5, <1>6, <1>7, <1>8 DEF Next
-----------------------------------------------------------------------------
THEOREM Invariance == Spec => []IInv
PROOF
  BY InitHolds, NextKeeps, PTL DEF Spec

(* The variables keep their types: each thread that is started is a new    *)
(* one, of a download that has a folder.                                   *)
THEOREM TypeCorrect == Spec => []TypeOK
PROOF
<1>1. IInv => TypeOK
  BY DEF IInv
<1>. QED  BY <1>1, Invariance, PTL

(* A chunk that a .rmx lists was written to a folder of the launcher, each *)
(* of its parts, or its write failed: in any interleaving of the threads   *)
(* that share the list and the file, and wherever the process ends.        *)
THEOREM ListsAreTrue == Spec => []ListedWasWritten
PROOF
<1>1. IInv => ListedWasWritten
  BY DEF IInv, ListsInv, Brought, ListedWasWritten
<1>. QED  BY <1>1, Invariance, PTL

(* For a user with one folder, a build is announced when each chunk was    *)
(* brought there or has a thread that still runs, however many updates of  *)
(* the counters and of the list were lost.                                 *)
THEOREM NothingIsLeftOut ==
  ASSUME OneFolder
  PROVE  Spec => AnnouncedOrInFlight
PROOF
<1>1. ASSUME IInv, Announce, NEW c \in Chunks
      PROVE  Attempted(Folder, c) \/ \E r \in Runs : Live(<<r, c>>) /\ dest[r] = Folder
  <2>1. task.pc = "announce" /\ task.todo = {} /\ task.run \in Runs
    BY <1>1 DEF Announce, IInv, RunsInv
  <2>2. PICK t : t = <<task.run, c>>
    OBVIOUS
  <2>3. t \in Threads /\ FolderOf(t) = Folder /\ t[2] = c
    BY <2>1, <2>2 DEF Threads, FolderOf, Folder
  <2>4. threads[t].pc # "none" \/ Attempted(Folder, c)
    BY <1>1, <2>1, <2>2 DEF IInv, TaskInv
  <2>5. CASE threads[t].pc = "done"
    BY <1>1, <2>3, <2>5, OneThread DEF Behind
  <2>6. CASE threads[t].pc \notin {"none", "done"}
    BY <2>1, <2>2, <2>6 DEF Live, Folder
  <2>. QED  BY <2>4, <2>5, <2>6
<1>2. IInv /\ [Next]_vars =>
        [Announce => \A c \in Chunks : Attempted(Folder, c)
           \/ \E r \in Runs : Live(<<r, c>>) /\ dest[r] = Folder]_vars
  BY <1>1
<1>. QED  BY <1>2, Invariance, PTL DEF Spec, AnnouncedOrInFlight
=============================================================================
