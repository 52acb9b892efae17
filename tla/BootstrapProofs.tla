-------------------------- MODULE BootstrapProofs --------------------------
(***************************************************************************)
(* Proofs about Bootstrap, for any files and any number of crashes and     *)
(* failures, as long as no first clone dies in its checkout: the run       *)
(* clone_checkout shows what happens when one does.                        *)
(***************************************************************************)
EXTENDS Bootstrap, TLAPS

---------------------------------------------------------------------------
(* The inductive invariant *)

Contents == {"absent", "theirs", "mine"}
Dirs == [git : {"none", "unborn", "head"}, tree : [Paths -> Contents],
         index : [Paths -> Contents], work : [Paths -> Contents], lock : BOOLEAN]

Booted == {"config", "untracked", "commitAll", "staged?", "push", "pull", "serving"}
Cloning == {"cloneInit", "cloneFetch", "checkout"}
Swapping == {"mkTemp", "list", "remove", "move"}

BootTypeOK ==
    /\ volume \in Dirs /\ scratch \in Dirs /\ litter \in BOOLEAN
    /\ origin \in [Paths -> Contents] /\ url \in BOOLEAN
    /\ pc \in {"down", "locks", "init", "clone?"} \cup Booted \cup Cloning \cup Swapping
    /\ target \in {"volume", "scratch"}
    /\ localPaths \subseteq Paths /\ named \subseteq Paths

\* Every file of the remote's branch is in t as the remote has it.
Whole(t) == \A p \in RemoteFiles : t[p] = "theirs"

\* What t has so far is what the branch has.
Arriving(t) == \A p \in Paths : t[p] \in {"absent", origin[p]}

\* Without a remote nothing is cloned; with one only a usable repository is booted.
RemoteInv ==
    /\ ~url => scratch = EmptyDir /\ ~litter /\ pc \notin Cloning \cup Swapping
    /\ url /\ pc \in Booted => volume.git = "head"
    /\ Whole(origin)
    /\ volume.git = "head" \/ ~url \/ origin = RemoteTree

\* A usable repository is whole, except while a first clone checks its files out.
HeadInv ==
    volume.git = "head" =>
        /\ ~litter /\ scratch = EmptyDir
        /\ url => /\ Whole(volume.tree)
                  /\ pc # "checkout" => Whole(volume.index) /\ Whole(volume.work)

\* A first clone works on a directory that was empty.
FirstCloneInv ==
    (target = "volume" /\ pc \in Cloning) =>
        /\ ~litter /\ scratch = EmptyDir
        /\ pc = "cloneInit" => volume.git = "none" /\ volume.work = Nothing
        /\ pc = "cloneFetch" => volume.git = "unborn" /\ volume.work = Nothing
        /\ pc = "checkout" => /\ volume.git = "head" /\ volume.tree = origin
                              /\ Arriving(volume.work)

\* A clone into the scratch directory replaces a directory without a usable HEAD, whose
\* files were all listed before it.
RecloneInv ==
    (pc \in {"mkTemp", "list", "remove"} \/ (target = "scratch" /\ pc \in Cloning)) =>
        /\ volume.git # "head"
        /\ \A p \in Paths : volume.work[p] # "absent" => p \in localPaths
        /\ pc = "cloneFetch" => scratch.work = Nothing
        /\ pc = "checkout" => /\ scratch.git = "head" /\ scratch.tree = origin
                              /\ Arriving(scratch.work)
        /\ pc \in {"list", "remove"} => /\ scratch.git = "head" /\ scratch.tree = origin
                                        /\ scratch.index = origin /\ scratch.work = origin
        /\ pc = "remove" => \A p \in localPaths \ named : p \in RemoteFiles

\* Outside of these stages there is no scratch directory.
ScratchInv ==
    pc \notin {"cloneFetch", "checkout", "list", "remove", "move"} => scratch = EmptyDir

\* The swap moves .git when every file has been moved: either the scratch clone still has
\* it, and each file is in one of the two directories, or the volume is whole.
SwapInv ==
    (pc = "move" /\ volume.git # "head") =>
        /\ volume.git = "none" /\ ~litter
        /\ scratch.git = "head" /\ Whole(scratch.tree) /\ Whole(scratch.index)
        /\ \A p \in Paths : volume.work[p] = "absent" \/ scratch.work[p] = "absent"
        /\ \A p \in RemoteFiles : "theirs" \in {volume.work[p], scratch.work[p]}

BootInv ==
    /\ BootTypeOK /\ RemoteInv /\ HeadInv /\ FirstCloneInv /\ RecloneInv /\ ScratchInv
    /\ SwapInv

---------------------------------------------------------------------------
(* Directories *)

\* The empty directory is a directory, and none of its parts holds anything.
LEMMA EmptyDirType ==
    /\ EmptyDir \in Dirs /\ Nothing \in [Paths -> Contents]
    /\ EmptyDir.git = "none" /\ EmptyDir.work = Nothing /\ EmptyDir.index = Nothing
    /\ \A p \in Paths : Nothing[p] = "absent"
<1>1. Nothing \in [Paths -> Contents] BY DEF Nothing, Contents
<1>2. EmptyDir \in Dirs BY <1>1, Zenon DEF EmptyDir, Dirs
<1>. QED BY <1>1, <1>2 DEF EmptyDir, Nothing

\* git and the boot change a directory part by part.
LEMMA DirUpdates ==
  ASSUME NEW d \in Dirs, NEW t \in [Paths -> Contents], NEW l \in BOOLEAN
  PROVE  /\ \A g \in {"none", "unborn", "head"} : [d EXCEPT !.git = g] \in Dirs
         /\ [d EXCEPT !.git = "head", !.tree = t] \in Dirs
         /\ [d EXCEPT !.git = "head", !.tree = t, !.lock = l] \in Dirs
         /\ [d EXCEPT !.index = t, !.lock = l] \in Dirs
         /\ [d EXCEPT !.git = "none", !.index = t, !.lock = l] \in Dirs
         /\ [d EXCEPT !.index = t] \in Dirs
         /\ [d EXCEPT !.work = t] \in Dirs
         /\ [d EXCEPT !.lock = l] \in Dirs
  BY DEF Dirs

\* The contents of one path change.
LEMMA WorkUpdates ==
  ASSUME NEW d \in Dirs, NEW p \in Paths, NEW c \in Contents
  PROVE  /\ [d EXCEPT !.work[p] = c] \in Dirs
         /\ \A x \in {"git", "tree", "index", "lock"} : [d EXCEPT !.work[p] = c][x] = d[x]
         /\ \A q \in Paths : [d EXCEPT !.work[p] = c].work[q] = IF q = p THEN c ELSE d.work[q]
  BY DEF Dirs

---------------------------------------------------------------------------
(* The steps *)

\* A boot that ends with an error leaves the volume, and no scratch directory.
LEMMA FailKeeps ==
  ASSUME BootInv, Fail, UNCHANGED volume, pc # "checkout" \/ target = "scratch"
  PROVE  BootInv'
<1>. USE BootConfig, EmptyDirType
     DEF BootConfig, Paths, BootInv, BootTypeOK, RemoteInv, HeadInv, FirstCloneInv, RecloneInv,
         ScratchInv, SwapInv, Booted, Cloning, Swapping, Whole, Arriving, RemoteTree, disk
<1>1. BootTypeOK' BY DEF Fail, DropScratch
<1>. QED BY <1>1 DEF Fail, DropScratch

\* The steps before a clone.
LEMMA StartKeeps ==
  ASSUME BootInv,
         Restart \/ cleanupStaleLocks \/ initIfNeeded \/ cloneIfNeeded \/ MakeScratch
  PROVE  BootInv'
<1>. USE BootConfig, EmptyDirType
     DEF BootConfig, Paths, BootInv, BootTypeOK, RemoteInv, HeadInv, FirstCloneInv, RecloneInv,
         ScratchInv, SwapInv, Booted, Cloning, Swapping, Whole, Arriving, RemoteTree, disk, Rest, Memory
<1>1. CASE Restart BY <1>1 DEF Restart
<1>2. CASE cleanupStaleLocks
  <2>1. volume' \in Dirs BY <1>2, DirUpdates DEF cleanupStaleLocks
  <2>2. \A x \in {"git", "tree", "index", "work"} : volume'[x] = volume[x]
    BY <1>2 DEF cleanupStaleLocks, Dirs
  <2>. QED BY <1>2, <2>1, <2>2 DEF cleanupStaleLocks
<1>3. CASE initIfNeeded
  <2>1. CASE Fail /\ UNCHANGED volume BY <1>3, <2>1, FailKeeps DEF initIfNeeded
  <2>2. CASE ~(Fail /\ UNCHANGED volume)
    <3>. DEFINE g == IF ~url /\ volume.git = "none" THEN "unborn" ELSE volume.git
    <3>1. volume' = [volume EXCEPT !.git = g] /\ g \in {"none", "unborn", "head"}
      BY <1>3, <2>2 DEF initIfNeeded, Dirs
    <3>2. volume' \in Dirs BY <3>1, DirUpdates
    <3>3. volume'.git = g /\ \A x \in {"tree", "index", "work"} : volume'[x] = volume[x]
      BY <3>1 DEF Dirs
    <3>. QED BY <1>3, <2>2, <3>2, <3>3 DEF initIfNeeded
  <2>. QED BY <1>3, <2>1, <2>2 DEF initIfNeeded
<1>4. CASE cloneIfNeeded
  BY <1>4 DEF cloneIfNeeded, Usable, repoHasEntries, NotEmpty
<1>5. CASE MakeScratch
  <2>1. CASE Fail /\ UNCHANGED volume BY <1>5, <2>1, FailKeeps DEF MakeScratch
  <2>2. CASE ~(Fail /\ UNCHANGED volume) BY <1>5, <2>2 DEF MakeScratch
  <2>. QED BY <1>5, <2>1, <2>2 DEF MakeScratch
<1>. QED BY <1>1, <1>2, <1>3, <1>4, <1>5

\* The steps of git clone. A first clone that fails early leaves the directory empty.
LEMMA CloneKeeps ==
  ASSUME ~CheckoutCuts, BootInv,
         \/ CloneInit \/ CloneFetch \/ CloneFails \/ CheckoutFile \/ CheckoutFails
         \/ CloneDone
  PROVE  BootInv'
<1>. USE BootConfig, EmptyDirType
     DEF BootConfig, Paths, BootInv, BootTypeOK, RemoteInv, HeadInv, FirstCloneInv, RecloneInv,
         ScratchInv, SwapInv, Booted, Cloning, Swapping, Whole, Arriving, RemoteTree, disk, Rest, Memory, CloneTo, CloneDir
<1>1. CASE CloneInit
  <2>1. CloneDir \in Dirs /\ [CloneDir EXCEPT !.git = "unborn"] \in Dirs
    BY DirUpdates
  <2>2. \A x \in {"tree", "index", "work"} : [CloneDir EXCEPT !.git = "unborn"][x] = CloneDir[x]
    BY <2>1 DEF Dirs
  <2>. QED BY <1>1, <2>1, <2>2 DEF CloneInit, NotEmpty, Dirs
<1>2. CASE CloneFetch
  <2>. DEFINE d == [CloneDir EXCEPT !.git = "head", !.tree = origin, !.lock = TRUE]
  <2>1. d \in Dirs BY DirUpdates
  <2>2. /\ d.git = "head" /\ d.tree = origin
        /\ d.index = CloneDir.index /\ d.work = CloneDir.work
    BY DEF Dirs
  <2>3. CloneTo(d) /\ pc = "cloneFetch" /\ pc' = "checkout" BY <1>2 DEF CloneFetch
  <2>. HIDE DEF d
  <2>. QED BY <2>1, <2>2, <2>3
<1>3. CASE CloneFails
  <2>1. CASE target = "volume" BY <1>3, <2>1 DEF CloneFails, Fail, DropScratch
  <2>2. CASE target = "scratch" BY <1>3, <2>2, FailKeeps DEF CloneFails
  <2>. QED BY <2>1, <2>2
<1>4. CASE CheckoutFile
  <2>1. PICK p \in Paths : /\ CloneDir.work[p] # CloneDir.tree[p]
                           /\ CloneTo([CloneDir EXCEPT !.work[p] = CloneDir.tree[p]])
    BY <1>4 DEF CheckoutFile
  <2>. DEFINE d == [CloneDir EXCEPT !.work[p] = CloneDir.tree[p]]
  <2>2. CloneDir \in Dirs /\ CloneDir.tree[p] \in Contents BY DEF Dirs
  <2>3. /\ d \in Dirs
        /\ d.git = CloneDir.git /\ d.tree = CloneDir.tree /\ d.index = CloneDir.index
        /\ \A q \in Paths : d.work[q] = IF q = p THEN CloneDir.tree[p] ELSE CloneDir.work[q]
    BY <2>2, WorkUpdates
  <2>4. CloneTo(d) /\ pc = "checkout" /\ pc' = pc BY <1>4, <2>1 DEF CheckoutFile
  <2>. HIDE DEF d
  <2>. QED BY <2>3, <2>4
<1>5. CASE CheckoutFails BY <1>5, FailKeeps DEF CheckoutFails
<1>6. CASE CloneDone
  <2>. DEFINE d == [CloneDir EXCEPT !.index = CloneDir.tree, !.lock = FALSE]
  <2>1. CloneDir \in Dirs /\ CloneDir.tree \in [Paths -> Contents] BY DEF Dirs
  <2>2. d \in Dirs BY <2>1, DirUpdates
  <2>3. /\ d.git = CloneDir.git /\ d.tree = CloneDir.tree
        /\ d.index = CloneDir.tree /\ d.work = CloneDir.work
    BY <2>1 DEF Dirs
  <2>4. /\ CloneTo(d) /\ pc = "checkout" /\ CloneDir.work = CloneDir.tree
        /\ pc' = IF target = "scratch" THEN "list" ELSE "config"
    BY <1>6 DEF CloneDone
  <2>. HIDE DEF d
  <2>. QED BY <2>1, <2>2, <2>3, <2>4
<1>. QED BY <1>1, <1>2, <1>3, <1>4, <1>5, <1>6

\* The swap.
LEMMA SwapKeeps ==
  ASSUME BootInv, NameLocalOnly \/ removeRepoEntries \/ moveEntriesInto
  PROVE  BootInv'
<1>. USE BootConfig, EmptyDirType
     DEF BootConfig, Paths, BootInv, BootTypeOK, RemoteInv, HeadInv, FirstCloneInv, RecloneInv,
         ScratchInv, SwapInv, Booted, Cloning, Swapping, Whole, Arriving, RemoteTree, disk, Rest, Memory
<1>1. CASE Fail /\ UNCHANGED volume
  BY <1>1, FailKeeps DEF NameLocalOnly, removeRepoEntries, moveEntriesInto
<1>2. CASE NameLocalOnly /\ ~(Fail /\ UNCHANGED volume)
  BY <1>2 DEF NameLocalOnly, LocalOnly
<1>3. CASE removeRepoEntries /\ ~(Fail /\ UNCHANGED volume)
  <2>. SUFFICES ASSUME pc = "remove" PROVE BootInv' BY <1>3 DEF removeRepoEntries
  <2>1. CASE /\ volume' = [volume EXCEPT !.git = "none", !.index = Nothing, !.lock = FALSE]
             /\ UNCHANGED <<pc, scratch, litter>> /\ Memory /\ Rest
    <3>1. volume' \in Dirs BY <2>1, DirUpdates
    <3>2. volume'.git = "none" /\ volume'.work = volume.work BY <2>1 DEF Dirs
    <3>. QED BY <2>1, <3>1, <3>2
  <2>2. CASE \E p \in Paths :
               /\ volume' = [volume EXCEPT !.work[p] = "absent"]
               /\ UNCHANGED <<pc, scratch, litter>> /\ Memory /\ Rest
    <3>1. PICK p \in Paths : volume' = [volume EXCEPT !.work[p] = "absent"] BY <2>2
    <3>2. "absent" \in Contents BY DEF Contents
    <3>3. /\ volume' \in Dirs /\ volume'.git = volume.git
          /\ \A q \in Paths : volume'.work[q] # "absent" => volume.work[q] # "absent"
      BY <3>1, <3>2, WorkUpdates
    <3>. QED BY <2>2, <3>3
  <2>3. CASE litter' = FALSE /\ UNCHANGED <<pc, volume, scratch>> /\ Memory /\ Rest
    BY <2>3
  <2>4. CASE volume = EmptyDir /\ ~litter /\ pc' = "move" /\ UNCHANGED disk /\ Memory /\ Rest
    BY <2>4
  <2>. QED BY <1>3, <2>1, <2>2, <2>3, <2>4 DEF removeRepoEntries
<1>4. CASE moveEntriesInto /\ ~(Fail /\ UNCHANGED volume)
  <2>. SUFFICES ASSUME pc = "move" PROVE BootInv' BY <1>4 DEF moveEntriesInto
  <2>1. CASE \E p \in Paths :
               /\ scratch.work[p] # "absent"
               /\ scratch' = [scratch EXCEPT !.work[p] = "absent"]
               /\ volume' = [volume EXCEPT !.work[p] = scratch.work[p]]
               /\ UNCHANGED <<pc, litter>> /\ Memory /\ Rest
    <3>1. PICK p \in Paths : /\ scratch.work[p] # "absent"
                             /\ scratch' = [scratch EXCEPT !.work[p] = "absent"]
                             /\ volume' = [volume EXCEPT !.work[p] = scratch.work[p]]
      BY <2>1
    <3>2. scratch.work[p] \in Contents /\ "absent" \in Contents BY DEF Dirs, Contents
    <3>3. /\ scratch' \in Dirs /\ scratch'.git = scratch.git
          /\ scratch'.tree = scratch.tree /\ scratch'.index = scratch.index
          /\ \A q \in Paths : scratch'.work[q] = IF q = p THEN "absent" ELSE scratch.work[q]
      BY <3>1, <3>2, WorkUpdates
    <3>. DEFINE c == scratch.work[p]
    <3>4. volume' = [volume EXCEPT !.work[p] = c] /\ c \in Contents BY <3>1, <3>2
    <3>. HIDE DEF c
    <3>5. /\ volume' \in Dirs /\ volume'.git = volume.git
          /\ volume'.tree = volume.tree /\ volume'.index = volume.index
          /\ \A q \in Paths : volume'.work[q] = IF q = p THEN c ELSE volume.work[q]
      BY <3>4, WorkUpdates
    <3>. QED BY <2>1, <3>1, <3>3, <3>5 DEF c
  <2>2. CASE /\ scratch.git = "head" /\ GitDirMayMove
             /\ scratch' = [EmptyDir EXCEPT !.work = scratch.work]
             /\ volume' = [scratch EXCEPT !.work = volume.work]
             /\ UNCHANGED <<pc, litter>> /\ Memory /\ Rest
    <3>1. scratch' = EmptyDir BY <2>2 DEF GitDirMayMove, EmptyDir
    <3>2. volume.work \in [Paths -> Contents] BY DEF Dirs
    <3>3. volume' \in Dirs BY <2>2, <3>2, DirUpdates
    <3>4. /\ volume'.git = "head" /\ volume'.work = volume.work
          /\ volume'.tree = scratch.tree /\ volume'.index = scratch.index
      BY <2>2 DEF Dirs
    <3>. QED BY <2>2, <3>1, <3>3, <3>4 DEF GitDirMayMove
  <2>3. CASE scratch = EmptyDir /\ pc' = "config" /\ UNCHANGED disk /\ Memory /\ Rest
    BY <2>3
  <2>. QED BY <1>4, <2>1, <2>2, <2>3 DEF moveEntriesInto
<1>. QED BY <1>1, <1>2, <1>3, <1>4

\* The index becomes HEAD's tree: a whole index makes a whole commit.
LEMMA CommitKeeps ==
  ASSUME BootInv, NEW next \in Booted, NEW failed \in Booted, pc \in Booted,
         CommitIndex(next, failed)
  PROVE  BootInv'
<1>. USE BootConfig, EmptyDirType
     DEF BootConfig, Paths, BootInv, BootTypeOK, RemoteInv, HeadInv, FirstCloneInv, RecloneInv,
         ScratchInv, SwapInv, Booted, Cloning, Swapping, Whole, Arriving, RemoteTree, disk, Rest, Memory
<1>1. CASE volume' = [volume EXCEPT !.git = "head", !.tree = volume.index] /\ pc' = next /\ Rest
  <2>1. volume.index \in [Paths -> Contents] BY DEF Dirs
  <2>2. volume' \in Dirs BY <1>1, <2>1, DirUpdates
  <2>3. /\ volume'.git = "head" /\ volume'.tree = volume.index
        /\ volume'.index = volume.index /\ volume'.work = volume.work
    BY <1>1 DEF Dirs
  <2>. QED BY <1>1, <2>2, <2>3 DEF CommitIndex
<1>2. CASE pc' = failed /\ UNCHANGED <<volume, origin, url, crashes>>
  BY <1>2 DEF CommitIndex
<1>. QED BY <1>1, <1>2 DEF CommitIndex

\* The recoveries, the startup pull and the pulls after it.
LEMMA RecoveryKeeps ==
  ASSUME BootInv,
         \/ configureUserIfSet \/ recoverUntracked \/ CommitUntracked
         \/ RecoverPendingWrites \/ PushRecovered \/ syncOnStartup \/ PullWhileServing
  PROVE  BootInv'
<1>. USE BootConfig, EmptyDirType
     DEF BootConfig, Paths, BootInv, BootTypeOK, RemoteInv, HeadInv, FirstCloneInv, RecloneInv,
         ScratchInv, SwapInv, Booted, Cloning, Swapping, Whole, Arriving, RemoteTree, disk, Rest, Memory
<1>1. CASE configureUserIfSet
  <2>1. CASE Fail /\ UNCHANGED volume BY <1>1, <2>1, FailKeeps DEF configureUserIfSet
  <2>2. CASE ~(Fail /\ UNCHANGED volume) BY <1>1, <2>2 DEF configureUserIfSet
  <2>. QED BY <2>1, <2>2
<1>2. CASE recoverUntracked
  <2>1. CASE volume' = [volume EXCEPT !.index = volume.work]
    <3>1. volume.work \in [Paths -> Contents] BY DEF Dirs
    <3>2. volume' \in Dirs BY <2>1, <3>1, DirUpdates
    <3>3. /\ volume'.git = volume.git /\ volume'.tree = volume.tree
          /\ volume'.index = volume.work /\ volume'.work = volume.work
      BY <2>1 DEF Dirs
    <3>. QED BY <1>2, <3>2, <3>3 DEF recoverUntracked
  <2>2. CASE UNCHANGED volume BY <1>2, <2>2 DEF recoverUntracked
  <2>. QED BY <1>2, <2>1, <2>2 DEF recoverUntracked
<1>3. CASE CommitUntracked BY <1>3, CommitKeeps DEF CommitUntracked
<1>4. CASE RecoverPendingWrites
  <2>1. CASE Staged(volume) = {} BY <1>4, <2>1 DEF RecoverPendingWrites
  <2>2. CASE Staged(volume) # {} BY <1>4, <2>2, CommitKeeps DEF RecoverPendingWrites
  <2>. QED BY <2>1, <2>2
<1>5. ASSUME NEW next \in Booted, pc \in Booted, PushHead(next) PROVE BootInv'
  BY <1>5 DEF PushHead, Dirs
<1>6. CASE PushRecovered BY <1>6, <1>5 DEF PushRecovered
<1>7. CASE syncOnStartup BY <1>7, <1>5 DEF syncOnStartup
<1>8. CASE PullWhileServing BY <1>8, <1>5 DEF PullWhileServing
<1>. QED BY <1>1, <1>2, <1>3, <1>4, <1>6, <1>7, <1>8

\* A kill, anywhere but in the checkout of a first clone.
LEMMA CrashKeeps ==
  ASSUME ~CheckoutCuts, BootInv, Crash PROVE BootInv'
<1>. USE BootConfig, EmptyDirType
     DEF BootConfig, Paths, BootInv, BootTypeOK, RemoteInv, HeadInv, FirstCloneInv, RecloneInv,
         ScratchInv, SwapInv, Booted, Cloning, Swapping, Whole, Arriving, RemoteTree, disk
<1>1. BootTypeOK' BY DEF Crash, DropScratch
<1>. QED BY <1>1 DEF Crash, DropScratch

---------------------------------------------------------------------------
(* The invariant and what it implies *)

\* A volume at its first boot is a directory, and whole if it is usable.
LEMMA FirstVolume ==
  ASSUME Init
  PROVE  /\ volume \in Dirs
         /\ volume.git = "head" =>
                Whole(volume.tree) /\ Whole(volume.index) /\ Whole(volume.work)
<1>. USE BootConfig, EmptyDirType DEF BootConfig, Paths
<1>1. CASE Residue
  <2>1. Nothing \in OwnFiles /\ OwnFiles \subseteq [Paths -> Contents]
    BY DEF OwnFiles, Nothing, Contents
  <2>2. CASE \E w \in OwnFiles : volume = [EmptyDir EXCEPT !.work = w]
    <3>1. PICK w \in OwnFiles : volume = [EmptyDir EXCEPT !.work = w] BY <2>2
    <3>2. w \in [Paths -> Contents] /\ TRUE \in BOOLEAN BY <2>1
    <3>3. volume \in Dirs BY <3>1, <3>2, DirUpdates
    <3>. QED BY <3>1, <3>3 DEF EmptyDir
  <2>3. CASE \E w \in OwnFiles : \E i \in {Nothing, w} :
               volume = [EmptyDir EXCEPT !.git = "unborn", !.work = w, !.index = i]
    <3>1. PICK w \in OwnFiles, i \in OwnFiles :
                 volume = [EmptyDir EXCEPT !.git = "unborn", !.work = w, !.index = i]
      BY <2>1, <2>3
    <3>2. w \in [Paths -> Contents] /\ i \in [Paths -> Contents] BY <2>1
    <3>. QED BY <3>1, <3>2 DEF Dirs, EmptyDir
  <2>. QED BY <1>1, <2>2, <2>3 DEF Residue
<1>2. CASE Repository
  <2>1. \A L \in SUBSET LocalFiles : With(L) \in [Paths -> Contents] /\ Whole(With(L))
    BY DEF Whole, RemoteTree, Contents, With
  <2>2. PICK C \in SUBSET LocalFiles, S \in SUBSET LocalFiles, W \in SUBSET LocalFiles,
             k \in BOOLEAN :
                 volume = [git |-> "head", tree |-> With(C), index |-> With(C \cup S),
                           work |-> With(C \cup S \cup W), lock |-> k]
    BY <1>2 DEF Repository
  <2>3. C \cup S \in SUBSET LocalFiles /\ C \cup S \cup W \in SUBSET LocalFiles OBVIOUS
  <2>. QED BY <2>1, <2>2, <2>3 DEF Dirs
<1>. QED BY <1>1, <1>2 DEF Init

\* Every volume an earlier process can have left satisfies the invariant.
LEMMA InitBoot == Init => BootInv
<1>. SUFFICES ASSUME Init PROVE BootInv OBVIOUS
<1>. USE BootConfig, EmptyDirType DEF BootConfig, Init, Booted, Cloning, Swapping
<1>1. BootTypeOK
  <2>1. RemoteTree \in [Paths -> Contents] BY DEF RemoteTree, Contents
  <2>. QED BY <2>1, FirstVolume DEF BootTypeOK
<1>2. RemoteInv /\ HeadInv
  BY FirstVolume DEF RemoteInv, HeadInv, Whole, RemoteTree, Paths
<1>3. FirstCloneInv /\ RecloneInv /\ ScratchInv /\ SwapInv
  BY DEF FirstCloneInv, RecloneInv, ScratchInv, SwapInv
<1>. QED BY <1>1, <1>2, <1>3 DEF BootInv

\* Every step keeps it.
LEMMA BootStep ==
  ASSUME ~CheckoutCuts, BootInv, [Next]_vars PROVE BootInv'
<1>1. CASE Next BY <1>1, StartKeeps, CloneKeeps, SwapKeeps, RecoveryKeeps, CrashKeeps
               DEF Next, BootNext
<1>2. CASE UNCHANGED vars
  BY <1>2 DEF vars, BootInv, BootTypeOK, RemoteInv, HeadInv, FirstCloneInv, RecloneInv,
              ScratchInv, SwapInv, Whole, Arriving
<1>. QED BY <1>1, <1>2

\* BootInv holds always.
LEMMA BootInvariant == ASSUME ~CheckoutCuts PROVE Spec => []BootInv
<1>1. BootInv /\ [Next]_vars => BootInv' BY BootStep
<1>. QED BY InitBoot, <1>1, PTL DEF Spec

\* A file leaves the volume with a removed entry of the swap, and no other way.
LEMMA DiscardStep ==
  ASSUME BootInv, BootInv', [Next]_vars, ~CheckoutCuts,
         NEW p \in Paths, volume.work[p] = "mine", volume'.work[p] # "mine"
  PROVE  volume.git # "head" /\ scratch.index = origin /\ p \in named \cup RemoteFiles
<1>. USE EmptyDirType DEF BootInv, Rest, Memory, Fail
<1>1. CASE removeRepoEntries
  BY <1>1 DEF removeRepoEntries, RecloneInv, BootTypeOK, Dirs
<1>2. ~(CloneInit \/ CloneFetch \/ CloneFails \/ CheckoutFile \/ CheckoutFails \/ CloneDone)
  <2>. USE DEF BootTypeOK, Dirs, CloneTo, CloneDir, FirstCloneInv, Cloning, Arriving
  <2>1. ~(CloneInit \/ CloneFetch \/ CloneDone) BY DEF CloneInit, CloneFetch, CloneDone
  <2>2. ~(CloneFails \/ CheckoutFails) BY DEF CloneFails, CheckoutFails
  <2>3. ~CheckoutFile BY DEF CheckoutFile
  <2>. QED BY <2>1, <2>2, <2>3
<1>3. ~(NameLocalOnly \/ moveEntriesInto)
  <2>1. ~NameLocalOnly BY DEF NameLocalOnly, disk
  <2>2. ~moveEntriesInto
    BY DEF moveEntriesInto, disk, SwapInv, HeadInv, BootTypeOK, Dirs
  <2>. QED BY <2>1, <2>2
<1>4. ~(Restart \/ cleanupStaleLocks \/ initIfNeeded \/ cloneIfNeeded \/ MakeScratch)
  BY DEF Restart, cleanupStaleLocks, initIfNeeded, cloneIfNeeded, MakeScratch, disk,
         BootTypeOK, Dirs
<1>5. ~(\/ configureUserIfSet \/ recoverUntracked \/ CommitUntracked
        \/ RecoverPendingWrites \/ PushRecovered \/ syncOnStartup \/ PullWhileServing)
  BY DEF configureUserIfSet, recoverUntracked, CommitUntracked, RecoverPendingWrites,
         CommitIndex, PushRecovered, syncOnStartup, PullWhileServing, PushHead, disk,
         BootTypeOK, Dirs
<1>6. ~Crash /\ ~UNCHANGED vars BY DEF Crash, vars
<1>. QED BY <1>1, <1>2, <1>3, <1>4, <1>5, <1>6 DEF Next, BootNext

---------------------------------------------------------------------------
(* Theorems *)

\* bootstrap: whatever a killed or failed clone, re-clone or swap left on the volume, no
\* boot, however often it is killed again, pushes a deletion of one of the remote's files.
THEOREM NoDeletionPushed ==
  ASSUME ~CheckoutCuts PROVE Spec => []RemoteFilesKept
<1>1. BootInv => RemoteFilesKept BY DEF BootInv, RemoteInv, Whole, RemoteFilesKept
<1>. QED BY BootInvariant, <1>1, PTL

\* bootstrap: with a remote, requests are answered from a working tree that has every file
\* of the remote's branch.
THEOREM WholeTreeServed ==
  ASSUME ~CheckoutCuts PROVE Spec => []ServesWholeTree
<1>1. BootInv => ServesWholeTree
  BY DEF BootInv, RemoteInv, HeadInv, Booted, Whole, ServesWholeTree
<1>. QED BY BootInvariant, <1>1, PTL

\* recloneHeadless, removeRepoEntries and moveEntriesInto: a repository with a usable HEAD
\* never has a scratch clone or the rest of one in it, which add -A would commit.
THEOREM NoScratchCommitted ==
  ASSUME ~CheckoutCuts PROVE Spec => []NoScratchInRepository
<1>1. BootInv => NoScratchInRepository BY DEF BootInv, HeadInv, NoScratchInRepository
<1>. QED BY BootInvariant, <1>1, PTL

\* recloneHeadless: a file goes only from a directory without a usable HEAD, once its
\* replacement is complete, and after the log has named it if the remote does not have it.
THEOREM OnlyNamedDiscarded ==
  ASSUME ~CheckoutCuts PROVE Spec => DiscardsOnlyNamed
<1>. DEFINE D == \A p \in Paths : (volume.work[p] = "mine" /\ volume'.work[p] # "mine") =>
                    /\ volume.git # "head"
                    /\ scratch.index = origin
                    /\ p \in named \cup RemoteFiles
<1>1. BootInv /\ BootInv' /\ [Next]_vars => [D]_vars BY DiscardStep
<1>2. Spec => [][D]_vars BY BootInvariant, <1>1, PTL DEF Spec
<1>. QED BY <1>2 DEF DiscardsOnlyNamed

============================================================================
