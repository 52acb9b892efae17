----------------------------- MODULE Bootstrap -----------------------------
(***************************************************************************)
(* The boot of main.go on the volume an earlier process left behind: lock  *)
(* removal, init or clone, re-clone of a directory without a usable HEAD,  *)
(* the two recoveries and the startup pull.  A process may die between any *)
(* two steps, git clone included, and the volume keeps what it had done.   *)
(*                                                                         *)
(* A directory is a record                                                 *)
(*   git     "none", "unborn" (a .git whose HEAD names no commit), "head"  *)
(*   tree    HEAD's tree; with index and work, what each path holds:       *)
(*           "absent", "theirs" (the remote's) or "mine"                   *)
(*   lock    a lock file is in .git                                        *)
(* volume is --repo and scratch the clone inside it; litter is the rest of *)
(* an earlier process's scratch directory.                                 *)
(***************************************************************************)
EXTENDS Integers, FiniteSets

CONSTANTS RemoteFiles,       \* the files of the branch on the remote
          LocalFiles,        \* paths only this volume may have
          CheckoutCuts,      \* whether a first clone may die while it checks files out
          MaxCrashes,        \* bound: processes killed
          MaxFaults          \* bound: commands and system calls that fail

ASSUME BootConfig ==
    /\ RemoteFiles # {} /\ RemoteFiles \cap LocalFiles = {}
    /\ CheckoutCuts \in BOOLEAN
    /\ MaxCrashes \in Nat /\ MaxFaults \in Nat

Paths == RemoteFiles \cup LocalFiles

Nothing == [p \in Paths |-> "absent"]
RemoteTree == [p \in Paths |-> IF p \in RemoteFiles THEN "theirs" ELSE "absent"]

EmptyDir == [git |-> "none", tree |-> Nothing, index |-> Nothing, work |-> Nothing,
             lock |-> FALSE]

VARIABLES volume, scratch, litter,
          origin,       \* the tree of the remote's branch
          url,          \* --git-remote-url is set
          pc, target,   \* where the boot stands; the directory git clone writes
          localPaths,   \* what recloneHeadless listed before its clone
          named,        \* the paths the log has named as discarded
          crashes, faults

disk == <<volume, scratch, litter>>
vars == <<volume, scratch, litter, origin, url, pc, target, localPaths, named,
          crashes, faults>>

---------------------------------------------------------------------------
(* git *)

Untracked(d) == {p \in Paths : d.work[p] # "absent" /\ d.index[p] = "absent"}
Staged(d) == {p \in Paths : d.index[p] # d.tree[p]}

\* RemoveAll of the scratch directory, with the clone or the rest of it inside.
DropScratch == scratch' = EmptyDir

\* One more failing command or system call.
Fault == faults < MaxFaults /\ faults' = faults + 1

\* An error out of bootstrap ends the process; a deferred call removes the scratch.
Fail ==
    /\ Fault /\ pc' = "down" /\ DropScratch
    /\ UNCHANGED <<litter, origin, url, target, localPaths, named, crashes>>

Rest == UNCHANGED <<origin, url, crashes, faults>>
Memory == UNCHANGED <<target, localPaths, named>>

---------------------------------------------------------------------------
(* bootstrap *)

\* Kubernetes starts the process again.
Restart ==
    /\ pc = "down" /\ pc' = "locks"
    /\ localPaths' = {} /\ named' = {} /\ target' = "volume"
    /\ UNCHANGED disk /\ Rest

cleanupStaleLocks ==
    /\ pc = "locks" /\ pc' = "init"
    /\ volume' = [volume EXCEPT !.lock = FALSE]
    /\ UNCHANGED <<scratch, litter>> /\ Memory /\ Rest

initIfNeeded ==
    /\ pc = "init"
    /\ \/ /\ pc' = "clone?"
          /\ volume' = [volume EXCEPT !.git = IF ~url /\ @ = "none" THEN "unborn" ELSE @]
          /\ UNCHANGED <<scratch, litter>> /\ Memory /\ Rest
       \/ ~url /\ volume.git = "none" /\ Fail /\ UNCHANGED volume

NotEmpty == volume.work # Nothing \/ litter

\* repoHasEntries
OnlyGitDir == FALSE   \* mutation
repoHasEntries == NotEmpty

\* headResolvable decides; what is not a usable repository is cloned afresh, into the
\* directory itself only when that is empty.
TrustGitDir == volume.git # "none"   \* mutation
Usable == volume.git = "head"

cloneIfNeeded ==
    /\ pc = "clone?"
    /\ LET reclone == volume.git # "none" \/ repoHasEntries
       IN /\ pc' = IF ~url \/ Usable THEN "config" ELSE IF reclone THEN "mkTemp" ELSE "cloneInit"
          /\ localPaths' = IF pc' = "mkTemp" THEN {p \in Paths : volume.work[p] # "absent"}
                           ELSE {}
    /\ UNCHANGED <<target, named>> /\ UNCHANGED disk /\ Rest

MakeScratch ==
    /\ pc = "mkTemp"
    /\ \/ /\ pc' = "cloneInit" /\ target' = "scratch"
          /\ UNCHANGED disk /\ UNCHANGED <<localPaths, named>> /\ Rest
       \/ Fail /\ UNCHANGED volume

\* The directory git clone works on, and the same after it became d.
CloneDir == IF target = "scratch" THEN scratch ELSE volume
CloneTo(d) ==
    /\ IF target = "scratch" THEN scratch' = d /\ UNCHANGED volume
                             ELSE volume' = d /\ UNCHANGED scratch
    /\ UNCHANGED litter /\ Memory /\ Rest

\* git clone refuses a directory with entries. It makes an unborn .git first, then the
\* objects and HEAD, then the files under index.lock, and the index last.
CloneInit ==
    /\ pc = "cloneInit"
    /\ IF target = "volume" /\ (volume.git # "none" \/ NotEmpty)
       THEN pc' = "down" /\ CloneTo(CloneDir)
       ELSE pc' = "cloneFetch" /\ CloneTo([CloneDir EXCEPT !.git = "unborn"])

CloneFetch ==
    /\ pc = "cloneFetch" /\ pc' = "checkout"
    /\ CloneTo([CloneDir EXCEPT !.git = "head", !.tree = origin, !.lock = TRUE])

\* A clone that fails before its checkout removes what it made.
CloneFails ==
    /\ pc \in {"cloneInit", "cloneFetch"} /\ Fail
    /\ volume' = IF target = "volume" THEN EmptyDir ELSE volume

CheckoutFile ==
    /\ pc = "checkout"
    /\ \E p \in Paths :
          /\ CloneDir.work[p] # CloneDir.tree[p]
          /\ CloneTo([CloneDir EXCEPT !.work[p] = CloneDir.tree[p]])
    /\ UNCHANGED pc

\* A failed checkout leaves the repository where it stands, its lock removed.
CheckoutFails ==
    /\ pc = "checkout" /\ (target = "scratch" \/ CheckoutCuts)
    /\ Fail
    /\ volume' = IF target = "volume" THEN [volume EXCEPT !.lock = FALSE] ELSE volume

CloneDone ==
    /\ pc = "checkout" /\ CloneDir.work = CloneDir.tree
    /\ CloneTo([CloneDir EXCEPT !.index = CloneDir.tree, !.lock = FALSE])
    /\ pc' = IF target = "scratch" THEN "list" ELSE "config"

---------------------------------------------------------------------------
(* The swap of recloneHeadless *)

NameAfterwards == {}   \* mutation
LocalOnly == {p \in localPaths : scratch.tree[p] = "absent"}

\* ls-tree of the clone, and one warning for every path it does not have.
NameLocalOnly ==
    /\ pc = "list"
    /\ \/ /\ named' = named \cup LocalOnly /\ pc' = "remove"
          /\ UNCHANGED <<target, localPaths>> /\ UNCHANGED disk /\ Rest
       \/ Fail /\ UNCHANGED volume

\* removeRepoEntries: .git, the files and old scratch directories, one entry at a time.
\* A .git half removed still has no usable HEAD.
removeRepoEntries ==
    /\ pc = "remove"
    /\ \/ /\ volume.git # "none"
          /\ volume' = [volume EXCEPT !.git = "none", !.index = Nothing, !.lock = FALSE]
          /\ UNCHANGED <<pc, scratch, litter>> /\ Memory /\ Rest
       \/ \E p \in Paths :
             /\ volume.work[p] # "absent"
             /\ volume' = [volume EXCEPT !.work[p] = "absent"]
             /\ UNCHANGED <<pc, scratch, litter>> /\ Memory /\ Rest
       \/ /\ litter /\ litter' = FALSE
          /\ UNCHANGED <<pc, volume, scratch>> /\ Memory /\ Rest
       \/ /\ volume = EmptyDir /\ ~litter /\ pc' = "move"
          /\ UNCHANGED disk /\ Memory /\ Rest
       \/ Fail /\ UNCHANGED volume

\* moveEntriesInto renames the files first and .git last.
GitDirFirst == TRUE   \* mutation
GitDirMayMove == scratch.work = Nothing

moveEntriesInto ==
    /\ pc = "move"
    /\ \/ \E p \in Paths :
             /\ scratch.work[p] # "absent"
             /\ scratch' = [scratch EXCEPT !.work[p] = "absent"]
             /\ volume' = [volume EXCEPT !.work[p] = scratch.work[p]]
             /\ UNCHANGED <<pc, litter>> /\ Memory /\ Rest
       \/ /\ scratch.git = "head" /\ GitDirMayMove
          /\ scratch' = [EmptyDir EXCEPT !.work = scratch.work]
          /\ volume' = [scratch EXCEPT !.work = volume.work]
          /\ UNCHANGED <<pc, litter>> /\ Memory /\ Rest
       \/ /\ scratch = EmptyDir /\ pc' = "config"
          /\ UNCHANGED disk /\ Memory /\ Rest
       \/ Fail /\ UNCHANGED volume

---------------------------------------------------------------------------
(* The recoveries and the startup pull *)

\* configureUserIfSet: without a .git, or on a failing git config, the boot ends.
configureUserIfSet ==
    /\ pc = "config"
    /\ \/ volume.git # "none" /\ pc' = "untracked" /\ UNCHANGED disk /\ Memory /\ Rest
       \/ Fail /\ UNCHANGED volume

\* recoverUntracked: add -A and a commit, when status shows an untracked entry; its own
\* errors are only logged.
recoverUntracked ==
    /\ pc = "untracked"
    /\ \/ /\ Untracked(volume) # {} \/ litter
          /\ volume' = [volume EXCEPT !.index = volume.work] /\ pc' = "commitAll" /\ Rest
       \/ Untracked(volume) = {} /\ ~litter /\ pc' = "staged?" /\ UNCHANGED volume /\ Rest
       \/ Fault /\ pc' = "staged?" /\ UNCHANGED <<volume, origin, url, crashes>>
    /\ UNCHANGED <<scratch, litter>> /\ Memory

\* git commit of the index, and what the caller does after it; a failure is only logged.
CommitIndex(next, failed) ==
    /\ \/ volume' = [volume EXCEPT !.git = "head", !.tree = volume.index] /\ pc' = next /\ Rest
       \/ Fault /\ pc' = failed /\ UNCHANGED <<volume, origin, url, crashes>>
    /\ UNCHANGED <<scratch, litter>> /\ Memory

CommitUntracked == pc = "commitAll" /\ CommitIndex("staged?", "staged?")

\* RecoverPendingWrites: what is staged is committed, and pushed.
RecoverPendingWrites ==
    /\ pc = "staged?"
    /\ IF Staged(volume) = {}
       THEN pc' = "pull" /\ UNCHANGED disk /\ Memory /\ Rest
       ELSE CommitIndex("push", "pull")

\* A push, of the recovery or of the startup pull: origin has what HEAD has. Errors are
\* logged, and the server starts.
PushHead(next) ==
    /\ \/ /\ origin' = IF url /\ volume.git = "head" THEN volume.tree ELSE origin
          /\ UNCHANGED <<url, crashes, faults>>
       \/ url /\ Fault /\ UNCHANGED <<origin, url, crashes>>
    /\ pc' = next
    /\ UNCHANGED disk /\ Memory

PushRecovered == pc = "push" /\ PushHead("pull")
syncOnStartup == pc = "pull" /\ PushHead("serving")

\* The service runs, and its puller pushes what the boot could not.
PullWhileServing == pc = "serving" /\ PushHead("serving")

\* The process is killed. In the middle of a swap the scratch directory stays; a first
\* clone dies in its checkout only where CheckoutCuts says so.
Crash ==
    /\ pc # "down" /\ crashes < MaxCrashes /\ crashes' = crashes + 1
    /\ (pc = "checkout" /\ target = "volume") => CheckoutCuts
    /\ pc' = "down"
    /\ litter' = (litter \/ scratch # EmptyDir)
    /\ DropScratch
    /\ UNCHANGED <<volume, origin, url, target, localPaths, named, faults>>

---------------------------------------------------------------------------
\* What a volume can hold at the first boot: files and perhaps a .git without a commit,
\* left by a clone, a swap or a git init; or a repository, with local paths untracked,
\* staged or committed.
OwnFiles == [Paths -> {"absent", "mine"}]
With(L) == [p \in Paths |-> IF p \in L THEN "mine" ELSE RemoteTree[p]]

Residue ==
    \/ \E w \in OwnFiles : volume = [EmptyDir EXCEPT !.work = w]
    \/ \E w \in OwnFiles : \E i \in {Nothing, w} :
          volume = [EmptyDir EXCEPT !.git = "unborn", !.work = w, !.index = i]

Repository ==
    \E C \in SUBSET LocalFiles, S \in SUBSET LocalFiles, W \in SUBSET LocalFiles,
       k \in BOOLEAN :
          volume = [git |-> "head", tree |-> With(C), index |-> With(C \cup S),
                    work |-> With(C \cup S \cup W), lock |-> k]

Init ==
    /\ Residue \/ Repository
    /\ scratch = EmptyDir
    /\ url \in BOOLEAN
    /\ litter \in (IF url /\ volume.git # "head" THEN BOOLEAN ELSE {FALSE})
    /\ origin = RemoteTree
    /\ pc = "down" /\ target = "volume" /\ localPaths = {} /\ named = {}
    /\ crashes = 0 /\ faults = 0

BootNext ==
    \/ Restart \/ cleanupStaleLocks \/ initIfNeeded \/ cloneIfNeeded \/ MakeScratch
    \/ CloneInit \/ CloneFetch \/ CloneFails \/ CheckoutFile \/ CheckoutFails \/ CloneDone
    \/ NameLocalOnly \/ removeRepoEntries \/ moveEntriesInto
    \/ configureUserIfSet \/ recoverUntracked \/ CommitUntracked
    \/ RecoverPendingWrites \/ PushRecovered \/ syncOnStartup \/ PullWhileServing

Next == BootNext \/ Crash

Spec == Init /\ [][Next]_vars

\* A boot runs on by itself, and a dead process is started again.
FairSpec == Spec /\ WF_vars(BootNext)

---------------------------------------------------------------------------
(* Properties *)

\* No boot deletes or replaces a file of the remote's branch: whatever state a killed or
\* failed clone left, its missing files are never committed and pushed as deletions.
RemoteFilesKept == \A p \in RemoteFiles : origin[p] = "theirs"

\* The service starts on a whole working tree: with a remote configured, every file of
\* its branch is on disk whenever requests are answered.
ServesWholeTree ==
    (pc = "serving" /\ url) => \A p \in RemoteFiles : volume.work[p] = "theirs"

\* Only a directory without a usable HEAD is ever emptied, only once its replacement is
\* complete, and a path that only the volume had is named in the log before it goes.
DiscardsOnlyNamed ==
    [][\A p \in Paths : (volume.work[p] = "mine" /\ volume'.work[p] # "mine") =>
          /\ volume.git # "head"
          /\ scratch.index = origin
          /\ p \in named \cup RemoteFiles]_vars

\* A repository that will be served holds no rest of a scratch clone, which add -A would
\* commit.
NoScratchInRepository == volume.git = "head" => ~litter /\ scratch = EmptyDir

\* However a volume was left, and however often the boot is killed or fails, the service
\* comes up in the end.
EventuallyServes == <>[](pc = "serving")
============================================================================
