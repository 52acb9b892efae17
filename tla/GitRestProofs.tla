--------------------------- MODULE GitRestProofs ---------------------------
(***************************************************************************)
(* Proofs about the server of GitRest, for any files, budget, set of       *)
(* cuttable jobs, number of push attempts and resolver: its states are     *)
(* well formed, HEAD only advances, a rescue discards nothing, a pull      *)
(* rescues at most once, and a pull that succeeds has converged.           *)
(***************************************************************************)
EXTENDS GitRest, TLAPS, WellFoundedInduction

---------------------------------------------------------------------------
(* The invariant *)

\* The steps of resolveConflictMerge, and those of them that belong to a resolver.
Loop == {"preflight", "resolve", "skip", "stageTheirs", "stageOurs", "vaultOpen", "yamlOpen",
         "resolverWrite", "resolverAdd", "qRm", "qWrite", "qAdd", "qRestore", "restored"}
ResolverPCs == {"vaultOpen", "yamlOpen", "resolverWrite", "resolverAdd"}

\* What a step relies on to keep the types: an attempt is left when a push is retried,
\* the loop has a merge to resolve, no file under _conflicts/ reaches a resolver or the
\* quarantine, and a rescue that is pushed has its commit.
StepInv ==
    /\ pc = "retryFetch" => job.attempt < PushMaxAttempts
    /\ pc \in Loop => repo.merge # NoCommit
    /\ pc \in ResolverPCs => job.path \in Files
    /\ pc \in {"rescuePush", "rescueReset"} => job.rescue # NoCommit

Shape == TypeOK /\ StepInv

\* A commit descends from itself and from the first commit, and from nothing younger.
HistoryInv ==
    \A c \in Commits : {1, c} \subseteq store[c].anc /\ store[c].anc \subseteq 1..c

RescuePCs == {"rescueCommit", "rescuePush", "rescueReset"}

\* Who runs the merge and the rescue.
CallerInv ==
    /\ pc = "ff" => job.caller = "ff"
    /\ pc = "merge" => job.caller # "ff"

\* From the four-way switch to the reset of the fast-forward path, upstream descends from
\* HEAD: that reset discards no commit.
AheadInv ==
    pc = "ff" \/ (pc \in RescuePCs /\ job.caller = "ff")
        => repo.head \in store[repo.tracking].anc

\* The rescue commit is the working tree, and origin has it before the reset.
RescueInv ==
    /\ pc \in {"rescuePush", "rescueReset"} => store[job.rescue].tree = repo.work
    /\ pc = "rescueReset" => job.rescue \in origin.rescue

\* reset --hard and clean -fd leave a clean tree, and it is still clean when the state
\* machine is back at the fast-forward.
OnceInv ==
    /\ pc \in {"locks", "recover"} => ~job.rescued
    /\ pc = "rescueClean" =>
          /\ repo.index = HeadTree(store, repo)
          /\ \A p \in Path : repo.index[p] # Absent => repo.work[p] = repo.index[p]
    /\ pc \in {"fetch", "ff"} /\ job.rescued => ~Dirty(store, repo)
    /\ pc = "rescueCommit" /\ job.caller = "ff" => ~job.rescued

\* Paths are unmerged only in a merge, and nothing is fetched or pushed in one.
MergeInv ==
    /\ repo.merge = NoCommit => repo.unmerged = {}
    /\ pc \in {"fetch", "ff", "push", "pushed", "rescueClean"} => repo.merge = NoCommit

\* Which job is where: a pull commits staged writes in its flush only.
KindInv ==
    /\ pc \in {"open", "write", "add", "staged", "stat", "rm"} => job.kind # "pull"
    /\ pc \in {"addAll", "commitAll", "staged?"} => job.kind = "recover"
    /\ pc = "flush" => job.phase = "flush"
    /\ pc = "commit" /\ job.kind = "pull" => job.phase = "flush"

\* A pull that is done, or whose push landed.
DoneInv ==
    (job.kind = "pull" /\ HasRemote /\ (pc = "done" \/ (pc = "pushed" /\ job.phase = "own"))) =>
        repo.head = repo.tracking /\ repo.merge = NoCommit

Core == CallerInv /\ AheadInv /\ RescueInv /\ OnceInv /\ MergeInv /\ KindInv /\ DoneInv

\* The inductive invariant.
ServerInv == Shape /\ HistoryInv /\ Core

---------------------------------------------------------------------------
(* What the git operators return *)

\* A repository changes field by field.
LEMMA RepoUpdates ==
  ASSUME NEW n \in Nat, NEW r \in Repos(n)
  PROVE  /\ r.head \in 1..n /\ r.tracking \in 1..n /\ r.merge \in 0..n
         /\ r.index \in Trees /\ r.work \in Trees /\ r.unmerged \in SUBSET Path
         /\ \A c \in 1..n : [r EXCEPT !.head = c] \in Repos(n)
         /\ \A c \in 1..n : [r EXCEPT !.tracking = c] \in Repos(n)
         /\ \A c \in 0..n : [r EXCEPT !.merge = c] \in Repos(n)
         /\ \A t \in Trees : [r EXCEPT !.index = t] \in Repos(n)
         /\ \A t \in Trees : [r EXCEPT !.work = t] \in Repos(n)
         /\ \A U \in SUBSET Path : [r EXCEPT !.unmerged = U] \in Repos(n)
         /\ \A b \in BOOLEAN : [r EXCEPT !.lock = b] \in Repos(n)
BY DEF Repos

\* A tree changes path by path.
LEMMA TreeUpdates ==
  ASSUME NEW t \in Trees
  PROVE  /\ \A p \in Path : t[p] \in Blob
         /\ \A p \in Path, b \in Blob : [t EXCEPT ![p] = b] \in Trees
BY DEF Trees

\* git add keeps the shape of a repository.
LEMMA AddType ==
  ASSUME NEW n \in Nat, NEW r \in Repos(n), NEW p \in Path
  PROVE  Add(r, p) \in Repos(n) /\ AddAll(r) \in Repos(n)
BY DEF Add, AddAll, Repos, Trees

\* So do checking out a version or one side of a conflict, and git rm.
LEMMA TakeType ==
  ASSUME NEW n \in Nat, NEW r \in Repos(n), NEW p \in Path, NEW b \in Blob
  PROVE  /\ TakeVersion(r, p, b) \in Repos(n) /\ CheckOutSide(r, p, b) \in Repos(n)
         /\ Rm(r, p) \in Repos(n)
BY DEF TakeVersion, CheckOutSide, Rm, Repos, Trees, Blob, Absent

\* The history of some commits is what any of them descends from.
LEMMA HistoryMember ==
  ASSUME NEW s, NEW P
  PROVE  \A x : x \in History(s, P) <=> \E c \in P : x \in s[c].anc
BY Zenon DEF History

\* A commit is appended; the older ones stay as they are.
LEMMA WithCommitFacts ==
  ASSUME NEW s \in Seq(CommitRecords), NEW t \in Trees, NEW P \in SUBSET (1..Len(s))
  PROVE  /\ WithCommit(s, t, P) \in Seq(CommitRecords)
         /\ Len(WithCommit(s, t, P)) = Len(s) + 1
         /\ \A c \in 1..Len(s) : WithCommit(s, t, P)[c] = s[c]
         /\ WithCommit(s, t, P)[Len(s) + 1].tree = t
         /\ WithCommit(s, t, P)[Len(s) + 1].anc = History(s, P) \cup {Len(s) + 1}
<1>. DEFINE e == [tree |-> t, anc |-> History(s, P) \cup {Len(s) + 1}]
<1>1. \A c \in 1..Len(s) : s[c] \in CommitRecords OBVIOUS
<1>2. \A c \in P : s[c].anc \in SUBSET Nat BY <1>1 DEF CommitRecords
<1>3. History(s, P) \in SUBSET Nat BY <1>2, HistoryMember
<1>4. e \in CommitRecords BY <1>3 DEF CommitRecords
<1>5. e.tree = t /\ e.anc = History(s, P) \cup {Len(s) + 1} OBVIOUS
<1>6. WithCommit(s, t, P) = Append(s, e) BY DEF WithCommit
<1>. HIDE DEF e
<1>. QED BY <1>4, <1>5, <1>6

\* The tree of a commit is a tree, its ancestors are numbers.
LEMMA TreeOf ==
  ASSUME NEW s \in Seq(CommitRecords), NEW c \in 1..Len(s)
  PROVE  s[c].tree \in Trees /\ s[c].anc \in SUBSET Nat
<1>1. s[c] \in CommitRecords OBVIOUS
<1>. QED BY <1>1 DEF CommitRecords

\* The tree of a merge is a tree.
LEMMA MergedTreeType ==
  ASSUME NEW s \in Seq(CommitRecords), NEW a \in 1..Len(s), NEW b \in 1..Len(s), NEW auto
  PROVE  MergedTree(s, a, b, auto) \in Trees
<1>1. s[a].tree \in Trees /\ s[b].tree \in Trees BY TreeOf
<1>2. \A p \in Path : s[a].tree[p] \in SUBSET Nat /\ s[b].tree[p] \in SUBSET Nat
  BY <1>1 DEF Trees, Blob
<1>. QED BY <1>2 DEF MergedTree, Trees, Blob, Marker

\* A fast-forward keeps the shape.
LEMMA FastForwardType ==
  ASSUME NEW s \in Seq(CommitRecords), NEW r \in Repos(Len(s)), NEW u \in 1..Len(s)
  PROVE  FastForward(s, r, u) \in Repos(Len(s))
<1>1. s[u].tree \in Trees BY TreeOf
<1>2. r.index \in Trees /\ r.work \in Trees BY DEF Repos
<1>. DEFINE moved == {p \in Path : HeadTree(s, r)[p] # s[u].tree[p]}
            i == [p \in Path |-> IF p \in moved THEN s[u].tree[p] ELSE r.index[p]]
            w == [p \in Path |-> IF p \in moved /\ r.index[p] = r.work[p]
                                 THEN s[u].tree[p] ELSE r.work[p]]
<1>3. i \in Trees /\ w \in Trees BY <1>1, <1>2 DEF Trees
<1>4. FastForward(s, r, u) = [r EXCEPT !.head = u, !.index = i, !.work = w]
  BY DEF FastForward
<1>. HIDE DEF i, w
<1>. QED BY <1>3, <1>4 DEF Repos

\* So does a true merge, with or without conflicts.
LEMMA MergeIntoType ==
  ASSUME NEW s \in Seq(CommitRecords), NEW r \in Repos(Len(s)), NEW u \in 1..Len(s),
         NEW auto
  PROVE  MergeInto(s, r, u, auto) \in Repos(Len(s))
<1>. DEFINE m == MergedTree(s, r.head, u, auto)
            open == BothChanged(s, r.head, u) \ auto
            i == [p \in Path |-> IF p \in open THEN Absent ELSE m[p]]
            w == [p \in Path |-> IF p \in Unstaged(r) THEN r.work[p] ELSE m[p]]
<1>1. r.head \in 1..Len(s) /\ r.work \in Trees BY DEF Repos
<1>2. m \in Trees BY <1>1, MergedTreeType
<1>3. open \in SUBSET Path BY DEF BothChanged
<1>4. MergeInto(s, r, u, auto) =
        [r EXCEPT !.merge = u, !.unmerged = open, !.index = i, !.work = w]
  BY DEF MergeInto
<1>. HIDE DEF m, open
<1>5. i \in Trees /\ w \in Trees BY <1>1, <1>2 DEF Trees, Blob, Absent
<1>. HIDE DEF i, w
<1>6. u \in 0..Len(s) OBVIOUS
<1>. QED BY <1>3, <1>4, <1>5, <1>6 DEF Repos

\* So does merge --abort.
LEMMA MergeAbortType ==
  ASSUME NEW s \in Seq(CommitRecords), NEW r \in Repos(Len(s))
  PROVE  MergeAbort(s, r) \in Repos(Len(s))
<1>. DEFINE h == HeadTree(s, r)
            w == [p \in Path |-> IF p \in StagedPaths(s, r) THEN h[p] ELSE r.work[p]]
<1>1. r.work \in Trees /\ r.head \in 1..Len(s) BY DEF Repos
<1>2. h \in Trees BY <1>1, TreeOf DEF HeadTree
<1>3. MergeAbort(s, r) = [r EXCEPT !.merge = NoCommit, !.unmerged = {}, !.index = h, !.work = w]
  BY DEF MergeAbort
<1>. HIDE DEF h
<1>4. w \in Trees BY <1>1, <1>2 DEF Trees
<1>. HIDE DEF w
<1>5. NoCommit \in 0..Len(s) BY DEF NoCommit
<1>. QED BY <1>2, <1>3, <1>4, <1>5 DEF Repos

\* So does reset --hard.
LEMMA ResetHardType ==
  ASSUME NEW s \in Seq(CommitRecords), NEW r \in Repos(Len(s)), NEW c \in 1..Len(s)
  PROVE  ResetHard(s, r, c) \in Repos(Len(s))
<1>. DEFINE t == s[c].tree
            w == [p \in Path |-> IF p \in Untracked(r) /\ t[p] = Absent THEN r.work[p] ELSE t[p]]
<1>1. r.work \in Trees BY DEF Repos
<1>2. t \in Trees BY TreeOf
<1>3. ResetHard(s, r, c) =
        [r EXCEPT !.head = c, !.merge = NoCommit, !.unmerged = {}, !.index = t, !.work = w]
  BY DEF ResetHard
<1>. HIDE DEF t
<1>4. w \in Trees BY <1>1, <1>2 DEF Trees
<1>. HIDE DEF w
<1>5. NoCommit \in 0..Len(s) BY DEF NoCommit
<1>. QED BY <1>2, <1>3, <1>4, <1>5 DEF Repos

\* So does clean -fd.
LEMMA CleanType ==
  ASSUME NEW n \in Nat, NEW r \in Repos(n)
  PROVE  CleanUntracked(r) \in Repos(n)
<1>. DEFINE w == [p \in Path |-> IF r.index[p] = Absent THEN Absent ELSE r.work[p]]
<1>1. w \in Trees BY DEF Repos, Trees, Blob, Absent
<1>2. CleanUntracked(r) = [r EXCEPT !.work = w] BY DEF CleanUntracked
<1>. HIDE DEF w
<1>. QED BY <1>1, <1>2 DEF Repos

\* The repository at a new commit fits the longer store.
LEMMA NewCommitType ==
  ASSUME NEW s \in Seq(CommitRecords), NEW r \in Repos(Len(s))
  PROVE  /\ AtNewCommit(s, r) \in Repos(Len(s) + 1)
         /\ Parents(r) \in SUBSET (1..Len(s)) /\ r.head \in Parents(r)
<1>1. /\ Len(s) + 1 \in 1..Len(s) + 1 /\ NoCommit \in 0..Len(s) + 1
      /\ 1..Len(s) \subseteq 1..Len(s) + 1 /\ 0..Len(s) \subseteq 0..Len(s) + 1
  BY DEF NoCommit
<1>2. AtNewCommit(s, r) \in Repos(Len(s) + 1) BY <1>1 DEF AtNewCommit, Repos
<1>3. r.head \in 1..Len(s) /\ r.merge \in 0..Len(s) BY DEF Repos
<1>. QED BY <1>2, <1>3 DEF Parents, NoCommit

\* What was of the right type is so in a longer store.
LEMMA LongerStore ==
  ASSUME NEW n \in Nat, NEW m \in Nat, n <= m
  PROVE  /\ Repos(n) \subseteq Repos(m)
         /\ Origins(n) \subseteq Origins(m)
         /\ Jobs(n) \subseteq Jobs(m)
<1>1. 1..n \subseteq 1..m /\ 0..n \subseteq 0..m OBVIOUS
<1>2. Repos(n) \subseteq Repos(m) BY <1>1 DEF Repos
<1>3. Origins(n) \subseteq Origins(m) BY <1>1 DEF Origins
<1>4. Jobs(n) \subseteq Jobs(m) BY <1>1 DEF Jobs
<1>. QED BY <1>2, <1>3, <1>4

\* A job changes field by field.
LEMMA JobUpdates ==
  ASSUME NEW n \in Nat, NEW j \in Jobs(n)
  PROVE  /\ j.kind \in JobKinds /\ j.phase \in {"own", "flush"} /\ j.path \in Path
         /\ j.ver \in Nat /\ j.attempt \in 1..PushMaxAttempts /\ j.rescue \in 0..n
         /\ j.caller \in {"sync", "retry", "ff"}
         /\ j.todo \in SUBSET Path /\ j.blob \in Blob /\ j.dest \in Path
         /\ \A k \in JobKinds : [j EXCEPT !.kind = k] \in Jobs(n)
         /\ \A f \in {"own", "flush"} : [j EXCEPT !.phase = f] \in Jobs(n)
         /\ \A p \in Path : [j EXCEPT !.path = p] \in Jobs(n)
         /\ \A v \in Nat : [j EXCEPT !.ver = v] \in Jobs(n)
         /\ \A a \in 1..PushMaxAttempts : [j EXCEPT !.attempt = a] \in Jobs(n)
         /\ \A c \in {"sync", "retry", "ff"} : [j EXCEPT !.caller = c] \in Jobs(n)
         /\ \A b \in BOOLEAN : [j EXCEPT !.rescued = b] \in Jobs(n)
         /\ \A c \in 0..n : [j EXCEPT !.rescue = c] \in Jobs(n)
         /\ \A T \in SUBSET Path : [j EXCEPT !.todo = T] \in Jobs(n)
         /\ \A b \in Blob : [j EXCEPT !.blob = b] \in Jobs(n)
         /\ \A p \in Path : [j EXCEPT !.dest = p] \in Jobs(n)
         /\ \A b \in BOOLEAN : [j EXCEPT !.handled = b] \in Jobs(n)
BY DEF Jobs

\* The job of a free mutex has the shape of a job.
LEMMA NoJobType ==
  ASSUME NEW n \in Nat
  PROVE  NoJob \in Jobs(n)
<1>1. (CHOOSE f \in Files : TRUE) \in Path BY WriteConfig DEF WriteConfig, Path
<1>2. 1 \in 1..PushMaxAttempts BY WriteConfig DEF WriteConfig
<1>. QED BY <1>1, <1>2 DEF NoJob, Jobs, JobKinds, NoCommit, Absent, Blob

\* A start gives a job of its kind.
LEMMA StartType ==
  ASSUME NEW n \in Nat, NEW k \in JobKinds, NEW p \in Path, NEW v \in Nat,
         NEW f \in {"own", "flush"}
  PROVE  [NoJob EXCEPT !.kind = k, !.phase = f, !.path = p, !.ver = v] \in Jobs(n)
BY NoJobType DEF Jobs

\* A killed git command left its lock behind, and nothing else.
Locked == [repo EXCEPT !.lock = TRUE]

\* What a command does to the clock of a job is well formed.
Clock == ctxDone' \in BOOLEAN /\ left' \in [Events -> Nat]

\* Spending an event keeps the budgets numbers.
LEMMA SpendType ==
  ASSUME left \in [Events -> Nat], NEW e \in Events, Spend(e)
  PROVE  left' \in [Events -> Nat]
BY DEF Spend

\* The parts of a well-formed state.
LEMMA TypeFacts ==
  ASSUME TypeOK
  PROVE  /\ Len(store) \in Nat
         /\ repo.head \in 1..Len(store) /\ repo.tracking \in 1..Len(store)
         /\ repo.merge \in 0..Len(store) /\ repo.index \in Trees /\ repo.work \in Trees
         /\ repo.unmerged \in SUBSET Path /\ origin.main \in 1..Len(store)
         /\ origin.rescue \in SUBSET (1..Len(store))
         /\ job.path \in Path /\ job.ver \in Nat /\ job.rescue \in 0..Len(store)
         /\ job.attempt \in 1..PushMaxAttempts
         /\ job.todo \in SUBSET Path /\ job.blob \in Blob /\ job.dest \in Path
<1>1. Len(store) \in Nat BY DEF TypeOK
<1>2. origin.main \in 1..Len(store) /\ origin.rescue \in SUBSET (1..Len(store))
  BY DEF TypeOK, Origins
<1>3. repo \in Repos(Len(store)) /\ job \in Jobs(Len(store)) BY DEF TypeOK
<1>. QED BY <1>1, <1>2, <1>3, RepoUpdates, JobUpdates

---------------------------------------------------------------------------
(* Types: the write path *)

\* Requests.
LEMMA ClientShape ==
  ASSUME Shape, NEW p \in Path, WriteFile(p) \/ WriteFileIfAbsent(p) \/ DeleteFile(p)
  PROVE  Shape'
<1>. USE DEF Shape
<1>1. Len(store) \in Nat /\ NoJob \in Jobs(Len(store)) BY NoJobType DEF TypeOK
<1>2. ASSUME NEW v \in Nat, writeFileLocked(p, v), lastVer' \in Nat PROVE Shape'
  <2>1. left' \in [Events -> Nat] BY <1>2, SpendType DEF TypeOK, writeFileLocked, Events
  <2>2. [NoJob EXCEPT !.kind = "write", !.path = p, !.ver = v] \in Jobs(Len(store))
    BY <1>1 DEF Jobs, JobKinds
  <2>3. promised' \in [Path -> SUBSET Nat] BY <1>2 DEF TypeOK, writeFileLocked
  <2>4. job' \in Jobs(Len(store)) /\ ctxDone' \in BOOLEAN /\ pc' \in {pc, "open"}
    BY <1>2, <2>2 DEF TypeOK, writeFileLocked
  <2>5. StepInv'
    BY <1>2, <2>2 DEF writeFileLocked, StepInv, Loop, ResolverPCs
  <2>. QED BY <1>2, <2>1, <2>3, <2>4, <2>5 DEF TypeOK, writeFileLocked, PCs
<1>3. CASE WriteFile(p)
  <2>1. repo.work[p] \in SUBSET Nat /\ HeadTree(store, repo)[p] \in SUBSET Nat
    BY RepoUpdates, TreeOf, <1>1 DEF TypeOK, HeadTree, Trees, Blob
  <2>2. lastVer + 1 \in Nat BY DEF TypeOK
  <2>. QED BY <1>2, <1>3, <2>1, <2>2 DEF WriteFile, TypeOK
<1>4. CASE WriteFileIfAbsent(p)
  <2>1. lastVer + 1 \in Nat BY DEF TypeOK
  <2>. QED BY <1>2, <1>4, <2>1 DEF WriteFileIfAbsent
<1>5. CASE DeleteFile(p)
  <2>1. left' \in [Events -> Nat] BY <1>5, SpendType DEF TypeOK, DeleteFile, Events
  <2>2. [NoJob EXCEPT !.kind = "delete", !.phase = "flush", !.path = p] \in Jobs(Len(store))
    BY <1>1 DEF Jobs, JobKinds
  <2>. QED BY <1>5, <2>1, <2>2
           DEF TypeOK, DeleteFile, Start, StepInv, PCs, Loop, ResolverPCs
<1>. QED BY <1>3, <1>4, <1>5

\* The steps of WriteFile keep the shape.
LEMMA StageShape ==
  ASSUME Shape, TruncateFile \/ WriteContent \/ StageWrite \/ enqueuePendingLocked
  PROVE  Shape'
<1>. USE DEF Shape
<1>1. Len(store) \in Nat /\ NoJob \in Jobs(Len(store)) BY NoJobType DEF TypeOK
<1>2. ASSUME NEW b \in Blob, NEW next \in {"write", "add"}, OnDisk(b, next)
      PROVE  Shape'
  <2>1. [repo EXCEPT !.work[job.path] = b] \in Repos(Len(store))
    BY <1>1, RepoUpdates, JobUpdates DEF TypeOK, Trees, Repos
  <2>2. left' \in [Events -> Nat] BY <1>2, SpendType DEF TypeOK, OnDisk, Events
  <2>. QED BY <1>2, <2>1, <2>2 DEF TypeOK, OnDisk, StepInv, PCs, Loop, ResolverPCs
<1>3. CASE TruncateFile
  BY <1>2, <1>3 DEF TruncateFile, Blank, Blob
<1>4. CASE WriteContent
  <2>1. {job.ver} \in Blob BY <1>1, JobUpdates DEF TypeOK, Blob
  <2>. QED BY <1>2, <1>4, <2>1 DEF WriteContent
<1>5. CASE StageWrite
  <2>1. Add(repo, job.path) \in Repos(Len(store))
    BY <1>1, AddType, JobUpdates DEF TypeOK
  <2>2. [repo EXCEPT !.lock = TRUE] \in Repos(Len(store)) BY <1>1, RepoUpdates DEF TypeOK
  <2>3. left' \in [Events -> Nat] /\ ctxDone' \in BOOLEAN
    BY <1>5, SpendType DEF TypeOK, StageWrite, Command, RunOrCut, IoFault, Cut, Events
  <2>4. repo' \in Repos(Len(store)) /\ store' = store
    BY <1>5, <2>1, <2>2 DEF TypeOK, StageWrite, Command, RunOrCut, IoFault, NoEffect
  <2>5. pc' \in {"staged", "failed"} BY <1>5 DEF StageWrite, Command, RunOrCut
  <2>. QED BY <1>5, <2>3, <2>4, <2>5 DEF TypeOK, StageWrite, StepInv, PCs, Loop, ResolverPCs
<1>6. CASE enqueuePendingLocked
  <2>0. job.path \in Path /\ job.ver \in Nat BY <1>1, JobUpdates DEF TypeOK
  <2>1. promised' \in [Path -> SUBSET Nat] /\ pending' \subseteq Path
    BY <1>6, <2>0 DEF TypeOK, enqueuePendingLocked, Acknowledge
  <2>. QED BY <1>1, <1>6, <2>1
           DEF TypeOK, enqueuePendingLocked, Finish, StepInv, PCs, Loop, ResolverPCs
<1>. QED BY <1>3, <1>4, <1>5, <1>6

\* A flush returns to the pull, the delete or the end of its job.
LEMMA FlushReturnsType ==
  ASSUME TypeOK, NEW ok, FlushReturns(ok)
  PROVE  /\ job' \in Jobs(Len(store)) /\ ctxDone' \in BOOLEAN
         /\ pc' \in {"locks", "done", "stat", "failed"}
         /\ job' = [job EXCEPT !.phase = "own", !.attempt = 1, !.rescued = FALSE]
<1>1. 1 \in 1..PushMaxAttempts BY WriteConfig DEF WriteConfig
<1>2. [job EXCEPT !.phase = "own", !.attempt = 1, !.rescued = FALSE] \in Jobs(Len(store))
  BY <1>1 DEF TypeOK, Jobs
<1>3. ctxDone' \in BOOLEAN BY DEF TypeOK, FlushReturns
<1>4. pc' \in {"locks", "done", "stat", "failed"} BY DEF FlushReturns
<1>. QED BY <1>2, <1>3, <1>4 DEF FlushReturns

\* The steps of DeleteFile keep the shape.
LEMMA DeleteShape ==
  ASSUME Shape, StatForDelete \/ RemoveForDelete \/ FlushPendingIfDue \/ flushPendingLocked
  PROVE  Shape'
<1>. USE DEF Shape
<1>1. Len(store) \in Nat /\ NoJob \in Jobs(Len(store)) BY NoJobType DEF TypeOK
<1>2. CASE StatForDelete
  <2>1. promised' \in [Path -> SUBSET Nat] BY <1>2 DEF TypeOK, StatForDelete
  <2>. QED BY <1>1, <1>2, <2>1
           DEF TypeOK, StatForDelete, Finish, StepInv, PCs, Loop, ResolverPCs
<1>3. CASE RemoveForDelete
  <2>1. Rm(repo, job.path) \in Repos(Len(store))
    BY <1>1, TakeType, JobUpdates DEF TypeOK
  <2>2. [repo EXCEPT !.lock = TRUE] \in Repos(Len(store)) BY <1>1, RepoUpdates DEF TypeOK
  <2>3. left' \in [Events -> Nat] /\ ctxDone' \in BOOLEAN
    BY <1>3, SpendType DEF TypeOK, RemoveForDelete, Command, RunOrCut, IoFault, Cut, Events
  <2>4. repo' \in Repos(Len(store)) /\ store' = store /\ pc' \in {"commit", "failed"}
    BY <1>3, <2>1, <2>2 DEF TypeOK, RemoveForDelete, Command, RunOrCut, IoFault, NoEffect
  <2>. QED BY <1>3, <2>3, <2>4 DEF TypeOK, RemoveForDelete, StepInv, PCs, Loop, ResolverPCs
<1>4. CASE FlushPendingIfDue
  <2>1. job' \in Jobs(Len(store))
    BY <1>1, <1>4 DEF FlushPendingIfDue, Start, Jobs, JobKinds
  <2>. QED BY <1>4, <2>1
           DEF TypeOK, FlushPendingIfDue, Start, StepInv, PCs, Loop, ResolverPCs
<1>5. CASE flushPendingLocked
  <2>1. /\ job' \in Jobs(Len(store)) /\ ctxDone' \in BOOLEAN
        /\ pc' \in {"commit", "locks", "done", "stat", "failed"}
    BY <1>5, FlushReturnsType DEF flushPendingLocked, TypeOK
  <2>. QED BY <1>5, <2>1 DEF TypeOK, flushPendingLocked, StepInv, PCs, Loop, ResolverPCs
<1>. QED BY <1>2, <1>3, <1>4, <1>5

\* The store with its new commit, and the repository on it.
LEMMA CommitHeadType ==
  ASSUME TypeOK, CommitHead
  PROVE  /\ store' \in Seq(CommitRecords) /\ Len(store') = Len(store) + 1
         /\ repo' \in Repos(Len(store'))
<1>1. repo.index \in Trees /\ Len(store) \in Nat BY DEF TypeOK, Repos
<1>2. AtNewCommit(store, repo) \in Repos(Len(store) + 1) /\ Parents(repo) \in SUBSET (1..Len(store))
  BY NewCommitType DEF TypeOK
<1>. QED BY <1>1, <1>2, WithCommitFacts DEF TypeOK, CommitHead

\* A longer store keeps the types of everything else.
LEMMA AppendKeepsTypes ==
  ASSUME TypeOK, store' \in Seq(CommitRecords), Len(store') \in {Len(store), Len(store) + 1}
  PROVE  /\ repo \in Repos(Len(store')) /\ origin \in Origins(Len(store'))
         /\ job \in Jobs(Len(store'))
<1>1. Len(store) \in Nat /\ Len(store') \in Nat /\ Len(store) <= Len(store') BY DEF TypeOK
<1>. QED BY <1>1, LongerStore DEF TypeOK

\* So do the commit, and what follows a push that landed or failed.
LEMMA CommitShape ==
  ASSUME Shape, CommitStaged \/ CommitFailed \/ Pushed \/ retainCommitAfterFailedPushLocked
  PROVE  Shape'
<1>. USE DEF Shape
<1>1. Len(store) \in Nat /\ NoJob \in Jobs(Len(store)) BY NoJobType DEF TypeOK
<1>2. CASE CommitStaged
  <2>1. left' \in [Events -> Nat] /\ ctxDone' \in BOOLEAN
    BY <1>2, SpendType DEF TypeOK, CommitStaged, Command, RunOrCut, IoFault, Cut, Events
  <2>2. pc' \in {"push", "pushed", "commitFailed"}
    BY <1>2 DEF CommitStaged, Command, RunOrCut, AfterCommit, AfterNothing
  <2>3. [repo EXCEPT !.lock = TRUE] \in Repos(Len(store)) BY <1>1, RepoUpdates DEF TypeOK
  <2>4. CommitHead \/ (store' = store /\ repo' \in {repo, [repo EXCEPT !.lock = TRUE]})
    BY <1>2 DEF CommitStaged, Command, RunOrCut, IoFault, NoEffect
  <2>5. /\ store' \in Seq(CommitRecords) /\ Len(store') \in {Len(store), Len(store) + 1}
        /\ repo' \in Repos(Len(store'))
    BY <2>3, <2>4, CommitHeadType DEF TypeOK
  <2>. QED BY <1>2, <2>1, <2>2, <2>5, AppendKeepsTypes
           DEF TypeOK, CommitStaged, StepInv, PCs, Loop, ResolverPCs
<1>3. CASE CommitFailed
  <2>1. /\ job' \in Jobs(Len(store)) /\ ctxDone' \in BOOLEAN
        /\ pc' \in {"locks", "done", "stat", "failed"}
    BY <1>3, FlushReturnsType DEF CommitFailed, TypeOK
  <2>. QED BY <1>3, <2>1 DEF TypeOK, CommitFailed, StepInv, PCs, Loop, ResolverPCs
<1>4. CASE Pushed
  <2>1. /\ job' \in Jobs(Len(store)) /\ ctxDone' \in BOOLEAN
        /\ pc' \in {"locks", "done", "stat", "failed"}
    BY <1>4, FlushReturnsType DEF Pushed, TypeOK
  <2>2. job.path \in Path /\ job.ver \in Nat BY <1>1, JobUpdates DEF TypeOK
  <2>3. promised' \in [Path -> SUBSET Nat]
    <3>1. promised' \in {promised, [promised EXCEPT ![job.path] = {job.ver}],
                         [promised EXCEPT ![job.path] = {}]}
      BY <1>4 DEF Pushed
    <3>. QED BY <2>2, <3>1 DEF TypeOK
  <2>. QED BY <1>4, <2>1, <2>3 DEF TypeOK, Pushed, StepInv, PCs, Loop, ResolverPCs
<1>5. CASE retainCommitAfterFailedPushLocked
  <2>1. /\ job' \in Jobs(Len(store)) /\ ctxDone' \in BOOLEAN
        /\ pc' \in {"locks", "done", "stat", "failed"}
    BY <1>5, FlushReturnsType DEF retainCommitAfterFailedPushLocked, TypeOK
  <2>. QED BY <1>5, <2>1
           DEF TypeOK, retainCommitAfterFailedPushLocked, StepInv, PCs, Loop, ResolverPCs
<1>. QED BY <1>2, <1>3, <1>4, <1>5

\* So do the steps of pushWithRetry.
LEMMA PushShape ==
  ASSUME Shape, pushWithRetry \/ RetryFetch
  PROVE  Shape'
<1>. USE DEF Shape
<1>1. Len(store) \in Nat BY DEF TypeOK
<1>2. repo.head \in 1..Len(store) /\ origin.main \in 1..Len(store)
  BY DEF TypeOK, Repos, Origins
<1>3. /\ [repo EXCEPT !.tracking = repo.head] \in Repos(Len(store))
      /\ [repo EXCEPT !.tracking = origin.main] \in Repos(Len(store))
  BY <1>1, <1>2, RepoUpdates DEF TypeOK
<1>4. [origin EXCEPT !.main = repo.head] \in Origins(Len(store))
  BY <1>2 DEF TypeOK, Origins
<1>5. CASE pushWithRetry
  <2>1. left' \in [Events -> Nat] /\ ctxDone' \in BOOLEAN
    BY <1>5, SpendType DEF TypeOK, pushWithRetry, RemoteCommand, Cut, Events
  <2>2. repo' \in Repos(Len(store)) /\ origin' \in Origins(Len(store))
    BY <1>5, <1>3, <1>4 DEF TypeOK, pushWithRetry, RemoteCommand, PushBranch, TrackPushed
  <2>3. /\ pc' \in {"pushed", "pushFailed", "retryFetch"}
        /\ pc' = "retryFetch" => job.attempt < PushMaxAttempts
    BY <1>5 DEF pushWithRetry, RemoteCommand, AfterRejection
  <2>. QED BY <1>5, <2>1, <2>2, <2>3
           DEF TypeOK, pushWithRetry, StepInv, PCs, Loop, ResolverPCs
<1>6. CASE RetryFetch
  <2>1. left' \in [Events -> Nat] /\ ctxDone' \in BOOLEAN
    BY <1>6, SpendType DEF TypeOK, RetryFetch, RemoteCommand, Cut, Events
  <2>2. repo' \in Repos(Len(store)) /\ origin' = origin /\ pc' \in {"merge", "pushFailed"}
    BY <1>6, <1>3 DEF TypeOK, RetryFetch, RemoteCommand, Fetch
  <2>3. job.attempt + 1 \in 1..PushMaxAttempts
    <3>1. job.attempt \in 1..PushMaxAttempts BY <1>1, JobUpdates DEF TypeOK
    <3>2. job.attempt < PushMaxAttempts BY <1>6 DEF StepInv, RetryFetch
    <3>. QED BY <3>1, <3>2, WriteConfig DEF WriteConfig
  <2>4. job' \in Jobs(Len(store)) BY <1>6, <2>3 DEF TypeOK, RetryFetch, Jobs
  <2>. QED BY <1>6, <2>1, <2>2, <2>4
           DEF TypeOK, RetryFetch, StepInv, PCs, Loop, ResolverPCs
<1>. QED BY <1>5, <1>6

---------------------------------------------------------------------------
(* Types: the merge and the rescue *)

Merge(auto) == MergeInto(store, repo, repo.tracking, auto)

\* What a merge can do: fail, fast-forward, stop at conflicts, or make a merge commit.
MergeOutcome(auto) ==
    \/ /\ UNCHANGED store /\ repo' \in {repo, Locked}
       /\ pc' \in {"abort", "push", "rescueCommit"}
       /\ pc' = "push" => repo.merge = NoCommit /\ repo' = repo
    \/ /\ UNCHANGED store /\ repo' = FastForward(store, repo, repo.tracking)
       /\ pc' \in {"abort", "push"}
       /\ repo.merge = NoCommit /\ IsAncestor(store, repo.head, repo.tracking)
    \/ /\ UNCHANGED store /\ repo' = Merge(auto)
       /\ pc' \in {"abort", "preflight"} /\ repo.merge = NoCommit
    \/ /\ store' = WithCommit(store, Merge(auto).index, Parents(Merge(auto)))
       /\ repo' = AtNewCommit(store, Merge(auto)) /\ Merge(auto).unmerged = {}
       /\ pc' \in {"abort", "push"} /\ repo.merge = NoCommit

\* A merge, for some answer of git to whether the edits merge by hunks.
LEMMA MergeOutcomes ==
  ASSUME mergeWithDirtyTreeRescue
  PROVE  \E auto : MergeOutcome(auto)
<1>. USE DEF Locked, Merge, NoEffect
<1>1. CASE MergeRefused(store, repo, repo.tracking) \/ repo.lock \/ ctxDone
  <2>1. UNCHANGED store /\ repo' = repo /\ pc' \in {"abort", "rescueCommit"}
    BY <1>1 DEF mergeWithDirtyTreeRescue, AfterFailedMerge
  <2>2. MergeOutcome({}) BY <2>1 DEF MergeOutcome
  <2>. QED BY <2>2
<1>2. CASE ~(MergeRefused(store, repo, repo.tracking) \/ repo.lock \/ ctxDone)
  <2>1. repo.merge = NoCommit
    BY <1>2 DEF MergeRefused, FastForwardRefused, TrueMergeRefused
  <2>2. CASE IoFault /\ pc' = AfterFailedMerge
    <3>1. UNCHANGED store /\ repo' = repo /\ pc' \in {"abort", "rescueCommit"}
      BY <2>2 DEF IoFault, AfterFailedMerge
    <3>2. MergeOutcome({}) BY <3>1 DEF MergeOutcome
    <3>. QED BY <3>2
  <2>3. ASSUME NEW auto, MergeUpstream(auto) PROVE MergeOutcome(auto)
    <3>1. CASE IsAncestor(store, repo.tracking, repo.head)
      BY <2>1, <2>3, <3>1 DEF MergeUpstream, RunOrCut, MergeOutcome
    <3>2. CASE /\ ~IsAncestor(store, repo.tracking, repo.head)
               /\ IsAncestor(store, repo.head, repo.tracking)
      BY <2>1, <2>3, <3>2 DEF MergeUpstream, RunOrCut, MergeOutcome
    <3>3. CASE /\ ~IsAncestor(store, repo.tracking, repo.head)
               /\ ~IsAncestor(store, repo.head, repo.tracking)
      <4>1. CASE Merge(auto).unmerged # {}
        BY <2>1, <2>3, <3>3, <4>1 DEF MergeUpstream, RunOrCut, MergeOutcome, AfterConflict
      <4>2. CASE Merge(auto).unmerged = {}
        BY <2>1, <2>3, <3>3, <4>2 DEF MergeUpstream, RunOrCut, MergeOutcome
      <4>. QED BY <4>1, <4>2
    <3>. QED BY <3>1, <3>2, <3>3
  <2>. QED BY <1>2, <2>2, <2>3 DEF mergeWithDirtyTreeRescue
<1>. QED BY <1>1, <1>2

\* The merge and its abort keep the shape.
LEMMA MergeShape ==
  ASSUME Shape, mergeWithDirtyTreeRescue
  PROVE  Shape'
<1>. USE DEF Shape
<1>1. Len(store) \in Nat /\ repo.tracking \in 1..Len(store) BY DEF TypeOK, Repos
<1>2. PICK auto : MergeOutcome(auto) BY MergeOutcomes
<1>3. left' \in [Events -> Nat] /\ ctxDone' \in BOOLEAN
  <2>1. UNCHANGED <<ctxDone, left>> \/ (Spend("io") /\ UNCHANGED ctxDone)
        \/ (Spend("cut") /\ ctxDone' = TRUE)
    BY DEF mergeWithDirtyTreeRescue, MergeUpstream, RunOrCut, IoFault, Cut
  <2>. QED BY <2>1, SpendType DEF TypeOK, Events
<1>4. Merge(auto) \in Repos(Len(store)) BY <1>1, MergeIntoType DEF TypeOK, Merge
<1>5. FastForward(store, repo, repo.tracking) \in Repos(Len(store))
  BY <1>1, FastForwardType DEF TypeOK
<1>6. Locked \in Repos(Len(store)) BY <1>1, RepoUpdates DEF TypeOK, Locked
<1>7. /\ store' \in Seq(CommitRecords) /\ Len(store') \in {Len(store), Len(store) + 1}
      /\ repo' \in Repos(Len(store'))
  <2>1. CASE /\ UNCHANGED store
             /\ repo' \in {repo, Locked, FastForward(store, repo, repo.tracking), Merge(auto)}
    BY <1>4, <1>5, <1>6, <2>1 DEF TypeOK
  <2>2. CASE /\ store' = WithCommit(store, Merge(auto).index, Parents(Merge(auto)))
             /\ repo' = AtNewCommit(store, Merge(auto))
    <3>1. /\ AtNewCommit(store, Merge(auto)) \in Repos(Len(store) + 1)
          /\ Parents(Merge(auto)) \in SUBSET (1..Len(store))
      BY <1>4, NewCommitType DEF TypeOK
    <3>2. Merge(auto).index \in Trees BY <1>1, <1>4, RepoUpdates
    <3>. QED BY <2>2, <3>1, <3>2, WithCommitFacts DEF TypeOK
  <2>. QED BY <1>2, <2>1, <2>2 DEF MergeOutcome
<1>8. job \in Jobs(Len(store')) /\ origin \in Origins(Len(store'))
  BY <1>7, AppendKeepsTypes
<1>9. job' \in Jobs(Len(store'))
  <2>1. repo'.unmerged \in SUBSET Path BY <1>7 DEF Repos
  <2>2. job' \in {job, [job EXCEPT !.todo = repo'.unmerged]} BY DEF mergeWithDirtyTreeRescue
  <2>. QED BY <1>8, <2>1, <2>2 DEF Jobs
<1>10. pc' \in {"abort", "push", "rescueCommit", "preflight"} BY <1>2 DEF MergeOutcome
<1>11. pc' = "preflight" => repo'.merge # NoCommit
  <2>1. pc' = "preflight" => repo' = Merge(auto) BY <1>2 DEF MergeOutcome
  <2>2. Merge(auto).merge = repo.tracking
    BY DEF Merge, MergeInto, TypeOK, Repos
  <2>. QED BY <1>1, <2>1, <2>2 DEF NoCommit
<1>. QED BY <1>3, <1>7, <1>8, <1>9, <1>10, <1>11
         DEF TypeOK, mergeWithDirtyTreeRescue, StepInv, PCs, Loop, ResolverPCs

\* So do the steps of rescueDirtyTree.
LEMMA RescueShape ==
  ASSUME Shape, \/ AbortMerge \/ createRescueCommit \/ PushRescue
                \/ ResetAfterRescue \/ CleanAfterRescue
  PROVE  Shape'
<1>. USE DEF Shape
<1>1. /\ Len(store) \in Nat /\ repo.tracking \in 1..Len(store) /\ repo.head \in 1..Len(store)
      /\ repo.work \in Trees
  BY DEF TypeOK, Repos
<1>2. Locked \in Repos(Len(store)) BY <1>1, RepoUpdates DEF TypeOK, Locked
<1>3. CASE AbortMerge
  <2>1. MergeAbort(store, repo) \in Repos(Len(store)) BY MergeAbortType DEF TypeOK
  <2>2. left' \in [Events -> Nat] /\ ctxDone' \in BOOLEAN
    BY <1>3, SpendType DEF TypeOK, AbortMerge, Command, RunOrCut, IoFault, Cut, Events
  <2>3. repo' \in {MergeAbort(store, repo), repo, Locked} /\ store' = store
    BY <1>3 DEF AbortMerge, Command, RunOrCut, IoFault, NoEffect, Locked
  <2>4. pc' \in {"failed", "pushFailed"} BY <1>3 DEF AbortMerge, Command, RunOrCut
  <2>. QED BY <1>2, <1>3, <2>1, <2>2, <2>3, <2>4
           DEF TypeOK, AbortMerge, StepInv, PCs, Loop, ResolverPCs
<1>4. CASE createRescueCommit
  <2>1. left' \in [Events -> Nat] /\ ctxDone' \in BOOLEAN
    BY <1>4, SpendType DEF TypeOK, createRescueCommit, Cut, Events
  <2>2. pc' \in {"rescuePush", "failed", "abort"} BY <1>4 DEF createRescueCommit, RescueFailed
  <2>3. CASE UNCHANGED <<store, job>> /\ pc' = RescueFailed
    BY <1>4, <2>1, <2>3
       DEF TypeOK, createRescueCommit, RescueFailed, StepInv, PCs, Loop, ResolverPCs
  <2>4. CASE /\ store' = WithCommit(store, repo.work, {repo.head})
             /\ job' = [job EXCEPT !.rescue = Len(store) + 1]
    <3>1. store' \in Seq(CommitRecords) /\ Len(store') = Len(store) + 1
      BY <1>1, <2>4, WithCommitFacts DEF TypeOK
    <3>2. /\ repo \in Repos(Len(store')) /\ origin \in Origins(Len(store'))
          /\ job \in Jobs(Len(store'))
      BY <3>1, AppendKeepsTypes
    <3>3. Len(store') \in Nat /\ Len(store) + 1 \in 0..Len(store') BY <1>1, <3>1
    <3>4. job' \in Jobs(Len(store')) BY <2>4, <3>2, <3>3, JobUpdates
    <3>5. job'.rescue # NoCommit BY <1>1, <2>4 DEF TypeOK, Jobs, NoCommit
    <3>. QED BY <1>4, <2>1, <2>2, <3>1, <3>2, <3>4, <3>5
             DEF TypeOK, createRescueCommit, StepInv, PCs, Loop, ResolverPCs
  <2>. QED BY <1>4, <2>3, <2>4 DEF createRescueCommit, RescueTree
<1>5. CASE PushRescue
  <2>1. left' \in [Events -> Nat] /\ ctxDone' \in BOOLEAN
    BY <1>5, SpendType DEF TypeOK, PushRescue, RemoteCommand, Cut, Events
  <2>2. /\ repo' = repo /\ pc' \in {"rescueReset", "failed", "abort"}
        /\ origin' \in {origin, [origin EXCEPT !.rescue = @ \cup {job.rescue}]}
    BY <1>5 DEF PushRescue, RemoteCommand, RescueFailed
  <2>3. job.rescue \in 1..Len(store) 
    <3>1. job.rescue \in 0..Len(store) /\ job.rescue # 0
      BY <1>1, <1>5, JobUpdates DEF TypeOK, StepInv, PushRescue, NoCommit
    <3>. QED BY <1>1, <3>1
  <2>4. origin' \in Origins(Len(store)) BY <2>2, <2>3 DEF TypeOK, Origins
  <2>. QED BY <1>5, <2>1, <2>2, <2>3, <2>4
           DEF TypeOK, PushRescue, StepInv, PCs, Loop, ResolverPCs, NoCommit
<1>6. CASE ResetAfterRescue
  <2>1. ResetHard(store, repo, ResetTarget) \in Repos(Len(store))
    BY <1>1, ResetHardType DEF TypeOK, ResetTarget
  <2>2. left' \in [Events -> Nat] /\ ctxDone' \in BOOLEAN
    BY <1>6, SpendType DEF TypeOK, ResetAfterRescue, Command, RunOrCut, IoFault, Cut, Events
  <2>3. repo' \in {ResetHard(store, repo, ResetTarget), repo, Locked} /\ store' = store
    BY <1>6 DEF ResetAfterRescue, Command, RunOrCut, IoFault, NoEffect, Locked
  <2>4. pc' \in {"rescueClean", "failed", "abort"}
    BY <1>6 DEF ResetAfterRescue, Command, RunOrCut, RescueFailed
  <2>. QED BY <1>2, <1>6, <2>1, <2>2, <2>3, <2>4
           DEF TypeOK, ResetAfterRescue, StepInv, PCs, Loop, ResolverPCs
<1>7. CASE CleanAfterRescue
  <2>1. CleanTree \in Repos(Len(store)) BY <1>1, CleanType DEF TypeOK, CleanTree
  <2>2. left' \in [Events -> Nat] /\ ctxDone' \in BOOLEAN
    BY <1>7, SpendType DEF TypeOK, CleanAfterRescue, Command, RunOrCut, IoFault, Cut, Events
  <2>3. repo' \in {CleanTree, repo, Locked} /\ store' = store
    BY <1>7 DEF CleanAfterRescue, Command, RunOrCut, IoFault, NoEffect, Locked
  <2>4. pc' \in {"fetch", "merge", "failed", "abort"}
    BY <1>7 DEF CleanAfterRescue, Command, RunOrCut, RescueFailed
  <2>5. job' \in Jobs(Len(store)) BY <1>1, <1>7, JobUpdates DEF TypeOK, CleanAfterRescue
  <2>. QED BY <1>2, <1>7, <2>1, <2>2, <2>3, <2>4, <2>5
           DEF TypeOK, CleanAfterRescue, StepInv, PCs, Loop, ResolverPCs
<1>. QED BY <1>3, <1>4, <1>5, <1>6, <1>7
---------------------------------------------------------------------------
(* Types: the conflict loop *)

\* Staging and resolving move no ref, conclude no merge and add no conflict.
SameRefs(r, q) ==
    /\ q.head = r.head /\ q.tracking = r.tracking /\ q.merge = r.merge
    /\ q.unmerged \subseteq r.unmerged

\* Commands on the index and the working tree move no ref.
LEMMA RefsKept ==
  ASSUME NEW n \in Nat, NEW r \in Repos(n), NEW p \in Path
  PROVE  /\ SameRefs(r, Add(r, p)) /\ SameRefs(r, Rm(r, p))
         /\ \A b : SameRefs(r, TakeVersion(r, p, b)) /\ SameRefs(r, CheckOutSide(r, p, b))
         /\ \A b : SameRefs(r, [r EXCEPT !.work[p] = b])
         /\ \A b : SameRefs(r, [r EXCEPT !.lock = b])
         /\ SameRefs(r, r)
BY DEF SameRefs, Add, Rm, TakeVersion, CheckOutSide, Repos

\* Crossing a path off the list keeps the job a job.
LEMMA HandledType ==
  ASSUME TypeOK, NEW p \in Path, NEW r, Handled(p, r)
  PROVE  job' \in Jobs(Len(store))
<1>. DEFINE h == job.handled \/ (repo' = r /\ ~ctxDone')
<1>1. job' = [job EXCEPT !.todo = job.todo \ {p}, !.handled = h] BY DEF Handled
<1>2. h \in BOOLEAN BY Zenon
<1>. HIDE DEF h
<1>. QED BY <1>1, <1>2 DEF TypeOK, Jobs

\* What quarantineOne sets up is a job.
LEMMA QuarantineType ==
  ASSUME TypeOK, NEW p \in Files, StartQuarantine(p)
  PROVE  job' \in Jobs(Len(store)) /\ pc' = "qRm"
<1>1. Len(store) \in Nat /\ p \in Path BY DEF TypeOK, Path
<1>2. repo.work[p] \in Blob BY <1>1, RepoUpdates, TreeUpdates DEF TypeOK
<1>3. PICK ts \in Stamps :
         job' = [job EXCEPT !.todo = @ \ {p}, !.path = p, !.blob = Raw(p), !.dest = <<p, ts>>]
  BY DEF StartQuarantine
<1>4. <<p, ts>> \in Path BY <1>3 DEF Path, Dests
<1>5. job' \in Jobs(Len(store)) BY <1>1, <1>2, <1>3, <1>4 DEF TypeOK, Raw, Jobs
<1>. QED BY <1>5 DEF StartQuarantine

\* What a resolver hands on is a job.
LEMMA ResolverType ==
  ASSUME TypeOK, NEW p \in Path, NEW step, StartResolver(p, step)
  PROVE  job' \in Jobs(Len(store)) /\ job'.path = p /\ pc' = step
<1>1. Len(store) \in Nat BY DEF TypeOK
<1>2. repo.work[p] \in Blob BY <1>1, RepoUpdates, TreeUpdates DEF TypeOK
<1>3. Merged(p) \in Blob BY <1>2 DEF Merged, Blob
<1>4. job' \in Jobs(Len(store)) /\ job'.path = p BY <1>3 DEF TypeOK, StartResolver, Jobs
<1>. QED BY <1>4 DEF StartResolver

\* What every step of the loop keeps.
LoopStep ==
    /\ UNCHANGED <<store, origin, pending, mode, promised, lastVer>> /\ Clock
    /\ repo' \in Repos(Len(store))
    /\ SameRefs(repo, repo')
    /\ job' \in Jobs(Len(store))
    /\ pc' \in Loop \cup {"abort"}
    /\ pc' \in ResolverPCs => job'.path \in Files

\* A step that leaves the store and the refs alone, as all of the loop do, keeps the shape.
LEMMA LoopShape ==
  ASSUME Shape, LoopStep, pc \in Loop
  PROVE  Shape'
BY DEF Shape, LoopStep, SameRefs, Clock, TypeOK, StepInv, Loop, PCs, ResolverPCs

\* A path for the YAML resolver.
LEMMA YamlStep ==
  ASSUME Shape, pc \in Loop, NEW p \in Files, ResolveYaml(p),
         UNCHANGED <<origin, pending, mode, promised, lastVer>>
  PROVE  LoopStep
<1>1. Len(store) \in Nat /\ p \in Path BY DEF Shape, TypeOK, Path
<1>2. job' \in Jobs(Len(store)) /\ pc' \in {"yamlOpen", "qRm"} /\ (pc' = "yamlOpen" => job'.path = p)
  BY <1>1, QuarantineType, ResolverType DEF ResolveYaml, Shape
<1>. QED BY <1>2 DEF Shape, TypeOK, ResolveYaml, NoEffect, LoopStep, SameRefs, Clock, Loop, ResolverPCs

\* The question to vault-api and its write keep the shape and the refs.
LEMMA VaultStep ==
  ASSUME Shape, pc \in Loop, NEW p \in Files, ResolveVault(p),
         UNCHANGED <<origin, pending, mode, promised, lastVer>>
  PROVE  LoopStep
<1>1. Len(store) \in Nat /\ p \in Path BY DEF Shape, TypeOK, Path
<1>2. CASE /\ StartResolver(p, "vaultOpen") /\ NoEffect /\ UNCHANGED <<ctxDone, left>>
  <2>1. job' \in Jobs(Len(store)) /\ pc' = "vaultOpen" /\ job'.path = p
    BY <1>1, <1>2, ResolverType DEF Shape
  <2>. QED BY <1>2, <2>1 DEF Shape, TypeOK, NoEffect, LoopStep, SameRefs, Clock, Loop, ResolverPCs
<1>3. CASE Cut /\ job' = [job EXCEPT !.todo = @ \ {p}] /\ pc' = "resolve" /\ NoEffect
  <2>1. job' \in Jobs(Len(store)) BY <1>3 DEF Shape, TypeOK, Jobs
  <2>2. Clock BY <1>3, SpendType DEF Shape, TypeOK, Cut, Clock, Events
  <2>. QED BY <1>3, <2>1, <2>2 DEF Shape, TypeOK, NoEffect, LoopStep, SameRefs, Loop, ResolverPCs
<1>. QED BY <1>2, <1>3, YamlStep DEF ResolveVault

\* A command that a resolution runs keeps the refs, whatever becomes of it.
LEMMA RunInLoop ==
  ASSUME Shape, NEW r \in Repos(Len(store)), SameRefs(repo, r), NEW ok,
         RunOrCut(repo' = r /\ UNCHANGED store, ok, "resolve")
  PROVE  /\ store' = store /\ Clock /\ pc' \in {ok, "resolve"}
         /\ repo' \in Repos(Len(store)) /\ SameRefs(repo, repo')
<1>1. Len(store) \in Nat /\ repo \in Repos(Len(store)) BY DEF Shape, TypeOK
<1>2. Locked \in Repos(Len(store)) /\ SameRefs(repo, Locked) /\ SameRefs(repo, repo)
  BY <1>1, RepoUpdates, Zenon DEF Locked, SameRefs, Repos
<1>3. Clock BY SpendType DEF Shape, TypeOK, RunOrCut, Cut, Clock, Events
<1>4. repo' \in {r, repo, Locked} /\ store' = store /\ pc' \in {ok, "resolve"}
  BY DEF RunOrCut, NoEffect, Locked
<1>. QED BY <1>1, <1>2, <1>3, <1>4

\* A modify/delete conflict that is resolved after all.
LEMMA AfterAllStep ==
  ASSUME Shape, pc \in Loop, NEW p \in Path, IoFault, ResolveAfterAll(p),
         UNCHANGED <<origin, pending, mode, promised, lastVer>>
  PROVE  LoopStep
<1>1. Clock BY SpendType DEF Shape, TypeOK, IoFault, Clock, Events
<1>2. ~Quarantined(p) => p \in Files BY DEF Quarantined, Path
<1>3. ASSUME NEW step \in {"skip", "resolverAdd"}, StartResolver(p, step),
             step = "skip" \/ p \in Files
      PROVE  LoopStep
  <2>1. job' \in Jobs(Len(store)) /\ job'.path = p /\ pc' = step BY <1>3, ResolverType DEF Shape
  <2>. QED BY <1>1, <1>3, <2>1 DEF Shape, TypeOK, IoFault, NoEffect, LoopStep, SameRefs, Loop, ResolverPCs
<1>4. ASSUME p \in Files, StartQuarantine(p) PROVE LoopStep
  <2>1. job' \in Jobs(Len(store)) /\ pc' = "qRm" BY <1>4, QuarantineType DEF Shape
  <2>. QED BY <1>1, <2>1 DEF Shape, TypeOK, IoFault, NoEffect, LoopStep, SameRefs, Loop, ResolverPCs
<1>5. CASE Quarantined(p) /\ StartResolver(p, "skip") BY <1>3, <1>5
<1>6. CASE ~Quarantined(p) /\ StartResolver(p, "resolverAdd") BY <1>2, <1>3, <1>6
<1>7. CASE ~Quarantined(p) /\ StartQuarantine(p) BY <1>2, <1>4, <1>7
<1>. QED BY <1>5, <1>6, <1>7 DEF ResolveAfterAll

\* A path that one side deleted.
LEMMA ModifyDeleteStep ==
  ASSUME Shape, pc = "resolve", NEW p \in Path, resolveModifyDelete(p),
         UNCHANGED <<origin, pending, mode, promised, lastVer>>
  PROVE  LoopStep
<1>. DEFINE theirs == store[repo.merge].tree[p]
            side == CheckOutSide(repo, p, theirs)
            gone == Rm(repo, p)
<1>1. Len(store) \in Nat /\ pc \in Loop BY DEF Shape, TypeOK, Loop
<1>2. theirs \in Blob
  <2>1. repo.merge \in 0..Len(store) /\ repo.merge # 0
    BY <1>1, RepoUpdates DEF Shape, TypeOK, StepInv, Loop, NoCommit
  <2>2. repo.merge \in 1..Len(store) BY <1>1, <2>1
  <2>. QED BY <2>2, TreeOf, TreeUpdates DEF Shape, TypeOK
<1>. HIDE DEF theirs
<1>3. /\ side \in Repos(Len(store)) /\ SameRefs(repo, side)
      /\ gone \in Repos(Len(store)) /\ SameRefs(repo, gone)
  BY <1>1, <1>2, TakeType, RefsKept DEF Shape, TypeOK
<1>4. CASE IoFault /\ ResolveAfterAll(p) BY <1>1, <1>4, AfterAllStep
<1>5. CASE /\ RunOrCut(repo' = side /\ UNCHANGED store, "stageTheirs", "resolve")
           /\ job' = [job EXCEPT !.todo = @ \ {p}, !.path = p]
  <2>. HIDE DEF side
  <2>1. job' \in Jobs(Len(store)) BY <1>5 DEF Shape, TypeOK, Jobs
  <2>2. /\ store' = store /\ Clock /\ pc' \in {"stageTheirs", "resolve"}
        /\ repo' \in Repos(Len(store)) /\ SameRefs(repo, repo')
    BY <1>3, <1>5, RunInLoop
  <2>. QED BY <2>1, <2>2 DEF LoopStep, Loop, ResolverPCs
<1>6. CASE /\ RunOrCut(repo' = gone /\ UNCHANGED store, "resolve", "resolve")
           /\ Handled(p, gone)
  <2>. HIDE DEF gone
  <2>1. job' \in Jobs(Len(store)) BY <1>6, HandledType DEF Shape
  <2>2. /\ store' = store /\ Clock /\ pc' \in {"resolve"}
        /\ repo' \in Repos(Len(store)) /\ SameRefs(repo, repo')
    BY <1>3, <1>6, RunInLoop
  <2>. QED BY <2>1, <2>2 DEF LoopStep, Loop, ResolverPCs
<1>. QED BY <1>4, <1>5, <1>6
         DEF resolveModifyDelete, stageUpstreamVersion, acceptUpstreamDeletion, theirs

\* So does the choice of the next path.
LEMMA EachPathStep ==
  ASSUME Shape, resolveEachPath
  PROVE  LoopStep
<1>1. PICK p \in job.todo :
          \/ ModifyDelete(p) /\ resolveModifyDelete(p)
          \/ /\ ~ModifyDelete(p) /\ Quarantined(p)
             /\ StartResolver(p, "skip") /\ NoEffect /\ UNCHANGED <<ctxDone, left>>
          \/ ~ModifyDelete(p) /\ ~Quarantined(p) /\ Resolve(p)
  BY DEF resolveEachPath
<1>2. Len(store) \in Nat /\ p \in Path BY <1>1, TypeFacts DEF Shape
<1>3. pc = "resolve" /\ UNCHANGED <<origin, pending, mode, promised, lastVer>>
  BY DEF resolveEachPath
<1>4. CASE resolveModifyDelete(p) BY <1>2, <1>3, <1>4, ModifyDeleteStep
<1>5. ASSUME NEW step \in {"skip", "resolverAdd"}, StartResolver(p, step),
             step = "skip" \/ p \in Files, NoEffect, UNCHANGED <<ctxDone, left>>
      PROVE  LoopStep
  <2>1. job' \in Jobs(Len(store)) /\ job'.path = p /\ pc' = step
    BY <1>2, <1>5, ResolverType DEF Shape
  <2>. QED BY <1>3, <1>5, <2>1 DEF Shape, TypeOK, NoEffect, Clock, LoopStep, SameRefs, Loop, ResolverPCs
<1>6. CASE ~Quarantined(p) /\ Resolve(p)
  <2>1. p \in Files BY <1>2, <1>6 DEF Quarantined, Path
  <2>2. CASE StartResolver(p, "resolverAdd") /\ NoEffect /\ UNCHANGED <<ctxDone, left>>
    BY <1>5, <2>1, <2>2
  <2>3. CASE ResolveYaml(p) BY <1>3, <2>1, <2>3, YamlStep DEF Loop
  <2>4. CASE ResolveVault(p) BY <1>3, <2>1, <2>4, VaultStep DEF Loop
  <2>. QED BY <1>6, <2>2, <2>3, <2>4, ResolverConfig DEF Resolve, ResolverConfig
<1>. QED BY <1>1, <1>4, <1>5, <1>6

\* So do the three steps of the YAML resolver.
LEMMA ResolverStep ==
  ASSUME Shape, \/ skipQuarantinedPath \/ StageSide
                \/ ResolverOpen \/ ResolverWrite \/ ResolverAdd
  PROVE  LoopStep
<1>1. /\ Len(store) \in Nat /\ job.path \in Path /\ job.blob \in Blob
      /\ repo.head \in 1..Len(store)
  BY TypeFacts DEF Shape
<1>2. Locked \in Repos(Len(store)) BY <1>1, RepoUpdates DEF Shape, TypeOK, Locked
<1>ownRefs. SameRefs(repo, Locked) /\ SameRefs(repo, repo)
  BY <1>1, RefsKept DEF Shape, TypeOK, Locked
<1>3. \A b \in Blob : [repo EXCEPT !.work[job.path] = b] \in Repos(Len(store))
  BY <1>1 DEF Shape, TypeOK, Repos, Trees
<1>4. Blank \in Blob BY DEF Blank, Blob
<1>5. CASE skipQuarantinedPath
  <2>. DEFINE kept == CheckOutSide(repo, job.path, HeadTree(store, repo)[job.path])
  <2>1. kept \in Repos(Len(store)) /\ SameRefs(repo, kept)
    BY <1>1, TakeType, RefsKept, TreeOf, TreeUpdates DEF Shape, TypeOK, HeadTree
  <2>2. CASE OursDeleted(job.path)
    BY <1>5, <2>2
       DEF skipQuarantinedPath, Shape, TypeOK, NoEffect, Clock, LoopStep, SameRefs, Loop, ResolverPCs
  <2>3. CASE ~OursDeleted(job.path)
    <3>1. Command(repo' = kept /\ UNCHANGED store, "stageOurs", "resolve")
      BY <1>5, <2>3 DEF skipQuarantinedPath
    <3>. HIDE DEF kept
    <3>2. CASE RunOrCut(repo' = kept /\ UNCHANGED store, "stageOurs", "resolve")
      <4>1. /\ store' = store /\ Clock /\ pc' \in {"stageOurs", "resolve"}
            /\ repo' \in Repos(Len(store)) /\ SameRefs(repo, repo')
        BY <2>1, <3>2, RunInLoop
      <4>. QED BY <1>5, <4>1
               DEF skipQuarantinedPath, Shape, TypeOK, LoopStep, Loop, ResolverPCs
    <3>3. CASE IoFault /\ pc' = "resolve"
      <4>1. Clock BY <3>3, SpendType DEF Shape, TypeOK, IoFault, Clock, Events
      <4>. QED BY <1>5, <1>ownRefs, <3>3, <4>1
               DEF skipQuarantinedPath, Shape, TypeOK, IoFault, NoEffect, LoopStep, Loop, ResolverPCs
    <3>. QED BY <3>1, <3>2, <3>3 DEF Command
  <2>. QED BY <2>2, <2>3
<1>stage. CASE StageSide
  <2>. DEFINE added == Add(repo, job.path)
  <2>1. added \in Repos(Len(store)) /\ SameRefs(repo, added)
    BY <1>1, AddType, RefsKept DEF Shape, TypeOK
  <2>2. pc \in Loop /\ UNCHANGED <<origin, pending, mode, promised, lastVer>>
    BY <1>stage DEF StageSide, Loop
  <2>3. CASE /\ RunOrCut(repo' = added /\ UNCHANGED store, "resolve", "resolve")
             /\ Handled(job.path, added)
    <3>1. job' \in Jobs(Len(store)) BY <1>1, <2>3, HandledType DEF Shape
    <3>. HIDE DEF added
    <3>2. /\ store' = store /\ Clock /\ pc' \in {"resolve"}
          /\ repo' \in Repos(Len(store)) /\ SameRefs(repo, repo')
      BY <2>1, <2>3, RunInLoop
    <3>. QED BY <2>2, <3>1, <3>2 DEF LoopStep, Loop, ResolverPCs
  <2>4. CASE IoFault /\ ResolveAfterAll(job.path) BY <1>1, <2>2, <2>4, AfterAllStep
  <2>5. CASE IoFault /\ pc' = "resolve" /\ UNCHANGED job
    <3>1. Clock BY <2>5, SpendType DEF Shape, TypeOK, IoFault, Clock, Events
    <3>. QED BY <1>ownRefs, <2>2, <2>5, <3>1
             DEF Shape, TypeOK, IoFault, NoEffect, LoopStep, Loop, ResolverPCs
  <2>. QED BY <1>stage, <2>3, <2>4, <2>5 DEF StageSide
<1>6. CASE ResolverOpen
  <2>0. job.path \in Files BY <1>6 DEF ResolverOpen, Shape, StepInv, ResolverPCs
  <2>1. CASE /\ repo' = [repo EXCEPT !.work[job.path] = Blank]
             /\ pc' = "resolverWrite" /\ UNCHANGED <<job, left>>
    <3>1. SameRefs(repo, repo')
      BY <1>1, <2>1, RefsKept DEF Shape, TypeOK
    <3>. QED BY <1>3, <1>4, <1>6, <2>0, <2>1, <3>1
             DEF ResolverOpen, Shape, TypeOK, Clock, LoopStep, SameRefs, Loop, ResolverPCs
  <2>2. CASE /\ Spend("io") /\ UNCHANGED repo
             /\ StartResolver(job.path, "yamlOpen") \/ StartQuarantine(job.path)
    <3>1. /\ job' \in Jobs(Len(store)) /\ pc' \in {"yamlOpen", "qRm"}
          /\ pc' = "yamlOpen" => job'.path = job.path
      BY <1>1, <2>0, <2>2, QuarantineType, ResolverType DEF Shape
    <3>2. Clock BY <1>6, <2>2, SpendType DEF ResolverOpen, Shape, TypeOK, Clock, Events
    <3>. QED BY <1>6, <2>0, <2>2, <3>1, <3>2
             DEF ResolverOpen, Shape, TypeOK, LoopStep, SameRefs, Loop, ResolverPCs
  <2>. QED BY <1>6, <2>1, <2>2 DEF ResolverOpen
<1>7. CASE ResolverWrite
  <2>0. job.path \in Files BY <1>7 DEF ResolverWrite, Shape, StepInv, ResolverPCs
  <2>1. CASE /\ repo' = [repo EXCEPT !.work[job.path] = job.blob]
             /\ pc' = "resolverAdd" /\ UNCHANGED <<job, left>>
    <3>1. SameRefs(repo, repo')
      BY <1>1, <2>1, RefsKept DEF Shape, TypeOK
    <3>. QED BY <1>1, <1>3, <1>7, <2>0, <2>1, <3>1
             DEF ResolverWrite, Shape, TypeOK, Clock, LoopStep, SameRefs, Loop, ResolverPCs
  <2>2. CASE Spend("full") /\ StartQuarantine(job.path) /\ UNCHANGED repo
    <3>1. job' \in Jobs(Len(store)) /\ pc' = "qRm"
      BY <2>0, <2>2, QuarantineType DEF Shape
    <3>2. Clock BY <1>7, <2>2, SpendType DEF ResolverWrite, Shape, TypeOK, Clock, Events
    <3>. QED BY <1>7, <2>2, <3>1, <3>2
             DEF ResolverWrite, Shape, TypeOK, LoopStep, SameRefs, Loop, ResolverPCs
  <2>. QED BY <1>7, <2>1, <2>2 DEF ResolverWrite
<1>8. CASE ResolverAdd
  <2>0. job.path \in Files BY <1>8 DEF ResolverAdd, Shape, StepInv, ResolverPCs
  <2>. DEFINE added == Add(repo, job.path)
  <2>1. added \in Repos(Len(store)) BY <1>1, AddType DEF Shape, TypeOK
  <2>keptRefs. SameRefs(repo, added) BY <1>1, RefsKept DEF Shape, TypeOK
  <2>2. CASE /\ RunOrCut(repo' = added /\ UNCHANGED store, "resolve", "resolve")
             /\ Handled(job.path, added)
    <3>1. job' \in Jobs(Len(store)) BY <1>1, <2>2, HandledType DEF Shape
    <3>2. Clock BY <2>2, SpendType DEF Shape, TypeOK, RunOrCut, Cut, Clock, Events
    <3>3. repo' \in {added, repo, Locked} /\ store' = store /\ pc' = "resolve"
      BY <2>2 DEF RunOrCut, NoEffect, Locked
    <3>4. SameRefs(repo, repo') BY <1>ownRefs, <2>keptRefs, <3>3
    <3>. HIDE DEF added
    <3>. QED BY <1>2, <1>8, <2>1, <3>1, <3>2, <3>3, <3>4
             DEF ResolverAdd, Shape, TypeOK, LoopStep, SameRefs, Loop, ResolverPCs
  <2>3. CASE IoFault /\ StartQuarantine(job.path)
    <3>1. job' \in Jobs(Len(store)) /\ pc' = "qRm"
      BY <2>0, <2>3, QuarantineType DEF Shape
    <3>2. Clock BY <2>3, SpendType DEF IoFault, Shape, TypeOK, Clock, Events
    <3>. QED BY <1>8, <2>3, <3>1, <3>2
             DEF ResolverAdd, IoFault, NoEffect, Shape, TypeOK, LoopStep, SameRefs, Loop, ResolverPCs
  <2>. QED BY <1>8, <2>2, <2>3 DEF ResolverAdd
<1>. QED BY <1>5, <1>stage, <1>6, <1>7, <1>8

\* So do the four commands of quarantineOne.
LEMMA QuarantineStep ==
  ASSUME Shape, \/ QuarantineRm \/ QuarantineWrite \/ QuarantineAdd
                \/ QuarantineRestore \/ QuarantineDone \/ ensureConflictsDir
  PROVE  LoopStep
<1>1. /\ Len(store) \in Nat /\ job.path \in Path /\ job.dest \in Path /\ job.blob \in Blob
      /\ repo.head \in 1..Len(store)
  BY TypeFacts DEF Shape
<1>2. Locked \in Repos(Len(store)) BY <1>1, RepoUpdates DEF Shape, TypeOK, Locked
<1>3. SameRefs(repo, Locked) /\ SameRefs(repo, repo)
  BY <1>1, RefsKept DEF Shape, TypeOK, Locked
<1>4. CASE QuarantineRm
  <2>. DEFINE q == Rm(repo, job.path)
  <2>1. q \in Repos(Len(store)) BY <1>1, <1>1, AddType, TakeType DEF Shape, TypeOK, Blob, Absent
  <2>2. SameRefs(repo, q) BY <1>1, RefsKept DEF Shape, TypeOK
  <2>3. Clock
    BY <1>4, SpendType
       DEF QuarantineRm, Shape, TypeOK, Command, RunOrCut, IoFault, Cut, Clock, Events
  <2>4. repo' \in {q, repo, Locked} /\ store' = store /\ pc' \in {"qWrite", "resolve"}
    BY <1>4
       DEF QuarantineRm, Command, RunOrCut, IoFault, NoEffect, Locked, AfterQuarantineAdd
  <2>. HIDE DEF q
  <2>. QED BY <1>2, <1>3, <1>4, <2>1, <2>2, <2>3, <2>4
           DEF QuarantineRm, Shape, TypeOK, LoopStep, Loop, ResolverPCs
<1>5. CASE QuarantineAdd
  <2>. DEFINE q == Add(repo, job.dest)
  <2>1. q \in Repos(Len(store)) BY <1>1, AddType DEF Shape, TypeOK
  <2>2. SameRefs(repo, q) BY <1>1, RefsKept DEF Shape, TypeOK
  <2>3. Clock
    BY <1>5, SpendType
       DEF QuarantineAdd, Shape, TypeOK, Command, RunOrCut, IoFault, Cut, Clock, Events
  <2>4. repo' \in {q, repo, Locked} /\ store' = store /\ pc' \in {"qRestore", "resolve"}
    BY <1>5
       DEF QuarantineAdd, Command, RunOrCut, IoFault, NoEffect, Locked, AfterQuarantineAdd
  <2>. HIDE DEF q
  <2>. QED BY <1>2, <1>3, <1>5, <2>1, <2>2, <2>3, <2>4
           DEF QuarantineAdd, Shape, TypeOK, LoopStep, Loop, ResolverPCs
<1>6. CASE QuarantineRestore
  <2>. DEFINE q == TakeVersion(repo, job.path, HeadTree(store, repo)[job.path])
  <2>1. q \in Repos(Len(store)) BY <1>1, TakeType, TreeOf, TreeUpdates DEF Shape, TypeOK, HeadTree
  <2>2. SameRefs(repo, q) BY <1>1, RefsKept DEF Shape, TypeOK
  <2>3. Clock
    BY <1>6, SpendType
       DEF QuarantineRestore, Shape, TypeOK, Command, RunOrCut, IoFault, Cut, Clock, Events
  <2>4. repo' \in {q, repo, Locked} /\ store' = store /\ pc' \in {"restored", "resolve"}
    BY <1>6
       DEF QuarantineRestore, Command, RunOrCut, IoFault, NoEffect, Locked, AfterQuarantineAdd
  <2>. HIDE DEF q
  <2>. QED BY <1>2, <1>3, <1>6, <2>1, <2>2, <2>3, <2>4
           DEF QuarantineRestore, Shape, TypeOK, LoopStep, Loop, ResolverPCs
<1>7. CASE QuarantineWrite
  <2>. DEFINE q == [repo EXCEPT !.work[job.dest] = job.blob]
  <2>1. q \in Repos(Len(store)) BY <1>1 DEF Shape, TypeOK, Repos, Trees
  <2>2. SameRefs(repo, q) BY <1>1, RefsKept DEF Shape, TypeOK
  <2>3. Clock BY <1>7, SpendType DEF QuarantineWrite, Shape, TypeOK, Clock, Events
  <2>4. repo' \in {q, repo} /\ pc' \in {"qAdd", "resolve"} BY <1>7 DEF QuarantineWrite
  <2>. HIDE DEF q
  <2>. QED BY <1>3, <1>7, <2>1, <2>2, <2>3, <2>4
           DEF QuarantineWrite, Shape, TypeOK, LoopStep, Loop, ResolverPCs
<1>8. CASE QuarantineDone
  <2>1. job' \in Jobs(Len(store)) BY <1>8 DEF QuarantineDone, Shape, TypeOK, Jobs
  <2>. QED BY <1>3, <1>8, <2>1
           DEF QuarantineDone, Shape, TypeOK, Clock, LoopStep, Loop, ResolverPCs
<1>9. CASE ensureConflictsDir
  <2>1. job' \in Jobs(Len(store)) BY <1>9 DEF ensureConflictsDir, classifyConflicts, Shape, TypeOK, Jobs
  <2>2. Clock BY <1>9, SpendType DEF ensureConflictsDir, classifyConflicts, Shape, TypeOK, Clock, Events
  <2>. QED BY <1>3, <1>9, <2>1, <2>2
           DEF ensureConflictsDir, Shape, TypeOK, LoopStep, Loop, ResolverPCs
<1>. QED BY <1>4, <1>5, <1>6, <1>7, <1>8, <1>9

\* The steps of the conflict loop, all but its last.
Looping ==
    \/ ensureConflictsDir \/ resolveEachPath
    \/ skipQuarantinedPath \/ StageSide \/ ResolverOpen \/ ResolverWrite \/ ResolverAdd
    \/ QuarantineRm \/ QuarantineWrite \/ QuarantineAdd \/ QuarantineRestore
    \/ QuarantineDone

\* Every step of resolveConflictMerge before its commit keeps the shape and the refs.
LEMMA LoopSteps ==
  ASSUME Shape, Looping
  PROVE  LoopStep /\ pc \in Loop
<1>1. LoopStep BY EachPathStep, ResolverStep, QuarantineStep DEF Looping
<1>2. pc \in Loop
  BY DEF Looping, Loop, ensureConflictsDir, resolveEachPath, skipQuarantinedPath, StageSide,
         ResolverOpen, ResolverWrite, ResolverAdd, QuarantineRm, QuarantineWrite, QuarantineAdd,
         QuarantineRestore, QuarantineDone
<1>. QED BY <1>1, <1>2

---------------------------------------------------------------------------
(* Types: the pull *)

\* The start of a pull, its repairs, its fetch and its fast-forward.
LEMMA PullShape ==
  ASSUME Shape, \/ StartPull \/ cleanupStaleLocksForCycle \/ recoverRepoState
                \/ syncWithUpstream \/ fastForwardOrRescue \/ commitAndPushMerge
  PROVE  Shape'
<1>. USE DEF Shape
<1>1. /\ Len(store) \in Nat /\ NoJob \in Jobs(Len(store)) /\ origin.main \in 1..Len(store)
      /\ repo.tracking \in 1..Len(store)
  BY NoJobType, TypeFacts
<1>2. Locked \in Repos(Len(store)) BY <1>1, RepoUpdates DEF TypeOK, Locked
<1>3. CASE StartPull
  <2>1. job' \in Jobs(Len(store)) BY <1>1, <1>3 DEF StartPull, Start, Jobs, JobKinds
  <2>. QED BY <1>3, <2>1 DEF TypeOK, StartPull, Start, StepInv, PCs, Loop, ResolverPCs
<1>4. CASE cleanupStaleLocksForCycle
  <2>1. (repo.lock /\ ctxDone) \in BOOLEAN BY Zenon
  <2>2. repo' \in Repos(Len(store))
    BY <1>1, <1>4, <2>1, RepoUpdates DEF TypeOK, cleanupStaleLocksForCycle
  <2>. QED BY <1>4, <2>2
           DEF TypeOK, cleanupStaleLocksForCycle, StepInv, PCs, Loop, ResolverPCs
<1>5. CASE recoverRepoState
  <2>1. MergeAbort(store, repo) \in Repos(Len(store)) BY MergeAbortType DEF TypeOK
  <2>2. left' \in [Events -> Nat] /\ ctxDone' \in BOOLEAN
    BY <1>5, SpendType DEF TypeOK, recoverRepoState, Command, RunOrCut, IoFault, Cut, Events
  <2>3. repo' \in {MergeAbort(store, repo), repo, Locked} /\ store' = store
    BY <1>5 DEF recoverRepoState, Command, RunOrCut, IoFault, NoEffect, Locked
  <2>4. pc' \in {"failed", "fetch"} BY <1>5 DEF recoverRepoState, Command, RunOrCut
  <2>. QED BY <1>2, <1>5, <2>1, <2>2, <2>3, <2>4
           DEF TypeOK, recoverRepoState, StepInv, PCs, Loop, ResolverPCs
<1>6. CASE syncWithUpstream
  <2>1. left' \in [Events -> Nat] /\ ctxDone' \in BOOLEAN
    BY <1>6, SpendType DEF TypeOK, syncWithUpstream, RemoteCommand, Cut, Events
  <2>2. [repo EXCEPT !.tracking = origin.main] \in Repos(Len(store))
    BY <1>1, RepoUpdates DEF TypeOK
  <2>3. repo' \in Repos(Len(store)) /\ origin' = origin
    BY <1>6, <2>2 DEF TypeOK, syncWithUpstream, RemoteCommand, Fetch
  <2>4. pc' \in {"done", "ff", "push", "merge", "failed"}
    BY <1>6 DEF syncWithUpstream, RemoteCommand, SyncCase
  <2>5. 1 \in 1..PushMaxAttempts BY WriteConfig DEF WriteConfig
  <2>6. job' \in Jobs(Len(store)) BY <1>6, <2>5 DEF TypeOK, syncWithUpstream, Jobs
  <2>. QED BY <1>6, <2>1, <2>3, <2>4, <2>6
           DEF TypeOK, syncWithUpstream, StepInv, PCs, Loop, ResolverPCs
<1>7. CASE fastForwardOrRescue
  <2>1. FastForward(store, repo, repo.tracking) \in Repos(Len(store))
    BY <1>1, FastForwardType DEF TypeOK
  <2>2. left' \in [Events -> Nat] /\ ctxDone' \in BOOLEAN
    BY <1>7, SpendType DEF TypeOK, fastForwardOrRescue, RunOrCut, IoFault, Cut, Events
  <2>3. repo' \in {FastForward(store, repo, repo.tracking), repo, Locked} /\ store' = store
    BY <1>7 DEF fastForwardOrRescue, RunOrCut, IoFault, NoEffect, Locked
  <2>4. pc' \in {"failed", "rescueCommit", "done"} BY <1>7 DEF fastForwardOrRescue, RunOrCut
  <2>. QED BY <1>2, <1>7, <2>1, <2>2, <2>3, <2>4
           DEF TypeOK, fastForwardOrRescue, StepInv, PCs, Loop, ResolverPCs
<1>8. CASE commitAndPushMerge
  <2>1. left' \in [Events -> Nat] /\ ctxDone' \in BOOLEAN
    BY <1>8, SpendType DEF TypeOK, commitAndPushMerge, Command, RunOrCut, IoFault, Cut, Events
  <2>2. pc' \in {"push", "abort"} BY <1>8 DEF commitAndPushMerge, Command, RunOrCut
  <2>3. CommitHead \/ (store' = store /\ repo' \in {repo, Locked})
    BY <1>8 DEF commitAndPushMerge, Command, RunOrCut, IoFault, NoEffect, Locked
  <2>4. /\ store' \in Seq(CommitRecords) /\ Len(store') \in {Len(store), Len(store) + 1}
        /\ repo' \in Repos(Len(store'))
    BY <1>2, <2>3, CommitHeadType DEF TypeOK
  <2>. QED BY <1>8, <2>1, <2>2, <2>4, AppendKeepsTypes
           DEF TypeOK, commitAndPushMerge, StepInv, PCs, Loop, ResolverPCs
<1>. QED BY <1>3, <1>4, <1>5, <1>6, <1>7, <1>8

---------------------------------------------------------------------------
(* Types: the life of the process *)

\* Returns, SIGTERM, exit, crash and boot.
LEMMA LifeShape ==
  ASSUME Shape, \/ Return \/ Sigterm \/ ShutdownFlush \/ Exit \/ Crash \/ Boot
  PROVE  Shape'
<1>. USE DEF Shape
<1>1. Len(store) \in Nat /\ NoJob \in Jobs(Len(store)) BY NoJobType, TypeFacts
<1>2. CASE Return
  <2>1. job' \in Jobs(Len(store))
    <3>1. [NoJob EXCEPT !.kind = "pull", !.phase = "flush"] \in Jobs(Len(store))
      BY <1>1 DEF Jobs, JobKinds
    <3>. QED BY <1>1, <1>2, <3>1 DEF Return, Finish
  <2>2. ctxDone' \in BOOLEAN /\ pc' \in {"flush", "idle"} BY <1>2 DEF Return, Finish
  <2>3. mode' \in Modes BY <1>2 DEF Return, TypeOK, Modes
  <2>. QED BY <1>2, <2>1, <2>2, <2>3 DEF TypeOK, Return, StepInv, PCs, Loop, ResolverPCs
<1>3. CASE Sigterm
  <2>1. (ctxDone \/ job.kind \in {"tick", "pull"}) \in BOOLEAN BY Zenon
  <2>2. ctxDone' \in BOOLEAN /\ mode' \in Modes BY <1>3, <2>1 DEF Sigterm, TypeOK, Modes
  <2>3. left' \in [Events -> Nat] BY <1>3, SpendType DEF Sigterm, TypeOK, Events
  <2>. QED BY <1>3, <2>2, <2>3 DEF TypeOK, Sigterm, StepInv
<1>4. CASE ShutdownFlush
  <2>1. job' \in Jobs(Len(store)) BY <1>1, <1>4 DEF ShutdownFlush, Start, Jobs, JobKinds
  <2>. QED BY <1>4, <2>1 DEF TypeOK, ShutdownFlush, Start, StepInv, PCs, Loop, ResolverPCs
<1>5. CASE Exit \/ Crash
  <2>1. Die /\ left' \in [Events -> Nat] BY <1>5, SpendType DEF Exit, Crash, TypeOK, Events
  <2>. QED BY <1>1, <2>1 DEF TypeOK, Die, Finish, StepInv, PCs, Modes, Loop, ResolverPCs
<1>6. CASE Boot
  <2>1. job' \in Jobs(Len(store)) BY <1>1, <1>6 DEF Boot, Jobs, JobKinds
  <2>2. repo' \in Repos(Len(store)) BY <1>1, <1>6, RepoUpdates DEF Boot, TypeOK
  <2>3. pc' \in {"addAll", "staged?"} BY <1>6 DEF Boot
  <2>. QED BY <1>6, <2>1, <2>2, <2>3 DEF TypeOK, Boot, StepInv, PCs, Modes, Loop, ResolverPCs
<1>. QED BY <1>2, <1>3, <1>4, <1>5, <1>6

\* The recoveries of a boot keep the shape.
LEMMA RecoverShape ==
  ASSUME Shape, AddAllUntracked \/ CommitUntracked \/ RecoverPendingWrites
  PROVE  Shape'
<1>. USE DEF Shape
<1>1. Len(store) \in Nat /\ job.path \in Path BY TypeFacts
<1>2. Locked \in Repos(Len(store)) BY <1>1, RepoUpdates DEF TypeOK, Locked
<1>3. CASE AddAllUntracked
  <2>1. AddAll(repo) \in Repos(Len(store)) BY <1>1, AddType DEF TypeOK
  <2>2. left' \in [Events -> Nat] /\ ctxDone' \in BOOLEAN
    BY <1>3, SpendType DEF TypeOK, AddAllUntracked, Command, RunOrCut, IoFault, Cut, Events
  <2>3. repo' \in {AddAll(repo), repo, Locked} /\ store' = store
    BY <1>3 DEF AddAllUntracked, Command, RunOrCut, IoFault, NoEffect, Locked
  <2>4. pc' \in {"commitAll", "staged?"} BY <1>3 DEF AddAllUntracked, Command, RunOrCut
  <2>. QED BY <1>2, <1>3, <2>1, <2>2, <2>3, <2>4
           DEF TypeOK, AddAllUntracked, StepInv, PCs, Loop, ResolverPCs
<1>4. CASE CommitUntracked
  <2>1. left' \in [Events -> Nat] /\ ctxDone' \in BOOLEAN
    BY <1>4, SpendType DEF TypeOK, CommitUntracked, Command, RunOrCut, IoFault, Cut, Events
  <2>2. pc' = "staged?" BY <1>4 DEF CommitUntracked, Command, RunOrCut
  <2>3. CommitHead \/ (store' = store /\ repo' \in {repo, Locked})
    BY <1>4 DEF CommitUntracked, Command, RunOrCut, IoFault, NoEffect, Locked
  <2>4. /\ store' \in Seq(CommitRecords) /\ Len(store') \in {Len(store), Len(store) + 1}
        /\ repo' \in Repos(Len(store'))
    BY <1>2, <2>3, CommitHeadType DEF TypeOK
  <2>. QED BY <1>4, <2>1, <2>2, <2>4, AppendKeepsTypes
           DEF TypeOK, CommitUntracked, StepInv, PCs, Loop, ResolverPCs
<1>5. CASE RecoverPendingWrites
  <2>1. pc' \in {"done", "commit"} BY <1>5 DEF RecoverPendingWrites
  <2>. QED BY <1>5, <2>1 DEF TypeOK, RecoverPendingWrites, StepInv, PCs, Loop, ResolverPCs
<1>. QED BY <1>3, <1>4, <1>5

\* So does the push of another clone.
LEMMA UpstreamShape ==
  ASSUME Shape, NEW p \in Path, UpstreamCommit(p)
  PROVE  /\ Shape'
         /\ \E t \in Trees : store' = WithCommit(store, t, {origin.main})
         /\ origin' = [origin EXCEPT !.main = Len(store) + 1]
<1>. USE DEF Shape
<1>1. Len(store) \in Nat /\ origin.main \in 1..Len(store) BY TypeFacts
<1>2. PICK b \in {Absent, {lastVer + 1}} :
          /\ store' = WithCommit(store, [store[origin.main].tree EXCEPT ![p] = b], {origin.main})
          /\ lastVer' = IF b = Absent THEN lastVer ELSE lastVer + 1
  BY DEF UpstreamCommit
<1>3. b \in Blob /\ lastVer' \in Nat BY <1>2 DEF TypeOK, Blob, Absent
<1>. DEFINE t == [store[origin.main].tree EXCEPT ![p] = b]
<1>4. t \in Trees BY <1>1, <1>3, TreeOf, TreeUpdates DEF TypeOK
<1>5. store' = WithCommit(store, t, {origin.main}) BY <1>2
<1>. HIDE DEF t
<1>6. store' \in Seq(CommitRecords) /\ Len(store') = Len(store) + 1
  BY <1>1, <1>4, <1>5, WithCommitFacts DEF TypeOK
<1>7. /\ repo \in Repos(Len(store')) /\ origin \in Origins(Len(store'))
      /\ job \in Jobs(Len(store'))
  BY <1>6, AppendKeepsTypes
<1>8. origin' \in Origins(Len(store'))
  <2>1. Len(store) + 1 \in 1..Len(store') BY <1>1, <1>6
  <2>. QED BY <1>7, <2>1 DEF UpstreamCommit, Origins
<1>9. left' \in [Events -> Nat] BY SpendType DEF UpstreamCommit, TypeOK, Events
<1>10. TypeOK' BY <1>3, <1>6, <1>7, <1>8, <1>9 DEF UpstreamCommit, TypeOK
<1>11. StepInv' BY DEF UpstreamCommit, StepInv
<1>. QED BY <1>4, <1>5, <1>10, <1>11 DEF UpstreamCommit

\* A server that has just started is well formed.
LEMMA InitShape == Init => Shape
<1>. SUFFICES ASSUME Init PROVE Shape OBVIOUS
<1>1. InitTree \in Trees BY DEF InitTree, Trees, Blob, Absent
<1>2. store \in Seq(CommitRecords) /\ Len(store) = 1
  <2>1. [tree |-> InitTree, anc |-> {1}] \in CommitRecords BY <1>1 DEF CommitRecords
  <2>. QED BY <2>1 DEF Init
<1>3. repo \in Repos(1) BY <1>1 DEF Init, Repos, NoCommit
<1>4. origin \in Origins(1) BY DEF Init, Origins
<1>5. job \in Jobs(1) BY NoJobType DEF Init
<1>6. promised \in [Path -> SUBSET Nat] BY DEF Init
<1>7. left \in [Events -> Nat] BY WriteConfig DEF Init, WriteConfig
<1>8. TypeOK BY <1>2, <1>3, <1>4, <1>5, <1>6, <1>7 DEF Init, TypeOK, PCs, Modes
<1>. QED BY <1>8 DEF Init, Shape, StepInv, Loop, ResolverPCs

\* Every step keeps the shape.
LEMMA ShapeStep == Shape /\ [Next]_vars => Shape'
<1>. SUFFICES ASSUME Shape, [Next]_vars PROVE Shape' OBVIOUS
<1>1. CASE WriteNext
  <2>1. ClientPaths \subseteq Path BY DEF ClientPaths, Path
  <2>. QED BY <1>1, <2>1, ClientShape, StageShape, DeleteShape, CommitShape, PushShape,
              MergeShape, RescueShape DEF WriteNext
<1>2. CASE PullNext BY <1>2, PullShape, LoopSteps, LoopShape DEF PullNext, Looping
<1>3. CASE ProcessNext \/ Sigterm \/ Crash BY <1>3, LifeShape, RecoverShape DEF ProcessNext
<1>4. CASE \E p \in Path : UpstreamCommit(p) BY <1>4, UpstreamShape
<1>5. CASE UNCHANGED vars BY <1>5 DEF vars, Shape, TypeOK, StepInv
<1>. QED BY <1>1, <1>2, <1>3, <1>4, <1>5 DEF Next

\* The states are well formed, always.
LEMMA ShapeInvariant == Spec => []Shape
BY InitShape, ShapeStep, PTL DEF Spec

\* Every state of the server is well formed.
THEOREM TypeCorrect == Spec => []TypeOK
BY ShapeInvariant, PTL DEF Shape

---------------------------------------------------------------------------
(* History *)

\* What a step may do to the store: nothing, or one commit with a parent.
StoreGrows ==
    \/ store' = store
    \/ \E t \in Trees, P \in SUBSET Commits : P # {} /\ store' = WithCommit(store, t, P)

\* What a step may do to HEAD: nothing, a commit on top of it, or a move to a descendant.
HeadMoves ==
    \/ repo'.head = repo.head
    \/ \E t \in Trees, P \in SUBSET Commits :
          /\ store' = WithCommit(store, t, P)
          /\ repo.head \in P /\ repo'.head = Len(store) + 1
    \/ store' = store /\ repo'.head \in Commits /\ repo.head \in store[repo'.head].anc

\* Commits are never changed.
LEMMA StoreKept ==
  ASSUME TypeOK, StoreGrows
  PROVE  \A c \in Commits : c \in 1..Len(store') /\ store'[c] = store[c]
<1>1. Len(store) \in Nat BY TypeFacts
<1>. QED BY <1>1, WithCommitFacts DEF TypeOK, StoreGrows, Commits

\* Every step keeps the order of the history.
LEMMA HistoryStep ==
  ASSUME TypeOK, HistoryInv, StoreGrows
  PROVE  HistoryInv'
<1>1. Len(store) \in Nat BY TypeFacts
<1>2. CASE store' = store BY <1>2 DEF HistoryInv, Commits
<1>3. ASSUME NEW t \in Trees, NEW P \in SUBSET Commits, P # {},
             store' = WithCommit(store, t, P)
      PROVE  HistoryInv'
  <2>. DEFINE n == Len(store)
  <2>1. /\ Len(store') = n + 1 /\ \A c \in 1..n : store'[c] = store[c]
        /\ store'[n + 1].anc = History(store, P) \cup {n + 1}
    <3>1. P \in SUBSET (1..Len(store)) BY DEF Commits
    <3>. QED BY <1>3, <3>1, WithCommitFacts DEF TypeOK
  <2>2. History(store, P) \subseteq 1..n
    <3>1. SUFFICES ASSUME NEW x \in History(store, P) PROVE x \in 1..n OBVIOUS
    <3>2. PICK c \in P : x \in store[c].anc BY HistoryMember
    <3>3. c \in 1..n /\ x \in 1..c BY <1>3, <3>2 DEF Commits, HistoryInv
    <3>. QED BY <1>1, <3>3
  <2>3. 1 \in History(store, P)
    <3>1. PICK c \in P : TRUE BY <1>3
    <3>2. 1 \in store[c].anc BY <1>3, <3>1 DEF Commits, HistoryInv
    <3>. QED BY <3>1, <3>2, HistoryMember
  <2>4. ASSUME NEW c \in 1..n + 1
        PROVE  {1, c} \subseteq store'[c].anc /\ store'[c].anc \subseteq 1..c
    <3>1. CASE c \in 1..n BY <2>1, <3>1 DEF HistoryInv, Commits
    <3>2. CASE c = n + 1 BY <1>1, <2>1, <2>2, <2>3, <3>2
    <3>. QED BY <1>1, <3>1, <3>2
  <2>. QED BY <2>1, <2>4 DEF HistoryInv, Commits
<1>. QED BY <1>2, <1>3 DEF StoreGrows

\* Where HEAD stays or moves to a descendant, it takes no commit out of the history.
LEMMA HeadAdvances ==
  ASSUME TypeOK, HistoryInv, StoreGrows, HeadMoves
  PROVE  repo.head \in store'[repo'.head].anc
<1>1. Len(store) \in Nat /\ repo.head \in Commits BY TypeFacts DEF Commits
<1>2. repo.head \in store[repo.head].anc BY <1>1 DEF HistoryInv
<1>3. CASE repo'.head = repo.head BY <1>1, <1>2, <1>3, StoreKept
<1>4. ASSUME NEW t \in Trees, NEW P \in SUBSET Commits,
             store' = WithCommit(store, t, P), repo.head \in P, repo'.head = Len(store) + 1
      PROVE  repo.head \in store'[repo'.head].anc
  <2>1. store'[repo'.head].anc = History(store, P) \cup {Len(store) + 1}
    BY <1>4, WithCommitFacts DEF TypeOK, Commits
  <2>2. repo.head \in History(store, P) BY <1>2, <1>4, HistoryMember
  <2>. QED BY <2>1, <2>2
<1>. QED BY <1>3, <1>4 DEF HeadMoves

\* The highest common ancestor is a common ancestor.
LEMMA MergeBaseCommon ==
  ASSUME TypeOK, HistoryInv, NEW a \in Commits, NEW b \in Commits
  PROVE  MergeBase(store, a, b) \in store[a].anc \cap store[b].anc
<1>. DEFINE S == store[a].anc \cap store[b].anc
            T == {a - c : c \in S}
<1>1. Len(store) \in Nat /\ a \in Nat BY TypeFacts DEF Commits
<1>2. 1 \in S /\ S \subseteq 1..a BY DEF HistoryInv
<1>3. T \subseteq Nat /\ T # {} BY <1>1, <1>2
<1>4. PICK m \in T : \A k \in T : <<k, m>> \notin OpToRel(<, Nat)
  BY <1>3, WFMin, NatLessThanWellFounded
<1>5. PICK c \in S : m = a - c BY <1>4
<1>6. \A d \in S : d <= c
  <2>1. SUFFICES ASSUME NEW d \in S PROVE d <= c OBVIOUS
  <2>2. a - d \in T /\ a - d \in Nat /\ m \in Nat BY <1>3, <1>4
  <2>3. ~(a - d < m) BY <1>4, <2>2 DEF OpToRel
  <2>. QED BY <1>1, <1>2, <1>5, <2>3
<1>. QED BY <1>6 DEF MergeBase

---------------------------------------------------------------------------
(* Refs and the working tree *)

\* Where the operators leave the refs.
LEMMA ForwardRefs ==
  ASSUME NEW s, NEW n \in Nat, NEW r \in Repos(n), NEW u
  PROVE  /\ FastForward(s, r, u).head = u
         /\ FastForward(s, r, u).tracking = r.tracking
         /\ FastForward(s, r, u).merge = r.merge
         /\ FastForward(s, r, u).unmerged = r.unmerged
BY DEF FastForward, Repos

\* merge --abort moves no branch.
LEMMA AbortRefs ==
  ASSUME NEW s, NEW n \in Nat, NEW r \in Repos(n)
  PROVE  /\ MergeAbort(s, r).head = r.head
         /\ MergeAbort(s, r).tracking = r.tracking
         /\ MergeAbort(s, r).merge = NoCommit
         /\ MergeAbort(s, r).unmerged = {}
BY DEF MergeAbort, Repos

\* A commit is at HEAD and ends the merge.
LEMMA NewCommitRefs ==
  ASSUME NEW s, NEW n \in Nat, NEW r \in Repos(n)
  PROVE  /\ AtNewCommit(s, r).head = Len(s) + 1
         /\ AtNewCommit(s, r).merge = NoCommit
         /\ AtNewCommit(s, r).unmerged = r.unmerged
BY DEF AtNewCommit, Repos

\* A merge that stops on a conflict leaves the branches where they are.
LEMMA OpenRefs ==
  ASSUME NEW s, NEW n \in Nat, NEW r \in Repos(n), NEW u, NEW auto
  PROVE  /\ MergeInto(s, r, u, auto).head = r.head
         /\ MergeInto(s, r, u, auto).tracking = r.tracking
         /\ MergeInto(s, r, u, auto).merge = u
BY DEF MergeInto, Repos

\* reset --hard leaves HEAD's content in every tracked file.
LEMMA ResetTree ==
  ASSUME NEW s \in Seq(CommitRecords), NEW r \in Repos(Len(s)), NEW c \in 1..Len(s)
  PROVE  LET q == ResetHard(s, r, c)
         IN /\ q.head = c /\ q.tracking = r.tracking /\ q.merge = NoCommit /\ q.unmerged = {}
            /\ q.index = s[c].tree
            /\ \A p \in Path : q.index[p] # Absent => q.work[p] = q.index[p]
<1>. DEFINE w == [p \in Path |-> IF p \in Untracked(r) /\ s[c].tree[p] = Absent
                                 THEN r.work[p] ELSE s[c].tree[p]]
            q == ResetHard(s, r, c)
<1>1. q = [r EXCEPT !.head = c, !.merge = NoCommit, !.unmerged = {},
                    !.index = s[c].tree, !.work = w]
  BY DEF ResetHard
<1>2. \A p \in Path : s[c].tree[p] # Absent => w[p] = s[c].tree[p] OBVIOUS
<1>. HIDE DEF w
<1>3. /\ q.head = c /\ q.tracking = r.tracking /\ q.merge = NoCommit /\ q.unmerged = {}
      /\ q.index = s[c].tree /\ q.work = w
  BY <1>1 DEF Repos
<1>. HIDE DEF q
<1>. QED BY <1>2, <1>3 DEF q

\* clean -fd removes what reset --hard left: the tree is clean.
LEMMA CleanedTree ==
  ASSUME NEW s, NEW n \in Nat, NEW r \in Repos(n), r.unmerged = {}, r.index = HeadTree(s, r),
         \A p \in Path : r.index[p] # Absent => r.work[p] = r.index[p]
  PROVE  LET q == CleanUntracked(r)
         IN /\ q.head = r.head /\ q.tracking = r.tracking /\ q.merge = r.merge
            /\ q.unmerged = {} /\ ~Dirty(s, q)
<1>. DEFINE q == CleanUntracked(r)
            w == [p \in Path |-> IF r.index[p] = Absent THEN Absent ELSE r.work[p]]
<1>1. q = [r EXCEPT !.work = w] BY DEF CleanUntracked
<1>2. \A p \in Path : w[p] = r.index[p] OBVIOUS
<1>. HIDE DEF w
<1>3. /\ q.head = r.head /\ q.tracking = r.tracking /\ q.merge = r.merge
      /\ q.unmerged = {} /\ q.index = r.index /\ q.work = w
  BY <1>1 DEF Repos
<1>. HIDE DEF q
<1>4. Unstaged(q) = {} BY <1>2, <1>3 DEF Unstaged
<1>5. StagedPaths(s, q) = {} BY <1>3 DEF StagedPaths, HeadTree
<1>6. ~Dirty(s, q) BY <1>4, <1>5 DEF Dirty
<1>. QED BY <1>3, <1>6 DEF q

---------------------------------------------------------------------------
(* The steps *)

\* What each step is shown to do.
Kept == StoreGrows /\ HeadMoves /\ Core'

\* The places of which the invariant says something, apart from the kind of the job.
Watched == {"ff", "merge", "rescueCommit", "rescuePush", "rescueReset", "rescueClean",
            "locks", "recover", "fetch", "push", "pushed", "done"}

\* A step to anywhere else.
LEMMA Elsewhere ==
  ASSUME pc' \notin Watched, KindInv', repo'.merge = NoCommit => repo'.unmerged = {}
  PROVE  Core'
BY DEF Watched, Core, CallerInv, AheadInv, RescueInv, OnceInv, MergeInv, DoneInv, RescuePCs

\* A step that only stages or resolves, to anywhere else.
LEMMA StagingKept ==
  ASSUME Core, pc' \notin Watched, KindInv', UNCHANGED store, SameRefs(repo, repo')
  PROVE  Kept
<1>1. repo'.merge = NoCommit => repo'.unmerged = {} BY DEF Core, MergeInv, SameRefs
<1>2. StoreGrows /\ HeadMoves BY DEF StoreGrows, HeadMoves, SameRefs
<1>. QED BY <1>1, <1>2, Elsewhere DEF Kept

\* A request that starts keeps the invariant.
LEMMA ClientKept ==
  ASSUME Shape, Core, NEW p \in Path, WriteFile(p) \/ WriteFileIfAbsent(p) \/ DeleteFile(p)
  PROVE  Kept
<1>1. NoJob \in Jobs(0) BY NoJobType
<1>2. UNCHANGED <<store, repo>> /\ pc' \in {"idle", "open", "flush"}
  BY DEF WriteFile, WriteFileIfAbsent, DeleteFile, writeFileLocked, Start
<1>3. pc' = "open" => job'.kind = "write"
  BY <1>1 DEF WriteFile, WriteFileIfAbsent, DeleteFile, writeFileLocked, Start, Jobs
<1>4. pc' = "flush" => job'.phase = "flush"
  BY <1>1 DEF WriteFile, WriteFileIfAbsent, DeleteFile, writeFileLocked, Start, Jobs
<1>5. KindInv' BY <1>2, <1>3, <1>4 DEF KindInv
<1>6. SameRefs(repo, repo') BY <1>2 DEF SameRefs
<1>. QED BY <1>2, <1>5, <1>6, StagingKept DEF Watched

\* So do the steps of WriteFile.
LEMMA StageKept ==
  ASSUME Shape, Core, TruncateFile \/ WriteContent \/ StageWrite \/ enqueuePendingLocked
  PROVE  Kept
<1>1. Len(store) \in Nat /\ job.path \in Path BY TypeFacts DEF Shape
<1>2. SameRefs(repo, Locked) /\ SameRefs(repo, repo) /\ SameRefs(repo, Add(repo, job.path))
  BY <1>1, RefsKept DEF Shape, TypeOK, Locked
<1>3. \A b : SameRefs(repo, [repo EXCEPT !.work[job.path] = b])
  BY <1>1, RefsKept DEF Shape, TypeOK
<1>4. CASE TruncateFile \/ WriteContent
  <2>1. UNCHANGED <<store, job>> /\ pc' \in {"write", "add", "failed"}
    BY <1>4 DEF TruncateFile, WriteContent, OnDisk
  <2>2. SameRefs(repo, repo') BY <1>2, <1>3, <1>4 DEF TruncateFile, WriteContent, OnDisk
  <2>3. KindInv' BY <1>4, <2>1 DEF TruncateFile, WriteContent, Core, KindInv
  <2>. QED BY <2>1, <2>2, <2>3, StagingKept DEF Watched
<1>5. CASE StageWrite
  <2>1. UNCHANGED <<store, job>> /\ pc' \in {"staged", "failed"} /\ SameRefs(repo, repo')
    BY <1>2, <1>5 DEF StageWrite, Command, RunOrCut, IoFault, NoEffect, Locked
  <2>2. KindInv' BY <1>5, <2>1 DEF StageWrite, Core, KindInv
  <2>. QED BY <2>1, <2>2, StagingKept DEF Watched
<1>6. CASE enqueuePendingLocked
  <2>1. UNCHANGED <<store, repo>> /\ pc' \in {"idle", "commit"} /\ (pc' = "commit" => job' = job)
    BY <1>6 DEF enqueuePendingLocked, Finish
  <2>2. KindInv' BY <1>6, <2>1 DEF enqueuePendingLocked, Core, KindInv
  <2>. QED BY <1>2, <2>1, <2>2, StagingKept DEF Watched
<1>. QED BY <1>4, <1>5, <1>6

\* The end of a flush: a pull goes on to its locks, and no merge was ever rescued.
LEMMA FlushReturnsKept ==
  ASSUME Shape, Core, NEW ok, FlushReturns(ok), UNCHANGED <<store, repo>>
  PROVE  Kept
<1>1. /\ job' \in Jobs(Len(store)) /\ pc' \in {"locks", "done", "stat", "failed"}
      /\ job' = [job EXCEPT !.phase = "own", !.attempt = 1, !.rescued = FALSE]
  BY FlushReturnsType DEF Shape
<1>2. job'.kind = job.kind /\ job'.rescued = FALSE BY <1>1 DEF Shape, TypeOK, Jobs
<1>3. /\ pc' = "stat" => job.kind = "delete"
      /\ pc' = "done" /\ job.kind = "pull" => ~HasRemote
  BY DEF FlushReturns
<1>4. Core'
  BY <1>1, <1>2, <1>3 DEF Core, CallerInv, AheadInv, RescueInv, OnceInv, MergeInv, KindInv,
                          DoneInv, RescuePCs
<1>. QED BY <1>4 DEF Kept, StoreGrows, HeadMoves

\* So do the steps of DeleteFile.
LEMMA DeleteKept ==
  ASSUME Shape, Core,
         StatForDelete \/ RemoveForDelete \/ FlushPendingIfDue \/ flushPendingLocked
  PROVE  Kept
<1>1. Len(store) \in Nat /\ job.path \in Path BY TypeFacts DEF Shape
<1>2. SameRefs(repo, Locked) /\ SameRefs(repo, repo) /\ SameRefs(repo, Rm(repo, job.path))
  BY <1>1, RefsKept DEF Shape, TypeOK, Locked
<1>3. CASE StatForDelete
  <2>1. UNCHANGED <<store, repo>> /\ pc' \in {"idle", "rm"} /\ (pc' = "rm" => job' = job)
    BY <1>3 DEF StatForDelete, Finish
  <2>2. KindInv' BY <1>3, <2>1 DEF StatForDelete, Core, KindInv
  <2>. QED BY <1>2, <2>1, <2>2, StagingKept DEF Watched
<1>4. CASE RemoveForDelete
  <2>1. UNCHANGED <<store, job>> /\ pc' \in {"commit", "failed"} /\ SameRefs(repo, repo')
    BY <1>2, <1>4 DEF RemoveForDelete, Command, RunOrCut, IoFault, NoEffect, Locked
  <2>2. KindInv' BY <1>4, <2>1 DEF RemoveForDelete, Core, KindInv
  <2>. QED BY <2>1, <2>2, StagingKept DEF Watched
<1>5. CASE FlushPendingIfDue
  <2>1. NoJob \in Jobs(0) BY NoJobType
  <2>2. job'.phase = "flush" /\ pc' = "flush" /\ UNCHANGED <<store, repo>>
    BY <1>5, <2>1 DEF FlushPendingIfDue, Start, Jobs
  <2>3. KindInv' BY <2>2 DEF KindInv
  <2>. QED BY <1>2, <2>2, <2>3, StagingKept DEF Watched
<1>6. CASE flushPendingLocked
  <2>1. CASE pending # {} /\ ~ctxDone
    <3>1. pc = "flush" /\ pc' = "commit" /\ UNCHANGED <<store, repo, job>>
      BY <1>6, <2>1 DEF flushPendingLocked
    <3>2. KindInv' BY <3>1 DEF Core, KindInv
    <3>. QED BY <1>2, <3>1, <3>2, StagingKept DEF Watched
  <2>2. CASE ~(pending # {} /\ ~ctxDone)
    BY <1>6, <2>2, FlushReturnsKept DEF flushPendingLocked
  <2>. QED BY <2>1, <2>2
<1>. QED BY <1>3, <1>4, <1>5, <1>6

\* A commit of the index: HEAD gets a child, and no merge is open any more.
LEMMA CommitHeadKept ==
  ASSUME Shape, CommitHead, repo.unmerged = {}
  PROVE  /\ StoreGrows /\ HeadMoves
         /\ repo'.merge = NoCommit /\ repo'.unmerged = {}
<1>1. Len(store) \in Nat /\ repo.index \in Trees BY TypeFacts DEF Shape
<1>2. Parents(repo) \in SUBSET Commits /\ repo.head \in Parents(repo)
  BY NewCommitType DEF Shape, TypeOK, Commits
<1>3. store' = WithCommit(store, repo.index, Parents(repo)) BY DEF CommitHead
<1>4. repo'.head = Len(store) + 1 /\ repo'.merge = NoCommit /\ repo'.unmerged = {}
  BY <1>1, NewCommitRefs DEF CommitHead, Shape, TypeOK
<1>5. StoreGrows BY <1>1, <1>2, <1>3 DEF StoreGrows
<1>6. HeadMoves BY <1>1, <1>2, <1>3, <1>4 DEF HeadMoves
<1>. QED BY <1>4, <1>5, <1>6

\* So does the commit.
LEMMA CommitKept ==
  ASSUME Shape, Core,
         CommitStaged \/ CommitFailed \/ Pushed \/ retainCommitAfterFailedPushLocked
  PROVE  Kept
<1>1. Len(store) \in Nat /\ job.path \in Path BY TypeFacts DEF Shape
<1>2. SameRefs(repo, Locked) /\ SameRefs(repo, repo)
  BY <1>1, RefsKept DEF Shape, TypeOK, Locked
<1>3. CASE CommitStaged
  <2>1. /\ pc = "commit" /\ job' = job /\ pc' \in {"push", "pushed", "commitFailed"}
        /\ \/ CommitHead /\ repo.unmerged = {}
           \/ /\ store' = store /\ repo' \in {repo, Locked}
              /\ pc' # "commitFailed" => repo' = repo /\ repo.merge = NoCommit
        /\ pc' = "pushed" => ~HasRemote \/ (job.phase = "own" /\ job.kind = "write")
    BY <1>3 DEF CommitStaged, Command, RunOrCut, IoFault, NoEffect, Locked, CanCommit,
                NothingToCommit, AfterCommit, AfterNothing
  <2>2. CASE CommitHead /\ repo.unmerged = {}
    <3>1. StoreGrows /\ HeadMoves /\ repo'.merge = NoCommit /\ repo'.unmerged = {}
      BY <2>2, CommitHeadKept
    <3>2. Core'
      BY <2>1, <3>1 DEF Core, CallerInv, AheadInv, RescueInv, OnceInv, MergeInv, KindInv,
                        DoneInv, RescuePCs
    <3>. QED BY <3>1, <3>2 DEF Kept
  <2>3. CASE /\ store' = store /\ repo' \in {repo, Locked}
             /\ pc' # "commitFailed" => repo' = repo /\ repo.merge = NoCommit
    <3>1. SameRefs(repo, repo') BY <1>2, <2>3
    <3>2. Core'
      BY <2>1, <2>3, <3>1
         DEF Core, CallerInv, AheadInv, RescueInv, OnceInv, MergeInv, KindInv, DoneInv,
             RescuePCs, SameRefs
    <3>. QED BY <2>3, <3>1, <3>2 DEF Kept, StoreGrows, HeadMoves, SameRefs
  <2>. QED BY <2>1, <2>2, <2>3
<1>4. CASE CommitFailed
  <2>1. CASE job.phase = "flush" BY <1>4, <2>1, FlushReturnsKept DEF CommitFailed
  <2>2. CASE job.phase # "flush"
    <3>1. pc' = "failed" /\ UNCHANGED <<store, repo, job>> BY <1>4, <2>2 DEF CommitFailed
    <3>2. KindInv' BY <3>1 DEF KindInv
    <3>. QED BY <1>2, <3>1, <3>2, StagingKept DEF Watched
  <2>. QED BY <2>1, <2>2
<1>5. CASE Pushed
  <2>1. CASE job.phase = "flush" BY <1>5, <2>1, FlushReturnsKept DEF Pushed
  <2>2. CASE job.phase # "flush"
    <3>1. pc = "pushed" /\ pc' = "done" /\ UNCHANGED <<store, repo, job>>
      BY <1>5, <2>2 DEF Pushed
    <3>2. job.phase = "own" BY <1>1, <2>2, JobUpdates DEF Shape, TypeOK
    <3>3. Core'
      BY <3>1, <3>2 DEF Core, CallerInv, AheadInv, RescueInv, OnceInv, MergeInv, KindInv, DoneInv,
                  RescuePCs
    <3>. QED BY <3>1, <3>3 DEF Kept, StoreGrows, HeadMoves
  <2>. QED BY <2>1, <2>2
<1>6. CASE retainCommitAfterFailedPushLocked
  <2>1. CASE job.phase = "flush"
    BY <1>6, <2>1, FlushReturnsKept DEF retainCommitAfterFailedPushLocked
  <2>2. CASE job.phase # "flush"
    <3>1. pc' = "failed" /\ UNCHANGED <<store, repo, job>>
      BY <1>6, <2>2 DEF retainCommitAfterFailedPushLocked
    <3>2. KindInv' BY <3>1 DEF KindInv
    <3>. QED BY <1>2, <3>1, <3>2, StagingKept DEF Watched
  <2>. QED BY <2>1, <2>2
<1>. QED BY <1>3, <1>4, <1>5, <1>6

\* So does a push: the tracking ref is HEAD once it has landed.
LEMMA PushKept ==
  ASSUME Shape, Core, pushWithRetry \/ RetryFetch
  PROVE  Kept
<1>. USE DEF Core, CallerInv, AheadInv, RescueInv, OnceInv, MergeInv, KindInv, DoneInv, RescuePCs
<1>1. Len(store) \in Nat /\ repo \in Repos(Len(store)) /\ job \in Jobs(Len(store))
  BY DEF Shape, TypeOK
<1>3. CASE pushWithRetry
  <2>1. /\ pc = "push" /\ store' = store /\ pc' \in {"pushed", "pushFailed", "retryFetch"}
        /\ repo' \in {repo, [repo EXCEPT !.tracking = repo.head]}
        /\ pc' = "pushed" => repo' = [repo EXCEPT !.tracking = repo.head]
    BY <1>3 DEF pushWithRetry, RemoteCommand, PushBranch, TrackPushed, AfterRejection
  <2>2. /\ repo'.head = repo.head /\ repo'.merge = repo.merge /\ repo'.unmerged = repo.unmerged
        /\ pc' = "pushed" => repo'.tracking = repo.head
    BY <1>1, <2>1 DEF Repos
  <2>3. Core' BY <2>1, <2>2
  <2>. QED BY <2>1, <2>2, <2>3 DEF Kept, StoreGrows, HeadMoves
<1>4. CASE RetryFetch
  <2>1. /\ store' = store /\ pc' \in {"merge", "pushFailed"}
        /\ repo' \in {repo, [repo EXCEPT !.tracking = origin.main]}
    BY <1>4 DEF RetryFetch, RemoteCommand, Fetch
  <2>2. repo'.head = repo.head /\ repo'.merge = repo.merge /\ repo'.unmerged = repo.unmerged
    BY <1>1, <2>1 DEF Repos
  <2>3. job'.caller = "retry" BY <1>1, <1>4 DEF RetryFetch, Jobs
  <2>4. Core' BY <2>1, <2>2, <2>3
  <2>. QED BY <2>1, <2>2, <2>4 DEF Kept, StoreGrows, HeadMoves
<1>. QED BY <1>3, <1>4

\* So do the merge and its abort.
LEMMA MergeKept ==
  ASSUME Shape, Core, mergeWithDirtyTreeRescue
  PROVE  Kept
<1>. USE DEF Core, CallerInv, AheadInv, RescueInv, OnceInv, MergeInv, KindInv, DoneInv, RescuePCs
<1>1. /\ Len(store) \in Nat /\ repo \in Repos(Len(store)) /\ job \in Jobs(Len(store))
      /\ repo.tracking \in 1..Len(store) /\ repo.head \in 1..Len(store)
  BY TypeFacts DEF Shape, TypeOK
<1>2. PICK auto : MergeOutcome(auto) BY MergeOutcomes
<1>3. job'.caller = job.caller /\ job'.kind = job.kind /\ pc = "merge"
  BY <1>1 DEF mergeWithDirtyTreeRescue, Jobs
<1>4. CASE /\ UNCHANGED store /\ repo' \in {repo, Locked}
           /\ pc' \in {"abort", "push", "rescueCommit"}
           /\ pc' = "push" => repo.merge = NoCommit /\ repo' = repo
  <2>1. SameRefs(repo, repo')
    <3>1. SameRefs(repo, Locked) /\ SameRefs(repo, repo) BY <1>1 DEF SameRefs, Locked, Repos
    <3>. QED BY <1>4, <3>1
  <2>2. Core' BY <1>3, <1>4, <2>1 DEF SameRefs
  <2>. QED BY <1>4, <2>1, <2>2 DEF Kept, StoreGrows, HeadMoves, SameRefs
<1>5. CASE /\ UNCHANGED store /\ repo' = FastForward(store, repo, repo.tracking)
           /\ pc' \in {"abort", "push"}
           /\ repo.merge = NoCommit /\ IsAncestor(store, repo.head, repo.tracking)
  <2>1. /\ repo'.head = repo.tracking /\ repo'.merge = NoCommit
        /\ repo'.unmerged = repo.unmerged
    BY <1>1, <1>5, ForwardRefs
  <2>2. Core' BY <1>3, <1>5, <2>1
  <2>. QED BY <1>1, <1>5, <2>1, <2>2 DEF Kept, StoreGrows, HeadMoves, IsAncestor, Commits
<1>6. CASE /\ UNCHANGED store /\ repo' = Merge(auto)
           /\ pc' \in {"abort", "preflight"} /\ repo.merge = NoCommit
  <2>1. repo'.head = repo.head /\ repo'.merge = repo.tracking
    BY <1>1, <1>6, OpenRefs DEF Merge
  <2>2. Core' BY <1>1, <1>6, <2>1 DEF NoCommit
  <2>. QED BY <1>6, <2>1, <2>2 DEF Kept, StoreGrows, HeadMoves
<1>7. CASE /\ store' = WithCommit(store, Merge(auto).index, Parents(Merge(auto)))
           /\ repo' = AtNewCommit(store, Merge(auto)) /\ Merge(auto).unmerged = {}
           /\ pc' \in {"abort", "push"} /\ repo.merge = NoCommit
  <2>1. Merge(auto) \in Repos(Len(store)) BY <1>1, MergeIntoType DEF Shape, TypeOK, Merge
  <2>2. Merge(auto).head = repo.head BY <1>1, OpenRefs DEF Merge
  <2>3. /\ repo'.head = Len(store) + 1 /\ repo'.merge = NoCommit /\ repo'.unmerged = {}
    <3>. DEFINE m == Merge(auto)
    <3>1. /\ AtNewCommit(store, m).head = Len(store) + 1
          /\ AtNewCommit(store, m).merge = NoCommit
          /\ AtNewCommit(store, m).unmerged = m.unmerged
      BY <2>1 DEF AtNewCommit, Repos
    <3>. QED BY <1>7, <3>1
  <2>4. /\ Parents(Merge(auto)) \in SUBSET Commits /\ repo.head \in Parents(Merge(auto))
        /\ Merge(auto).index \in Trees
    <3>1. store \in Seq(CommitRecords) BY DEF Shape, TypeOK
    <3>2. Merge(auto).index \in Trees BY <1>1, <2>1, RepoUpdates
    <3>. QED BY <2>1, <2>2, <3>1, <3>2, NewCommitType DEF Commits
  <2>5. Core' BY <1>3, <1>7, <2>3
  <2>6. StoreGrows BY <1>7, <2>4 DEF StoreGrows
  <2>7. HeadMoves BY <1>7, <2>3, <2>4 DEF HeadMoves
  <2>. QED BY <2>5, <2>6, <2>7 DEF Kept
<1>. QED BY <1>2, <1>4, <1>5, <1>6, <1>7 DEF MergeOutcome

\* So does the rescue: each step sets up what the next one relies on.
LEMMA RescueKept ==
  ASSUME Shape, Core, \/ AbortMerge \/ createRescueCommit \/ PushRescue
                      \/ ResetAfterRescue \/ CleanAfterRescue
  PROVE  Kept
<1>. USE DEF Core, CallerInv, AheadInv, RescueInv, OnceInv, MergeInv, KindInv, DoneInv, RescuePCs
<1>1. /\ Len(store) \in Nat /\ repo \in Repos(Len(store)) /\ job \in Jobs(Len(store))
      /\ repo.tracking \in Commits /\ repo.head \in Commits /\ repo.work \in Trees
      /\ store \in Seq(CommitRecords)
  BY TypeFacts DEF Shape, TypeOK, Commits
<1>2. SameRefs(repo, Locked) /\ SameRefs(repo, repo) BY <1>1 DEF SameRefs, Locked, Repos
<1>3. CASE AbortMerge
  <2>1. /\ repo' \in {MergeAbort(store, repo), repo, Locked} /\ UNCHANGED <<store, job>>
        /\ pc' \in {"failed", "pushFailed"}
    BY <1>3 DEF AbortMerge, Command, RunOrCut, IoFault, NoEffect, Locked
  <2>2. /\ MergeAbort(store, repo).head = repo.head
        /\ MergeAbort(store, repo).unmerged = {}
    BY <1>1, AbortRefs
  <2>3. repo'.head = repo.head /\ (repo'.merge = NoCommit => repo'.unmerged = {})
    BY <1>2, <2>1, <2>2 DEF SameRefs
  <2>4. Core' BY <2>1, <2>3
  <2>. QED BY <2>1, <2>3, <2>4 DEF Kept, StoreGrows, HeadMoves
<1>4. CASE createRescueCommit
  <2>1. CASE UNCHANGED <<store, job>> /\ pc' = RescueFailed
    <3>1. repo' = repo /\ pc' \in {"failed", "abort"}
      BY <1>4, <2>1 DEF createRescueCommit, RescueFailed
    <3>2. Core' BY <2>1, <3>1
    <3>. QED BY <2>1, <3>1, <3>2 DEF Kept, StoreGrows, HeadMoves
  <2>2. CASE /\ store' = WithCommit(store, repo.work, {repo.head})
             /\ job' = [job EXCEPT !.rescue = Len(store) + 1] /\ pc' = "rescuePush"
    <3>1. UNCHANGED <<repo, origin>> /\ pc = "rescueCommit" BY <1>4 DEF createRescueCommit
    <3>2. {repo.head} \in SUBSET Commits /\ {repo.head} # {} BY <1>1
    <3>3. StoreGrows BY <1>1, <2>2, <3>2 DEF StoreGrows
    <3>4. store'[repo.tracking] = store[repo.tracking] BY <1>1, <3>3, StoreKept DEF Shape
    <3>5. store'[Len(store) + 1].tree = repo.work
      BY <1>1, <2>2, <3>2, WithCommitFacts DEF Commits
    <3>6. job'.rescue = Len(store) + 1 /\ job'.caller = job.caller
      BY <1>1, <2>2 DEF Jobs
    <3>7. Core' BY <2>2, <3>1, <3>4, <3>5, <3>6
    <3>. QED BY <3>1, <3>3, <3>7 DEF Kept, HeadMoves
  <2>. QED BY <1>4, <2>1, <2>2 DEF createRescueCommit, RescueTree
<1>5. CASE PushRescue
  <2>1. /\ UNCHANGED <<store, repo, job>> /\ pc = "rescuePush"
        /\ pc' \in {"rescueReset", "failed", "abort"}
        /\ pc' = "rescueReset" => origin' = [origin EXCEPT !.rescue = @ \cup {job.rescue}]
    BY <1>5 DEF PushRescue, RemoteCommand, RescueFailed
  <2>2. pc' = "rescueReset" => job.rescue \in origin'.rescue
    BY <2>1 DEF Shape, TypeOK, Origins
  <2>3. Core' BY <2>1, <2>2
  <2>. QED BY <2>1, <2>3 DEF Kept, StoreGrows, HeadMoves
<1>6. CASE ResetAfterRescue
  <2>. DEFINE q == ResetHard(store, repo, ResetTarget)
  <2>1. /\ ResetTarget \in Commits
        /\ ResetTarget = repo.head \/ repo.head \in store[ResetTarget].anc
    BY <1>1, <1>6 DEF ResetAfterRescue, ResetTarget
  <2>2. ResetTarget \in 1..Len(store) BY <1>1, <2>1 DEF Commits
  <2>3. /\ q.head = ResetTarget /\ q.merge = NoCommit /\ q.unmerged = {}
        /\ q.index = store[ResetTarget].tree
        /\ \A p \in Path : q.index[p] # Absent => q.work[p] = q.index[p]
    BY <1>1, <2>2, ResetTree
  <2>4. /\ UNCHANGED <<store, job>> /\ pc' \in {"rescueClean", "failed", "abort"}
        /\ repo' \in {q, repo, Locked} /\ (pc' = "rescueClean" => repo' = q)
    BY <1>6 DEF ResetAfterRescue, Command, RunOrCut, IoFault, NoEffect, Locked, RescueFailed
  <2>. HIDE DEF q
  <2>5. repo'.merge = NoCommit => repo'.unmerged = {} BY <1>2, <2>3, <2>4 DEF SameRefs
  <2>6. Core' BY <2>3, <2>4, <2>5 DEF HeadTree
  <2>7. HeadMoves BY <1>1, <1>2, <2>1, <2>3, <2>4 DEF HeadMoves, SameRefs
  <2>. QED BY <2>4, <2>6, <2>7 DEF Kept, StoreGrows
<1>7. CASE CleanAfterRescue
  <2>1. /\ pc = "rescueClean" /\ store' = store /\ repo' \in {CleanTree, repo, Locked}
        /\ \/ /\ pc' = IF job.caller = "ff" THEN "fetch" ELSE "merge"
              /\ repo' = CleanTree
           \/ pc' \in {"failed", "abort"}
    BY <1>7 DEF CleanAfterRescue, Command, RunOrCut, IoFault, NoEffect, Locked, RescueFailed
  <2>2. /\ CleanTree.head = repo.head /\ CleanTree.merge = repo.merge
        /\ CleanTree.unmerged = {} /\ ~Dirty(store, CleanTree)
    BY <1>1, <2>1, CleanedTree DEF CleanTree
  <2>3. job'.caller = job.caller BY <1>1, <1>7 DEF CleanAfterRescue, Jobs
  <2>4. repo'.head = repo.head /\ (repo'.merge = NoCommit => repo'.unmerged = {})
    BY <1>2, <2>1, <2>2 DEF SameRefs
  <2>5. Core' BY <2>1, <2>2, <2>3, <2>4
  <2>. QED BY <2>1, <2>4, <2>5 DEF Kept, StoreGrows, HeadMoves
<1>. QED BY <1>3, <1>4, <1>5, <1>6, <1>7

\* So do the steps of Pull outside the conflict loop.
LEMMA PullKept ==
  ASSUME Shape, HistoryInv, Core,
         \/ StartPull \/ cleanupStaleLocksForCycle \/ recoverRepoState
         \/ syncWithUpstream \/ fastForwardOrRescue \/ commitAndPushMerge
  PROVE  Kept
<1>. USE DEF Core, CallerInv, AheadInv, RescueInv, OnceInv, MergeInv, KindInv, DoneInv, RescuePCs
<1>1. /\ Len(store) \in Nat /\ repo \in Repos(Len(store)) /\ job \in Jobs(Len(store))
      /\ repo.tracking \in Commits /\ repo.head \in Commits /\ origin.main \in Commits
  BY TypeFacts DEF Shape, TypeOK, Commits
<1>2. SameRefs(repo, Locked) /\ SameRefs(repo, repo) BY <1>1 DEF SameRefs, Locked, Repos
<1>3. CASE StartPull
  <2>1. NoJob \in Jobs(0) BY NoJobType
  <2>2. job'.phase = "flush" /\ pc' = "flush" /\ UNCHANGED <<store, repo>>
    BY <1>3, <2>1 DEF StartPull, Start, Jobs
  <2>3. Core' BY <2>2
  <2>. QED BY <2>2, <2>3 DEF Kept, StoreGrows, HeadMoves
<1>4. CASE cleanupStaleLocksForCycle
  <2>1. pc = "locks" /\ pc' = "recover" /\ UNCHANGED <<store, job>>
    BY <1>4 DEF cleanupStaleLocksForCycle
  <2>2. repo'.head = repo.head /\ repo'.merge = repo.merge /\ repo'.unmerged = repo.unmerged
    BY <1>1, <1>4 DEF cleanupStaleLocksForCycle, Repos
  <2>3. Core' BY <2>1, <2>2
  <2>. QED BY <2>1, <2>2, <2>3 DEF Kept, StoreGrows, HeadMoves
<1>5. CASE recoverRepoState
  <2>1. /\ pc = "recover" /\ UNCHANGED <<store, job>> /\ pc' \in {"failed", "fetch"}
        /\ repo' \in {MergeAbort(store, repo), repo, Locked}
        /\ pc' = "fetch" => \/ repo' = repo /\ repo.merge = NoCommit
                            \/ repo' = MergeAbort(store, repo)
    BY <1>5 DEF recoverRepoState, Command, RunOrCut, IoFault, NoEffect, Locked
  <2>2. /\ MergeAbort(store, repo).head = repo.head
        /\ MergeAbort(store, repo).merge = NoCommit
        /\ MergeAbort(store, repo).unmerged = {}
    BY <1>1, AbortRefs
  <2>3. /\ repo'.head = repo.head /\ (repo'.merge = NoCommit => repo'.unmerged = {})
        /\ pc' = "fetch" => repo'.merge = NoCommit
    BY <1>2, <2>1, <2>2 DEF SameRefs
  <2>4. Core' BY <2>1, <2>3
  <2>. QED BY <2>1, <2>3, <2>4 DEF Kept, StoreGrows, HeadMoves
<1>6. CASE syncWithUpstream
  <2>1. /\ pc = "fetch" /\ store' = store
        /\ repo' \in {repo, [repo EXCEPT !.tracking = origin.main]}
        /\ \/ pc' = "failed"
           \/ /\ pc' = SyncCase(repo.head, origin.main)
              /\ repo' = [repo EXCEPT !.tracking = origin.main]
    BY <1>6 DEF syncWithUpstream, RemoteCommand, Fetch
  <2>2. /\ repo'.head = repo.head /\ repo'.merge = repo.merge
        /\ repo'.unmerged = repo.unmerged
        /\ repo'.index = repo.index /\ repo'.work = repo.work
        /\ pc' # "failed" => repo'.tracking = origin.main
    BY <1>1, <2>1 DEF Repos
  <2>3. /\ job'.caller = IF pc' = "ff" THEN "ff" ELSE "sync"
        /\ job'.rescued = job.rescued
    BY <1>1, <1>6 DEF syncWithUpstream, Jobs
  <2>4. /\ pc' \in {"failed", "done", "ff", "push", "merge"}
        /\ pc' = "done" => repo.head = origin.main
        /\ pc' = "ff" => repo.head = MergeBase(store, repo.head, origin.main)
    BY <2>1 DEF SyncCase
  <2>5. pc' = "ff" => repo.head \in store[origin.main].anc
    BY <1>1, <2>4, MergeBaseCommon DEF Shape
  <2>6. Dirty(store, repo') = Dirty(store, repo)
    BY <2>2 DEF Dirty, StagedPaths, Unstaged, HeadTree
  <2>7. CallerInv' /\ AheadInv' /\ RescueInv' /\ MergeInv' /\ KindInv' /\ DoneInv'
    BY <2>1, <2>2, <2>3, <2>4, <2>5
  <2>8. OnceInv' BY <2>1, <2>3, <2>4, <2>6
  <2>. QED BY <2>1, <2>2, <2>7, <2>8 DEF Kept, StoreGrows, HeadMoves
<1>7. CASE fastForwardOrRescue
  <2>. DEFINE f == FastForward(store, repo, repo.tracking)
  <2>1. /\ pc = "ff" /\ UNCHANGED <<store, job>> /\ pc' \in {"failed", "rescueCommit", "done"}
        /\ repo' \in {f, repo, Locked} /\ (pc' = "done" => repo' = f)
        /\ pc' = "rescueCommit" => repo' = repo /\ Dirty(store, repo)
    BY <1>7 DEF fastForwardOrRescue, RunOrCut, IoFault, NoEffect, Locked
  <2>2. /\ f.head = repo.tracking /\ f.tracking = repo.tracking /\ f.merge = repo.merge
        /\ f.unmerged = repo.unmerged
    BY <1>1, ForwardRefs
  <2>. HIDE DEF f
  <2>3. repo'.merge = NoCommit => repo'.unmerged = {} BY <1>2, <2>1, <2>2 DEF SameRefs
  <2>4. Core' BY <2>1, <2>2, <2>3
  <2>5. HeadMoves BY <1>1, <1>2, <2>1, <2>2 DEF HeadMoves, SameRefs
  <2>. QED BY <2>1, <2>4, <2>5 DEF Kept, StoreGrows
<1>8. CASE commitAndPushMerge
  <2>1. /\ pc' \in {"push", "abort"} /\ job' = job
        /\ \/ CommitHead /\ repo.unmerged = {}
           \/ store' = store /\ repo' \in {repo, Locked} /\ pc' = "abort"
    BY <1>8 DEF commitAndPushMerge, Command, RunOrCut, IoFault, NoEffect, Locked, CanCommit
  <2>2. CASE CommitHead /\ repo.unmerged = {}
    <3>1. StoreGrows /\ HeadMoves /\ repo'.merge = NoCommit /\ repo'.unmerged = {}
      BY <2>2, CommitHeadKept
    <3>2. Core' BY <2>1, <3>1
    <3>. QED BY <3>1, <3>2 DEF Kept
  <2>3. CASE store' = store /\ repo' \in {repo, Locked} /\ pc' = "abort"
    <3>1. SameRefs(repo, repo') BY <1>2, <2>3
    <3>2. Core' BY <2>3, <3>1 DEF SameRefs
    <3>. QED BY <2>3, <3>1, <3>2 DEF Kept, StoreGrows, HeadMoves, SameRefs
  <2>. QED BY <2>1, <2>2, <2>3
<1>. QED BY <1>3, <1>4, <1>5, <1>6, <1>7, <1>8

\* So do the steps of the loop.
LEMMA LoopKept ==
  ASSUME Shape, Core, Looping
  PROVE  Kept
<1>1. LoopStep BY LoopSteps
<1>2. UNCHANGED store /\ SameRefs(repo, repo') /\ pc' \in Loop \cup {"abort"} BY <1>1 DEF LoopStep
<1>3. KindInv' BY <1>2 DEF KindInv, Loop
<1>. QED BY <1>2, <1>3, StagingKept DEF Watched, Loop

\* So do boot, SIGTERM, exit and crash.
LEMMA LifeKept ==
  ASSUME Shape, Core, Return \/ ShutdownFlush \/ Exit \/ Crash \/ Boot \/ Sigterm
  PROVE  Kept
<1>1. NoJob \in Jobs(0) BY NoJobType
<1>2. repo \in Repos(Len(store)) BY DEF Shape, TypeOK
<1>3. SameRefs(repo, repo) BY DEF SameRefs
<1>4. CASE Return
  <2>1. /\ UNCHANGED <<store, repo>> /\ pc' \in {"flush", "idle"}
        /\ pc' = "flush" => job'.phase = "flush"
    BY <1>1, <1>4 DEF Return, Finish, Jobs
  <2>2. KindInv' BY <2>1 DEF KindInv
  <2>. QED BY <1>3, <2>1, <2>2, StagingKept DEF Watched
<1>5. CASE ShutdownFlush
  <2>1. UNCHANGED <<store, repo>> /\ pc' = "flush" /\ job'.phase = "flush"
    BY <1>1, <1>5 DEF ShutdownFlush, Start, Jobs
  <2>2. KindInv' BY <2>1 DEF KindInv
  <2>. QED BY <1>3, <2>1, <2>2, StagingKept DEF Watched
<1>6. CASE Exit \/ Crash
  <2>1. UNCHANGED <<store, repo>> /\ pc' = "idle" BY <1>6 DEF Exit, Crash, Die, Finish
  <2>2. KindInv' BY <2>1 DEF KindInv
  <2>. QED BY <1>3, <2>1, <2>2, StagingKept DEF Watched
<1>7. CASE Boot
  <2>1. store' = store /\ pc' \in {"addAll", "staged?"} /\ job'.kind = "recover"
    BY <1>1, <1>7 DEF Boot, Jobs
  <2>2. SameRefs(repo, repo') BY <1>2, <1>7 DEF Boot, SameRefs, Repos
  <2>3. KindInv' BY <2>1 DEF KindInv
  <2>. QED BY <2>1, <2>2, <2>3, StagingKept DEF Watched
<1>8. CASE Sigterm
  <2>1. UNCHANGED <<store, repo, origin, pc, job>> BY <1>8 DEF Sigterm
  <2>2. Core'
    BY <2>1 DEF Core, CallerInv, AheadInv, RescueInv, OnceInv, MergeInv, KindInv, DoneInv,
                RescuePCs
  <2>. QED BY <2>1, <2>2 DEF Kept, StoreGrows, HeadMoves
<1>. QED BY <1>4, <1>5, <1>6, <1>7, <1>8

\* So do the recoveries of a boot.
LEMMA RecoverKept ==
  ASSUME Shape, Core, AddAllUntracked \/ CommitUntracked \/ RecoverPendingWrites
  PROVE  Kept
<1>1. Len(store) \in Nat /\ repo \in Repos(Len(store)) BY DEF Shape, TypeOK
<1>2. SameRefs(repo, Locked) /\ SameRefs(repo, repo) BY <1>1 DEF SameRefs, Locked, Repos
<1>3. CASE AddAllUntracked
  <2>1. /\ pc = "addAll" /\ UNCHANGED <<store, job>> /\ pc' \in {"commitAll", "staged?"}
        /\ repo' \in {AddAll(repo), repo, Locked}
    BY <1>3 DEF AddAllUntracked, Command, RunOrCut, IoFault, NoEffect, Locked
  <2>2. SameRefs(repo, AddAll(repo)) BY <1>1 DEF AddAll, SameRefs, Repos
  <2>3. KindInv' BY <2>1 DEF Core, KindInv
  <2>. QED BY <1>2, <2>1, <2>2, <2>3, StagingKept DEF Watched
<1>4. CASE CommitUntracked
  <2>1. /\ pc = "commitAll" /\ job' = job /\ pc' = "staged?"
        /\ \/ CommitHead /\ repo.unmerged = {}
           \/ store' = store /\ repo' \in {repo, Locked}
    BY <1>4 DEF CommitUntracked, Command, RunOrCut, IoFault, NoEffect, Locked, CanCommit
  <2>2. KindInv' BY <2>1 DEF Core, KindInv
  <2>3. CASE CommitHead /\ repo.unmerged = {}
    <3>1. StoreGrows /\ HeadMoves /\ repo'.merge = NoCommit /\ repo'.unmerged = {}
      BY <2>3, CommitHeadKept
    <3>2. Core' BY <2>1, <2>2, <3>1, Elsewhere DEF Watched
    <3>. QED BY <3>1, <3>2 DEF Kept
  <2>4. CASE store' = store /\ repo' \in {repo, Locked}
    BY <1>2, <2>1, <2>2, <2>4, StagingKept DEF Watched
  <2>. QED BY <2>1, <2>3, <2>4
<1>5. CASE RecoverPendingWrites
  <2>1. pc = "staged?" /\ pc' \in {"done", "commit"} /\ UNCHANGED <<store, repo, job>>
    BY <1>5 DEF RecoverPendingWrites
  <2>2. Core'
    BY <2>1 DEF Core, CallerInv, AheadInv, RescueInv, OnceInv, MergeInv, KindInv, DoneInv,
                RescuePCs
  <2>. QED BY <2>1, <2>2 DEF Kept, StoreGrows, HeadMoves
<1>. QED BY <1>3, <1>4, <1>5

\* A push by another clone: no commit that the server holds changes.
LEMMA UpstreamKept ==
  ASSUME Shape, Core, NEW p \in Path, UpstreamCommit(p)
  PROVE  Kept
<1>1. /\ Len(store) \in Nat /\ repo.head \in Commits /\ repo.tracking \in Commits
      /\ origin.main \in Commits /\ job.rescue \in 0..Len(store)
  BY TypeFacts DEF Shape, Commits
<1>2. UNCHANGED <<repo, pc, job>> BY DEF UpstreamCommit
<1>3. StoreGrows
  <2>1. PICK t \in Trees : store' = WithCommit(store, t, {origin.main}) BY UpstreamShape
  <2>. QED BY <1>1, <2>1 DEF StoreGrows
<1>4. origin'.rescue = origin.rescue BY DEF UpstreamCommit, Shape, TypeOK, Origins
<1>5. store'[repo.head] = store[repo.head] /\ store'[repo.tracking] = store[repo.tracking]
  BY <1>1, <1>3, StoreKept DEF Shape
<1>6. job.rescue # NoCommit => store'[job.rescue] = store[job.rescue]
  BY <1>1, <1>3, StoreKept DEF Shape, Commits, NoCommit
<1>7. HeadTree(store', repo) = HeadTree(store, repo) BY <1>5 DEF HeadTree
<1>8. Dirty(store', repo) = Dirty(store, repo) BY <1>7 DEF Dirty, StagedPaths
<1>9. CallerInv' /\ AheadInv' /\ MergeInv' /\ KindInv' /\ DoneInv'
  BY <1>2, <1>5 DEF Core, CallerInv, AheadInv, MergeInv, KindInv, DoneInv, RescuePCs
<1>10. RescueInv' BY <1>2, <1>4, <1>6 DEF Core, RescueInv, Shape, StepInv
<1>11. OnceInv' BY <1>2, <1>7, <1>8 DEF Core, OnceInv
<1>. QED BY <1>2, <1>3, <1>9, <1>10, <1>11 DEF Kept, Core, HeadMoves

---------------------------------------------------------------------------
(* The invariant holds *)

\* The server starts in the invariant.
LEMMA InitServer == Init => ServerInv
<1>. SUFFICES ASSUME Init PROVE ServerInv OBVIOUS
<1>1. Len(store) = 1 /\ store[1].anc = {1} BY DEF Init
<1>2. HistoryInv BY <1>1 DEF HistoryInv, Commits
<1>3. Core
  BY DEF Init, Core, CallerInv, AheadInv, RescueInv, OnceInv, MergeInv, KindInv, DoneInv,
         RescuePCs
<1>. QED BY <1>2, <1>3, InitShape DEF ServerInv

\* Every action keeps the invariant.
LEMMA StepKept ==
  ASSUME ServerInv, [Next]_vars
  PROVE  Kept
<1>. USE DEF ServerInv
<1>1. CASE WriteNext
  <2>1. ClientPaths \subseteq Path BY DEF ClientPaths, Path
  <2>. QED BY <1>1, <2>1, ClientKept, StageKept, DeleteKept, CommitKept, PushKept,
              MergeKept, RescueKept DEF WriteNext
<1>2. CASE PullNext BY <1>2, PullKept, LoopKept DEF PullNext, Looping
<1>3. CASE ProcessNext \/ Sigterm \/ Crash BY <1>3, LifeKept, RecoverKept DEF ProcessNext
<1>4. CASE \E p \in Path : UpstreamCommit(p) BY <1>4, UpstreamKept
<1>5. CASE UNCHANGED vars
  BY <1>5 DEF vars, Kept, StoreGrows, HeadMoves, Core, CallerInv, AheadInv, RescueInv,
              OnceInv, MergeInv, KindInv, DoneInv, RescuePCs
<1>. QED BY <1>1, <1>2, <1>3, <1>4, <1>5 DEF Next

\* ServerInv is inductive.
LEMMA ServerStep == ServerInv /\ [Next]_vars => ServerInv'
<1>. SUFFICES ASSUME ServerInv, [Next]_vars PROVE ServerInv' OBVIOUS
<1>1. StoreGrows /\ Core' BY StepKept DEF Kept
<1>2. HistoryInv' BY <1>1, HistoryStep DEF ServerInv, Shape
<1>. QED BY <1>1, <1>2, ShapeStep DEF ServerInv

\* ServerInv holds always.
LEMMA ServerInvariant == Spec => []ServerInv
BY InitServer, ServerStep, PTL DEF Spec

\* HEAD only moves forward, whatever fails, is killed or is pushed meanwhile.
THEOREM HistoryNeverRewritten == Spec => HeadOnlyAdvances
<1>1. ServerInv /\ [Next]_vars => [repo.head \in store'[repo'.head].anc]_vars
  BY StepKept, HeadAdvances DEF ServerInv, Shape, Kept
<1>. QED BY <1>1, ServerInvariant, PTL DEF Spec, HeadOnlyAdvances

\* rescueDirtyTree: reset --hard runs only when origin holds every file on disk.
THEOREM RescueIsLossless == Spec => []RescueDiscardsNothing
<1>1. ServerInv => RescueDiscardsNothing
  BY DEF ServerInv, Core, RescueInv, RescueDiscardsNothing
<1>. QED BY <1>1, ServerInvariant, PTL

\* fastForwardOrRescue recurses at most once.
THEOREM OneRescuePerPull == Spec => []RescueOnce
<1>1. ServerInv => RescueOnce BY DEF ServerInv, Core, OnceInv, RescueOnce
<1>. QED BY <1>1, ServerInvariant, PTL

\* Pull returns nil only with HEAD at the upstream commit and no merge open.
THEOREM SuccessfulPullConverged == Spec => []PullConverges
<1>1. ServerInv => PullConverges
  BY DEF ServerInv, Core, MergeInv, DoneInv, KindInv, PullConverges
<1>. QED BY <1>1, ServerInvariant, PTL

============================================================================
