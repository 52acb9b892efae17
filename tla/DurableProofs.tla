--------------------------- MODULE DurableProofs ---------------------------
(***************************************************************************)
(* Proofs about acknowledged writes: on a server of MergeProofs whose      *)
(* clients do not repeat a body that failed, a write that was answered     *)
(* with 200 is staged or in a reachable commit ever after.                 *)
(***************************************************************************)
EXTENDS MergeProofs

---------------------------------------------------------------------------
(* The invariant *)

\* What a commit descends from descends from nothing else than the commit does.
TransInv == \A d \in Commits : \A c \in store[d].anc : store[c].anc \subseteq store[d].anc

\* The text of commits, a repository and a job, with no version above n.
TreesTo(n) == [Path -> SUBSET (0..n)]
StoreTo(n, s) == \A c \in 1..Len(s) : s[c].tree \in TreesTo(n)
RepoTo(n, r) == r.index \in TreesTo(n) /\ r.work \in TreesTo(n)
JobTo(n, j) == j.blob \in SUBSET (0..n) /\ j.ver \in 0..n

\* No text anywhere has a version that nobody has written yet: a new body differs from
\* what is on disk.
FreshInv ==
    /\ lastVer >= 2
    /\ StoreTo(lastVer, store) /\ RepoTo(lastVer, repo) /\ JobTo(lastVer, job)

\* A reachable commit has one of the versions V of f.
Held(f, V) == \E v \in V, c \in Reachable : v \in store[c].tree[f]

\* One of the promised versions of f is staged and no merge is open whose abort would drop
\* it. One is on disk too, for the rescue to commit, unless a write of f has just truncated it.
StagedSafe(f) ==
    /\ repo.merge = NoCommit
    /\ promised[f] \cap repo.index[f] # {}
    /\ promised[f] \cap repo.work[f] # {} \/ (pc = "write" /\ job.path = f)

\* A promised version that a server still owes is in a reachable commit, or staged safely.
DurInv == \A f \in Path : promised[f] # {} => Held(f, promised[f]) \/ StagedSafe(f)

\* The places of a write that has committed for itself and is not answered yet.
Pushing == {"push", "pushed", "retryFetch", "merge", "rescueCommit", "rescuePush",
            "rescueReset", "rescueClean"}

\* What a write has done so far: its version may be the newest of its file, is on disk, is
\* staged, is committed.
AckInv ==
    job.kind = "write" =>
        /\ job.phase = "own"
        /\ pc \in {"open", "write", "add"}
              => promised[job.path] = {} \/ job.ver \in promised[job.path]
        /\ pc \in {"add", "staged"} => repo.work[job.path] = {job.ver}
        /\ pc \in {"staged", "commit"} => job.ver \in repo.index[job.path]
        /\ pc \in Pushing => Held(job.path, {job.ver})

\* Which job is in the steps of a request.
RequestInv ==
    /\ pc \in {"open", "write", "add", "staged"} => job.kind = "write"
    /\ pc \in {"stat", "rm"} => job.kind = "delete"

\* The invariant: the parts above together.
Durable == TransInv /\ FreshInv /\ DurInv /\ AckInv /\ RequestInv

---------------------------------------------------------------------------
(* What is reachable stays reachable *)

\* Every step keeps descent transitive.
LEMMA TransStep ==
  ASSUME TypeOK, HistoryInv, TransInv, StoreGrows
  PROVE  TransInv'
<1>1. Len(store) \in Nat BY TypeFacts
<1>2. CASE store' = store BY <1>2 DEF TransInv, Commits
<1>3. ASSUME NEW t \in Trees, NEW P \in SUBSET Commits, store' = WithCommit(store, t, P)
      PROVE  TransInv'
  <2>. DEFINE n == Len(store)
  <2>1. /\ Len(store') = n + 1 /\ \A c \in 1..n : store'[c] = store[c]
        /\ store'[n + 1].anc = History(store, P) \cup {n + 1}
    <3>1. P \in SUBSET (1..Len(store)) BY DEF Commits
    <3>. QED BY <1>3, <3>1, WithCommitFacts DEF TypeOK
  <2>2. ASSUME NEW d \in 1..n, NEW c \in store[d].anc
        PROVE  c \in 1..n /\ store[c].anc \subseteq store[d].anc
    BY <1>1, <2>2 DEF HistoryInv, TransInv, Commits
  <2>3. ASSUME NEW d \in 1..n, NEW c \in store'[d].anc
        PROVE  store'[c].anc \subseteq store'[d].anc
    BY <2>1, <2>2, <2>3
  <2>4. ASSUME NEW c \in store'[n + 1].anc, c # n + 1
        PROVE  store'[c].anc \subseteq store'[n + 1].anc
    <3>1. c \in History(store, P) BY <2>1, <2>4
    <3>2. PICK e \in P : c \in store[e].anc BY <3>1, HistoryMember
    <3>3. e \in 1..n BY <3>2 DEF Commits
    <3>4. c \in 1..n /\ store[c].anc \subseteq store[e].anc BY <2>2, <3>2, <3>3
    <3>5. store[e].anc \subseteq History(store, P) BY <3>2, HistoryMember
    <3>. QED BY <2>1, <3>4, <3>5
  <2>5. 1..Len(store') = 1..n \cup {n + 1} BY <1>1, <2>1
  <2>. HIDE DEF n
  <2>. QED BY <2>3, <2>4, <2>5 DEF TransInv, Commits
<1>. QED BY <1>2, <1>3 DEF StoreGrows

\* The branch of origin only moves to descendants, and no rescue branch is removed.
OriginGrows ==
    origin.main \in store'[origin'.main].anc /\ origin.rescue \subseteq origin'.rescue

\* A push that is no fast-forward is rejected; everyone else pushes on top of the branch.
LEMMA OriginStep ==
  ASSUME ServerInv, LifeInv, [Next]_vars
  PROVE  OriginGrows
<1>1. /\ Len(store) \in Nat /\ store \in Seq(CommitRecords) /\ repo \in Repos(Len(store))
      /\ origin \in Origins(Len(store)) /\ repo.head \in Commits /\ origin.main \in Commits
  BY TypeFacts DEF ServerInv, Shape, TypeOK, Commits, Repos, Origins
<1>2. StoreGrows BY StepKept DEF Kept
<1>3. store'[origin.main] = store[origin.main] BY <1>1, <1>2, StoreKept DEF ServerInv, Shape
<1>4. origin.main \in store[origin.main].anc BY <1>1 DEF ServerInv, HistoryInv
<1>5. CASE UNCHANGED origin BY <1>3, <1>4, <1>5 DEF OriginGrows
<1>6. CASE origin' = [origin EXCEPT !.rescue = @ \cup {job.rescue}]
  BY <1>1, <1>3, <1>4, <1>6 DEF OriginGrows, Origins
<1>7. CASE pushWithRetry
  <2>1. CASE PushBranch
    <3>1. store' = store BY <1>7 DEF pushWithRetry
    <3>. QED BY <1>1, <2>1, <3>1 DEF PushBranch, IsAncestor, OriginGrows, Origins
  <2>2. PushBranch \/ UNCHANGED origin BY <1>7 DEF pushWithRetry, RemoteCommand
  <2>. QED BY <1>5, <2>1, <2>2
<1>8. ASSUME NEW p \in Path, UpstreamCommit(p) PROVE OriginGrows
  <2>1. PICK b \in {Absent, {lastVer + 1}} :
           store' = WithCommit(store, [store[origin.main].tree EXCEPT ![p] = b], {origin.main})
    BY <1>8 DEF UpstreamCommit
  <2>2. origin' = [origin EXCEPT !.main = Len(store) + 1] BY <1>8 DEF UpstreamCommit
  <2>3. store[origin.main].tree \in Trees BY <1>1, TreeOf DEF Commits
  <2>4. b \in Blob BY DEF Blob, Absent, ServerInv, Shape, TypeOK
  <2>5. [store[origin.main].tree EXCEPT ![p] = b] \in Trees BY <2>3, <2>4, TreeUpdates
  <2>6. {origin.main} \in SUBSET (1..Len(store)) BY <1>1 DEF Commits
  <2>7. store'[Len(store) + 1].anc = History(store, {origin.main}) \cup {Len(store) + 1}
    BY <1>1, <2>1, <2>5, <2>6, WithCommitFacts
  <2>8. origin.main \in History(store, {origin.main}) BY <1>4, HistoryMember
  <2>. QED BY <1>1, <2>2, <2>7, <2>8 DEF OriginGrows, Origins
<1>9. CASE WriteNext
  <2>1. CASE PushRescue BY <1>5, <1>6, <2>1 DEF PushRescue, RemoteCommand
  <2>2. CASE RetryFetch BY <1>5, <2>2 DEF RetryFetch, RemoteCommand, Fetch
  <2>3. ASSUME NEW p, WriteFile(p) \/ WriteFileIfAbsent(p) \/ DeleteFile(p)
        PROVE  OriginGrows
    <3>2. \A v : writeFileLocked(p, v) => UNCHANGED origin BY DEF writeFileLocked
    <3>1. UNCHANGED origin BY <2>3, <3>2 DEF WriteFile, WriteFileIfAbsent, DeleteFile
    <3>. QED BY <1>5, <3>1
  <2>4. CASE \/ FlushPendingIfDue \/ TruncateFile \/ WriteContent \/ StageWrite
             \/ enqueuePendingLocked \/ StatForDelete \/ RemoveForDelete
             \/ flushPendingLocked \/ CommitStaged \/ CommitFailed \/ Pushed
             \/ retainCommitAfterFailedPushLocked \/ mergeWithDirtyTreeRescue \/ AbortMerge
             \/ createRescueCommit \/ ResetAfterRescue \/ CleanAfterRescue
    <3>1. UNCHANGED origin
      BY <2>4 DEF FlushPendingIfDue, TruncateFile, WriteContent, OnDisk, StageWrite,
           enqueuePendingLocked, StatForDelete, RemoveForDelete, flushPendingLocked,
           CommitStaged, CommitFailed, Pushed, retainCommitAfterFailedPushLocked,
           mergeWithDirtyTreeRescue, AbortMerge, createRescueCommit, ResetAfterRescue,
           CleanAfterRescue
    <3>. QED BY <1>5, <3>1
  <2>. QED BY <1>7, <1>9, <2>1, <2>2, <2>3, <2>4 DEF WriteNext
<1>10. CASE PullNext
  <2>1. UNCHANGED origin
    BY <1>10 DEF PullNext, StartPull, cleanupStaleLocksForCycle, recoverRepoState,
         syncWithUpstream, RemoteCommand, Fetch, fastForwardOrRescue, ensureConflictsDir,
         resolveEachPath, skipQuarantinedPath, StageSide, ResolverOpen, ResolverWrite,
         ResolverAdd, QuarantineRm, QuarantineWrite, QuarantineAdd, QuarantineRestore,
         QuarantineDone, commitAndPushMerge
  <2>. QED BY <1>5, <2>1
<1>11. CASE Return \/ UNCHANGED vars BY <1>5, <1>11 DEF Return, vars
<1>. QED BY <1>8, <1>9, <1>10, <1>11, LifeStep

\* A reachable commit stays so, with its tree.
LEMMA ReachGrows ==
  ASSUME ServerInv, LifeInv, TransInv, [Next]_vars
  PROVE  /\ Reachable \subseteq Reachable'
         /\ \A c \in Reachable : c \in Commits /\ store'[c] = store[c]
<1>1. /\ Len(store) \in Nat /\ repo.head \in Commits /\ origin.main \in Commits
      /\ origin.rescue \subseteq Commits
  BY TypeFacts DEF ServerInv, Shape, TypeOK, Commits, Repos, Origins
<1>2. StoreGrows /\ HeadMoves BY StepKept DEF Kept
<1>3. ServerInv' BY ServerStep
<1>4. TransInv' BY <1>2, TransStep DEF ServerInv, Shape
<1>5. repo.head \in store'[repo'.head].anc BY <1>2, HeadAdvances DEF ServerInv, Shape
<1>6. OriginGrows BY OriginStep
<1>7. repo'.head \in Commits' /\ origin'.main \in Commits'
  BY <1>3, TypeFacts DEF ServerInv, Shape, TypeOK, Commits, Repos, Origins
<1>8. \A c \in Commits : store'[c] = store[c] BY <1>2, StoreKept DEF ServerInv, Shape
<1>9. \A d \in Commits : store[d].anc \subseteq Commits
  BY <1>1 DEF ServerInv, HistoryInv, Commits
<1>. DEFINE roots == {repo.head, origin.main} \cup origin.rescue
<1>10. \A c : c \in Reachable <=> \E x \in roots : c \in store[x].anc
  BY HistoryMember DEF Reachable
<1>11. \A c : c \in Reachable' <=>
          \E x \in {repo'.head, origin'.main} \cup origin'.rescue : c \in store'[x].anc
  BY HistoryMember DEF Reachable
<1>12. ASSUME NEW c \in Reachable PROVE c \in Commits /\ c \in Reachable'
  <2>1. PICK x \in roots : c \in store[x].anc BY <1>10
  <2>2. x \in Commits /\ c \in store'[x].anc BY <1>1, <1>8, <2>1
  <2>3. CASE x = repo.head
    <3>1. c \in store'[repo'.head].anc BY <1>4, <1>5, <1>7, <2>2, <2>3 DEF TransInv
    <3>. QED BY <1>9, <1>11, <2>1, <2>2, <3>1
  <2>4. CASE x = origin.main
    <3>1. c \in store'[origin'.main].anc BY <1>4, <1>6, <1>7, <2>2, <2>4 DEF TransInv, OriginGrows
    <3>. QED BY <1>9, <1>11, <2>1, <2>2, <3>1
  <2>5. CASE x \in origin.rescue BY <1>6, <1>9, <1>11, <2>1, <2>2, <2>5 DEF OriginGrows
  <2>. QED BY <2>1, <2>3, <2>4, <2>5
<1>. QED BY <1>8, <1>12

\* So what a reachable commit holds stays held.
LEMMA HeldKept ==
  ASSUME ServerInv, LifeInv, TransInv, [Next]_vars
  PROVE  \A f, V : Held(f, V) => Held(f, V)'
<1>. TAKE f, V
<1>. HAVE Held(f, V)
<1>1. PICK v \in V, c \in Reachable : v \in store[c].tree[f] BY DEF Held
<1>2. c \in Reachable' /\ store'[c] = store[c] BY ReachGrows
<1>. QED BY <1>1, <1>2 DEF Held

---------------------------------------------------------------------------
(* No text has a version from the future *)

\* More versions are still versions.
LEMMA LaterVersions ==
  ASSUME NEW n \in Nat, NEW m \in Nat, n <= m
  PROVE  /\ TreesTo(n) \subseteq TreesTo(m)
         /\ \A r : RepoTo(n, r) => RepoTo(m, r)
         /\ \A j : JobTo(n, j) => JobTo(m, j)
         /\ \A s : StoreTo(n, s) => StoreTo(m, s)
<1>1. SUBSET (0..n) \subseteq SUBSET (0..m) OBVIOUS
<1>2. TreesTo(n) \subseteq TreesTo(m) BY <1>1 DEF TreesTo
<1>. QED BY <1>1, <1>2 DEF RepoTo, JobTo, StoreTo

\* Commands on one path.
LEMMA PathTo ==
  ASSUME NEW k, NEW r \in Repos(k), NEW n \in Nat, RepoTo(n, r), NEW p \in Path
  PROVE  /\ RepoTo(n, Add(r, p)) /\ RepoTo(n, Rm(r, p))
         /\ \A b \in SUBSET (0..n) : RepoTo(n, TakeVersion(r, p, b))
         /\ \A b \in SUBSET (0..n) :
               RepoTo(n, [r EXCEPT !.work[p] = b]) /\ RepoTo(n, CheckOutSide(r, p, b))
         /\ \A b : RepoTo(n, [r EXCEPT !.lock = b]) /\ RepoTo(n, [r EXCEPT !.tracking = b])
<1>1. {} \in SUBSET (0..n) OBVIOUS
<1>2. \A t \in TreesTo(n) : t[p] \in SUBSET (0..n) BY DEF TreesTo
<1>3. \A t \in TreesTo(n), b \in SUBSET (0..n) : [t EXCEPT ![p] = b] \in TreesTo(n) BY DEF TreesTo
<1>4. RepoTo(n, Add(r, p)) BY <1>2, <1>3 DEF Add, RepoTo, Repos
<1>5. RepoTo(n, Rm(r, p)) BY <1>1, <1>3 DEF Rm, Absent, RepoTo, Repos
<1>6. \A b \in SUBSET (0..n) : RepoTo(n, TakeVersion(r, p, b)) BY <1>3 DEF TakeVersion, RepoTo, Repos
<1>7. \A b \in SUBSET (0..n) : RepoTo(n, [r EXCEPT !.work[p] = b]) BY <1>3 DEF RepoTo, Repos
<1>8. \A b : RepoTo(n, [r EXCEPT !.lock = b]) /\ RepoTo(n, [r EXCEPT !.tracking = b])
  BY DEF RepoTo, Repos
<1>. QED BY <1>4, <1>5, <1>6, <1>7, <1>8 DEF CheckOutSide

\* A tree put together from others, path by path.
LEMMA ChosenTree ==
  ASSUME NEW n, NEW a \in TreesTo(n), NEW b \in TreesTo(n), NEW S
  PROVE  [p \in Path |-> IF p \in S THEN a[p] ELSE b[p]] \in TreesTo(n)
BY DEF TreesTo

\* A fast-forward, an abort, a reset and a clean.
LEMMA MovesTo ==
  ASSUME NEW s \in Seq(CommitRecords), NEW n \in Nat, StoreTo(n, s), NEW r \in Repos(Len(s)),
         RepoTo(n, r), NEW u \in 1..Len(s)
  PROVE  /\ RepoTo(n, FastForward(s, r, u)) /\ RepoTo(n, MergeAbort(s, r))
         /\ RepoTo(n, ResetHard(s, r, u)) /\ RepoTo(n, CleanUntracked(r))
<1>1. s[u].tree \in TreesTo(n) /\ HeadTree(s, r) \in TreesTo(n)
  BY DEF StoreTo, HeadTree, Repos
<1>2. r.index \in TreesTo(n) /\ r.work \in TreesTo(n) BY DEF RepoTo
<1>3. RepoTo(n, FastForward(s, r, u))
  <2>. DEFINE moved == {p \in Path : HeadTree(s, r)[p] # s[u].tree[p]}
              i == [p \in Path |-> IF p \in moved THEN s[u].tree[p] ELSE r.index[p]]
              w == [p \in Path |-> IF p \in moved /\ r.index[p] = r.work[p]
                                   THEN s[u].tree[p] ELSE r.work[p]]
  <2>1. FastForward(s, r, u) = [r EXCEPT !.head = u, !.index = i, !.work = w]
    BY DEF FastForward
  <2>2. i \in TreesTo(n) /\ w \in TreesTo(n) BY <1>1, <1>2 DEF TreesTo
  <2>. HIDE DEF i, w
  <2>. QED BY <2>1, <2>2 DEF RepoTo, Repos
<1>4. RepoTo(n, MergeAbort(s, r))
  <2>. DEFINE w == [p \in Path |-> IF p \in StagedPaths(s, r)
                                   THEN HeadTree(s, r)[p] ELSE r.work[p]]
  <2>1. MergeAbort(s, r) = [r EXCEPT !.merge = NoCommit, !.unmerged = {},
                                     !.index = HeadTree(s, r), !.work = w]
    BY DEF MergeAbort
  <2>2. w \in TreesTo(n) BY <1>1, <1>2, ChosenTree
  <2>. HIDE DEF w
  <2>. QED BY <1>1, <2>1, <2>2 DEF RepoTo, Repos
<1>5. RepoTo(n, ResetHard(s, r, u))
  <2>. DEFINE w == [p \in Path |-> IF p \in Untracked(r) /\ s[u].tree[p] = Absent
                                   THEN r.work[p] ELSE s[u].tree[p]]
  <2>1. ResetHard(s, r, u) = [r EXCEPT !.head = u, !.merge = NoCommit, !.unmerged = {},
                                       !.index = s[u].tree, !.work = w]
    BY DEF ResetHard
  <2>2. w \in TreesTo(n) BY <1>1, <1>2 DEF TreesTo
  <2>. HIDE DEF w
  <2>. QED BY <1>1, <2>1, <2>2 DEF RepoTo, Repos
<1>6. RepoTo(n, CleanUntracked(r))
  <2>. DEFINE w == [p \in Path |-> IF r.index[p] = Absent THEN Absent ELSE r.work[p]]
  <2>1. CleanUntracked(r) = [r EXCEPT !.work = w] BY DEF CleanUntracked
  <2>2. w \in TreesTo(n) BY <1>2 DEF TreesTo, Absent
  <2>. HIDE DEF w
  <2>. QED BY <1>2, <2>1, <2>2 DEF RepoTo, Repos
<1>. QED BY <1>3, <1>4, <1>5, <1>6

\* A merge puts nothing but the text of its two sides, and markers, into a file.
LEMMA MergeTo ==
  ASSUME NEW s \in Seq(CommitRecords), NEW n \in Nat, StoreTo(n, s), NEW r \in Repos(Len(s)),
         RepoTo(n, r), NEW u \in 1..Len(s), NEW auto
  PROVE  RepoTo(n, MergeInto(s, r, u, auto))
<1>1. s[u].tree \in TreesTo(n) /\ s[r.head].tree \in TreesTo(n) BY DEF StoreTo, Repos
<1>2. r.index \in TreesTo(n) /\ r.work \in TreesTo(n) BY DEF RepoTo
<1>. DEFINE m == MergedTree(s, r.head, u, auto)
            open == BothChanged(s, r.head, u) \ auto
            i == [p \in Path |-> IF p \in open THEN Absent ELSE m[p]]
            w == [p \in Path |-> IF p \in Unstaged(r) THEN r.work[p] ELSE m[p]]
<1>3. m \in TreesTo(n)
  <2>1. \A p \in Path : s[u].tree[p] \in SUBSET (0..n) /\ s[r.head].tree[p] \in SUBSET (0..n)
    BY <1>1 DEF TreesTo
  <2>2. Marker \in 0..n BY DEF Marker
  <2>. QED BY <2>1, <2>2 DEF MergedTree, TreesTo
<1>4. MergeInto(s, r, u, auto) = [r EXCEPT !.merge = u, !.unmerged = open, !.index = i, !.work = w]
  BY DEF MergeInto
<1>5. i \in TreesTo(n) /\ w \in TreesTo(n)
  <2>. HIDE DEF m, open
  <2>. QED BY <1>2, <1>3 DEF TreesTo, Absent
<1>. HIDE DEF i, w, open
<1>. QED BY <1>4, <1>5 DEF RepoTo, Repos

\* A commit of such a tree.
LEMMA CommitTo ==
  ASSUME NEW s \in Seq(CommitRecords), NEW n \in Nat, StoreTo(n, s), NEW t \in Trees,
         t \in TreesTo(n), NEW P \in SUBSET (1..Len(s))
  PROVE  StoreTo(n, WithCommit(s, t, P))
BY WithCommitFacts DEF StoreTo

\* What a step with no new body in it may do to the text.
TextStep ==
    StoreTo(lastVer, store') /\ RepoTo(lastVer, repo') /\ JobTo(lastVer, job')

\* What the operators need of the invariant.
LEMMA FreshFacts ==
  ASSUME Shape, FreshInv
  PROVE  /\ Len(store) \in Nat /\ store \in Seq(CommitRecords) /\ repo \in Repos(Len(store))
         /\ job \in Jobs(Len(store)) /\ job.path \in Path /\ job.dest \in Path
         /\ repo.head \in 1..Len(store) /\ repo.tracking \in 1..Len(store)
         /\ lastVer \in Nat /\ lastVer >= 2
         /\ StoreTo(lastVer, store) /\ RepoTo(lastVer, repo) /\ RepoTo(lastVer, Locked)
         /\ JobTo(lastVer, job) /\ JobTo(lastVer, NoJob)
         /\ \A p \in Path : /\ repo.work[p] \in SUBSET (0..lastVer)
                            /\ repo.index[p] \in SUBSET (0..lastVer)
                            /\ HeadTree(store, repo)[p] \in SUBSET (0..lastVer)
<1>1. /\ Len(store) \in Nat /\ repo \in Repos(Len(store)) /\ store \in Seq(CommitRecords)
      /\ job \in Jobs(Len(store)) /\ job.path \in Path /\ job.dest \in Path
      /\ repo.head \in 1..Len(store) /\ repo.tracking \in 1..Len(store) /\ lastVer \in Nat
  BY TypeFacts DEF Shape, TypeOK, Jobs
<1>2. RepoTo(lastVer, repo) /\ StoreTo(lastVer, store) /\ JobTo(lastVer, job) /\ lastVer >= 2
  BY DEF FreshInv
<1>3. RepoTo(lastVer, Locked) BY <1>1, <1>2, PathTo DEF Locked
<1>4. JobTo(lastVer, NoJob)
  <2>1. NoJob.blob = {} /\ NoJob.ver = 0 BY DEF NoJob, Absent
  <2>. QED BY <1>1, <2>1 DEF JobTo
<1>5. HeadTree(store, repo) \in TreesTo(lastVer) BY <1>1, <1>2 DEF HeadTree, StoreTo
<1>6. \A t \in TreesTo(lastVer), p \in Path : t[p] \in SUBSET (0..lastVer) BY DEF TreesTo
<1>. QED BY <1>1, <1>2, <1>3, <1>4, <1>5, <1>6 DEF RepoTo

\* Requests: the body is new, or the text of a file that the server has.
LEMMA ClientFresh ==
  ASSUME Shape, FreshInv, NEW p \in Path,
         WriteFile(p) \/ WriteFileIfAbsent(p) \/ DeleteFile(p)
  PROVE  FreshInv'
<1>1. /\ lastVer \in Nat /\ lastVer >= 2 /\ StoreTo(lastVer, store) /\ RepoTo(lastVer, repo)
      /\ JobTo(lastVer, job)
      /\ repo.work[p] \in SUBSET (0..lastVer) /\ HeadTree(store, repo)[p] \in SUBSET (0..lastVer)
  BY FreshFacts
<1>2. NoJob \in Jobs(0) /\ NoJob.blob = {} BY NoJobType DEF NoJob, Absent
<1>3. ASSUME NEW v \in 0..lastVer + 1, writeFileLocked(p, v)
      PROVE  /\ UNCHANGED <<store, repo>>
             /\ job' = job \/ (job'.blob = {} /\ job'.ver = v)
  BY <1>2, <1>3 DEF writeFileLocked, Jobs
<1>4. CASE (WriteFile(p) /\ lastVer' = lastVer) \/ DeleteFile(p)
  <2>1. CASE DeleteFile(p)
    <3>1. /\ UNCHANGED <<store, repo, lastVer>>
          /\ job' = [NoJob EXCEPT !.kind = "delete", !.phase = "flush", !.path = p]
      BY <2>1 DEF DeleteFile, Start
    <3>2. job'.blob = {} /\ job'.ver = 0 BY <1>2, <3>1 DEF NoJob, Jobs
    <3>. QED BY <1>1, <3>1, <3>2 DEF FreshInv, JobTo
  <2>2. CASE WriteFile(p) /\ lastVer' = lastVer
    <3>1. PICK v : /\ v \in repo.work[p] \cup HeadTree(store, repo)[p]
                   /\ writeFileLocked(p, v)
      BY <1>1, <2>2 DEF WriteFile
    <3>2. v \in 0..lastVer /\ v \in 0..lastVer + 1 BY <1>1, <3>1
    <3>3. UNCHANGED <<store, repo>> /\ (job' = job \/ (job'.blob = {} /\ job'.ver = v))
      BY <1>3, <3>1, <3>2
    <3>4. JobTo(lastVer, job') BY <1>1, <3>2, <3>3 DEF JobTo
    <3>. QED BY <1>1, <2>2, <3>3, <3>4 DEF FreshInv
  <2>. QED BY <1>4, <2>1, <2>2
<1>5. CASE lastVer' = lastVer + 1 /\ writeFileLocked(p, lastVer + 1)
  <2>1. /\ UNCHANGED <<store, repo>>
        /\ job' = job \/ (job'.blob = {} /\ job'.ver = lastVer + 1)
    BY <1>1, <1>3, <1>5
  <2>2. JobTo(lastVer + 1, job') BY <1>1, <2>1 DEF JobTo
  <2>3. lastVer' \in Nat /\ lastVer <= lastVer' /\ lastVer' >= 2 BY <1>1, <1>5
  <2>. QED BY <1>1, <1>5, <2>1, <2>2, <2>3, LaterVersions DEF FreshInv
<1>. QED BY <1>4, <1>5 DEF WriteFile, WriteFileIfAbsent

\* WriteFile and DeleteFile.
LEMMA StageFresh ==
  ASSUME Shape, FreshInv,
         \/ TruncateFile \/ WriteContent \/ StageWrite \/ enqueuePendingLocked
         \/ StatForDelete \/ RemoveForDelete
  PROVE  TextStep
<1>1. /\ repo \in Repos(Len(store)) /\ job.path \in Path /\ lastVer \in Nat /\ lastVer >= 2
      /\ StoreTo(lastVer, store) /\ RepoTo(lastVer, repo) /\ RepoTo(lastVer, Locked)
      /\ JobTo(lastVer, job) /\ JobTo(lastVer, NoJob)
  BY FreshFacts
<1>2. Blank \in SUBSET (0..lastVer) /\ {job.ver} \in SUBSET (0..lastVer) BY <1>1 DEF Blank, JobTo
<1>3. /\ store' = store /\ job' \in {job, NoJob}
      /\ \/ repo' \in {repo, Locked, Add(repo, job.path), Rm(repo, job.path)}
         \/ \E b \in {Blank, {job.ver}} : repo' = [repo EXCEPT !.work[job.path] = b]
  BY DEF TruncateFile, WriteContent, OnDisk, StageWrite, enqueuePendingLocked, StatForDelete,
         RemoveForDelete, Command, RunOrCut, IoFault, NoEffect, Locked, Finish
<1>4. \A b \in {Blank, {job.ver}} : RepoTo(lastVer, [repo EXCEPT !.work[job.path] = b])
  BY <1>1, <1>2, PathTo
<1>5. RepoTo(lastVer, Add(repo, job.path)) /\ RepoTo(lastVer, Rm(repo, job.path))
  BY <1>1, PathTo
<1>6. RepoTo(lastVer, repo') BY <1>1, <1>3, <1>4, <1>5
<1>. QED BY <1>1, <1>3, <1>6 DEF TextStep

\* The steps of a flush, the end of a job and the start of a pull.
LEMMA FlushFresh ==
  ASSUME Shape, FreshInv,
         \/ FlushPendingIfDue \/ flushPendingLocked \/ CommitFailed \/ Pushed
         \/ retainCommitAfterFailedPushLocked \/ Return
         \/ StartPull \/ cleanupStaleLocksForCycle
  PROVE  TextStep
<1>1. /\ repo \in Repos(Len(store)) /\ job \in Jobs(Len(store)) /\ job.path \in Path
      /\ lastVer \in Nat
      /\ StoreTo(lastVer, store) /\ RepoTo(lastVer, repo)
      /\ JobTo(lastVer, job) /\ JobTo(lastVer, NoJob)
  BY FreshFacts
<1>2. NoJob \in Jobs(0) BY NoJobType
<1>3. store' = store /\ repo'.index = repo.index /\ repo'.work = repo.work
  BY <1>1 DEF FlushPendingIfDue, flushPendingLocked, CommitFailed, Pushed, Start,
         retainCommitAfterFailedPushLocked, Return, StartPull, cleanupStaleLocksForCycle, Repos
<1>4. CASE FlushPendingIfDue \/ StartPull \/ Return
  <2>1. job'.blob = NoJob.blob /\ job'.ver = NoJob.ver
    BY <1>2, <1>4 DEF FlushPendingIfDue, StartPull, Return, Start, Finish, Jobs
  <2>. QED BY <1>1, <1>3, <2>1 DEF TextStep, RepoTo, JobTo
<1>5. CASE \/ flushPendingLocked \/ CommitFailed \/ Pushed
           \/ retainCommitAfterFailedPushLocked \/ cleanupStaleLocksForCycle
  <2>1. \A ok : FlushReturns(ok) => job'.blob = job.blob /\ job'.ver = job.ver
    BY <1>1 DEF FlushReturns, Jobs
  <2>2. job'.blob = job.blob /\ job'.ver = job.ver
    BY <1>5, <2>1 DEF flushPendingLocked, CommitFailed, Pushed, Finish,
       retainCommitAfterFailedPushLocked, cleanupStaleLocksForCycle
  <2>. QED BY <1>1, <1>3, <2>2 DEF TextStep, RepoTo, JobTo
<1>. QED BY <1>4, <1>5

\* git commit, the push and the fetch.
LEMMA CommitFresh ==
  ASSUME Shape, FreshInv,
         \/ CommitStaged \/ commitAndPushMerge
         \/ pushWithRetry \/ RetryFetch \/ PushRescue \/ syncWithUpstream
  PROVE  TextStep
<1>1. /\ Len(store) \in Nat /\ store \in Seq(CommitRecords)
      /\ repo \in Repos(Len(store)) /\ job \in Jobs(Len(store)) /\ job.path \in Path
      /\ lastVer \in Nat /\ StoreTo(lastVer, store) /\ RepoTo(lastVer, repo)
      /\ RepoTo(lastVer, Locked) /\ JobTo(lastVer, job)
  BY FreshFacts
<1>2. CASE CommitStaged \/ commitAndPushMerge
  <2>1. job' = job /\ (CommitHead \/ (store' = store /\ repo' \in {repo, Locked}))
    BY <1>2 DEF CommitStaged, commitAndPushMerge, Command, RunOrCut, IoFault, NoEffect, Locked
  <2>2. CASE CommitHead
    <3>1. repo.index \in Trees /\ repo.index \in TreesTo(lastVer)
      BY <1>1, RepoUpdates DEF RepoTo
    <3>2. Parents(repo) \in SUBSET (1..Len(store)) BY <1>1, NewCommitType
    <3>3. StoreTo(lastVer, store') BY <1>1, <2>2, <3>1, <3>2, CommitTo DEF CommitHead
    <3>4. RepoTo(lastVer, repo') BY <1>1, <2>2 DEF CommitHead, AtNewCommit, RepoTo, Repos
    <3>. QED BY <1>1, <2>1, <3>3, <3>4 DEF TextStep
  <2>. QED BY <1>1, <2>1, <2>2 DEF TextStep
<1>3. CASE pushWithRetry \/ RetryFetch \/ PushRescue \/ syncWithUpstream
  <2>1. store' = store /\ repo'.index = repo.index /\ repo'.work = repo.work
    BY <1>1, <1>3 DEF pushWithRetry, RetryFetch, PushRescue, syncWithUpstream, RemoteCommand,
         PushBranch, TrackPushed, Fetch, Repos
  <2>2. job'.blob = job.blob /\ job'.ver = job.ver
    BY <1>1, <1>3 DEF pushWithRetry, RetryFetch, PushRescue, syncWithUpstream, Jobs
  <2>. QED BY <1>1, <2>1, <2>2 DEF TextStep, RepoTo, JobTo
<1>. QED BY <1>2, <1>3

\* git merge: what it leaves is the text of the two sides.
LEMMA MergeFresh ==
  ASSUME Shape, FreshInv, mergeWithDirtyTreeRescue
  PROVE  TextStep
<1>1. /\ Len(store) \in Nat /\ store \in Seq(CommitRecords)
      /\ repo \in Repos(Len(store)) /\ job \in Jobs(Len(store))
      /\ repo.tracking \in 1..Len(store) /\ repo.head \in 1..Len(store)
      /\ lastVer \in Nat /\ StoreTo(lastVer, store) /\ RepoTo(lastVer, repo)
      /\ RepoTo(lastVer, Locked) /\ JobTo(lastVer, job)
  BY FreshFacts
<1>2. PICK auto : MergeOutcome(auto) BY MergeOutcomes
<1>3. RepoTo(lastVer, FastForward(store, repo, repo.tracking)) BY <1>1, MovesTo
<1>4. RepoTo(lastVer, Merge(auto)) BY <1>1, MergeTo DEF Merge
<1>5. JobTo(lastVer, job') BY <1>1 DEF mergeWithDirtyTreeRescue, JobTo, Jobs
<1>6. ASSUME /\ store' = WithCommit(store, Merge(auto).index, Parents(Merge(auto)))
             /\ repo' = AtNewCommit(store, Merge(auto))
      PROVE  StoreTo(lastVer, store') /\ RepoTo(lastVer, repo')
  <2>1. Merge(auto) \in Repos(Len(store)) BY <1>1, MergeIntoType DEF Merge
  <2>2. Merge(auto).index \in Trees /\ Merge(auto).index \in TreesTo(lastVer)
    BY <1>1, <1>4, <2>1, RepoUpdates DEF RepoTo
  <2>3. Parents(Merge(auto)) \in SUBSET (1..Len(store)) BY <1>1, <2>1, NewCommitType
  <2>4. StoreTo(lastVer, store') BY <1>1, <1>6, <2>2, <2>3, CommitTo
  <2>5. RepoTo(lastVer, repo') BY <1>4, <1>6, <2>1 DEF AtNewCommit, RepoTo, Repos
  <2>. QED BY <2>4, <2>5
<1>. QED BY <1>1, <1>2, <1>3, <1>4, <1>5, <1>6 DEF MergeOutcome, TextStep

\* merge --abort, the rescue and the fast-forward.
LEMMA RescueFresh ==
  ASSUME Shape, FreshInv,
         \/ AbortMerge \/ recoverRepoState \/ createRescueCommit \/ ResetAfterRescue
         \/ CleanAfterRescue \/ fastForwardOrRescue
  PROVE  TextStep
<1>1. /\ Len(store) \in Nat /\ store \in Seq(CommitRecords)
      /\ repo \in Repos(Len(store)) /\ job \in Jobs(Len(store))
      /\ repo.tracking \in 1..Len(store) /\ repo.head \in 1..Len(store)
      /\ lastVer \in Nat /\ StoreTo(lastVer, store) /\ RepoTo(lastVer, repo)
      /\ RepoTo(lastVer, Locked) /\ JobTo(lastVer, job)
  BY FreshFacts
<1>2. /\ RepoTo(lastVer, FastForward(store, repo, repo.tracking))
      /\ RepoTo(lastVer, MergeAbort(store, repo)) /\ RepoTo(lastVer, CleanUntracked(repo))
      /\ RepoTo(lastVer, ResetHard(store, repo, ResetTarget))
  BY <1>1, MovesTo DEF ResetTarget
<1>3. CASE createRescueCommit
  <2>1. /\ repo' = repo /\ (store' = store \/ store' = WithCommit(store, repo.work, {repo.head}))
        /\ job'.blob = job.blob /\ job'.ver = job.ver
    BY <1>1, <1>3 DEF createRescueCommit, RescueTree, Jobs
  <2>2. repo.work \in Trees /\ repo.work \in TreesTo(lastVer) BY <1>1, RepoUpdates DEF RepoTo
  <2>3. {repo.head} \in SUBSET (1..Len(store)) BY <1>1
  <2>4. StoreTo(lastVer, store') BY <1>1, <2>1, <2>2, <2>3, CommitTo
  <2>. QED BY <1>1, <2>1, <2>4 DEF TextStep, JobTo
<1>4. CASE \/ AbortMerge \/ recoverRepoState \/ ResetAfterRescue
           \/ CleanAfterRescue \/ fastForwardOrRescue
  <2>1. /\ store' = store
        /\ repo' \in {repo, Locked, FastForward(store, repo, repo.tracking),
                      MergeAbort(store, repo), CleanUntracked(repo),
                      ResetHard(store, repo, ResetTarget)}
    BY <1>4 DEF AbortMerge, recoverRepoState, ResetAfterRescue, CleanAfterRescue,
         fastForwardOrRescue, Command, RunOrCut, IoFault, NoEffect, CleanTree, Locked
  <2>2. job'.blob = job.blob /\ job'.ver = job.ver
    BY <1>1, <1>4 DEF AbortMerge, recoverRepoState, ResetAfterRescue, CleanAfterRescue,
         fastForwardOrRescue, Jobs
  <2>. QED BY <1>1, <1>2, <2>1, <2>2 DEF TextStep, JobTo
<1>. QED BY <1>3, <1>4

\* What the steps of the loop do to the job: its text is that of a file on disk.
LEMMA LoopJob ==
  ASSUME Shape, FreshInv
  PROVE  /\ \A p, r : Handled(p, r) => JobTo(lastVer, job')
         /\ \A p \in Path : StartQuarantine(p) => JobTo(lastVer, job')
         /\ \A p \in Path : \A step : StartResolver(p, step) => JobTo(lastVer, job')
<1>1. /\ job \in Jobs(Len(store)) /\ JobTo(lastVer, job)
      /\ \A p \in Path : repo.work[p] \in SUBSET (0..lastVer)
  BY FreshFacts
<1>2. ASSUME NEW p, NEW r, Handled(p, r) PROVE JobTo(lastVer, job')
  BY <1>1, <1>2 DEF Handled, Jobs, JobTo
<1>3. ASSUME NEW p \in Path, StartQuarantine(p) PROVE JobTo(lastVer, job')
  BY <1>1, <1>3 DEF StartQuarantine, Raw, Jobs, JobTo
<1>4. ASSUME NEW p \in Path, NEW step, StartResolver(p, step) PROVE JobTo(lastVer, job')
  BY <1>1, <1>4 DEF StartResolver, Merged, Jobs, JobTo
<1>. QED BY <1>2, <1>3, <1>4

\* resolveEachPath.
LEMMA EachPathFresh ==
  ASSUME Undisturbed, Shape, Calm, FreshInv, resolveEachPath
  PROVE  TextStep
<1>1. /\ Len(store) \in Nat /\ store \in Seq(CommitRecords)
      /\ repo \in Repos(Len(store)) /\ job \in Jobs(Len(store))
      /\ lastVer \in Nat /\ StoreTo(lastVer, store) /\ RepoTo(lastVer, repo)
  BY FreshFacts
<1>2. store' = store /\ pc \in Loop BY LoopSteps DEF Looping, LoopStep
<1>3. repo.merge \in 1..Len(store) /\ job.todo \subseteq Path BY <1>2, LoopFacts
<1>4. store[repo.merge].tree \in TreesTo(lastVer) BY <1>1, <1>3 DEF StoreTo
<1>5. PICK p \in job.todo :
         \/ Takes(p)
         \/ /\ UNCHANGED repo
            /\ \/ \E step : StartResolver(p, step)
               \/ StartQuarantine(p)
  BY EachPathCases
<1>6. p \in Path BY <1>3
<1>7. store[repo.merge].tree[p] \in SUBSET (0..lastVer) BY <1>4, <1>6 DEF TreesTo
<1>8. /\ RepoTo(lastVer, CheckOutSide(repo, p, store[repo.merge].tree[p]))
      /\ RepoTo(lastVer, Rm(repo, p))
  BY <1>1, <1>6, <1>7, PathTo
<1>9. JobTo(lastVer, job')
  <2>1. ChecksOut(p) => JobTo(lastVer, job') BY FreshFacts DEF ChecksOut, Jobs, JobTo
  <2>. QED BY <1>5, <1>6, <2>1, LoopJob DEF Takes, Removes
<1>10. RepoTo(lastVer, repo') BY <1>1, <1>5, <1>8 DEF Takes, ChecksOut, Removes
<1>. QED BY <1>1, <1>2, <1>9, <1>10 DEF TextStep

\* The other steps of the loop.
LEMMA LoopFresh ==
  ASSUME Undisturbed, Shape, Calm, FreshInv, Looping
  PROVE  TextStep
<1>1. /\ Len(store) \in Nat /\ store \in Seq(CommitRecords)
      /\ repo \in Repos(Len(store)) /\ job \in Jobs(Len(store)) /\ job.path \in Path
      /\ job.dest \in Path /\ lastVer \in Nat /\ lastVer >= 2
      /\ StoreTo(lastVer, store) /\ RepoTo(lastVer, repo) /\ JobTo(lastVer, job)
      /\ HeadTree(store, repo)[job.path] \in SUBSET (0..lastVer)
  BY FreshFacts
<1>2. store' = store BY LoopSteps DEF LoopStep
<1>3. CASE resolveEachPath BY <1>3, EachPathFresh
<1>4. CASE ensureConflictsDir \/ QuarantineDone
  <2>1. repo' = repo /\ job'.blob = job.blob /\ job'.ver = job.ver
    BY <1>1, <1>4 DEF ensureConflictsDir, classifyConflicts, QuarantineDone, Jobs
  <2>. QED BY <1>1, <1>2, <2>1 DEF TextStep, JobTo
<1>5. CASE \/ skipQuarantinedPath \/ StageSide \/ ResolverOpen \/ ResolverWrite \/ ResolverAdd
           \/ QuarantineRm \/ QuarantineWrite \/ QuarantineAdd \/ QuarantineRestore
  <2>. DEFINE ours == HeadTree(store, repo)[job.path]
  <2>1. Blank \in SUBSET (0..lastVer) /\ job.blob \in SUBSET (0..lastVer)
    BY <1>1 DEF Blank, JobTo
  <2>2. \/ repo' \in {repo, TakeVersion(repo, job.path, ours), CheckOutSide(repo, job.path, ours),
                      Add(repo, job.path), Rm(repo, job.path), Add(repo, job.dest),
                      [repo EXCEPT !.work[job.path] = Blank],
                      [repo EXCEPT !.work[job.path] = job.blob],
                      [repo EXCEPT !.work[job.dest] = job.blob]}
    BY <1>5, LoopCases DEF Skips
  <2>3. job' = job \/ Handled(job.path, repo') \/ StartQuarantine(job.path)
    BY <1>5, LoopCases DEF Skips
  <2>4. JobTo(lastVer, job') BY <1>1, <2>3, LoopJob
  <2>5. /\ RepoTo(lastVer, TakeVersion(repo, job.path, ours))
        /\ RepoTo(lastVer, CheckOutSide(repo, job.path, ours))
        /\ RepoTo(lastVer, Add(repo, job.path)) /\ RepoTo(lastVer, Rm(repo, job.path))
        /\ RepoTo(lastVer, [repo EXCEPT !.work[job.path] = Blank])
        /\ RepoTo(lastVer, [repo EXCEPT !.work[job.path] = job.blob])
    BY <1>1, <2>1, PathTo
  <2>6. /\ RepoTo(lastVer, Add(repo, job.dest))
        /\ RepoTo(lastVer, [repo EXCEPT !.work[job.dest] = job.blob])
    BY <1>1, <2>1, PathTo
  <2>. HIDE DEF ours
  <2>. QED BY <1>1, <1>2, <2>2, <2>4, <2>5, <2>6 DEF TextStep
<1>. QED BY <1>3, <1>4, <1>5 DEF Looping

\* The other clones number their versions too.
LEMMA UpstreamFresh ==
  ASSUME Shape, FreshInv, NEW p \in Path, UpstreamCommit(p)
  PROVE  FreshInv'
<1>1. /\ Len(store) \in Nat /\ store \in Seq(CommitRecords) /\ lastVer \in Nat /\ lastVer >= 2
      /\ StoreTo(lastVer, store) /\ RepoTo(lastVer, repo) /\ JobTo(lastVer, job)
  BY FreshFacts
<1>2. origin.main \in 1..Len(store) BY DEF Shape, TypeOK, Origins
<1>3. PICK b \in {Absent, {lastVer + 1}} :
         /\ store' = WithCommit(store, [store[origin.main].tree EXCEPT ![p] = b], {origin.main})
         /\ lastVer' = IF b = Absent THEN lastVer ELSE lastVer + 1
  BY DEF UpstreamCommit
<1>4. lastVer' \in Nat /\ lastVer <= lastVer' /\ lastVer' >= 2 BY <1>1, <1>3
<1>5. StoreTo(lastVer', store) /\ RepoTo(lastVer', repo) /\ JobTo(lastVer', job)
  BY <1>1, <1>4, LaterVersions
<1>6. b \in SUBSET (0..lastVer') /\ b \in Blob BY <1>1, <1>3 DEF Absent, Blob
<1>7. store[origin.main].tree \in TreesTo(lastVer') /\ store[origin.main].tree \in Trees
  BY <1>1, <1>2, <1>5, TreeOf DEF StoreTo
<1>. DEFINE t == [store[origin.main].tree EXCEPT ![p] = b]
<1>8. t \in TreesTo(lastVer') /\ t \in Trees BY <1>6, <1>7 DEF TreesTo, Trees
<1>9. {origin.main} \in SUBSET (1..Len(store)) BY <1>2
<1>. HIDE DEF t
<1>10. StoreTo(lastVer', store') BY <1>1, <1>3, <1>4, <1>5, <1>8, <1>9, CommitTo DEF t
<1>11. UNCHANGED <<repo, job>> BY DEF UpstreamCommit
<1>. QED BY <1>4, <1>5, <1>10, <1>11 DEF FreshInv

\* A step without a new body leaves the version counter alone.
LEMMA TextKept ==
  ASSUME FreshInv, TextStep, UNCHANGED lastVer
  PROVE  FreshInv'
BY DEF FreshInv, TextStep

\* Every step keeps the text of written versions only.
LEMMA VersionStep ==
  ASSUME Undisturbed, ServerInv, LifeInv, Calm, FreshInv, [Next]_vars
  PROVE  FreshInv'
<1>0. Shape BY DEF ServerInv
<1>1. CASE \/ TruncateFile \/ WriteContent \/ StageWrite \/ enqueuePendingLocked
           \/ StatForDelete \/ RemoveForDelete
  <2>1. UNCHANGED lastVer
    BY <1>1 DEF TruncateFile, WriteContent, OnDisk, StageWrite, enqueuePendingLocked,
         StatForDelete, RemoveForDelete
  <2>. QED BY <1>1, <1>0, <2>1, StageFresh, TextKept
<1>2. CASE \/ FlushPendingIfDue \/ flushPendingLocked \/ CommitFailed \/ Pushed
           \/ retainCommitAfterFailedPushLocked \/ Return
           \/ StartPull \/ cleanupStaleLocksForCycle
  <2>1. UNCHANGED lastVer
    BY <1>2 DEF FlushPendingIfDue, flushPendingLocked, CommitFailed, Pushed,
         retainCommitAfterFailedPushLocked, Return, StartPull, cleanupStaleLocksForCycle
  <2>. QED BY <1>2, <1>0, <2>1, FlushFresh, TextKept
<1>3. CASE \/ CommitStaged \/ commitAndPushMerge
           \/ pushWithRetry \/ RetryFetch \/ PushRescue \/ syncWithUpstream
  <2>1. UNCHANGED lastVer
    BY <1>3 DEF CommitStaged, commitAndPushMerge, pushWithRetry, RetryFetch, PushRescue,
         syncWithUpstream
  <2>. QED BY <1>3, <1>0, <2>1, CommitFresh, TextKept
<1>4. CASE mergeWithDirtyTreeRescue
  <2>1. UNCHANGED lastVer BY <1>4 DEF mergeWithDirtyTreeRescue
  <2>. QED BY <1>4, <1>0, <2>1, MergeFresh, TextKept
<1>5. CASE \/ AbortMerge \/ recoverRepoState \/ createRescueCommit \/ ResetAfterRescue
           \/ CleanAfterRescue \/ fastForwardOrRescue
  <2>1. UNCHANGED lastVer
    BY <1>5 DEF AbortMerge, recoverRepoState, createRescueCommit, ResetAfterRescue,
         CleanAfterRescue, fastForwardOrRescue
  <2>. QED BY <1>5, <1>0, <2>1, RescueFresh, TextKept
<1>6. CASE Looping BY <1>6, <1>0, LoopFresh, LoopSteps, TextKept DEF LoopStep
<1>7. ASSUME NEW p \in Path, WriteFile(p) \/ WriteFileIfAbsent(p) \/ DeleteFile(p)
      PROVE  FreshInv'
  BY <1>7, <1>0, ClientFresh
<1>8. ASSUME NEW p \in Path, UpstreamCommit(p) PROVE FreshInv' BY <1>8, <1>0, UpstreamFresh
<1>9. CASE UNCHANGED vars BY <1>9 DEF vars, FreshInv
<1>10. ClientPaths \subseteq Path BY DEF ClientPaths, Path
<1>11. CASE WriteNext
  BY <1>1, <1>2, <1>3, <1>4, <1>5, <1>7, <1>10, <1>11 DEF WriteNext
<1>12. CASE PullNext BY <1>2, <1>3, <1>5, <1>6, <1>12 DEF PullNext, Looping
<1>. QED BY <1>2, <1>8, <1>9, <1>11, <1>12, LifeStep

---------------------------------------------------------------------------
(* What a step does to staged and written text *)

\* After the step a reachable commit has all of b at f.
Lands(f, b) == \E c \in Reachable' : b \subseteq store'[c].tree[f]

\* The step leaves what is staged and on disk, or stages what is on disk.
StaysStaged(f) ==
    /\ repo'.merge = NoCommit
    /\ repo'.work[f] = repo.work[f]
    /\ repo'.index[f] \in {repo.index[f], repo.work[f]}

\* No step takes text out of both the index and the tree, outside of a merge, unless a
\* commit that can be reached has one of the two.
KeepsText ==
    repo.merge = NoCommit =>
        \A f \in Path : StaysStaged(f) \/ Lands(f, repo.index[f]) \/ Lands(f, repo.work[f])

\* What HEAD or a rescue branch has lands, and what the step commits.
LEMMA Landing ==
  ASSUME ServerInv, LifeInv, TransInv, [Next]_vars
  PROVE  \A f : /\ \A b : b \subseteq HeadTree(store, repo)[f] => Lands(f, b)
                /\ \A c \in origin.rescue : Lands(f, store[c].tree[f])
                /\ Lands(f, HeadTree(store', repo')[f])
<1>1. repo.head \in Commits /\ origin.rescue \subseteq Commits /\ Len(store) \in Nat
  BY TypeFacts DEF ServerInv, Shape, TypeOK, Commits, Repos, Origins
<1>2. \A c \in {repo.head} \cup origin.rescue : c \in Reachable
  BY <1>1, HistoryMember DEF Reachable, ServerInv, HistoryInv
<1>3. \A c \in Reachable : c \in Reachable' /\ store'[c] = store[c] BY ReachGrows
<1>4. repo'.head \in Reachable'
  <2>1. ServerInv' BY ServerStep
  <2>2. repo'.head \in Commits' BY <2>1, TypeFacts DEF ServerInv, Shape, TypeOK, Commits, Repos
  <2>3. repo'.head \in store'[repo'.head].anc BY <2>1, <2>2 DEF ServerInv, HistoryInv
  <2>4. \A c : c \in Reachable' <=>
            \E x \in {repo'.head, origin'.main} \cup origin'.rescue : c \in store'[x].anc
    BY HistoryMember DEF Reachable
  <2>. QED BY <2>3, <2>4
<1>. QED BY <1>2, <1>3, <1>4 DEF Lands, HeadTree

\* A step that keeps text and changes no promise keeps what was promised.
LEMMA DurKept ==
  ASSUME ServerInv, LifeInv, Durable, [Next]_vars, UNCHANGED promised, pc # "write", KeepsText
  PROVE  DurInv'
<1>. SUFFICES ASSUME NEW f \in Path, promised[f] # {}
              PROVE  (Held(f, promised[f]) \/ StagedSafe(f))'
  BY DEF DurInv
<1>1. CASE Held(f, promised[f]) BY <1>1, HeldKept DEF Durable, Held
<1>2. CASE StagedSafe(f)
  <2>1. /\ repo.merge = NoCommit
        /\ promised[f] \cap repo.index[f] # {} /\ promised[f] \cap repo.work[f] # {}
    BY <1>2 DEF StagedSafe
  <2>2. CASE StaysStaged(f) BY <2>1, <2>2 DEF StaysStaged, StagedSafe
  <2>3. CASE Lands(f, repo.index[f]) \/ Lands(f, repo.work[f])
    BY <2>1, <2>3 DEF Lands, Held
  <2>. QED BY <2>1, <2>2, <2>3 DEF KeepsText
<1>. QED BY <1>1, <1>2 DEF Durable, DurInv

\* The step leaves the index, the tree and the merge as they are.
SameText == repo'.index = repo.index /\ repo'.work = repo.work /\ repo'.merge = repo.merge

\* Such a step takes no text away.
LEMMA SameTextKeeps ==
  ASSUME SameText
  PROVE  KeepsText
BY DEF SameText, KeepsText, StaysStaged

\* The places that change neither: what is committed, pushed, fetched or logged is left as
\* it is, and only the lock of a killed command is added.
LEMMA QuietText ==
  ASSUME ServerInv,
         \/ FlushPendingIfDue \/ enqueuePendingLocked \/ StatForDelete \/ flushPendingLocked
         \/ CommitFailed \/ Pushed \/ retainCommitAfterFailedPushLocked \/ Return \/ StartPull
         \/ createRescueCommit \/ cleanupStaleLocksForCycle
         \/ UNCHANGED vars \/ \E p \in Path : UpstreamCommit(p)
  PROVE  SameText
<1>1. repo \in Repos(Len(store)) BY TypeFacts DEF ServerInv, Shape, TypeOK
<1>2. CASE cleanupStaleLocksForCycle
  BY <1>1, <1>2 DEF cleanupStaleLocksForCycle, Repos, SameText
<1>3. CASE ~cleanupStaleLocksForCycle
  <2>1. UNCHANGED repo
    BY <1>3 DEF FlushPendingIfDue, enqueuePendingLocked, StatForDelete, flushPendingLocked,
         CommitFailed, Pushed, retainCommitAfterFailedPushLocked, Return, StartPull,
         createRescueCommit, UpstreamCommit, vars
  <2>. QED BY <2>1 DEF SameText
<1>. QED BY <1>2, <1>3

\* A request changes nothing on disk yet.
LEMMA ClientText ==
  ASSUME NEW p, WriteFile(p) \/ WriteFileIfAbsent(p) \/ DeleteFile(p)
  PROVE  UNCHANGED <<store, repo>> /\ pc = "idle"
<1>1. \A v : writeFileLocked(p, v) => UNCHANGED <<store, repo>> BY DEF writeFileLocked
<1>. QED BY <1>1 DEF WriteFile, WriteFileIfAbsent, DeleteFile, Start

\* Pushes and fetches move refs.
LEMMA RemoteText ==
  ASSUME ServerInv, pushWithRetry \/ RetryFetch \/ PushRescue \/ syncWithUpstream
  PROVE  SameText
<1>1. repo \in Repos(Len(store)) BY TypeFacts DEF ServerInv, Shape, TypeOK
<1>2. repo' = repo \/ \E c : repo' = [repo EXCEPT !.tracking = c]
  BY DEF pushWithRetry, RetryFetch, PushRescue, syncWithUpstream, RemoteCommand, PushBranch,
         TrackPushed, Fetch
<1>. QED BY <1>1, <1>2 DEF SameText, Repos

\* git add stages what is on disk.
LEMMA StageText ==
  ASSUME ServerInv, StageWrite
  PROVE  KeepsText
<1>1. repo \in Repos(Len(store)) /\ job.path \in Path
  BY TypeFacts DEF ServerInv, Shape, TypeOK, Jobs
<1>2. repo' \in {repo, Locked, Add(repo, job.path)}
  BY DEF StageWrite, Command, RunOrCut, IoFault, NoEffect, Locked
<1>3. CASE repo' \in {repo, Locked}
  BY <1>1, <1>3, SameTextKeeps DEF Locked, Repos, SameText
<1>4. CASE repo' = Add(repo, job.path)
  <2>1. /\ repo'.merge = repo.merge /\ repo'.work = repo.work
        /\ repo'.index = [repo.index EXCEPT ![job.path] = repo.work[job.path]]
    BY <1>1, <1>4 DEF Add, Repos
  <2>2. \A f \in Path : repo'.index[f] \in {repo.index[f], repo.work[f]}
    BY <1>1, <2>1 DEF Repos, Trees
  <2>. QED BY <2>1, <2>2 DEF KeepsText, StaysStaged
<1>. QED BY <1>2, <1>3, <1>4

\* git rm takes a file whose staged content HEAD has.
LEMMA RemoveText ==
  ASSUME ServerInv, LifeInv, TransInv, [Next]_vars, RemoveForDelete
  PROVE  KeepsText
<1>1. repo \in Repos(Len(store)) /\ job.path \in Path
  BY TypeFacts DEF ServerInv, Shape, TypeOK, Jobs
<1>2. \/ repo' \in {repo, Locked}
      \/ repo' = Rm(repo, job.path) /\ ~RmRefused(store, repo, job.path)
  BY DEF RemoveForDelete, Command, RunOrCut, IoFault, NoEffect, Locked
<1>3. CASE repo' \in {repo, Locked}
  BY <1>1, <1>3, SameTextKeeps DEF Locked, Repos, SameText
<1>4. CASE repo' = Rm(repo, job.path) /\ ~RmRefused(store, repo, job.path)
  <2>1. /\ repo'.merge = repo.merge
        /\ repo'.work = [repo.work EXCEPT ![job.path] = Absent]
        /\ repo'.index = [repo.index EXCEPT ![job.path] = Absent]
    BY <1>1, <1>4 DEF Rm, Repos
  <2>2. ASSUME NEW f \in Path, repo.merge = NoCommit PROVE StaysStaged(f) \/ Lands(f, repo.index[f])
    <3>1. CASE f = job.path
      <4>1. repo.index[f] = HeadTree(store, repo)[f]
        BY <1>4, <2>2, <3>1 DEF RmRefused, ServerInv, Core, MergeInv
      <4>. QED BY <4>1, Landing
    <3>2. CASE f # job.path
      BY <1>1, <2>1, <2>2, <3>2 DEF StaysStaged, Repos, Trees
    <3>. QED BY <3>1, <3>2
  <2>. QED BY <2>2 DEF KeepsText
<1>. QED BY <1>2, <1>3, <1>4

\* A commit has what is staged, and HEAD is the commit.
LEMMA CommitText ==
  ASSUME ServerInv, LifeInv, TransInv, [Next]_vars, CommitStaged \/ commitAndPushMerge
  PROVE  KeepsText
<1>1. repo \in Repos(Len(store)) /\ store \in Seq(CommitRecords) /\ Len(store) \in Nat
  BY TypeFacts DEF ServerInv, Shape, TypeOK
<1>2. CASE commitAndPushMerge
  BY <1>2 DEF commitAndPushMerge, KeepsText, ServerInv, Shape, StepInv, Loop
<1>3. CASE CommitStaged
  <2>1. repo' \in {repo, Locked} \/ CommitHead
    BY <1>3 DEF CommitStaged, Command, RunOrCut, IoFault, NoEffect, Locked
  <2>2. CASE repo' \in {repo, Locked}
    BY <1>1, <2>2, SameTextKeeps DEF Locked, Repos, SameText
  <2>3. CASE CommitHead
    <3>1. HeadTree(store', repo') = repo.index
      <4>1. repo'.head = Len(store) + 1 BY <1>1, <2>3 DEF CommitHead, AtNewCommit, Repos
      <4>2. store' = Append(store, [tree |-> repo.index, anc |-> History(store, Parents(repo))
                                                                 \cup {Len(store) + 1}])
        BY <2>3 DEF CommitHead, WithCommit
      <4>. QED BY <1>1, <4>1, <4>2 DEF HeadTree
    <3>2. \A f \in Path : Lands(f, repo.index[f]) BY <3>1, Landing
    <3>. QED BY <3>2 DEF KeepsText
  <2>. QED BY <2>1, <2>2, <2>3
<1>. QED BY <1>2, <1>3

\* Only an open merge is aborted.
LEMMA AbortText ==
  ASSUME ServerInv, AbortMerge \/ recoverRepoState
  PROVE  KeepsText
<1>1. repo \in Repos(Len(store)) BY TypeFacts DEF ServerInv, Shape, TypeOK
<1>2. SUFFICES ASSUME repo.merge = NoCommit PROVE KeepsText BY DEF KeepsText
<1>3. CASE AbortMerge
  <2>1. repo' = repo BY <1>2, <1>3 DEF AbortMerge, AbortRefused, NoEffect
  <2>. QED BY <2>1, SameTextKeeps DEF SameText
<1>4. CASE recoverRepoState
  <2>1. repo' = repo BY <1>2, <1>4 DEF recoverRepoState, NoEffect
  <2>. QED BY <2>1, SameTextKeeps DEF SameText
<1>. QED BY <1>3, <1>4

\* The reset of a rescue drops what a rescue branch of origin has, and the clean finds HEAD
\* in the index.
LEMMA ResetText ==
  ASSUME ServerInv, LifeInv, TransInv, [Next]_vars, ResetAfterRescue \/ CleanAfterRescue
  PROVE  KeepsText
<1>1. CASE ResetAfterRescue
  <2>1. job.rescue \in origin.rescue /\ store[job.rescue].tree = repo.work
    BY <1>1 DEF ResetAfterRescue, ServerInv, Core, RescueInv
  <2>2. \A f \in Path : Lands(f, repo.work[f]) BY <2>1, Landing
  <2>. QED BY <2>2 DEF KeepsText
<1>2. CASE CleanAfterRescue
  <2>1. repo.index = HeadTree(store, repo)
    BY <1>2 DEF CleanAfterRescue, ServerInv, Core, OnceInv
  <2>2. \A f \in Path : Lands(f, repo.index[f]) BY <2>1, Landing
  <2>. QED BY <2>2 DEF KeepsText
<1>. QED BY <1>1, <1>2

\* A fast-forward that git does not refuse writes no path with a staged change, unless
\* upstream has the same.
LEMMA ForwardText ==
  ASSUME ServerInv, LifeInv, TransInv, [Next]_vars, store' = store,
         repo' = FastForward(store, repo, repo.tracking),
         ~FastForwardRefused(store, repo, repo.tracking)
  PROVE  KeepsText
<1>. DEFINE u == repo.tracking
            moved == {p \in Path : HeadTree(store, repo)[p] # store[u].tree[p]}
            i == [p \in Path |-> IF p \in moved THEN store[u].tree[p] ELSE repo.index[p]]
            w == [p \in Path |-> IF p \in moved /\ repo.index[p] = repo.work[p]
                                 THEN store[u].tree[p] ELSE repo.work[p]]
<1>1. repo \in Repos(Len(store)) BY TypeFacts DEF ServerInv, Shape, TypeOK
<1>2. repo' = [repo EXCEPT !.head = u, !.index = i, !.work = w] BY DEF FastForward
<1>3. \A f \in Path \ moved : i[f] = repo.index[f] /\ w[f] = repo.work[f] OBVIOUS
<1>. HIDE DEF i, w
<1>4. repo'.head = u /\ repo'.index = i /\ repo'.work = w /\ repo'.merge = repo.merge
  BY <1>1, <1>2 DEF Repos
<1>5. HeadTree(store', repo') = store[u].tree BY <1>4 DEF HeadTree
<1>6. ASSUME NEW f \in Path, repo.merge = NoCommit PROVE StaysStaged(f) \/ Lands(f, repo.index[f])
  <2>1. CASE f \in moved
    <3>1. repo.index[f] = store[u].tree[f] \/ repo.index[f] = HeadTree(store, repo)[f]
      BY <2>1 DEF FastForwardRefused
    <3>. QED BY <1>5, <3>1, Landing
  <2>2. CASE f \notin moved BY <1>3, <1>4, <1>6, <2>2 DEF StaysStaged
  <2>. QED BY <2>1, <2>2
<1>. QED BY <1>6 DEF KeepsText

\* The fast-forward of a pull.
LEMMA PullForwardText ==
  ASSUME ServerInv, LifeInv, TransInv, [Next]_vars, fastForwardOrRescue
  PROVE  KeepsText
<1>1. repo \in Repos(Len(store)) BY TypeFacts DEF ServerInv, Shape, TypeOK
<1>2. \/ repo' \in {repo, Locked}
      \/ /\ store' = store /\ repo' = FastForward(store, repo, repo.tracking)
         /\ ~FastForwardRefused(store, repo, repo.tracking)
  BY DEF fastForwardOrRescue, RunOrCut, IoFault, NoEffect, Locked
<1>3. CASE repo' \in {repo, Locked}
  BY <1>1, <1>3, SameTextKeeps DEF Locked, Repos, SameText
<1>. QED BY <1>2, <1>3, ForwardText

\* git merge: a fast-forward, or a true merge, which refuses any staged change.
LEMMA MergeText ==
  ASSUME ServerInv, LifeInv, TransInv, [Next]_vars, mergeWithDirtyTreeRescue
  PROVE  KeepsText
<1>1. repo \in Repos(Len(store)) BY TypeFacts DEF ServerInv, Shape, TypeOK
<1>2. \/ repo' \in {repo, Locked}
      \/ /\ store' = store /\ repo' = FastForward(store, repo, repo.tracking)
         /\ ~FastForwardRefused(store, repo, repo.tracking)
      \/ StagedPaths(store, repo) = {}
  <2>1. CASE \/ MergeRefused(store, repo, repo.tracking) \/ repo.lock \/ ctxDone
             \/ IoFault /\ pc' = AfterFailedMerge
    BY <2>1 DEF mergeWithDirtyTreeRescue, IoFault, NoEffect
  <2>2. CASE ~(\/ MergeRefused(store, repo, repo.tracking) \/ repo.lock \/ ctxDone
               \/ IoFault /\ pc' = AfterFailedMerge)
    <3>1. PICK auto : MergeUpstream(auto) BY <2>2 DEF mergeWithDirtyTreeRescue
    <3>2. CASE IsAncestor(store, repo.tracking, repo.head)
      <4>1. RunOrCut(UNCHANGED <<repo, store>>, "push", "abort")
        BY <3>1, <3>2 DEF MergeUpstream
      <4>. QED BY <4>1 DEF RunOrCut, Locked, NoEffect
    <3>3. CASE /\ ~IsAncestor(store, repo.tracking, repo.head)
               /\ IsAncestor(store, repo.head, repo.tracking)
      <4>1. ~FastForwardRefused(store, repo, repo.tracking) BY <2>2, <3>3 DEF MergeRefused
      <4>2. RunOrCut(repo' = FastForward(store, repo, repo.tracking) /\ UNCHANGED store,
                     "push", "abort")
        BY <3>1, <3>3 DEF MergeUpstream
      <4>. QED BY <4>1, <4>2 DEF RunOrCut, Locked, NoEffect
    <3>4. CASE /\ ~IsAncestor(store, repo.tracking, repo.head)
               /\ ~IsAncestor(store, repo.head, repo.tracking)
      BY <2>2, <3>4 DEF MergeRefused, TrueMergeRefused
    <3>. QED BY <3>2, <3>3, <3>4
  <2>. QED BY <2>1, <2>2
<1>3. CASE repo' \in {repo, Locked}
  BY <1>1, <1>3, SameTextKeeps DEF Locked, Repos, SameText
<1>4. CASE StagedPaths(store, repo) = {}
  <2>1. \A f \in Path : repo.index[f] = HeadTree(store, repo)[f] BY <1>4 DEF StagedPaths
  <2>2. \A f \in Path : Lands(f, repo.index[f]) BY <2>1, Landing
  <2>. QED BY <2>2 DEF KeepsText
<1>. QED BY <1>2, <1>3, <1>4, ForwardText

\* An open merge is of no concern: what was promised is in a commit.
LEMMA LoopText ==
  ASSUME ServerInv, Looping
  PROVE  KeepsText
<1>1. pc \in Loop BY LoopSteps DEF ServerInv
<1>. QED BY <1>1 DEF ServerInv, Shape, StepInv, KeepsText

---------------------------------------------------------------------------
(* What a request does to promises *)

\* The disk works: the file is truncated, or has the body.
LEMMA DiskDur ==
  ASSUME ServerInv, LifeInv, Calm, Durable, [Next]_vars, TruncateFile \/ WriteContent
  PROVE  DurInv'
<1>1. repo \in Repos(Len(store)) /\ job.path \in Path /\ left["io"] = 0
  BY TypeFacts DEF ServerInv, Shape, TypeOK, Jobs, Calm, CalmInv
<1>2. /\ UNCHANGED <<promised, job>>
      /\ \E b : repo' = [repo EXCEPT !.work[job.path] = b]
      /\ TruncateFile => pc = "open" /\ pc' = "write"
      /\ WriteContent => pc = "write" /\ repo' = [repo EXCEPT !.work[job.path] = {job.ver}]
  BY <1>1 DEF TruncateFile, WriteContent, OnDisk, Spend
<1>3. /\ repo'.merge = repo.merge /\ repo'.index = repo.index
      /\ \A f \in Path \ {job.path} : repo'.work[f] = repo.work[f]
      /\ WriteContent => repo'.work[job.path] = {job.ver}
  BY <1>1, <1>2 DEF Repos, Trees
<1>. SUFFICES ASSUME NEW f \in Path, promised[f] # {}
              PROVE  (Held(f, promised[f]) \/ StagedSafe(f))'
  BY <1>2 DEF DurInv
<1>4. CASE Held(f, promised[f]) BY <1>2, <1>4, HeldKept DEF Durable, Held
<1>5. CASE StagedSafe(f)
  <2>1. CASE f # job.path BY <1>2, <1>3, <1>5, <2>1 DEF StagedSafe
  <2>2. CASE f = job.path /\ TruncateFile BY <1>2, <1>3, <1>5, <2>2 DEF StagedSafe
  <2>3. CASE f = job.path /\ WriteContent
    <3>1. job.ver \in promised[f]
      BY <1>2, <2>3 DEF Durable, RequestInv, AckInv
    <3>. QED BY <1>2, <1>3, <1>5, <2>3, <3>1 DEF StagedSafe
  <2>. QED BY <1>2, <2>1, <2>2, <2>3
<1>. QED BY <1>4, <1>5 DEF Durable, DurInv

\* A promise that is only widened, or is given up, is kept with what kept it.
LEMMA WiderDur ==
  ASSUME ServerInv, LifeInv, Durable, [Next]_vars, pc # "write",
         \A f \in Path : \/ promised'[f] = {}
                         \/ promised[f] # {} /\ promised[f] \subseteq promised'[f]
                         \/ (Held(f, promised[f]) \/ StagedSafe(f))',
         KeepsText
  PROVE  DurInv'
<1>. SUFFICES ASSUME NEW f \in Path, promised'[f] # {}
              PROVE  (Held(f, promised[f]) \/ StagedSafe(f))'
  BY DEF DurInv
<1>1. SUFFICES ASSUME promised[f] # {}, promised[f] \subseteq promised'[f]
               PROVE  (Held(f, promised[f]) \/ StagedSafe(f))'
  OBVIOUS
<1>2. CASE Held(f, promised[f])
  <2>. DEFINE V == promised[f]
  <2>1. \A W : W = V => (\E v \in W, c \in Reachable' : v \in store'[c].tree[f])
    BY <1>2, HeldKept DEF Durable, Held
  <2>. QED BY <1>1, <2>1 DEF Held
<1>3. CASE StagedSafe(f)
  <2>1. /\ repo.merge = NoCommit
        /\ promised[f] \cap repo.index[f] # {} /\ promised[f] \cap repo.work[f] # {}
    BY <1>3 DEF StagedSafe
  <2>2. CASE StaysStaged(f) BY <1>1, <2>1, <2>2 DEF StaysStaged, StagedSafe
  <2>3. CASE Lands(f, repo.index[f]) \/ Lands(f, repo.work[f])
    BY <1>1, <2>1, <2>3 DEF Lands, Held
  <2>. QED BY <2>1, <2>2, <2>3 DEF KeepsText
<1>. QED BY <1>1, <1>2, <1>3 DEF Durable, DurInv

\* No merge is open but in the loop, at an abort and in the repair of a pull.
LEMMA NoMergeAt ==
  ASSUME Calm, pc \in {"idle", "staged", "pushed", "stat"}
  PROVE  repo.merge = NoCommit
BY DEF Calm, OpenInv, Loop

\* The answers: a coalesced write is staged, one that committed for itself is held, and a
\* deleted file is promised no more.
LEMMA AnswerDur ==
  ASSUME ServerInv, LifeInv, Calm, Durable, [Next]_vars,
         enqueuePendingLocked \/ StatForDelete \/ Pushed
  PROVE  DurInv'
<1>1. KeepsText BY QuietText, SameTextKeeps
<1>2. job.path \in Path /\ promised \in [Path -> SUBSET Nat]
  BY TypeFacts DEF ServerInv, Shape, TypeOK, Jobs
<1>3. pc # "write" /\ UNCHANGED <<store, repo>>
  BY DEF enqueuePendingLocked, StatForDelete, Pushed
<1>4. CASE UNCHANGED promised BY <1>1, <1>3, <1>4, DurKept
<1>5. CASE promised' = [promised EXCEPT ![job.path] = {}]
  BY <1>1, <1>2, <1>3, <1>5, WiderDur
<1>6. CASE enqueuePendingLocked /\ promised' = [promised EXCEPT ![job.path] = {job.ver}]
  <2>1. pc = "staged" BY <1>6 DEF enqueuePendingLocked
  <2>2. job.ver \in repo.index[job.path] /\ repo.work[job.path] = {job.ver}
    BY <2>1 DEF Durable, RequestInv, AckInv
  <2>3. \A f \in Path : f = job.path => StagedSafe(f)'
    BY <1>2, <1>3, <1>6, <2>1, <2>2, NoMergeAt DEF StagedSafe
  <2>4. \A f \in Path \ {job.path} : promised'[f] = promised[f] BY <1>2, <1>6
  <2>5. \A f \in Path : \/ promised'[f] = {}
                        \/ promised[f] # {} /\ promised[f] \subseteq promised'[f]
                        \/ StagedSafe(f)'
    BY <2>3, <2>4
  <2>. QED BY <1>1, <1>3, <2>5, WiderDur
<1>7. CASE Pushed /\ job.kind = "write" /\ promised' = [promised EXCEPT ![job.path] = {job.ver}]
  <2>1. Held(job.path, {job.ver})
    BY <1>7 DEF Pushed, Durable, AckInv, Pushing
  <2>2. PICK v \in {job.ver}, c \in Reachable : v \in store[c].tree[job.path]
    BY <2>1 DEF Held
  <2>3. c \in Reachable' /\ store'[c] = store[c] BY ReachGrows DEF Durable
  <2>4. ASSUME NEW f \in Path, f = job.path PROVE Held(f, promised[f])'
    <3>1. promised'[f] = {v} BY <1>2, <1>7, <2>2, <2>4
    <3>. QED BY <2>2, <2>3, <2>4, <3>1 DEF Held
  <2>5. \A f \in Path \ {job.path} : promised'[f] = promised[f] BY <1>2, <1>7
  <2>6. \A f \in Path : \/ promised'[f] = {}
                        \/ promised[f] # {} /\ promised[f] \subseteq promised'[f]
                        \/ Held(f, promised[f])'
    BY <2>4, <2>5
  <2>. QED BY <1>1, <1>3, <2>6, WiderDur
<1>. QED BY <1>4, <1>5, <1>6, <1>7 DEF enqueuePendingLocked, Acknowledge, StatForDelete, Pushed

\* A request: an unchanged body is answered at once. The body is not new, and what is on
\* disk is settled: it is staged with coalescing, and promised already without.
LEMMA ClientDur ==
  ASSUME ~ResendFailed, ServerInv, LifeInv, Calm, Durable, [Next]_vars, NEW p \in Path,
         WriteFile(p) \/ WriteFileIfAbsent(p) \/ DeleteFile(p)
  PROVE  DurInv'
<1>1. UNCHANGED <<store, repo>> /\ pc = "idle" BY ClientText
<1>2. KeepsText BY <1>1, SameTextKeeps DEF SameText
<1>3. promised \in [Path -> SUBSET Nat] BY DEF ServerInv, Shape, TypeOK
<1>4. CASE DeleteFile(p)
  <2>1. UNCHANGED promised BY <1>4 DEF DeleteFile
  <2>. QED BY <1>1, <1>2, <2>1, DurKept
<1>5. ASSUME NEW v, writeFileLocked(p, v), repo.work[p] # {v} PROVE DurInv'
  <2>1. promised' = [promised EXCEPT ![p] = IF @ = {} THEN {} ELSE @ \cup {v}]
    BY <1>5 DEF writeFileLocked
  <2>2. \A f \in Path : \/ promised'[f] = {}
                        \/ promised[f] # {} /\ promised[f] \subseteq promised'[f]
    BY <1>3, <2>1
  <2>. QED BY <1>1, <1>2, <2>2, WiderDur
<1>6. ASSUME NEW v, writeFileLocked(p, v), repo.work[p] = {v}, Settled(p) PROVE DurInv'
  <2>1. promised' = [promised EXCEPT ![p] = {v}] BY <1>6 DEF writeFileLocked
  <2>2. CASE Coalesce
    <3>1. repo.index[p] = {v} BY <1>6, <2>2 DEF Settled
    <3>2. StagedSafe(p)' BY <1>1, <1>3, <1>6, <2>1, <3>1, NoMergeAt DEF StagedSafe
    <3>. QED BY <1>1, <1>2, <1>3, <2>1, <3>2, WiderDur
  <2>3. CASE ~Coalesce
    <3>1. promised[p] = {v} BY <1>6, <2>3 DEF Settled
    <3>. QED BY <1>1, <1>2, <1>3, <2>1, <3>1, WiderDur
  <2>. QED BY <2>2, <2>3
<1>7. repo.work[p] # {lastVer + 1}
  <2>1. lastVer \in Nat /\ repo.work[p] \subseteq 0..lastVer
    BY FreshFacts DEF ServerInv, Durable
  <2>. QED BY <2>1
<1>8. CASE writeFileLocked(p, lastVer + 1) BY <1>5, <1>7, <1>8
<1>9. CASE WriteFile(p) /\ ~writeFileLocked(p, lastVer + 1)
  <2>1. Settled(p) /\ \E v \in (repo.work[p] \cup HeadTree(store, repo)[p]) \ {Marker} :
                         writeFileLocked(p, v)
    BY <1>9 DEF WriteFile
  <2>. QED BY <1>5, <1>6, <2>1
<1>. QED BY <1>4, <1>8, <1>9 DEF WriteFileIfAbsent

---------------------------------------------------------------------------
(* What a step leaves of the write that is under way *)

\* The step is not one of a write, nor does it begin one.
NotAWrite ==
    /\ job'.kind # "write"
    /\ pc' \notin {"open", "write", "add", "staged"}
    /\ pc' \in {"stat", "rm"} => job'.kind = "delete"

\* The step is past the staging of a write, or of another job.
PastStaging ==
    /\ pc' \notin {"open", "write", "add", "staged", "commit", "stat", "rm"}
    /\ job'.kind = job.kind /\ job'.path = job.path /\ job'.ver = job.ver
    /\ job'.phase = job.phase
    /\ job.kind = "write" /\ pc' \in Pushing => Held(job.path, {job.ver})

\* The parts of the invariant about requests.
Request == AckInv /\ RequestInv

\* Such a step owes a request nothing.
LEMMA NotAWriteKeeps ==
  ASSUME NotAWrite
  PROVE  Request'
BY DEF NotAWrite, Request, AckInv, RequestInv

\* A held version stays held for the job that is told of it.
LEMMA HeldAt ==
  ASSUME ServerInv, LifeInv, TransInv, [Next]_vars, Held(job.path, {job.ver}),
         job'.path = job.path, job'.ver = job.ver
  PROVE  Held(job.path, {job.ver})'
<1>1. PICK c \in Reachable : job.ver \in store[c].tree[job.path] BY DEF Held
<1>2. c \in Reachable' /\ store'[c] = store[c] BY ReachGrows
<1>. QED BY <1>1, <1>2 DEF Held

\* Such a step keeps what a write has done so far.
LEMMA PastStagingKeeps ==
  ASSUME ServerInv, LifeInv, Durable, [Next]_vars, PastStaging
  PROVE  Request'
<1>1. RequestInv' BY DEF PastStaging, RequestInv
<1>2. SUFFICES ASSUME job'.kind = "write" PROVE AckInv'
  BY <1>1 DEF Request, AckInv
<1>3. job'.phase = "own" BY <1>2 DEF PastStaging, Durable, AckInv
<1>4. pc' \in Pushing => Held(job.path, {job.ver})'
  BY <1>2, HeldAt DEF PastStaging, Durable
<1>. QED BY <1>3, <1>4 DEF PastStaging, AckInv

\* A flush is not part of a write, and returns to a delete or ends its job.
LEMMA FlushNoWrite ==
  ASSUME ServerInv, Durable,
         \/ flushPendingLocked
         \/ job.phase = "flush" /\ \E ok : FlushReturns(ok)
  PROVE  NotAWrite
<1>1. job \in Jobs(Len(store)) BY DEF ServerInv, Shape, TypeOK
<1>2. job.phase = "flush"
  BY DEF flushPendingLocked, ServerInv, Core, KindInv
<1>3. job.kind # "write" BY <1>2 DEF Durable, AckInv
<1>4. ASSUME NEW ok, FlushReturns(ok)
      PROVE  /\ job'.kind = job.kind /\ pc' \in {"locks", "done", "stat", "failed"}
             /\ pc' = "stat" => job.kind = "delete"
  BY <1>1, <1>4 DEF FlushReturns, Jobs
<1>5. \/ pc' = "commit" /\ job' = job
      \/ /\ job'.kind = job.kind /\ pc' \in {"locks", "done", "stat", "failed"}
         /\ pc' = "stat" => job.kind = "delete"
  BY <1>4 DEF flushPendingLocked
<1>. QED BY <1>3, <1>5 DEF NotAWrite

\* The ends of a commit and of a push.
LEMMA EndAck ==
  ASSUME ServerInv, LifeInv, Durable, [Next]_vars,
         CommitFailed \/ Pushed \/ retainCommitAfterFailedPushLocked \/ flushPendingLocked
  PROVE  Request'
<1>1. CASE flushPendingLocked \/ job.phase = "flush"
  <2>1. flushPendingLocked \/ \E ok : FlushReturns(ok)
    BY <1>1 DEF CommitFailed, Pushed, retainCommitAfterFailedPushLocked
  <2>. QED BY <1>1, <2>1, FlushNoWrite, NotAWriteKeeps
<1>2. CASE ~flushPendingLocked /\ job.phase # "flush"
  <2>1. job' = job /\ pc' \in {"done", "failed"}
    BY <1>2 DEF CommitFailed, Pushed, retainCommitAfterFailedPushLocked
  <2>. QED BY <2>1, PastStagingKeeps DEF PastStaging, Pushing
<1>. QED BY <1>1, <1>2

\* The start and the end of a job.
LEMMA StartAck ==
  ASSUME ServerInv, LifeInv,
         FlushPendingIfDue \/ StartPull \/ Return \/ \E p \in Path : DeleteFile(p)
  PROVE  Request'
<1>1. NoJob \in Jobs(0) /\ NoJob.kind = "none" BY NoJobType DEF NoJob
<1>2. ASSUME NEW k \in {"tick", "pull", "delete"}, NEW p, Start(k, p)
      PROVE  job'.kind = k /\ pc' = "flush"
  BY <1>1, <1>2 DEF Start, Jobs
<1>3. CASE Return
  <2>1. job' = NoJob /\ pc' = "idle" BY <1>3 DEF Return, Finish, LifeInv
  <2>. QED BY <1>1, <2>1, NotAWriteKeeps DEF NotAWrite
<1>4. CASE ~Return
  <2>1. \E k \in {"tick", "pull", "delete"} : \E p : Start(k, p)
    BY <1>4 DEF FlushPendingIfDue, StartPull, DeleteFile
  <2>. QED BY <1>2, <2>1, NotAWriteKeeps DEF NotAWrite
<1>. QED BY <1>3, <1>4

\* A request of a write: its version is one of the newest of its file.
LEMMA ClientAck ==
  ASSUME ServerInv, LifeInv, Durable, [Next]_vars, NEW p \in Path, NEW v \in Nat,
         writeFileLocked(p, v), pc = "idle"
  PROVE  Request'
<1>1. CASE repo.work[p] = {v}
  <2>1. UNCHANGED <<pc, job>> BY <1>1 DEF writeFileLocked
  <2>. QED BY <2>1, PastStagingKeeps DEF PastStaging, Pushing
<1>2. CASE repo.work[p] # {v}
  <2>1. promised \in [Path -> SUBSET Nat] BY DEF ServerInv, Shape, TypeOK
  <2>2. /\ pc' = "open" /\ job' = [NoJob EXCEPT !.kind = "write", !.path = p, !.ver = v]
        /\ promised' = [promised EXCEPT ![p] = IF @ = {} THEN {} ELSE @ \cup {v}]
    BY <1>2 DEF writeFileLocked
  <2>3. NoJob \in Jobs(0) /\ NoJob.phase = "own" BY NoJobType DEF NoJob
  <2>4. job'.kind = "write" /\ job'.path = p /\ job'.ver = v /\ job'.phase = "own"
    BY <2>2, <2>3 DEF Jobs
  <2>5. promised'[p] = {} \/ v \in promised'[p] BY <2>1, <2>2
  <2>. QED BY <2>2, <2>4, <2>5 DEF Request, AckInv, RequestInv, Pushing
<1>. QED BY <1>1, <1>2

\* The steps of WriteFile and DeleteFile.
LEMMA StageAck ==
  ASSUME ServerInv, LifeInv, Calm, Durable, [Next]_vars,
         \/ TruncateFile \/ WriteContent \/ StageWrite \/ enqueuePendingLocked
         \/ StatForDelete \/ RemoveForDelete
  PROVE  Request'
<1>1. /\ repo \in Repos(Len(store)) /\ job.path \in Path /\ left["io"] = 0
      /\ NoJob.kind = "none"
  BY TypeFacts DEF ServerInv, Shape, TypeOK, Jobs, Calm, CalmInv, NoJob
<1>2. CASE TruncateFile
  <2>1. pc = "open" /\ pc' = "write" /\ UNCHANGED <<job, promised>>
    BY <1>1, <1>2 DEF TruncateFile, OnDisk, Spend
  <2>. QED BY <2>1 DEF Durable, Request, AckInv, RequestInv, Pushing
<1>3. CASE WriteContent
  <2>1. /\ pc = "write" /\ pc' = "add" /\ UNCHANGED <<job, promised>>
        /\ repo' = [repo EXCEPT !.work[job.path] = {job.ver}]
    BY <1>1, <1>3 DEF WriteContent, OnDisk, Spend
  <2>2. repo'.work[job.path] = {job.ver} BY <1>1, <2>1 DEF Repos, Trees
  <2>. QED BY <2>1, <2>2 DEF Durable, Request, AckInv, RequestInv, Pushing
<1>4. CASE StageWrite
  <2>1. pc = "add" /\ UNCHANGED <<job, promised>> BY <1>4 DEF StageWrite
  <2>2. \/ pc' = "failed"
        \/ pc' = "staged" /\ repo' = Add(repo, job.path)
    BY <1>4 DEF StageWrite, Command, RunOrCut, IoFault
  <2>3. CASE pc' = "failed" BY <2>1, <2>3, PastStagingKeeps DEF PastStaging, Pushing
  <2>4. CASE pc' = "staged" /\ repo' = Add(repo, job.path)
    <3>1. job.kind = "write" /\ repo.work[job.path] = {job.ver}
      BY <2>1 DEF Durable, RequestInv, AckInv
    <3>2. /\ repo'.work = repo.work
          /\ repo'.index = [repo.index EXCEPT ![job.path] = repo.work[job.path]]
      BY <1>1, <2>4 DEF Add, Repos
    <3>3. repo'.index[job.path] = {job.ver} BY <1>1, <3>1, <3>2 DEF Repos, Trees
    <3>. QED BY <2>1, <2>4, <3>1, <3>2, <3>3 DEF Durable, Request, AckInv, RequestInv, Pushing
  <2>. QED BY <2>2, <2>3, <2>4
<1>5. CASE enqueuePendingLocked
  <2>1. pc = "staged" /\ UNCHANGED repo BY <1>5 DEF enqueuePendingLocked
  <2>2. CASE Coalesce
    <3>1. job' = NoJob /\ pc' = "idle" BY <1>5, <2>2 DEF enqueuePendingLocked, Finish
    <3>. QED BY <1>1, <3>1, NotAWriteKeeps DEF NotAWrite
  <2>3. CASE ~Coalesce
    <3>1. pc' = "commit" /\ UNCHANGED job BY <1>5, <2>3 DEF enqueuePendingLocked
    <3>. QED BY <2>1, <3>1 DEF Durable, Request, AckInv, RequestInv, Pushing
  <2>. QED BY <2>2, <2>3
<1>6. CASE StatForDelete
  <2>1. job.kind = "delete" BY <1>6 DEF StatForDelete, Durable, RequestInv
  <2>2. (job' = NoJob /\ pc' = "idle") \/ (job' = job /\ pc' = "rm")
    BY <1>6 DEF StatForDelete, Finish
  <2>. QED BY <1>1, <2>1, <2>2, NotAWriteKeeps DEF NotAWrite
<1>7. CASE RemoveForDelete
  <2>1. job.kind = "delete" /\ job' = job BY <1>7 DEF RemoveForDelete, Durable, RequestInv
  <2>2. pc' \in {"commit", "failed"} BY <1>7 DEF RemoveForDelete, Command, RunOrCut, IoFault
  <2>. QED BY <2>1, <2>2, NotAWriteKeeps DEF NotAWrite
<1>. QED BY <1>2, <1>3, <1>4, <1>5, <1>6, <1>7

\* The commit of a write has its version, or HEAD had it already.
LEMMA CommitAck ==
  ASSUME ServerInv, LifeInv, Calm, Durable, [Next]_vars, CommitStaged
  PROVE  Request'
<1>1. pc = "commit" /\ UNCHANGED <<job, promised>> BY DEF CommitStaged
<1>2. repo \in Repos(Len(store)) /\ store \in Seq(CommitRecords) /\ Len(store) \in Nat
      /\ job.path \in Path
  BY TypeFacts DEF ServerInv, Shape, TypeOK, Jobs
<1>3. \/ pc' = "commitFailed"
      \/ CommitHead /\ pc' \in {"push", "pushed"}
      \/ /\ NothingToCommit(store, repo) /\ UNCHANGED <<store, repo>>
         /\ pc' \in {"push", "pushed", "commitFailed"}
  BY DEF CommitStaged, Command, RunOrCut, IoFault, NoEffect, AfterCommit, AfterNothing
<1>4. CASE job.kind # "write" BY <1>1, <1>3, <1>4, NotAWriteKeeps DEF NotAWrite
<1>5. CASE job.kind = "write"
  <2>1. job.ver \in repo.index[job.path] BY <1>1, <1>5 DEF Durable, AckInv
  <2>2. job.phase = "own" BY <1>5 DEF Durable, AckInv
  <2>3. CASE pc' = "commitFailed" BY <1>1, <2>3, PastStagingKeeps DEF PastStaging, Pushing
  <2>4. CASE \/ CommitHead /\ pc' \in {"push", "pushed"}
             \/ /\ NothingToCommit(store, repo) /\ UNCHANGED <<store, repo>>
                /\ pc' \in {"push", "pushed"}
    <3>1. HeadTree(store', repo') = repo.index
      <4>1. CASE CommitHead
        <5>1. repo'.head = Len(store) + 1 BY <1>2, <4>1 DEF CommitHead, AtNewCommit, Repos
        <5>2. store' = Append(store, [tree |-> repo.index, anc |-> History(store, Parents(repo))
                                                                   \cup {Len(store) + 1}])
          BY <4>1 DEF CommitHead, WithCommit
        <5>. QED BY <1>2, <5>1, <5>2 DEF HeadTree
      <4>2. CASE NothingToCommit(store, repo) /\ UNCHANGED <<store, repo>>
        <5>1. StagedPaths(store, repo) = {} BY <4>2 DEF NothingToCommit, Dirty
        <5>2. HeadTree(store, repo) = repo.index
          <6>1. \A f \in Path : repo.index[f] = HeadTree(store, repo)[f] BY <5>1 DEF StagedPaths
          <6>2. repo.index \in Trees /\ HeadTree(store, repo) \in Trees
            BY <1>2, TreeOf DEF HeadTree, Repos
          <6>. QED BY <6>1, <6>2 DEF Trees
        <5>. QED BY <4>2, <5>2
      <4>. QED BY <2>4, <4>1, <4>2
    <3>2. Held(job.path, {job.ver})'
      <4>1. PICK c \in Reachable' : repo.index[job.path] \subseteq store'[c].tree[job.path]
        BY <3>1, Landing DEF Lands, Durable
      <4>. QED BY <1>1, <2>1, <4>1 DEF Held
    <3>. QED BY <1>1, <1>5, <2>2, <2>4, <3>2 DEF Request, AckInv, RequestInv
  <2>. QED BY <1>3, <2>3, <2>4
<1>. QED BY <1>4, <1>5

\* The push of a write, its merges and the rescue of a dirty tree: what its own commit made
\* reachable.
LEMMA PushAck ==
  ASSUME ServerInv, LifeInv, Durable, [Next]_vars,
         \/ pushWithRetry \/ RetryFetch \/ mergeWithDirtyTreeRescue \/ AbortMerge
         \/ createRescueCommit \/ PushRescue \/ ResetAfterRescue \/ CleanAfterRescue
  PROVE  Request'
<1>1. job \in Jobs(Len(store)) BY DEF ServerInv, Shape, TypeOK
<1>2. CASE pushWithRetry
  <2>1. pc = "push" /\ job' = job /\ pc' \in {"pushed", "pushFailed", "retryFetch"}
    BY <1>2 DEF pushWithRetry, RemoteCommand, AfterRejection
  <2>. QED BY <2>1, PastStagingKeeps DEF PastStaging, Pushing, Durable, AckInv
<1>3. CASE RetryFetch
  <2>1. pc = "retryFetch" /\ pc' \in {"merge", "pushFailed"}
    BY <1>3 DEF RetryFetch, RemoteCommand
  <2>2. job' = [job EXCEPT !.caller = "retry", !.rescued = FALSE, !.attempt = @ + 1]
    BY <1>3 DEF RetryFetch
  <2>3. /\ job'.kind = job.kind /\ job'.path = job.path /\ job'.ver = job.ver
        /\ job'.phase = job.phase
    BY <1>1, <2>2 DEF Jobs
  <2>. QED BY <2>1, <2>3, PastStagingKeeps DEF PastStaging, Pushing, Durable, AckInv
<1>4. CASE mergeWithDirtyTreeRescue
  <2>1. pc = "merge" /\ pc' \in {"abort", "push", "rescueCommit", "preflight"}
    BY <1>4, MergeOutcomes DEF mergeWithDirtyTreeRescue, MergeOutcome
  <2>2. job' = job \/ \E T : job' = [job EXCEPT !.todo = T]
    BY <1>4 DEF mergeWithDirtyTreeRescue
  <2>3. /\ job'.kind = job.kind /\ job'.path = job.path /\ job'.ver = job.ver
        /\ job'.phase = job.phase
    BY <1>1, <2>2 DEF Jobs
  <2>. QED BY <2>1, <2>3, PastStagingKeeps DEF PastStaging, Pushing, Durable, AckInv
<1>5. CASE AbortMerge
  <2>1. job' = job /\ pc' \in {"pushFailed", "failed"}
    BY <1>5 DEF AbortMerge, Command, RunOrCut, IoFault
  <2>. QED BY <2>1, PastStagingKeeps DEF PastStaging, Pushing
<1>6. CASE createRescueCommit \/ PushRescue \/ ResetAfterRescue \/ CleanAfterRescue
  <2>1. /\ pc \in {"rescueCommit", "rescuePush", "rescueReset", "rescueClean"}
        /\ pc' \in {"rescuePush", "rescueReset", "rescueClean", "fetch", "merge",
                    "failed", "abort"}
    BY <1>6 DEF createRescueCommit, PushRescue, ResetAfterRescue, CleanAfterRescue, RescueFailed,
         RemoteCommand, Command, RunOrCut, IoFault
  <2>2. \/ job' = job \/ job' = [job EXCEPT !.rescue = Len(store) + 1]
        \/ job' = [job EXCEPT !.rescued = TRUE]
    BY <1>6 DEF createRescueCommit, PushRescue, ResetAfterRescue, CleanAfterRescue
  <2>3. /\ job'.kind = job.kind /\ job'.path = job.path /\ job'.ver = job.ver
        /\ job'.phase = job.phase
    BY <1>1, <2>2 DEF Jobs
  <2>. QED BY <2>1, <2>3, PastStagingKeeps DEF PastStaging, Pushing, Durable, AckInv
<1>. QED BY <1>2, <1>3, <1>4, <1>5, <1>6

\* The conflict loop is the pull's.
LEMMA LoopKind ==
  ASSUME Shape, Looping
  PROVE  job'.kind = job.kind
<1>1. job \in Jobs(Len(store)) BY DEF Shape, TypeOK
<1>2. /\ \A p, r : Handled(p, r) => job'.kind = job.kind
      /\ \A p : StartQuarantine(p) => job'.kind = job.kind
      /\ \A p, step : StartResolver(p, step) => job'.kind = job.kind
  <2>1. ASSUME NEW p, NEW r, Handled(p, r) PROVE job'.kind = job.kind BY <2>1, HandledJob
  <2>2. ASSUME NEW p, StartQuarantine(p) PROVE job'.kind = job.kind
    BY <1>1, <2>2 DEF StartQuarantine, Jobs
  <2>3. ASSUME NEW p, NEW step, StartResolver(p, step) PROVE job'.kind = job.kind
    BY <1>1, <2>3 DEF StartResolver, Jobs
  <2>. QED BY <2>1, <2>2, <2>3
<1>3. CASE resolveEachPath
  <2>1. PICK p : \/ resolveModifyDelete(p) \/ StartResolver(p, "skip") \/ Resolve(p)
    BY <1>3 DEF resolveEachPath
  <2>2. resolveModifyDelete(p) => job'.kind = job.kind
    <3>1. ResolveAfterAll(p) => job'.kind = job.kind BY <1>2 DEF ResolveAfterAll
    <3>2. \A T : job' = [job EXCEPT !.todo = T, !.path = p] => job'.kind = job.kind
      BY <1>1 DEF Jobs
    <3>. QED BY <1>2, <3>1, <3>2
         DEF resolveModifyDelete, stageUpstreamVersion, acceptUpstreamDeletion
  <2>3. ResolveYaml(p) => job'.kind = job.kind BY <1>2 DEF ResolveYaml
  <2>4. ResolveVault(p) => job'.kind = job.kind
    <3>1. \A T : job' = [job EXCEPT !.todo = T] => job'.kind = job.kind BY <1>1 DEF Jobs
    <3>. QED BY <1>2, <2>3, <3>1 DEF ResolveVault
  <2>5. Resolve(p) => job'.kind = job.kind
    BY <1>2, <2>3, <2>4, ResolverConfig DEF ResolverConfig, Resolve
  <2>. QED BY <1>2, <2>1, <2>2, <2>5
<1>4. CASE ~resolveEachPath
  <2>1. \/ job' = job
        \/ \E b : job' = [job EXCEPT !.handled = b]
        \/ \E b, c : job' = [job EXCEPT !.handled = b, !.classified = c]
        \/ \E p, r : Handled(p, r)
        \/ \E p : StartQuarantine(p)
        \/ \E p, step : StartResolver(p, step)
    BY <1>4 DEF Looping, ensureConflictsDir, classifyConflicts, skipQuarantinedPath, StageSide,
         ResolveAfterAll, ResolverOpen, ResolverWrite, ResolverAdd, QuarantineRm,
         QuarantineWrite, QuarantineAdd, QuarantineRestore, QuarantineDone
  <2>2. /\ \A b : job' = [job EXCEPT !.handled = b] => job'.kind = job.kind
        /\ \A b, c : job' = [job EXCEPT !.handled = b, !.classified = c] => job'.kind = job.kind
    BY <1>1 DEF Jobs
  <2>. QED BY <1>2, <2>1, <2>2
<1>. QED BY <1>3, <1>4

\* A pull is no write, and its loop stays in the pull.
LEMMA PullAck ==
  ASSUME Undisturbed, ServerInv, LifeInv, Calm, [Next]_vars,
         \/ cleanupStaleLocksForCycle \/ recoverRepoState \/ syncWithUpstream
         \/ fastForwardOrRescue \/ Looping \/ commitAndPushMerge
  PROVE  Request'
<1>1. job \in Jobs(Len(store)) /\ Shape BY DEF ServerInv, Shape, TypeOK
<1>3. CASE cleanupStaleLocksForCycle \/ recoverRepoState
  <2>1. pc \in {"locks", "recover"} /\ job' = job /\ pc' \in {"recover", "fetch", "failed"}
    BY <1>3 DEF cleanupStaleLocksForCycle, recoverRepoState, Command, RunOrCut, IoFault
  <2>. QED BY <2>1, NotAWriteKeeps DEF NotAWrite, Calm, PullInv, PullOwn
<1>4. CASE syncWithUpstream
  <2>1. pc = "fetch" /\ pc' \in {"failed", "done", "ff", "push", "merge"}
    BY <1>4 DEF syncWithUpstream, RemoteCommand, SyncCase
  <2>2. job'.kind = job.kind BY <1>1, <1>4 DEF syncWithUpstream, Jobs
  <2>. QED BY <2>1, <2>2, NotAWriteKeeps DEF NotAWrite, Calm, PullInv, PullOwn
<1>5. CASE fastForwardOrRescue
  <2>1. pc = "ff" /\ job' = job /\ pc' \in {"done", "failed", "rescueCommit"}
    BY <1>5 DEF fastForwardOrRescue, RunOrCut, IoFault
  <2>. QED BY <2>1, NotAWriteKeeps DEF NotAWrite, Calm, PullInv, PullOwn
<1>6. CASE commitAndPushMerge
  <2>1. pc = "resolve" /\ job' = job /\ pc' \in {"push", "abort"}
    BY <1>6 DEF commitAndPushMerge, Command, RunOrCut, IoFault
  <2>. QED BY <2>1, NotAWriteKeeps DEF NotAWrite, Calm, PullInv, PullOwn, Loop
<1>7. CASE Looping
  <2>1. pc \in Loop /\ pc' \in Loop \cup {"abort"} BY <1>1, <1>7, LoopSteps DEF LoopStep
  <2>2. job'.kind = job.kind BY <1>1, <1>7, LoopKind
  <2>. QED BY <2>1, <2>2, NotAWriteKeeps DEF NotAWrite, Calm, PullInv, PullOwn, Loop
<1>. QED BY <1>3, <1>4, <1>5, <1>6, <1>7

---------------------------------------------------------------------------
(* The invariant is kept *)

\* Other clones, and steps of nobody.
LEMMA ElsewhereAck ==
  ASSUME ServerInv, LifeInv, Durable, [Next]_vars,
         UNCHANGED vars \/ \E p \in Path : UpstreamCommit(p)
  PROVE  Request'
<1>1. UNCHANGED <<repo, pc, job, promised>> BY DEF vars, UpstreamCommit
<1>2. RequestInv' BY <1>1 DEF Durable, RequestInv
<1>3. CASE pc \in Pushing /\ job.kind = "write"
  <2>1. Held(job.path, {job.ver})' BY <1>1, <1>3, HeldAt DEF Durable, AckInv
  <2>. QED BY <1>1, <1>2, <1>3, <2>1 DEF Request, Durable, AckInv
<1>4. CASE ~(pc \in Pushing /\ job.kind = "write")
  BY <1>1, <1>2, <1>4 DEF Request, Durable, AckInv
<1>. QED BY <1>3, <1>4

\* Every step keeps the promises, and what a write relies on until it is answered.
LEMMA PromiseStep ==
  ASSUME Undisturbed, ~ResendFailed, ServerInv, LifeInv, Calm, Durable, [Next]_vars
  PROVE  DurInv' /\ Request'
<1>1. TransInv BY DEF Durable
<1>2. CASE TruncateFile \/ WriteContent BY <1>2, DiskDur, StageAck
<1>3. CASE StageWrite \/ RemoveForDelete
  <2>1. KeepsText BY <1>1, <1>3, StageText, RemoveText
  <2>2. pc # "write" /\ UNCHANGED promised BY <1>3 DEF StageWrite, RemoveForDelete
  <2>. QED BY <1>3, <2>1, <2>2, DurKept, StageAck
<1>4. CASE enqueuePendingLocked \/ StatForDelete BY <1>4, AnswerDur, StageAck
<1>5. CASE Pushed BY <1>5, AnswerDur, EndAck
<1>6. CASE CommitFailed \/ retainCommitAfterFailedPushLocked \/ flushPendingLocked
  <2>1. KeepsText BY <1>6, QuietText, SameTextKeeps
  <2>2. pc # "write" /\ UNCHANGED promised
    BY <1>6 DEF CommitFailed, retainCommitAfterFailedPushLocked, flushPendingLocked
  <2>. QED BY <1>6, <2>1, <2>2, DurKept, EndAck
<1>7. CASE FlushPendingIfDue \/ StartPull \/ Return
  <2>1. KeepsText BY <1>7, QuietText, SameTextKeeps
  <2>2. pc # "write" /\ UNCHANGED promised BY <1>7 DEF FlushPendingIfDue, StartPull, Return, Start
  <2>. QED BY <1>7, <2>1, <2>2, DurKept, StartAck
<1>8. CASE CommitStaged
  <2>1. KeepsText BY <1>1, <1>8, CommitText
  <2>2. pc # "write" /\ UNCHANGED promised BY <1>8 DEF CommitStaged
  <2>. QED BY <1>8, <2>1, <2>2, DurKept, CommitAck
<1>9. CASE \/ pushWithRetry \/ RetryFetch \/ mergeWithDirtyTreeRescue \/ AbortMerge
           \/ createRescueCommit \/ PushRescue \/ ResetAfterRescue \/ CleanAfterRescue
  <2>1. KeepsText
    BY <1>1, <1>9, RemoteText, MergeText, AbortText, QuietText, ResetText, SameTextKeeps
  <2>2. pc # "write" /\ UNCHANGED promised
    BY <1>9 DEF pushWithRetry, RetryFetch, mergeWithDirtyTreeRescue, AbortMerge,
         createRescueCommit, PushRescue, ResetAfterRescue, CleanAfterRescue
  <2>. QED BY <1>9, <2>1, <2>2, DurKept, PushAck
<1>10. CASE \/ cleanupStaleLocksForCycle \/ recoverRepoState \/ syncWithUpstream
            \/ fastForwardOrRescue \/ Looping \/ commitAndPushMerge
  <2>1. KeepsText
    BY <1>1, <1>10, QuietText, AbortText, RemoteText, PullForwardText, LoopText, CommitText,
       SameTextKeeps
  <2>2. pc # "write" /\ UNCHANGED promised
    <3>1. CASE Looping BY <3>1, LoopSteps DEF ServerInv, LoopStep, Loop
    <3>2. CASE ~Looping
      BY <1>10, <3>2 DEF cleanupStaleLocksForCycle, recoverRepoState, syncWithUpstream,
           fastForwardOrRescue, commitAndPushMerge
    <3>. QED BY <3>1, <3>2
  <2>. QED BY <1>10, <2>1, <2>2, DurKept, PullAck
<1>11. ASSUME NEW p \in Path, WriteFile(p) \/ WriteFileIfAbsent(p) \/ DeleteFile(p)
       PROVE  DurInv' /\ Request'
  <2>1. DurInv' BY <1>11, ClientDur
  <2>2. CASE DeleteFile(p) BY <2>1, <2>2, StartAck
  <2>3. CASE ~DeleteFile(p)
    <3>1. lastVer \in Nat /\ repo.work[p] \subseteq 0..lastVer
          /\ HeadTree(store, repo)[p] \subseteq 0..lastVer
      BY FreshFacts DEF ServerInv, Durable
    <3>2. PICK v \in Nat : writeFileLocked(p, v)
      BY <1>11, <2>3, <3>1 DEF WriteFile, WriteFileIfAbsent
    <3>3. pc = "idle" BY <1>11, <2>3, ClientText
    <3>. QED BY <2>1, <3>2, <3>3, ClientAck
  <2>. QED BY <2>1, <2>2, <2>3
<1>12. CASE UNCHANGED vars \/ \E p \in Path : UpstreamCommit(p)
  <2>1. Request' BY <1>12, ElsewhereAck
  <2>2. CASE pc # "write"
    <3>1. KeepsText BY <1>12, QuietText, SameTextKeeps
    <3>2. UNCHANGED promised BY <1>12 DEF vars, UpstreamCommit
    <3>. QED BY <2>1, <2>2, <3>1, <3>2, DurKept
  <2>3. CASE pc = "write"
    <3>1. UNCHANGED <<repo, pc, job, promised>> BY <1>12 DEF vars, UpstreamCommit
    <3>2. ASSUME NEW f \in Path, promised[f] # {} PROVE (Held(f, promised[f]) \/ StagedSafe(f))'
      <4>1. CASE Held(f, promised[f]) BY <1>1, <3>1, <4>1, HeldKept DEF Held
      <4>2. CASE StagedSafe(f) BY <3>1, <4>2 DEF StagedSafe
      <4>. QED BY <3>2, <4>1, <4>2 DEF Durable, DurInv
    <3>. QED BY <2>1, <3>1, <3>2 DEF DurInv
  <2>. QED BY <2>2, <2>3
<1>13. ClientPaths \subseteq Path BY DEF ClientPaths, Path
<1>14. CASE WriteNext
  BY <1>2, <1>3, <1>4, <1>5, <1>6, <1>7, <1>8, <1>9, <1>11, <1>13, <1>14 DEF WriteNext
<1>15. CASE PullNext BY <1>7, <1>10, <1>15 DEF PullNext, Looping
<1>. QED BY <1>7, <1>12, <1>14, <1>15, LifeStep

\* Every step keeps the invariant.
LEMMA DurableStep ==
  ASSUME Undisturbed, ~ResendFailed, ServerInv, LifeInv, Calm, Durable, [Next]_vars
  PROVE  Durable'
<1>1. TransInv' BY StepKept, TransStep DEF Kept, Durable, ServerInv, Shape
<1>2. FreshInv' BY VersionStep DEF Durable
<1>3. DurInv' /\ Request' BY PromiseStep
<1>. QED BY <1>1, <1>2, <1>3 DEF Durable, Request

\* A server starts with no promise, and with the text of its first commit.
LEMMA InitDurable ==
  ASSUME Init
  PROVE  Durable
<1>1. NoJob.kind = "none" /\ NoJob.blob = {} /\ NoJob.ver = 0 BY DEF NoJob, Absent
<1>2. InitTree \in TreesTo(2) BY DEF InitTree, TreesTo, Absent
<1>3. TransInv BY DEF Init, TransInv, Commits
<1>4. FreshInv
  <2>1. lastVer = 2 /\ repo.index = InitTree /\ repo.work = InitTree /\ job = NoJob
        /\ Len(store) = 1 /\ store[1].tree = InitTree
    BY DEF Init
  <2>. QED BY <1>1, <1>2, <2>1 DEF FreshInv, StoreTo, RepoTo, JobTo
<1>5. DurInv BY DEF Init, DurInv
<1>6. AckInv /\ RequestInv BY <1>1 DEF Init, AckInv, RequestInv
<1>. QED BY <1>3, <1>4, <1>5, <1>6 DEF Durable

\* WriteFile, flushPendingLocked, pushWithRetry, Pull: a write that was answered with 200 is
\* staged or in a commit that can be reached ever after, or a later body of its file is. No
\* flush, push retry, conflict, resolver, merge --abort, reset or clean drops it, with and
\* without coalescing, when pushes fail and coalesced writes and the flushes of pulls are cut
\* anywhere. Clients do not repeat a body that failed, and no process dies.
THEOREM AckedWritesDurable ==
  ASSUME Undisturbed, ~ResendFailed
  PROVE  Spec => []AckedDurable
<1>1. Init => Durable BY InitDurable
<1>2. Durable /\ (ServerInv /\ LifeInv /\ Calm) /\ [Next]_vars => Durable' BY DurableStep
<1>3. Durable => AckedDurable
  BY DEF Durable, DurInv, Held, StagedSafe, AckedDurable
<1>. QED BY <1>1, <1>2, <1>3, CalmInvariant, PTL DEF Spec
=============================================================================
