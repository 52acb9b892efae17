-------------------------- MODULE QuarantineProofs --------------------------
(***************************************************************************)
(* Proof that conflict text stays in quarantine: as long as the process    *)
(* that opened a merge is not restarted in it, no commit that this server  *)
(* or its rescue makes has conflict markers in a file outside _conflicts/. *)
(* Any command may fail, be cut or be refused by a lock, and any number of *)
(* merges may be left open.                                                *)
(***************************************************************************)
EXTENDS GitRestProofs

---------------------------------------------------------------------------
(* The invariant *)

\* The process is not killed and not told to stop.
OneLife == Budget["crash"] = 0 /\ Budget["term"] = 0

LifeInv ==
    /\ left["crash"] = 0 /\ left["term"] = 0
    /\ mode = "serving" /\ job.kind \notin {"recover", "shutdown"}

\* No file outside _conflicts/ has markers in t.
Clean(t) == \A f \in Files : Marker \notin t[f]

\* Markers are in no commit of s, a rescue's included.
CleanStore(s) == \A c \in 1..Len(s) : Clean(s[c].tree)

\* Markers are not in the index; on disk they are in unmerged files only.
CleanRepo(r) ==
    /\ Clean(r.index)
    /\ \A f \in Files : Marker \in r.work[f] => f \in r.unmerged

\* What a git add is about to stage: the body of a client, the text of a resolver, one side
\* of a conflict, or a copy under _conflicts/.
StagingInv ==
    /\ pc \in {"open", "write", "add"} => job.ver # Marker
    /\ pc = "add" => repo.work[job.path] = {job.ver}
    /\ pc \in {"vaultOpen", "yamlOpen", "resolverWrite"} => Marker \notin job.blob
    /\ pc = "resolverAdd" => Marker \notin repo.work[job.path]
    /\ pc \in {"stageTheirs", "stageOurs"} /\ job.path \in Files => Marker \notin repo.work[job.path]
    /\ pc \in {"qRm", "qWrite", "qAdd"} => job.dest \in Dests

\* Nothing is unmerged when the rescue commits the working tree.
RescueTreeInv == pc = "rescueCommit" => repo.unmerged = {}

TextInv == CleanStore(store) /\ CleanRepo(repo) /\ StagingInv /\ RescueTreeInv

MarkInv == LifeInv /\ TextInv

---------------------------------------------------------------------------
(* What the git operators do with markers *)

\* Commands on one path: what they stage has no markers, or is no file of Clean.
LEMMA CleanPath ==
  ASSUME NEW n \in Nat, NEW r \in Repos(n), CleanRepo(r), NEW p \in Path
  PROVE  /\ CleanRepo(Rm(r, p))
         /\ (p \in Files => Marker \notin r.work[p]) => CleanRepo(Add(r, p))
         /\ \A b : (p \in Files => Marker \notin b) =>
                  CleanRepo(TakeVersion(r, p, b)) /\ CleanRepo(CheckOutSide(r, p, b))
         /\ \A b : (p \in Files => Marker \notin b) => CleanRepo([r EXCEPT !.work[p] = b])
         /\ \A b : CleanRepo([r EXCEPT !.lock = b]) /\ CleanRepo([r EXCEPT !.tracking = b])
<1>. USE DEF CleanRepo, Clean, Path
<1>1. r.index \in [Path -> Blob] /\ r.work \in [Path -> Blob] BY DEF Repos, Trees
<1>2. CleanRepo(Rm(r, p)) BY <1>1 DEF Rm, Repos, Absent
<1>3. ASSUME p \in Files => Marker \notin r.work[p] PROVE CleanRepo(Add(r, p))
  BY <1>1, <1>3 DEF Add, Repos
<1>4. ASSUME NEW b, p \in Files => Marker \notin b
      PROVE  /\ CleanRepo(TakeVersion(r, p, b)) /\ CleanRepo(CheckOutSide(r, p, b))
             /\ CleanRepo([r EXCEPT !.work[p] = b])
  BY <1>1, <1>4 DEF TakeVersion, CheckOutSide, Repos
<1>5. ASSUME NEW b PROVE CleanRepo([r EXCEPT !.lock = b]) /\ CleanRepo([r EXCEPT !.tracking = b])
  BY <1>1 DEF Repos
<1>. QED BY <1>2, <1>3, <1>4, <1>5

\* A fast-forward, an abort, a reset and a clean put committed text on disk.
LEMMA CleanMoves ==
  ASSUME NEW s \in Seq(CommitRecords), CleanStore(s), NEW r \in Repos(Len(s)), CleanRepo(r),
         NEW u \in 1..Len(s)
  PROVE  /\ CleanRepo(FastForward(s, r, u)) /\ CleanRepo(MergeAbort(s, r))
         /\ CleanRepo(ResetHard(s, r, u)) /\ CleanRepo(CleanUntracked(r))
<1>. USE DEF CleanRepo, Clean, Path
<1>1. /\ r.index \in [Path -> Blob] /\ r.work \in [Path -> Blob] /\ r.unmerged \subseteq Path
      /\ r.head \in 1..Len(s)
  BY DEF Repos, Trees
<1>2. \A f \in Files : Marker \notin s[u].tree[f] /\ Marker \notin s[r.head].tree[f]
  BY <1>1 DEF CleanStore
<1>3. CleanRepo(FastForward(s, r, u)) BY <1>1, <1>2 DEF FastForward, Repos
<1>4. CleanRepo(MergeAbort(s, r))
  BY <1>1, <1>2 DEF MergeAbort, HeadTree, StagedPaths, Repos
<1>5. CleanRepo(ResetHard(s, r, u))
  BY <1>1, <1>2 DEF ResetHard, Untracked, Unstaged, Repos
<1>6. CleanRepo(CleanUntracked(r)) BY <1>1 DEF CleanUntracked, Absent, Repos
<1>. QED BY <1>3, <1>4, <1>5, <1>6

\* A merge leaves markers where it could not merge, and such a path is unmerged.
LEMMA CleanMerge ==
  ASSUME NEW s \in Seq(CommitRecords), CleanStore(s), NEW r \in Repos(Len(s)), CleanRepo(r),
         r.unmerged = {}, NEW u \in 1..Len(s), NEW auto
  PROVE  CleanRepo(MergeInto(s, r, u, auto))
<1>. DEFINE t == MergedTree(s, r.head, u, auto)
            open == BothChanged(s, r.head, u) \ auto
<1>1. /\ r.index \in [Path -> Blob] /\ r.work \in [Path -> Blob] /\ r.head \in 1..Len(s)
  BY DEF Repos, Trees
<1>2. \A f \in Files : Marker \notin s[u].tree[f] /\ Marker \notin s[r.head].tree[f]
  BY <1>1 DEF CleanStore, Clean
<1>3. ASSUME NEW f \in Files, Marker \in t[f] PROVE f \in open
  <2>1. f \in Path BY DEF Path
  <2>2. AutoMergeable(s, r.head, u) \subseteq BothChanged(s, r.head, u) BY DEF AutoMergeable
  <2>. QED BY <1>2, <1>3, <2>1, <2>2 DEF MergedTree
<1>. HIDE DEF t, open
<1>4. MergeInto(s, r, u, auto) =
        [r EXCEPT !.merge = u, !.unmerged = open,
                  !.index = [p \in Path |-> IF p \in open THEN Absent ELSE t[p]],
                  !.work = [p \in Path |-> IF p \in Unstaged(r) THEN r.work[p] ELSE t[p]]]
  BY DEF MergeInto, t, open
<1>. QED BY <1>1, <1>3, <1>4 DEF CleanRepo, Clean, Path, Repos, Absent

\* A commit of a clean tree.
LEMMA CleanCommit ==
  ASSUME NEW s \in Seq(CommitRecords), CleanStore(s), NEW t \in Trees, Clean(t),
         NEW P \in SUBSET (1..Len(s))
  PROVE  CleanStore(WithCommit(s, t, P))
<1>1. Len(s) \in Nat OBVIOUS
<1>. QED BY <1>1, WithCommitFacts DEF CleanStore

---------------------------------------------------------------------------
(* One process *)

\* What a step does to the process, its job and its budget.
StillServing ==
    /\ mode' = mode /\ job'.kind \in {job.kind, "none", "write", "delete", "tick", "pull"}
    /\ left' = left \/ \E e \in Events \ {"crash", "term"} : Spend(e)

\* No such step can end the process.
LEMMA StillAlive ==
  ASSUME Shape, LifeInv, StillServing
  PROVE  LifeInv'
BY DEF Shape, TypeOK, LifeInv, StillServing, Spend, Events

\* The steps of the write path.
LEMMA WriteServing ==
  ASSUME Shape, WriteNext
  PROVE  StillServing
<1>1. NoJob.kind = "none" /\ NoJob \in Jobs(0) BY NoJobType DEF NoJob
<1>2. job \in Jobs(Len(store)) BY DEF Shape, TypeOK
<1>. USE DEF Events
<1>3. CASE \E p \in ClientPaths : WriteFile(p) \/ WriteFileIfAbsent(p) \/ DeleteFile(p)
  <2>1. PICK p : WriteFile(p) \/ WriteFileIfAbsent(p) \/ DeleteFile(p) BY <1>3
  <2>2. Spend("req") /\ mode' = mode
    BY <2>1 DEF WriteFile, WriteFileIfAbsent, DeleteFile, writeFileLocked
  <2>3. job'.kind \in {job.kind, "write", "delete"}
    BY <1>1, <2>1
       DEF WriteFile, WriteFileIfAbsent, DeleteFile, writeFileLocked, Start, Jobs
  <2>. QED BY <2>2, <2>3 DEF StillServing
<1>4. CASE FlushPendingIfDue
  BY <1>1, <1>4 DEF FlushPendingIfDue, Start, Jobs, StillServing
<1>5. CASE TruncateFile \/ WriteContent
  BY <1>5 DEF TruncateFile, WriteContent, OnDisk, StillServing
<1>6. CASE StageWrite \/ RemoveForDelete \/ CommitStaged
  BY <1>6 DEF StageWrite, RemoveForDelete, CommitStaged, Command, RunOrCut, IoFault, Cut,
              StillServing
<1>7. CASE enqueuePendingLocked \/ StatForDelete
  BY <1>1, <1>7 DEF enqueuePendingLocked, StatForDelete, Finish, StillServing
<1>8. CASE flushPendingLocked \/ CommitFailed \/ Pushed \/ retainCommitAfterFailedPushLocked
  <2>1. mode' = mode /\ left' = left
    BY <1>8 DEF flushPendingLocked, CommitFailed, Pushed, retainCommitAfterFailedPushLocked
  <2>2. job' \in {job, [job EXCEPT !.phase = "own", !.attempt = 1, !.rescued = FALSE]}
    BY <1>8 DEF flushPendingLocked, CommitFailed, Pushed, retainCommitAfterFailedPushLocked,
                FlushReturns
  <2>3. job'.kind = job.kind BY <1>2, <2>2 DEF Jobs
  <2>. QED BY <2>1, <2>3 DEF StillServing
<1>9. CASE pushWithRetry \/ RetryFetch \/ PushRescue
  <2>1. mode' = mode /\ (left' = left \/ Spend("net") \/ Spend("cut"))
    BY <1>9 DEF pushWithRetry, RetryFetch, PushRescue, RemoteCommand, Cut
  <2>2. job'.kind = job.kind BY <1>2, <1>9 DEF pushWithRetry, RetryFetch, PushRescue, Jobs
  <2>. QED BY <2>1, <2>2 DEF StillServing
<1>10. CASE mergeWithDirtyTreeRescue
  <2>1. mode' = mode /\ (left' = left \/ Spend("io") \/ Spend("cut"))
    BY <1>10 DEF mergeWithDirtyTreeRescue, MergeUpstream, RunOrCut, IoFault, Cut
  <2>2. job'.kind = job.kind BY <1>2, <1>10 DEF mergeWithDirtyTreeRescue, Jobs
  <2>. QED BY <2>1, <2>2 DEF StillServing
<1>11. CASE AbortMerge \/ createRescueCommit \/ ResetAfterRescue \/ CleanAfterRescue
  <2>1. mode' = mode /\ (left' = left \/ Spend("io") \/ Spend("cut"))
    BY <1>11 DEF AbortMerge, createRescueCommit, ResetAfterRescue, CleanAfterRescue,
                 Command, RunOrCut, IoFault, Cut
  <2>2. job'.kind = job.kind
    BY <1>2, <1>11 DEF AbortMerge, createRescueCommit, ResetAfterRescue, CleanAfterRescue, Jobs
  <2>. QED BY <2>1, <2>2 DEF StillServing
<1>. QED BY <1>3, <1>4, <1>5, <1>6, <1>7, <1>8, <1>9, <1>10, <1>11 DEF WriteNext

\* The steps of the pull.
LEMMA PullServing ==
  ASSUME Shape, PullNext
  PROVE  StillServing
<1>1. NoJob.kind = "none" /\ NoJob \in Jobs(0) BY NoJobType DEF NoJob
<1>2. job \in Jobs(Len(store)) BY DEF Shape, TypeOK
<1>. USE DEF Events
<1>3. CASE StartPull BY <1>1, <1>3 DEF StartPull, Start, Jobs, StillServing
<1>4. CASE cleanupStaleLocksForCycle \/ recoverRepoState \/ fastForwardOrRescue \/ commitAndPushMerge
  BY <1>4 DEF cleanupStaleLocksForCycle, recoverRepoState, fastForwardOrRescue,
              commitAndPushMerge, Command, RunOrCut, IoFault, Cut, StillServing
<1>5. CASE syncWithUpstream
  <2>1. mode' = mode /\ (left' = left \/ Spend("net") \/ Spend("cut"))
    BY <1>5 DEF syncWithUpstream, RemoteCommand, Cut
  <2>2. job'.kind = job.kind BY <1>2, <1>5 DEF syncWithUpstream, Jobs
  <2>. QED BY <2>1, <2>2 DEF StillServing
<1>6. CASE ensureConflictsDir \/ QuarantineDone
  BY <1>2, <1>6 DEF ensureConflictsDir, classifyConflicts, QuarantineDone, Jobs, StillServing
<1>7. ASSUME NEW p, StartQuarantine(p) \/ \E step : StartResolver(p, step)
      PROVE  job'.kind = job.kind
  BY <1>2, <1>7 DEF StartQuarantine, StartResolver, Jobs
<1>8. ASSUME NEW p, NEW r, Handled(p, r) PROVE job'.kind = job.kind
  BY <1>2, <1>8 DEF Handled, Jobs
<1>9. CASE resolveEachPath
  <2>1. PICK p : resolveModifyDelete(p) \/ Resolve(p)
                 \/ (StartResolver(p, "skip") /\ UNCHANGED left)
    BY <1>9 DEF resolveEachPath
  <2>2. CASE resolveModifyDelete(p)
    <3>1. left' = left \/ Spend("io") \/ Spend("cut")
      BY <2>2 DEF resolveModifyDelete, stageUpstreamVersion, acceptUpstreamDeletion, RunOrCut,
                  IoFault, Cut
    <3>2. \/ job' = [job EXCEPT !.todo = @ \ {p}, !.path = p]
          \/ ResolveAfterAll(p)
          \/ \E r : Handled(p, r)
      BY <2>2 DEF resolveModifyDelete, stageUpstreamVersion, acceptUpstreamDeletion
    <3>3. job'.kind = job.kind BY <1>2, <1>7, <1>8, <3>2 DEF Jobs, ResolveAfterAll
    <3>. QED BY <1>9, <3>1, <3>3 DEF resolveEachPath, StillServing
  <2>3. CASE Resolve(p)
    <3>1. left' = left \/ Spend("cut")
      BY <2>3, ResolverConfig DEF ResolverConfig, Resolve, ResolveYaml, ResolveVault, Cut
    <3>2. \/ \E step : StartResolver(p, step)
          \/ StartQuarantine(p)
          \/ job' = [job EXCEPT !.todo = @ \ {p}]
      BY <2>3, ResolverConfig DEF ResolverConfig, Resolve, ResolveYaml, ResolveVault
    <3>3. job'.kind = job.kind BY <1>2, <1>7, <3>2 DEF Jobs
    <3>. QED BY <1>9, <3>1, <3>3 DEF resolveEachPath, StillServing
  <2>4. CASE StartResolver(p, "skip") /\ UNCHANGED left
    BY <1>7, <1>9, <2>4 DEF resolveEachPath, StillServing
  <2>. QED BY <2>1, <2>2, <2>3, <2>4
<1>10. CASE \/ skipQuarantinedPath \/ StageSide
             \/ ResolverOpen \/ ResolverWrite \/ ResolverAdd
  <2>1. mode' = mode /\ (left' = left \/ \E e \in {"io", "cut", "full"} : Spend(e))
    BY <1>10 DEF skipQuarantinedPath, StageSide, ResolverOpen, ResolverWrite, ResolverAdd,
                 Command, RunOrCut, IoFault, Cut
  <2>2. job'.kind = job.kind
    BY <1>7, <1>8, <1>10
       DEF skipQuarantinedPath, StageSide, ResolveAfterAll, ResolverOpen, ResolverWrite, ResolverAdd
  <2>. QED BY <2>1, <2>2 DEF StillServing
<1>11. CASE QuarantineRm \/ QuarantineWrite \/ QuarantineAdd \/ QuarantineRestore
  BY <1>11 DEF QuarantineRm, QuarantineWrite, QuarantineAdd, QuarantineRestore, Command,
               RunOrCut, IoFault, Cut, StillServing
<1>. QED BY <1>3, <1>4, <1>5, <1>6, <1>9, <1>10, <1>11 DEF PullNext

\* No step starts, stops or kills the process.
LEMMA LifeStep ==
  ASSUME ServerInv, LifeInv, [Next]_vars
  PROVE  /\ LifeInv'
         /\ \/ WriteNext \/ PullNext \/ Return \/ UNCHANGED vars
            \/ \E p \in Path : UpstreamCommit(p)
<1>1. Shape /\ left \in [Events -> Nat] BY DEF ServerInv, Shape, TypeOK
<1>2. ~Sigterm /\ ~Crash BY DEF LifeInv, Sigterm, Crash, Spend
<1>3. ~ShutdownFlush /\ ~Exit /\ ~Boot BY DEF LifeInv, ShutdownFlush, Exit, Boot
<1>4. ~AddAllUntracked /\ ~CommitUntracked /\ ~RecoverPendingWrites
  BY DEF LifeInv, ServerInv, Core, KindInv, AddAllUntracked, CommitUntracked,
         RecoverPendingWrites
<1>5. CASE WriteNext BY <1>1, <1>5, WriteServing, StillAlive
<1>6. CASE PullNext BY <1>1, <1>6, PullServing, StillAlive
<1>7. CASE Return
  <2>1. NoJob.kind = "none" BY DEF NoJob
  <2>2. mode' = mode /\ job' = NoJob /\ left' = left BY <1>7 DEF Return, Finish, LifeInv
  <2>. QED BY <1>7, <2>1, <2>2 DEF LifeInv
<1>8. CASE \E p \in Path : UpstreamCommit(p)
  <2>1. Spend("upstream") /\ UNCHANGED <<mode, job>> BY <1>8 DEF UpstreamCommit
  <2>. QED BY <1>1, <1>8, <2>1, StillAlive DEF StillServing, Events
<1>9. CASE UNCHANGED vars BY <1>9 DEF vars, LifeInv
<1>. QED BY <1>2, <1>3, <1>4, <1>5, <1>6, <1>7, <1>8, <1>9 DEF Next, ProcessNext

---------------------------------------------------------------------------
(* The steps *)

\* The places of which StagingInv and RescueTreeInv say something.
Staging == {"open", "write", "add", "stageTheirs", "stageOurs", "vaultOpen", "yamlOpen", "resolverWrite", "resolverAdd",
            "qRm", "qWrite", "qAdd", "rescueCommit"}

\* A step that leads elsewhere has nothing to show of them.
LEMMA NotStaging ==
  ASSUME pc' \notin Staging
  PROVE  StagingInv' /\ RescueTreeInv'
BY DEF Staging, StagingInv, RescueTreeInv

\* The parts of the invariant that the operators need.
LEMMA TextFacts ==
  ASSUME Shape, TextInv
  PROVE  /\ Len(store) \in Nat /\ store \in Seq(CommitRecords) /\ repo \in Repos(Len(store))
         /\ job \in Jobs(Len(store)) /\ job.path \in Path
         /\ repo.head \in 1..Len(store) /\ repo.tracking \in 1..Len(store)
         /\ CleanStore(store) /\ CleanRepo(repo) /\ CleanRepo(Locked)
<1>1. /\ Len(store) \in Nat /\ repo \in Repos(Len(store)) /\ job.path \in Path
      /\ repo.head \in 1..Len(store) /\ repo.tracking \in 1..Len(store)
  BY TypeFacts DEF Shape, TypeOK
<1>2. CleanStore(store) /\ CleanRepo(repo) BY DEF TextInv
<1>3. CleanRepo(Locked) BY <1>1, <1>2, CleanPath DEF Locked
<1>. QED BY <1>1, <1>2, <1>3 DEF Shape, TypeOK

\* Requests: what a client sends has no markers.
LEMMA ClientClean ==
  ASSUME Shape, TextInv, NEW p \in Path,
         WriteFile(p) \/ WriteFileIfAbsent(p) \/ DeleteFile(p)
  PROVE  TextInv'
<1>1. NoJob \in Jobs(0) BY NoJobType
<1>2. UNCHANGED <<store, repo>> /\ pc' \in {"idle", "open", "flush"}
  BY DEF WriteFile, WriteFileIfAbsent, DeleteFile, writeFileLocked, Start
<1>3. ASSUME NEW v, writeFileLocked(p, v), pc' = "open" PROVE job'.ver = v \/ pc = "open"
  BY <1>1, <1>3 DEF writeFileLocked, Jobs
<1>4. lastVer + 1 # Marker BY DEF Shape, TypeOK, Marker
<1>5. pc = "idle" BY DEF WriteFile, WriteFileIfAbsent, DeleteFile, Start
<1>6. pc' = "open" => job'.ver # Marker
  BY <1>3, <1>4, <1>5 DEF WriteFile, WriteFileIfAbsent, DeleteFile, Start
<1>. QED BY <1>2, <1>6 DEF TextInv, StagingInv, RescueTreeInv

\* WriteFile: a body is staged as it was written.
LEMMA StageClean ==
  ASSUME Shape, TextInv, TruncateFile \/ WriteContent \/ StageWrite \/ enqueuePendingLocked
  PROVE  TextInv'
<1>1. /\ Len(store) \in Nat /\ repo \in Repos(Len(store)) /\ job.path \in Path
      /\ CleanStore(store) /\ CleanRepo(repo) /\ CleanRepo(Locked)
  BY TextFacts
<1>2. repo.work \in [Path -> Blob] BY <1>1 DEF Repos, Trees
<1>3. ASSUME NEW b, NEW next, OnDisk(b, next), Marker \notin b
      PROVE  /\ CleanRepo(repo') /\ UNCHANGED <<store, job>> /\ pc' \in {next, "failed"}
             /\ pc' # "failed" => repo'.work[job.path] = b
  <2>1. CleanRepo([repo EXCEPT !.work[job.path] = b]) BY <1>1, <1>3, CleanPath
  <2>2. [repo EXCEPT !.work[job.path] = b].work[job.path] = b BY <1>1, <1>2 DEF Repos
  <2>. QED BY <1>1, <1>3, <2>1, <2>2 DEF OnDisk
<1>4. CASE TruncateFile
  <2>1. Marker \notin Blank BY DEF Marker, Blank
  <2>2. CleanRepo(repo') /\ UNCHANGED <<store, job>> /\ pc' \in {"write", "failed"}
    BY <1>3, <1>4, <2>1 DEF TruncateFile
  <2>. QED BY <1>4, <2>2 DEF TruncateFile, TextInv, StagingInv, RescueTreeInv
<1>5. CASE WriteContent
  <2>1. Marker \notin {job.ver} BY <1>5 DEF WriteContent, TextInv, StagingInv
  <2>2. /\ CleanRepo(repo') /\ UNCHANGED <<store, job>> /\ pc' \in {"add", "failed"}
        /\ pc' # "failed" => repo'.work[job.path] = {job.ver}
    BY <1>3, <1>5, <2>1 DEF WriteContent
  <2>. QED BY <1>5, <2>2 DEF WriteContent, TextInv, StagingInv, RescueTreeInv
<1>6. CASE StageWrite
  <2>1. Marker \notin repo.work[job.path] BY <1>6 DEF StageWrite, TextInv, StagingInv
  <2>2. CleanRepo(Add(repo, job.path)) BY <1>1, <2>1, CleanPath
  <2>3. /\ store' = store /\ pc' \in {"staged", "failed"}
        /\ repo' \in {Add(repo, job.path), repo, Locked}
    BY <1>6 DEF StageWrite, Command, RunOrCut, IoFault, NoEffect, Locked
  <2>. QED BY <1>1, <2>2, <2>3, NotStaging DEF TextInv, Staging
<1>7. CASE enqueuePendingLocked
  <2>1. UNCHANGED <<store, repo>> /\ pc' \in {"idle", "commit"}
    BY <1>7 DEF enqueuePendingLocked, Finish
  <2>. QED BY <2>1, NotStaging DEF TextInv, Staging
<1>. QED BY <1>4, <1>5, <1>6, <1>7

\* DeleteFile, and the ends of a flush.
LEMMA DeleteClean ==
  ASSUME Shape, TextInv,
         \/ StatForDelete \/ RemoveForDelete \/ FlushPendingIfDue \/ flushPendingLocked
         \/ CommitFailed \/ Pushed \/ retainCommitAfterFailedPushLocked
  PROVE  TextInv'
<1>1. /\ Len(store) \in Nat /\ repo \in Repos(Len(store)) /\ job.path \in Path
      /\ CleanStore(store) /\ CleanRepo(repo) /\ CleanRepo(Locked)
  BY TextFacts
<1>2. CleanRepo(Rm(repo, job.path)) BY <1>1, CleanPath
<1>3. store' = store /\ repo' \in {Rm(repo, job.path), repo, Locked}
  BY DEF StatForDelete, RemoveForDelete, FlushPendingIfDue, flushPendingLocked, CommitFailed,
         Pushed, retainCommitAfterFailedPushLocked, Command, RunOrCut, IoFault, NoEffect, Locked
<1>4. pc' \notin Staging
  BY DEF StatForDelete, RemoveForDelete, FlushPendingIfDue, flushPendingLocked, CommitFailed,
         Pushed, retainCommitAfterFailedPushLocked, Command, RunOrCut, Start, Finish,
         FlushReturns, Staging
<1>. QED BY <1>1, <1>2, <1>3, <1>4, NotStaging DEF TextInv

\* git commit takes the index, and only when nothing is unmerged.
LEMMA CommitClean ==
  ASSUME Shape, TextInv, CommitStaged \/ commitAndPushMerge
  PROVE  TextInv'
<1>1. /\ Len(store) \in Nat /\ repo \in Repos(Len(store)) /\ store \in Seq(CommitRecords)
      /\ CleanStore(store) /\ CleanRepo(repo) /\ CleanRepo(Locked)
  BY TextFacts
<1>2. /\ CommitHead \/ (store' = store /\ repo' \in {repo, Locked})
      /\ pc' \in {"push", "pushed", "commitFailed", "abort"}
  BY DEF CommitStaged, commitAndPushMerge, Command, RunOrCut, IoFault, NoEffect, Locked,
         AfterCommit, AfterNothing
<1>3. CASE CommitHead
  <2>1. repo.index \in Trees /\ Clean(repo.index) BY <1>1, RepoUpdates DEF CleanRepo
  <2>2. Parents(repo) \in SUBSET (1..Len(store)) BY <1>1, NewCommitType
  <2>3. CleanStore(store') BY <1>1, <1>3, <2>1, <2>2, CleanCommit DEF CommitHead
  <2>4. CleanRepo(repo') BY <1>1, <1>3 DEF CommitHead, AtNewCommit, CleanRepo, Repos
  <2>. QED BY <1>2, <2>3, <2>4, NotStaging DEF TextInv, Staging
<1>4. CASE store' = store /\ repo' \in {repo, Locked}
  BY <1>1, <1>2, <1>4, NotStaging DEF TextInv, Staging
<1>. QED BY <1>2, <1>3, <1>4

\* A push or a fetch changes the tracking ref only.
LEMMA PushClean ==
  ASSUME Shape, TextInv, pushWithRetry \/ RetryFetch \/ PushRescue \/ syncWithUpstream
  PROVE  TextInv'
<1>1. /\ Len(store) \in Nat /\ repo \in Repos(Len(store)) /\ job.path \in Path
      /\ CleanStore(store) /\ CleanRepo(repo)
  BY TextFacts
<1>2. \A c : CleanRepo([repo EXCEPT !.tracking = c]) BY <1>1, CleanPath
<1>3. store' = store /\ (repo' = repo \/ \E c : repo' = [repo EXCEPT !.tracking = c])
  BY DEF pushWithRetry, RetryFetch, PushRescue, syncWithUpstream, RemoteCommand, PushBranch,
         TrackPushed, Fetch
<1>4. pc' \notin Staging
  BY DEF pushWithRetry, RetryFetch, PushRescue, syncWithUpstream, RemoteCommand,
         AfterRejection, RescueFailed, SyncCase, Staging
<1>. QED BY <1>1, <1>2, <1>3, <1>4, NotStaging DEF TextInv

\* git merge: conflict text is in unmerged files, and a merge commit has none.
LEMMA MergeClean ==
  ASSUME Shape, Core, TextInv, mergeWithDirtyTreeRescue
  PROVE  TextInv'
<1>1. /\ Len(store) \in Nat /\ repo \in Repos(Len(store)) /\ store \in Seq(CommitRecords)
      /\ repo.tracking \in 1..Len(store)
      /\ CleanStore(store) /\ CleanRepo(repo) /\ CleanRepo(Locked)
  BY TextFacts
<1>2. PICK auto : MergeOutcome(auto) BY MergeOutcomes
<1>3. pc' = "rescueCommit" => repo' = repo /\ repo.unmerged = {}
  <2>1. pc' = "rescueCommit" => NoEffect /\ repo.merge = NoCommit
    BY DEF mergeWithDirtyTreeRescue, MergeUpstream, RunOrCut, AfterConflict, AfterFailedMerge,
           IoFault
  <2>. QED BY <2>1 DEF NoEffect, Core, MergeInv
<1>4. pc' \in {"abort", "push", "rescueCommit", "preflight"} BY <1>2 DEF MergeOutcome
<1>5. StagingInv' /\ RescueTreeInv' BY <1>3, <1>4 DEF StagingInv, RescueTreeInv
<1>6. CleanRepo(FastForward(store, repo, repo.tracking)) BY <1>1, CleanMoves
<1>7. ASSUME repo.merge = NoCommit PROVE CleanRepo(Merge(auto))
  <2>1. repo.unmerged = {} BY <1>7 DEF Core, MergeInv
  <2>. QED BY <1>1, <2>1, CleanMerge DEF Merge
<1>8. CASE /\ UNCHANGED store
           /\ \/ repo' \in {repo, Locked, FastForward(store, repo, repo.tracking)}
              \/ repo' = Merge(auto) /\ repo.merge = NoCommit
  BY <1>1, <1>5, <1>6, <1>7, <1>8 DEF TextInv
<1>9. CASE /\ store' = WithCommit(store, Merge(auto).index, Parents(Merge(auto)))
           /\ repo' = AtNewCommit(store, Merge(auto)) /\ repo.merge = NoCommit
  <2>. DEFINE m == Merge(auto)
  <2>1. m \in Repos(Len(store)) BY <1>1, MergeIntoType DEF Merge
  <2>2. CleanRepo(m) BY <1>7, <1>9
  <2>. HIDE DEF m
  <2>3. m.index \in Trees /\ Clean(m.index) BY <1>1, <2>1, <2>2, RepoUpdates DEF CleanRepo
  <2>4. Parents(m) \in SUBSET (1..Len(store)) BY <1>1, <2>1, NewCommitType
  <2>5. CleanStore(store') BY <1>1, <1>9, <2>3, <2>4, CleanCommit DEF m
  <2>6. CleanRepo(AtNewCommit(store, m)) BY <2>1, <2>2 DEF AtNewCommit, CleanRepo, Repos
  <2>. QED BY <1>5, <1>9, <2>5, <2>6 DEF TextInv, m
<1>. QED BY <1>2, <1>8, <1>9 DEF MergeOutcome

\* merge --abort, and the rescue: the commit of a working tree without unmerged files.
LEMMA RescueClean ==
  ASSUME Shape, TextInv, \/ AbortMerge \/ createRescueCommit
                         \/ ResetAfterRescue \/ CleanAfterRescue \/ recoverRepoState
  PROVE  TextInv'
<1>1. /\ Len(store) \in Nat /\ repo \in Repos(Len(store)) /\ store \in Seq(CommitRecords)
      /\ repo.tracking \in 1..Len(store) /\ repo.head \in 1..Len(store)
      /\ CleanStore(store) /\ CleanRepo(repo) /\ CleanRepo(Locked)
  BY TextFacts
<1>2. ResetTarget \in 1..Len(store) BY <1>1 DEF ResetTarget
<1>3. /\ CleanRepo(MergeAbort(store, repo)) /\ CleanRepo(CleanTree)
      /\ CleanRepo(ResetHard(store, repo, ResetTarget))
  BY <1>1, <1>2, CleanMoves DEF CleanTree
<1>4. CASE AbortMerge \/ ResetAfterRescue \/ CleanAfterRescue \/ recoverRepoState
  <2>1. /\ store' = store
        /\ repo' \in {MergeAbort(store, repo), CleanTree,
                      ResetHard(store, repo, ResetTarget), repo, Locked}
    BY <1>4 DEF AbortMerge, ResetAfterRescue, CleanAfterRescue, recoverRepoState, Command,
                RunOrCut, IoFault, NoEffect, Locked
  <2>2. pc' \notin Staging
    BY <1>4 DEF AbortMerge, ResetAfterRescue, CleanAfterRescue, recoverRepoState, Command,
                RunOrCut, RescueFailed, Staging
  <2>. QED BY <1>1, <1>3, <2>1, <2>2, NotStaging DEF TextInv
<1>5. CASE createRescueCommit
  <2>1. repo.unmerged = {} BY <1>5 DEF createRescueCommit, TextInv, RescueTreeInv
  <2>2. repo.work \in Trees /\ Clean(repo.work)
    BY <1>1, <2>1, RepoUpdates DEF CleanRepo, Clean
  <2>3. {repo.head} \in SUBSET (1..Len(store)) BY <1>1
  <2>4. CleanStore(WithCommit(store, repo.work, {repo.head}))
    BY <1>1, <2>2, <2>3, CleanCommit
  <2>5. /\ repo' = repo /\ store' \in {store, WithCommit(store, repo.work, {repo.head})}
        /\ pc' \in {"rescuePush", "failed", "abort"}
    BY <1>5 DEF createRescueCommit, RescueTree, RescueFailed
  <2>. QED BY <1>1, <2>4, <2>5, NotStaging DEF TextInv, Staging
<1>. QED BY <1>4, <1>5

\* The steps of Pull outside the conflict loop.
LEMMA PullClean ==
  ASSUME Shape, Core, TextInv, StartPull \/ cleanupStaleLocksForCycle \/ fastForwardOrRescue
  PROVE  TextInv'
<1>1. /\ Len(store) \in Nat /\ repo \in Repos(Len(store)) /\ store \in Seq(CommitRecords)
      /\ repo.tracking \in 1..Len(store) /\ job.path \in Path
      /\ CleanStore(store) /\ CleanRepo(repo) /\ CleanRepo(Locked)
  BY TextFacts
<1>2. CASE StartPull \/ cleanupStaleLocksForCycle
  <2>1. \A b : CleanRepo([repo EXCEPT !.lock = b]) BY <1>1, CleanPath
  <2>2. store' = store /\ CleanRepo(repo') /\ pc' \in {"flush", "recover"}
    BY <1>1, <1>2, <2>1 DEF StartPull, Start, cleanupStaleLocksForCycle
  <2>. QED BY <1>1, <2>2, NotStaging DEF TextInv, Staging
<1>3. CASE fastForwardOrRescue
  <2>1. CleanRepo(FastForward(store, repo, repo.tracking)) BY <1>1, CleanMoves
  <2>2. /\ store' = store /\ pc' \in {"failed", "rescueCommit", "done"}
        /\ repo' \in {FastForward(store, repo, repo.tracking), repo, Locked}
        /\ pc' = "rescueCommit" => repo' = repo
    BY <1>3 DEF fastForwardOrRescue, RunOrCut, IoFault, NoEffect, Locked
  <2>3. repo.unmerged = {} BY <1>3 DEF fastForwardOrRescue, Core, MergeInv
  <2>4. StagingInv' /\ RescueTreeInv' BY <2>2, <2>3 DEF StagingInv, RescueTreeInv
  <2>. QED BY <1>1, <2>1, <2>2, <2>4 DEF TextInv
<1>. QED BY <1>2, <1>3

\* What a resolver is to write has no markers.
LEMMA ResolverBlob ==
  ASSUME Shape, NEW p \in Path, NEW step, StartResolver(p, step)
  PROVE  Marker \notin job'.blob
BY DEF StartResolver, Merged, Shape, TypeOK, Jobs

\* A quarantine copy is under _conflicts/.
LEMMA QuarantineDest ==
  ASSUME Shape, NEW p \in Files, StartQuarantine(p)
  PROVE  job'.dest \in Dests
BY DEF StartQuarantine, Shape, TypeOK, Jobs, Dests

\* The places a path of the loop starts at, unless the marker resolver has it.
LEMMA LoopStarts ==
  ASSUME Shape, TextInv, UNCHANGED <<store, repo>>, NEW p \in Path,
         \/ \E step \in {"skip", "vaultOpen", "yamlOpen"} : StartResolver(p, step)
         \/ p \in Files /\ StartQuarantine(p)
  PROVE  TextInv'
<1>1. CASE \E step \in {"skip", "vaultOpen", "yamlOpen"} : StartResolver(p, step)
  <2>1. Marker \notin job'.blob /\ pc' \in {"skip", "vaultOpen", "yamlOpen"}
    BY <1>1, ResolverBlob DEF StartResolver
  <2>. QED BY <2>1 DEF TextInv, StagingInv, RescueTreeInv
<1>2. CASE p \in Files /\ StartQuarantine(p)
  <2>1. job'.dest \in Dests /\ pc' = "qRm" BY <1>2, QuarantineDest DEF StartQuarantine
  <2>. QED BY <2>1 DEF TextInv, StagingInv, RescueTreeInv
<1>. QED BY <1>1, <1>2

\* So does a modify/delete conflict that could not be resolved.
LEMMA AfterAllClean ==
  ASSUME Shape, TextInv, Resolver # "marker", NoEffect, NEW p \in Path, ResolveAfterAll(p)
  PROVE  TextInv'
<1>1. ~Quarantined(p) => p \in Files BY DEF Quarantined, Path
<1>2. StartResolver(p, "skip") \/ (p \in Files /\ StartQuarantine(p))
  BY <1>1 DEF ResolveAfterAll
<1>. QED BY <1>2, LoopStarts DEF NoEffect

\* resolveEachPath: a side is taken, or the path starts on its way.
LEMMA EachPathClean ==
  ASSUME Shape, TextInv, Resolver # "marker", resolveEachPath
  PROVE  TextInv'
<1>1. /\ Len(store) \in Nat /\ repo \in Repos(Len(store)) /\ store \in Seq(CommitRecords)
      /\ CleanStore(store) /\ CleanRepo(repo) /\ CleanRepo(Locked)
  BY TextFacts
<1>2. PICK p \in job.todo :
          \/ resolveModifyDelete(p)
          \/ StartResolver(p, "skip") /\ NoEffect
          \/ ~Quarantined(p) /\ Resolve(p)
  BY DEF resolveEachPath
<1>3. p \in Path BY <1>2, TypeFacts DEF Shape
<1>4. ~Quarantined(p) => p \in Files BY <1>3 DEF Quarantined, Path
<1>5. CASE resolveModifyDelete(p)
  <2>. DEFINE theirs == store[repo.merge].tree[p]
              side == CheckOutSide(repo, p, theirs)
  <2>1. p \in Files => Marker \notin theirs
    <3>1. repo.merge \in 1..Len(store)
      BY <1>1, TypeFacts DEF resolveEachPath, Shape, StepInv, Loop, NoCommit
    <3>. QED BY <1>1, <3>1 DEF CleanStore, Clean
  <2>. HIDE DEF theirs
  <2>2. CleanRepo(side) /\ CleanRepo(Rm(repo, p)) /\ side.work[p] = theirs
    BY <1>1, <1>3, <2>1, CleanPath DEF CheckOutSide, Repos, Trees
  <2>. HIDE DEF side
  <2>3. \/ /\ RunOrCut(repo' = side /\ UNCHANGED store, "stageTheirs", "resolve")
           /\ job' = [job EXCEPT !.todo = @ \ {p}, !.path = p]
        \/ RunOrCut(repo' = Rm(repo, p) /\ UNCHANGED store, "resolve", "resolve")
        \/ IoFault /\ ResolveAfterAll(p)
    BY <1>5 DEF resolveModifyDelete, stageUpstreamVersion, acceptUpstreamDeletion, side, theirs
  <2>4. CASE /\ RunOrCut(repo' = side /\ UNCHANGED store, "stageTheirs", "resolve")
             /\ job' = [job EXCEPT !.todo = @ \ {p}, !.path = p]
    <3>1. /\ store' = store /\ repo' \in {side, repo, Locked}
          /\ pc' \in {"stageTheirs", "resolve"} /\ (pc' = "stageTheirs" => repo' = side)
      BY <2>4 DEF RunOrCut, NoEffect, Locked
    <3>2. job'.path = p BY <1>1, <2>4 DEF Jobs
    <3>. QED BY <1>1, <2>1, <2>2, <3>1, <3>2 DEF TextInv, StagingInv, RescueTreeInv
  <2>5. CASE RunOrCut(repo' = Rm(repo, p) /\ UNCHANGED store, "resolve", "resolve")
    <3>1. store' = store /\ repo' \in {Rm(repo, p), repo, Locked} /\ pc' = "resolve"
      BY <2>5 DEF RunOrCut, NoEffect, Locked
    <3>. QED BY <1>1, <2>2, <3>1, NotStaging DEF TextInv, Staging
  <2>6. CASE IoFault /\ ResolveAfterAll(p) BY <1>3, <2>6, AfterAllClean DEF IoFault
  <2>. QED BY <2>3, <2>4, <2>5, <2>6
<1>6. CASE StartResolver(p, "skip") /\ NoEffect BY <1>3, <1>6, LoopStarts DEF NoEffect
<1>7. CASE ~Quarantined(p) /\ Resolve(p)
  <2>1. /\ NoEffect
        /\ \/ \E step \in {"vaultOpen", "yamlOpen"} : StartResolver(p, step)
           \/ StartQuarantine(p)
           \/ pc' = "resolve"
    BY <1>7, ResolverConfig DEF ResolverConfig, Resolve, ResolveYaml, ResolveVault
  <2>2. CASE pc' = "resolve"
    BY <1>1, <2>1, <2>2, NotStaging DEF NoEffect, TextInv, Staging
  <2>3. CASE \E step \in {"vaultOpen", "yamlOpen"} : StartResolver(p, step)
    BY <1>3, <2>1, <2>3, LoopStarts DEF NoEffect
  <2>4. CASE StartQuarantine(p) BY <1>3, <1>4, <1>7, <2>1, <2>4, LoopStarts DEF NoEffect
  <2>. QED BY <2>1, <2>2, <2>3, <2>4
<1>. QED BY <1>2, <1>5, <1>6, <1>7

\* The steps of a resolver on its path: it stages what it wrote.
LEMMA ResolverClean ==
  ASSUME Resolver # "marker", Shape, TextInv,
         \/ skipQuarantinedPath \/ StageSide
         \/ ResolverOpen \/ ResolverWrite \/ ResolverAdd
  PROVE  TextInv'
<1>1. /\ Len(store) \in Nat /\ repo \in Repos(Len(store)) /\ store \in Seq(CommitRecords)
      /\ job.path \in Path /\ repo.head \in 1..Len(store)
      /\ CleanStore(store) /\ CleanRepo(repo) /\ CleanRepo(Locked)
  BY TextFacts
<1>2. repo.work \in [Path -> Blob] BY <1>1 DEF Repos, Trees
<1>3. ASSUME NEW b, Marker \notin b
      PROVE  /\ CleanRepo([repo EXCEPT !.work[job.path] = b])
             /\ [repo EXCEPT !.work[job.path] = b].work[job.path] = b
  <2>1. CleanRepo([repo EXCEPT !.work[job.path] = b]) BY <1>1, <1>3, CleanPath
  <2>2. [repo EXCEPT !.work[job.path] = b].work[job.path] = b BY <1>1, <1>2 DEF Repos
  <2>. QED BY <2>1, <2>2
<1>4. pc \in ResolverPCs => job.path \in Files BY DEF Shape, StepInv
<1>5. CASE skipQuarantinedPath
  <2>. DEFINE ours == HeadTree(store, repo)[job.path]
              side == CheckOutSide(repo, job.path, ours)
  <2>1. job.path \in Files => Marker \notin ours BY <1>1 DEF CleanStore, Clean, HeadTree
  <2>. HIDE DEF ours
  <2>2. CleanRepo(side) /\ side.work[job.path] = ours
    BY <1>1, <1>2, <2>1, CleanPath DEF CheckOutSide, Repos
  <2>3. /\ store' = store /\ pc' \in {"stageOurs", "resolve"} /\ job' = job
        /\ repo' \in {side, repo, Locked} /\ (pc' = "stageOurs" => repo' = side)
    BY <1>5 DEF skipQuarantinedPath, Command, RunOrCut, IoFault, NoEffect, Locked, ours
  <2>. HIDE DEF side
  <2>. QED BY <1>1, <2>1, <2>2, <2>3 DEF TextInv, StagingInv, RescueTreeInv
<1>stage. CASE StageSide
  <2>1. job.path \in Files => Marker \notin repo.work[job.path]
    BY <1>stage DEF StageSide, TextInv, StagingInv
  <2>2. CleanRepo(Add(repo, job.path)) BY <1>1, <2>1, CleanPath
  <2>3. CASE IoFault /\ ResolveAfterAll(job.path) BY <1>1, <2>3, AfterAllClean DEF IoFault
  <2>4. CASE ~(IoFault /\ ResolveAfterAll(job.path))
    <3>1. store' = store /\ pc' = "resolve" /\ repo' \in {Add(repo, job.path), repo, Locked}
      BY <1>stage, <2>4 DEF StageSide, RunOrCut, IoFault, NoEffect, Locked
    <3>. QED BY <1>1, <2>2, <3>1, NotStaging DEF TextInv, Staging
  <2>. QED BY <2>3, <2>4
<1>6. CASE ResolverOpen
  <2>1. store' = store /\ job.path \in Files /\ Marker \notin job.blob
    BY <1>4, <1>6 DEF ResolverOpen, ResolverPCs, TextInv, StagingInv
  <2>2. CASE repo' = [repo EXCEPT !.work[job.path] = Blank] /\ pc' = "resolverWrite" /\ job' = job
    <3>1. Marker \notin Blank BY DEF Marker, Blank
    <3>2. CleanRepo(repo') BY <1>3, <2>2, <3>1
    <3>. QED BY <1>1, <2>1, <2>2, <3>2 DEF TextInv, StagingInv, RescueTreeInv
  <2>3. CASE repo' = repo /\ (StartResolver(job.path, "yamlOpen") \/ StartQuarantine(job.path))
    BY <1>1, <2>1, <2>3, LoopStarts
  <2>. QED BY <1>6, <2>2, <2>3 DEF ResolverOpen
<1>7. CASE ResolverWrite
  <2>1. store' = store /\ job.path \in Files /\ Marker \notin job.blob
    BY <1>4, <1>7 DEF ResolverWrite, ResolverPCs, TextInv, StagingInv
  <2>2. CASE repo' = [repo EXCEPT !.work[job.path] = job.blob] /\ pc' = "resolverAdd" /\ job' = job
    <3>1. CleanRepo(repo') /\ repo'.work[job.path] = job.blob BY <1>3, <2>1, <2>2
    <3>. QED BY <1>1, <2>1, <2>2, <3>1 DEF TextInv, StagingInv, RescueTreeInv
  <2>3. CASE repo' = repo /\ StartQuarantine(job.path) BY <1>1, <2>1, <2>3, LoopStarts
  <2>. QED BY <1>7, <2>2, <2>3 DEF ResolverWrite
<1>8. CASE ResolverAdd
  <2>1. job.path \in Files /\ Marker \notin repo.work[job.path]
    BY <1>4, <1>8 DEF ResolverAdd, ResolverPCs, TextInv, StagingInv
  <2>2. CleanRepo(Add(repo, job.path)) BY <1>1, <2>1, CleanPath
  <2>3. CASE IoFault /\ StartQuarantine(job.path)
    BY <1>1, <2>1, <2>3, LoopStarts DEF IoFault, NoEffect
  <2>4. CASE RunOrCut(repo' = Add(repo, job.path) /\ UNCHANGED store, "resolve", "resolve")
    <3>1. store' = store /\ pc' = "resolve" /\ repo' \in {Add(repo, job.path), repo, Locked}
      BY <2>4 DEF RunOrCut, NoEffect, Locked
    <3>. QED BY <1>1, <2>2, <3>1, NotStaging DEF TextInv, Staging
  <2>. QED BY <1>8, <2>3, <2>4 DEF ResolverAdd
<1>. QED BY <1>5, <1>stage, <1>6, <1>7, <1>8

\* quarantineOne: the copy is under _conflicts/, the source gets HEAD's version.
LEMMA QuarantineClean ==
  ASSUME Shape, TextInv, \/ QuarantineRm \/ QuarantineWrite \/ QuarantineAdd
                         \/ QuarantineRestore \/ QuarantineDone \/ ensureConflictsDir
  PROVE  TextInv'
<1>1. /\ Len(store) \in Nat /\ repo \in Repos(Len(store)) /\ store \in Seq(CommitRecords)
      /\ job.path \in Path /\ repo.head \in 1..Len(store)
      /\ CleanStore(store) /\ CleanRepo(repo) /\ CleanRepo(Locked)
  BY TextFacts
<1>2. CASE QuarantineRm
  <2>1. CleanRepo(Rm(repo, job.path)) BY <1>1, CleanPath
  <2>2. /\ store' = store /\ repo' \in {Rm(repo, job.path), repo, Locked}
        /\ pc' \in {"qWrite", "resolve"} /\ job' = job /\ pc = "qRm"
    BY <1>2 DEF QuarantineRm, Command, RunOrCut, IoFault, NoEffect, Locked
  <2>. QED BY <1>1, <2>1, <2>2 DEF TextInv, StagingInv, RescueTreeInv
<1>3. CASE QuarantineWrite
  <2>1. job.dest \in Dests /\ job.dest \in Path /\ job.dest \notin Files
    BY <1>3, PathConfig DEF PathConfig, QuarantineWrite, TextInv, StagingInv, Path
  <2>2. CleanRepo([repo EXCEPT !.work[job.dest] = job.blob]) BY <1>1, <2>1, CleanPath
  <2>3. /\ store' = store /\ repo' \in {[repo EXCEPT !.work[job.dest] = job.blob], repo}
        /\ pc' \in {"qAdd", "resolve"} /\ job' = job
    BY <1>3 DEF QuarantineWrite
  <2>. QED BY <1>1, <2>1, <2>2, <2>3 DEF TextInv, StagingInv, RescueTreeInv
<1>4. CASE QuarantineAdd
  <2>1. job.dest \in Path /\ job.dest \notin Files
    BY <1>4, PathConfig DEF PathConfig, QuarantineAdd, TextInv, StagingInv, Path
  <2>2. CleanRepo(Add(repo, job.dest)) BY <1>1, <2>1, CleanPath
  <2>3. /\ store' = store /\ repo' \in {Add(repo, job.dest), repo, Locked}
        /\ pc' \in {"qRestore", "resolve"}
    BY <1>4 DEF QuarantineAdd, Command, RunOrCut, IoFault, NoEffect, Locked, AfterQuarantineAdd
  <2>. QED BY <1>1, <2>2, <2>3, NotStaging DEF TextInv, Staging
<1>5. CASE QuarantineRestore
  <2>. DEFINE ours == HeadTree(store, repo)[job.path]
  <2>1. job.path \in Files => Marker \notin ours BY <1>1 DEF CleanStore, Clean, HeadTree
  <2>2. CleanRepo(TakeVersion(repo, job.path, ours)) BY <1>1, <2>1, CleanPath
  <2>3. /\ store' = store /\ pc' \in {"resolve", "restored"}
        /\ repo' \in {TakeVersion(repo, job.path, ours), repo, Locked}
    BY <1>5 DEF QuarantineRestore, Command, RunOrCut, IoFault, NoEffect, Locked
  <2>. QED BY <1>1, <2>2, <2>3, NotStaging DEF TextInv, Staging
<1>6. CASE QuarantineDone \/ ensureConflictsDir
  <2>1. UNCHANGED <<store, repo>> /\ pc' \in {"resolve", "abort"}
    BY <1>6 DEF QuarantineDone, ensureConflictsDir, classifyConflicts
  <2>. QED BY <1>1, <2>1, NotStaging DEF TextInv, Staging
<1>. QED BY <1>2, <1>3, <1>4, <1>5, <1>6

\* The other clones push files without markers.
LEMMA UpstreamClean ==
  ASSUME Shape, TextInv, NEW p \in Path, UpstreamCommit(p)
  PROVE  TextInv'
<1>1. Len(store) \in Nat /\ store \in Seq(CommitRecords) /\ CleanStore(store) BY TextFacts
<1>2. origin.main \in 1..Len(store) BY TypeFacts DEF Shape
<1>3. PICK b \in {Absent, {lastVer + 1}} :
          store' = WithCommit(store, [store[origin.main].tree EXCEPT ![p] = b], {origin.main})
  BY DEF UpstreamCommit
<1>. DEFINE t == [store[origin.main].tree EXCEPT ![p] = b]
<1>4. store[origin.main].tree \in Trees /\ Clean(store[origin.main].tree)
  BY <1>1, <1>2, TreeOf DEF CleanStore
<1>5. b \in Blob /\ Marker \notin b BY DEF Shape, TypeOK, Absent, Blob, Marker
<1>6. t \in Trees BY <1>4, <1>5, TreeUpdates
<1>7. Clean(t) BY <1>4, <1>5 DEF Clean, Trees
<1>. HIDE DEF t
<1>8. CleanStore(store') BY <1>1, <1>2, <1>3, <1>6, <1>7, CleanCommit DEF t
<1>. QED BY <1>8 DEF UpstreamCommit, TextInv, StagingInv, RescueTreeInv

\* Every step of one process keeps the invariant.
LEMMA MarkStep ==
  ASSUME Resolver # "marker", ServerInv, MarkInv, [Next]_vars
  PROVE  MarkInv'
<1>1. LifeInv' BY LifeStep DEF MarkInv
<1>2. Shape /\ Core /\ TextInv BY DEF ServerInv, MarkInv
<1>3. TextInv'
  <2>1. CASE WriteNext
    <3>1. ClientPaths \subseteq Path BY DEF ClientPaths, Path
    <3>. QED BY <1>2, <2>1, <3>1, ClientClean, StageClean, DeleteClean, CommitClean, PushClean,
                MergeClean, RescueClean DEF WriteNext
  <2>2. CASE PullNext
    BY <1>2, <2>2, PullClean, RescueClean, PushClean, EachPathClean, ResolverClean,
       QuarantineClean, CommitClean DEF PullNext
  <2>3. CASE Return
    <3>1. UNCHANGED <<store, repo>> /\ pc' \in {"idle", "flush"} BY <2>3 DEF Return, Finish
    <3>. QED BY <1>2, <3>1, NotStaging DEF TextInv, Staging
  <2>4. CASE \E p \in Path : UpstreamCommit(p) BY <1>2, <2>4, UpstreamClean
  <2>5. CASE UNCHANGED vars BY <1>2, <2>5 DEF vars, TextInv, StagingInv, RescueTreeInv
  <2>. QED BY <2>1, <2>2, <2>3, <2>4, <2>5, LifeStep DEF MarkInv
<1>. QED BY <1>1, <1>3 DEF MarkInv

\* The first commit has no markers, and the first process no faults to come.
LEMMA InitMark == OneLife /\ Init => MarkInv
<1>. SUFFICES ASSUME OneLife, Init PROVE MarkInv OBVIOUS
<1>1. Clean(InitTree) BY DEF Clean, InitTree, Marker, Absent, Path
<1>2. NoJob.kind = "none" BY DEF NoJob
<1>3. LifeInv BY <1>2 DEF Init, LifeInv, OneLife
<1>4. CleanStore(store) BY <1>1 DEF Init, CleanStore
<1>5. CleanRepo(repo) BY <1>1 DEF Init, CleanRepo, Clean
<1>. QED BY <1>3, <1>4, <1>5 DEF Init, MarkInv, TextInv, StagingInv, RescueTreeInv

\* resolveConflictMerge, quarantineOne and the rescue: with the YAML or the vault-api
\* resolver no process commits conflict markers outside _conflicts/, whatever command fails,
\* is cut or is refused in it. A process that is restarted in a merge can (recoverUntracked).
THEOREM MarkersStayQuarantined ==
  ASSUME OneLife, Resolver # "marker"
  PROVE  Spec => []NoMarkersOutsideQuarantine
<1>1. Init => ServerInv /\ MarkInv BY InitMark, InitServer
<1>2. (ServerInv /\ MarkInv) /\ [Next]_vars => (ServerInv /\ MarkInv)'
  BY MarkStep, ServerStep
<1>3. ServerInv /\ MarkInv => NoMarkersOutsideQuarantine
  <2>. SUFFICES ASSUME ServerInv, MarkInv, NEW c \in store[repo.head].anc
                PROVE  Clean(store[c].tree)
    BY DEF NoMarkersOutsideQuarantine, Clean
  <2>1. Len(store) \in Nat /\ repo.head \in 1..Len(store) BY TypeFacts DEF ServerInv, Shape
  <2>2. c \in 1..repo.head BY <2>1 DEF ServerInv, HistoryInv, Commits
  <2>. QED BY <2>1, <2>2 DEF MarkInv, TextInv, CleanStore
<1>. QED BY <1>1, <1>2, <1>3, PTL DEF Spec
=============================================================================
