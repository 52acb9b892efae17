---------------------------- MODULE MergeProofs ----------------------------
(***************************************************************************)
(* Proofs about merges that are resolved without an interruption: the disk *)
(* works, and no pull is cut in its own part. Pushes and fetches may fail, *)
(* the flush of a pull may be cut anywhere, and with coalescing a write    *)
(* too: its index.lock then stays for the next pull. Between jobs no merge *)
(* is left open, and concluding a merge removes no file and loses neither  *)
(* side of a conflict.                                                     *)
(***************************************************************************)
EXTENDS QuarantineProofs

---------------------------------------------------------------------------
(* The invariant *)

\* The runs pull_timeout_loss and crash_quarantine show what the other faults do.
Undisturbed ==
    /\ OneLife /\ Budget["io"] = 0
    /\ Cuttable \subseteq IF Coalesce THEN {"write", "pullflush"} ELSE {"pullflush"}

PullFlush == job.kind = "pull" /\ job.phase = "flush"
PullOwn == job.kind = "pull" /\ job.phase = "own"

\* A context ends in the flush of a pull or in a coalesced write, which runs no merge.
CalmInv ==
    /\ left["io"] = 0
    /\ ctxDone => PullFlush \/ (job.kind = "write" /\ Coalesce)
    /\ job.kind = "write" /\ Coalesce => pc \in {"open", "write", "add", "staged", "failed"}

\* The places that only a server with a remote gets to.
RemotePCs == Loop \cup RescuePCs \cup {"push", "pushFailed", "retryFetch", "merge", "abort",
                                       "rescueClean", "locks", "recover", "fetch", "ff"}

\* Only a pull repairs, fetches and resolves, in its own part; the other merges are those
\* of a push retry.
PullInv ==
    /\ pc \in RemotePCs => HasRemote
    /\ pc \in Loop \cup {"locks", "recover", "fetch", "ff"} => PullOwn
    /\ pc \in RescuePCs \cup {"rescueClean", "merge", "abort"} /\ job.caller # "retry" => PullOwn

\* merge --abort is not refused: what is staged is not changed on disk, outside of S.
Abortable(s, r, S) ==
    \A p \in Unstaged(r) \ (r.unmerged \cup S) : r.index[p] = HeadTree(s, r)[p]

\* What the quarantine or a checkout has written and git add has not staged yet.
Unadded ==
    CASE pc = "qAdd" -> {job.dest}
      [] pc \in {"stageTheirs", "stageOurs"} -> {job.path}
      [] OTHER -> {}

\* Where a merge can be open: it is being resolved or aborted, or it is the leftover of a
\* flush that was cut, which the same pull aborts next.
OpenInv ==
    /\ PullOwn /\ HasRemote /\ pc # "locks" => ~repo.lock
    /\ repo.merge # NoCommit =>
          /\ pc \in Loop \cup {"abort", "locks", "recover"} \/ (PullFlush /\ pc = "pushFailed")
          /\ pc = "abort" /\ ~PullFlush => ~repo.lock
          /\ Abortable(store, repo, Unadded)

\* The files to do are unmerged. The path that the loop has begun is not to do any more,
\* and with a resolver or the quarantine is unmerged too until git rm or git add of it.
Begun == ResolverPCs \cup {"stageTheirs", "stageOurs", "qRm", "qWrite", "qAdd", "qRestore"}

PathInv ==
    pc \in Loop =>
        /\ job.todo \cap Files \subseteq repo.unmerged
        /\ pc \in Begun \cup {"skip"} => job.path \notin job.todo
        /\ pc \in ResolverPCs \cup {"qRm"} => job.path \in repo.unmerged
        /\ pc \in {"qRm", "qWrite", "qAdd"} => job.dest \notin Files

Calm == CalmInv /\ PullInv /\ OpenInv /\ PathInv

\* Both sides of the open merge have f.
BothHave(f) ==
    HeadTree(store, repo)[f] # Absent /\ store[repo.merge].tree[f] # Absent

\* In the loop a file of both sides is still unmerged, staged, or in the middle of its
\* quarantine, and a resolver has text to write for it.
KeepAt(f) ==
    /\ \/ f \in repo.unmerged
       \/ repo.index[f] # Absent
       \/ pc \in {"qWrite", "qAdd", "qRestore"} /\ job.path = f
    /\ f \in job.todo => repo.work[f] \ {Marker} # {}
    /\ pc \in {"vaultOpen", "yamlOpen", "resolverWrite"} /\ job.path = f
          => job.blob # Absent
    /\ pc \in {"resolverAdd", "stageTheirs", "stageOurs"} /\ job.path = f
          => repo.work[f] # Absent

KeepInv == pc \in Loop => \A f \in Files : BothHave(f) => KeepAt(f)

---------------------------------------------------------------------------
(* What the git operators leave for merge --abort *)

\* What changes one path leaves the others as they are, and stages that one.
LEMMA AbortableUpdates ==
  ASSUME NEW n, NEW s, NEW r \in Repos(n), NEW p \in Path
  PROVE  /\ Abortable(s, r, {}) => Abortable(s, Add(r, p), {}) /\ Abortable(s, Rm(r, p), {})
         /\ Abortable(s, r, {p}) => Abortable(s, Add(r, p), {})
         /\ \A b : Abortable(s, r, {}) => Abortable(s, TakeVersion(r, p, b), {})
         /\ \A b : Abortable(s, r, {}) => Abortable(s, [r EXCEPT !.work[p] = b], {p})
         /\ \A b : Abortable(s, r, {}) => Abortable(s, CheckOutSide(r, p, b), {p})
         /\ \A b : Abortable(s, r, {}) /\ p \in r.unmerged
               => Abortable(s, [r EXCEPT !.work[p] = b], {})
         /\ \A b : Abortable(s, r, {}) => Abortable(s, [r EXCEPT !.lock = b], {})
<1>. USE DEF Abortable, Unstaged, HeadTree
<1>1. r.index \in [Path -> Blob] /\ r.work \in [Path -> Blob] BY DEF Repos, Trees
<1>2. Abortable(s, r, {}) => Abortable(s, Add(r, p), {}) /\ Abortable(s, Rm(r, p), {})
  BY <1>1 DEF Add, Rm, Repos
<1>3. Abortable(s, r, {p}) => Abortable(s, Add(r, p), {}) BY <1>1 DEF Add, Repos
<1>4. ASSUME NEW b, Abortable(s, r, {}) PROVE Abortable(s, TakeVersion(r, p, b), {})
  BY <1>1, <1>4 DEF TakeVersion, Repos
<1>5. ASSUME NEW b, Abortable(s, r, {}) PROVE Abortable(s, [r EXCEPT !.work[p] = b], {p})
  BY <1>1, <1>5 DEF Repos
<1>6. ASSUME NEW b, Abortable(s, r, {}), p \in r.unmerged
      PROVE  Abortable(s, [r EXCEPT !.work[p] = b], {})
  BY <1>1, <1>6 DEF Repos
<1>7. ASSUME NEW b, Abortable(s, r, {}) PROVE Abortable(s, [r EXCEPT !.lock = b], {})
  BY <1>1, <1>7 DEF Repos
<1>. QED BY <1>2, <1>3, <1>4, <1>5, <1>6, <1>7 DEF CheckOutSide

\* A merge that git does not refuse can be aborted: a file that was changed on disk before
\* the merge is one that the merge does not change.
LEMMA MergeAbortable ==
  ASSUME NEW s \in Seq(CommitRecords), NEW r \in Repos(Len(s)), NEW u \in 1..Len(s),
         NEW auto \in SUBSET AutoMergeable(s, r.head, u), ~TrueMergeRefused(s, r, u)
  PROVE  Abortable(s, MergeInto(s, r, u, auto), {})
<1>. DEFINE t == MergedTree(s, r.head, u, auto)
            open == BothChanged(s, r.head, u) \ auto
            m == MergeInto(s, r, u, auto)
<1>1. /\ r.index \in [Path -> Blob] /\ r.work \in [Path -> Blob]
  BY DEF Repos, Trees
<1>2. ASSUME NEW p \in Unstaged(r), p \notin open PROVE t[p] = HeadTree(s, r)[p]
  <2>1. p \in Path BY DEF Unstaged
  <2>2. MergedTree(s, r.head, u, {})[p] = HeadTree(s, r)[p] BY DEF TrueMergeRefused
  <2>3. CASE p \notin BothChanged(s, r.head, u)
    BY <2>1, <2>2, <2>3 DEF MergedTree
  <2>4. CASE p \in BothChanged(s, r.head, u)
    <3>1. p \in auto BY <1>2, <2>4
    <3>2. t[p] = HeadTree(s, r)[p] \cup s[u].tree[p]
      BY <2>1, <2>4, <3>1 DEF MergedTree, HeadTree
    <3>3. HeadTree(s, r)[p] \cup s[u].tree[p] \subseteq MergedTree(s, r.head, u, {})[p]
      BY <2>1, <2>4 DEF MergedTree, HeadTree
    <3>. QED BY <2>2, <3>2, <3>3
  <2>. QED BY <2>3, <2>4
<1>. HIDE DEF t, open
<1>3. m = [r EXCEPT !.merge = u, !.unmerged = open,
                    !.index = [p \in Path |-> IF p \in open THEN Absent ELSE t[p]],
                    !.work = [p \in Path |-> IF p \in Unstaged(r) THEN r.work[p] ELSE t[p]]]
  BY DEF MergeInto, t, open
<1>4. /\ m.unmerged = open /\ m.head = r.head
      /\ \A p \in Path \ open : m.index[p] = t[p]
      /\ \A p \in Path \ Unstaged(r) : m.work[p] = t[p]
  BY <1>1, <1>3 DEF Repos
<1>. HIDE DEF m
<1>5. ASSUME NEW p \in Unstaged(m) \ (m.unmerged \cup {}) PROVE m.index[p] = HeadTree(s, m)[p]
  <2>1. p \in Path \ open /\ m.work[p] # m.index[p] BY <1>4 DEF Unstaged
  <2>2. p \in Unstaged(r) BY <1>4, <2>1
  <2>. QED BY <1>2, <1>4, <2>1, <2>2 DEF HeadTree
<1>. QED BY <1>5 DEF Abortable, m

---------------------------------------------------------------------------
(* The context and the lock *)

\* What a step in the middle of a job does to the job: it is still the same job, and a
\* context that ends, or a lock that is left behind, is one of a command that may be cut.
Steady ==
    /\ job'.kind = job.kind /\ job'.phase = job.phase
    /\ ctxDone' => ctxDone \/ CutKind \in Cuttable
    /\ repo'.lock => repo.lock \/ CutKind \in Cuttable

\* The places of a write with coalescing.
WritePlaces == {"open", "write", "add", "staged", "failed"}

\* A job that may be cut is the flush of a pull or a coalesced write.
LEMMA CutJob ==
  ASSUME Undisturbed, Shape, CutKind \in Cuttable
  PROVE  PullFlush \/ (job.kind = "write" /\ Coalesce)
<1>1. job.kind # "pullflush" BY DEF Shape, TypeOK, Jobs, JobKinds
<1>. QED BY <1>1 DEF Undisturbed, CutKind, PullFlush

\* The disk never fails.
LEMMA DiskWorks ==
  ASSUME ServerInv, LifeInv, left["io"] = 0, [Next]_vars
  PROVE  left'["io"] = 0
<1>1. Shape /\ left \in [Events -> Nat] BY DEF ServerInv, Shape, TypeOK
<1>2. StillServing => left'["io"] = 0 BY <1>1 DEF StillServing, Spend, Events
<1>3. CASE WriteNext BY <1>1, <1>2, <1>3, WriteServing
<1>4. CASE PullNext BY <1>1, <1>2, <1>4, PullServing
<1>5. CASE Return \/ UNCHANGED vars BY <1>5 DEF Return, vars
<1>6. CASE \E p \in Path : UpstreamCommit(p)
  BY <1>1, <1>6 DEF UpstreamCommit, Spend, Events
<1>. QED BY <1>3, <1>4, <1>5, <1>6, LifeStep

\* A step in the middle of a job keeps CalmInv.
LEMMA SteadyCalm ==
  ASSUME Undisturbed, Shape, CalmInv, Steady, left'["io"] = 0,
         pc \in WritePlaces => pc' \in WritePlaces
  PROVE  CalmInv'
BY CutJob DEF Steady, CalmInv, PullFlush, WritePlaces

---------------------------------------------------------------------------
(* Outside the conflict loop *)

\* A step in the middle of a job that opens no merge and leaves none open.
LEMMA ClosedStep ==
  ASSUME Undisturbed, Shape, Calm, Steady, left'["io"] = 0, PullInv',
         pc \in WritePlaces => pc' \in WritePlaces,
         repo'.merge = NoCommit, pc' \notin Loop, pc # "locks"
  PROVE  Calm'
<1>1. CalmInv' BY SteadyCalm DEF Calm
<1>2. PullOwn' /\ HasRemote => ~repo'.lock
  BY CutJob DEF Steady, Calm, OpenInv, PullOwn, PullFlush
<1>3. OpenInv' BY <1>2 DEF OpenInv
<1>. QED BY <1>1, <1>3 DEF Calm, PathInv

\* A step between jobs: one starts or ends, or none is touched.
LEMMA FreshStep ==
  ASSUME Calm, left'["io"] = 0, UNCHANGED <<store, repo>>,
         repo.merge = NoCommit, pc' \in {"idle", "open", "flush"},
         \/ UNCHANGED <<pc, job, ctxDone>>
         \/ ~ctxDone' /\ (job'.kind = "write" => pc' = "open") /\ ~PullOwn'
  PROVE  Calm'
<1>1. CalmInv' BY DEF CalmInv, Calm, PullFlush
<1>2. PullInv' /\ PathInv'
  BY DEF PullInv, PathInv, RemotePCs, Loop, RescuePCs
<1>3. OpenInv' BY DEF OpenInv, Calm, PullOwn
<1>. QED BY <1>1, <1>2, <1>3 DEF Calm

\* A flush returns to its caller. Only the flush of a pull can leave a merge open, and the
\* pull goes on to abort it.
LEMMA FlushReturnsCalm ==
  ASSUME Undisturbed, Shape, LifeInv, Calm, NEW ok, FlushReturns(ok), left'["io"] = 0,
         UNCHANGED <<store, repo>>, pc \in {"flush", "commitFailed", "pushed", "pushFailed"}
  PROVE  Calm'
<1>1. /\ job'.kind = job.kind /\ job'.phase = "own"
      /\ pc' \in {"locks", "done", "stat", "failed"}
      /\ job.kind = "pull" => pc' = IF HasRemote THEN "locks" ELSE "done"
      /\ job.kind # "pull" => pc' # "locks"
  BY DEF FlushReturns, Shape, TypeOK, Jobs
<1>2. "pull" \notin Cuttable BY DEF Undisturbed
<1>3. job.kind = "pull" => ~ctxDone' BY <1>2 DEF FlushReturns, LifeInv
<1>4. job.kind # "pull" => ctxDone' = ctxDone BY DEF FlushReturns
<1>5. CalmInv' BY <1>1, <1>3, <1>4 DEF CalmInv, Calm, PullFlush
<1>6. PullInv' BY <1>1 DEF PullInv, RemotePCs, Loop, RescuePCs, PullOwn
<1>7. OpenInv'
  <2>1. PullOwn' /\ HasRemote => pc' = "locks" BY <1>1 DEF PullOwn
  <2>2. repo.merge # NoCommit => pc' = "locks" /\ Abortable(store, repo, {})
    BY <1>1 DEF Calm, OpenInv, Unadded, PullInv, PullFlush, RemotePCs, Loop
  <2>. QED BY <2>1, <2>2 DEF OpenInv, Unadded
<1>8. PathInv' BY <1>1 DEF PathInv, Loop
<1>. QED BY <1>5, <1>6, <1>7, <1>8 DEF Calm

\* The parts of the invariant that the steps outside the loop need.
LEMMA CalmFacts ==
  ASSUME Shape, Calm, pc \notin Loop \cup {"abort", "locks", "recover", "pushFailed"}
  PROVE  /\ repo \in Repos(Len(store)) /\ job \in Jobs(Len(store)) /\ repo.merge = NoCommit
         /\ Locked.merge = NoCommit
BY DEF Shape, TypeOK, Calm, OpenInv, Locked, Repos

\* Requests: they start between jobs.
LEMMA ClientCalm ==
  ASSUME Shape, Calm, left'["io"] = 0, NEW p,
         WriteFile(p) \/ WriteFileIfAbsent(p) \/ DeleteFile(p)
  PROVE  Calm'
<1>1. NoJob \in Jobs(0) BY NoJobType
<1>2. pc = "idle" BY DEF WriteFile, WriteFileIfAbsent, DeleteFile, Start
<1>3. UNCHANGED <<store, repo>> BY DEF WriteFile, WriteFileIfAbsent, DeleteFile, writeFileLocked
<1>4. repo.merge = NoCommit BY <1>2, CalmFacts DEF Loop
<1>5. CASE WriteFile(p) \/ WriteFileIfAbsent(p)
  <2>1. PICK v : writeFileLocked(p, v) BY <1>5 DEF WriteFile, WriteFileIfAbsent
  <2>2. \/ UNCHANGED <<pc, job, ctxDone>>
        \/ ~ctxDone' /\ pc' = "open" /\ job'.kind = "write"
    BY <1>1, <2>1 DEF writeFileLocked, Jobs
  <2>. QED BY <1>2, <1>3, <1>4, <2>2, FreshStep DEF PullOwn
<1>6. CASE DeleteFile(p)
  <2>1. ~ctxDone' /\ pc' = "flush" /\ job'.kind = "delete"
    BY <1>1, <1>6 DEF DeleteFile, Start, Jobs
  <2>. QED BY <1>3, <1>4, <2>1, FreshStep DEF PullOwn
<1>. QED BY <1>5, <1>6

\* The steps of WriteFile, and those of DeleteFile.
LEMMA StageCalm ==
  ASSUME Undisturbed, Shape, Calm, left'["io"] = 0,
         \/ TruncateFile \/ WriteContent \/ StageWrite \/ enqueuePendingLocked
         \/ StatForDelete \/ RemoveForDelete
  PROVE  Calm'
<1>1. NoJob \in Jobs(0) /\ NoJob.kind = "none" BY NoJobType DEF NoJob
<1>2. pc \in {"open", "write", "add", "staged", "stat", "rm"}
  BY DEF TruncateFile, WriteContent, StageWrite, enqueuePendingLocked, StatForDelete,
         RemoveForDelete
<1>3. /\ repo \in Repos(Len(store)) /\ job \in Jobs(Len(store)) /\ repo.merge = NoCommit
      /\ Locked.merge = NoCommit
  BY <1>2, CalmFacts DEF Loop
<1>4. CASE TruncateFile \/ WriteContent
  <2>1. /\ job' = job /\ ctxDone' = ctxDone /\ pc' \in {"write", "add", "failed"}
        /\ repo' = repo \/ \E b : repo' = [repo EXCEPT !.work[job.path] = b]
    BY <1>4 DEF TruncateFile, WriteContent, OnDisk
  <2>2. repo'.lock = repo.lock /\ repo'.merge = NoCommit BY <1>3, <2>1 DEF Repos
  <2>3. PullInv' BY <2>1 DEF PullInv, RemotePCs, Loop, RescuePCs
  <2>. QED BY <1>2, <2>1, <2>2, <2>3, ClosedStep DEF Steady, Loop, WritePlaces
<1>5. CASE StageWrite \/ RemoveForDelete
  <2>1. /\ job' = job /\ pc' \in {"staged", "failed", "commit"}
        /\ pc = "add" => pc' # "commit"
        /\ \/ repo' \in {Add(repo, job.path), Rm(repo, job.path), repo}
           \/ repo' = Locked /\ CutKind \in Cuttable
        /\ ctxDone' => ctxDone \/ CutKind \in Cuttable
    BY <1>5 DEF StageWrite, RemoveForDelete, Command, RunOrCut, IoFault, NoEffect, Cut, Locked
  <2>2. /\ repo'.merge = NoCommit
        /\ repo'.lock => repo.lock \/ CutKind \in Cuttable
    BY <1>3, <2>1 DEF Add, Rm, Repos
  <2>3. PullInv' BY <2>1 DEF PullInv, RemotePCs, Loop, RescuePCs
  <2>4. pc \in WritePlaces => pc' \in WritePlaces
    BY <1>5, <2>1 DEF StageWrite, RemoveForDelete, WritePlaces
  <2>. QED BY <1>2, <2>1, <2>2, <2>3, <2>4, ClosedStep DEF Steady, Loop
<1>6. CASE enqueuePendingLocked \/ StatForDelete
  <2>1. /\ UNCHANGED <<store, repo>>
        /\ \/ Finish
           \/ /\ UNCHANGED <<job, ctxDone>> /\ pc' \in {"commit", "rm"}
              /\ pc = "staged" => ~Coalesce
    BY <1>6 DEF enqueuePendingLocked, StatForDelete
  <2>2. CASE Finish BY <1>1, <1>3, <2>1, <2>2, FreshStep DEF Finish, PullOwn
  <2>3. CASE /\ UNCHANGED <<job, ctxDone>> /\ pc' \in {"commit", "rm"}
             /\ pc = "staged" => ~Coalesce
    <3>1. CalmInv'
      BY <1>6, <2>3 DEF Calm, CalmInv, PullFlush, enqueuePendingLocked, StatForDelete
    <3>2. PullInv' BY <2>3 DEF PullInv, RemotePCs, Loop, RescuePCs
    <3>3. OpenInv' /\ PathInv'
      BY <1>2, <1>3, <2>1, <2>3 DEF Calm, OpenInv, Unadded, PathInv, PullOwn, Loop
    <3>. QED BY <3>1, <3>2, <3>3 DEF Calm
  <2>. QED BY <2>1, <2>2, <2>3
<1>. QED BY <1>4, <1>5, <1>6

\* The steps of a flush up to its commit, and those after its push.
LEMMA FlushCalm ==
  ASSUME Undisturbed, Shape, LifeInv, Calm, left'["io"] = 0,
         \/ FlushPendingIfDue \/ flushPendingLocked \/ CommitFailed \/ Pushed
         \/ retainCommitAfterFailedPushLocked
  PROVE  Calm'
<1>1. NoJob \in Jobs(0) BY NoJobType
<1>2. CASE FlushPendingIfDue
  <2>1. /\ pc = "idle" /\ pc' = "flush" /\ ~ctxDone' /\ job'.kind = "tick"
        /\ UNCHANGED <<store, repo>>
    BY <1>1, <1>2 DEF FlushPendingIfDue, Start, Jobs
  <2>2. repo.merge = NoCommit BY <2>1, CalmFacts DEF Loop
  <2>. QED BY <2>1, <2>2, FreshStep DEF PullOwn
<1>3. CASE flushPendingLocked \/ CommitFailed \/ Pushed \/ retainCommitAfterFailedPushLocked
  <2>1. /\ UNCHANGED <<store, repo>> /\ pc \in {"flush", "commitFailed", "pushed", "pushFailed"}
        /\ \/ \E ok : FlushReturns(ok)
           \/ /\ UNCHANGED <<job, ctxDone>> /\ pc' \in {"commit", "failed", "done"}
              /\ pc = "pushFailed" => job.phase # "flush"
    BY <1>3 DEF flushPendingLocked, CommitFailed, Pushed, retainCommitAfterFailedPushLocked
  <2>2. CASE \E ok : FlushReturns(ok) BY <2>1, <2>2, FlushReturnsCalm
  <2>3. CASE /\ UNCHANGED <<job, ctxDone>> /\ pc' \in {"commit", "failed", "done"}
             /\ pc = "pushFailed" => job.phase # "flush"
    <3>1. repo.merge = NoCommit BY <2>1, <2>3 DEF Calm, OpenInv, PullFlush, Loop
    <3>2. PullInv' BY <2>3 DEF PullInv, RemotePCs, Loop, RescuePCs
    <3>3. pc \notin WritePlaces /\ pc' \notin Loop /\ pc # "locks"
      BY <2>1, <2>3 DEF WritePlaces, Loop
    <3>. QED BY <2>1, <2>3, <3>1, <3>2, <3>3, ClosedStep DEF Steady
  <2>. QED BY <2>1, <2>2, <2>3
<1>. QED BY <1>2, <1>3

\* git commit of what is staged.
LEMMA CommitCalm ==
  ASSUME Undisturbed, Shape, Calm, left'["io"] = 0, CommitStaged
  PROVE  Calm'
<1>1. /\ pc = "commit" /\ job' = job /\ pc' \in {"push", "pushed", "commitFailed"}
      /\ pc' = "push" => HasRemote
      /\ \/ repo' \in {AtNewCommit(store, repo), repo}
         \/ repo' = Locked /\ CutKind \in Cuttable
      /\ ctxDone' => ctxDone \/ CutKind \in Cuttable
  BY DEF CommitStaged, Command, RunOrCut, IoFault, NoEffect, Cut, Locked, CommitHead,
         AfterCommit, AfterNothing
<1>2. /\ repo \in Repos(Len(store)) /\ repo.merge = NoCommit /\ Locked.merge = NoCommit
  BY <1>1, CalmFacts DEF Loop
<1>3. /\ repo'.merge = NoCommit
      /\ repo'.lock => repo.lock \/ CutKind \in Cuttable
  BY <1>1, <1>2 DEF AtNewCommit, Repos
<1>4. PullInv' BY <1>1 DEF PullInv, RemotePCs, Loop, RescuePCs
<1>. QED BY <1>1, <1>3, <1>4, ClosedStep DEF Steady, Loop, WritePlaces

\* A push or a fetch.
LEMMA PushCalm ==
  ASSUME Undisturbed, Shape, Calm, left'["io"] = 0,
         pushWithRetry \/ RetryFetch \/ PushRescue \/ syncWithUpstream
  PROVE  Calm'
<1>1. /\ pc \in {"push", "retryFetch", "rescuePush", "fetch"}
      /\ repo' = repo \/ \E c : repo' = [repo EXCEPT !.tracking = c]
      /\ ctxDone' => ctxDone \/ CutKind \in Cuttable
  BY DEF pushWithRetry, RetryFetch, PushRescue, syncWithUpstream, RemoteCommand, PushBranch,
         TrackPushed, Fetch, Cut
<1>2. repo \in Repos(Len(store)) /\ repo.merge = NoCommit /\ job \in Jobs(Len(store))
  BY <1>1, CalmFacts DEF Loop
<1>3. job'.kind = job.kind /\ job'.phase = job.phase
  BY <1>2 DEF pushWithRetry, RetryFetch, PushRescue, syncWithUpstream, Jobs
<1>4. repo'.merge = NoCommit /\ repo'.lock = repo.lock BY <1>1, <1>2 DEF Repos
<1>5. /\ pc' \notin Loop \cup {"locks", "recover"}
      /\ pc' \in RemotePCs => pc \in RemotePCs
      /\ pc' \in {"fetch", "ff"} => pc = "fetch"
      /\ pc' \in RescuePCs \cup {"rescueClean", "merge", "abort"} /\ job'.caller # "retry"
            => pc = "fetch" \/ (pc = "rescuePush" /\ job.caller # "retry")
  <2>. USE DEF RemotePCs, Loop, RescuePCs
  <2>1. CASE pushWithRetry BY <2>1 DEF pushWithRetry, RemoteCommand, AfterRejection
  <2>2. CASE RetryFetch BY <1>2, <2>2 DEF RetryFetch, RemoteCommand, Jobs
  <2>3. CASE PushRescue BY <2>3 DEF PushRescue, RemoteCommand, RescueFailed
  <2>4. CASE syncWithUpstream BY <2>4 DEF syncWithUpstream, RemoteCommand, SyncCase
  <2>. QED BY <2>1, <2>2, <2>3, <2>4
<1>6. PullInv'
  BY <1>1, <1>3, <1>5 DEF Calm, PullInv, RemotePCs, RescuePCs, PullOwn
<1>. QED BY <1>1, <1>3, <1>4, <1>5, <1>6, ClosedStep DEF Steady, WritePlaces

\* The merge stops at conflicts, with git's answer auto to what merges by hunks.
Opens(auto) ==
    /\ UNCHANGED store /\ repo' = Merge(auto)
    /\ auto \in SUBSET AutoMergeable(store, repo.head, repo.tracking)
    /\ ~TrueMergeRefused(store, repo, repo.tracking)
    /\ ~repo.lock
    /\ \/ pc' = "preflight" /\ job.caller # "retry" /\ job' = [job EXCEPT !.todo = repo'.unmerged]
       \/ pc' = "abort" /\ job' = job

\* It fails, fast-forwards or makes a merge commit.
OpensNone ==
    /\ job' = job /\ pc' \in {"abort", "push", "rescueCommit"}
    /\ \/ repo' \in {repo, FastForward(store, repo, repo.tracking)}
       \/ repo' = Locked /\ CutKind \in Cuttable
       \/ \E auto : repo' = AtNewCommit(store, Merge(auto))

\* It does one or the other; a context that ends is one of a job that may be cut.
LEMMA MergeCases ==
  ASSUME mergeWithDirtyTreeRescue
  PROVE  /\ OpensNone \/ \E auto : Opens(auto)
         /\ ctxDone' => ctxDone \/ CutKind \in Cuttable
<1>. USE DEF Locked, Merge, NoEffect
<1>1. pc' # "preflight" => job' = job BY DEF mergeWithDirtyTreeRescue
<1>2. CASE \/ MergeRefused(store, repo, repo.tracking) \/ repo.lock \/ ctxDone
           \/ IoFault /\ pc' = AfterFailedMerge
  <2>1. repo' = repo /\ pc' \in {"abort", "rescueCommit"} /\ ctxDone' = ctxDone
    BY <1>2 DEF mergeWithDirtyTreeRescue, AfterFailedMerge, IoFault
  <2>. QED BY <1>1, <2>1 DEF OpensNone
<1>3. CASE ~(\/ MergeRefused(store, repo, repo.tracking) \/ repo.lock \/ ctxDone
             \/ IoFault /\ pc' = AfterFailedMerge)
  <2>1. PICK auto \in SUBSET AutoMergeable(store, repo.head, repo.tracking) :
            MergeUpstream(auto)
    BY <1>3 DEF mergeWithDirtyTreeRescue
  <2>2. CASE IsAncestor(store, repo.tracking, repo.head)
    <3>1. /\ \/ repo' = repo
             \/ repo' = Locked /\ CutKind \in Cuttable
          /\ pc' \in {"abort", "push"}
          /\ ctxDone' => ctxDone \/ CutKind \in Cuttable
      BY <2>1, <2>2 DEF MergeUpstream, RunOrCut, Cut
    <3>. QED BY <1>1, <3>1 DEF OpensNone
  <2>3. CASE /\ ~IsAncestor(store, repo.tracking, repo.head)
             /\ IsAncestor(store, repo.head, repo.tracking)
    <3>1. /\ \/ repo' \in {repo, FastForward(store, repo, repo.tracking)}
             \/ repo' = Locked /\ CutKind \in Cuttable
          /\ pc' \in {"abort", "push"}
          /\ ctxDone' => ctxDone \/ CutKind \in Cuttable
      BY <2>1, <2>3 DEF MergeUpstream, RunOrCut, Cut
    <3>. QED BY <1>1, <3>1 DEF OpensNone
  <2>4. CASE /\ ~IsAncestor(store, repo.tracking, repo.head)
             /\ ~IsAncestor(store, repo.head, repo.tracking)
    <3>1. ~TrueMergeRefused(store, repo, repo.tracking) BY <1>3, <2>4 DEF MergeRefused
    <3>2. CASE Merge(auto).unmerged = {}
      <4>1. /\ \/ repo' \in {repo, AtNewCommit(store, Merge(auto))}
               \/ repo' = Locked /\ CutKind \in Cuttable
            /\ pc' \in {"abort", "push"}
            /\ ctxDone' => ctxDone \/ CutKind \in Cuttable
        BY <2>1, <2>4, <3>2 DEF MergeUpstream, RunOrCut, Cut
      <4>. QED BY <1>1, <4>1 DEF OpensNone
    <3>3. CASE Merge(auto).unmerged # {}
      <4>1. /\ \/ /\ repo' = Merge(auto) /\ UNCHANGED store
                  /\ pc' = AfterConflict \/ pc' = "abort"
               \/ /\ pc' = "abort"
                  /\ repo' = repo \/ (repo' = Locked /\ CutKind \in Cuttable)
            /\ ctxDone' => ctxDone \/ CutKind \in Cuttable
        BY <2>1, <2>4, <3>3 DEF MergeUpstream, RunOrCut, Cut
      <4>2. /\ job' = IF pc' = "preflight" THEN [job EXCEPT !.todo = repo'.unmerged] ELSE job
            /\ pc' = AfterConflict => pc' = "abort" \/ (pc' = "preflight" /\ job.caller # "retry")
        BY DEF mergeWithDirtyTreeRescue, AfterConflict
      <4>3. CASE /\ repo' = Merge(auto) /\ UNCHANGED store
                 /\ pc' = AfterConflict \/ pc' = "abort"
        BY <1>3, <3>1, <4>1, <4>2, <4>3 DEF Opens
      <4>4. CASE /\ pc' = "abort"
                 /\ repo' = repo \/ (repo' = Locked /\ CutKind \in Cuttable)
        BY <1>1, <4>1, <4>4 DEF OpensNone
      <4>. QED BY <4>1, <4>3, <4>4
    <3>. QED BY <3>2, <3>3
  <2>. QED BY <2>2, <2>3, <2>4
<1>. QED BY <1>2, <1>3

\* git merge: where it stops at conflicts the merge can be aborted, and all of its unmerged
\* files are to do.
LEMMA MergeCalm ==
  ASSUME Undisturbed, Shape, Calm, left'["io"] = 0, mergeWithDirtyTreeRescue
  PROVE  Calm'
<1>1. pc = "merge" /\ repo.tracking \in 1..Len(store) /\ store \in Seq(CommitRecords)
  BY TypeFacts DEF mergeWithDirtyTreeRescue, Shape, TypeOK
<1>2. /\ repo \in Repos(Len(store)) /\ repo.merge = NoCommit /\ job \in Jobs(Len(store))
      /\ Locked.merge = NoCommit
  BY <1>1, CalmFacts DEF Loop
<1>3. ctxDone' => ctxDone \/ CutKind \in Cuttable BY MergeCases
<1>4. CASE OpensNone
  <2>1. /\ repo'.merge = NoCommit
        /\ repo'.lock => repo.lock \/ CutKind \in Cuttable
    <3>1. ASSUME NEW auto PROVE /\ AtNewCommit(store, Merge(auto)).merge = NoCommit
                                /\ AtNewCommit(store, Merge(auto)).lock = repo.lock
      BY <1>2 DEF AtNewCommit, Merge, MergeInto, Repos
    <3>2. /\ FastForward(store, repo, repo.tracking).merge = NoCommit
          /\ FastForward(store, repo, repo.tracking).lock = repo.lock
      BY <1>2 DEF FastForward, Repos
    <3>. QED BY <1>2, <1>4, <3>1, <3>2 DEF OpensNone
  <2>2. PullInv'
    BY <1>1, <1>4 DEF OpensNone, Calm, PullInv, RemotePCs, RescuePCs, PullOwn, Loop
  <2>. QED BY <1>1, <1>3, <1>4, <2>1, <2>2, ClosedStep DEF OpensNone, Steady, WritePlaces, Loop
<1>5. ASSUME NEW auto, Opens(auto) PROVE Calm'
  <2>1. /\ job'.kind = job.kind /\ job'.phase = job.phase /\ job'.caller = job.caller
        /\ pc' = "preflight" => job'.todo = repo'.unmerged /\ job.caller # "retry"
    <3>1. repo'.unmerged \in SUBSET Path
      BY <1>1, <1>2, <1>5, MergeIntoType, RepoUpdates DEF Opens, Merge
    <3>. QED BY <1>2, <1>5, <3>1 DEF Opens, Jobs
  <2>2. ~repo'.lock BY <1>2, <1>5 DEF Opens, Merge, MergeInto, Repos
  <2>3. Abortable(store', repo', {}) BY <1>1, <1>2, <1>5, MergeAbortable DEF Opens, Merge
  <2>4. pc' \in {"preflight", "abort"} BY <1>5 DEF Opens
  <2>5. CalmInv' BY <1>1, <1>3, <2>1, <2>2, SteadyCalm DEF Calm, Steady, WritePlaces
  <2>6. PullInv'
    BY <1>1, <2>1, <2>4 DEF Calm, PullInv, RemotePCs, RescuePCs, PullOwn, Loop
  <2>7. OpenInv' BY <2>2, <2>3, <2>4 DEF OpenInv, Unadded, Loop
  <2>8. PathInv' BY <2>1, <2>4 DEF PathInv, Loop, Begun, ResolverPCs
  <2>. QED BY <2>5, <2>6, <2>7, <2>8 DEF Calm
<1>. QED BY <1>4, <1>5, MergeCases

\* In the pull's own part no command is refused, cut or fails.
LEMMA Undelayed ==
  ASSUME Undisturbed, Shape, Calm, pc \in Loop \cup {"recover"}
  PROVE  /\ PullOwn /\ HasRemote
         /\ ~ctxDone /\ ~repo.lock /\ ~Cut /\ ~Spend("io")
<1>1. PullOwn /\ HasRemote BY DEF Calm, PullInv, RemotePCs
<1>2. ~ctxDone BY <1>1 DEF Calm, CalmInv, PullOwn, PullFlush
<1>3. ~repo.lock BY <1>1 DEF Calm, OpenInv, Loop
<1>4. ~Cut BY <1>1, CutJob DEF Cut, PullOwn, PullFlush
<1>5. ~Spend("io") BY DEF Calm, CalmInv, Spend
<1>. QED BY <1>1, <1>2, <1>3, <1>4, <1>5

\* merge --abort ends the merge, except in the flush of a pull, which may be cut.
LEMMA AbortCalm ==
  ASSUME Undisturbed, Shape, Calm, left'["io"] = 0, AbortMerge
  PROVE  Calm'
<1>1. /\ pc = "abort" /\ job' = job
      /\ pc' = IF job.caller = "retry" THEN "pushFailed" ELSE "failed"
  BY DEF AbortMerge, Command, RunOrCut
<1>2. repo \in Repos(Len(store)) BY DEF Shape, TypeOK
<1>3. PullInv' BY <1>1 DEF Calm, PullInv, RemotePCs, RescuePCs, Loop
<1>4. CASE AbortRefused(store, repo)
  <2>1. repo' = repo /\ ctxDone' = ctxDone BY <1>4 DEF AbortMerge, NoEffect
  <2>2. repo.merge = NoCommit BY <1>1, <1>4 DEF AbortRefused, Abortable, Calm, OpenInv, Unadded
  <2>. QED BY <1>1, <1>3, <2>1, <2>2, ClosedStep DEF Steady, WritePlaces, Loop
<1>5. CASE ~AbortRefused(store, repo)
  <2>1. /\ \/ repo' = MergeAbort(store, repo)
           \/ repo' = repo /\ (ctxDone \/ repo.lock \/ Cut \/ Spend("io"))
           \/ repo' = Locked /\ Cut
        /\ store' = store /\ (ctxDone' => ctxDone \/ CutKind \in Cuttable)
    BY <1>5 DEF AbortMerge, Command, RunOrCut, IoFault, NoEffect, Cut, Locked
  <2>2. CASE repo' = MergeAbort(store, repo)
    <3>1. repo'.merge = NoCommit /\ repo'.lock = repo.lock
      BY <1>2, <2>2 DEF MergeAbort, Repos
    <3>. QED BY <1>1, <1>3, <2>1, <3>1, ClosedStep DEF Steady, WritePlaces, Loop
  <2>3. CASE \/ repo' = repo /\ (ctxDone \/ repo.lock \/ Cut \/ Spend("io"))
             \/ repo' = Locked /\ Cut
    <3>1. repo.merge # NoCommit /\ Abortable(store, repo, {})
      BY <1>1, <1>5 DEF AbortRefused, Calm, OpenInv, Unadded
    <3>2. PullFlush
      <4>1. Cut => PullFlush BY <1>1, CutJob DEF Cut, Calm, CalmInv
      <4>2. ctxDone => PullFlush BY <1>1 DEF Calm, CalmInv
      <4>3. repo.lock => PullFlush BY <1>1, <3>1 DEF Calm, OpenInv
      <4>4. ~Spend("io") BY DEF Calm, CalmInv, Spend
      <4>. QED BY <2>3, <4>1, <4>2, <4>3, <4>4
    <3>3. pc' = "pushFailed"
      BY <1>1, <3>2 DEF Calm, PullInv, PullFlush, PullOwn
    <3>4. Abortable(store', repo', {})
      BY <1>2, <2>1, <2>3, <3>1 DEF Abortable, Unstaged, HeadTree, Locked, Repos
    <3>5. repo'.lock => repo.lock \/ CutKind \in Cuttable BY <2>3 DEF Cut
    <3>6. CalmInv' BY <1>1, <2>1, <3>5, SteadyCalm DEF Calm, Steady, WritePlaces
    <3>7. OpenInv' /\ PathInv'
      BY <1>1, <3>2, <3>3, <3>4 DEF OpenInv, Unadded, PathInv, PullFlush, PullOwn, Loop
    <3>. QED BY <1>3, <3>6, <3>7 DEF Calm
  <2>. QED BY <2>1, <2>2, <2>3
<1>. QED BY <1>4, <1>5

\* The rescue and the fast-forward.
LEMMA RescueCalm ==
  ASSUME Undisturbed, Shape, Calm, left'["io"] = 0,
         createRescueCommit \/ ResetAfterRescue \/ CleanAfterRescue \/ fastForwardOrRescue
  PROVE  Calm'
<1>1. pc \in {"rescueCommit", "rescueReset", "rescueClean", "ff"}
  BY DEF createRescueCommit, ResetAfterRescue, CleanAfterRescue, fastForwardOrRescue
<1>2. /\ repo \in Repos(Len(store)) /\ repo.merge = NoCommit /\ job \in Jobs(Len(store))
      /\ Locked.merge = NoCommit
  BY <1>1, CalmFacts DEF Loop
<1>3. /\ \/ repo' \in {repo, ResetHard(store, repo, ResetTarget), CleanUntracked(repo),
                       FastForward(store, repo, repo.tracking)}
         \/ repo' = Locked /\ CutKind \in Cuttable
      /\ ctxDone' => ctxDone \/ CutKind \in Cuttable
  BY DEF createRescueCommit, ResetAfterRescue, CleanAfterRescue, fastForwardOrRescue, Command,
         RunOrCut, IoFault, NoEffect, Cut, Locked, CleanTree
<1>4. /\ repo'.merge = NoCommit
      /\ repo'.lock => repo.lock \/ CutKind \in Cuttable
  BY <1>2, <1>3 DEF ResetHard, CleanUntracked, FastForward, Repos
<1>5. job'.kind = job.kind /\ job'.phase = job.phase /\ job'.caller = job.caller
  BY <1>2 DEF createRescueCommit, ResetAfterRescue, CleanAfterRescue, fastForwardOrRescue, Jobs
<1>6. /\ pc' \in {"rescueCommit", "rescuePush", "rescueClean", "failed", "abort", "fetch",
                  "merge", "done"}
      /\ pc' = "fetch" => pc = "rescueClean" /\ job.caller = "ff"
  BY DEF createRescueCommit, ResetAfterRescue, CleanAfterRescue, fastForwardOrRescue, Command,
         RunOrCut, RescueFailed
<1>7. PullInv'
  BY <1>1, <1>5, <1>6 DEF Calm, PullInv, RemotePCs, RescuePCs, PullOwn, Loop
<1>. QED BY <1>1, <1>3, <1>4, <1>5, <1>6, <1>7, ClosedStep DEF Steady, WritePlaces, Loop

\* The start of a pull, and its repairs: an open merge is aborted.
LEMMA RepairCalm ==
  ASSUME Undisturbed, Shape, Calm, left'["io"] = 0,
         StartPull \/ cleanupStaleLocksForCycle \/ recoverRepoState
  PROVE  Calm'
<1>1. repo \in Repos(Len(store)) BY DEF Shape, TypeOK
<1>2. CASE StartPull
  <2>1. NoJob \in Jobs(0) BY NoJobType
  <2>2. /\ pc = "idle" /\ pc' = "flush" /\ ~ctxDone' /\ UNCHANGED <<store, repo>>
        /\ job'.kind = "pull" /\ job'.phase = "flush"
    BY <1>2, <2>1 DEF StartPull, Start, Jobs
  <2>3. repo.merge = NoCommit BY <2>2, CalmFacts DEF Loop
  <2>. QED BY <2>2, <2>3, FreshStep DEF PullOwn
<1>3. CASE cleanupStaleLocksForCycle
  <2>1. pc = "locks" /\ pc' = "recover" /\ UNCHANGED <<store, job, ctxDone>>
    BY <1>3 DEF cleanupStaleLocksForCycle
  <2>2. ~ctxDone
    BY <2>1 DEF Calm, CalmInv, PullInv, PullOwn, PullFlush
  <2>3. /\ ~repo'.lock /\ repo'.merge = repo.merge
        /\ Abortable(store, repo, {}) => Abortable(store', repo', {})
    BY <1>1, <1>3, <2>1, <2>2
       DEF cleanupStaleLocksForCycle, Abortable, Unstaged, HeadTree, Repos
  <2>4. CalmInv' BY <2>1, <2>3, SteadyCalm DEF Calm, Steady, WritePlaces
  <2>5. PullInv' BY <2>1 DEF Calm, PullInv, RemotePCs, RescuePCs, PullOwn, Loop
  <2>6. OpenInv' /\ PathInv' BY <2>1, <2>3 DEF Calm, OpenInv, Unadded, PathInv, Loop
  <2>. QED BY <2>4, <2>5, <2>6 DEF Calm
<1>4. CASE recoverRepoState
  <2>1. pc = "recover" /\ job' = job /\ pc' \in {"fetch", "failed"}
    BY <1>4 DEF recoverRepoState, Command, RunOrCut
  <2>2. /\ repo.merge # NoCommit => ~AbortRefused(store, repo)
    BY <2>1 DEF AbortRefused, Abortable, Calm, OpenInv, Unadded
  <2>3. /\ ctxDone' = ctxDone
        /\ \/ repo' = repo /\ repo.merge = NoCommit
           \/ repo' = MergeAbort(store, repo)
    BY <1>4, <2>1, <2>2, Undelayed DEF recoverRepoState, Command, RunOrCut, IoFault, NoEffect
  <2>4. repo'.merge = NoCommit /\ repo'.lock = repo.lock
    BY <1>1, <2>3 DEF MergeAbort, Repos
  <2>5. PullInv' BY <2>1 DEF Calm, PullInv, RemotePCs, RescuePCs, PullOwn, Loop
  <2>. QED BY <2>1, <2>3, <2>4, <2>5, ClosedStep DEF Steady, WritePlaces, Loop
<1>. QED BY <1>2, <1>3, <1>4

\* The end of a job.
LEMMA ReturnCalm ==
  ASSUME Shape, LifeInv, Calm, left'["io"] = 0, Return
  PROVE  Calm'
<1>1. NoJob.kind = "none" BY DEF NoJob
<1>2. /\ pc \in {"done", "failed"} /\ pc' = "idle" /\ ~ctxDone' /\ job' = NoJob
      /\ UNCHANGED <<store, repo>>
  BY DEF Return, Finish, LifeInv
<1>3. repo.merge = NoCommit BY <1>2, CalmFacts DEF Loop
<1>. QED BY <1>1, <1>2, <1>3, FreshStep DEF PullOwn

---------------------------------------------------------------------------
(* The conflict loop *)

\* The loop goes on in the same pull, with the context and the lock as they were.
GoesOn ==
    /\ job'.kind = job.kind /\ job'.phase = job.phase /\ job'.caller = job.caller
    /\ ~ctxDone' /\ ~repo'.lock

\* Crossing a path off the list changes nothing else that matters to the merge.
LEMMA HandledJob ==
  ASSUME Shape, NEW p, NEW r, Handled(p, r)
  PROVE  /\ job'.kind = job.kind /\ job'.phase = job.phase /\ job'.caller = job.caller
         /\ job'.todo = job.todo \ {p} /\ job'.path = job.path
<1>. DEFINE h == job.handled \/ (repo' = r /\ ~ctxDone')
<1>1. job' = [job EXCEPT !.todo = job.todo \ {p}, !.handled = h] BY DEF Handled
<1>. HIDE DEF h
<1>. QED BY <1>1 DEF Shape, TypeOK, Jobs

\* So does naming the quarantine copy.
LEMMA QuarantineJob ==
  ASSUME Shape, NEW p \in Files, StartQuarantine(p)
  PROVE  /\ job'.kind = job.kind /\ job'.phase = job.phase /\ job'.caller = job.caller
         /\ job'.todo = job.todo \ {p} /\ job'.path = p /\ pc' = "qRm"
         /\ job'.dest \in Dests
<1>1. job'.dest \in Dests BY QuarantineDest
<1>2. /\ job'.kind = job.kind /\ job'.phase = job.phase /\ job'.caller = job.caller
      /\ job'.todo = job.todo \ {p} /\ job'.path = p /\ pc' = "qRm"
  BY DEF StartQuarantine, Shape, TypeOK, Jobs
<1>. QED BY <1>1, <1>2

\* What is left to show of a step of the loop.
LEMMA LoopStays ==
  ASSUME Undisturbed, Shape, Calm, LoopStep, pc \in Loop, left'["io"] = 0, GoesOn,
         pc' \in Loop, PathInv',
         Abortable(store, repo', Unadded')
  PROVE  Calm'
<1>1. PullOwn' /\ HasRemote BY Undelayed DEF GoesOn, PullOwn
<1>2. UNCHANGED store BY DEF LoopStep
<1>3. CalmInv' BY <1>1 DEF CalmInv, GoesOn, PullOwn
<1>4. PullInv' BY <1>1 DEF PullInv, PullOwn
<1>5. OpenInv' BY <1>2 DEF OpenInv, Unadded, GoesOn, Loop
<1>. QED BY <1>3, <1>4, <1>5 DEF Calm

\* A path that HEAD deleted is checked out from theirs, to be staged.
ChecksOut(p) ==
    /\ OursDeleted(p) /\ pc' = "stageTheirs"
    /\ repo' = CheckOutSide(repo, p, store[repo.merge].tree[p])
    /\ job' = [job EXCEPT !.todo = @ \ {p}, !.path = p]

\* A quarantine entry that theirs deleted is removed, and is done.
Removes(p) ==
    /\ Quarantined(p) /\ pc' = "resolve" /\ repo' = Rm(repo, p) /\ Handled(p, repo')

Takes(p) == ChecksOut(p) \/ Removes(p)

\* Either way the path is not to do any more.
LEMMA TakesJob ==
  ASSUME Shape, NEW p, Takes(p), p \in Path
  PROVE  /\ job'.kind = job.kind /\ job'.phase = job.phase /\ job'.caller = job.caller
         /\ job'.todo = job.todo \ {p}
         /\ \/ ChecksOut(p) /\ job'.path = p /\ pc' = "stageTheirs"
            \/ Removes(p) /\ pc' = "resolve"
<1>1. CASE ChecksOut(p) BY <1>1 DEF ChecksOut, Shape, TypeOK, Jobs
<1>2. CASE Removes(p) BY <1>2, HandledJob DEF Removes
<1>. QED BY <1>1, <1>2 DEF Takes

\* resolveEachPath, when no command fails.
LEMMA EachPathCases ==
  ASSUME Undisturbed, Shape, Calm, resolveEachPath
  PROVE  /\ pc = "resolve"
         /\ UNCHANGED ctxDone
         /\ \E p \in job.todo :
               \/ ModifyDelete(p) /\ Takes(p)
               \/ /\ UNCHANGED repo /\ ~ModifyDelete(p)
                  /\ \/ p \in Dests /\ StartResolver(p, "skip")
                     \/ p \notin Dests /\ Resolver = "marker" /\ StartResolver(p, "resolverAdd")
                     \/ /\ p \notin Dests /\ \E step \in {"vaultOpen", "yamlOpen"} : StartResolver(p, step)
                     \/ p \notin Dests /\ StartQuarantine(p)
<1>1. /\ pc = "resolve" /\ ~ctxDone /\ ~repo.lock /\ ~Cut /\ ~Spend("io")
  BY Undelayed DEF resolveEachPath, Loop
<1>2. ~IoFault BY <1>1 DEF IoFault
<1>3. PICK p \in job.todo :
          \/ ModifyDelete(p) /\ resolveModifyDelete(p)
          \/ /\ ~ModifyDelete(p) /\ Quarantined(p)
             /\ StartResolver(p, "skip") /\ NoEffect /\ UNCHANGED <<ctxDone, left>>
          \/ ~ModifyDelete(p) /\ ~Quarantined(p) /\ Resolve(p)
  BY DEF resolveEachPath
<1>4. CASE ModifyDelete(p) /\ resolveModifyDelete(p)
  <2>1. CASE OursDeleted(p)
    <3>. DEFINE kept == CheckOutSide(repo, p, store[repo.merge].tree[p])
    <3>1. /\ RunOrCut(repo' = kept /\ UNCHANGED store, "stageTheirs", "resolve")
          /\ job' = [job EXCEPT !.todo = @ \ {p}, !.path = p]
      BY <1>2, <1>4, <2>1 DEF resolveModifyDelete, stageUpstreamVersion
    <3>2. repo' = kept /\ pc' = "stageTheirs" /\ UNCHANGED ctxDone BY <1>1, <3>1 DEF RunOrCut
    <3>3. ChecksOut(p) BY <2>1, <3>1, <3>2 DEF ChecksOut
    <3>. QED BY <1>1, <1>4, <3>2, <3>3 DEF Takes
  <2>2. CASE ~OursDeleted(p)
    <3>1. RunOrCut(repo' = Rm(repo, p) /\ UNCHANGED store, "resolve", "resolve")
          /\ Handled(p, Rm(repo, p)) /\ Quarantined(p)
      BY <1>2, <1>4, <2>2 DEF resolveModifyDelete, acceptUpstreamDeletion, ModifyDelete
    <3>2. repo' = Rm(repo, p) /\ pc' = "resolve" /\ UNCHANGED ctxDone
      BY <1>1, <3>1 DEF RunOrCut
    <3>3. Removes(p) BY <3>1, <3>2 DEF Removes
    <3>. QED BY <1>1, <1>4, <3>2, <3>3 DEF Takes
  <2>. QED BY <2>1, <2>2
<1>5. CASE /\ ~ModifyDelete(p) /\ Quarantined(p)
           /\ StartResolver(p, "skip") /\ NoEffect /\ UNCHANGED <<ctxDone, left>>
  BY <1>1, <1>5 DEF Quarantined, NoEffect
<1>6. CASE ~ModifyDelete(p) /\ ~Quarantined(p) /\ Resolve(p)
  <2>1. UNCHANGED repo /\ UNCHANGED ctxDone
    BY <1>1, <1>6, ResolverConfig DEF ResolverConfig, Resolve, ResolveYaml, ResolveVault, NoEffect
  <2>2. \/ Resolver = "marker" /\ StartResolver(p, "resolverAdd")
        \/ \E step \in {"vaultOpen", "yamlOpen"} : StartResolver(p, step)
        \/ StartQuarantine(p)
    BY <1>1, <1>6, ResolverConfig DEF ResolverConfig, Resolve, ResolveYaml, ResolveVault
  <2>. QED BY <1>1, <1>6, <2>1, <2>2 DEF Quarantined
<1>. QED BY <1>3, <1>4, <1>5, <1>6

\* What the steps of the loop start from.
LEMMA LoopFacts ==
  ASSUME Undisturbed, Shape, Calm, pc \in Loop
  PROVE  /\ Len(store) \in Nat /\ repo \in Repos(Len(store)) /\ job \in Jobs(Len(store))
         /\ job.path \in Path /\ job.dest \in Path /\ job.todo \subseteq Path
         /\ repo.merge # NoCommit /\ repo.merge \in 1..Len(store) /\ repo.head \in 1..Len(store)
         /\ ~ctxDone /\ ~repo.lock
         /\ job.todo \cap Files \subseteq repo.unmerged
         /\ Abortable(store, repo, Unadded)
<1>1. /\ Len(store) \in Nat /\ repo \in Repos(Len(store)) /\ job \in Jobs(Len(store))
      /\ repo.merge # NoCommit
  BY DEF Shape, TypeOK, StepInv
<1>2. /\ job.path \in Path /\ job.dest \in Path /\ job.todo \subseteq Path
      /\ repo.merge \in 1..Len(store) /\ repo.head \in 1..Len(store)
  BY <1>1 DEF Jobs, Repos, NoCommit
<1>. QED BY <1>1, <1>2, Undelayed DEF Calm, PathInv, OpenInv

\* A path starts on its way: to a resolver, to the quarantine, or to be skipped.
LEMMA StartsCalm ==
  ASSUME Undisturbed, Shape, Calm, LoopStep, left'["io"] = 0,
         pc \in Loop \ {"qAdd", "stageTheirs", "stageOurs"},
         UNCHANGED <<repo, ctxDone>>, NEW p \in Path,
         \/ p \in Dests /\ StartResolver(p, "skip")
         \/ /\ p \in Files \cap repo.unmerged
            /\ \/ \E step \in {"vaultOpen", "yamlOpen", "resolverAdd"} : StartResolver(p, step)
               \/ StartQuarantine(p)
  PROVE  Calm'
<1>1. /\ job \in Jobs(Len(store)) /\ ~ctxDone /\ ~repo.lock
      /\ job.todo \cap Files \subseteq repo.unmerged /\ Abortable(store, repo, {})
  BY LoopFacts DEF Unadded
<1>2. Files \cap Dests = {} BY PathConfig DEF PathConfig
<1>3. /\ job'.kind = job.kind /\ job'.phase = job.phase /\ job'.caller = job.caller
      /\ job'.todo = job.todo \ {p} /\ job'.path = p
      /\ \/ p \in Dests /\ pc' = "skip"
         \/ p \in repo.unmerged /\ pc' \in {"vaultOpen", "yamlOpen", "resolverAdd"}
         \/ p \in repo.unmerged /\ pc' = "qRm" /\ job'.dest \in Dests
  <2>1. ASSUME NEW step, StartResolver(p, step)
        PROVE  /\ job'.kind = job.kind /\ job'.phase = job.phase /\ job'.caller = job.caller
               /\ job'.todo = job.todo \ {p} /\ job'.path = p /\ pc' = step
    BY <1>1, <2>1 DEF StartResolver, Jobs
  <2>2. ASSUME StartQuarantine(p), p \in Files
        PROVE  /\ job'.kind = job.kind /\ job'.phase = job.phase /\ job'.caller = job.caller
               /\ job'.todo = job.todo \ {p} /\ job'.path = p /\ pc' = "qRm"
               /\ job'.dest \in Dests
    BY <2>2, QuarantineJob
  <2>. QED BY <2>1, <2>2
<1>4. PathInv' BY <1>1, <1>2, <1>3 DEF PathInv, Begun, ResolverPCs
<1>. QED BY <1>1, <1>3, <1>4, LoopStays DEF GoesOn, Loop, ResolverPCs, Unadded

\* resolveEachPath.
LEMMA EachPathCalm ==
  ASSUME Undisturbed, Shape, Calm, left'["io"] = 0, resolveEachPath
  PROVE  Calm'
<1>1. LoopStep /\ pc \in Loop /\ pc = "resolve" BY LoopSteps, EachPathCases DEF Looping
<1>2. /\ repo \in Repos(Len(store)) /\ job \in Jobs(Len(store)) /\ job.todo \subseteq Path
      /\ ~ctxDone /\ ~repo.lock
      /\ job.todo \cap Files \subseteq repo.unmerged /\ Abortable(store, repo, {})
  BY <1>1, LoopFacts DEF Unadded
<1>3. PICK p \in job.todo :
          \/ ModifyDelete(p) /\ Takes(p)
          \/ /\ UNCHANGED repo /\ ~ModifyDelete(p)
             /\ \/ p \in Dests /\ StartResolver(p, "skip")
                \/ p \notin Dests /\ Resolver = "marker" /\ StartResolver(p, "resolverAdd")
                \/ /\ p \notin Dests /\ \E step \in {"vaultOpen", "yamlOpen"} : StartResolver(p, step)
                \/ p \notin Dests /\ StartQuarantine(p)
  BY EachPathCases
<1>4. UNCHANGED ctxDone BY EachPathCases
<1>5. CASE Takes(p)
  <2>. USE DEF Begun, ResolverPCs
  <2>1. /\ job'.kind = job.kind /\ job'.phase = job.phase /\ job'.caller = job.caller
        /\ job'.todo = job.todo \ {p} /\ pc' \in {"resolve", "stageTheirs"}
        /\ pc' = "stageTheirs" => job'.path = p
    BY <1>2, <1>5, TakesJob
  <2>2. repo'.lock = repo.lock /\ repo.unmerged \ {p} \subseteq repo'.unmerged
    BY <1>2, <1>5 DEF Takes, ChecksOut, Removes, CheckOutSide, Rm, Repos
  <2>3. Abortable(store, repo', Unadded')
    <3>1. p \in Path BY <1>2
    <3>2. CASE ChecksOut(p)
      BY <1>2, <2>1, <3>1, <3>2, AbortableUpdates DEF ChecksOut, Unadded
    <3>3. CASE Removes(p) BY <1>2, <3>1, <3>3, AbortableUpdates DEF Removes, Unadded
    <3>. QED BY <1>5, <3>2, <3>3 DEF Takes
  <2>4. PathInv' BY <1>2, <2>1, <2>2 DEF PathInv
  <2>. QED BY <1>1, <1>2, <1>4, <2>1, <2>2, <2>3, <2>4, LoopStays DEF GoesOn, Loop
<1>6. CASE ~Takes(p)
  <2>1. p \in Path /\ (p \notin Dests => p \in Files \cap repo.unmerged) BY <1>2 DEF Path
  <2>. QED BY <1>1, <1>3, <1>4, <1>6, <2>1, StartsCalm
<1>. QED BY <1>5, <1>6

\* HEAD's side of the path of the job is checked out, to be staged; or nothing happens.
Skips ==
    /\ job' = job
    /\ \/ pc' = "resolve" /\ repo' = repo
       \/ /\ pc' = "stageOurs" /\ ~OursDeleted(job.path)
          /\ repo' = CheckOutSide(repo, job.path, HeadTree(store, repo)[job.path])

\* The other steps of the loop, when no command fails and the disk may only fill up.
LEMMA LoopCases ==
  ASSUME Undisturbed, Shape, Calm
  PROVE  /\ skipQuarantinedPath => pc = "skip" /\ Skips /\ UNCHANGED ctxDone
         /\ ResolverOpen =>
               /\ pc \in {"vaultOpen", "yamlOpen"} /\ pc' = "resolverWrite"
               /\ repo' = [repo EXCEPT !.work[job.path] = Blank] /\ UNCHANGED <<job, ctxDone>>
         /\ ResolverWrite =>
               /\ pc = "resolverWrite" /\ UNCHANGED ctxDone
               /\ \/ /\ repo' = [repo EXCEPT !.work[job.path] = job.blob]
                     /\ pc' = "resolverAdd" /\ UNCHANGED job
                  \/ UNCHANGED repo /\ StartQuarantine(job.path)
         /\ ResolverAdd \/ StageSide =>
               /\ pc \in {"resolverAdd", "stageTheirs", "stageOurs"} /\ pc' = "resolve"
               /\ UNCHANGED ctxDone
               /\ repo' = Add(repo, job.path) /\ Handled(job.path, repo')
         /\ QuarantineRm =>
               /\ pc = "qRm" /\ pc' = "qWrite"
               /\ repo' = Rm(repo, job.path) /\ UNCHANGED <<job, ctxDone>>
         /\ QuarantineWrite =>
               /\ pc = "qWrite" /\ pc' = "qAdd"
               /\ repo' = [repo EXCEPT !.work[job.dest] = job.blob] /\ UNCHANGED <<job, ctxDone>>
         /\ QuarantineAdd =>
               /\ pc = "qAdd" /\ pc' = "qRestore"
               /\ repo' = Add(repo, job.dest) /\ UNCHANGED <<job, ctxDone>>
         /\ QuarantineRestore =>
               /\ pc = "qRestore" /\ pc' \in {"resolve", "restored"}
               /\ repo' = TakeVersion(repo, job.path, HeadTree(store, repo)[job.path])
               /\ UNCHANGED <<job, ctxDone>>
<1>1. pc \in Loop => ~ctxDone /\ ~repo.lock /\ ~Cut /\ ~Spend("io") BY Undelayed
<1>2. pc \in Loop => ~IoFault BY <1>1 DEF IoFault
<1>3. ASSUME NEW kept, NEW ok, NEW err, pc \in Loop,
             RunOrCut(repo' = kept /\ UNCHANGED store, ok, err)
      PROVE  repo' = kept /\ pc' = ok /\ UNCHANGED ctxDone
  BY <1>1, <1>3 DEF RunOrCut
<1>4. ASSUME NEW kept, NEW ok, NEW err, pc \in Loop,
             Command(repo' = kept /\ UNCHANGED store, ok, err)
      PROVE  repo' = kept /\ pc' = ok /\ UNCHANGED ctxDone
  BY <1>2, <1>3, <1>4 DEF Command
<1>. USE DEF Loop, ResolverPCs
<1>5. ASSUME skipQuarantinedPath PROVE pc = "skip" /\ Skips /\ UNCHANGED ctxDone
  <2>1. pc = "skip" /\ job' = job BY <1>5 DEF skipQuarantinedPath
  <2>2. CASE OursDeleted(job.path)
    BY <1>5, <2>1, <2>2 DEF skipQuarantinedPath, Skips, NoEffect
  <2>3. CASE ~OursDeleted(job.path)
    BY <1>4, <1>5, <2>1, <2>3 DEF skipQuarantinedPath, Skips
  <2>. QED BY <2>1, <2>2, <2>3
<1>6. ASSUME ResolverOpen
      PROVE  /\ pc \in {"vaultOpen", "yamlOpen"} /\ pc' = "resolverWrite"
             /\ repo' = [repo EXCEPT !.work[job.path] = Blank] /\ UNCHANGED <<job, ctxDone>>
  BY <1>1, <1>6 DEF ResolverOpen
<1>7. ASSUME ResolverWrite
      PROVE  /\ pc = "resolverWrite" /\ UNCHANGED ctxDone
             /\ \/ /\ repo' = [repo EXCEPT !.work[job.path] = job.blob]
                   /\ pc' = "resolverAdd" /\ UNCHANGED job
                \/ UNCHANGED repo /\ StartQuarantine(job.path)
  BY <1>7 DEF ResolverWrite
<1>8. ASSUME ResolverAdd \/ StageSide
      PROVE  /\ pc \in {"resolverAdd", "stageTheirs", "stageOurs"} /\ pc' = "resolve"
             /\ UNCHANGED ctxDone
             /\ repo' = Add(repo, job.path) /\ Handled(job.path, repo')
  <2>1. /\ pc \in {"resolverAdd", "stageTheirs", "stageOurs"}
        /\ Handled(job.path, Add(repo, job.path))
        /\ RunOrCut(repo' = Add(repo, job.path) /\ UNCHANGED store, "resolve", "resolve")
    BY <1>2, <1>8 DEF ResolverAdd, StageSide
  <2>2. repo' = Add(repo, job.path) /\ pc' = "resolve" /\ UNCHANGED ctxDone BY <1>3, <2>1
  <2>. QED BY <2>1, <2>2
<1>9. ASSUME QuarantineRm
      PROVE  /\ pc = "qRm" /\ pc' = "qWrite"
             /\ repo' = Rm(repo, job.path) /\ UNCHANGED <<job, ctxDone>>
  BY <1>4, <1>9 DEF QuarantineRm
<1>10. ASSUME QuarantineWrite
       PROVE  /\ pc = "qWrite" /\ pc' = "qAdd"
              /\ repo' = [repo EXCEPT !.work[job.dest] = job.blob] /\ UNCHANGED <<job, ctxDone>>
  BY <1>1, <1>10 DEF QuarantineWrite
<1>11. ASSUME QuarantineAdd
       PROVE  /\ pc = "qAdd" /\ pc' = "qRestore"
              /\ repo' = Add(repo, job.dest) /\ UNCHANGED <<job, ctxDone>>
  BY <1>4, <1>11 DEF QuarantineAdd, AfterQuarantineAdd
<1>12. ASSUME QuarantineRestore
       PROVE  /\ pc = "qRestore" /\ pc' \in {"resolve", "restored"}
              /\ repo' = TakeVersion(repo, job.path, HeadTree(store, repo)[job.path])
              /\ UNCHANGED <<job, ctxDone>>
  BY <1>4, <1>12 DEF QuarantineRestore
<1>. QED BY <1>5, <1>6, <1>7, <1>8, <1>9, <1>10, <1>11, <1>12

\* Every step of the loop.
LEMMA LoopCalm ==
  ASSUME Undisturbed, Shape, Calm, left'["io"] = 0, Looping
  PROVE  Calm'
<1>1. LoopStep /\ pc \in Loop BY LoopSteps
<1>2. /\ repo \in Repos(Len(store)) /\ job \in Jobs(Len(store))
      /\ job.path \in Path /\ job.dest \in Path /\ ~ctxDone /\ ~repo.lock
      /\ job.todo \cap Files \subseteq repo.unmerged
      /\ Abortable(store, repo, Unadded)
  BY <1>1, LoopFacts
<1>3. PathInv BY DEF Calm
<1>4. ASSUME job' = job, ~ctxDone', ~repo'.lock, pc' \in Loop, PathInv',
             Abortable(store, repo', Unadded')
      PROVE  Calm'
  BY <1>1, <1>4, LoopStays DEF GoesOn
<1>. USE DEF Loop, ResolverPCs, Begun, Unadded
<1>5. CASE ensureConflictsDir
  <2>1. /\ pc = "preflight" /\ pc' = "resolve" /\ UNCHANGED <<repo, ctxDone>>
        /\ job'.kind = job.kind /\ job'.phase = job.phase /\ job'.caller = job.caller
        /\ job'.todo = job.todo
    BY <1>1, <1>2, <1>5, Undelayed DEF ensureConflictsDir, classifyConflicts, Jobs
  <2>2. PathInv' BY <1>2, <2>1 DEF PathInv
  <2>. QED BY <1>1, <1>2, <2>1, <2>2, LoopStays DEF GoesOn
<1>6. CASE resolveEachPath BY <1>6, EachPathCalm
<1>7. CASE skipQuarantinedPath
  <2>1. pc = "skip" /\ Skips /\ job' = job /\ UNCHANGED ctxDone
    BY <1>7, LoopCases DEF Skips
  <2>2. CASE pc' = "resolve" /\ repo' = repo
    <3>1. PathInv' BY <1>2, <2>1, <2>2 DEF PathInv
    <3>. QED BY <1>2, <1>4, <2>1, <2>2, <3>1
  <2>3. CASE /\ pc' = "stageOurs"
             /\ repo' = CheckOutSide(repo, job.path, HeadTree(store, repo)[job.path])
    <3>1. repo'.lock = repo.lock /\ repo'.unmerged = repo.unmerged
      BY <1>2, <2>3 DEF CheckOutSide, Repos
    <3>2. Abortable(store, repo', {job.path})
      BY <1>2, <2>1, <2>3, AbortableUpdates
    <3>3. PathInv' BY <1>1, <1>2, <1>3, <2>1, <2>3, <3>1 DEF PathInv
    <3>. QED BY <1>2, <1>4, <2>1, <2>3, <3>1, <3>2, <3>3
  <2>. QED BY <2>1, <2>2, <2>3 DEF Skips
<1>8. CASE ResolverOpen \/ ResolverWrite
  <2>1. CASE UNCHANGED repo /\ StartQuarantine(job.path) /\ UNCHANGED ctxDone
    <3>1. pc' = "qRm" BY <2>1 DEF StartQuarantine
    <3>2. pc = "resolverWrite" BY <1>8, <3>1, LoopCases
    <3>3. job.path \in Files BY <3>2 DEF Shape, StepInv
    <3>4. job.path \in repo.unmerged BY <1>3, <3>2 DEF PathInv
    <3>. QED BY <1>1, <1>2, <2>1, <3>2, <3>3, <3>4, StartsCalm
  <2>2. CASE ~(UNCHANGED repo /\ StartQuarantine(job.path) /\ UNCHANGED ctxDone)
    <3>1. /\ pc \in {"vaultOpen", "yamlOpen", "resolverWrite"}
          /\ pc' \in {"resolverWrite", "resolverAdd"} /\ UNCHANGED <<job, ctxDone>>
          /\ \E b : repo' = [repo EXCEPT !.work[job.path] = b]
      BY <1>8, <2>2, LoopCases
    <3>2. repo'.lock = repo.lock /\ repo'.unmerged = repo.unmerged BY <1>2, <3>1 DEF Repos
    <3>3. job.path \in repo.unmerged BY <1>3, <3>1 DEF PathInv
    <3>4. Abortable(store, repo', {})
      <4>1. PICK b : repo' = [repo EXCEPT !.work[job.path] = b] BY <3>1
      <4>2. Abortable(store, repo, {}) BY <1>2, <3>1
      <4>. QED BY <1>2, <3>3, <4>1, <4>2, AbortableUpdates
    <3>5. PathInv' BY <1>3, <3>1, <3>2 DEF PathInv
    <3>. QED BY <1>2, <1>4, <3>1, <3>2, <3>4, <3>5
  <2>. QED BY <2>1, <2>2
<1>9. CASE ResolverAdd \/ StageSide
  <2>1. /\ pc \in {"resolverAdd", "stageTheirs", "stageOurs"} /\ pc' = "resolve"
        /\ UNCHANGED ctxDone
        /\ repo' = Add(repo, job.path) /\ Handled(job.path, repo')
    BY <1>9, LoopCases
  <2>2. /\ job'.kind = job.kind /\ job'.phase = job.phase /\ job'.caller = job.caller
        /\ job'.todo = job.todo \ {job.path}
    BY <2>1, HandledJob
  <2>3. repo'.lock = repo.lock /\ repo'.unmerged = repo.unmerged \ {job.path}
    BY <1>2, <2>1 DEF Add, Repos
  <2>4. Abortable(store, repo', {}) BY <1>2, <2>1, AbortableUpdates
  <2>5. PathInv' BY <1>2, <2>1, <2>2, <2>3 DEF PathInv
  <2>. QED BY <1>1, <1>2, <2>1, <2>2, <2>3, <2>4, <2>5, LoopStays DEF GoesOn
<1>10. CASE QuarantineRm
  <2>1. /\ pc = "qRm" /\ pc' = "qWrite" /\ UNCHANGED <<job, ctxDone>>
        /\ repo' = Rm(repo, job.path)
    BY <1>10, LoopCases
  <2>2. repo'.lock = repo.lock /\ repo'.unmerged = repo.unmerged \ {job.path}
    BY <1>2, <2>1 DEF Rm, Repos
  <2>3. Abortable(store, repo', {}) BY <1>2, <2>1, AbortableUpdates
  <2>4. PathInv' BY <1>2, <1>3, <2>1, <2>2 DEF PathInv
  <2>. QED BY <1>2, <1>4, <2>1, <2>2, <2>3, <2>4
<1>11. CASE QuarantineWrite
  <2>1. /\ pc = "qWrite" /\ pc' = "qAdd" /\ UNCHANGED <<job, ctxDone>>
        /\ repo' = [repo EXCEPT !.work[job.dest] = job.blob]
    BY <1>11, LoopCases
  <2>2. repo'.lock = repo.lock /\ repo'.unmerged = repo.unmerged BY <1>2, <2>1 DEF Repos
  <2>3. Abortable(store, repo', {job.dest}) BY <1>2, <2>1, AbortableUpdates
  <2>4. PathInv' BY <1>3, <2>1, <2>2 DEF PathInv
  <2>. QED BY <1>2, <1>4, <2>1, <2>2, <2>3, <2>4
<1>12. CASE QuarantineAdd
  <2>1. /\ pc = "qAdd" /\ pc' = "qRestore" /\ UNCHANGED <<job, ctxDone>>
        /\ repo' = Add(repo, job.dest)
    BY <1>12, LoopCases
  <2>2. repo'.lock = repo.lock /\ repo'.unmerged = repo.unmerged \ {job.dest}
    BY <1>2, <2>1 DEF Add, Repos
  <2>3. Abortable(store, repo', {}) BY <1>2, <2>1, AbortableUpdates
  <2>4. PathInv' BY <1>3, <2>1, <2>2 DEF PathInv
  <2>. QED BY <1>2, <1>4, <2>1, <2>2, <2>3, <2>4
<1>13. CASE QuarantineRestore
  <2>1. /\ pc = "qRestore" /\ pc' \in {"resolve", "restored"} /\ UNCHANGED <<job, ctxDone>>
        /\ repo' = TakeVersion(repo, job.path, HeadTree(store, repo)[job.path])
    BY <1>13, LoopCases
  <2>2. repo'.lock = repo.lock /\ repo'.unmerged = repo.unmerged \ {job.path}
    BY <1>2, <2>1 DEF TakeVersion, Repos
  <2>3. Abortable(store, repo', {}) BY <1>2, <2>1, AbortableUpdates
  <2>4. PathInv' BY <1>3, <2>1, <2>2 DEF PathInv
  <2>. QED BY <1>2, <1>4, <2>1, <2>2, <2>3, <2>4
<1>14. CASE QuarantineDone
  <2>1. /\ pc = "restored" /\ pc' = "resolve" /\ UNCHANGED <<repo, ctxDone>>
        /\ job'.kind = job.kind /\ job'.phase = job.phase /\ job'.caller = job.caller
        /\ job'.todo = job.todo
    BY <1>2, <1>14 DEF QuarantineDone, Jobs
  <2>2. PathInv' BY <1>2, <2>1 DEF PathInv
  <2>. QED BY <1>1, <1>2, <2>1, <2>2, LoopStays DEF GoesOn
<1>. QED BY <1>5, <1>6, <1>7, <1>8, <1>9, <1>10, <1>11, <1>12, <1>13, <1>14 DEF Looping

---------------------------------------------------------------------------
(* No merge is left open *)

\* The end of the loop: the merge is concluded, or is to be aborted.
LEMMA CommitMergeCalm ==
  ASSUME Undisturbed, Shape, Calm, left'["io"] = 0, commitAndPushMerge
  PROVE  Calm'
<1>1. pc = "resolve" /\ job' = job /\ pc' \in {"push", "abort"}
  BY DEF commitAndPushMerge, Command, RunOrCut
<1>2. /\ repo \in Repos(Len(store)) /\ ~ctxDone /\ ~repo.lock /\ Abortable(store, repo, {})
  BY <1>1, LoopFacts DEF Loop, Unadded
<1>3. /\ UNCHANGED ctxDone
      /\ \/ repo' = AtNewCommit(store, repo) /\ pc' = "push"
         \/ UNCHANGED <<store, repo>> /\ pc' = "abort"
  BY <1>1, Undelayed
     DEF commitAndPushMerge, Command, RunOrCut, IoFault, NoEffect, CommitHead, Loop
<1>4. PullOwn BY <1>1, Undelayed DEF Loop
<1>5. PullInv'
  BY <1>1, <1>4 DEF Calm, PullInv, RemotePCs, RescuePCs, PullOwn, Loop
<1>6. CASE repo' = AtNewCommit(store, repo) /\ pc' = "push"
  <2>1. repo'.merge = NoCommit /\ repo'.lock = repo.lock
    BY <1>2, <1>6 DEF AtNewCommit, Repos
  <2>. QED BY <1>1, <1>3, <1>5, <1>6, <2>1, ClosedStep DEF Steady, WritePlaces, Loop
<1>7. CASE UNCHANGED <<store, repo>> /\ pc' = "abort"
  <2>1. CalmInv' BY <1>1, <1>2, <1>3, <1>7, SteadyCalm DEF Calm, Steady, WritePlaces
  <2>2. OpenInv' /\ PathInv' BY <1>1, <1>2, <1>7 DEF OpenInv, Unadded, PathInv, Loop
  <2>. QED BY <1>5, <2>1, <2>2 DEF Calm
<1>. QED BY <1>3, <1>6, <1>7

\* A commit of another clone changes no commit of the store.
LEMMA OldTrees ==
  ASSUME Shape, NEW p \in Path, UpstreamCommit(p)
  PROVE  /\ UNCHANGED <<repo, pc, job, ctxDone>>
         /\ HeadTree(store', repo) = HeadTree(store, repo)
         /\ repo.merge # NoCommit => store'[repo.merge] = store[repo.merge]
<1>1. /\ Len(store) \in Nat /\ repo.head \in Commits /\ origin.main \in Commits
      /\ repo.merge \in 0..Len(store)
  BY TypeFacts DEF Shape, TypeOK, Repos, Commits
<1>2. StoreGrows
  <2>1. PICK t \in Trees : store' = WithCommit(store, t, {origin.main}) BY UpstreamShape
  <2>. QED BY <1>1, <2>1 DEF StoreGrows
<1>3. UNCHANGED <<repo, pc, job, ctxDone>> BY DEF UpstreamCommit
<1>4. store'[repo.head] = store[repo.head] BY <1>1, <1>2, StoreKept DEF Shape
<1>5. repo.merge # NoCommit => store'[repo.merge] = store[repo.merge]
  BY <1>1, <1>2, StoreKept DEF Shape, Commits, NoCommit
<1>. QED BY <1>3, <1>4, <1>5 DEF HeadTree

\* Other clones, and steps of nobody.
LEMMA ElsewhereCalm ==
  ASSUME Shape, Calm, left'["io"] = 0,
         UNCHANGED vars \/ \E p \in Path : UpstreamCommit(p)
  PROVE  Calm'
<1>1. /\ UNCHANGED <<repo, pc, job, ctxDone>>
      /\ HeadTree(store', repo) = HeadTree(store, repo)
  BY OldTrees DEF vars
<1>2. CalmInv' /\ PullInv' /\ PathInv'
  BY <1>1 DEF Calm, CalmInv, PullInv, PathInv, PullFlush, PullOwn
<1>3. \A S : Abortable(store, repo, S) => Abortable(store', repo', S)
  BY <1>1 DEF Abortable, HeadTree
<1>4. OpenInv' BY <1>1, <1>3 DEF Calm, OpenInv, Unadded, PullFlush, PullOwn
<1>. QED BY <1>2, <1>4 DEF Calm

\* Every step of an undisturbed server.
LEMMA CalmStep ==
  ASSUME Undisturbed, ServerInv, LifeInv, Calm, [Next]_vars
  PROVE  Calm'
<1>1. Shape BY DEF ServerInv
<1>2. left'["io"] = 0 BY DiskWorks DEF Calm, CalmInv
<1>3. CASE WriteNext
  BY <1>1, <1>2, <1>3, ClientCalm, StageCalm, FlushCalm, CommitCalm, PushCalm, MergeCalm,
     AbortCalm, RescueCalm DEF WriteNext
<1>4. CASE PullNext
  BY <1>1, <1>2, <1>4, RepairCalm, PushCalm, RescueCalm, LoopCalm, CommitMergeCalm
     DEF PullNext, Looping
<1>5. CASE Return BY <1>1, <1>2, <1>5, ReturnCalm
<1>6. CASE UNCHANGED vars \/ \E p \in Path : UpstreamCommit(p)
  BY <1>1, <1>2, <1>6, ElsewhereCalm
<1>. QED BY <1>3, <1>4, <1>5, <1>6, LifeStep

\* The server starts between two jobs, with the disk's faults used up.
LEMMA InitCalm == Undisturbed /\ Init => LifeInv /\ Calm
<1>. SUFFICES ASSUME Undisturbed, Init PROVE LifeInv /\ Calm OBVIOUS
<1>1. LifeInv BY InitMark DEF Undisturbed, MarkInv
<1>2. NoJob.kind = "none" BY DEF NoJob
<1>3. Calm
  BY <1>2 DEF Init, Undisturbed, Calm, CalmInv, PullInv, OpenInv, PathInv, PullOwn, RemotePCs,
              RescuePCs, Loop
<1>. QED BY <1>1, <1>3

\* So the invariant holds of every behaviour of such a server.
LEMMA CalmInvariant ==
  ASSUME Undisturbed
  PROVE  Spec => [](ServerInv /\ LifeInv /\ Calm)
<1>1. Init => ServerInv /\ LifeInv /\ Calm BY InitCalm, InitServer
<1>2. (ServerInv /\ LifeInv /\ Calm) /\ [Next]_vars => (ServerInv /\ LifeInv /\ Calm)'
  BY CalmStep, LifeStep, ServerStep
<1>. QED BY <1>1, <1>2, PTL DEF Spec

\* Pull, pushWithRetry: a push or a fetch that fails, a conflict in a push retry, a flush
\* that is cut and its lock leave no merge open between two jobs, with any resolver.
THEOREM MergesEnd ==
  ASSUME Undisturbed
  PROVE  Spec => []NoMergeLeftOpen
<1>1. ServerInv /\ LifeInv /\ Calm => NoMergeLeftOpen
  BY DEF Calm, OpenInv, NoMergeLeftOpen, Loop, ResolverPCs
<1>. QED BY <1>1, CalmInvariant, PTL

---------------------------------------------------------------------------
(* A merge removes no file *)

\* Only q is changed.
OnlyAt(q) ==
    \A f \in Path \ {q} :
        /\ repo'.index[f] = repo.index[f] /\ repo'.work[f] = repo.work[f]
        /\ f \in repo'.unmerged <=> f \in repo.unmerged

\* The commands on one path, and what they make of it.
LEMMA OnePath ==
  ASSUME NEW n, repo \in Repos(n), NEW q \in Path
  PROVE  /\ repo' = Add(repo, q) => OnlyAt(q) /\ repo'.index[q] = repo.work[q]
         /\ repo' = Rm(repo, q) => OnlyAt(q)
         /\ \A b : repo' = TakeVersion(repo, q, b) => OnlyAt(q) /\ repo'.index[q] = b
         /\ \A b : repo' = [repo EXCEPT !.work[q] = b] \/ repo' = CheckOutSide(repo, q, b)
               => /\ OnlyAt(q) /\ repo'.index = repo.index /\ repo'.unmerged = repo.unmerged
                  /\ repo'.work[q] = b
<1>. USE DEF OnlyAt
<1>1. repo.index \in [Path -> Blob] /\ repo.work \in [Path -> Blob] BY DEF Repos, Trees
<1>2. repo' = Add(repo, q) => OnlyAt(q) /\ repo'.index[q] = repo.work[q]
  BY <1>1 DEF Add, Repos
<1>3. repo' = Rm(repo, q) => OnlyAt(q) BY <1>1 DEF Rm, Repos
<1>4. ASSUME NEW b, repo' = TakeVersion(repo, q, b) PROVE OnlyAt(q) /\ repo'.index[q] = b
  BY <1>1, <1>4 DEF TakeVersion, Repos
<1>5. ASSUME NEW b, repo' = [repo EXCEPT !.work[q] = b]
      PROVE  /\ OnlyAt(q) /\ repo'.index = repo.index /\ repo'.unmerged = repo.unmerged
             /\ repo'.work[q] = b
  BY <1>1, <1>5 DEF Repos
<1>. QED BY <1>2, <1>3, <1>4, <1>5 DEF CheckOutSide

\* Where the merge stops at conflicts, a file of both sides is merged or has text of ours
\* in it.
LEMMA OpensKeep ==
  ASSUME Shape, MarkInv, NEW auto, Opens(auto), pc' = "preflight"
  PROVE  KeepInv'
<1>. DEFINE u == repo.tracking
            t == MergedTree(store, repo.head, u, auto)
            open == BothChanged(store, repo.head, u) \ auto
            ours == store[repo.head].tree
            theirs == store[u].tree
<1>1. /\ store \in Seq(CommitRecords) /\ repo \in Repos(Len(store)) /\ job \in Jobs(Len(store))
      /\ repo.head \in 1..Len(store) /\ u \in 1..Len(store) /\ CleanStore(store)
  BY TextFacts DEF MarkInv
<1>2. ours \in [Path -> Blob] /\ theirs \in [Path -> Blob] BY <1>1, TreeOf DEF Trees
<1>3. auto \in SUBSET AutoMergeable(store, repo.head, u) /\ ~TrueMergeRefused(store, repo, u)
  BY DEF Opens
<1>4. repo' = [repo EXCEPT !.merge = u, !.unmerged = open,
                    !.index = [p \in Path |-> IF p \in open THEN Absent ELSE t[p]],
                    !.work = [p \in Path |-> IF p \in Unstaged(repo) THEN repo.work[p] ELSE t[p]]]
  BY DEF Opens, Merge, MergeInto
<1>. SUFFICES ASSUME NEW f \in Files, BothHave(f)' PROVE KeepAt(f)'
  BY DEF KeepInv
<1>5. f \in Path BY DEF Path
<1>6. ours[f] # Absent /\ theirs[f] # Absent /\ Marker \notin ours[f]
  <2>1. store' = store /\ repo'.head = repo.head /\ repo'.merge = u
    BY <1>1, <1>4 DEF Opens, Repos
  <2>2. Marker \notin ours[f] BY <1>1 DEF CleanStore, Clean
  <2>. QED BY <2>1, <2>2 DEF BothHave, HeadTree
<1>7. f \notin open => t[f] # Absent
  <2>1. f \in BothChanged(store, repo.head, u) => ours[f] \subseteq t[f]
    BY <1>5 DEF MergedTree
  <2>2. f \notin BothChanged(store, repo.head, u) => t[f] \in {ours[f], theirs[f]}
    BY <1>5 DEF MergedTree
  <2>. QED BY <1>6, <2>1, <2>2 DEF Absent
<1>8. f \in open => f \notin Unstaged(repo) /\ ours[f] \subseteq t[f]
  <2>. SUFFICES ASSUME f \in open PROVE f \notin Unstaged(repo) /\ ours[f] \subseteq t[f]
    OBVIOUS
  <2>1. ours[f] \subseteq t[f] BY <1>5 DEF MergedTree
  <2>2. f \in AutoMergeable(store, repo.head, u) BY <1>6 DEF AutoMergeable
  <2>3. Marker \in MergedTree(store, repo.head, u, {})[f] BY <1>5, <2>2 DEF MergedTree
  <2>4. f \notin Unstaged(repo) BY <1>3, <1>6, <2>3 DEF TrueMergeRefused, HeadTree
  <2>. QED BY <2>1, <2>4
<1>9. job'.todo = open
  <2>1. repo'.unmerged = open BY <1>1, <1>4 DEF Repos
  <2>2. open \subseteq Path BY DEF BothChanged
  <2>. QED BY <1>1, <2>1, <2>2 DEF Opens, Jobs
<1>. HIDE DEF t, open, ours, theirs
<1>10. /\ repo'.unmerged = open
       /\ f \notin open => repo'.index[f] = t[f]
       /\ f \notin Unstaged(repo) => repo'.work[f] = t[f]
  BY <1>1, <1>4, <1>5 DEF Repos
<1>11. \E v \in ours[f] : v # Marker BY <1>6 DEF Absent
<1>12. f \in open => repo'.work[f] \ {Marker} # {} BY <1>8, <1>10, <1>11
<1>. QED BY <1>7, <1>9, <1>10, <1>12 DEF KeepAt

\* The loop takes no file of both sides out of the merge.
LEMMA LoopKeep ==
  ASSUME Undisturbed, Shape, Calm, KeepInv, Looping
  PROVE  KeepInv'
<1>1. LoopStep /\ pc \in Loop BY LoopSteps
<1>2. /\ repo \in Repos(Len(store)) /\ job \in Jobs(Len(store))
      /\ job.path \in Path /\ job.dest \in Path /\ job.todo \subseteq Path
  BY <1>1, LoopFacts
<1>. SUFFICES ASSUME NEW f \in Files, BothHave(f)' PROVE KeepAt(f)'
  BY DEF KeepInv
<1>3. BothHave(f) /\ KeepAt(f)
  BY <1>1 DEF LoopStep, SameRefs, BothHave, HeadTree, KeepInv
<1>4. f \in Path /\ f \notin Dests BY PathConfig DEF PathConfig, Path
<1>5. PathInv BY DEF Calm
<1>. USE DEF Begun, ResolverPCs
<1>6. ASSUME UNCHANGED repo, job'.todo = job.todo, pc' \in {"resolve"},
             pc \in {"preflight", "restored"}
      PROVE  KeepAt(f)'
  BY <1>3, <1>6 DEF KeepAt
<1>7. CASE ensureConflictsDir
  <2>1. job'.todo = job.todo
    BY <1>1, <1>2, <1>7, Undelayed DEF ensureConflictsDir, classifyConflicts, Jobs
  <2>2. pc = "preflight" /\ pc' = "resolve" /\ UNCHANGED repo
    BY <1>1, <1>7, Undelayed DEF ensureConflictsDir
  <2>. QED BY <1>6, <2>1, <2>2
<1>8. CASE QuarantineDone
  <2>1. job'.todo = job.todo BY <1>2, <1>8 DEF QuarantineDone, Jobs
  <2>2. pc = "restored" /\ pc' = "resolve" /\ UNCHANGED repo BY <1>8 DEF QuarantineDone
  <2>. QED BY <1>6, <2>1, <2>2
<1>9. CASE resolveEachPath
  <2>1. pc = "resolve" BY <1>9, EachPathCases
  <2>2. PICK p \in job.todo :
            \/ ModifyDelete(p) /\ Takes(p)
            \/ /\ UNCHANGED repo /\ ~ModifyDelete(p)
               /\ \/ p \in Dests /\ StartResolver(p, "skip")
                  \/ p \notin Dests /\ Resolver = "marker" /\ StartResolver(p, "resolverAdd")
                  \/ /\ p \notin Dests /\ \E step \in {"vaultOpen", "yamlOpen"} : StartResolver(p, step)
                  \/ p \notin Dests /\ StartQuarantine(p)
    BY <1>9, EachPathCases
  <2>3. p \in Path BY <1>2
  <2>4. CASE ModifyDelete(p) /\ Takes(p)
    <3>1. f # p BY <1>3, <2>4 DEF ModifyDelete, OursDeleted, TheirsDeleted, BothHave
    <3>2. /\ job'.todo = job.todo \ {p} /\ pc' \in {"resolve", "stageTheirs"}
          /\ pc' = "stageTheirs" => job'.path = p
      BY <2>3, <2>4, TakesJob
    <3>3. OnlyAt(p) BY <1>2, <2>3, <2>4, OnePath DEF Takes, ChecksOut, Removes
    <3>. QED BY <1>3, <1>4, <2>1, <3>1, <3>2, <3>3 DEF KeepAt, OnlyAt
  <2>5. ASSUME NEW step, StartResolver(p, step), UNCHANGED repo,
               step \in {"skip", "vaultOpen", "yamlOpen", "resolverAdd"}
        PROVE  KeepAt(f)'
    <3>1. /\ job'.todo = job.todo \ {p} /\ job'.path = p /\ pc' = step
          /\ job'.blob = repo.work[p] \ {Marker}
      BY <1>2, <2>5 DEF StartResolver, Merged, Jobs
    <3>2. f = p => job'.blob # Absent /\ repo.work[f] # Absent
      BY <1>3, <2>2, <3>1 DEF KeepAt, Absent
    <3>. QED BY <1>3, <2>1, <2>5, <3>1, <3>2 DEF KeepAt
  <2>6. CASE UNCHANGED repo /\ StartQuarantine(p) /\ p \notin Dests
    <3>1. job'.todo = job.todo \ {p} /\ pc' = "qRm"
      BY <2>3, <2>6, QuarantineJob DEF Path
    <3>. QED BY <1>3, <2>1, <2>6, <3>1 DEF KeepAt
  <2>. QED BY <2>2, <2>4, <2>5, <2>6
<1>10. CASE skipQuarantinedPath
  <2>1. pc = "skip" /\ Skips /\ job' = job BY <1>10, LoopCases DEF Skips
  <2>2. job.path \notin job.todo BY <1>1, <1>5, <2>1 DEF PathInv
  <2>3. CASE pc' = "resolve" /\ repo' = repo BY <1>3, <2>1, <2>3 DEF KeepAt
  <2>4. CASE /\ pc' = "stageOurs"
             /\ repo' = CheckOutSide(repo, job.path, HeadTree(store, repo)[job.path])
    <3>1. /\ OnlyAt(job.path) /\ repo'.index = repo.index /\ repo'.unmerged = repo.unmerged
          /\ repo'.work[job.path] = HeadTree(store, repo)[job.path]
      BY <1>2, <2>4, OnePath
    <3>. QED BY <1>3, <1>4, <2>1, <2>2, <2>4, <3>1 DEF KeepAt, OnlyAt, BothHave
  <2>. QED BY <2>1, <2>3, <2>4 DEF Skips
<1>11. CASE ResolverOpen
  <2>1. /\ pc \in {"vaultOpen", "yamlOpen"} /\ pc' = "resolverWrite"
        /\ repo' = [repo EXCEPT !.work[job.path] = Blank] /\ job' = job
    BY <1>11, LoopCases
  <2>2. /\ OnlyAt(job.path) /\ repo'.index = repo.index /\ repo'.unmerged = repo.unmerged
    BY <1>2, <2>1, OnePath
  <2>3. job.path \notin job.todo BY <1>1, <1>5, <2>1 DEF PathInv
  <2>. QED BY <1>3, <1>4, <2>1, <2>2, <2>3 DEF KeepAt, OnlyAt
<1>12. CASE ResolverWrite
  <2>1. pc = "resolverWrite" BY <1>12, LoopCases
  <2>2. job.path \notin job.todo /\ job.path \in Files
    BY <1>1, <1>5, <2>1 DEF PathInv, Shape, StepInv
  <2>3. CASE /\ repo' = [repo EXCEPT !.work[job.path] = job.blob]
             /\ pc' = "resolverAdd" /\ UNCHANGED job
    <3>1. /\ OnlyAt(job.path) /\ repo'.index = repo.index /\ repo'.unmerged = repo.unmerged
          /\ repo'.work[job.path] = job.blob
      BY <1>2, <2>3, OnePath
    <3>. QED BY <1>3, <1>4, <2>1, <2>2, <2>3, <3>1 DEF KeepAt, OnlyAt
  <2>4. CASE UNCHANGED repo /\ StartQuarantine(job.path)
    <3>1. job'.todo = job.todo \ {job.path} /\ pc' = "qRm" BY <2>2, <2>4, QuarantineJob
    <3>. QED BY <1>3, <2>1, <2>4, <3>1 DEF KeepAt
  <2>. QED BY <1>12, <2>3, <2>4, LoopCases
<1>13. CASE ResolverAdd \/ StageSide
  <2>1. /\ pc \in {"resolverAdd", "stageTheirs", "stageOurs"} /\ pc' = "resolve"
        /\ repo' = Add(repo, job.path) /\ Handled(job.path, repo')
    BY <1>13, LoopCases
  <2>2. OnlyAt(job.path) /\ repo'.index[job.path] = repo.work[job.path]
    BY <1>2, <2>1, OnePath
  <2>3. job'.todo = job.todo \ {job.path} BY <2>1, HandledJob
  <2>. QED BY <1>3, <1>4, <2>1, <2>2, <2>3 DEF KeepAt, OnlyAt
<1>14. CASE QuarantineRm
  <2>1. /\ pc = "qRm" /\ pc' = "qWrite"
        /\ repo' = Rm(repo, job.path) /\ job' = job
    BY <1>14, LoopCases
  <2>2. OnlyAt(job.path) BY <1>2, <2>1, OnePath
  <2>3. job.path \notin job.todo BY <1>1, <1>5, <2>1 DEF PathInv
  <2>. QED BY <1>3, <1>4, <2>1, <2>2, <2>3 DEF KeepAt, OnlyAt
<1>15. CASE QuarantineWrite
  <2>1. /\ pc = "qWrite" /\ pc' = "qAdd"
        /\ repo' = [repo EXCEPT !.work[job.dest] = job.blob] /\ job' = job
    BY <1>15, LoopCases
  <2>2. OnlyAt(job.dest) BY <1>2, <2>1, OnePath
  <2>3. f # job.dest BY <1>1, <1>5, <2>1 DEF PathInv
  <2>. QED BY <1>3, <1>4, <2>1, <2>2, <2>3 DEF KeepAt, OnlyAt
<1>16. CASE QuarantineAdd
  <2>1. /\ pc = "qAdd" /\ pc' = "qRestore"
        /\ repo' = Add(repo, job.dest) /\ job' = job
    BY <1>16, LoopCases
  <2>2. OnlyAt(job.dest) BY <1>2, <2>1, OnePath
  <2>3. f # job.dest BY <1>1, <1>5, <2>1 DEF PathInv
  <2>. QED BY <1>3, <1>4, <2>1, <2>2, <2>3 DEF KeepAt, OnlyAt
<1>17. CASE QuarantineRestore
  <2>1. /\ pc = "qRestore" /\ pc' \in {"resolve", "restored"}
        /\ repo' = TakeVersion(repo, job.path, HeadTree(store, repo)[job.path]) /\ job' = job
    BY <1>17, LoopCases
  <2>2. /\ OnlyAt(job.path)
        /\ repo'.index[job.path] = HeadTree(store, repo)[job.path]
    BY <1>2, <2>1, OnePath
  <2>3. job.path \notin job.todo BY <1>1, <1>5, <2>1 DEF PathInv
  <2>. QED BY <1>3, <1>4, <2>1, <2>2, <2>3 DEF KeepAt, OnlyAt, BothHave
<1>. QED BY <1>7, <1>8, <1>9, <1>10, <1>11, <1>12, <1>13, <1>14, <1>15, <1>16, <1>17
         DEF Looping

\* The loop is entered by a merge that stops at conflicts, and by nothing else.
LEMMA EntersLoop ==
  ASSUME ServerInv, LifeInv, [Next]_vars, pc' \in Loop
  PROVE  \/ Looping
         \/ pc' = "preflight" /\ \E auto : Opens(auto)
         \/ UNCHANGED vars \/ \E p \in Path : UpstreamCommit(p)
<1>. USE DEF Loop, ResolverPCs
<1>1. CASE WriteNext
  <2>1. CASE \E p \in ClientPaths : WriteFile(p) \/ WriteFileIfAbsent(p) \/ DeleteFile(p)
    <3>1. PICK p : WriteFile(p) \/ WriteFileIfAbsent(p) \/ DeleteFile(p) BY <2>1
    <3>2. \A v : writeFileLocked(p, v) => pc' \in {pc, "open"} BY DEF writeFileLocked
    <3>3. pc' \in {"idle", "open", "flush"}
      BY <3>1, <3>2 DEF WriteFile, WriteFileIfAbsent, DeleteFile, Start
    <3>. QED BY <3>3
  <2>2. CASE \/ FlushPendingIfDue \/ TruncateFile \/ WriteContent \/ StageWrite
             \/ enqueuePendingLocked \/ StatForDelete \/ RemoveForDelete
    BY <2>2 DEF FlushPendingIfDue, TruncateFile, WriteContent, OnDisk, StageWrite, Start, Finish,
                enqueuePendingLocked, StatForDelete, RemoveForDelete, Command, RunOrCut
  <2>3. CASE flushPendingLocked \/ CommitFailed \/ Pushed \/ retainCommitAfterFailedPushLocked
    <3>1. \A ok : FlushReturns(ok) => pc' \in {"locks", "done", "stat", "failed"}
      BY DEF FlushReturns
    <3>. QED BY <2>3, <3>1 DEF flushPendingLocked, CommitFailed, Pushed,
                               retainCommitAfterFailedPushLocked
  <2>4. CASE CommitStaged
    BY <2>4 DEF CommitStaged, Command, RunOrCut, AfterCommit, AfterNothing
  <2>5. CASE pushWithRetry \/ RetryFetch
    BY <2>5 DEF pushWithRetry, RetryFetch, RemoteCommand, AfterRejection
  <2>6. CASE mergeWithDirtyTreeRescue BY <2>6, MergeCases DEF OpensNone, Opens
  <2>7. CASE AbortMerge BY <2>7 DEF AbortMerge, Command, RunOrCut
  <2>8. CASE createRescueCommit \/ PushRescue \/ ResetAfterRescue \/ CleanAfterRescue
    BY <2>8 DEF createRescueCommit, PushRescue, ResetAfterRescue, CleanAfterRescue, Command,
                RunOrCut, RemoteCommand, RescueFailed
  <2>. QED BY <1>1, <2>1, <2>2, <2>3, <2>4, <2>5, <2>6, <2>7, <2>8 DEF WriteNext
<1>2. CASE PullNext
  <2>1. CASE StartPull \/ cleanupStaleLocksForCycle \/ recoverRepoState
    BY <2>1 DEF StartPull, Start, cleanupStaleLocksForCycle, recoverRepoState, Command, RunOrCut
  <2>2. CASE syncWithUpstream \/ fastForwardOrRescue \/ commitAndPushMerge
    BY <2>2 DEF syncWithUpstream, RemoteCommand, SyncCase, fastForwardOrRescue,
                commitAndPushMerge, Command, RunOrCut
  <2>. QED BY <1>2, <2>1, <2>2 DEF PullNext, Looping
<1>3. CASE Return BY <1>3 DEF Return, Finish
<1>. QED BY <1>1, <1>2, <1>3, LifeStep

\* Every step of an undisturbed server, with a resolver that leaves no markers.
LEMMA KeepStep ==
  ASSUME Undisturbed, ServerInv, MarkInv, Calm, KeepInv, [Next]_vars
  PROVE  KeepInv'
<1>1. Shape /\ LifeInv BY DEF ServerInv, MarkInv
<1>. SUFFICES ASSUME pc' \in Loop PROVE KeepInv' BY DEF KeepInv
<1>2. CASE Looping BY <1>1, <1>2, LoopKeep
<1>3. CASE pc' = "preflight" /\ \E auto : Opens(auto) BY <1>1, <1>3, OpensKeep
<1>4. CASE UNCHANGED vars \/ \E p \in Path : UpstreamCommit(p)
  <2>1. /\ UNCHANGED <<repo, pc, job>>
        /\ HeadTree(store', repo) = HeadTree(store, repo)
        /\ repo.merge # NoCommit => store'[repo.merge] = store[repo.merge]
    BY <1>1, <1>4, OldTrees DEF vars
  <2>2. repo.merge # NoCommit BY <1>1, <2>1 DEF Shape, StepInv
  <2>3. \A f \in Files : BothHave(f)' => BothHave(f) BY <2>1, <2>2 DEF BothHave
  <2>4. \A f \in Files : KeepAt(f) => KeepAt(f)' BY <2>1 DEF KeepAt
  <2>. QED BY <2>1, <2>3, <2>4 DEF KeepInv
<1>. QED BY <1>1, <1>2, <1>3, <1>4, EntersLoop

\* While a merge is open, only its own commit moves HEAD.
LEMMA OnlyCommitConcludes ==
  ASSUME ServerInv, LifeInv, Calm, [Next]_vars, repo.merge # NoCommit, repo'.head # repo.head
  PROVE  commitAndPushMerge
<1>1. /\ Shape /\ repo \in Repos(Len(store)) BY DEF ServerInv, Shape, TypeOK
<1>2. pc \in Loop \cup {"abort", "locks", "recover", "pushFailed"} BY DEF Calm, OpenInv
<1>3. CASE WriteNext
  <2>. USE <1>2 DEF Loop, ResolverPCs
  <2>1. CASE \E p \in ClientPaths : WriteFile(p) \/ WriteFileIfAbsent(p) \/ DeleteFile(p)
    <3>1. PICK p : WriteFile(p) \/ WriteFileIfAbsent(p) \/ DeleteFile(p) BY <2>1
    <3>2. pc = "idle" BY <3>1 DEF WriteFile, WriteFileIfAbsent, DeleteFile, Start
    <3>. QED BY <3>2
  <2>2. CASE \/ FlushPendingIfDue \/ TruncateFile \/ WriteContent \/ StageWrite
             \/ enqueuePendingLocked \/ StatForDelete \/ RemoveForDelete
    BY <2>2 DEF FlushPendingIfDue, TruncateFile, WriteContent, StageWrite, Start,
                enqueuePendingLocked, StatForDelete, RemoveForDelete
  <2>3. CASE flushPendingLocked \/ CommitFailed \/ Pushed \/ retainCommitAfterFailedPushLocked
    BY <2>3 DEF flushPendingLocked, CommitFailed, Pushed, retainCommitAfterFailedPushLocked
  <2>4. CASE \/ CommitStaged \/ pushWithRetry \/ RetryFetch \/ mergeWithDirtyTreeRescue
             \/ createRescueCommit \/ PushRescue \/ ResetAfterRescue \/ CleanAfterRescue
    BY <2>4 DEF CommitStaged, pushWithRetry, RetryFetch, mergeWithDirtyTreeRescue,
                createRescueCommit, PushRescue, ResetAfterRescue, CleanAfterRescue
  <2>5. CASE AbortMerge
    <3>1. repo' \in {repo, MergeAbort(store, repo), Locked}
      BY <2>5 DEF AbortMerge, Command, RunOrCut, IoFault, NoEffect, Locked
    <3>. QED BY <1>1, <3>1 DEF MergeAbort, Locked, Repos
  <2>. QED BY <1>3, <2>1, <2>2, <2>3, <2>4, <2>5 DEF WriteNext
<1>4. CASE PullNext
  <2>1. CASE StartPull \/ syncWithUpstream \/ fastForwardOrRescue
    BY <1>2, <2>1 DEF StartPull, Start, syncWithUpstream, fastForwardOrRescue, Loop, ResolverPCs
  <2>2. CASE cleanupStaleLocksForCycle
    BY <1>1, <2>2 DEF cleanupStaleLocksForCycle, Repos
  <2>3. CASE recoverRepoState
    <3>1. repo' \in {repo, MergeAbort(store, repo), Locked}
      BY <2>3 DEF recoverRepoState, Command, RunOrCut, IoFault, NoEffect, Locked
    <3>. QED BY <1>1, <3>1 DEF MergeAbort, Locked, Repos
  <2>4. CASE Looping BY <1>1, <2>4, LoopSteps DEF LoopStep, SameRefs
  <2>. QED BY <1>4, <2>1, <2>2, <2>3, <2>4 DEF PullNext, Looping
<1>5. CASE Return BY <1>5 DEF Return
<1>6. CASE UNCHANGED vars \/ \E p \in Path : UpstreamCommit(p)
  BY <1>6 DEF vars, UpstreamCommit
<1>. QED BY <1>3, <1>4, <1>5, <1>6, LifeStep

\* resolveConflictMerge, quarantineOne: concluding a merge whose resolution is not
\* interrupted removes no file that both sides have, whoever else writes, deletes and pushes.
THEOREM MergesKeepFiles ==
  ASSUME Undisturbed, Resolver # "marker"
  PROVE  Spec => MergeKeepsFiles
<1>. DEFINE Inv == ServerInv /\ MarkInv /\ Calm /\ KeepInv
<1>1. Init => Inv
  <2>1. Init => KeepInv BY DEF Init, KeepInv, Loop, ResolverPCs
  <2>. QED BY <2>1, InitCalm, InitServer, InitMark DEF Undisturbed
<1>2. Inv /\ [Next]_vars => Inv'
  BY ServerStep, MarkStep, CalmStep, KeepStep DEF MarkInv
<1>3. ASSUME Inv, [Next]_vars, ConcludesMerge,
             NEW f \in Files, HeadTree(store, repo)[f] # Absent,
             store[repo.merge].tree[f] # Absent
      PROVE  store'[repo'.head].tree[f] # Absent
  <2>1. /\ Shape /\ LifeInv /\ Len(store) \in Nat /\ repo.head \in 1..Len(store)
        /\ store \in Seq(CommitRecords)
    BY <1>3, TypeFacts DEF ServerInv, MarkInv, Shape, TypeOK
  <2>2. commitAndPushMerge
    BY <1>3, <2>1, OnlyCommitConcludes DEF ConcludesMerge
  <2>3. pc = "resolve" /\ CanCommit(store, repo)
        /\ store' = WithCommit(store, repo.index, Parents(repo))
    BY <1>3, <2>1, <2>2 DEF commitAndPushMerge, Command, RunOrCut, IoFault, NoEffect, CommitHead,
                            ConcludesMerge
  <2>4. repo.index[f] # Absent
    BY <1>3, <2>3 DEF KeepInv, KeepAt, BothHave, CanCommit, Loop
  <2>5. repo'.head = Len(store) + 1 BY <1>3 DEF ConcludesMerge
  <2>6. store'[repo'.head].tree = repo.index BY <2>1, <2>3, <2>5 DEF WithCommit
  <2>. QED BY <2>4, <2>6
<1>4. Inv /\ [Next]_vars =>
        [ConcludesMerge =>
            \A f \in Files : (/\ HeadTree(store, repo)[f] # Absent
                              /\ store[repo.merge].tree[f] # Absent)
                             => store'[repo'.head].tree[f] # Absent]_vars
  BY <1>3
<1>. QED BY <1>1, <1>2, <1>4, PTL DEF Spec, MergeKeepsFiles

---------------------------------------------------------------------------
(* A merge keeps both sides of a conflict *)

\* The files of the open merge that both sides changed.
InConflict == BothChanged(store, repo.head, repo.merge)

\* What the two sides have in f.
Sides(f) == HeadTree(store, repo)[f] \cup store[repo.merge].tree[f]

\* The quarantine copies of f, but for those that are in conflict themselves.
Copies(f) == {q \in {f} \X Stamps : q \notin InConflict}

\* No quarantine takes the path of a copy of the same file and second that is in conflict
\* itself.
FreshCopy == pc = "qRm" => job.dest \notin InConflict

\* b has both sides of f, or theirs is a deletion, and HEAD's version comes back.
KeepsSides(f, b) == Sides(f) \subseteq b \/ TheirsDeleted(f)

\* Both sides of f are staged, in f and in its copies.
Landed(f) == Sides(f) \subseteq repo.index[f] \cup UNION {repo.index[q] : q \in Copies(f)}

\* In the loop a file in conflict is unmerged, or landed, or in the middle of its quarantine.
\* Its sides are on disk until the loop takes it up, then in what is written next.
SidesAt(f) ==
    /\ f \in repo.unmerged \/ Landed(f) \/ (pc \in {"qWrite", "qAdd", "qRestore"} /\ job.path = f)
    /\ f \in job.todo =>
          /\ KeepsSides(f, repo.work[f])
          /\ TheirsDeleted(f) => Marker \notin repo.work[f]
    /\ job.path = f =>
          /\ pc \in {"vaultOpen", "yamlOpen", "resolverWrite"} => Sides(f) \subseteq job.blob
          /\ pc \in {"resolverAdd", "stageTheirs"} => Sides(f) \subseteq repo.work[f]
          /\ pc \in {"qRm", "qWrite"} => KeepsSides(f, job.blob)
          /\ pc = "qAdd" => KeepsSides(f, repo.work[job.dest])
          /\ pc = "qRestore" => KeepsSides(f, repo.index[job.dest])

\* The loop touches files in conflict, and the copy of the one it has taken up.
TouchInv ==
    /\ job.todo \subseteq InConflict
    /\ pc \in Begun \cup {"skip"} => job.path \in InConflict
    /\ pc \in {"skip", "stageOurs"} => job.path \in Dests
    /\ pc \in {"qRm", "qWrite", "qAdd", "qRestore"} => job.dest \in {job.path} \X Stamps
    /\ pc \in {"qWrite", "qAdd", "qRestore"} => job.dest \notin InConflict

SideInv == pc \in Loop => TouchInv /\ \A f \in Files \cap InConflict : SidesAt(f)

\* No disk fills up.
LEMMA NeverFull ==
  ASSUME ServerInv, LifeInv, left["full"] = 0, [Next]_vars
  PROVE  left'["full"] = 0
<1>1. Shape /\ left \in [Events -> Nat] BY DEF ServerInv, Shape, TypeOK
<1>2. StillServing => left'["full"] = 0 BY <1>1 DEF StillServing, Spend, Events
<1>3. CASE WriteNext BY <1>1, <1>2, <1>3, WriteServing
<1>4. CASE PullNext BY <1>1, <1>2, <1>4, PullServing
<1>5. CASE Return \/ UNCHANGED vars BY <1>5 DEF Return, vars
<1>6. CASE \E p \in Path : UpstreamCommit(p)
  BY <1>1, <1>6 DEF UpstreamCommit, Spend, Events
<1>. QED BY <1>3, <1>4, <1>5, <1>6, LifeStep

\* Which merge is open, what is in conflict and its sides stay as they are.
SameMerge ==
    /\ InConflict' = InConflict
    /\ \A f \in Path : /\ Sides(f)' = Sides(f) /\ Copies(f)' = Copies(f)
                       /\ TheirsDeleted(f)' <=> TheirsDeleted(f)
                       /\ HeadTree(store', repo')[f] = HeadTree(store, repo)[f]

\* In the loop they do.
LEMMA LoopMerge ==
  ASSUME Shape, LoopStep
  PROVE  SameMerge
BY DEF LoopStep, SameRefs, SameMerge, InConflict, Sides, Copies, TheirsDeleted, HeadTree

\* A file stays landed while it and its copies are as they were.
LEMMA LandedKept ==
  ASSUME SameMerge, NEW f \in Path, Landed(f),
         \A q \in {f} \cup Copies(f) : repo'.index[q] = repo.index[q]
  PROVE  Landed(f)'
<1>1. Sides(f)' = Sides(f) /\ Copies(f)' = Copies(f) BY DEF SameMerge
<1>2. UNION {repo'.index[q] : q \in Copies(f)} = UNION {repo.index[q] : q \in Copies(f)}
  OBVIOUS
<1>. QED BY <1>1, <1>2 DEF Landed

\* So does every file when another one that is in conflict is changed, or a copy of one.
LEMMA LandedElsewhere ==
  ASSUME SameMerge, NEW f \in Files, Landed(f), NEW p, OnlyAt(p), p # f,
         p \in InConflict \/ \E g \in Files \ {f} : p \in {g} \X Stamps
  PROVE  Landed(f)'
<1>1. f \in Path /\ Copies(f) \subseteq Path BY DEF Path, Dests, Copies
<1>2. p \notin Copies(f) BY DEF Copies
<1>. QED BY <1>1, <1>2, LandedKept DEF OnlyAt

\* A resolver is asked only for a file with regions, or that theirs still has.
LEMMA RegionsOnly ==
  ASSUME Undisturbed, Shape, Calm, Resolver # "marker", resolveEachPath, UNCHANGED repo,
         NEW p \in job.todo, NEW step \in {"vaultOpen", "yamlOpen"}, StartResolver(p, step)
  PROVE  TheirsDeleted(p) => Marker \in repo.work[p]
<1>1. pc = "resolve" /\ ~Cut /\ ~Spend("io") BY Undelayed DEF resolveEachPath, Loop
<1>2. ~IoFault BY <1>1 DEF IoFault
<1>3. job'.path = p /\ pc' = step /\ pc' \notin {"resolve", "stageTheirs"} /\ job' # job
  <2>1. job \in Jobs(Len(store)) BY DEF Shape, TypeOK
  <2>2. job'.path = p /\ job'.todo = job.todo \ {p} BY <2>1 DEF StartResolver, Jobs
  <2>. QED BY <2>2 DEF StartResolver
<1>4. PICK q \in job.todo : Resolve(q)
  <2>1. PICK q \in job.todo :
            \/ ModifyDelete(q) /\ resolveModifyDelete(q)
            \/ /\ ~ModifyDelete(q) /\ Quarantined(q)
               /\ StartResolver(q, "skip") /\ NoEffect /\ UNCHANGED <<ctxDone, left>>
            \/ ~ModifyDelete(q) /\ ~Quarantined(q) /\ Resolve(q)
    BY DEF resolveEachPath
  <2>2. ~resolveModifyDelete(q)
    BY <1>1, <1>2, <1>3
       DEF resolveModifyDelete, stageUpstreamVersion, acceptUpstreamDeletion, RunOrCut
  <2>3. ~StartResolver(q, "skip") BY <1>3 DEF StartResolver
  <2>. QED BY <2>1, <2>2, <2>3
<1>5. \/ Marker \in repo.work[q] /\ StartResolver(q, "yamlOpen")
      \/ ThreeSides(q) /\ StartResolver(q, "vaultOpen")
  <2>1. pc' \notin {"qRm", "resolve"} BY <1>3
  <2>2. ~StartQuarantine(q)
    <3>1. StartQuarantine(q) => pc' = "qRm" BY Zenon DEF StartQuarantine
    <3>. QED BY <2>1, <3>1
  <2>3. ResolveYaml(q) => Marker \in repo.work[q] /\ StartResolver(q, "yamlOpen")
    BY <2>2 DEF ResolveYaml
  <2>4. ResolveVault(q) => \/ ThreeSides(q) /\ StartResolver(q, "vaultOpen")
                           \/ ResolveYaml(q)
    BY <1>1 DEF ResolveVault
  <2>5. ResolveYaml(q) \/ ResolveVault(q)
    BY <1>4, ResolverConfig DEF ResolverConfig, Resolve
  <2>. QED BY <2>3, <2>4, <2>5
<1>6. q = p
  <2>1. job \in Jobs(Len(store)) BY DEF Shape, TypeOK
  <2>2. job'.path = q BY <1>5, <2>1 DEF StartResolver, Jobs
  <2>. QED BY <1>3, <2>2
<1>7. ThreeSides(p) => ~TheirsDeleted(p) BY DEF ThreeSides, TheirsDeleted
<1>. QED BY <1>5, <1>6, <1>7

\* The text of both sides has no markers.
LEMMA NoMarkerInSides ==
  ASSUME Shape, CleanStore(store), repo.merge # NoCommit, NEW f \in Files
  PROVE  Marker \notin Sides(f)
<1>1. Len(store) \in Nat /\ repo \in Repos(Len(store)) BY TypeFacts DEF Shape, TypeOK
<1>2. repo.head \in 1..Len(store) /\ repo.merge \in 1..Len(store)
  BY <1>1 DEF Repos, NoCommit
<1>. QED BY <1>2 DEF CleanStore, Clean, Sides, HeadTree

\* What the loop takes up, and the copy it names.
LEMMA TouchKeep ==
  ASSUME Undisturbed, Shape, Calm, left["full"] = 0, Resolver # "marker", TouchInv, FreshCopy,
         Looping
  PROVE  TouchInv' \/ pc' = "abort"
<1>1. LoopStep /\ pc \in Loop /\ InConflict' = InConflict BY LoopSteps, LoopMerge DEF SameMerge
<1>2. /\ repo \in Repos(Len(store)) /\ job \in Jobs(Len(store)) /\ job.todo \subseteq Path
  BY <1>1, LoopFacts
<1>3. Files \cap Dests = {} BY PathConfig DEF PathConfig
<1>. USE DEF TouchInv, Begun, ResolverPCs
<1>4. CASE ensureConflictsDir \/ QuarantineDone
  <2>1. job'.todo = job.todo
    BY <1>2, <1>4 DEF ensureConflictsDir, classifyConflicts, QuarantineDone, Jobs
  <2>2. pc' \in {"resolve", "abort"} BY <1>4 DEF ensureConflictsDir, QuarantineDone
  <2>. QED BY <1>1, <2>1, <2>2
<1>5. CASE resolveEachPath
  <2>1. PICK p \in job.todo :
            \/ ModifyDelete(p) /\ Takes(p)
            \/ /\ UNCHANGED repo /\ ~ModifyDelete(p)
               /\ \/ p \in Dests /\ StartResolver(p, "skip")
                  \/ p \notin Dests /\ Resolver = "marker" /\ StartResolver(p, "resolverAdd")
                  \/ /\ p \notin Dests /\ \E step \in {"vaultOpen", "yamlOpen"} : StartResolver(p, step)
                  \/ p \notin Dests /\ StartQuarantine(p)
    BY <1>5, EachPathCases
  <2>2. p \in InConflict /\ p \in Path BY <1>2
  <2>3. CASE Takes(p)
    <3>1. /\ job'.todo = job.todo \ {p} /\ pc' \in {"resolve", "stageTheirs"}
          /\ pc' = "stageTheirs" => job'.path = p
      BY <2>2, <2>3, TakesJob
    <3>. QED BY <1>1, <2>2, <3>1
  <2>4. ASSUME NEW step \in {"skip", "vaultOpen", "yamlOpen"}, StartResolver(p, step),
               step = "skip" => p \in Dests
        PROVE  TouchInv'
    <3>1. job'.todo = job.todo \ {p} /\ job'.path = p /\ pc' = step
      BY <1>2, <2>4 DEF StartResolver, Jobs
    <3>. QED BY <1>1, <2>2, <2>4, <3>1
  <2>5. CASE StartQuarantine(p)
    <3>1. job'.todo = job.todo \ {p} /\ job'.path = p /\ pc' = "qRm"
          /\ job'.dest \in {p} \X Stamps
      BY <1>2, <2>5 DEF StartQuarantine, Jobs
    <3>. QED BY <1>1, <2>2, <3>1
  <2>. QED BY <2>1, <2>3, <2>4, <2>5
<1>6. CASE skipQuarantinedPath
  <2>1. pc = "skip" /\ Skips BY <1>6, LoopCases
  <2>2. job' = job /\ pc' \in {"resolve", "stageOurs"} BY <2>1 DEF Skips
  <2>. QED BY <1>1, <2>1, <2>2
<1>7. CASE ResolverAdd \/ StageSide
  <2>1. pc' = "resolve" /\ Handled(job.path, repo') BY <1>7, LoopCases
  <2>2. job'.todo = job.todo \ {job.path} BY <2>1, HandledJob
  <2>. QED BY <1>1, <2>1, <2>2
<1>8. CASE ResolverOpen \/ ResolverWrite
  <2>1. job' = job /\ pc \in ResolverPCs /\ pc' \in ResolverPCs
    BY <1>8, LoopCases DEF ResolverWrite, Spend
  <2>. QED BY <1>1, <2>1
<1>9. CASE QuarantineRm \/ QuarantineWrite \/ QuarantineAdd \/ QuarantineRestore
  <2>1. job' = job /\ pc \in {"qRm", "qWrite", "qAdd", "qRestore"}
        /\ pc' \in {"qWrite", "qAdd", "qRestore", "resolve", "restored"}
    BY <1>9, LoopCases
  <2>. QED BY <1>1, <2>1 DEF FreshCopy
<1>. QED BY <1>4, <1>5, <1>6, <1>7, <1>8, <1>9 DEF Looping

\* The loop loses no side of a file in conflict.
LEMMA LoopSides ==
  ASSUME Undisturbed, Shape, Calm, CleanStore(store), left["full"] = 0, Resolver # "marker",
         SideInv, FreshCopy, Looping, NEW f \in Files \cap InConflict
  PROVE  SidesAt(f)' \/ pc' = "abort"
<1>1. LoopStep /\ pc \in Loop /\ SameMerge BY LoopSteps, LoopMerge
<1>2. /\ repo \in Repos(Len(store)) /\ job \in Jobs(Len(store))
      /\ job.path \in Path /\ job.dest \in Path /\ job.todo \subseteq Path
      /\ repo.merge # NoCommit
  BY <1>1, LoopFacts
<1>3. TouchInv /\ SidesAt(f) /\ PathInv BY <1>1 DEF SideInv, Calm
<1>4. f \in Path /\ f \notin Dests BY PathConfig DEF PathConfig, Path
<1>5. /\ Sides(f)' = Sides(f) /\ (TheirsDeleted(f)' <=> TheirsDeleted(f))
      /\ \A b : KeepsSides(f, b) => Sides(f)' \subseteq b \/ TheirsDeleted(f)'
  BY <1>1, <1>4 DEF SameMerge, KeepsSides
<1>6. job.todo \cap Files \subseteq repo.unmerged BY <1>1, <1>3 DEF PathInv
\* What is not touched stays as it is, wherever the job goes.
<1>7. ASSUME NEW p, OnlyAt(p), p # f,
             p \in InConflict \/ \E g \in Files \ {f} : p \in {g} \X Stamps
      PROVE  /\ f \in repo.unmerged => f \in repo'.unmerged
             /\ Landed(f) => Landed(f)'
             /\ f \in job.todo => repo'.work[f] = repo.work[f]
  BY <1>1, <1>4, <1>7, LandedElsewhere DEF OnlyAt
<1>8. UNCHANGED repo => (Landed(f) => Landed(f)') BY <1>1, <1>4, LandedKept
<1>. USE DEF Begun, ResolverPCs
<1>9. ASSUME UNCHANGED repo, job'.todo = job.todo, pc' = "resolve",
             pc \in {"preflight", "restored"}
      PROVE  SidesAt(f)'
  BY <1>3, <1>5, <1>8, <1>9 DEF SidesAt, KeepsSides
<1>10. CASE ensureConflictsDir \/ QuarantineDone
  <2>1. job'.todo = job.todo
    BY <1>2, <1>10 DEF ensureConflictsDir, classifyConflicts, QuarantineDone, Jobs
  <2>2. pc \in {"preflight", "restored"} /\ pc' \in {"resolve", "abort"} /\ UNCHANGED repo
    BY <1>10 DEF ensureConflictsDir, QuarantineDone
  <2>. QED BY <1>9, <2>1, <2>2
<1>11. CASE resolveEachPath
  <2>1. pc = "resolve" BY <1>11, EachPathCases
  <2>2. PICK p \in job.todo :
            \/ ModifyDelete(p) /\ Takes(p)
            \/ /\ UNCHANGED repo /\ ~ModifyDelete(p)
               /\ \/ p \in Dests /\ StartResolver(p, "skip")
                  \/ p \notin Dests /\ Resolver = "marker" /\ StartResolver(p, "resolverAdd")
                  \/ /\ p \notin Dests /\ \E step \in {"vaultOpen", "yamlOpen"} : StartResolver(p, step)
                  \/ p \notin Dests /\ StartQuarantine(p)
    BY <1>11, EachPathCases
  <2>3. p \in Path /\ p \in InConflict BY <1>2, <1>3 DEF TouchInv
  <2>4. CASE ModifyDelete(p) /\ Takes(p)
    <3>1. /\ job'.todo = job.todo \ {p} /\ pc' \in {"resolve", "stageTheirs"}
          /\ pc' = "stageTheirs" => job'.path = p
      BY <2>3, <2>4, TakesJob
    <3>2. OnlyAt(p) BY <1>2, <2>3, <2>4, OnePath DEF Takes, ChecksOut, Removes
    <3>3. CASE f # p
      BY <1>3, <1>5, <1>7, <2>1, <2>3, <3>1, <3>2, <3>3 DEF SidesAt, KeepsSides
    <3>4. CASE f = p
      <4>1. ChecksOut(f) BY <1>4, <2>4, <3>4 DEF Takes, Removes, Quarantined
      <4>2. /\ repo'.unmerged = repo.unmerged
            /\ repo'.work[f] = store[repo.merge].tree[f]
        BY <1>2, <1>4, <4>1, OnePath DEF ChecksOut
      <4>3. f \in repo'.unmerged BY <1>6, <2>2, <3>4, <4>2
      <4>4. Sides(f)' \subseteq repo'.work[f]
        BY <1>5, <4>1, <4>2 DEF ChecksOut, Sides, OursDeleted, Absent
      <4>5. pc' = "stageTheirs" BY <4>1 DEF ChecksOut
      <4>. QED BY <3>1, <3>4, <4>3, <4>4, <4>5 DEF SidesAt
    <3>. QED BY <3>3, <3>4
  <2>5. ASSUME NEW step \in {"skip", "vaultOpen", "yamlOpen"}, StartResolver(p, step),
               UNCHANGED repo, f = p => step # "skip"
        PROVE  SidesAt(f)'
    <3>1. /\ job'.todo = job.todo \ {p} /\ job'.path = p /\ pc' = step
          /\ job'.blob = repo.work[p] \ {Marker}
      BY <1>2, <2>5 DEF StartResolver, Merged, Jobs
    <3>2. f = p => Sides(f) \subseteq job'.blob
      <4>1. Marker \notin Sides(f) BY <1>2, NoMarkerInSides
      <4>2. f = p => (TheirsDeleted(f) => Marker \in repo.work[f])
        BY <1>11, <2>5, RegionsOnly
      <4>. QED BY <1>3, <2>2, <3>1, <4>1, <4>2 DEF SidesAt, KeepsSides
    <3>3. f \in repo'.unmerged \/ Landed(f)' BY <1>3, <1>8, <2>1, <2>5 DEF SidesAt
    <3>. QED BY <1>3, <1>5, <2>5, <3>1, <3>2, <3>3 DEF SidesAt, KeepsSides
  <2>6. CASE UNCHANGED repo /\ StartQuarantine(p) /\ p \notin Dests
    <3>1. job'.todo = job.todo \ {p} /\ job'.path = p /\ pc' = "qRm"
          /\ job'.blob = repo.work[p]
      BY <1>2, <2>6 DEF StartQuarantine, Raw, Jobs
    <3>2. f \in repo'.unmerged \/ Landed(f)' BY <1>3, <1>8, <2>1, <2>6 DEF SidesAt
    <3>. QED BY <1>3, <1>5, <2>2, <2>6, <3>1, <3>2 DEF SidesAt, KeepsSides
  <2>. QED BY <1>4, <2>2, <2>4, <2>5, <2>6
<1>12. CASE skipQuarantinedPath
  <2>1. pc = "skip" /\ Skips /\ job' = job BY <1>12, LoopCases DEF Skips
  <2>2. pc' \in {"resolve", "stageOurs"} BY <2>1 DEF Skips
  <2>3. CASE repo' = repo
    BY <1>3, <1>5, <1>8, <2>1, <2>2, <2>3 DEF SidesAt, KeepsSides
  <2>4. CASE repo' = CheckOutSide(repo, job.path, HeadTree(store, repo)[job.path])
    <3>1. OnlyAt(job.path) BY <1>2, <2>4, OnePath
    <3>2. job.path \in InConflict /\ job.path # f BY <1>3, <1>4, <2>1 DEF TouchInv
    <3>. QED BY <1>3, <1>5, <1>7, <2>1, <2>2, <3>1, <3>2 DEF SidesAt, KeepsSides
  <2>. QED BY <2>1, <2>3, <2>4 DEF Skips
<1>13. CASE ResolverOpen
  <2>1. /\ pc \in {"vaultOpen", "yamlOpen"} /\ pc' = "resolverWrite"
        /\ repo' = [repo EXCEPT !.work[job.path] = Blank] /\ job' = job
    BY <1>13, LoopCases
  <2>2. /\ OnlyAt(job.path) /\ repo'.index = repo.index /\ repo'.unmerged = repo.unmerged
    BY <1>2, <2>1, OnePath
  <2>3. job.path \notin job.todo /\ job.path \in repo.unmerged BY <1>1, <1>3, <2>1 DEF PathInv
  <2>4. f \in repo.unmerged => f \in repo'.unmerged BY <2>2
  <2>5. Landed(f) => Landed(f)' BY <1>1, <1>4, <2>2, LandedKept
  <2>6. f \in job.todo => repo'.work[f] = repo.work[f] BY <1>4, <2>2, <2>3 DEF OnlyAt
  <2>. QED BY <1>3, <1>5, <2>1, <2>4, <2>5, <2>6 DEF SidesAt, KeepsSides
<1>14. CASE ResolverWrite
  <2>1. /\ pc = "resolverWrite" /\ pc' = "resolverAdd" /\ job' = job
        /\ repo' = [repo EXCEPT !.work[job.path] = job.blob]
    BY <1>14 DEF ResolverWrite, Spend
  <2>2. /\ OnlyAt(job.path) /\ repo'.index = repo.index /\ repo'.unmerged = repo.unmerged
        /\ repo'.work[job.path] = job.blob
    BY <1>2, <2>1, OnePath
  <2>3. job.path \notin job.todo BY <1>1, <1>3, <2>1 DEF PathInv
  <2>4. Landed(f) => Landed(f)' BY <1>1, <1>4, <2>2, LandedKept
  <2>5. f \in job.todo => repo'.work[f] = repo.work[f] BY <1>4, <2>2, <2>3 DEF OnlyAt
  <2>. QED BY <1>3, <1>5, <2>1, <2>2, <2>4, <2>5 DEF SidesAt, KeepsSides
<1>15. CASE ResolverAdd \/ StageSide
  <2>1. /\ pc \in {"resolverAdd", "stageTheirs", "stageOurs"} /\ pc' = "resolve"
        /\ repo' = Add(repo, job.path) /\ Handled(job.path, repo')
    BY <1>15, LoopCases
  <2>2. OnlyAt(job.path) /\ repo'.index[job.path] = repo.work[job.path]
    BY <1>2, <2>1, OnePath
  <2>3. job'.todo = job.todo \ {job.path} BY <2>1, HandledJob
  <2>4. job.path \in InConflict BY <1>3, <2>1 DEF TouchInv
  <2>5. CASE f # job.path
    BY <1>3, <1>5, <1>7, <2>1, <2>2, <2>3, <2>4, <2>5 DEF SidesAt, KeepsSides
  <2>6. CASE f = job.path
    <3>1. Sides(f) \subseteq repo'.index[f]
      BY <1>3, <1>4, <2>1, <2>2, <2>6 DEF SidesAt, TouchInv
    <3>2. Landed(f)' BY <1>5, <3>1 DEF Landed
    <3>. QED BY <2>1, <2>3, <2>6, <3>2 DEF SidesAt
  <2>. QED BY <2>5, <2>6
<1>16. CASE QuarantineRm
  <2>1. /\ pc = "qRm" /\ pc' = "qWrite"
        /\ repo' = Rm(repo, job.path) /\ job' = job
    BY <1>16, LoopCases
  <2>2. OnlyAt(job.path) BY <1>2, <2>1, OnePath
  <2>3. job.path \notin job.todo /\ job.path \in InConflict
    BY <1>1, <1>3, <2>1 DEF PathInv, TouchInv
  <2>4. CASE f # job.path
    BY <1>3, <1>5, <1>7, <2>1, <2>2, <2>3, <2>4 DEF SidesAt, KeepsSides
  <2>5. CASE f = job.path BY <1>3, <1>5, <2>1, <2>3, <2>5 DEF SidesAt, KeepsSides
  <2>. QED BY <2>4, <2>5
<1>17. CASE QuarantineWrite
  <2>1. /\ pc = "qWrite" /\ pc' = "qAdd"
        /\ repo' = [repo EXCEPT !.work[job.dest] = job.blob] /\ job' = job
    BY <1>17, LoopCases
  <2>2. /\ OnlyAt(job.dest) /\ repo'.index = repo.index /\ repo'.unmerged = repo.unmerged
        /\ repo'.work[job.dest] = job.blob
    BY <1>2, <2>1, OnePath
  <2>3. f # job.dest BY <1>1, <1>3, <1>4, <2>1 DEF PathInv
  <2>4. Landed(f) => Landed(f)' BY <1>1, <1>4, <2>2, LandedKept
  <2>5. f \in job.todo => repo'.work[f] = repo.work[f] BY <1>4, <2>2, <2>3 DEF OnlyAt
  <2>. QED BY <1>3, <1>5, <2>1, <2>2, <2>4, <2>5 DEF SidesAt, KeepsSides
<1>18. CASE QuarantineAdd
  <2>1. /\ pc = "qAdd" /\ pc' = "qRestore"
        /\ repo' = Add(repo, job.dest) /\ job' = job
    BY <1>18, LoopCases
  <2>2. OnlyAt(job.dest) /\ repo'.index[job.dest] = repo.work[job.dest]
    BY <1>2, <2>1, OnePath
  <2>3. /\ f # job.dest /\ job.path \notin job.todo
        /\ job.dest \in {job.path} \X Stamps /\ job.path \in Files
    <3>1. /\ f # job.dest /\ job.dest \notin Files /\ job.path \notin job.todo
          /\ job.dest \in {job.path} \X Stamps
      BY <1>1, <1>3, <1>4, <2>1 DEF PathInv, TouchInv
    <3>2. job.dest \in Files \X Stamps BY <1>2, <3>1 DEF Path, Dests
    <3>. QED BY <3>1, <3>2
  <2>4. CASE f # job.path
    BY <1>3, <1>5, <1>7, <2>1, <2>2, <2>3, <2>4 DEF SidesAt, KeepsSides
  <2>5. CASE f = job.path BY <1>3, <1>5, <2>1, <2>2, <2>3, <2>5 DEF SidesAt, KeepsSides
  <2>. QED BY <2>4, <2>5
<1>19. CASE QuarantineRestore
  <2>1. /\ pc = "qRestore" /\ pc' \in {"resolve", "restored"}
        /\ repo' = TakeVersion(repo, job.path, HeadTree(store, repo)[job.path]) /\ job' = job
    BY <1>19, LoopCases
  <2>2. /\ OnlyAt(job.path)
        /\ repo'.index[job.path] = HeadTree(store, repo)[job.path]
    BY <1>2, <2>1, OnePath
  <2>3. /\ job.path \notin job.todo /\ job.path \in InConflict
        /\ job.dest \in {job.path} \X Stamps /\ job.dest \notin InConflict
    BY <1>1, <1>3, <2>1 DEF PathInv, TouchInv
  <2>4. CASE f # job.path
    BY <1>3, <1>5, <1>7, <2>1, <2>2, <2>3, <2>4 DEF SidesAt, KeepsSides
  <2>5. CASE f = job.path
    <3>1. ASSUME TheirsDeleted(f) PROVE Landed(f)'
      <4>1. Sides(f) \subseteq repo'.index[f]
        BY <2>2, <2>5, <3>1 DEF Sides, TheirsDeleted, Absent
      <4>. QED BY <1>5, <4>1 DEF Landed
    <3>2. ASSUME ~TheirsDeleted(f) PROVE Landed(f)'
      <4>1. Sides(f) \subseteq repo.index[job.dest]
        BY <1>3, <2>1, <2>5, <3>2 DEF SidesAt, KeepsSides
      <4>2. job.dest \in Copies(f) /\ job.dest # job.path BY <2>3, <2>5 DEF Copies
      <4>3. repo'.index[job.dest] = repo.index[job.dest] BY <1>2, <2>2, <4>2 DEF OnlyAt
      <4>4. job.dest \in Copies(f)' BY <1>1, <1>4, <4>2 DEF SameMerge
      <4>. QED BY <1>5, <4>1, <4>3, <4>4 DEF Landed
    <3>3. Landed(f)' BY <3>1, <3>2
    <3>. QED BY <2>1, <2>3, <2>5, <3>3 DEF SidesAt
  <2>. QED BY <2>4, <2>5
<1>. QED BY <1>10, <1>11, <1>12, <1>13, <1>14, <1>15, <1>16, <1>17, <1>18, <1>19 DEF Looping

\* Where the merge stops at conflicts, git has left both sides of each file on disk, but
\* for the text that theirs deleted.
LEMMA OpensSides ==
  ASSUME Shape, MarkInv, NEW auto, Opens(auto), pc' = "preflight"
  PROVE  SideInv'
<1>. DEFINE u == repo.tracking
            t == MergedTree(store, repo.head, u, auto)
            both == BothChanged(store, repo.head, u)
            open == both \ auto
            ours == store[repo.head].tree
            theirs == store[u].tree
<1>1. /\ repo \in Repos(Len(store)) /\ job \in Jobs(Len(store))
      /\ repo.head \in 1..Len(store) /\ u \in 1..Len(store)
      /\ CleanStore(store) /\ CleanRepo(repo)
  BY TextFacts DEF MarkInv
<1>2. ~TrueMergeRefused(store, repo, u) /\ store' = store BY DEF Opens
<1>3. repo' = [repo EXCEPT !.merge = u, !.unmerged = open,
                    !.index = [p \in Path |-> IF p \in open THEN Absent ELSE t[p]],
                    !.work = [p \in Path |-> IF p \in Unstaged(repo) THEN repo.work[p] ELSE t[p]]]
  BY DEF Opens, Merge, MergeInto
<1>4. repo'.head = repo.head /\ repo'.merge = u /\ repo'.unmerged = open
  BY <1>1, <1>3 DEF Repos
<1>5. InConflict' = both BY <1>2, <1>4 DEF InConflict
<1>6. job'.todo = open
  <2>1. open \subseteq Path BY DEF BothChanged
  <2>. QED BY <1>1, <1>4, <2>1 DEF Opens, Jobs
<1>7. TouchInv' BY <1>5, <1>6 DEF TouchInv, Begun, ResolverPCs
<1>8. ASSUME NEW f \in Files \cap both PROVE SidesAt(f)'
  <2>1. f \in Path BY DEF Path
  <2>2. Sides(f)' = ours[f] \cup theirs[f] /\ (TheirsDeleted(f)' <=> theirs[f] = Absent)
    BY <1>2, <1>4 DEF Sides, HeadTree, TheirsDeleted
  <2>3. Sides(f)' \subseteq t[f] BY <1>8, <2>1, <2>2 DEF MergedTree
  <2>4. Marker \notin ours[f] /\ repo.unmerged = {}
    BY <1>1, <1>2 DEF CleanStore, Clean, TrueMergeRefused, StagedPaths
  <2>5. ASSUME theirs[f] # Absent PROVE f \notin Unstaged(repo)
    <3>1. ours[f] # theirs[f] BY <1>8 DEF BothChanged
    <3>2. MergedTree(store, repo.head, u, {})[f] # ours[f]
      <4>1. CASE ours[f] = Absent BY <1>8, <2>1, <2>5, <4>1 DEF MergedTree, Absent
      <4>2. CASE ours[f] # Absent
        <5>1. f \in AutoMergeable(store, repo.head, u) BY <1>8, <2>5, <4>2 DEF AutoMergeable
        <5>2. Marker \in MergedTree(store, repo.head, u, {})[f] BY <1>8, <2>1, <5>1 DEF MergedTree
        <5>. QED BY <2>4, <5>2
      <4>. QED BY <4>1, <4>2
    <3>. QED BY <1>2, <3>2 DEF TrueMergeRefused, HeadTree
  <2>6. ASSUME theirs[f] = Absent PROVE Marker \notin t[f]
    <3>1. f \notin AutoMergeable(store, repo.head, u) BY <2>6 DEF AutoMergeable
    <3>. QED BY <1>8, <2>1, <2>4, <2>6, <3>1 DEF MergedTree, Absent
  <2>7. Marker \notin repo.work[f] BY <1>1, <2>4 DEF CleanRepo
  <2>. HIDE DEF t, open, ours, theirs, both
  <2>8. /\ f \notin open => repo'.index[f] = t[f]
        /\ repo'.work[f] = IF f \in Unstaged(repo) THEN repo.work[f] ELSE t[f]
    BY <1>1, <1>3, <2>1 DEF Repos
  <2>9. f \notin open => Landed(f)' BY <2>3, <2>8 DEF Landed
  <2>10. KeepsSides(f, repo.work[f])' BY <2>2, <2>3, <2>5, <2>8 DEF KeepsSides
  <2>11. TheirsDeleted(f)' => Marker \notin repo'.work[f] BY <2>2, <2>6, <2>7, <2>8
  <2>. QED BY <1>4, <2>9, <2>10, <2>11 DEF SidesAt
<1>. QED BY <1>5, <1>7, <1>8 DEF SideInv

\* A commit of another clone changes no open merge.
LEMMA UpstreamMerge ==
  ASSUME ServerInv, repo.merge # NoCommit, NEW p \in Path, UpstreamCommit(p)
  PROVE  SameMerge
<1>1. /\ Shape /\ TypeOK /\ HistoryInv /\ repo.head \in Commits /\ repo.merge \in Commits
  BY TypeFacts DEF ServerInv, Shape, TypeOK, Repos, Commits, NoCommit
<1>2. UNCHANGED repo BY DEF UpstreamCommit
<1>3. StoreGrows
  <2>1. PICK t \in Trees : store' = WithCommit(store, t, {origin.main}) BY <1>1, UpstreamShape
  <2>2. origin.main \in Commits BY <1>1, TypeFacts DEF TypeOK, Commits
  <2>. QED BY <2>1, <2>2 DEF StoreGrows
<1>4. \A c \in Commits : store'[c] = store[c] BY <1>1, <1>3, StoreKept
<1>. DEFINE base == MergeBase(store, repo.head, repo.merge)
<1>5. base \in Commits
  <2>1. base \in store[repo.head].anc BY <1>1, MergeBaseCommon
  <2>2. store[repo.head].anc \subseteq 1..repo.head BY <1>1 DEF HistoryInv
  <2>3. repo.head \in Nat /\ Len(store) \in Nat BY <1>1, TypeFacts DEF Commits
  <2>. QED BY <1>1, <2>1, <2>2, <2>3 DEF Commits
<1>6. MergeBase(store', repo.head, repo.merge) = base BY <1>1, <1>4 DEF MergeBase
<1>. HIDE DEF base
<1>7. BothChanged(store', repo.head, repo.merge) = BothChanged(store, repo.head, repo.merge)
  <2>1. MergeBase(store, repo.head, repo.merge) = base BY DEF base
  <2>. QED BY <1>1, <1>4, <1>5, <1>6, <2>1 DEF BothChanged
<1>8. InConflict' = InConflict BY <1>2, <1>7 DEF InConflict
<1>. QED BY <1>1, <1>2, <1>4, <1>8 DEF SameMerge, Sides, Copies, TheirsDeleted, HeadTree

\* Every step of an undisturbed server whose disk does not fill up.
LEMMA SidesStep ==
  ASSUME Undisturbed, ServerInv, MarkInv, Calm, left["full"] = 0, Resolver # "marker",
         SideInv, FreshCopy, [Next]_vars
  PROVE  SideInv'
<1>1. Shape /\ LifeInv /\ CleanStore(store) BY DEF ServerInv, MarkInv, TextInv
<1>. SUFFICES ASSUME pc' \in Loop PROVE SideInv' BY DEF SideInv
<1>2. CASE Looping
  <2>1. pc \in Loop /\ SameMerge BY <1>1, <1>2, LoopSteps, LoopMerge
  <2>2. pc' # "abort" BY DEF Loop, ResolverPCs
  <2>3. TouchInv' BY <1>1, <1>2, <2>1, <2>2, TouchKeep DEF SideInv
  <2>4. ASSUME NEW f \in Files \cap InConflict' PROVE SidesAt(f)'
    BY <1>1, <1>2, <2>1, <2>2, LoopSides DEF SameMerge
  <2>. QED BY <2>3, <2>4 DEF SideInv
<1>3. CASE pc' = "preflight" /\ \E auto : Opens(auto) BY <1>1, <1>3, OpensSides
<1>4. CASE UNCHANGED vars \/ \E p \in Path : UpstreamCommit(p)
  <2>1. UNCHANGED <<repo, pc, job>> BY <1>4 DEF vars, UpstreamCommit
  <2>2. repo.merge # NoCommit BY <1>1, <2>1 DEF Shape, StepInv
  <2>3. SameMerge
    <3>1. CASE UNCHANGED vars
      BY <3>1 DEF vars, SameMerge, InConflict, Sides, Copies, TheirsDeleted, HeadTree
    <3>. QED BY <1>4, <2>2, <3>1, UpstreamMerge
  <2>4. TouchInv' BY <2>1, <2>3 DEF SideInv, TouchInv, SameMerge
  <2>5. ASSUME NEW f \in Files \cap InConflict' PROVE SidesAt(f)'
    <3>1. f \in Path /\ f \in InConflict BY <2>3 DEF Path, SameMerge
    <3>2. SidesAt(f) BY <2>1, <3>1 DEF SideInv
    <3>3. Landed(f) => Landed(f)' BY <2>1, <2>3, <3>1, LandedKept
    <3>4. Sides(f)' = Sides(f) /\ (TheirsDeleted(f)' <=> TheirsDeleted(f))
      BY <2>3, <3>1 DEF SameMerge
    <3>. QED BY <2>1, <3>2, <3>3, <3>4 DEF SidesAt, KeepsSides
  <2>. QED BY <2>4, <2>5 DEF SideInv
<1>. QED BY <1>1, <1>2, <1>3, <1>4, EntersLoop

\* resolveConflictMerge, quarantineOne: concluding a merge whose resolution is not
\* interrupted, on a disk that does not fill up, loses neither side of any file in conflict,
\* in whatever order resolvers, modify/delete and quarantines take the files up, as long as
\* no quarantine takes the path of a copy that is itself in conflict.
THEOREM ConflictsKeepSides ==
  ASSUME Undisturbed, Budget["full"] = 0, Resolver # "marker"
  PROVE  Spec /\ []FreshCopy => ConflictSidesKept
<1>. DEFINE Inv == ServerInv /\ MarkInv /\ Calm /\ left["full"] = 0 /\ SideInv
            NoneLost == ConcludesMerge =>
                       \A f \in Files \cap BothChanged(store, repo.head, repo.merge) :
                          HeadTree(store, repo)[f] \cup store[repo.merge].tree[f]
                            \subseteq UNION {store'[repo'.head].tree[q] : q \in {f} \cup ({f} \X Stamps)}
<1>1. Init => Inv
  <2>1. Init => left["full"] = 0 BY DEF Init
  <2>2. Init => SideInv BY DEF Init, SideInv, Loop, ResolverPCs
  <2>. QED BY <2>1, <2>2, InitCalm, InitServer, InitMark DEF Undisturbed
<1>2. Inv /\ FreshCopy /\ [Next]_vars => Inv'
  BY ServerStep, MarkStep, CalmStep, NeverFull, SidesStep DEF MarkInv
<1>3. ASSUME Inv, [Next]_vars, ConcludesMerge,
             NEW f \in Files \cap BothChanged(store, repo.head, repo.merge)
      PROVE  HeadTree(store, repo)[f] \cup store[repo.merge].tree[f]
               \subseteq UNION {store'[repo'.head].tree[q] : q \in {f} \cup ({f} \X Stamps)}
  <2>1. /\ Shape /\ LifeInv /\ Len(store) \in Nat /\ repo.head \in 1..Len(store)
        /\ store \in Seq(CommitRecords)
    BY <1>3, TypeFacts DEF ServerInv, MarkInv, Shape, TypeOK
  <2>2. commitAndPushMerge
    BY <1>3, <2>1, OnlyCommitConcludes DEF ConcludesMerge
  <2>3. pc = "resolve" /\ CanCommit(store, repo)
        /\ store' = WithCommit(store, repo.index, Parents(repo))
    BY <1>3, <2>1, <2>2 DEF commitAndPushMerge, Command, RunOrCut, IoFault, NoEffect, CommitHead,
                            ConcludesMerge
  <2>4. Landed(f)
    BY <1>3, <2>3 DEF SideInv, SidesAt, InConflict, CanCommit, Loop
  <2>5. repo'.head = Len(store) + 1 BY <1>3 DEF ConcludesMerge
  <2>6. store'[repo'.head].tree = repo.index BY <2>1, <2>3, <2>5 DEF WithCommit
  <2>7. repo.index[f] \cup UNION {repo.index[q] : q \in Copies(f)}
          \subseteq UNION {repo.index[q] : q \in {f} \cup ({f} \X Stamps)}
    BY DEF Copies
  <2>. QED BY <2>4, <2>6, <2>7 DEF Landed, Sides
<1>4. Inv /\ [Next]_vars => [NoneLost]_vars BY <1>3
<1>. QED BY <1>1, <1>2, <1>4, PTL DEF Spec, ConflictSidesKept
=============================================================================
