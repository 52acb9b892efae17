-------------------------- MODULE WriteCoalescing --------------------------
(***************************************************************************)
(* The file-write path of pkg/git/git.go: WriteFile, DeleteFile, the       *)
(* pending set and its flush, pushWithRetry with its in-attempt merge, and *)
(* the rescue of a dirty working tree that the merge may need.             *)
(*                                                                         *)
(* g.mu serialises every operation on the repository, so there is at most  *)
(* one job.  A job runs git commands one by one under a context; another   *)
(* clone can push to origin, and the process can die, between any two of   *)
(* them.  Once the context is done exec.CommandContext runs nothing at all;*)
(* if it ends while a command runs, the command is killed before or after  *)
(* its effect, and one killed before it may leave .git/index.lock behind.  *)
(***************************************************************************)
EXTENDS GitRepo

CONSTANTS Coalesce,          \* --write-coalesce
          HasRemote,         \* a remote is configured
          PushMaxAttempts,   \* pushMaxAttempts
          ResendFailed,      \* clients also repeat a body that was answered with 500
          Cuttable,          \* the jobs whose context may end before they do
          Budget             \* how often each kind of event may happen in a behaviour

JobKinds == {"none", "write", "delete", "tick", "shutdown", "pull", "recover"}
CutKinds == {"write", "delete", "tick", "shutdown", "pull", "pullflush"}
Events == {"req", "upstream", "cut", "io", "full", "net", "term", "crash"}

ASSUME WriteConfig ==
    /\ Files # {}
    /\ Stamps \subseteq Nat
    /\ {Coalesce, HasRemote, ResendFailed} \subseteq BOOLEAN
    /\ PushMaxAttempts \in Nat \ {0}
    /\ Cuttable \subseteq CutKinds
    /\ Budget \in [Events -> Nat]

VARIABLES store,     \* the commits that exist, here or on origin
          repo,      \* the served repository, on disk
          origin,    \* [main, rescue]: the branch and the rescue/<ts> branches of the remote
          pending,   \* g.pending: paths staged and not yet flushed
          pc, job,   \* the holder of g.mu, and where it is
          ctxDone,   \* the context of the job is done
          mode,      \* the life of the process
          promised,  \* per path: versions of which at least one must be kept (observer)
          lastVer,   \* the last version any writer made
          left       \* what remains of Budget

vars == <<store, repo, origin, pending, pc, job, ctxDone, mode, promised, lastVer, left>>

\* phase: "flush" inside flushPendingLocked, "own" in the job's own part.
\* caller: who runs the merge or the rescue; rescued: the merge is already a second try.
\* rescue: the rescue commit; classified .. handled: the conflict loop of a pull.
NoJob ==
    [kind |-> "none", phase |-> "own", path |-> CHOOSE f \in Files : TRUE, ver |-> 0,
     attempt |-> 1, caller |-> "sync", rescued |-> FALSE, rescue |-> NoCommit,
     classified |-> TRUE, todo |-> {}, blob |-> Absent, dest |-> CHOOSE f \in Files : TRUE,
     handled |-> FALSE]

Spend(e) == left[e] > 0 /\ left' = [left EXCEPT ![e] = @ - 1]

Serving == mode \in {"serving", "stopping", "draining"}

Start(k, p) ==
    /\ pc = "idle"
    /\ job' = [NoJob EXCEPT !.kind = k, !.phase = "flush", !.path = p]
    /\ pc' = "flush"
    /\ ctxDone' = FALSE

Finish ==
    /\ pc' = "idle"
    /\ job' = NoJob
    /\ ctxDone' = FALSE

CutKind == IF job.kind = "pull" /\ job.phase = "flush" THEN "pullflush" ELSE job.kind

\* The context ends during this command. That of a flusher's tick has no deadline and ends
\* only when SIGTERM has cancelled it.
Cut ==
    /\ ~ctxDone /\ CutKind \in Cuttable
    /\ job.kind = "tick" => mode = "stopping"
    /\ Spend("cut") /\ ctxDone' = TRUE

NoEffect == UNCHANGED <<repo, store>>

\* One git command on the index or the working tree; eff sets repo and store.
RunOrCut(eff, ok, err) ==
    \/ /\ ~ctxDone /\ ~repo.lock
       /\ eff /\ pc' = ok
       /\ UNCHANGED <<ctxDone, left>>
    \/ /\ ctxDone \/ repo.lock
       /\ NoEffect /\ pc' = err
       /\ UNCHANGED <<ctxDone, left>>
    \/ /\ ~repo.lock /\ Cut
       /\ eff /\ pc' = err
    \/ /\ ~repo.lock /\ Cut
       /\ repo' \in {repo, [repo EXCEPT !.lock = TRUE]} /\ UNCHANGED store
       /\ pc' = err

\* The disk refuses the command.
IoFault == ~ctxDone /\ ~repo.lock /\ Spend("io") /\ NoEffect /\ UNCHANGED ctxDone

Command(eff, ok, err) == RunOrCut(eff, ok, err) \/ (IoFault /\ pc' = err)

\* One git command that talks to origin: there is what it does to origin, here what it does
\* to repo on origin's answer. What origin has done can fail here, its answer lost.
RemoteCommand(there, here, ok, err) ==
    /\ \/ /\ ~ctxDone /\ there /\ here /\ pc' = ok
          /\ UNCHANGED <<ctxDone, left>>
       \/ /\ ctxDone /\ pc' = err
          /\ UNCHANGED <<repo, origin, ctxDone, left>>
       \/ /\ ~ctxDone /\ Spend("net") /\ pc' = err
          /\ there \/ UNCHANGED origin
          /\ UNCHANGED <<repo, ctxDone>>
       \/ /\ Cut /\ pc' = err
          /\ there \/ UNCHANGED origin
          /\ UNCHANGED repo
       \/ /\ Cut /\ pc' = err
          /\ there /\ here

---------------------------------------------------------------------------
(* WriteFile *)

\* The body of version v arrives for p: unchanged content is answered at once.
writeFileLocked(p, v) ==
    /\ Spend("req")
    /\ IF repo.work[p] = {v}
       THEN /\ promised' = [promised EXCEPT ![p] = {v}]
            /\ UNCHANGED <<pc, job, ctxDone>>
       ELSE /\ promised' = [promised EXCEPT ![p] = IF @ = {} THEN {} ELSE @ \cup {v}]
            /\ job' = [NoJob EXCEPT !.kind = "write", !.path = p, !.ver = v]
            /\ pc' = "open"
            /\ ctxDone' = FALSE
    /\ UNCHANGED <<store, repo, origin, pending, mode>>

\* The last body for p has been answered with 200, or at least staged.
Settled(p) == repo.work[p] = IF Coalesce THEN repo.index[p] ELSE promised[p]

\* A client sends a new body, or one the server holds for p on disk or in HEAD.
WriteFile(p) ==
    /\ pc = "idle" /\ Serving
    /\ \/ writeFileLocked(p, lastVer + 1) /\ lastVer' = lastVer + 1
       \/ /\ Settled(p) \/ ResendFailed
          /\ \E v \in (repo.work[p] \cup HeadTree(store, repo)[p]) \ {Marker} :
                writeFileLocked(p, v)
          /\ UNCHANGED lastVer

\* create_only=1: an occupied path is refused with 409 and nothing changes.
WriteFileIfAbsent(p) ==
    /\ pc = "idle" /\ Serving
    /\ repo.work[p] = Absent
    /\ writeFileLocked(p, lastVer + 1)
    /\ lastVer' = lastVer + 1

\* One step of os.MkdirAll or os.WriteFile; a failure answers 500.
OnDisk(content, next) ==
    /\ \/ /\ repo' = [repo EXCEPT !.work[job.path] = content]
          /\ pc' = next /\ UNCHANGED left
       \/ Spend("io") /\ pc' = "failed" /\ UNCHANGED repo
    /\ UNCHANGED <<store, origin, pending, job, ctxDone, mode, promised, lastVer>>

\* os.WriteFile truncates the file before it writes it.
TruncateFile == pc = "open" /\ OnDisk(Blank, "write")
WriteContent == pc = "write" /\ OnDisk({job.ver}, "add")

\* git add; a failure answers 500 and leaves the file on disk.
StageWrite ==
    /\ pc = "add"
    /\ Command(repo' = Add(repo, job.path) /\ UNCHANGED store, "staged", "failed")
    /\ UNCHANGED <<origin, pending, job, mode, promised, lastVer>>

\* The 200 of a write: its content is the file's newest promise.
Acknowledge == promised' = [promised EXCEPT ![job.path] = {job.ver}]

enqueuePendingLocked ==
    /\ pc = "staged"
    /\ IF Coalesce
       THEN pending' = pending \cup {job.path} /\ Acknowledge /\ Finish
       ELSE pc' = "commit" /\ UNCHANGED <<pending, promised, job, ctxDone>>
    /\ UNCHANGED <<store, repo, origin, mode, lastVer, left>>

---------------------------------------------------------------------------
(* DeleteFile *)

DeleteFile(p) ==
    /\ Serving /\ Spend("req") /\ Start("delete", p)
    /\ UNCHANGED <<store, repo, origin, pending, mode, promised, lastVer>>

\* os.Stat: an absent file is answered 200 without a commit.
StatForDelete ==
    /\ pc = "stat"
    /\ IF repo.work[job.path] = Absent
       THEN promised' = [promised EXCEPT ![job.path] = {}] /\ Finish
       ELSE pc' = "rm" /\ UNCHANGED <<promised, job, ctxDone>>
    /\ UNCHANGED <<store, repo, origin, pending, mode, lastVer, left>>

RemoveForDelete ==
    /\ pc = "rm"
    /\ IF RmRefused(store, repo, job.path)
       THEN pc' = "failed" /\ NoEffect /\ UNCHANGED <<ctxDone, left>>
       ELSE Command(repo' = Rm(repo, job.path) /\ UNCHANGED store, "commit", "failed")
    /\ UNCHANGED <<origin, pending, job, mode, promised, lastVer>>

---------------------------------------------------------------------------
(* The flush of the pending set *)

\* The flusher finds the pending set due: quiet long enough, or old enough.
FlushPendingIfDue ==
    /\ mode = "serving" /\ pending # {}
    /\ Start("tick", NoJob.path)
    /\ UNCHANGED <<store, repo, origin, pending, mode, promised, lastVer, left>>

\* What the caller of flushPendingLocked does with its result. A pull logs a failed
\* flush and goes on; its own context outlives the flush's third of the budget.
FlushReturns(ok) ==
    /\ job' = [job EXCEPT !.phase = "own", !.attempt = 1, !.rescued = FALSE]
    /\ pc' = CASE job.kind = "pull" -> IF HasRemote THEN "locks" ELSE "done"
               [] job.kind = "delete" /\ ok -> "stat"
               [] OTHER -> IF ok THEN "done" ELSE "failed"
    /\ IF job.kind = "pull" /\ mode # "stopping"
       THEN ctxDone' \in {FALSE} \cup (IF "pull" \in Cuttable THEN {ctxDone} ELSE {})
       ELSE UNCHANGED ctxDone

flushPendingLocked ==
    /\ pc = "flush"
    /\ IF pending # {} /\ ~ctxDone
       THEN pc' = "commit" /\ UNCHANGED <<job, ctxDone>>
       ELSE FlushReturns(pending = {})
    /\ UNCHANGED <<store, repo, origin, pending, mode, promised, lastVer, left>>

\* Where a commit leads. Only a flush, and a write that commits for itself, read
\* git's "nothing to commit": the write is then answered without a push.
AfterCommit == IF HasRemote THEN "push" ELSE "pushed"
AfterNothing ==
    CASE job.phase = "flush" -> AfterCommit
      [] job.phase = "own" /\ job.kind = "write" -> "pushed"
      [] OTHER -> "commitFailed"

CommitHead ==
    /\ store' = WithCommit(store, repo.index, Parents(repo))
    /\ repo' = AtNewCommit(store, repo)

CommitStaged ==
    /\ pc = "commit"
    /\ IF CanCommit(store, repo)
       THEN Command(CommitHead, AfterCommit, "commitFailed")
       ELSE /\ pc' = IF NothingToCommit(store, repo) /\ ~ctxDone /\ ~repo.lock
                     THEN AfterNothing ELSE "commitFailed"
            /\ NoEffect /\ UNCHANGED <<ctxDone, left>>
    /\ UNCHANGED <<origin, pending, job, mode, promised, lastVer>>

\* A failed commit keeps the pending set for the next flush.
CommitFailed ==
    /\ pc = "commitFailed"
    /\ IF job.phase = "flush"
       THEN FlushReturns(FALSE)
       ELSE pc' = "failed" /\ UNCHANGED <<job, ctxDone>>
    /\ UNCHANGED <<store, repo, origin, pending, mode, promised, lastVer, left>>

\* The push landed: a flush clears the pending set, the others answer their caller.
Pushed ==
    /\ pc = "pushed"
    /\ IF job.phase = "flush"
       THEN pending' = {} /\ FlushReturns(TRUE) /\ UNCHANGED promised
       ELSE /\ pc' = "done" /\ UNCHANGED <<job, ctxDone>>
            /\ pending' = IF job.kind = "recover" THEN {} ELSE pending
            /\ promised' = CASE job.kind = "write" -> [promised EXCEPT ![job.path] = {job.ver}]
                            [] job.kind = "delete" -> [promised EXCEPT ![job.path] = {}]
                            [] OTHER -> promised
    /\ UNCHANGED <<store, repo, origin, mode, lastVer, left>>

\* The push failed: a flush retains its commit and clears the pending set all the same.
retainCommitAfterFailedPushLocked ==
    /\ pc = "pushFailed"
    /\ IF job.phase = "flush"
       THEN pending' = {} /\ FlushReturns(FALSE)
       ELSE pc' = "failed" /\ UNCHANGED <<pending, job, ctxDone>>
    /\ UNCHANGED <<store, repo, origin, mode, promised, lastVer, left>>

---------------------------------------------------------------------------
(* pushWithRetry *)

\* origin takes the branch if it can fast-forward; git then moves the tracking ref.
PushBranch ==
    /\ IsAncestor(store, origin.main, repo.head)
    /\ origin' = [origin EXCEPT !.main = repo.head]
TrackPushed == repo' = [repo EXCEPT !.tracking = repo.head]

\* A non-fast-forward rejection is retried while attempts remain.
RetryOnceTooOften == IF job.attempt <= PushMaxAttempts THEN "retryFetch" ELSE "pushFailed"   \* mutation
AfterRejection == IF job.attempt < PushMaxAttempts THEN "retryFetch" ELSE "pushFailed"

\* git push.
pushWithRetry ==
    /\ pc = "push"
    /\ \/ RemoteCommand(PushBranch, TrackPushed, "pushed", "pushFailed")
       \/ /\ ~ctxDone /\ ~IsAncestor(store, origin.main, repo.head)
          /\ pc' = AfterRejection
          /\ UNCHANGED <<repo, origin, ctxDone, left>>
    /\ UNCHANGED <<store, pending, job, mode, promised, lastVer>>

Fetch == repo' = [repo EXCEPT !.tracking = origin.main]

\* retryPush: backoff, fetch, then the merge of the upstream branch.
RetryFetch ==
    /\ pc = "retryFetch"
    /\ RemoteCommand(UNCHANGED origin, Fetch, "merge", "pushFailed")
    /\ job' = [job EXCEPT !.caller = "retry", !.rescued = FALSE, !.attempt = @ + 1]
    /\ UNCHANGED <<store, pending, mode, promised, lastVer>>

---------------------------------------------------------------------------
(* mergeWithDirtyTreeRescue and rescueDirtyTree *)

\* A conflict is the resolver's in a pull; in a push retry the merge is given up.
LeaveMergeOpen == IF job.caller = "retry" THEN "pushFailed" ELSE "preflight"   \* mutation
ResolveInRetry == "preflight"   \* mutation
AfterConflict == IF job.caller = "retry" THEN "abort" ELSE "preflight"

\* git merge --no-edit: up to date, fast-forward, merge commit or conflict.
MergeUpstream(auto) ==
    LET up == repo.tracking
        merged == MergeInto(store, repo, up, auto)
    IN CASE IsAncestor(store, up, repo.head) ->
              RunOrCut(UNCHANGED <<repo, store>>, "push", "abort")
         [] ~IsAncestor(store, up, repo.head) /\ IsAncestor(store, repo.head, up) ->
              RunOrCut(repo' = FastForward(store, repo, up) /\ UNCHANGED store, "push", "abort")
         [] OTHER ->
              IF merged.unmerged # {}
              THEN RunOrCut(repo' = merged /\ UNCHANGED store, AfterConflict, "abort")
              ELSE RunOrCut(/\ store' = WithCommit(store, merged.index, Parents(merged))
                            /\ repo' = AtNewCommit(store, merged), "push", "abort")

\* A merge that fails rescues a dirty tree once, unless a merge is in progress. With the
\* context done the rescue fails at its first command.
AfterFailedMerge ==
    IF ~ctxDone /\ ~job.rescued /\ Dirty(store, repo) /\ repo.merge = NoCommit
    THEN "rescueCommit" ELSE "abort"

mergeWithDirtyTreeRescue ==
    /\ pc = "merge"
    /\ IF MergeRefused(store, repo, repo.tracking) \/ repo.lock \/ ctxDone
       THEN pc' = AfterFailedMerge /\ NoEffect /\ UNCHANGED <<ctxDone, left>>
       ELSE \/ \E auto \in SUBSET AutoMergeable(store, repo.head, repo.tracking) :
                  MergeUpstream(auto)
            \/ IoFault /\ pc' = AfterFailedMerge
    /\ job' = IF pc' = "preflight" THEN [job EXCEPT !.todo = repo'.unmerged] ELSE job
    /\ UNCHANGED <<origin, pending, mode, promised, lastVer>>

\* The best-effort `git merge --abort`, on the same context as everything else.
AbortMerge ==
    /\ pc = "abort"
    /\ LET next == IF job.caller = "retry" THEN "pushFailed" ELSE "failed"
       IN IF AbortRefused(store, repo)
          THEN pc' = next /\ NoEffect /\ UNCHANGED <<ctxDone, left>>
          ELSE Command(repo' = MergeAbort(store, repo) /\ UNCHANGED store, next, next)
    /\ UNCHANGED <<origin, pending, job, mode, promised, lastVer>>

ResetAnyway == "rescueReset"   \* mutation
RescueFailed == IF job.caller = "ff" THEN "failed" ELSE "abort"

\* createRescueCommit and the local rescue ref: the working tree becomes a commit on
\* top of HEAD, through a temporary index.
TrackedOnly == [p \in Path |-> IF repo.index[p] = Absent THEN Absent ELSE repo.work[p]]   \* mutation
RescueTree == repo.work

createRescueCommit ==
    /\ pc = "rescueCommit"
    /\ \/ /\ ~ctxDone /\ pc' = "rescuePush"
          /\ store' = WithCommit(store, RescueTree, {repo.head})
          /\ job' = [job EXCEPT !.rescue = Len(store) + 1]
          /\ UNCHANGED <<ctxDone, left>>
       \/ /\ ~ctxDone /\ Spend("io") /\ pc' = RescueFailed
          /\ UNCHANGED <<store, job, ctxDone>>
       \/ /\ ctxDone /\ pc' = RescueFailed
          /\ UNCHANGED <<store, job, ctxDone, left>>
       \/ /\ Cut /\ pc' = RescueFailed
          /\ UNCHANGED <<store, job>>
    /\ UNCHANGED <<repo, origin, pending, mode, promised, lastVer>>

PushRescue ==
    /\ pc = "rescuePush"
    /\ RemoteCommand(origin' = [origin EXCEPT !.rescue = @ \cup {job.rescue}],
                     UNCHANGED repo, "rescueReset", RescueFailed)
    /\ UNCHANGED <<store, pending, job, mode, promised, lastVer>>

\* reset --hard: to the upstream ref on the fast-forward path, to HEAD elsewhere.
ResetToUpstream == repo.tracking   \* mutation
ResetTarget == IF job.caller = "ff" THEN repo.tracking ELSE repo.head

ResetAfterRescue ==
    /\ pc = "rescueReset"
    /\ Command(repo' = ResetHard(store, repo, ResetTarget) /\ UNCHANGED store,
               "rescueClean", RescueFailed)
    /\ UNCHANGED <<origin, pending, job, mode, promised, lastVer>>

\* clean -fd, then the merge again, or the state machine again on the fast-forward path.
KeepUntracked == repo   \* mutation
CleanTree == CleanUntracked(repo)

CleanAfterRescue ==
    /\ pc = "rescueClean"
    /\ Command(repo' = CleanTree /\ UNCHANGED store,
               IF job.caller = "ff" THEN "fetch" ELSE "merge", RescueFailed)
    /\ job' = [job EXCEPT !.rescued = TRUE]
    /\ UNCHANGED <<origin, pending, mode, promised, lastVer>>

\* Clients write any file, and edit or drain what is in _conflicts/.
ClientPaths == Files \cup {d \in Dests : repo.work[d] # Absent}

WriteNext ==
    \/ \E p \in ClientPaths : WriteFile(p) \/ WriteFileIfAbsent(p) \/ DeleteFile(p)
    \/ FlushPendingIfDue
    \/ TruncateFile \/ WriteContent \/ StageWrite \/ enqueuePendingLocked \/ StatForDelete \/ RemoveForDelete
    \/ flushPendingLocked \/ CommitStaged \/ CommitFailed \/ Pushed
    \/ retainCommitAfterFailedPushLocked \/ pushWithRetry \/ RetryFetch
    \/ mergeWithDirtyTreeRescue \/ AbortMerge
    \/ createRescueCommit \/ PushRescue \/ ResetAfterRescue \/ CleanAfterRescue
============================================================================
