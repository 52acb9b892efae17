------------------------------ MODULE GitRest ------------------------------
(***************************************************************************)
(* The whole server: the write path and the pull on one repository, the    *)
(* life of the process (boot with its two recoveries and its pull, SIGTERM *)
(* with its flush, a crash at any step), and the other clones of origin.   *)
(***************************************************************************)
EXTENDS PullSync

CONSTANT InitFiles     \* the files of the commit the repository was cloned at

ASSUME InitConfig == InitFiles \subseteq Files

Commits == 1..Len(store)

---------------------------------------------------------------------------
(* The life of the process *)

\* A job's last step gives g.mu back. At boot the recovery is followed by the startup
\* pull, and the pull by the listeners; a shutdown flush is the last of its process.
Return ==
    /\ pc \in {"done", "failed"}
    /\ IF job.kind = "recover"
       THEN /\ job' = [NoJob EXCEPT !.kind = "pull", !.phase = "flush"]
            /\ pc' = "flush" /\ ctxDone' = FALSE /\ UNCHANGED mode
       ELSE /\ Finish
            /\ mode' = CASE mode = "boot" -> "serving"
                         [] job.kind = "shutdown" -> "draining"
                         [] OTHER -> mode
    /\ UNCHANGED <<store, repo, origin, pending, promised, lastVer, left>>

\* SIGTERM cancels the service context, which the flusher and the puller run on. It kills
\* the command that runs, which is a Cut, or meets the job between two; a pull only where its
\* context may end. During a boot it does what Crash does: the process ends, and the next
\* boot removes the locks.
Sigterm ==
    /\ mode = "serving" /\ Spend("term")
    /\ job.kind = "pull" => CutKind \in Cuttable
    /\ mode' = "stopping"
    /\ \/ ctxDone' = (ctxDone \/ job.kind \in {"tick", "pull"})
       \/ CutKind \in Cuttable /\ UNCHANGED ctxDone
    /\ UNCHANGED <<store, repo, origin, pending, pc, job, promised, lastVer>>

ShutdownFlush ==
    /\ mode = "stopping" /\ Start("shutdown", NoJob.path)
    /\ UNCHANGED <<store, repo, origin, pending, mode, promised, lastVer, left>>

\* The process is gone, and its memory with it.
Die ==
    /\ mode' = "down" /\ pending' = {} /\ Finish
    /\ UNCHANGED <<store, repo, origin, promised, lastVer>>

Exit == mode = "draining" /\ pc = "idle" /\ Die /\ UNCHANGED left

Crash == mode # "down" /\ Spend("crash") /\ Die

\* bootstrap: every lock is removed, then the untracked files are looked for.
Boot ==
    /\ mode = "down"
    /\ mode' = "boot"
    /\ repo' = [repo EXCEPT !.lock = FALSE]
    /\ job' = [NoJob EXCEPT !.kind = "recover"]
    /\ pc' = IF Untracked(repo) # {} THEN "addAll" ELSE "staged?"
    /\ UNCHANGED <<store, origin, pending, ctxDone, promised, lastVer, left>>

\* recoverUntracked: add -A, then a commit that is not pushed.
AddAllUntracked ==
    /\ pc = "addAll"
    /\ Command(repo' = AddAll(repo) /\ UNCHANGED store, "commitAll", "staged?")
    /\ UNCHANGED <<origin, pending, job, mode, promised, lastVer>>

CommitUntracked ==
    /\ pc = "commitAll"
    /\ IF CanCommit(store, repo)
       THEN Command(CommitHead, "staged?", "staged?")
       ELSE pc' = "staged?" /\ NoEffect /\ UNCHANGED <<ctxDone, left>>
    /\ UNCHANGED <<origin, pending, job, mode, promised, lastVer>>

\* What a crash left in the index is committed and pushed.
LookForUnmerged == repo.unmerged   \* mutation
LeftStaged == StagedPaths(store, repo)

RecoverPendingWrites ==
    /\ pc = "staged?"
    /\ pc' = IF LeftStaged = {} THEN "done" ELSE "commit"
    /\ UNCHANGED <<store, repo, origin, pending, job, ctxDone, mode, promised, lastVer, left>>

---------------------------------------------------------------------------
(* The other clones of origin *)

\* Someone pushes a commit that writes or deletes one file; _conflicts/ entries are
\* edited or drained the same way.
UpstreamCommit(p) ==
    /\ Spend("upstream")
    /\ \E b \in {Absent, {lastVer + 1}} :
          LET tree == store[origin.main].tree
          IN /\ b = Absent => tree[p] # Absent
             /\ p \in Dests => tree[p] # Absent
             /\ store' = WithCommit(store, [tree EXCEPT ![p] = b], {origin.main})
             /\ lastVer' = IF b = Absent THEN lastVer ELSE lastVer + 1
    /\ origin' = [origin EXCEPT !.main = Len(store) + 1]
    /\ UNCHANGED <<repo, pending, pc, job, ctxDone, mode, promised>>

---------------------------------------------------------------------------
InitTree == [p \in Path |-> IF p \in InitFiles THEN {2} ELSE Absent]

Init ==
    /\ store = <<[tree |-> InitTree, anc |-> {1}]>>
    /\ repo = [head |-> 1, tracking |-> 1, index |-> InitTree, work |-> InitTree,
               merge |-> NoCommit, unmerged |-> {}, lock |-> FALSE]
    /\ origin = [main |-> 1, rescue |-> {}]
    /\ pending = {}
    /\ pc = "idle" /\ job = NoJob /\ ctxDone = FALSE
    /\ mode = "serving"
    /\ promised = [p \in Path |-> {}]
    /\ lastVer = 2
    /\ left = Budget

ProcessNext == Return \/ ShutdownFlush \/ Exit \/ Boot
               \/ AddAllUntracked \/ CommitUntracked \/ RecoverPendingWrites

Next ==
    \/ WriteNext
    \/ PullNext
    \/ ProcessNext
    \/ Sigterm
    \/ Crash
    \/ \E p \in Path : UpstreamCommit(p)

Spec == Init /\ [][Next]_vars

\* A job runs to its end, and Kubernetes restarts a dead process. The flusher and the
\* puller tick for ever and wait for g.mu, which hands over to whoever waits longest.
FairSpec ==
    /\ Spec
    /\ WF_vars(pc # "idle" /\ (WriteNext \/ PullNext \/ ProcessNext))
    /\ WF_vars(Boot \/ ShutdownFlush \/ Exit)
    /\ SF_vars(FlushPendingIfDue)
    /\ SF_vars(StartPull)

---------------------------------------------------------------------------
(* Properties *)

PCs == {"idle", "open", "write", "add", "staged", "failed", "flush", "stat", "rm", "commit", "commitFailed",
        "push", "pushed", "pushFailed", "retryFetch", "merge", "abort",
        "rescueCommit", "rescuePush", "rescueReset", "rescueClean",
        "locks", "recover", "fetch", "ff", "preflight", "resolve",
        "skip", "stageTheirs", "stageOurs", "vaultOpen", "yamlOpen", "resolverWrite", "resolverAdd",
        "qRm", "qWrite", "qAdd", "qRestore", "restored", "done",
        "addAll", "commitAll", "staged?"}

Modes == {"serving", "stopping", "draining", "down", "boot"}

CommitRecords == [tree : Trees, anc : SUBSET Nat]

\* A repository, origin and a job, where the store has n commits.
Repos(n) == [head : 1..n, tracking : 1..n, index : Trees, work : Trees,
             merge : 0..n, unmerged : SUBSET Path, lock : BOOLEAN]
Origins(n) == [main : 1..n, rescue : SUBSET (1..n)]
Jobs(n) == [kind : JobKinds, phase : {"own", "flush"}, path : Path, ver : Nat,
            attempt : 1..PushMaxAttempts, caller : {"sync", "retry", "ff"},
            rescued : BOOLEAN, rescue : 0..n, classified : BOOLEAN, todo : SUBSET Path,
            blob : Blob, dest : Path, handled : BOOLEAN]

\* Every variable has its shape: trees cover all paths, refs name commits that exist.
TypeOK ==
    /\ store \in Seq(CommitRecords)
    /\ repo \in Repos(Len(store))
    /\ origin \in Origins(Len(store))
    /\ pending \subseteq Path
    /\ pc \in PCs
    /\ job \in Jobs(Len(store))
    /\ ctxDone \in BOOLEAN
    /\ mode \in Modes
    /\ promised \in [Path -> SUBSET Nat]
    /\ lastVer \in Nat
    /\ left \in [Events -> Nat]

\* The commits that a person can still reach: history of HEAD, of origin's branch and
\* of the rescue branches on origin.
Reachable == History(store, {repo.head, origin.main} \cup origin.rescue)

\* An acknowledged write is never lost: the version last answered with 200 for a file,
\* or a version written to that file later, is staged or is in a reachable commit.
AckedDurable ==
    \A f \in Path : promised[f] # {} =>
        \E v \in promised[f] : \/ v \in repo.index[f]
                               \/ \E c \in Reachable : v \in store[c].tree[f]

\* HEAD only moves forward: no flush, rescue, merge, abort or recovery ever takes a
\* commit out of the local history.
HeadOnlyAdvances == [][repo.head \in store'[repo'.head].anc]_vars

\* A rescue discards nothing that is not on origin: when it resets the tree, every file
\* on disk is in HEAD or in a rescue commit origin already holds.
RescueDiscardsNothing ==
    pc = "rescueReset" =>
        \A p \in Path : \E c \in {repo.head} \cup origin.rescue : store[c].tree[p] = repo.work[p]

\* A pull that reports success has converged: HEAD is the upstream commit it saw, no
\* merge is left open, and nothing is unmerged.
PullConverges ==
    (pc = "done" /\ job.kind = "pull" /\ HasRemote) =>
        /\ repo.head = repo.tracking
        /\ repo.merge = NoCommit /\ repo.unmerged = {}

\* Between jobs of a serving process no merge is in progress.
NoMergeLeftOpen == (pc = "idle" /\ mode = "serving") => repo.merge = NoCommit

\* The dirty-tree rescue of the fast-forward path happens at most once in a pull.
RescueOnce == (pc = "rescueCommit" /\ job.caller = "ff") => ~job.rescued

\* The step concludes a merge that was in progress.
ConcludesMerge ==
    /\ repo.merge # NoCommit
    /\ repo'.head = Len(store) + 1 /\ Len(store') = Len(store) + 1
    /\ repo.merge \in store'[repo'.head].anc

\* Concluding a conflicted merge loses no side of it: what either parent has in a file
\* both changed is, in the merge commit, in that file or in its quarantine copy.
ConflictSidesKept ==
    [][ConcludesMerge =>
          \A f \in Files \cap BothChanged(store, repo.head, repo.merge) :
             HeadTree(store, repo)[f] \cup store[repo.merge].tree[f]
               \subseteq UNION {store'[repo'.head].tree[q] : q \in {f} \cup ({f} \X Stamps)}]_vars

\* Concluding a conflicted merge removes no file: a path that both parents have stays.
MergeKeepsFiles ==
    [][ConcludesMerge =>
          \A f \in Files : (/\ HeadTree(store, repo)[f] # Absent
                            /\ store[repo.merge].tree[f] # Absent)
                           => store'[repo'.head].tree[f] # Absent]_vars

\* Conflict text stays in quarantine: with the YAML and vault-api resolvers no commit of HEAD's history
\* has conflict markers in a file outside _conflicts/.
NoMarkersOutsideQuarantine ==
    \A c \in store[repo.head].anc, f \in Files : Marker \notin store[c].tree[f]

\* Commit c has p because another clone added it anew, beside a history that deleted it.
AddedElsewhere(p, c) ==
    \E here, there \in store[c].anc :
       /\ ~IsAncestor(store, here, there) /\ ~IsAncestor(store, there, here)
       /\ store[here].tree[p] = Absent
       /\ store[there].tree[p] = store[c].tree[p]
       /\ store[MergeBase(store, here, there)].tree[p] = Absent

\* A delete is answered after its push with the file gone from the pushed commit, the
\* merges of the push retry included, unless another clone has added it anew.
DeletePushed ==
    (pc = "pushed" /\ job.kind = "delete" /\ job.phase = "own" /\ HasRemote) =>
        \/ store[repo.tracking].tree[job.path] = Absent
        \/ AddedElsewhere(job.path, repo.tracking)

\* The commits of origin: its branch and its rescue branches.
OnOrigin == History(store, {origin.main} \cup origin.rescue)

PromiseOnOrigin(f) == \E v \in promised[f], c \in OnOrigin : v \in store[c].tree[f]

\* Every acknowledged write is delivered: it, or a later version of its file, reaches
\* origin, on the branch or on a rescue branch, unless the file is deleted.
Delivered == \A f \in Path : promised[f] # {} ~> (promised[f] = {} \/ PromiseOnOrigin(f))
============================================================================
