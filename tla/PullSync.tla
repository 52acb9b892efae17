------------------------------ MODULE PullSync ------------------------------
(***************************************************************************)
(* Pull of pkg/git/git.go: after the flush, the repository state is        *)
(* repaired, the upstream branch is fetched and one of four cases applies: *)
(* equal, fast-forward, push, or merge.  A conflicting merge is resolved   *)
(* path by path; a path its resolver gives up is quarantined.  What the    *)
(* YAML resolver writes into a file is the subject of YamlMerge; here it   *)
(* is the union of the two sides.                                          *)
(***************************************************************************)
EXTENDS WriteCoalescing

CONSTANT Resolver    \* the configured ConflictResolver; "vault" falls back on "yaml"

ASSUME ResolverConfig == Resolver \in {"marker", "yaml", "vault"}

StartPull ==
    /\ mode = "serving"
    /\ Start("pull", NoJob.path)
    /\ UNCHANGED <<store, repo, origin, pending, mode, promised, lastVer, left>>

\* No process holds a lock that a killed command left: g.mu is held here. With the
\* context done the probe cannot tell, and the lock stays.
cleanupStaleLocksForCycle ==
    /\ pc = "locks"
    /\ repo' = [repo EXCEPT !.lock = @ /\ ctxDone]
    /\ pc' = "recover"
    /\ UNCHANGED <<store, origin, pending, job, ctxDone, mode, promised, lastVer, left>>

\* An abandoned merge is aborted; a failed abort ends the pull as unrecoverable, and a
\* done context ends it at the HEAD and @{u} lookups.
recoverRepoState ==
    /\ pc = "recover"
    /\ CASE repo.merge = NoCommit ->
              /\ pc' = IF ctxDone THEN "failed" ELSE "fetch"
              /\ NoEffect /\ UNCHANGED <<ctxDone, left>>
         [] repo.merge # NoCommit /\ AbortRefused(store, repo) ->
              pc' = "failed" /\ NoEffect /\ UNCHANGED <<ctxDone, left>>
         [] OTHER ->
              Command(repo' = MergeAbort(store, repo) /\ UNCHANGED store, "fetch", "failed")
    /\ UNCHANGED <<origin, pending, job, mode, promised, lastVer>>

\* The four cases of syncWithUpstream for HEAD h and upstream u.
ForgetLocalCommits(h, u) ==   \* mutation
    LET base == MergeBase(store, h, u)
    IN IF h = u \/ u = base THEN "done" ELSE IF h = base THEN "ff" ELSE "merge"

SyncCase(h, u) ==
    LET base == MergeBase(store, h, u)
    IN CASE h = u -> "done"
         [] h # u /\ h = base -> "ff"
         [] h # u /\ u = base -> "push"
         [] OTHER -> "merge"

\* pullFetchSHAs, and the switch on what it read.
syncWithUpstream ==
    /\ pc = "fetch"
    /\ RemoteCommand(UNCHANGED origin, Fetch, SyncCase(repo.head, origin.main), "failed")
    /\ job' = [job EXCEPT !.caller = IF pc' = "ff" THEN "ff" ELSE "sync",
                          !.attempt = 1]
    /\ UNCHANGED <<store, pending, mode, promised, lastVer>>

\* merge --ff-only; on a dirty tree its failure leads to the rescue.
fastForwardOrRescue ==
    /\ pc = "ff"
    /\ LET next == IF ~ctxDone /\ Dirty(store, repo) THEN "rescueCommit" ELSE "failed"
       IN IF FastForwardRefused(store, repo, repo.tracking) \/ repo.lock \/ ctxDone
          THEN pc' = next /\ NoEffect /\ UNCHANGED <<ctxDone, left>>
          ELSE \/ RunOrCut(repo' = FastForward(store, repo, repo.tracking) /\ UNCHANGED store,
                           "done", "failed")
               \/ IoFault /\ pc' = next
    /\ UNCHANGED <<origin, pending, job, mode, promised, lastVer>>

---------------------------------------------------------------------------
(* resolveConflictMerge *)

OursDeleted(p) == HeadTree(store, repo)[p] = Absent
TheirsDeleted(p) == store[repo.merge].tree[p] = Absent

\* isUnderConflictsDir
Quarantined(p) == p \in Dests

\* classifyConflicts: when ls-files -u fails, every conflict is taken for one of content.
classifyConflicts ==
    \/ job' = [job EXCEPT !.handled = FALSE, !.classified = TRUE] /\ UNCHANGED left
    \/ job' = [job EXCEPT !.handled = FALSE, !.classified = FALSE] /\ Spend("io")

\* ensureConflictsDir: before the loop, only it touches the disk.
ensureConflictsDir ==
    /\ pc = "preflight"
    /\ \/ classifyConflicts /\ pc' = "resolve"
       \/ Spend("io") /\ pc' = "abort" /\ UNCHANGED job
    /\ UNCHANGED <<store, repo, origin, pending, ctxDone, mode, promised, lastVer>>

\* p is resolved in repository r, unless the command that does it failed.
Handled(p, r) == job' = [job EXCEPT !.todo = @ \ {p},
                                    !.handled = @ \/ (repo' = r /\ ~ctxDone')]

\* What quarantineOne reads before git rm removes it: the file as it is on disk.
OursOnly(p) == HeadTree(store, repo)[p]   \* mutation
Raw(p) == repo.work[p]

\* The resolver gives p up, and quarantineOne reads the file and names its copy.
StartQuarantine(p) ==
    /\ pc' = "qRm"
    /\ \E ts \in Stamps :
          job' = [job EXCEPT !.todo = @ \ {p}, !.path = p,
                             !.blob = Raw(p), !.dest = <<p, ts>>]

\* The text the vault-api and YAML resolvers make of a file with two sides in it.
AsConflicted(p) == repo.work[p]   \* mutation
Merged(p) == repo.work[p] \ {Marker}

StartResolver(p, step) ==
    /\ pc' = step
    /\ job' = [job EXCEPT !.todo = @ \ {p}, !.path = p, !.blob = Merged(p)]

\* The YAML resolver needs conflict regions, and may fail on any file.
ResolveYaml(p) ==
    /\ \/ Marker \in repo.work[p] /\ StartResolver(p, "yamlOpen")
       \/ StartQuarantine(p)
    /\ NoEffect /\ UNCHANGED <<ctxDone, left>>

\* sides: vault-api is asked only with a base, ours and theirs to send.
ThreeSides(p) ==
    {store[MergeBase(store, repo.head, repo.merge)].tree[p], HeadTree(store, repo)[p],
     store[repo.merge].tree[p]} \cap {Absent} = {}

\* vault-api answers with merged text, or the pull's context ends while it is asked;
\* whatever else happens leaves the path to the YAML resolver.
ResolveVault(p) ==
    \/ /\ ThreeSides(p) /\ StartResolver(p, "vaultOpen")
       /\ NoEffect /\ UNCHANGED <<ctxDone, left>>
    \/ /\ ThreeSides(p) /\ Cut
       /\ job' = [job EXCEPT !.todo = @ \ {p}] /\ pc' = "resolve" /\ NoEffect
    \/ ResolveYaml(p)

Resolve(p) ==
    CASE Resolver = "marker" ->
           StartResolver(p, "resolverAdd") /\ NoEffect /\ UNCHANGED <<ctxDone, left>>
      [] Resolver = "yaml" -> ResolveYaml(p)
      [] Resolver = "vault" -> ResolveVault(p)

\* A modify/delete conflict that could not be resolved goes the way of any other.
ResolveAfterAll(p) ==
    CASE Quarantined(p) -> StartResolver(p, "skip")
      [] ~Quarantined(p) /\ Resolver = "marker" -> StartResolver(p, "resolverAdd")
      [] OTHER -> StartQuarantine(p)

\* A path HEAD deleted takes the upstream version, which is a checkout and an add; a drained
\* quarantine entry is removed.
stageUpstreamVersion(p) ==
    \/ /\ RunOrCut(/\ repo' = CheckOutSide(repo, p, store[repo.merge].tree[p])
                   /\ UNCHANGED store, "stageTheirs", "resolve")
       /\ job' = [job EXCEPT !.todo = @ \ {p}, !.path = p]
    \/ IoFault /\ ResolveAfterAll(p)

acceptUpstreamDeletion(p) ==
    \/ /\ RunOrCut(repo' = Rm(repo, p) /\ UNCHANGED store, "resolve", "resolve")
       /\ Handled(p, Rm(repo, p))
    \/ IoFault /\ ResolveAfterAll(p)

resolveModifyDelete(p) ==
    IF OursDeleted(p) THEN stageUpstreamVersion(p) ELSE acceptUpstreamDeletion(p)

ModifyDelete(p) ==
    /\ job.classified
    /\ OursDeleted(p) \/ (TheirsDeleted(p) /\ Quarantined(p))

\* Modify/delete first, then paths already in quarantine, then the resolver.
resolveEachPath ==
    /\ pc = "resolve" /\ job.todo # {} /\ ~ctxDone
    /\ \E p \in job.todo :
          \/ ModifyDelete(p) /\ resolveModifyDelete(p)
          \/ /\ ~ModifyDelete(p) /\ Quarantined(p)
             /\ StartResolver(p, "skip") /\ NoEffect /\ UNCHANGED <<ctxDone, left>>
          \/ ~ModifyDelete(p) /\ ~Quarantined(p) /\ Resolve(p)
    /\ UNCHANGED <<origin, pending, mode, promised, lastVer>>

\* The local side of a quarantine entry stays; one that HEAD deleted has none.
skipQuarantinedPath ==
    /\ pc = "skip"
    /\ LET ours == HeadTree(store, repo)[job.path]
       IN IF OursDeleted(job.path)
          THEN pc' = "resolve" /\ NoEffect /\ UNCHANGED <<ctxDone, left>>
          ELSE Command(repo' = CheckOutSide(repo, job.path, ours) /\ UNCHANGED store,
                       "stageOurs", "resolve")
    /\ UNCHANGED <<origin, pending, job, mode, promised, lastVer>>

\* The git add of the side that is now on disk.
StageSide ==
    /\ pc \in {"stageTheirs", "stageOurs"}
    /\ LET added == Add(repo, job.path)
       IN \/ /\ RunOrCut(repo' = added /\ UNCHANGED store, "resolve", "resolve")
             /\ Handled(job.path, added)
          \/ IoFault /\ pc = "stageTheirs" /\ ResolveAfterAll(job.path)
          \/ IoFault /\ pc = "stageOurs" /\ pc' = "resolve" /\ UNCHANGED job
    /\ UNCHANGED <<origin, pending, mode, promised, lastVer>>

\* os.WriteFile of the merged text truncates the file first. A file that cannot be opened
\* is as git left it: after vault-api the YAML resolver still tries it.
ResolverOpen ==
    /\ pc \in {"vaultOpen", "yamlOpen"}
    /\ \/ /\ repo' = [repo EXCEPT !.work[job.path] = Blank]
          /\ pc' = "resolverWrite" /\ UNCHANGED <<job, left>>
       \/ /\ Spend("io") /\ UNCHANGED repo
          /\ \/ pc = "vaultOpen" /\ StartResolver(job.path, "yamlOpen")
             \/ StartQuarantine(job.path)
    /\ UNCHANGED <<store, origin, pending, ctxDone, mode, promised, lastVer>>

\* A disk that fills up here leaves the file empty, and the quarantine copies that.
ResolverWrite ==
    /\ pc = "resolverWrite"
    /\ \/ /\ repo' = [repo EXCEPT !.work[job.path] = job.blob]
          /\ pc' = "resolverAdd" /\ UNCHANGED <<job, left>>
       \/ Spend("full") /\ StartQuarantine(job.path) /\ UNCHANGED repo
    /\ UNCHANGED <<store, origin, pending, ctxDone, mode, promised, lastVer>>

\* The resolver's git add; the path is quarantined when the disk refuses it.
ResolverAdd ==
    /\ pc = "resolverAdd"
    /\ LET added == Add(repo, job.path)
       IN \/ /\ RunOrCut(repo' = added /\ UNCHANGED store, "resolve", "resolve")
             /\ Handled(job.path, added)
          \/ IoFault /\ StartQuarantine(job.path)
    /\ UNCHANGED <<origin, pending, mode, promised, lastVer>>

\* quarantineOne: rm the source, write and add the copy, restore HEAD's version. A step
\* that fails gives the path up where it stands.
QuarantineRm ==
    /\ pc = "qRm"
    /\ Command(repo' = Rm(repo, job.path) /\ UNCHANGED store, "qWrite", "resolve")
    /\ UNCHANGED <<origin, pending, job, mode, promised, lastVer>>

QuarantineWrite ==
    /\ pc = "qWrite"
    /\ \/ /\ repo' = [repo EXCEPT !.work[job.dest] = job.blob]
          /\ pc' = "qAdd" /\ UNCHANGED left
       \/ Spend("io") /\ pc' = "resolve" /\ UNCHANGED repo
    /\ UNCHANGED <<store, origin, pending, job, ctxDone, mode, promised, lastVer>>

SkipRestore == "restored"   \* mutation
AfterQuarantineAdd == "qRestore"

QuarantineAdd ==
    /\ pc = "qAdd"
    /\ Command(repo' = Add(repo, job.dest) /\ UNCHANGED store, AfterQuarantineAdd, "resolve")
    /\ UNCHANGED <<origin, pending, job, mode, promised, lastVer>>

QuarantineRestore ==
    /\ pc = "qRestore"
    /\ LET ours == HeadTree(store, repo)[job.path]
       IN Command(/\ repo' = TakeVersion(repo, job.path, ours) /\ UNCHANGED store,
                  IF ours = Absent THEN "resolve" ELSE "restored", "resolve")
    /\ UNCHANGED <<origin, pending, job, mode, promised, lastVer>>

QuarantineDone ==
    /\ pc = "restored"
    /\ job' = [job EXCEPT !.handled = TRUE]
    /\ pc' = "resolve"
    /\ UNCHANGED <<store, repo, origin, pending, ctxDone, mode, promised, lastVer, left>>

\* The loop is over, or its context is done: nothing handled aborts the merge, anything
\* handled commits it; git refuses the commit while a path is unmerged.
commitAndPushMerge ==
    /\ pc = "resolve" /\ (job.todo = {} \/ ctxDone)
    /\ IF job.handled /\ CanCommit(store, repo)
       THEN Command(CommitHead, "push", "abort")
       ELSE pc' = "abort" /\ NoEffect /\ UNCHANGED <<ctxDone, left>>
    /\ UNCHANGED <<origin, pending, job, mode, promised, lastVer>>

PullNext ==
    \/ StartPull \/ cleanupStaleLocksForCycle \/ recoverRepoState
    \/ syncWithUpstream \/ fastForwardOrRescue
    \/ ensureConflictsDir \/ resolveEachPath
    \/ skipQuarantinedPath \/ StageSide \/ ResolverOpen \/ ResolverWrite \/ ResolverAdd
    \/ QuarantineRm \/ QuarantineWrite \/ QuarantineAdd \/ QuarantineRestore
    \/ QuarantineDone \/ commitAndPushMerge
============================================================================
