# git-rest: TLA+ models, checks and proofs

git-rest serves a git working tree over HTTP. It acknowledges a file write once it is
staged, commits and pushes later, pulls on a timer, resolves merge conflicts on its own,
and offers "claim refs" as leases shared by several instances. What makes it hard is what
happens between two git commands: another clone pushes, a context ends, the process dies.
This directory models those parts, checks them with TLC, and proves with TLAPS the claim
protocol, the flush window, the bootstrap, what the server's git commands must never do to
history, to a dirty tree and to a pull that reports success, and what an uninterrupted
conflict resolution must never do to the files.

Source paths are relative to the repository (`src/` here). Line numbers of every
definition are in `PROJECT.json` under `map`.

## 1. Inventory

### The parts, their state and their operations

| Part | State | Operations | Must be true of it |
|---|---|---|---|
| File writes and coalescing (`pkg/git/git.go`, `pkg/handler/files_*.go`) | working tree, index, `g.pending`, all under `g.mu` | `WriteFile`, `WriteFileIfAbsent`, `DeleteFile`, `FlushPendingIfDue`, `flushPendingLocked` | an acknowledged write survives everything and reaches origin; a delete is really pushed |
| Push with retry (`pushWithRetry`, `retryPush`) | attempt counter, HEAD, tracking ref | push, backoff, fetch, merge, push again | bounded; no commit lost; a conflict is left to the next pull |
| Dirty-tree rescue (`rescueDirtyTree`, `createRescueCommit`) | rescue commit and branch | commit the tree, push it, reset, clean | resets nothing that is not on origin; once per pull |
| Pull (`Pull`, `syncWithUpstream`) | HEAD, tracking ref, MERGE_HEAD, index.lock | flush, clear locks, abort an abandoned merge, fetch, one of four cases | a successful pull has converged; HEAD never loses a commit |
| Conflict resolution (`resolveConflictMerge`, `quarantineOne`, resolvers) | unmerged paths, `_conflicts/` | vault-api, YAML or marker resolver, modify/delete, quarantine, merge commit | no side lost, no file removed, no markers outside `_conflicts/` |
| Process life (`main.go`, `pkg/flusher`, `pkg/puller`) | memory is lost, disk is not | bootstrap, `recoverUntracked`, `RecoverPendingWrites`, startup pull, SIGTERM flush, crash | a restart finds what was promised |
| Claim refs (`pkg/git/claim_refs.go`) | `refs/claims/*` on origin | PUT, DELETE, GET; no lock | compare-and-swap: one winner, and an honest answer |
| Claim mirror (`pkg/git/claim_mirror.go`) | `refs/claim-mirror/*`, time of the last claims fetch | update after a write, replace by fetch, expire | shows only real claims, converges to the origin |
| Flush window (`FlushPendingIfDue`, `pendingBoundsLocked`, `pkg/flusher`) | first and last time of each pending path, the ticker | enqueue, due test at a tick, flush | bounded age of a pending write; one commit for a burst |
| YAML frontmatter merge (`yaml_merge_resolver.go`) | none; reads a conflicted file, the merge base and the parents' times | deep merge, scalar and counter rules, body rule | loses no text, no key twice, counters never lower, deleted keys stay deleted |
| Task-phase and frontmatter guards (`task_phase.go`, `writeFileLocked`) | none | normalise the phase, refuse a body | a task file stays one |
| Bootstrap: init, clone, re-clone (`main.go`) | the volume, a scratch clone in it | `initIfNeeded`, `cloneIfNeeded`, `recloneHeadless` | a half-made clone is never committed; the service comes up |
| Stale-lock probe | none | `lsof`, `/proc` scan | never removes a held lock |
| HTTP routing, validation, metrics, memory reporter | none the other parts read | | |

### How they interact

* `g.mu` serialises writes, deletes, flushes and pulls. Claim requests take no lock at all.
* The flusher and the puller are goroutines with a ticker. Both run on the service's
  context, which SIGTERM cancels; a write runs on its request's context, a pull on
  the puller's timeout, the flush of a pull on a third of that, the shutdown flush on a
  fresh 10 s context.
* The flush is called by the flusher, a delete, a pull and the shutdown. A failed flush
  ends a delete; a pull logs it and goes on.
* A push retry and a pull run the same merge with the same rescue, but only the pull
  hands a conflict to the resolver.
* A claim write updates the mirror after its push; the pull's `git fetch` overwrites the
  same refs through the claim refspec.
* The vault-api resolver is asked under `g.mu`; whatever it cannot do it leaves to the YAML
  resolver, and what that cannot do goes to quarantine.
* A boot that finds no usable HEAD clones into a scratch directory inside the volume and
  swaps the entries; the recoveries after it commit whatever they find.

### What is hard

Interleaving with other clones between any two git commands; a context that ends between
or inside them (and takes the clean-up commands with it); a crash anywhere, with the
half-done state committed by the next boot; failures after which a client sends the same
request again; pushes that land and are reported as failed; unlocked writers of the
mirror. `PROJECT.json` lists these as hazards, each at its line.

## 2. Plan

Order of work, most important behaviour first.

1. `GitRepo`, `WriteCoalescing`, `PullSync`, `GitRest`: the file path, end to end. **Done.**
2. `ClaimLease` (abstract), `ClaimRefs`: the claim protocol and its refinement. **Done**,
   with the proofs `ClaimRefsProofs` and `ClaimLeaseProofs`.
3. `FlushWindow`: quiet window and maximum delay in discrete time. **Done**, with
   `FlushWindowProofs`.
4. `Bootstrap`: clone, init and re-clone with a crash at every step. **Done.**
5. `YamlMerge`: the frontmatter merge and the task-file rules. **Done.** The resolvers of
   `PullSync` step by step, with vault-api. **Done.**
6. `BootstrapProofs`: the safety properties of `Bootstrap` for every set of files and any
   number of crashes. **Done.**
7. `GitRestProofs`: `TypeOK`, `HeadOnlyAdvances`, `RescueDiscardsNothing`, `RescueOnce` and
   `PullConverges` for every set of files and every budget. **Done.**
8. `QuarantineProofs` and `MergeProofs`: what `GitRest` promises of conflicts under conditions
   on the faults, `NoMarkersOutsideQuarantine`, `NoMergeLeftOpen`, `MergeKeepsFiles` and
   `ConflictSidesKept`, on top of `ServerInv`. **Done.**
9. `DurableProofs`: `AckedDurable` under the conditions of `MergeProofs`. **Done.**

Composition: `GitRepo` ← `WriteCoalescing` ← `PullSync` ← `GitRest` by `EXTENDS`;
`ClaimRefs` instantiates `ClaimLease`. `FlushWindow`, `Bootstrap` and `YamlMerge` refine
one aspect each that `GitRest` leaves open: when a flush comes, what a boot starts from, and
what text a resolver writes.

## 3. The modules and the code

### `GitRepo` — the git commands (external)

git is not part of the repository, so its commands are modelled from how `git.go` and
`main.go` call them; the operators were compared with git 2.39. A repository is a record
of `head`, `tracking`, `index`, `work`, `merge` (MERGE_HEAD), `unmerged` and `lock`
(index.lock). A file's content is the **set of versions** in it: `{}` is no file, `{v}` is
one writer's body, a union is a merge of bodies, and the element `Marker` says the text has
conflict markers. That is all the properties tell apart: whether a body is still somewhere,
and whether markers are. Whether two edits merge by hunks depends on text, so it is a free
choice (`auto`). A quarantine copy `_conflicts/<path>.<ts>.md` is the pair of its source
and its second.

### `WriteCoalescing` — writes, deletes, flush, push, rescue

`g.mu` allows one holder, so there is one `job` with a `pc`; each git command is one step.
`RunOrCut`, `Command` and `RemoteCommand` are what `runCmd` and `runCmdRaw` can do:

* with the context done, `exec.CommandContext` starts nothing and the call fails;
* if the context ends during the command, git is killed before or after its effect, and one
  killed before it may leave `index.lock`;
* a disk fault fails the call; a network fault fails it before or after origin has done its
  part, as a cut does. This is how a push that landed and was reported as failed enters the
  file path, whoever pushes: a flusher's tick, a pull or the recovery of a boot.

A flusher's tick runs on the service's context, which has no deadline: it is cut only after
SIGTERM has come (`Cut`), and then inside or between its commands like any other. A SIGTERM
during boot has no cut of its own: nothing is served yet, and what it leaves is what `Crash`
leaves.

`promised[f]` is an observer. After a 200 it holds the one version answered; a later body
that has not been answered yet is added to it, since either may be kept then; a delete
answered 200 empties it.

Three constants describe the environment rather than the code. `Budget` says how often
each kind of event (request, upstream commit, cut, disk fault, network fault, SIGTERM,
crash) may happen in a behaviour. `Cuttable` says which jobs' contexts may end early.
`ResendFailed` says whether clients repeat a body that was answered with 500. The passing runs
that leave out a case do so because a violation run shows what that case does (section 5).

### `PullSync` — the pull and the conflict loop

One action per step of `Pull`: lock clean-up, `recoverRepoState`, the fetch with the
four-way switch, the fast-forward with its rescue, `ensureConflictsDir`, the steps of the
resolver on each conflicted path, the `git checkout` and the `git add` of a modify/delete or
of a path already in quarantine (`stageUpstreamVersion`, `skipQuarantinedPath`,
`StageSide`), the four commands of `quarantineOne` one by one (they can fail or be
interrupted between each other), and the merge commit. After the commit the pull continues
in `pushWithRetry` of `WriteCoalescing`.

`Resolver` is what `selectResolver` chose. The marker resolver stages the file as it is. The
YAML resolver may give a path up at once (quarantine), or opens the file for writing, which
empties it, writes the merged text, and stages it; each of the three can fail or be the last
thing the process does. The vault-api resolver asks the service when all three sides of the
path exist; on any failure of the question or of its write, the YAML resolver takes the
path. Only the end of the pull's context while vault-api is asked ends the path there.
`classifyConflicts` may fail, and then every conflict is taken for one of content. The
answer of vault-api is external: it is assumed to carry both sides' text, as `Merged` does
for YAML; what the YAML rules really make of a text is `YamlMerge`'s subject.

### `GitRest` — the whole server

Adds boot (lock removal, `recoverUntracked`, `RecoverPendingWrites`, startup pull), SIGTERM
(cancels a running flusher or puller job, then the shutdown flush, then exit), crash at any
step, and `UpstreamCommit`, another clone's push. The properties are stated here.

### `ClaimLease` and `ClaimRefs` — claims

`ClaimLease` is the promise: a compare-and-swap register per ref whose callers learn that
they won, that they lost, or that they must be in doubt. `ClaimRefs` is the code: several
instances, requests that take no lock, one step per git command. A PUT's commit carries a
nonce, so it is named by its request. A push that failed for its client may still land
later (`PushLandsLate`); a push can also be refused because another one holds the ref's
lock on origin (`Contended`), which `isLeaseConflict` counts as a 409. A push that git
reports as landed also moves the mirror, because the claim refspec makes the mirror ref the
push's tracking ref (`PushReported`). `ConfigureClaimMirror` is two commands, the refspec and
`remote.origin.prune`, and the boot only logs a failure of either: `refspec` and `prune` are
separate, at `Init` and at every `Restart`. A fetch that carries the refspec makes the mirror
fresh (`recordClaimMirrorFetch`) and removes what origin no longer has only with `prune`
(`Fetched`).

### `FlushWindow` — when a flush comes

Time passes in units (`Advance`); a stamp of the code is here how long ago it was. The
ticker has one buffered tick, as a Go ticker has, and drops further ones. A pull or delete
takes `g.mu`, flushes first whether or not the set is due, and works on. A flush commits,
which empties the set whatever the push does, or fails to commit, which leaves it. Writers
take no time. `MaxHold` bounds how long a flush or a pull has `g.mu`: a pull has its timeout
(and its flush a third of it), but the flusher's own flush has no deadline in the code, so
there it is an assumption. `MaxDelay` is at least 1, because the code reads 0 as "no bound".
`grace` and `quiet` are observers.

### `Bootstrap` — init, clone, re-clone, recover

`bootstrap` and its helpers in `main.go`, step by step, on a volume an earlier process left:
nothing, files without `.git`, a `.git` without a commit, or a repository with untracked,
staged and committed files of its own. `git clone` (external) is four steps: `.git`, HEAD
with the index lock, the files one at a time, the index. The swap of `recloneHeadless`
removes and renames one entry at a time. Any call may fail, which ends the process through
the deferred removal of the scratch directory; a kill leaves it as `litter`. A push is one
step: what other clones do to it is `GitRest`'s subject. `CheckoutCuts` says whether a
first clone, the one straight into the volume, can be interrupted in its checkout
(section 5, `clone_checkout`).

### `YamlMerge` — one conflicted file

A file is a sequence of lines; of a line the model keeps its kind (marker, delimiter, blank,
scalar, other key, text), key and value. The model puts a conflicted file together from
common chunks and conflict regions the way git cuts them, chooses what git answers about
the merge base and the parents' times, and applies `resolveOne`: `Balanced` and `Regions` are
the region scanner, `TakesDeepMerge` is the test of `splitConflictSides`, `RulesApply` the
plan and the decisions of `applyPartitionedRules`. The same module has the guards on a
client's body, since they protect the same file. Operators keep the names of the
functions they stand for.

### Mutations

Operators that end in `\* mutation` are wrong variants of the definition below them. They
are not used by any specification; `PROJECT.json` pairs each with the property that fails
when the variant replaces the original.

## 4. Passing runs

| Run | Shows | States |
|---|---|---|
| `crash` | `AckedDurable`, `NoMergeLeftOpen`, `HeadOnlyAdvances`, `PullConverges` with two requests, one upstream commit, a cut flush, a network fault and a crash, in every order | 863k |
| `conflicts` | `ConflictSidesKept`, `MergeKeepsFiles`, `NoMarkersOutsideQuarantine`, `TypeOK`, `RescueDiscardsNothing`, `RescueOnce`: two requests against two upstream commits on two files; a write cut at `git add` leaves a dirty tree that a merge or fast-forward runs into | 1.66M |
| `delivery` | `Delivered` and `DeletePushed` through SIGTERM, also in the middle of a tick's command, a crash and a cut flush | 175k |
| `faults` | `NoMarkersOutsideQuarantine`, `DeletePushed`, `PullConverges`, `HeadOnlyAdvances` with coalescing off: two requests and two upstream commits on two files, a disk fault in any step of resolver, modify/delete and quarantine, and a delete's request or a pull whose context ends at any step | 7.65M |
| `claims` | `OneWinner`, `NoGhostClaims`, `MirrorHeals`, `TypeOK`, and `ClaimLeaseSpec`: the endpoints refine the register | 402k |
| `yaml_merge` | `NothingLost`, `NoDuplicateKey`, `CountersOnlyGrow`, `NoResurrection`, `TaskFilesStayTasks` over every file of three chunks, every base and every order of the parents | 2.39M |
| `bootstrap` | `RemoteFilesKept`, `ServesWholeTree`, `NoScratchInRepository`, `DiscardsOnlyNamed`, `EventuallyServes` with two kills and two failures | 16k |
| `flush_window` | `AgeBound`, `OneCommitPerWindow`, `Drained` with writers that never pause and a failing commit | 93k |

### Bounds

* Two requests are the least at which one write meets the leftovers of another; the
  file scenarios of the findings need two at most. One upstream commit makes a push fail and a
  merge necessary, two make the retry's second push fail as well.
* `PushMaxAttempts` is 2 instead of 5: it has a first, a middle and a last attempt's code
  paths, since every retry is alike.
* One or two files: two are needed where a write of one file is staged beside a merge of
  another. One second in `Stamps`; two quarantines of one file then collide, the worse case.
* One fault of each kind. Runs with more kinds of fault have fewer files or shorter histories:
  `faults` has no network fault and no crash, which `crash` has.
* Claims: three requests are the smallest case with two rivals and a successor. One instance
  is enough for the run, in each of the three states its configuration can be in: requests
  take no lock, so two of one instance interleave as two of different ones do, mirrors do
  not interact, and the theorems cover any number.
* YAML: two regions are the least at which one region's key can meet another's; three
  chunks put lines above, between or below them. The lines are chosen so that the deep merge,
  the rules, each way they decline, and a region across the delimiter all occur.
* Bootstrap: two remote files make a half of a checkout; the second kill hits the boot that
  repairs the first. Further ones start from volumes the run already has.
* Flush window: the delays are different, the tick is longer than one unit, and a hold of
  `g.mu` longer than a tick, so that ticks are dropped. In the passing runs a pull may come at
  any time and flushes early; the bound is met by the behaviours in which none does.

### Fairness

`FairSpec` of `GitRest`: a job runs to its end (handlers have deadlines or finish, nothing
blocks on another job); a dead process is restarted and a terminating one finishes; the
flusher and the puller are **strongly** fair because their tickers never stop and Go's
mutex hands over to its longest waiter, while `g.mu` may be taken and freed infinitely
often. Nothing is assumed of clients or of other clones. `FairSpec` of `ClaimRefs`:
handlers finish, the puller ticks. `FairSpec` of `Bootstrap`: the boot runs on, and
Kubernetes starts a dead process again. `FairSpec` of `FlushWindow`: time passes, a tick is
served once `g.mu` is free, its holder goes on; no pull need ever come, so `Drained` is the
flusher's doing. Faults are bounded by the budgets: a network that fails for ever delivers
nothing.

## 5. Findings

Each violation run checks one sentence of the docs or comments and TLC finds a behaviour of
the code against it. `PROJECT.json` quotes the sentence.

| Run | Behaviour |
|---|---|
| `resend_unstaged` | `git add` fails after the file is on disk (500). The client repeats the body; the unchanged-content check answers 200 and nothing is staged. With coalescing off the same check answers 200 for a body whose push failed. |
| `pull_timeout_loss` | The pull's budget ends in a conflicted merge; the abort runs on the same context, so it does not run, and the merge stays open. A write of another file is then staged and acknowledged, and the next pull's `merge --abort` discards it. |
| `crash_quarantine` | A crash after `quarantineOne`'s `git rm`: boot commits the index, which concludes the merge without the file. |
| `clone_checkout` | `git clone` sets HEAD before it checks files out. A process killed there leaves a `.git` whose HEAD resolves and half a tree; the next boot takes it for usable, and `recoverUntracked` (without an index every file is untracked) commits and pushes the missing files as deletions. The order of git's steps was observed with git 2.39. |

The passing runs leave out the triggers of these: `Cuttable` has no `"pull"`, `"write"` or
`"delete"` where `AckedDurable`, `NoMergeLeftOpen` or `Delivered` is checked (a delete whose
request ends in the conflict of its push retry leaves the merge open as a pull does; `faults`
has both, for the properties that hold then), a pull meets SIGTERM only where its context may
end, `ResendFailed` is false, `MergeKeepsFiles` is checked without crashes, and `bootstrap`
has `CheckoutCuts` false. A crash inside a conflicted merge is part of the `crash` run.

A delete has a gap of the same kind as `resend_unstaged`, which no property states: if it
fails after `git rm`, the repeated delete finds no file and answers 200 with no commit.
`DeletePushed` speaks of the deletes that reach their push: the file is gone from the pushed
commit, the merges of the push retry included, or another clone has added it anew beside a
history that deleted it (`AddedElsewhere`); such a file is the other clone's.

### Other disagreements met while modelling

These have no run of their own.

* A 200 does not say that a write is on origin, with coalescing off either, where
  `docs/deployment.md:48` has each write commit and push before it is answered
  (`specs/completed/001-git-rest-server.md:25`: "Every mutation is committed and pushed"). A
  repeated body whose push failed takes the unchanged-content check (`git.go:794`), and a
  write whose commit finds nothing to do is answered without a push (`git.go:824`) while an
  earlier commit may be unpushed. No property claims it; `Delivered` says what is true with
  coalescing, that the write gets there.
* If the second command of `ConfigureClaimMirror` fails, the boot logs "claim reads will use
  the live origin" (`main.go:619`). But the refspec is there, so the next fetch makes the
  mirror fresh (`claim_mirror.go:91`) and claims are read from it; without
  `remote.origin.prune` a claim deleted through another instance stays listed, and no pull
  heals that until a boot can set it (`claim_mirror.go:210`). `MirrorHeals` speaks of such a
  mirror too: a vanished claim is all that stays wrong in it.
* A truncated file can be committed over a promise: an earlier write of another file died before its
  `git add` and left it untracked, a write dies between the truncation and the write
  (`git.go:804`), and the boot's `add -A` takes the empty file in place of the staged, acknowledged
  version. TLC finds it with a budget of three requests, one disk fault and one crash;
  `crash` has one request less and no disk fault.
* A disk fault in `quarantineOne` after its `git rm` gives the path up, and a merge that another
  path concludes has the file no more, as in `crash_quarantine` without a crash.
* If `merge --abort` itself fails (event `io`), the merge stays open, and the commit of a
  later delete concludes it with what is in the index: the other clone's edit is in no file
  then. `ConflictSidesKept` is checked without disk faults.
* After a 500 whose claim push landed, the list that `docs/api.md:122` tells the caller to do
  answers from the mirror, which does not have the claim until the next fetch
  (`claim_refs.go:394`).
* `update-ref` after a claim push takes no lock: a slower earlier write can put its older
  commit into the mirror after a newer write's 200 (`claim_mirror.go:214`; spec 022, line 24).
  `MirrorHeals` says that it does not stay so.
* `splitConflictSides` joins the regions of a side. With a thematic break `---` in two body
  regions the joined text looks like a frontmatter block, the file takes the deep merge
  instead of the rules, and a key can be written twice (spec 024, line 48;
  `docs/deployment.md:234`). The files of `yaml_merge` leave this case out.
* The deep merge is a union in which theirs wins. A counter can go back there and a deleted
  key come again, so `CountersOnlyGrow` and `NoResurrection` speak of the rules.
* A resolver's `os.WriteFile` that fails after the truncation (event `full`) leaves an empty
  file for `quarantineOne` to copy; both sides are then only in the parents of the merge.
  `conflicts` gives the event no budget.
* SIGTERM during the flush of a tick whose push retry meets a conflict ends the context that
  `merge --abort` would run under, so the merge stays open while the process drains. A write
  of another file is staged and answered 200 in that time, and the `merge --abort` of the next
  boot's pull discards it. This is `pull_timeout_loss` by another way; `crash` has no SIGTERM.
* A file that is quarantined twice in one second, whose first copy is meanwhile drained by one
  side and edited by the other, can lose the text of the second quarantine (section 6,
  `FreshCopy`).

## 6. Proofs

### Claims

`ClaimRefsProofs` and `ClaimLeaseProofs` prove, for any instances, refs, requests and
number of faults:

* `TypeCorrect`: `Spec => []TypeOK`;
* `OneWinnerHolds`: `Spec => []OneWinner`;
* `NoGhosts`: `Spec => []NoGhostClaims`;
* `ClaimsImplementLease`: `Spec => ClaimLeaseSpec`, the refinement.

The only assumption is `ClaimConfig`: `NoSha` is no request, key or instance, `Faults` is a
number, and the pulling instances are instances. TLC evaluates it in the claim runs.

`OneWinner` is not inductive: nothing in it stops a ref from returning to a value that one
request has already consumed. `IInv` adds what the code relies on: `Shape` (the place of a
request tells what it is and whether it landed), `Sound` (every value in a ref, a mirror, a
fetch or a listing is a commit that landed on that ref), and `Consumed` (the value a landed
request replaced had landed, and the ref has left it). A ref's new value is always the
name of a request that had not landed before, so it cannot be a consumed one. The steps are
sorted by what they do (`Takes` one push, or `LandsNothing`), so each invariant is proved
from these two facts and not once per action; `MirrorSources`, `AdvertisedSources` and
`SeenSources` say where a mirror, a fetch or a listing can get its values. The refinement
maps `pc` and `landed` to the caller's view (`CallOf`): each step is an `Invoke`, `Swap`,
`Refuse`, `Doubt` or a stutter.

### Flush window

`FlushWindowProofs` proves, for any paths, delays, tick, hold and number of failures, under
`WindowConfig` (natural numbers; the maximum delay and the tick are positive):

* `PendingAgeBounded`: `Spec => []AgeBound`;
* `BurstCommitsOnce`: `Spec => []OneCommitPerWindow`.

`AgeBound` alone is not inductive: a write may be at the bound while `g.mu` is free and no
tick is near. `AgeInv` says for every holder of `g.mu` how much of the bound is left: with
`g.mu` free and no tick waiting, the write is younger than the maximum delay plus the time
since the last tick, since that tick would have taken it otherwise; a flush adds the time it
has held the mutex; the work of a pull starts on an empty set, or after a failed flush that
has granted a hold and a tick. `QuietInv` says that no pending stamp is older than the
flusher's last commit, so whichever delay is over for a write is over since that commit.
Both need the shape (`WindowTypeOK`), and that the third a pull gives its flush is part of
its time (`BudgetWithinHold`). Each has one lemma with one step per action.

### Bootstrap

`BootstrapProofs` proves, for any local and remote files, any number of kills and failures
and any volume of `Init`, that

* `NoDeletionPushed`: `Spec => []RemoteFilesKept`;
* `WholeTreeServed`: `Spec => []ServesWholeTree`;
* `NoScratchCommitted`: `Spec => []NoScratchInRepository`;
* `OnlyNamedDiscarded`: `Spec => DiscardsOnlyNamed`,

each under `~CheckoutCuts`. The condition is needed: with it false, `clone_checkout` refutes
the first one. None of the four is inductive. The invariant `BootInv` says for every stage
of a boot what the two directories can hold: a usable repository is whole except while a
first clone checks it out (`HeadInv`); a first clone has found an empty directory, so what
has arrived is what the remote has (`FirstCloneInv`); a re-clone has listed every local file
before its scratch clone is complete (`RecloneInv`); during the swap each remote file is in
one of the two directories and `.git` moves last (`SwapInv`). A kill in the swap therefore
leaves either no `.git`, which the next boot clones again, or a whole repository.

### The server

`GitRestProofs` proves, for any files, budget of faults and requests, cuttable jobs, number
of push attempts, resolver and either mode of writing:

* `TypeCorrect`: `Spec => []TypeOK`;
* `HistoryNeverRewritten`: `Spec => HeadOnlyAdvances`;
* `RescueIsLossless`: `Spec => []RescueDiscardsNothing`;
* `OneRescuePerPull`: `Spec => []RescueOnce`;
* `SuccessfulPullConverged`: `Spec => []PullConverges`.

The assumptions are those of the modules (`PathConfig`, `WriteConfig`, `ResolverConfig`,
`InitConfig`), which TLC evaluates in every run of the server. No fault is excluded: a cut, a
crash, SIGTERM, a disk or network fault and a push of another clone may come at every step.

The inductive invariant is `ServerInv` = `Shape /\ HistoryInv /\ Core`:

* `Shape` is `TypeOK` with what keeps refs and paths in range (`StepInv`): the conflict loop
  has a merge to resolve, and a rescue that is pushed has its commit.
* `HistoryInv`: a commit descends from itself, from the first one and from nothing younger.
  HEAD moves to a new commit above it or fast-forwards, so it only advances, with one
  exception: `reset --hard` of the fast-forward path moves it to the tracking ref.
* `AheadInv` covers that one: from the four-way switch to the reset upstream descends from
  HEAD, because both belong to the holder of `g.mu` and only its own fetch moves upstream.
* `RescueInv`: the rescue commit is the working tree, and origin has it before the reset.
* `OnceInv`: after reset and clean the tree is clean, and still is when the state machine is
  back at the fast-forward, so a second rescue cannot start.
* `MergeInv`, `KindInv` and `DoneInv`: nothing is fetched or pushed inside a merge, a pull
  commits staged writes in its flush only, and what a pull's last push leaves.
* `CallerInv`: which callers the merge and the rescue have.

`Shape` is proved first, one lemma per group of actions; the steps of the conflict loop
share one summary (`LoopStep`: store and refs stay). `Core` is then proved from what each
action does to the refs. TLC checked `ServerInv` on instances with all kinds of fault before.

### Conflict text

`QuarantineProofs` proves `MarkersStayQuarantined`, `Spec => []NoMarkersOutsideQuarantine`, for
the YAML and the vault-api resolver (`Resolver # "marker"`: the marker resolver commits markers
on purpose) and a process that is neither killed nor stopped (`OneLife`). Every other fault may
come at any step. The condition is needed: a boot stages whatever is on disk, and with a crash
between the merge and its resolution TLC finds markers in a commit of `recoverUntracked`.

`MarkInv` says where markers can be: in no commit, a rescue's included (`CleanStore`), not in
the index, and on disk in unmerged files only (`CleanRepo`). The latter is what a merge that
stays open leaves for the next jobs; `git commit` refuses an unmerged index, and `merge --abort`
and `reset --hard` rewrite those files. `StagingInv` follows the text that a `git add` is about
to stage: a client's body, a resolver's text, or a copy under `_conflicts/`. A rescue commits
the tree as it is, and `RescueTreeInv` says that nothing is unmerged then.

### Undisturbed merges

`MergeProofs` proves, for a server on which no process dies, the disk works, and the contexts
that end are those of a pull's flush or, with coalescing, of a write (`Undisturbed`):

* `MergesEnd`: `Spec => []NoMergeLeftOpen`, with any resolver;
* `MergesKeepFiles`: `Spec => MergeKeepsFiles`, with the YAML or the vault-api resolver;
* `ConflictsKeepSides`: `Spec /\ []FreshCopy => ConflictSidesKept`, with these resolvers and a
  disk that does not fill up.

Requests, pushes of other clones, network faults and, but for the last, a disk that is full
while a resolver writes stay unlimited, and a cut flush may leave `index.lock` or a merge of its
push retry behind. The runs show why the rest is excluded: `pull_timeout_loss` leaves a merge
open when the pull itself is cut, `crash_quarantine` removes a file, and a disk fault can make
`merge --abort` fail (section 5). The run `conflicts` is an instance of the conditions.

`Calm` is the inductive invariant of the first:

* `OpenInv` says where a merge can be open: in the conflict loop, on the way to its abort,
  or, after a cut, in the failed flush of a pull, which the same pull repairs. git refuses an
  abort while a file is staged and then changed again; `Abortable` says that it is not so,
  except for the quarantine copy between its write and its `git add`.
* `PullInv` and `CalmInv`: only a pull's own part repairs and resolves, and no context ends
  there, so the steps of the loop succeed (`Undelayed`, `EachPathCases`, `LoopCases`).
* `PathInv`: the files still to do are unmerged, one that was begun is not to do again, and
  a quarantine copy is no file outside `_conflicts/`.

`KeepInv` is the second's: a file of both sides is unmerged, or staged, or is the one whose
quarantine is between `git rm` and the return of HEAD's version, and a resolver has text to
write for it. At the start of the loop this takes `MarkInv`: an unmerged file carries HEAD's
text, since git refuses to merge into a changed file whose merge has markers, and HEAD's text
has none. `git commit` needs every path merged, and `EntersLoop` and `OnlyCommitConcludes` say
that nothing else begins the loop or ends a merge with a commit.

`SideInv` is the third's. It follows the two sides of each file in conflict: both are on disk
when git stops (`OpensSides`), then in the text a resolver writes or the copy a quarantine
makes, and staged in the file or its copy before the file is merged (`Landed`). Where theirs
deleted the file the disk may have a local edit instead, which git leaves there; that file goes
to quarantine and HEAD's version is restored. `TouchInv` says that the loop touches only files
in conflict and the copy of the one it has taken up, so that nothing landed is taken away.

`FreshCopy` is the theorem's condition on the clock: a quarantine does not take the path of an
earlier copy, of the same file and second, that is itself in conflict. Without it the property
is false: where a copy has been pushed, then drained by one side and edited by the other, and its
file is quarantined again in that second, the modify/delete of the old copy takes the new one's
place. TLC finds this with three requests and three upstream commits of one file and its copy;
at the bounds of `conflicts` `FreshCopy` always holds.

### Acknowledged writes

`DurableProofs` proves `AckedWritesDurable`, `Spec => []AckedDurable`, on the servers of
`MergeProofs` whose clients do not repeat a body that failed (`~ResendFailed`), with any
resolver, with and without coalescing. Both conditions are needed: `resend_unstaged` loses a
repeated body that is still on disk but no longer staged, `pull_timeout_loss` a write that is
staged while a cut pull has its merge open. Process deaths are left to TLC: `crash`
checks the property through them. `conflicts` is an instance of the conditions.

The inductive invariant is `Durable`, on top of `ServerInv`, `LifeInv` and `Calm`:

* `DurInv`: one of the promised versions of a file is in a reachable commit (`Held`), or is
  staged with no merge open (`StagedSafe`). To be staged is not enough by itself, because a
  merge's abort drops what is staged. Nor is it enough while a rescue is to come, whose commit
  is made from the tree: so the version is on disk too, except between the truncation and
  the write of the file's next body.
* `FreshInv`: no text anywhere has a version above `lastVer`. A new body therefore differs from
  what is on disk, and `AfterNothing`, which answers 200 without a commit, is never reached by
  a write whose body is still to be committed.
* `AckInv`: what a write has done before its answer, place by place: its version is on disk,
  staged, committed. `RequestInv`: which job is at those places.
* `TransInv`: descent is transitive, so that what is reachable stays reachable when a branch
  moves, an upstream commit comes or a merge is concluded (`ReachGrows`).

The main lemma of a step is `KeepsText`: outside a write's own staging, no step takes a text
out of the index and the tree unless a commit that can be reached afterwards has it. It is
shown per place: commits land what is staged, the rescue's commit lands what is on disk before
`reset --hard` and `clean`, and a merge rewrites only files that are as HEAD has them, which is
itself reachable. `PromiseStep` joins it with what the write under way adds. Before the proof
TLC checked `Durable` on instances of up to 6.7 million states.

## 7. Only model-checked, and not modelled

* Liveness (`Delivered`, `MirrorHeals`, `EventuallyServes`, `Drained`) is outside the prover;
  TLC checks it at the bounds above. `YamlMerge` is about sequences of any shape, which takes
  induction over data, and stays with TLC.
* Of `GitRest`, the safety property that is only model-checked is `DeletePushed`, in `delivery`
  and in `faults`.
* Not modelled: how the lock probe finds a holder (`lsof` and `/proc`; its result is a step
  of `PullSync`); abandoned rebases and detached HEADs, which no operation of the server
  makes; HTTP routing, authentication and validation, which keep no state; metrics, logs
  and the memory reporter, which no part reads; a remote branch without a commit, on which
  `recloneHeadless` fails in `ls-tree`; a failing `rev-parse` on a healthy repository; two
  rescue branches in one second, which is a failed rescue push.
* Apart from `FlushWindow`, time is not modelled: a deadline is a cut at any moment, a
  backoff is a moment in which others may push, the flush window may be over at any time.
