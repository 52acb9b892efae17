------------------------------ MODULE GitRepo ------------------------------
(***************************************************************************)
(* The git commands that git-rest runs, as operators on a repository.      *)
(* git itself is not part of this repository: every operator below is      *)
(* modelled from the way pkg/git/git.go and main.go use the command, and   *)
(* agrees with git 2.39 (merge strategy ort).                              *)
(*                                                                         *)
(* A file's content is the SET of versions it carries: {} is a missing     *)
(* file, {v} is what one writer wrote, a union is what a merge produced.   *)
(* The element Marker says that git's conflict markers are in the text.    *)
(*                                                                         *)
(* The object store is a sequence of commits; a commit is its tree and the *)
(* set of its ancestors (itself included), so its index is its id and ids  *)
(* grow along history.                                                     *)
(*                                                                         *)
(* A repository is a record:                                               *)
(*   head, tracking  commits: HEAD and refs/remotes/origin/<branch>        *)
(*   index, work     trees: stage 0 of the index, and the files on disk    *)
(*   merge           the commit in MERGE_HEAD, or NoCommit                 *)
(*   unmerged        paths with stages 1-3 in the index                    *)
(*   lock            a .git/index.lock is present                          *)
(***************************************************************************)
EXTENDS Integers, Sequences, FiniteSets

CONSTANTS Files,    \* repo-relative paths outside _conflicts/
          Stamps    \* the unix seconds a quarantine can be stamped with

\* _conflicts/<path>.<ts>.md: a quarantine destination names its source and second.
Dests == Files \X Stamps

ASSUME PathConfig == Files \cap Dests = {}

Path == Files \cup Dests

Absent == {}
Marker == 0
Blank == {1}        \* an empty file
NoCommit == 0
Blob == SUBSET Nat
Trees == [Path -> Blob]

\* The highest common ancestor. origin's branch only fast-forwards and every
\* merge is made by this server, so the best common ancestor is unique.
MergeBase(s, a, b) ==
    CHOOSE c \in s[a].anc \cap s[b].anc : \A d \in s[a].anc \cap s[b].anc : d <= c

HeadTree(s, r) == s[r.head].tree

Unstaged(r) == {p \in Path : r.work[p] # r.index[p]}
Untracked(r) == {p \in Unstaged(r) \ r.unmerged : r.index[p] = Absent}

\* Paths `git diff --cached --name-only` lists, unmerged ones included.
StagedPaths(s, r) == {p \in Path : r.index[p] # HeadTree(s, r)[p]} \cup r.unmerged

\* `git status --porcelain` prints at least one line.
Dirty(s, r) == StagedPaths(s, r) \cup Unstaged(r) # {}

---------------------------------------------------------------------------
(* git add, rm, checkout, commit *)

Add(r, p) == [r EXCEPT !.index[p] = r.work[p], !.unmerged = @ \ {p}]

AddAll(r) == [r EXCEPT !.index = r.work, !.unmerged = {}]

\* `git rm` keeps a file whose staged or on-disk content HEAD does not have; an
\* unmerged path is exempt.
RmRefused(s, r, p) ==
    /\ p \notin r.unmerged
    /\ \/ r.index[p] = Absent
       \/ r.index[p] # HeadTree(s, r)[p]
       \/ r.work[p] \notin {Absent, r.index[p]}

Rm(r, p) == [r EXCEPT !.index[p] = Absent, !.work[p] = Absent, !.unmerged = @ \ {p}]

\* `git checkout --ours -- p` and `--theirs`: the index entry stays unmerged.
CheckOutSide(r, p, b) == [r EXCEPT !.work[p] = b]

\* `git checkout HEAD -- p`.
TakeVersion(r, p, b) == [r EXCEPT !.index[p] = b, !.work[p] = b, !.unmerged = @ \ {p}]

CanCommit(s, r) ==
    /\ r.unmerged = {}
    /\ r.index # HeadTree(s, r) \/ r.merge # NoCommit

\* git says "nothing to commit" only of a clean tree: with unstaged or untracked
\* files it says "no changes added" or "nothing added to commit" instead.
NothingToCommit(s, r) == r.merge = NoCommit /\ ~Dirty(s, r)

\* All that the members of P descend from, themselves included.
History(s, P) == UNION {s[c].anc : c \in P}

\* The store with one more commit, of tree t, whose parents are the members of P.
WithCommit(s, t, P) ==
    Append(s, [tree |-> t, anc |-> History(s, P) \cup {Len(s) + 1}])

\* The parents of the next commit: MERGE_HEAD is the second one.
Parents(r) == {r.head, r.merge} \ {NoCommit}

AtNewCommit(s, r) == [r EXCEPT !.head = Len(s) + 1, !.merge = NoCommit]

---------------------------------------------------------------------------
(* git merge, merge --abort, reset --hard, clean -fd *)

IsAncestor(s, a, b) == a \in s[b].anc

\* Both sides changed p, and differently.
BothChanged(s, a, b) ==
    LET base == s[MergeBase(s, a, b)].tree
    IN {p \in Path : /\ s[a].tree[p] # s[b].tree[p]
                     /\ s[a].tree[p] # base[p]
                     /\ s[b].tree[p] # base[p]}

\* git can merge two edits of one file by hunks; whether it does is the text's affair.
AutoMergeable(s, a, b) ==
    {p \in BothChanged(s, a, b) : s[a].tree[p] # Absent /\ s[b].tree[p] # Absent}

\* The three-way merge of a (ours) and b (theirs), the files in auto merged by hunks.
\* At an unmerged path: what git leaves in the working tree.
MergedTree(s, a, b, auto) ==
    LET base == s[MergeBase(s, a, b)].tree
        ours == s[a].tree
        theirs == s[b].tree
    IN [p \in Path |->
          IF p \in BothChanged(s, a, b)
          THEN ours[p] \cup theirs[p]
               \cup (IF p \in AutoMergeable(s, a, b) \ auto THEN {Marker} ELSE {})
          ELSE IF ours[p] = base[p] THEN theirs[p] ELSE ours[p]]

\* A fast-forward keeps going past local changes unless it must write those paths.
FastForwardRefused(s, r, u) ==
    \/ r.merge # NoCommit
    \/ r.unmerged # {}
    \/ \E p \in Path :
          /\ HeadTree(s, r)[p] # s[u].tree[p]
          /\ r.index[p] # s[u].tree[p]
          /\ r.index[p] # HeadTree(s, r)[p] \/ r.work[p] # r.index[p]

FastForward(s, r, u) ==
    LET moved == {p \in Path : HeadTree(s, r)[p] # s[u].tree[p]}
    IN [r EXCEPT !.head = u,
                 !.index = [p \in Path |-> IF p \in moved THEN s[u].tree[p] ELSE @[p]],
                 !.work = [p \in Path |-> IF p \in moved /\ r.index[p] = r.work[p]
                                          THEN s[u].tree[p] ELSE @[p]]]

\* A true merge refuses any staged change, and any unstaged one it would overwrite.
TrueMergeRefused(s, r, u) ==
    \/ r.merge # NoCommit
    \/ StagedPaths(s, r) # {}
    \/ \E p \in Unstaged(r) : MergedTree(s, r.head, u, {})[p] # HeadTree(s, r)[p]

MergeRefused(s, r, u) ==
    CASE IsAncestor(s, u, r.head) -> r.merge # NoCommit \/ r.unmerged # {}
      [] ~IsAncestor(s, u, r.head) /\ IsAncestor(s, r.head, u) -> FastForwardRefused(s, r, u)
      [] OTHER -> TrueMergeRefused(s, r, u)

\* Local edits of paths the merge does not touch stay in the working tree.
MergeInto(s, r, u, auto) ==
    LET result == MergedTree(s, r.head, u, auto)
        open == BothChanged(s, r.head, u) \ auto
    IN [r EXCEPT !.merge = u,
                 !.unmerged = open,
                 !.index = [p \in Path |-> IF p \in open THEN Absent ELSE result[p]],
                 !.work = [p \in Path |-> IF p \in Unstaged(r) THEN @[p] ELSE result[p]]]

\* reset --merge refuses a path that is staged and then changed again on disk.
AbortRefused(s, r) ==
    \/ r.merge = NoCommit
    \/ \E p \in Unstaged(r) \ r.unmerged : r.index[p] # HeadTree(s, r)[p]

\* Everything staged goes back to HEAD, whoever staged it.
MergeAbort(s, r) ==
    [r EXCEPT !.merge = NoCommit,
              !.unmerged = {},
              !.index = HeadTree(s, r),
              !.work = [p \in Path |-> IF p \in StagedPaths(s, r)
                                       THEN HeadTree(s, r)[p] ELSE @[p]]]

\* reset --hard leaves untracked files alone unless the target commit has them.
ResetHard(s, r, c) ==
    [r EXCEPT !.head = c,
              !.merge = NoCommit,
              !.unmerged = {},
              !.index = s[c].tree,
              !.work = [p \in Path |-> IF p \in Untracked(r) /\ s[c].tree[p] = Absent
                                       THEN @[p] ELSE s[c].tree[p]]]

CleanUntracked(r) ==
    [r EXCEPT !.work = [p \in Path |-> IF r.index[p] = Absent THEN Absent ELSE @[p]]]
============================================================================
