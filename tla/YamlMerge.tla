----------------------------- MODULE YamlMerge -----------------------------
(***************************************************************************)
(* What the YAML resolver makes of one conflicted file                     *)
(* (pkg/git/yaml_merge_resolver.go), and what a write may do to a task     *)
(* file (task_phase.go and the guards of writeFileLocked).                 *)
(*                                                                         *)
(* A file is a sequence of lines; of a line the model keeps what the code  *)
(* looks at: a conflict marker, a frontmatter delimiter, an empty line, a  *)
(* top-level `key: scalar`, a top-level key of any other shape, or text.   *)
(* A conflicted file is put together chunk by chunk, a common chunk or a   *)
(* conflict region at a time, and then resolved.                           *)
(***************************************************************************)
EXTENDS Integers, Sequences, FiniteSets, SequencesExt

CONSTANTS Commons,      \* the chunks both sides have: sequences of lines
          Sides,        \* what one side can have in a conflict region
          Contents,     \* what a client writes to the file
          MaxChunks, MaxRegions   \* bounds on a conflicted file

---------------------------------------------------------------------------
(* Lines *)

Line(t, k, v) == [kind |-> t, key |-> k, val |-> v]
Open == Line("open", "", 0)
Sep == Line("separator", "", 0)
Close == Line("close", "", 0)
Delim == Line("---", "", 0)
Blank == Line("blank", "", 0)
Text(n) == Line("text", "", n)
Scalar(k, v) == Line("scalar", k, v)
Nested(k) == Line("nested", k, 0)      \* a list, a mapping, a block scalar

\* The keys, in the order YAML sorts them: the phase, and one that isCounterKey accepts.
KeyOrder == <<"phase", "trigger_count">>
Keys == Range(KeyOrder)
isCounterKey(k) == k = "trigger_count"

NotAnInteger == 0      \* a value of a counter that is no integer
InProgress == 1        \* of phase: the alias
Execution == 2         \* of phase: the canonical name

Markers == {Open, Sep, Close}
HasKey(l) == l.kind \in {"scalar", "nested"}     \* topLevelKey

---------------------------------------------------------------------------
(* Regions and frontmatter *)

\* The positions of the lines equal to l, in order.
At(lines, l) == SelectSeq([i \in 1..Len(lines) |-> i], LAMBDA i : lines[i] = l)

\* enumerateConflictRegions succeeds: the markers are whole regions, one after another.
\* On every other file each way through resolveOne fails.
Balanced(lines) ==
    LET m == SelectSeq(lines, LAMBDA l : l \in Markers)
    IN /\ m # <<>> /\ Len(m) % 3 = 0
       /\ \A i \in 1..Len(m) : m[i] = <<Open, Sep, Close>>[((i - 1) % 3) + 1]

Regions(lines) ==
    LET o == At(lines, Open)
        s == At(lines, Sep)
        c == At(lines, Close)
    IN [i \in 1..Len(o) |-> [start |-> o[i], end |-> c[i],
                             ours |-> SubSeq(lines, o[i] + 1, s[i] - 1),
                             theirs |-> SubSeq(lines, s[i] + 1, c[i] - 1)]]

\* frontmatterBounds: the closing delimiter, 0 when there is no pair.
frontmatterBounds(lines) ==
    LET later == {i \in 2..Len(lines) : lines[i] = Delim}
    IN IF lines # <<>> /\ lines[1] = Delim /\ later # {} THEN Min(later) ELSE 0

hasFrontmatter(lines) == frontmatterBounds(lines) # 0

\* splitFrontmatter of a document that has one.
Frontmatter(lines) == SubSeq(lines, 2, frontmatterBounds(lines) - 1)
Body(lines) == SubSeq(lines, frontmatterBounds(lines) + 1, Len(lines))

KeysOf(ls) == {ls[i].key : i \in {j \in 1..Len(ls) : HasKey(ls[j])}}
DistinctKeys(ls) ==
    \A i, j \in 1..Len(ls) : (i # j /\ HasKey(ls[i]) /\ HasKey(ls[j])) => ls[i].key # ls[j].key

\* Joined by newlines, no line and one empty line are the same empty text.
EmptyText(ls) == ls \in {<<>>, <<Blank>>}
AsText(ls) == IF ls = <<>> THEN <<Blank>> ELSE ls      \* strings.Split gives one line

combineBodies(ours, theirs) ==
    IF EmptyText(theirs) \/ ours = theirs THEN ours
    ELSE IF EmptyText(ours) THEN theirs ELSE ours \o <<Blank>> \o theirs

\* spliceConflictRegions: the lines between the regions, and the replacements.
OneLineMore(lines, rs, repl) ==   \* mutation
    FlattenSeq([i \in 1..Len(rs) |->
        SubSeq(lines, IF i = 1 THEN 1 ELSE rs[i - 1].end, rs[i].start - 1) \o repl[i]])
    \o SubSeq(lines, rs[Len(rs)].end, Len(lines))

spliceConflictRegions(lines, rs, repl) ==
    FlattenSeq([i \in 1..Len(rs) |->
        SubSeq(lines, IF i = 1 THEN 1 ELSE rs[i - 1].end + 1, rs[i].start - 1) \o repl[i]])
    \o SubSeq(lines, rs[Len(rs)].end + 1, Len(lines))

---------------------------------------------------------------------------
(* The deep merge: sides that carry a frontmatter block of their own *)

\* parseYAML
Parses(fm) == DistinctKeys(fm) /\ \A i \in 1..Len(fm) : HasKey(fm[i]) \/ fm[i] = Blank

\* deepMergeTheirsWins, marshalled: every key once, sorted.
deepMergeTheirsWins(ours, theirs) ==
    LET from(k) == IF k \in KeysOf(theirs) THEN theirs ELSE ours
        line(k) == SelectSeq(from(k), LAMBDA l : l.key = k)[1]
        keys == SelectSeq(KeyOrder, LAMBDA k : k \in KeysOf(ours) \cup KeysOf(theirs))
    IN [i \in 1..Len(keys) |-> line(keys[i])]

StartsWithDelim(ls) == Len(ls) > 1 /\ ls[1] = Delim

\* The documents that resolveRegion compares: the delimiter above the region belongs to
\* both when neither side has its own.
Docs(lines, r) ==
    LET reattach == /\ r.start > 1 /\ lines[r.start - 1] = Delim
                    /\ ~StartsWithDelim(r.ours) /\ ~StartsWithDelim(r.theirs)
        opener == IF reattach THEN <<Delim>> ELSE <<>>
    IN [ours |-> opener \o AsText(r.ours), theirs |-> opener \o AsText(r.theirs),
        reattach |-> reattach]

RegionParses(lines, r) ==
    LET d == Docs(lines, r)
    IN (hasFrontmatter(d.ours) /\ hasFrontmatter(d.theirs)) =>
          Parses(Frontmatter(d.ours)) /\ Parses(Frontmatter(d.theirs))

\* resolveRegion; a region that is no frontmatter block on both sides is body text.
resolveRegion(lines, r) ==
    LET d == Docs(lines, r)
    IN IF hasFrontmatter(d.ours) /\ hasFrontmatter(d.theirs)
       THEN (IF d.reattach THEN <<>> ELSE <<Delim>>)
            \o deepMergeTheirsWins(Frontmatter(d.ours), Frontmatter(d.theirs))
            \o <<Delim>> \o AsText(combineBodies(Body(d.ours), Body(d.theirs)))
       ELSE AsText(combineBodies(r.ours, r.theirs))

\* splitConflictSides: all regions of one side, as one document.
SideDoc(ls) == IF StartsWithDelim(ls) THEN ls ELSE <<Delim>> \o ls

TakesDeepMerge(lines) ==
    LET rs == Regions(lines)
        ours == FlattenSeq([i \in 1..Len(rs) |-> rs[i].ours])
        theirs == FlattenSeq([i \in 1..Len(rs) |-> rs[i].theirs])
    IN /\ ours # <<>> /\ theirs # <<>>
       /\ hasFrontmatter(SideDoc(ours)) /\ hasFrontmatter(SideDoc(theirs))

---------------------------------------------------------------------------
(* applyPartitionedRules: scalar rules above the delimiter, both sides below it *)

\* What the rules ask git for: the keys of the merge base, and the newer parent.
Bases == [ok : {FALSE}, keys : {{}}] \cup [ok : {TRUE}, keys : SUBSET Keys]
Newer == {"ours", "theirs", "unknown"}

InFrontmatter(lines, r) == r.end < frontmatterBounds(lines)
InBody(lines, r) == r.start > frontmatterBounds(lines)

\* parseScalarSide
ScalarSide(ls) ==
    ls # <<>> /\ DistinctKeys(ls) /\ \A i \in 1..Len(ls) : ls[i].kind = "scalar"

LineOf(ls, k) == SelectSeq(ls, LAMBDA l : l.key = k)[1]

\* The counter rule applies to a key both sides have.
TheirsWinsCounters(r, k) == FALSE   \* mutation
CounterRule(r, k) ==
    /\ isCounterKey(k)
    /\ LineOf(r.ours, k).val # NotAnInteger /\ LineOf(r.theirs, k).val # NotAnInteger

\* resolveScalarEntry: the greater counter, the newer parent's value; a tie is ours.
resolveScalarEntry(r, k, newer) ==
    IF CounterRule(r, k)
    THEN Scalar(k, Max({LineOf(r.ours, k).val, LineOf(r.theirs, k).val}))
    ELSE IF newer = "theirs" THEN LineOf(r.theirs, k) ELSE LineOf(r.ours, k)

Shared(r) == KeysOf(r.ours) \cap KeysOf(r.theirs)
OneSided(r) == (KeysOf(r.ours) \cup KeysOf(r.theirs)) \ Shared(r)

AnyKeyIsAdd(base, k) == TRUE   \* mutation
oneSidedKeyIsAdd(base, k) == base.ok /\ k \notin base.keys

\* The region can be decided key by key.
Decidable(r, base, newer) ==
    /\ ScalarSide(r.ours) /\ ScalarSide(r.theirs)
    /\ \A k \in Shared(r) : CounterRule(r, k) \/ newer # "unknown"
    /\ \A k \in OneSided(r) : oneSidedKeyIsAdd(base, k)

resolveScalarRegion(r, newer) ==
    LET ours == [i \in 1..Len(r.ours) |->
                    LET k == r.ours[i].key
                    IN IF k \in Shared(r) THEN resolveScalarEntry(r, k, newer) ELSE r.ours[i]]
    IN ours \o SelectSeq(r.theirs, LAMBDA l : l.key \notin KeysOf(r.ours))

\* seedEmittedOutsideRegions: the frontmatter keys that no region holds.
ForgetOutside(lines) == {}   \* mutation
KeysOutside(lines) ==
    {lines[i].key : i \in {j \in 2..(frontmatterBounds(lines) - 1) :
        /\ HasKey(lines[j])
        /\ \A n \in 1..Len(Regions(lines)) :
              j \notin Regions(lines)[n].start..Regions(lines)[n].end}}

\* emittedKeys: no key is emitted twice, nor next to an untouched line that has it.
EmittedOnce(lines, rs) ==
    /\ \A i, j \in 1..Len(rs) : i # j =>
          (KeysOf(rs[i].ours) \cup KeysOf(rs[i].theirs))
            \cap (KeysOf(rs[j].ours) \cup KeysOf(rs[j].theirs)) = {}
    /\ \A i \in 1..Len(rs) : (KeysOf(rs[i].ours) \cup KeysOf(rs[i].theirs))
                               \cap KeysOutside(lines) = {}

\* planConflictPartitions, and the decisions of the scalar rules: one region that cannot
\* be decided declines the file.
RulesApply(lines, md, base, newer) ==
    /\ md /\ hasFrontmatter(lines)
    /\ LET fm == SelectSeq(Regions(lines), LAMBDA r : InFrontmatter(lines, r))
       IN /\ \A i \in 1..Len(Regions(lines)) :
                InFrontmatter(lines, Regions(lines)[i]) \/ InBody(lines, Regions(lines)[i])
          /\ \A i \in 1..Len(fm) : Decidable(fm[i], base, newer)
          /\ EmittedOnce(lines, fm)

\* bodyReplacements: an empty combination leaves no line at all.
BodyReplacement(r) ==
    LET both == combineBodies(r.ours, r.theirs)
    IN IF EmptyText(both) THEN <<>> ELSE both

applyPartitionedRules(lines, newer) ==
    LET rs == Regions(lines)
    IN spliceConflictRegions(lines, rs,
          [i \in 1..Len(rs) |-> IF InFrontmatter(lines, rs[i])
                                THEN resolveScalarRegion(rs[i], newer)
                                ELSE BodyReplacement(rs[i])])

---------------------------------------------------------------------------
(* resolveOne *)

\* normalizeTaskPhase: the first alias of a task file's frontmatter is rewritten.
normalizeTaskPhase(task, lines) ==
    LET alias == {i \in 2..(frontmatterBounds(lines) - 1) : lines[i] = Scalar("phase", InProgress)}
    IN IF task /\ alias # {} THEN [lines EXCEPT ![Min(alias)] = Scalar("phase", Execution)]
       ELSE lines

\* What resolveOne does: "deep" and "rules" write a file, "failed" leaves it as it is.
Way(lines, md, base, newer) ==
    CASE ~Balanced(lines) -> "failed"
      [] Balanced(lines) /\ TakesDeepMerge(lines) ->
            IF \A i \in 1..Len(Regions(lines)) : RegionParses(lines, Regions(lines)[i])
            THEN "deep" ELSE "failed"
      [] OTHER -> IF RulesApply(lines, md, base, newer) THEN "rules" ELSE "failed"

resolveOne(way, lines, task, newer) ==
    CASE way = "deep" ->
            LET rs == Regions(lines)
            IN normalizeTaskPhase(task, spliceConflictRegions(lines, rs,
                                     [i \in 1..Len(rs) |-> resolveRegion(lines, rs[i])]))
      [] way = "rules" -> normalizeTaskPhase(task, applyPartitionedRules(lines, newer))
      [] OTHER -> lines

---------------------------------------------------------------------------
(* One file of the vault *)

VARIABLES kind,      \* "task": a task file; "note": another .md; "other": not .md
          exists, disk,     \* the file on disk; in a merge, git's text with markers
          pc, chunks,       \* "serving", "merging", "resolved"; chunks put together
          base, newer, way, \* what git answered the resolver, and the way it took
          merged            \* the file it wrote

vars == <<kind, exists, disk, pc, chunks, base, newer, way, merged>>

NoBase == [ok |-> FALSE, keys |-> {}]

\* The guards of writeFileLocked on what a client sent: the phase is normalised first,
\* then a task file may not lose its frontmatter.
NoGuard(content) == FALSE   \* mutation
Refused(content) == exists /\ kind = "task" /\ ~hasFrontmatter(content)

WriteFile(sent) ==
    /\ pc = "serving"
    /\ LET content == normalizeTaskPhase(kind = "task", sent)
       IN ~Refused(content) /\ disk' = content
    /\ exists' = TRUE
    /\ UNCHANGED <<kind, pc, chunks, base, newer, way, merged>>

\* A merge conflicts in the file.
MergeConflict ==
    /\ pc = "serving" /\ pc' = "merging"
    /\ disk' \in {<<>>, <<Delim>>}
    /\ exists' = TRUE
    /\ UNCHANGED <<kind, chunks, base, newer, way, merged>>

RegionCount == Len(At(disk, Open))

\* git leaves lines between two regions, and keeps what both sides begin or end with out
\* of them; a frontmatter delimiter may open both, as in the repository's own fixtures.
GitCuts(ours, theirs) ==
    /\ disk # <<>> => Last(disk) # Close
    /\ ours # <<>> /\ theirs # <<>> => /\ Head(ours) # Head(theirs) \/ Head(ours) = Delim
                                       /\ Last(ours) # Last(theirs)

AddCommon(c) ==
    /\ pc = "merging" /\ chunks < MaxChunks
    /\ disk' = disk \o c /\ chunks' = chunks + 1
    /\ UNCHANGED <<kind, exists, pc, base, newer, way, merged>>

AddRegion(ours, theirs) ==
    /\ pc = "merging" /\ chunks < MaxChunks /\ RegionCount < MaxRegions
    /\ ours # theirs /\ GitCuts(ours, theirs)
    /\ disk' = disk \o <<Open>> \o ours \o <<Sep>> \o theirs \o <<Close>>
    /\ chunks' = chunks + 1
    /\ UNCHANGED <<kind, exists, pc, base, newer, way, merged>>

Resolve ==
    /\ pc = "merging" /\ RegionCount > 0 /\ pc' = "resolved"
    /\ base' \in Bases /\ newer' \in Newer
    /\ way' = Way(disk, kind # "other", base', newer')
    /\ merged' = resolveOne(way', disk, kind = "task", newer')
    /\ UNCHANGED <<kind, exists, disk, chunks>>

Init ==
    /\ kind \in {"task", "note", "other"}
    /\ exists \in BOOLEAN
    /\ disk \in (IF exists THEN Contents ELSE {<<>>})
    /\ pc = "serving" /\ chunks = 0
    /\ base = NoBase /\ newer = "unknown" /\ way = "none" /\ merged = <<>>

Next ==
    \/ \E c \in Contents : WriteFile(c)
    \/ MergeConflict
    \/ \E c \in Commons : AddCommon(c)
    \/ \E o, t \in Sides : AddRegion(o, t)
    \/ Resolve

Spec == Init /\ [][Next]_vars

---------------------------------------------------------------------------
(* Properties *)

\* One side's version of the conflicted file.
Version(side) ==
    LET rs == Regions(disk)
    IN spliceConflictRegions(disk, rs, [i \in 1..Len(rs) |-> rs[i][side]])

Written == pc = "resolved" /\ way # "failed"
ByRules == pc = "resolved" /\ way = "rules"

\* A resolved file is text again, and has all of it: no marker is left, and every line of
\* text of either side is there, whichever way the resolver took.
NothingLost ==
    Written => /\ \A i \in 1..Len(merged) : merged[i] \notin Markers
               /\ \A i \in 1..Len(disk) : disk[i].kind = "text" => disk[i] \in Range(merged)

\* The frontmatter that the rules write is a valid mapping: over all regions and all the
\* lines between them no key is there twice.
NoDuplicateKey == (ByRules /\ hasFrontmatter(merged)) => DistinctKeys(Frontmatter(merged))

\* Counters never run backwards: the rules leave a counter at least as high as it was on
\* either side.
CountersOnlyGrow ==
    ByRules => \A side \in {"ours", "theirs"} : \A l \in Range(Frontmatter(Version(side))) :
        isCounterKey(l.key) => \E m \in Range(merged) : m.key = l.key /\ m.val >= l.val

\* A deleted key is never resurrected: what the merge base had and one side does not have
\* any more is not in the file that the rules write.
NoResurrection ==
    (ByRules /\ base.ok) =>
        \A k \in base.keys : k \in KeysOf(Frontmatter(merged)) =>
            k \in KeysOf(Frontmatter(Version("ours"))) \cap KeysOf(Frontmatter(Version("theirs")))

\* A task file that the rules or a write leave behind is one: its frontmatter is there
\* and no phase has the alias.
IsTaskFile(lines) ==
    hasFrontmatter(lines) /\ Scalar("phase", InProgress) \notin Range(Frontmatter(lines))

TaskFilesStayTasks ==
    [][kind = "task" =>
         /\ (pc = "serving" /\ pc' = "serving" /\ exists /\ hasFrontmatter(disk)) => IsTaskFile(disk')
         /\ (pc' = "resolved" /\ way' = "rules") => IsTaskFile(merged')]_vars
============================================================================
