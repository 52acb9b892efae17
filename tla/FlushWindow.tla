---------------------------- MODULE FlushWindow ----------------------------
(***************************************************************************)
(* When the pending set is flushed: the two delays of FlushPendingIfDue in *)
(* pkg/git/git.go, asked by the ticker of pkg/flusher, against writers     *)
(* that keep coming and pulls that hold g.mu.  Time passes in units; what  *)
(* the code keeps as a time stamp is here how long ago it was.             *)
(*                                                                         *)
(* What a flush does to the repository is WriteCoalescing's subject; here  *)
(* it takes time, and either empties the pending set or fails to commit.   *)
(***************************************************************************)
EXTENDS Integers

CONSTANTS Paths,
          Delay, MaxDelay,   \* CoalesceConfig
          Tick,              \* flushTickInterval
          MaxHold,           \* bound: how long one flush, or one pull, holds g.mu
          MaxFailures        \* bound: flushes whose commit fails

ASSUME WindowConfig ==
    /\ Delay \in Nat /\ MaxDelay \in Nat \ {0}
    /\ Tick \in Nat \ {0}
    /\ MaxHold \in Nat
    /\ MaxFailures \in Nat

VARIABLES pending,    \* the paths in the pending set
          firstSeen, lastModified,   \* of each pending path: how long ago
          sinceTick, tickReady,      \* the ticker, and the one tick its channel buffers
          holder, held,  \* who has g.mu, and for how long
          failures,
          grace,         \* how much longer failed flushes may have made a write wait
          quiet          \* time since the flusher last emptied the set, up to Delay

vars == <<pending, firstSeen, lastModified, sinceTick, tickReady, holder, held,
          failures, grace, quiet>>

\* enqueuePendingLocked
ForgetFirst(p) == p \notin {}   \* mutation
StartsWindow(p) == p \notin pending

\* A writer has g.mu for no time that counts here: it writes one file and stages it.
WriteFile(p) ==
    /\ holder = "none"
    /\ pending' = pending \cup {p}
    /\ firstSeen' = [firstSeen EXCEPT ![p] = IF StartsWindow(p) THEN 0 ELSE @]
    /\ lastModified' = [lastModified EXCEPT ![p] = 0]
    /\ UNCHANGED <<sinceTick, tickReady, holder, held, failures, grace, quiet>>

\* FlushPendingIfDue on the bounds pendingBoundsLocked takes over the whole set.
TrailingDue == \A p \in pending : lastModified[p] >= Delay
NeverMax == FALSE   \* mutation
MaxDue == \E p \in pending : firstSeen[p] >= MaxDelay

FlushPendingIfDue ==
    /\ tickReady /\ tickReady' = FALSE
    /\ holder = "none"
    /\ holder' = IF pending # {} /\ (TrailingDue \/ MaxDue) THEN "tick" ELSE "none"
    /\ held' = 0
    /\ UNCHANGED <<pending, firstSeen, lastModified, sinceTick, failures, grace, quiet>>

\* A pull or a delete takes g.mu and flushes first, due or not.
StartPull ==
    /\ holder = "none"
    /\ holder' = IF pending = {} THEN "work" ELSE "pull"
    /\ held' = 0
    /\ UNCHANGED <<pending, firstSeen, lastModified, sinceTick, tickReady, failures, grace, quiet>>

\* Who has g.mu once the flush is over: the flusher lets go, the pull works on.
AfterFlush == IF holder = "tick" THEN "none" ELSE "work"

\* The commit is made: the set is emptied whether or not the push succeeds.
KeepOnFailedPush == pending   \* mutation
AfterCommit == {}

flushPendingLocked ==
    /\ holder \in {"tick", "pull"}
    /\ pending' = AfterCommit
    /\ holder' = AfterFlush
    /\ quiet' = IF holder = "tick" THEN 0 ELSE quiet
    /\ UNCHANGED <<firstSeen, lastModified, sinceTick, tickReady, held, failures, grace>>

\* The commit fails, or the context ends before it: every path stays pending.
FlushFails ==
    /\ holder \in {"tick", "pull"} /\ failures < MaxFailures
    /\ failures' = failures + 1
    /\ grace' = grace + MaxHold + Tick
    /\ holder' = AfterFlush
    /\ UNCHANGED <<pending, firstSeen, lastModified, sinceTick, tickReady, held, quiet>>

EndPull ==
    /\ holder = "work" /\ holder' = "none"
    /\ UNCHANGED <<pending, firstSeen, lastModified, sinceTick, tickReady, held, failures, grace,
                   quiet>>

\* A pull gives its flush a third of its time.
FlushBudget == MaxHold \div 3

\* One unit of time. A tick finds g.mu free and is served at once; whoever has g.mu lets
\* go in time. Further ticks are dropped while one is buffered.
Advance ==
    /\ holder = "none" => ~tickReady
    /\ holder \in {"tick", "work"} => held < MaxHold
    /\ holder = "pull" => held < FlushBudget
    /\ held' = IF holder = "none" THEN held ELSE held + 1
    /\ sinceTick' = IF sinceTick + 1 = Tick THEN 0 ELSE sinceTick + 1
    /\ tickReady' = (tickReady \/ sinceTick + 1 = Tick)
    /\ firstSeen' = [p \in Paths |-> IF p \in pending THEN firstSeen[p] + 1 ELSE 0]
    /\ lastModified' = [p \in Paths |-> IF p \in pending THEN lastModified[p] + 1 ELSE 0]
    /\ quiet' = IF quiet < Delay THEN quiet + 1 ELSE quiet
    /\ UNCHANGED <<pending, holder, failures, grace>>

Init ==
    /\ pending = {}
    /\ firstSeen = [p \in Paths |-> 0] /\ lastModified = [p \in Paths |-> 0]
    /\ sinceTick = 0 /\ tickReady = FALSE
    /\ holder = "none" /\ held = 0
    /\ failures = 0 /\ grace = 0
    /\ quiet = Delay

Next ==
    \/ \E p \in Paths : WriteFile(p)
    \/ FlushPendingIfDue \/ StartPull \/ flushPendingLocked \/ FlushFails \/ EndPull
    \/ Advance

Spec == Init /\ [][Next]_vars

\* Time passes, the ticker is served, and whoever has g.mu goes on. No pull need come.
FairSpec ==
    /\ Spec
    /\ WF_vars(Advance) /\ WF_vars(FlushPendingIfDue)
    /\ WF_vars(flushPendingLocked \/ FlushFails) /\ WF_vars(EndPull)

---------------------------------------------------------------------------
(* Properties *)

\* Every variable has its shape; a pull's flush stays within its third.
WindowTypeOK ==
    /\ pending \subseteq Paths
    /\ firstSeen \in [Paths -> Nat] /\ lastModified \in [Paths -> Nat]
    /\ sinceTick \in 0..(Tick - 1) /\ tickReady \in BOOLEAN
    /\ holder \in {"none", "tick", "pull", "work"} /\ held \in 0..MaxHold
    /\ failures \in 0..MaxFailures /\ grace \in Nat
    /\ quiet \in 0..Delay

\* However the writers keep the set busy, a staged write waits less than the maximum delay,
\* one tick and one hold of g.mu, and one more tick and hold for every failed commit.
AgeBound ==
    \A p \in pending : firstSeen[p] < MaxDelay + Tick + MaxHold + grace

\* A burst costs one commit: the flusher never commits twice within one delay, whatever
\* was written, pulled or pushed in vain in between.
OneCommitPerWindow == holder = "tick" => quiet >= Delay \/ quiet >= MaxDelay

\* Under a stream of writes to it that never pauses, a path still leaves the pending set
\* again and again.
Drained == \A p \in Paths : []<>(p \notin pending)
============================================================================
