------------------------- MODULE FlushWindowProofs -------------------------
(***************************************************************************)
(* For every set of paths and every setting of the delays: no pending      *)
(* write is older than the bound FlushWindow states, and the flusher does  *)
(* not commit twice within one delay.                                      *)
(***************************************************************************)
EXTENDS FlushWindow, TLAPS

---------------------------------------------------------------------------
(* The inductive invariant *)

\* What is left of the bound before a pending write must be gone. A tick that is due, or
\* that the ticker will give, finds the write old enough; the work of a pull only starts on
\* a set its own flush has emptied, or on writes a failed flush has granted more time.
AgeInv ==
    \A p \in pending :
        /\ holder = "none" /\ ~tickReady => firstSeen[p] < MaxDelay + sinceTick + grace
        /\ holder = "none" /\ tickReady => firstSeen[p] < MaxDelay + Tick + grace
        /\ holder \in {"tick", "pull"} => firstSeen[p] < MaxDelay + Tick + held + grace
        /\ holder = "work" => firstSeen[p] + MaxHold < MaxDelay + grace + held

\* A pending write is no older than the flusher's last commit, so a delay that has
\* elapsed for the write has elapsed since that commit.
QuietInv ==
    /\ \A p \in pending : quiet >= Delay \/ (lastModified[p] <= quiet /\ firstSeen[p] <= quiet)
    /\ OneCommitPerWindow
    /\ holder = "pull" => held <= FlushBudget

WindowInv == WindowTypeOK /\ AgeInv /\ QuietInv

---------------------------------------------------------------------------
(* Lemmas *)

\* The third of its time a pull gives its flush (flushBudget in git.go) is part of that time.
LEMMA BudgetWithinHold == FlushBudget \in Nat /\ FlushBudget <= MaxHold
<1>1. MaxHold \in Nat BY WindowConfig DEF WindowConfig
<1>. QED BY <1>1 DEF FlushBudget

\* Before the first write the set is empty and no one has g.mu.
LEMMA InitWindow == Init => WindowInv
<1>. SUFFICES ASSUME Init PROVE WindowInv OBVIOUS
<1>1. WindowTypeOK
  <2>1. tickReady \in BOOLEAN BY Zenon DEF Init
  <2>. QED BY <2>1, WindowConfig DEF WindowConfig, Init, WindowTypeOK
<1>2. AgeInv BY DEF Init, AgeInv
<1>3. QuietInv BY DEF Init, QuietInv, OneCommitPerWindow
<1>. QED BY <1>1, <1>2, <1>3 DEF WindowInv

\* Every action keeps the shape of the state, and no hold of g.mu exceeds its time.
LEMMA WindowTypeStep == WindowInv /\ [Next]_vars => WindowTypeOK'
<1>. SUFFICES ASSUME WindowInv, [Next]_vars PROVE WindowTypeOK' OBVIOUS
<1>. USE WindowConfig DEF WindowConfig, WindowInv, WindowTypeOK
<1>1. ASSUME NEW p \in Paths, WriteFile(p) PROVE WindowTypeOK'
  BY <1>1 DEF WriteFile
<1>2. CASE FlushPendingIfDue
  <2>1. tickReady' \in BOOLEAN BY <1>2, Zenon DEF FlushPendingIfDue
  <2>. QED BY <1>2, <2>1 DEF FlushPendingIfDue
<1>3. CASE StartPull BY <1>3 DEF StartPull
<1>4. CASE flushPendingLocked BY <1>4 DEF flushPendingLocked, AfterCommit, AfterFlush
<1>5. CASE FlushFails BY <1>5 DEF FlushFails, AfterFlush
<1>6. CASE EndPull BY <1>6 DEF EndPull
<1>7. CASE Advance
  <2>1. held' \in 0..MaxHold
    BY <1>7, BudgetWithinHold DEF Advance, QuietInv
  <2>2. /\ sinceTick' \in 0..(Tick - 1) /\ tickReady' \in BOOLEAN
        /\ quiet' \in 0..Delay
    BY <1>7 DEF Advance
  <2>3. firstSeen' \in [Paths -> Nat] /\ lastModified' \in [Paths -> Nat]
    BY <1>7 DEF Advance
  <2>. QED BY <1>7, <2>1, <2>2, <2>3 DEF Advance
<1>8. CASE UNCHANGED vars BY <1>8 DEF vars
<1>. QED BY <1>1, <1>2, <1>3, <1>4, <1>5, <1>6, <1>7, <1>8 DEF Next

\* Every action keeps what is left of the bound: a served tick that does not flush has found
\* every write younger than the maximum delay, and a failed flush pays for its time.
LEMMA AgeStep == WindowInv /\ [Next]_vars => AgeInv'
<1>. SUFFICES ASSUME WindowInv, [Next]_vars, NEW q \in pending'
     PROVE /\ holder' = "none" /\ ~tickReady'
                => firstSeen'[q] < MaxDelay + sinceTick' + grace'
           /\ holder' = "none" /\ tickReady' => firstSeen'[q] < MaxDelay + Tick + grace'
           /\ holder' \in {"tick", "pull"}
                => firstSeen'[q] < MaxDelay + Tick + held' + grace'
           /\ holder' = "work" => firstSeen'[q] + MaxHold < MaxDelay + grace' + held'
  BY DEF AgeInv
<1>. USE WindowConfig DEF WindowConfig, WindowInv, WindowTypeOK, AgeInv
<1>1. ASSUME NEW p \in Paths, WriteFile(p) PROVE q \in pending \/ firstSeen'[q] = 0
  BY <1>1 DEF WriteFile, StartsWindow
<1>2. CASE \E p \in Paths : WriteFile(p)
  <2>. PICK p \in Paths : WriteFile(p) BY <1>2
  <2>1. q \in pending => firstSeen'[q] = firstSeen[q]
    BY DEF WriteFile, StartsWindow
  <2>2. holder' = "none" /\ UNCHANGED <<sinceTick, tickReady, grace>>
    BY DEF WriteFile
  <2>3. CASE q \in pending
    <3>1. ~tickReady => firstSeen[q] < MaxDelay + sinceTick + grace
      BY <2>2, <2>3 DEF WriteFile
    <3>2. tickReady => firstSeen[q] < MaxDelay + Tick + grace
      BY <2>2, <2>3 DEF WriteFile
    <3>. QED BY <2>1, <2>2, <2>3, <3>1, <3>2
  <2>4. CASE firstSeen'[q] = 0
    BY <2>2, <2>4
  <2>. QED BY <1>1, <2>3, <2>4
<1>3. CASE FlushPendingIfDue
  <2>1. holder' = "none" => firstSeen[q] < MaxDelay
    BY <1>3 DEF FlushPendingIfDue, MaxDue
  <2>. QED BY <1>3, <2>1 DEF FlushPendingIfDue
<1>4. CASE StartPull BY <1>4 DEF StartPull
<1>5. CASE flushPendingLocked BY <1>5 DEF flushPendingLocked, AfterCommit
<1>6. CASE FlushFails BY <1>6 DEF FlushFails, AfterFlush
<1>7. CASE EndPull BY <1>7 DEF EndPull
<1>8. CASE Advance
  <2>1. q \in pending /\ firstSeen'[q] = firstSeen[q] + 1 BY <1>8 DEF Advance
  <2>2. CASE holder = "none"
    <3>1. ~tickReady /\ holder' = "none" BY <1>8, <2>2 DEF Advance
    <3>2. firstSeen[q] < MaxDelay + sinceTick + grace BY <2>1, <2>2, <3>1
    <3>3. CASE sinceTick + 1 = Tick
      <4>1. firstSeen[q] + 1 < MaxDelay + Tick + grace BY <2>1, <3>2, <3>3
      <4>2. tickReady' BY <1>8, <3>3 DEF Advance
      <4>. QED BY <1>8, <2>1, <3>1, <4>1, <4>2 DEF Advance
    <3>4. CASE sinceTick + 1 # Tick
      <4>1. ~tickReady' BY <1>8, <3>1, <3>4 DEF Advance
      <4>. QED BY <1>8, <2>1, <3>1, <3>2, <3>4, <4>1 DEF Advance
    <3>. QED BY <3>3, <3>4
  <2>3. CASE holder # "none" BY <1>8, <2>1, <2>3 DEF Advance
  <2>. QED BY <2>2, <2>3
<1>9. CASE UNCHANGED vars BY <1>9 DEF vars
<1>. QED BY <1>2, <1>3, <1>4, <1>5, <1>6, <1>7, <1>8, <1>9 DEF Next

\* Every action keeps the stamps of the pending writes behind the flusher's last commit, so
\* the flush a tick starts is a delay away from it.
LEMMA QuietStep == WindowInv /\ [Next]_vars => QuietInv'
<1>. SUFFICES ASSUME WindowInv, [Next]_vars PROVE QuietInv' OBVIOUS
<1>. USE WindowConfig DEF WindowConfig, WindowInv, WindowTypeOK, QuietInv, OneCommitPerWindow
<1>1. ASSUME NEW p \in Paths, WriteFile(p) PROVE QuietInv'
  BY <1>1 DEF WriteFile, StartsWindow
<1>2. CASE FlushPendingIfDue
  <2>1. holder' = "tick" => \E p \in pending : lastModified[p] >= Delay \/ firstSeen[p] >= MaxDelay
    BY <1>2 DEF FlushPendingIfDue, TrailingDue, MaxDue
  <2>. QED BY <1>2, <2>1 DEF FlushPendingIfDue
<1>3. CASE StartPull BY <1>3, BudgetWithinHold DEF StartPull
<1>4. CASE flushPendingLocked BY <1>4 DEF flushPendingLocked, AfterCommit, AfterFlush
<1>5. CASE FlushFails BY <1>5 DEF FlushFails, AfterFlush
<1>6. CASE EndPull BY <1>6 DEF EndPull
<1>7. CASE Advance BY <1>7, BudgetWithinHold DEF Advance
<1>8. CASE UNCHANGED vars BY <1>8 DEF vars
<1>. QED BY <1>1, <1>2, <1>3, <1>4, <1>5, <1>6, <1>7, <1>8 DEF Next

\* The invariant is inductive over the steps of writers, flusher, pulls and time.
LEMMA WindowInvariant == Spec => []WindowInv
<1>1. WindowInv /\ [Next]_vars => WindowInv'
  BY WindowTypeStep, AgeStep, QuietStep DEF WindowInv
<1>. QED BY InitWindow, <1>1, PTL DEF Spec

---------------------------------------------------------------------------
(* Theorems *)

\* FlushPendingIfDue: for every setting of the two delays, the tick and the time a flush or a
\* pull holds g.mu, no write stays pending beyond the bound, however writers keep coming.
THEOREM PendingAgeBounded == Spec => []AgeBound
<1>1. WindowInv => AgeBound
  BY WindowConfig DEF WindowConfig, WindowInv, WindowTypeOK, AgeInv, AgeBound
<1>. QED BY WindowInvariant, <1>1, PTL

\* FlushPendingIfDue: for every such setting, the flusher starts no second flush within one
\* delay of the one that emptied the set, whatever was written, pulled or failed in between.
THEOREM BurstCommitsOnce == Spec => []OneCommitPerWindow
<1>1. WindowInv => OneCommitPerWindow BY DEF WindowInv, QuietInv
<1>. QED BY WindowInvariant, <1>1, PTL
============================================================================
