-------------------------- MODULE ClaimLeaseProofs --------------------------
(***************************************************************************)
(* ClaimRefs implements ClaimLease: under the mapping of ClaimRefs, which  *)
(* keeps the origin's refs and what callers were told, every step is a     *)
(* step of the compare-and-swap register or changes nothing of it.         *)
(***************************************************************************)
EXTENDS ClaimRefsProofs

calls == [r \in Requests |-> CallOf(r)]

\* A step that keeps what a request asked for and what its caller can tell of the outcome
\* keeps the caller's view.
LEMMA ViewStays ==
  ASSUME NEW q \in Requests,
         req'[q].op = req[q].op, req'[q].key = req[q].key, req'[q].expected = req[q].expected,
         req'[q].landed = req[q].landed,
         \/ req[q].op \notin Writes
         \/ req'[q].pc = req[q].pc
         \/ {req[q].pc, req'[q].pc} \subseteq {"landed", "update", "ok"}
  PROVE  CallOf(q)' = CallOf(q)
  BY DEF CallOf, NewSha

\* Only the landing and the answer of a write move its caller's view.
LEMMA ViewMoves ==
  ASSUME NEW q \in Requests, req[q].op \in Writes,
         req'[q].op = req[q].op, req'[q].key = req[q].key, req'[q].expected = req[q].expected
  PROVE  /\ req'[q].pc = "landed" => CallOf(q)' = [CallOf(q) EXCEPT !.state = "won"]
         /\ req'[q].pc = "conflict" => CallOf(q)' = [CallOf(q) EXCEPT !.state = "lost"]
         /\ req'[q].pc = "error" /\ req'[q].landed
              => CallOf(q)' = [CallOf(q) EXCEPT !.state = "doubtSwapped"]
         /\ req'[q].pc = "error" /\ ~req'[q].landed
              => CallOf(q)' = [CallOf(q) EXCEPT !.state = "doubt"]
  BY DEF CallOf, NewSha

\* The view of a write.
LEMMA ViewOfWrite ==
  ASSUME NEW q \in Requests, req[q].op \in Writes
  PROVE  /\ CallOf(q).key = req[q].key
         /\ CallOf(q).expected = req[q].expected
         /\ CallOf(q).new = NewSha(q)
         /\ req[q].pc = "push" => CallOf(q).state = "open"
         /\ req[q].pc \in {"landed", "update", "ok"} => CallOf(q).state = "won"
         /\ req[q].pc = "error" /\ ~req[q].landed => CallOf(q).state = "doubt"
  BY DEF CallOf

\* A view that nothing changed.
LEMMA Stutters ==
  ASSUME refs' = refs, \A q \in Requests : CallOf(q)' = CallOf(q)
  PROVE  UNCHANGED <<refs, calls>>
  BY DEF calls

\* A request that arrives is invoked.
LEMMA InvokeStep ==
  ASSUME TypeOK, Shape, NEW r \in Requests, NEW i \in Instances, NEW k \in Keys,
         NEW e \in Sha, NEW op \in Writes, Receive(r, op, i, k, e)
  PROVE  Lease!Next
<1>1. CallOf(r) = Lease!NoCall
  BY DEF Receive, CallOf, Lease!NoCall, Writes
<1>2. \A q \in Requests : q # r => CallOf(q)' = CallOf(q)
  BY Receives DEF CallOf, NewSha
<1>3. PICK n \in {r, NoSha} :
        CallOf(r)' = [key |-> k, expected |-> e, new |-> n, state |-> "open"]
  BY Receives DEF CallOf, NewSha, Writes
<1>4. Lease!Invoke(r, k, e, n)
  BY <1>1, <1>2, <1>3 DEF Lease!Invoke, Receive
<1> QED BY <1>4 DEF Lease!Next, Lease!Sha, Sha

\* A request that the origin is at is pending.
LEMMA UnderwayPends ==
  ASSUME NEW q \in Requests, Underway(q)
  PROVE  Lease!Pending(q) /\ CallOf(q).key = req[q].key
  BY ViewOfWrite DEF Underway, Lease!Pending

\* A push that the origin takes is the swap.
LEMMA SwapStep ==
  ASSUME TypeOK, Shape, NEW r \in Requests, pushClaimRef(r) \/ PushLandsLate(r)
  PROVE  Lease!Next
<1>1. /\ req[r].op \in Writes /\ Underway(r)
      /\ pushClaimRef(r) => req[r].pc = "push"
      /\ ~pushClaimRef(r) => req[r].pc = "error"
  BY DEF pushClaimRef, PushLandsLate, Underway, Shape
<1>2. \A q \in Requests : q # r => CallOf(q)' = CallOf(q)
  BY Lands DEF CallOf, NewSha
<1>3. /\ CallOf(r).state \in {"open", "doubt"}
      /\ CallOf(r)' = [CallOf(r) EXCEPT !.state = IF @ = "open" THEN "won" ELSE "doubtSwapped"]
  <2>1. CASE pushClaimRef(r)
    <3>1. CallOf(r)' = [CallOf(r) EXCEPT !.state = "won"]
      BY <1>1, <2>1, Lands, ViewMoves
    <3>2. CallOf(r).state = "open"
      BY <1>1, <2>1, ViewOfWrite
    <3> QED BY <3>1, <3>2
  <2>2. CASE ~pushClaimRef(r)
    <3>1. CallOf(r)' = [CallOf(r) EXCEPT !.state = "doubtSwapped"]
      BY <1>1, <2>2, Lands, ViewMoves
    <3>2. CallOf(r).state = "doubt"
      BY <1>1, <2>2, ViewOfWrite DEF Underway
    <3> QED BY <3>1, <3>2
  <2> QED BY <2>1, <2>2
<1>5. /\ CallOf(r).key = req[r].key /\ CallOf(r).expected = req[r].expected
      /\ CallOf(r).new = NewSha(r)
  BY <1>1, ViewOfWrite
<1>6. refs[req[r].key] = req[r].expected /\ refs' = [refs EXCEPT ![req[r].key] = NewSha(r)]
  BY DEF pushClaimRef, PushLandsLate, LeaseHolds
<1>7. Lease!Pending(r)
  BY <1>1, UnderwayPends
<1>8. Lease!Swap(r)
  BY <1>2, <1>3, <1>5, <1>6, <1>7 DEF Lease!Swap
<1> QED BY <1>8 DEF Lease!Next

\* A push that the origin rejects is refused.
LEMMA RefuseStep ==
  ASSUME TypeOK, Shape, NEW r \in Requests, LeaseConflict(r)
  PROVE  Lease!Next
<1>1. req[r].op \in Writes /\ req[r].pc = "push" /\ At(r, "conflict")
  BY DEF LeaseConflict, ConflictAnswer, Shape
<1>2. "conflict" \in RequestPCs
  BY DEF RequestPCs
<1>3. \A q \in Requests : q # r => CallOf(q)' = CallOf(q)
  BY <1>1, <1>2, AtMoves, ViewStays
<1>4. CallOf(r)' = [CallOf(r) EXCEPT !.state = "lost"]
  BY <1>1, <1>2, AtMoves, ViewMoves
<1>5. /\ CallOf(r).key = req[r].key /\ CallOf(r).expected = req[r].expected
      /\ CallOf(r).state = "open"
  BY <1>1, ViewOfWrite
<1>6. refs' = refs
  BY DEF LeaseConflict
<1>7. \/ refs[req[r].key] # req[r].expected
      \/ \E s \in Requests \ {r} : Lease!Pending(s) /\ CallOf(s).key = CallOf(r).key
  BY <1>5, UnderwayPends DEF LeaseConflict, LeaseHolds, Contended
<1>8. Lease!Refuse(r)
  BY <1>3, <1>4, <1>5, <1>6, <1>7 DEF Lease!Refuse
<1> QED BY <1>8 DEF Lease!Next

\* The caller of q was waiting, or would have been told that it won.
LeftInDoubt(q) ==
    /\ CallOf(q).state \in {"open", "won"}
    /\ CallOf(q)' = [CallOf(q) EXCEPT !.state = IF @ = "open" THEN "doubt" ELSE "doubtSwapped"]

\* A write that fails on its way leaves its caller in doubt.
LEMMA FailsInDoubt ==
  ASSUME Shape, NEW q \in Requests, req[q].op \in Writes,
         req[q].pc \in {"push", "landed", "update"}, req'[q].pc = "error",
         req'[q].op = req[q].op, req'[q].key = req[q].key, req'[q].expected = req[q].expected,
         req'[q].landed = req[q].landed
  PROVE  LeftInDoubt(q)
<1>1. CASE req[q].pc = "push"
  <2>1. ~req'[q].landed
    BY <1>1 DEF Shape
  <2>2. CallOf(q)' = [CallOf(q) EXCEPT !.state = "doubt"]
    BY <2>1, ViewMoves
  <2>3. CallOf(q).state = "open"
    BY <1>1, ViewOfWrite
  <2> QED BY <2>2, <2>3 DEF LeftInDoubt
<1>2. CASE req[q].pc \in {"landed", "update"}
  <2>1. req'[q].landed
    BY <1>2 DEF Shape
  <2>2. CallOf(q)' = [CallOf(q) EXCEPT !.state = "doubtSwapped"]
    BY <2>1, ViewMoves
  <2>3. CallOf(q).state = "won"
    BY <1>2, ViewOfWrite
  <2> QED BY <2>2, <2>3 DEF LeftInDoubt
<1> QED BY <1>1, <1>2

\* What fails leaves the callers of its writes in doubt.
LEMMA DoubtStep ==
  ASSUME refs' = refs, NEW D \in SUBSET Requests,
         \A q \in D : LeftInDoubt(q),
         \A q \in Requests \ D : CallOf(q)' = CallOf(q)
  PROVE  Lease!Next
<1>1. Lease!Doubt(D)
  BY DEF Lease!Doubt, LeftInDoubt
<1> QED BY <1>1 DEF Lease!Next

\* Every step of ClaimRefs is a step of the register, or none.
LEMMA Implements ==
  ASSUME TypeOK, Shape, [Next]_vars
  PROVE  Lease!Next \/ UNCHANGED <<refs, calls>>
<1>1. ASSUME NEW r \in Requests, NEW i \in Instances, NEW k \in Keys,
             PutClaimRef(r, i, k) \/ DeleteClaimRef(r, i, k)
      PROVE  Lease!Next
  <2>1. PICK e \in Sha, op \in Writes : Receive(r, op, i, k, e)
    BY <1>1 DEF PutClaimRef, DeleteClaimRef, Sha, Writes
  <2> QED BY <2>1, InvokeStep
<1>2. ASSUME NEW r \in Requests, NEW i \in Instances, ListClaimRefs(r, i)
      PROVE  UNCHANGED <<refs, calls>>
  <2>1. CallOf(r)' = CallOf(r)
    BY <1>2, Listing DEF CallOf, Writes
  <2>2. \A q \in Requests : q # r => CallOf(q)' = CallOf(q)
    BY <1>2, Listing DEF CallOf, NewSha
  <2>3. refs' = refs
    BY <1>2 DEF ListClaimRefs
  <2> QED BY <2>1, <2>2, <2>3, Stutters
<1>3. ASSUME NEW r \in Requests,
             PushReported(r) \/ updateClaimMirrorRef(r) \/ MirrorUpdateFails(r)
      PROVE  UNCHANGED <<refs, calls>>
  <2>1. PICK p \in {"update", "ok"} : At(r, p) /\ req[r].pc \in {"landed", "update"}
    BY <1>3 DEF PushReported, updateClaimMirrorRef, MirrorUpdateFails
  <2>2. p \in RequestPCs
    BY DEF RequestPCs
  <2>3. \A q \in Requests : CallOf(q)' = CallOf(q)
    BY <2>1, <2>2, AtMoves, ViewStays
  <2>4. refs' = refs
    BY <1>3 DEF PushReported, updateClaimMirrorRef, MirrorUpdateFails
  <2> QED BY <2>3, <2>4, Stutters
<1>4. ASSUME NEW r \in Requests, OriginFails(r)
      PROVE  Lease!Next \/ UNCHANGED <<refs, calls>>
  <2>1. At(r, "error") /\ req[r].pc \in {"push", "landed", "list"} /\ refs' = refs
    BY <1>4 DEF OriginFails, DoubtAnswer
  <2>2. "error" \in RequestPCs
    BY DEF RequestPCs
  <2>3. \A q \in Requests : q # r => CallOf(q)' = CallOf(q)
    BY <2>1, <2>2, AtMoves, ViewStays
  <2>4. CASE req[r].op \in Writes
    <3>1. req[r].pc # "list"
      BY <2>4 DEF Shape, Writes
    <3>2. LeftInDoubt(r)
      BY <2>1, <2>2, <2>4, <3>1, AtMoves, FailsInDoubt
    <3> DEFINE D == {r}
    <3>4. D \in SUBSET Requests
      OBVIOUS
    <3>5. \A q \in D : LeftInDoubt(q)
      BY <3>2
    <3>6. \A q \in Requests \ D : CallOf(q)' = CallOf(q)
      BY <2>3
    <3> HIDE DEF D
    <3> QED BY <2>1, <3>4, <3>5, <3>6, DoubtStep
  <2>5. CASE req[r].op \notin Writes
    <3>1. CallOf(r)' = CallOf(r)
      BY <2>1, <2>2, <2>5, AtMoves, ViewStays
    <3> QED BY <2>1, <2>3, <3>1, Stutters
  <2> QED BY <2>4, <2>5
<1>5. ASSUME NEW r \in Requests, ListRefs(r) \/ listClaimRefsLive(r)
      PROVE  UNCHANGED <<refs, calls>>
  <2>1. req[r].op \notin Writes
    BY <1>5, Filled DEF Shape, Writes
  <2>2. CallOf(r)' = CallOf(r)
    BY <1>5, <2>1, Filled DEF CallOf
  <2>3. \A q \in Requests : q # r => CallOf(q)' = CallOf(q)
    BY <1>5, Filled DEF CallOf, NewSha
  <2>4. refs' = refs
    BY <1>5 DEF ListRefs, listClaimRefsLive
  <2> QED BY <2>2, <2>3, <2>4, Stutters
<1>6. ASSUME NEW i \in Instances, FetchStep(i) \/ Expire(i)
      PROVE  UNCHANGED <<refs, calls>>
  <2>1. refs' = refs /\ req' = req
    BY <1>6 DEF FetchStep, StartFetch, recordClaimMirrorFetch, FetchFails, Expire
  <2>2. \A q \in Requests : CallOf(q)' = CallOf(q)
    BY <2>1, ViewStays
  <2> QED BY <2>1, <2>2, Stutters
<1>7. ASSUME NEW i \in Instances, Restart(i)
      PROVE  Lease!Next
  <2> DEFINE D == {q \in InFlight(i) : req[q].op \in Writes}
  <2>1. D \in SUBSET Requests
    BY DEF InFlight
  <2>2. ASSUME NEW q \in D
        PROVE  LeftInDoubt(q)
    <3>1. q \in Requests /\ req[q].op \in Writes /\ req[q].pc \in {"push", "landed", "update"}
      BY DEF InFlight, Shape, Writes
    <3> QED BY <1>7, <3>1, Fails, FailsInDoubt
  <2>3. \A q \in Requests \ D : CallOf(q)' = CallOf(q)
    BY <1>7, Fails, ViewStays
  <2>4. refs' = refs
    BY <1>7 DEF Restart
  <2> HIDE DEF D
  <2> QED BY <2>1, <2>2, <2>3, <2>4, DoubtStep
<1>8. ASSUME UNCHANGED vars
      PROVE  UNCHANGED <<refs, calls>>
  BY <1>8, ViewStays, Stutters DEF vars
<1> QED BY <1>1, <1>2, <1>3, <1>4, <1>5, <1>6, <1>7, <1>8, SwapStep, RefuseStep
        DEF Next, RequestStep

\* The refinement: whatever the instances, requests, failures and restarts, callers see a
\* compare-and-swap register.
THEOREM ClaimsImplementLease == Spec => ClaimLeaseSpec
<1>1. Init => Lease!Init
  <2> SUFFICES ASSUME Init PROVE Lease!Init
    OBVIOUS
  <2>1. \A r \in Requests : CallOf(r) = Lease!NoCall
    BY DEF Init, NoRequest, CallOf, Writes, Lease!NoCall
  <2> QED BY <2>1 DEF Init, NoRefs, Lease!Init
<1>2. TypeOK /\ Shape /\ [Next]_vars => [Lease!Next]_<<refs, calls>>
  BY Implements
<1>3. Init => TypeOK /\ Shape
  BY InitTyped
<1>4. TypeOK /\ Shape /\ [Next]_vars => (TypeOK /\ Shape)'
  BY RequestsStep
<1> QED BY <1>1, <1>2, <1>3, <1>4, PTL DEF Spec, ClaimLeaseSpec, Lease!Spec, calls
============================================================================
