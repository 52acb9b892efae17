-------------------------- MODULE ClaimRefsProofs --------------------------
(***************************************************************************)
(* Proofs about ClaimRefs, for any number of instances, refs and requests. *)
(*                                                                         *)
(* OneWinner is not inductive: it needs that the ref has moved off every   *)
(* value a landed request expected (Consumed), and that it cannot come     *)
(* back, because a value is a commit that landed once (Genuine).           *)
(***************************************************************************)
EXTENDS ClaimRefs, TLAPS

\* Where a request is tells what it is and whether it has landed.
Shape ==
    \A r \in Requests :
        /\ req[r].pc = "none" <=> req[r].op = "none"
        /\ req[r].op \in Writes => req[r].key \in Keys /\ req[r].inst \in Instances
        /\ req[r].landed => req[r].op \in Writes
        /\ req[r].pc \in {"push", "conflict"} => req[r].op \in Writes /\ ~req[r].landed
        /\ req[r].pc \in {"landed", "update"} => req[r].landed
        /\ req[r].pc \in {"list", "read"} => req[r].op = "list"

Genuine(s, k) == s # NoSha => s \in Requests /\ WasClaim(s, k)

\* Every ref value anywhere is a commit that landed on that ref.
Sound ==
    /\ \A k \in Keys : Genuine(refs[k], k)
    /\ \A i \in Instances, k \in Keys : Genuine(mirror[i][k], k)
    /\ \A i \in Instances, k \in Keys : Genuine(fetch[i].advertised[k], k)
    /\ \A r \in Requests, k \in Keys : Genuine(req[r].seen[k], k)

\* The commit a landed request replaced has landed itself, and is gone from the ref.
Consumed ==
    \A r \in Requests :
        (req[r].landed /\ req[r].expected # NoSha) =>
            /\ req[req[r].expected].landed
            /\ refs[req[r].key] # req[r].expected

IInv == TypeOK /\ Shape /\ Sound /\ Consumed /\ OneWinner

\* A step never takes back what has landed.
Monotone ==
    \A q \in Requests : req[q].landed =>
        /\ req'[q].landed
        /\ req'[q].op = req[q].op
        /\ req'[q].key = req[q].key
        /\ req'[q].expected = req[q].expected

\* A step that lands nothing.
LandsNothing ==
    /\ refs' = refs
    /\ \A q \in Requests : req'[q].landed => req[q].landed

\* The origin takes the push of r, in time or late.
Takes(r) ==
    /\ LeaseHolds(r) /\ ~req[r].landed /\ req[r].op \in Writes /\ req[r].key \in Keys
    /\ refs' = [refs EXCEPT ![req[r].key] = NewSha(r)]
    /\ req'[r].landed
    /\ \A q \in Requests : /\ req'[q].op = req[q].op
                           /\ req'[q].key = req[q].key
                           /\ req'[q].expected = req[q].expected
                           /\ q # r => req'[q].landed = req[q].landed

---------------------------------------------------------------------------
(* What each kind of step does to the requests *)

\* Moving a request along changes its place only.
LEMMA RequestMoves ==
  ASSUME NEW q \in Request, NEW p \in RequestPCs
  PROVE  /\ [q EXCEPT !.pc = p] \in Request
         /\ [q EXCEPT !.pc = p].pc = p
         /\ [q EXCEPT !.pc = p].op = q.op
         /\ [q EXCEPT !.pc = p].inst = q.inst
         /\ [q EXCEPT !.pc = p].key = q.key
         /\ [q EXCEPT !.pc = p].expected = q.expected
         /\ [q EXCEPT !.pc = p].landed = q.landed
         /\ [q EXCEPT !.pc = p].seen = q.seen
  BY DEF Request

\* The same of one request among all of them.
LEMMA AtMoves ==
  ASSUME TypeOK, NEW r \in Requests, NEW p \in RequestPCs, At(r, p)
  PROVE  /\ req' \in [Requests -> Request]
         /\ req'[r].pc = p
         /\ \A q \in Requests :
              /\ q # r => req'[q].pc = req[q].pc
              /\ req'[q].op = req[q].op
              /\ req'[q].inst = req[q].inst
              /\ req'[q].key = req[q].key
              /\ req'[q].expected = req[q].expected
              /\ req'[q].landed = req[q].landed
              /\ req'[q].seen = req[q].seen
<1>1. req' = [req EXCEPT ![r] = [req[r] EXCEPT !.pc = p]]
  BY DEF At, TypeOK
<1>2. req[r] \in Request
  BY DEF TypeOK
<1> QED BY <1>1, <1>2, RequestMoves DEF TypeOK

\* A request that arrives has not landed.
LEMMA Receives ==
  ASSUME TypeOK, NEW r \in Requests, NEW i \in Instances, NEW k \in Keys, NEW e \in Sha,
         NEW op \in Writes, Receive(r, op, i, k, e)
  PROVE  /\ req' \in [Requests -> Request]
         /\ \A q \in Requests : q # r => req'[q] = req[q]
         /\ req[r].op = "none"
         /\ req'[r].op = op /\ req'[r].pc = "push" /\ ~req'[r].landed
         /\ req'[r].key = k /\ req'[r].inst = i /\ req'[r].expected = e
         /\ req'[r].seen = NoRefs
<1> DEFINE new == [NoRequest EXCEPT !.op = op, !.inst = i, !.key = k, !.expected = e,
                                    !.pc = "push"]
<1>1. new \in Request /\ new.op = op /\ new.pc = "push" /\ ~new.landed /\ new.key = k
      /\ new.inst = i /\ new.expected = e /\ new.seen = NoRefs
  BY DEF Request, RequestPCs, NoRequest, Writes, NoRefs, RefMap, Sha
<1>2. req' = [req EXCEPT ![r] = new]
  BY DEF Receive
<1> HIDE DEF new
<1> QED BY <1>1, <1>2 DEF TypeOK, Receive

\* A push lands one request.
LEMMA Lands ==
  ASSUME TypeOK, NEW r \in Requests, pushClaimRef(r) \/ PushLandsLate(r)
  PROVE  /\ req' \in [Requests -> Request]
         /\ \A q \in Requests : q # r => req'[q] = req[q]
         /\ req'[r].pc = (IF pushClaimRef(r) THEN "landed" ELSE "error") /\ req'[r].landed
         /\ req'[r].op = req[r].op /\ req'[r].key = req[r].key
         /\ req'[r].inst = req[r].inst /\ req'[r].expected = req[r].expected
         /\ req'[r].seen = req[r].seen
<1> DEFINE taken == [req[r] EXCEPT !.pc = "landed", !.landed = TRUE]
           late == [req[r] EXCEPT !.landed = TRUE]
           Kept(new) == /\ new \in Request /\ new.landed
                        /\ new.op = req[r].op /\ new.key = req[r].key /\ new.inst = req[r].inst
                        /\ new.expected = req[r].expected /\ new.seen = req[r].seen
<1>1. Kept(taken) /\ taken.pc = "landed"
  BY DEF TypeOK, Request, RequestPCs
<1>2. Kept(late) /\ late.pc = req[r].pc
  BY DEF TypeOK, Request
<1>3. pushClaimRef(r) => req' = [req EXCEPT ![r] = taken]
  BY DEF pushClaimRef, TypeOK
<1>4. PushLandsLate(r) => req' = [req EXCEPT ![r] = late] /\ req[r].pc = "error"
  BY DEF PushLandsLate, TypeOK
<1> HIDE DEF taken, late
<1>5. CASE pushClaimRef(r)
  BY <1>1, <1>3, <1>5 DEF TypeOK
<1>6. CASE ~pushClaimRef(r)
  BY <1>2, <1>4, <1>6 DEF TypeOK
<1> QED BY <1>5, <1>6

\* A listing shows the mirror, or will show what the origin has.
LEMMA Listing ==
  ASSUME TypeOK, NEW r \in Requests, NEW i \in Instances, ListClaimRefs(r, i)
  PROVE  /\ req' \in [Requests -> Request]
         /\ \A q \in Requests : q # r => req'[q] = req[q]
         /\ req[r].op = "none"
         /\ req'[r].op = "list" /\ req'[r].pc \in {"ok", "list"} /\ ~req'[r].landed
         /\ req'[r].seen \in {mirror[i], NoRefs}
<1> DEFINE new(b) == [NoRequest EXCEPT !.op = "list", !.inst = i,
                                       !.pc = IF b THEN "ok" ELSE "list",
                                       !.seen = IF b THEN mirror[i] ELSE NoRefs]
<1>0. NoRefs \in RefMap /\ mirror[i] \in RefMap
  BY DEF NoRefs, RefMap, Sha, TypeOK
<1>1. ASSUME NEW b \in BOOLEAN
      PROVE  /\ new(b) \in Request /\ new(b).op = "list" /\ new(b).pc \in {"ok", "list"}
             /\ ~new(b).landed /\ new(b).seen \in {mirror[i], NoRefs}
  BY <1>0 DEF Request, RequestPCs, NoRequest, Sha
<1>2. PICK served \in BOOLEAN : req' = [req EXCEPT ![r] = new(served)]
  BY DEF ListClaimRefs
<1> HIDE DEF new
<1> QED BY <1>1, <1>2 DEF TypeOK, ListClaimRefs

\* A live listing is filled in, or its request fails.
LEMMA Filled ==
  ASSUME TypeOK, NEW r \in Requests, ListRefs(r) \/ listClaimRefsLive(r)
  PROVE  /\ req' \in [Requests -> Request]
         /\ \A q \in Requests : q # r => req'[q] = req[q]
         /\ req[r].pc \in {"list", "read"} /\ req'[r].pc \in {"read", "ok", "error"}
         /\ req'[r].op = req[r].op /\ req'[r].landed = req[r].landed
         /\ \A k \in Keys : req'[r].seen[k] \in {refs[k], req[r].seen[k], NoSha}
<1>1. CASE ListRefs(r)
  <2> DEFINE new == [req[r] EXCEPT !.pc = "read", !.seen = refs]
  <2>1. new \in Request /\ new.pc = "read" /\ new.op = req[r].op
        /\ new.landed = req[r].landed /\ new.seen = refs
    BY DEF TypeOK, Request, RequestPCs
  <2>2. req' = [req EXCEPT ![r] = new]
    BY <1>1 DEF ListRefs, TypeOK
  <2> HIDE DEF new
  <2> QED BY <1>1, <2>1, <2>2 DEF TypeOK, ListRefs
<1>2. CASE listClaimRefsLive(r)
  <2>1. PICK D \in SUBSET {k \in Keys : req[r].seen[k] # NoSha} :
          IF AllMoved(D, r)
          THEN req' = [req EXCEPT ![r].pc = "ok",
                                  ![r].seen = [k \in Keys |-> IF k \in D THEN NoSha ELSE @[k]]]
          ELSE At(r, "error")
    BY <1>2 DEF listClaimRefsLive
  <2> DEFINE shown == [k \in Keys |-> IF k \in D THEN NoSha ELSE req[r].seen[k]]
             new == [req[r] EXCEPT !.pc = "ok", !.seen = shown]
  <2>2. CASE AllMoved(D, r)
    <3>0. req[r].seen \in RefMap
      BY DEF TypeOK, Request
    <3>1. shown \in RefMap
      BY <3>0 DEF RefMap, Sha
    <3>2. new \in Request /\ new.pc = "ok" /\ new.op = req[r].op
          /\ new.landed = req[r].landed /\ new.seen = shown
      <4> HIDE DEF shown
      <4> QED BY <3>1 DEF TypeOK, Request, RequestPCs
    <3>3. req' = [req EXCEPT ![r] = new]
      BY <2>1, <2>2 DEF TypeOK
    <3>4. \A k \in Keys : shown[k] \in {req[r].seen[k], NoSha}
      OBVIOUS
    <3> HIDE DEF new, shown
    <3> QED BY <1>2, <3>2, <3>3, <3>4 DEF TypeOK, listClaimRefsLive
  <2>3. CASE ~AllMoved(D, r)
    <3>1. At(r, "error")
      BY <2>1, <2>3
    <3>2. /\ req' \in [Requests -> Request]
          /\ req'[r].pc = "error"
          /\ req'[r].op = req[r].op /\ req'[r].landed = req[r].landed
          /\ req'[r].seen = req[r].seen
      BY <3>1, AtMoves DEF RequestPCs
    <3>3. \A q \in Requests : q # r => req'[q] = req[q]
      BY <3>1 DEF At, TypeOK
    <3> QED BY <1>2, <3>2, <3>3 DEF listClaimRefsLive
  <2> QED BY <2>2, <2>3
<1> QED BY <1>1, <1>2

\* A restart fails the requests in flight and changes nothing else of them.
LEMMA Fails ==
  ASSUME TypeOK, NEW i \in Instances, Restart(i)
  PROVE  /\ req' \in [Requests -> Request]
         /\ \A q \in Requests :
              /\ req'[q].pc = IF q \in InFlight(i) THEN "error" ELSE req[q].pc
              /\ req'[q].op = req[q].op
              /\ req'[q].inst = req[q].inst
              /\ req'[q].key = req[q].key
              /\ req'[q].expected = req[q].expected
              /\ req'[q].landed = req[q].landed
              /\ req'[q].seen = req[q].seen
<1>1. req' = [q \in Requests |->
                IF q \in InFlight(i) THEN [req[q] EXCEPT !.pc = "error"] ELSE req[q]]
  BY DEF Restart
<1>2. \A q \in Requests : req[q] \in Request
  BY DEF TypeOK
<1>3. "error" \in RequestPCs
  BY DEF RequestPCs
<1> QED BY <1>1, <1>2, <1>3, RequestMoves

\* A fetch that starts has the origin's refs before it; one that ends has none.
LEMMA FetchMoves ==
  ASSUME TypeOK, NEW i \in Instances
  PROVE  /\ [fetch EXCEPT ![i] = NoFetch] \in [Instances -> FetchState]
         /\ \A j \in Instances :
              [fetch EXCEPT ![i] = NoFetch][j].advertised
                = IF j = i THEN NoRefs ELSE fetch[j].advertised
         /\ [fetch EXCEPT ![i].busy = TRUE, ![i].advertised = refs] \in [Instances -> FetchState]
         /\ \A j \in Instances :
              [fetch EXCEPT ![i].busy = TRUE, ![i].advertised = refs][j].advertised
                = IF j = i THEN refs ELSE fetch[j].advertised
<1>1. fetch[i] \in FetchState /\ refs \in RefMap /\ NoRefs \in RefMap
  BY DEF TypeOK, NoRefs, RefMap, Sha
<1>2. NoFetch \in FetchState /\ NoFetch.advertised = NoRefs
  BY <1>1 DEF FetchState, NoFetch
<1>3. /\ [fetch[i] EXCEPT !.busy = TRUE, !.advertised = refs] \in FetchState
      /\ [fetch[i] EXCEPT !.busy = TRUE, !.advertised = refs].advertised = refs
  BY <1>1 DEF FetchState
<1>4. [fetch EXCEPT ![i].busy = TRUE, ![i].advertised = refs]
        = [fetch EXCEPT ![i] = [fetch[i] EXCEPT !.busy = TRUE, !.advertised = refs]]
  BY DEF TypeOK
<1> QED BY <1>2, <1>3, <1>4 DEF TypeOK

---------------------------------------------------------------------------
(* The invariant *)

\* The sha s is genuine after the step.
StillGenuine(s, k) ==
    s # NoSha => s \in Requests /\ req'[s].op = "put" /\ req'[s].key = k /\ req'[s].landed

\* A sha stays genuine, since nothing that landed is taken back.
LEMMA GenuineStays ==
  ASSUME Monotone, NEW s \in Sha, NEW k \in Keys, Genuine(s, k)
  PROVE  StillGenuine(s, k)
  BY DEF Monotone, Genuine, WasClaim, Sha, StillGenuine

\* A write gives its ref a commit that is genuine once it has landed.
LEMMA NewShaGenuine ==
  ASSUME NEW r \in Requests, req[r].landed
  PROVE  Genuine(NewSha(r), req[r].key)
  BY DEF Genuine, WasClaim, NewSha

\* Every step keeps the types, the shape of the requests and what has landed; it lands
\* one request by the origin's compare-and-swap, or none.
LEMMA RequestsStep ==
  ASSUME TypeOK, Shape, [Next]_vars
  PROVE  /\ TypeOK' /\ Shape' /\ Monotone
         /\ LandsNothing \/ \E r \in Requests : Takes(r)
<1>1. ASSUME NEW r \in Requests, NEW i \in Instances, NEW k \in Keys,
             PutClaimRef(r, i, k) \/ DeleteClaimRef(r, i, k)
      PROVE  TypeOK' /\ Shape' /\ Monotone /\ LandsNothing
  <2>1. PICK e \in Sha, op \in Writes : Receive(r, op, i, k, e)
    BY <1>1 DEF PutClaimRef, DeleteClaimRef, Sha, Writes
  <2>2. UNCHANGED <<refs, mirror, refspec, prune, fresh, fetch, faults>>
    BY <2>1 DEF Receive
  <2>3. ~req[r].landed
    BY <2>1 DEF Receive, Shape, Writes
  <2> QED BY <2>1, <2>2, <2>3, Receives DEF TypeOK, Shape, Monotone, LandsNothing, Writes
<1>2. ASSUME NEW r \in Requests, NEW i \in Instances, ListClaimRefs(r, i)
      PROVE  TypeOK' /\ Shape' /\ Monotone /\ LandsNothing
  <2>2. UNCHANGED <<refs, mirror, refspec, prune, fresh, fetch>> /\ faults' \in Nat
    BY <1>2 DEF ListClaimRefs, listClaimRefsFromMirror, Fault, TypeOK
  <2>3. ~req[r].landed
    BY <1>2 DEF ListClaimRefs, Shape, Writes
  <2> QED BY <1>2, <2>2, <2>3, Listing DEF TypeOK, Shape, Monotone, LandsNothing, Writes
<1>3. ASSUME NEW r \in Requests, pushClaimRef(r) \/ PushLandsLate(r)
      PROVE  TypeOK' /\ Shape' /\ Monotone /\ Takes(r)
  <2>1. refs' \in RefMap
    BY <1>3 DEF pushClaimRef, PushLandsLate, TypeOK, RefMap, Sha, NewSha
  <2>2. /\ UNCHANGED <<mirror, refspec, prune, fresh, fetch, faults>>
        /\ refs' = [refs EXCEPT ![req[r].key] = NewSha(r)] /\ LeaseHolds(r)
    BY <1>3 DEF pushClaimRef, PushLandsLate
  <2>3. ~req[r].landed /\ req[r].op \in Writes /\ req[r].key \in Keys
    BY <1>3 DEF pushClaimRef, PushLandsLate, Underway, Shape
  <2>4. Takes(r)
    BY <1>3, <2>2, <2>3, Lands DEF Takes
  <2> QED BY <1>3, <2>1, <2>2, <2>3, <2>4, Lands DEF TypeOK, Shape, Monotone, Writes
<1>4. ASSUME NEW r \in Requests, NEW p \in {"conflict", "error", "ok", "update"}, At(r, p),
             p = "conflict" => req[r].pc = "push",
             p = "update" => req[r].pc = "landed",
             req[r].pc # "none", refs' = refs
      PROVE  req' \in [Requests -> Request] /\ Shape' /\ Monotone /\ LandsNothing
  <2>1. p \in RequestPCs
    BY DEF RequestPCs
  <2> QED BY <1>4, <2>1, AtMoves DEF Shape, Monotone, LandsNothing
<1>5. ASSUME NEW r \in Requests, LeaseConflict(r)
      PROVE  TypeOK' /\ Shape' /\ Monotone /\ LandsNothing
  BY <1>4, <1>5 DEF LeaseConflict, ConflictAnswer, TypeOK
<1>6. ASSUME NEW r \in Requests, NEW i \in Instances, NEW k \in Keys, MirrorGets(i, k, NewSha(r))
      PROVE  mirror' \in [Instances -> RefMap]
  BY <1>6 DEF MirrorGets, TypeOK, RefMap, Sha, NewSha
<1>7. ASSUME NEW r \in Requests, PushReported(r) \/ updateClaimMirrorRef(r)
      PROVE  TypeOK' /\ Shape' /\ Monotone /\ LandsNothing
  <2>1. req[r].key \in Keys /\ req[r].inst \in Instances
    BY <1>7 DEF PushReported, updateClaimMirrorRef, Shape
  <2>2. mirror' \in [Instances -> RefMap]
    BY <1>6, <1>7, <2>1 DEF PushReported, updateClaimMirrorRef, TypeOK
  <2> QED BY <1>4, <1>7, <2>2 DEF PushReported, updateClaimMirrorRef, TypeOK
<1>8. faults \in Nat /\ Fault => faults' \in Nat
  BY DEF Fault
<1>9. ASSUME NEW r \in Requests, OriginFails(r) \/ MirrorUpdateFails(r)
      PROVE  TypeOK' /\ Shape' /\ Monotone /\ LandsNothing
  BY <1>4, <1>8, <1>9 DEF OriginFails, MirrorUpdateFails, DoubtAnswer, TypeOK
<1>10. ASSUME NEW r \in Requests, ListRefs(r) \/ listClaimRefsLive(r)
       PROVE  TypeOK' /\ Shape' /\ Monotone /\ LandsNothing
  <2>1. UNCHANGED <<refs, mirror, refspec, prune, fresh, fetch>> /\ faults' \in Nat
    BY <1>8, <1>10 DEF ListRefs, listClaimRefsLive, TypeOK
  <2>2. req[r].op = "list" /\ ~req[r].landed
    BY <1>10, Filled DEF Shape, Writes
  <2> QED BY <1>10, <2>1, <2>2, Filled DEF TypeOK, Shape, Monotone, LandsNothing, Writes
<1>11. ASSUME NEW i \in Instances, FetchStep(i) \/ Expire(i)
       PROVE  TypeOK' /\ Shape' /\ Monotone /\ LandsNothing
  <2>1. refs' = refs /\ req' = req /\ UNCHANGED <<refspec, prune>>
    BY <1>11 DEF FetchStep, StartFetch, recordClaimMirrorFetch, FetchFails, Expire
  <2>2. fetch' \in [Instances -> FetchState]
    <3>1. fetch' \in {fetch, [fetch EXCEPT ![i] = NoFetch],
                     [fetch EXCEPT ![i].busy = TRUE, ![i].advertised = refs]}
      BY <1>11 DEF FetchStep, StartFetch, recordClaimMirrorFetch, FetchFails, Expire
    <3>2. /\ [fetch EXCEPT ![i] = NoFetch] \in [Instances -> FetchState]
          /\ [fetch EXCEPT ![i].busy = TRUE, ![i].advertised = refs] \in [Instances -> FetchState]
          /\ fetch \in [Instances -> FetchState]
      BY FetchMoves DEF TypeOK
    <3> QED BY ONLY <3>1, <3>2
  <2>5. fresh' \in [Instances -> BOOLEAN]
    BY <1>11 DEF FetchStep, StartFetch, recordClaimMirrorFetch, FetchFails, Expire, TypeOK
  <2>3. mirror' \in [Instances -> RefMap]
    <3>1. fetch[i].advertised \in RefMap /\ mirror[i] \in RefMap
      BY DEF TypeOK, FetchState
    <3>0. Fetched(i) \in RefMap
      BY <3>1 DEF Fetched, RefMap
    <3>2. CASE FetchFails(i)
      BY <3>0, <3>1, <3>2 DEF FetchFails, TypeOK, RefMap
    <3>3. CASE ~FetchFails(i)
      BY <1>11, <3>0, <3>1, <3>3 DEF FetchStep, StartFetch, recordClaimMirrorFetch, Expire, TypeOK
    <3> QED BY <3>2, <3>3
  <2>4. faults' \in Nat
    BY <1>8, <1>11 DEF FetchStep, StartFetch, recordClaimMirrorFetch, FetchFails, Expire, TypeOK
  <2> QED BY <2>1, <2>2, <2>3, <2>4, <2>5 DEF TypeOK, Shape, Monotone, LandsNothing
<1>12. ASSUME NEW i \in Instances, Restart(i)
       PROVE  TypeOK' /\ Shape' /\ Monotone /\ LandsNothing
  <2>1. refs' = refs /\ mirror' = mirror /\ fresh' \in [Instances -> BOOLEAN]
        /\ {refspec', prune'} \subseteq [Instances -> BOOLEAN] /\ faults' \in Nat
    BY <1>8, <1>12 DEF Restart, ConfigureClaimMirror, TypeOK
  <2>2. fetch' \in [Instances -> FetchState]
    BY <1>12, FetchMoves DEF Restart
  <2>3. \A q \in InFlight(i) : req[q].pc # "none"
    BY DEF InFlight
  <2> QED BY <1>12, <2>1, <2>2, <2>3, Fails DEF TypeOK, Shape, Monotone, LandsNothing
<1>13. ASSUME UNCHANGED vars
       PROVE  TypeOK' /\ Shape' /\ Monotone /\ LandsNothing
  BY <1>13 DEF vars, TypeOK, Shape, Monotone, LandsNothing
<1> QED BY <1>1, <1>2, <1>3, <1>5, <1>7, <1>9, <1>10, <1>11, <1>12, <1>13
        DEF Next, RequestStep

\* The initial states.
LEMMA InitTyped ==
  ASSUME Init
  PROVE  TypeOK /\ Shape
<1>1. NoRefs \in RefMap
  BY DEF NoRefs, RefMap, Sha
<1>2. NoRequest \in Request
  BY <1>1 DEF NoRequest, Request, RequestPCs, Sha
<1>3. NoFetch \in FetchState
  BY <1>1 DEF FetchState, NoFetch
<1>4. NoRequest.pc = "none" /\ NoRequest.op = "none" /\ ~NoRequest.landed
  BY DEF NoRequest
<1> QED BY <1>1, <1>2, <1>3, <1>4, ClaimConfig DEF Init, TypeOK, Shape, Writes

\* Type correctness: every ref, mirror and request keeps its shape.
THEOREM TypeCorrect == Spec => []TypeOK
<1>1. Init => TypeOK /\ Shape
  BY InitTyped
<1>2. TypeOK /\ Shape /\ [Next]_vars => (TypeOK /\ Shape)'
  BY RequestsStep
<1> QED BY <1>1, <1>2, PTL DEF Spec

\* A mirror entry stays, is what the fetch was advertised, or is what a landed write of
\* this ref wrote.
LEMMA MirrorSources ==
  ASSUME TypeOK, Shape, [Next]_vars, NEW i \in Instances, NEW k \in Keys
  PROVE  \/ mirror'[i][k] \in {mirror[i][k], fetch[i].advertised[k]}
         \/ \E r \in Requests : req[r].landed /\ req[r].key = k /\ mirror'[i][k] = NewSha(r)
<1>0. mirror[i] \in RefMap /\ \A j \in Instances : fetch[j].advertised \in RefMap
  BY DEF TypeOK, FetchState
<1>1. ASSUME NEW r \in Requests, PushReported(r) \/ updateClaimMirrorRef(r), mirror' # mirror
      PROVE  \/ mirror'[i][k] = mirror[i][k]
             \/ req[r].landed /\ req[r].key = k /\ mirror'[i][k] = NewSha(r)
  <2>1. req[r].landed /\ MirrorGets(req[r].inst, req[r].key, NewSha(r))
    BY <1>1 DEF PushReported, updateClaimMirrorRef, Shape
  <2> QED BY <2>1, <1>0 DEF MirrorGets, TypeOK, RefMap
<1>2. ASSUME NEW j \in Instances, recordClaimMirrorFetch(j)
      PROVE  mirror'[i][k] \in {mirror[i][k], fetch[i].advertised[k]}
  BY <1>0, <1>2 DEF recordClaimMirrorFetch, Fetched, TypeOK, RefMap
<1>3. ASSUME NEW j \in Instances, FetchFails(j)
      PROVE  mirror'[i][k] \in {mirror[i][k], fetch[i].advertised[k]}
  BY <1>0, <1>3 DEF FetchFails, Fetched, TypeOK, RefMap
<1>4. \/ mirror' = mirror
      \/ \E r \in Requests : PushReported(r) \/ updateClaimMirrorRef(r)
      \/ \E j \in Instances : recordClaimMirrorFetch(j) \/ FetchFails(j)
  BY DEF Next, PutClaimRef, DeleteClaimRef, Receive, ListClaimRefs, RequestStep, pushClaimRef,
         PushLandsLate, LeaseConflict, OriginFails, MirrorUpdateFails, ListRefs,
         listClaimRefsLive, FetchStep, StartFetch, Expire, Restart, vars
<1> QED BY <1>1, <1>2, <1>3, <1>4

\* An advertisement stays, is the origin's refs, or is gone.
LEMMA AdvertisedSources ==
  ASSUME TypeOK, [Next]_vars, NEW i \in Instances
  PROVE  fetch'[i].advertised \in {fetch[i].advertised, refs, NoRefs}
<1>1. \/ fetch' = fetch
      \/ \E j \in Instances : \/ fetch' = [fetch EXCEPT ![j] = NoFetch]
                              \/ fetch' = [fetch EXCEPT ![j].busy = TRUE, ![j].advertised = refs]
  BY DEF Next, PutClaimRef, DeleteClaimRef, Receive, ListClaimRefs, RequestStep, pushClaimRef,
         PushLandsLate, LeaseConflict, OriginFails, MirrorUpdateFails, ListRefs,
         listClaimRefsLive, PushReported,
         updateClaimMirrorRef, FetchStep, StartFetch, recordClaimMirrorFetch, FetchFails, Expire,
         Restart, vars
<1>2. ASSUME NEW j \in Instances, fetch' = [fetch EXCEPT ![j] = NoFetch]
      PROVE  fetch'[i].advertised \in {fetch[i].advertised, NoRefs}
  BY <1>2, FetchMoves
<1>3. ASSUME NEW j \in Instances,
             fetch' = [fetch EXCEPT ![j].busy = TRUE, ![j].advertised = refs]
      PROVE  fetch'[i].advertised \in {fetch[i].advertised, refs}
  BY <1>3, FetchMoves
<1> QED BY <1>1, <1>2, <1>3

\* A listing shows what the origin or a mirror has, or nothing.
LEMMA SeenSources ==
  ASSUME TypeOK, [Next]_vars, NEW r \in Requests, NEW k \in Keys
  PROVE  \/ req'[r].seen[k] \in {req[r].seen[k], refs[k], NoSha}
         \/ \E i \in Instances : req'[r].seen[k] = mirror[i][k]
<1>1. NoRefs[k] = NoSha
  BY DEF NoRefs
<1>2. ASSUME NEW q \in Requests, NEW i \in Instances, NEW l \in Keys,
             PutClaimRef(q, i, l) \/ DeleteClaimRef(q, i, l)
      PROVE  req'[r].seen[k] \in {req[r].seen[k], NoSha}
  <2>1. PICK e \in Sha, op \in Writes : Receive(q, op, i, l, e)
    BY <1>2 DEF PutClaimRef, DeleteClaimRef, Sha, Writes
  <2> QED BY <1>1, <2>1, Receives
<1>3. ASSUME NEW q \in Requests, NEW i \in Instances, ListClaimRefs(q, i)
      PROVE  \/ req'[r].seen[k] \in {req[r].seen[k], NoSha}
             \/ req'[r].seen[k] = mirror[i][k]
  BY <1>1, <1>3, Listing
<1>4. ASSUME NEW q \in Requests, pushClaimRef(q) \/ PushLandsLate(q)
      PROVE  req'[r].seen = req[r].seen
  BY <1>4, Lands
<1>5. ASSUME NEW q \in Requests, NEW p \in RequestPCs, At(q, p)
      PROVE  req'[r].seen = req[r].seen
  BY <1>5, AtMoves
<1>6. ASSUME NEW q \in Requests, ListRefs(q) \/ listClaimRefsLive(q)
      PROVE  req'[r].seen[k] \in {req[r].seen[k], refs[k], NoSha}
  BY <1>6, Filled
<1>7. ASSUME NEW i \in Instances, Restart(i)
      PROVE  req'[r].seen = req[r].seen
  BY <1>7, Fails
<1>8. ASSUME NEW q \in Requests, RequestStep(q)
      PROVE  req'[r].seen[k] \in {req[r].seen[k], refs[k], NoSha}
  BY <1>4, <1>5, <1>6, <1>8
     DEF RequestStep, LeaseConflict, PushReported, OriginFails, updateClaimMirrorRef,
         MirrorUpdateFails, ConflictAnswer, DoubtAnswer, RequestPCs
<1>9. ASSUME NEW i \in Instances, FetchStep(i) \/ Expire(i)
      PROVE  req' = req
  BY <1>9 DEF FetchStep, StartFetch, recordClaimMirrorFetch, FetchFails, Expire
<1> QED BY <1>2, <1>3, <1>4, <1>7, <1>8, <1>9 DEF Next, vars

\* Sound is kept: a sha moves from the origin to a mirror, an advertisement or a listing,
\* and comes to the origin by the push that lands it.
LEMMA SoundStep ==
  ASSUME TypeOK, Shape, Sound, [Next]_vars
  PROVE  Sound'
<1> DEFINE G(s, k) == s \in Sha /\ Genuine(s, k)
<1>1. TypeOK' /\ Shape' /\ Monotone
  BY RequestsStep
<1>2. \A s, k : k \in Keys /\ G(s, k) => StillGenuine(s, k)
  BY <1>1, GenuineStays
<1>3. /\ \A k \in Keys : G(refs[k], k)
      /\ \A i \in Instances, k \in Keys : G(mirror[i][k], k) /\ G(fetch[i].advertised[k], k)
      /\ \A r \in Requests, k \in Keys : G(req[r].seen[k], k)
      /\ \A k \in Keys : G(NoSha, k)
  BY DEF Sound, TypeOK, RefMap, Request, FetchState, Sha, Genuine
<1>4. \A r \in Requests : req[r].landed /\ req[r].key \in Keys => G(NewSha(r), req[r].key)
  BY NewShaGenuine DEF NewSha, Sha
<1> HIDE DEF G
<1>5. \A k \in Keys : StillGenuine(refs'[k], k)
  <2>1. CASE refs' = refs
    BY <1>2, <1>3, <2>1
  <2>2. ASSUME NEW r \in Requests, Takes(r), NEW k \in Keys
        PROVE  StillGenuine(refs'[k], k)
    <3>1. refs' = [refs EXCEPT ![req[r].key] = NewSha(r)] /\ req[r].key \in Keys
      BY <2>2 DEF Takes
    <3>2. StillGenuine(NewSha(r), req[r].key)
      BY <2>2 DEF Takes, StillGenuine, NewSha
    <3>3. StillGenuine(refs[k], k)
      BY <1>2, <1>3
    <3> QED BY <3>1, <3>2, <3>3 DEF TypeOK, RefMap
  <2> QED BY <2>1, <2>2, RequestsStep DEF LandsNothing
<1>6. \A i \in Instances, k \in Keys : StillGenuine(mirror'[i][k], k)
  <2> TAKE i \in Instances, k \in Keys
  <2>1. G(mirror'[i][k], k)
    BY <1>3, <1>4, MirrorSources
  <2> QED BY <1>2, <2>1
<1>7. \A i \in Instances, k \in Keys : StillGenuine(fetch'[i].advertised[k], k)
  <2> TAKE i \in Instances, k \in Keys
  <2>1. G(fetch'[i].advertised[k], k)
    BY <1>3, AdvertisedSources DEF NoRefs
  <2> QED BY <1>2, <2>1
<1>8. \A r \in Requests, k \in Keys : StillGenuine(req'[r].seen[k], k)
  <2> TAKE r \in Requests, k \in Keys
  <2>1. G(req'[r].seen[k], k)
    BY <1>3, SeenSources
  <2> QED BY <1>2, <2>1
<1> QED BY <1>5, <1>6, <1>7, <1>8 DEF Sound, Genuine, WasClaim, StillGenuine

\* Consumed is kept: a push finds the value it expects on the ref, which is no value that
\* was consumed before, and leaves a commit that has never landed there.
LEMMA ConsumedStep ==
  ASSUME IInv, [Next]_vars
  PROVE  Consumed'
<1>1. TypeOK' /\ Monotone /\ (LandsNothing \/ \E r \in Requests : Takes(r))
  BY RequestsStep DEF IInv
<1>2. CASE LandsNothing
  <2> SUFFICES ASSUME NEW q \in Requests, req'[q].landed, req'[q].expected # NoSha
               PROVE  req'[req'[q].expected].landed /\ refs'[req'[q].key] # req'[q].expected
    BY DEF Consumed
  <2>1. req[q].landed /\ req'[q].expected = req[q].expected /\ req'[q].key = req[q].key
    BY <1>1, <1>2 DEF Monotone, LandsNothing
  <2>2. req[q].expected \in Requests
    BY <2>1 DEF IInv, TypeOK, Request, Sha
  <2> QED BY <1>1, <1>2, <2>1, <2>2 DEF IInv, Consumed, Monotone, LandsNothing
<1>3. ASSUME NEW r \in Requests, Takes(r)
      PROVE  Consumed'
  <2> SUFFICES ASSUME NEW q \in Requests, req'[q].landed, req'[q].expected # NoSha
               PROVE  req'[req'[q].expected].landed /\ refs'[req'[q].key] # req'[q].expected
    BY DEF Consumed
  <2>1. /\ refs[req[r].key] = req[r].expected /\ req[r].key \in Keys /\ ~req[r].landed
        /\ refs' = [refs EXCEPT ![req[r].key] = NewSha(r)]
    BY <1>3 DEF Takes, LeaseHolds
  <2>2. req'[q].expected = req[q].expected /\ req'[q].key = req[q].key
        /\ req[q].expected \in Requests /\ (q # r => req[q].landed)
    BY <1>3 DEF Takes, IInv, TypeOK, Request, Sha
  <2>3. req[req[q].expected].landed
    <3>1. CASE q = r
      BY <2>1, <2>2, <3>1 DEF IInv, Sound, Genuine, WasClaim
    <3>2. CASE q # r
      BY <2>2, <3>2 DEF IInv, Consumed
    <3> QED BY <3>1, <3>2
  <2>4. req[q].key \in Keys
    BY <2>1, <2>2 DEF IInv, Shape
  <2>5. NewSha(r) # req[q].expected
    BY <2>1, <2>2, <2>3, ClaimConfig DEF NewSha
  <2>6. refs'[req[q].key] # req[q].expected
    <3>1. CASE req[q].key = req[r].key
      BY <2>1, <2>5, <3>1 DEF IInv, TypeOK, RefMap
    <3>2. CASE req[q].key # req[r].key
      BY <2>1, <2>2, <2>4, <3>2 DEF IInv, Consumed, TypeOK, RefMap
    <3> QED BY <3>1, <3>2
  <2> QED BY <1>1, <2>2, <2>3, <2>6 DEF Monotone
<1> QED BY <1>1, <1>2, <1>3

\* No second winner: what the push found on the ref is not what any earlier winner expected.
LEMMA OneWinnerStep ==
  ASSUME IInv, [Next]_vars
  PROVE  OneWinner'
<1>1. Monotone /\ (LandsNothing \/ \E r \in Requests : Takes(r))
  BY RequestsStep DEF IInv
<1>2. CASE LandsNothing
  BY <1>1, <1>2 DEF IInv, OneWinner, Monotone, LandsNothing
<1>3. ASSUME NEW r \in Requests, Takes(r)
      PROVE  OneWinner'
  <2>1. refs[req[r].key] = req[r].expected
    BY <1>3 DEF Takes, LeaseHolds
  <2>2. ASSUME NEW q \in Requests, req[q].landed, req[q].key = req[r].key,
               req[q].expected = req[r].expected, req[r].expected # NoSha
        PROVE  FALSE
    BY <2>1, <2>2 DEF IInv, Consumed
  <2>3. \A q \in Requests :
          /\ req'[q].key = req[q].key
          /\ req'[q].expected = req[q].expected
          /\ q # r => req'[q].landed = req[q].landed
    BY <1>3 DEF Takes
  <2> SUFFICES ASSUME NEW p \in Requests, NEW q \in Requests, req'[p].landed, req'[q].landed,
                      req'[p].key = req'[q].key, req'[p].expected = req'[q].expected,
                      req'[p].expected # NoSha, p # q
               PROVE  FALSE
    BY DEF OneWinner
  <2>4. req[p].key = req[q].key /\ req[p].expected = req[q].expected /\ req[p].expected # NoSha
    BY <2>3
  <2>5. CASE p = r
    BY <2>2, <2>3, <2>4, <2>5
  <2>6. CASE q = r
    BY <2>2, <2>3, <2>4, <2>6
  <2>7. CASE p # r /\ q # r
    BY <2>3, <2>4, <2>7 DEF IInv, OneWinner
  <2> QED BY <2>5, <2>6, <2>7
<1> QED BY <1>1, <1>2, <1>3

\* The inductive invariant.
LEMMA Invariance == Spec => []IInv
<1>1. Init => IInv
  <2> SUFFICES ASSUME Init PROVE IInv
    OBVIOUS
  <2>1. TypeOK /\ Shape
    BY InitTyped
  <2>2. /\ \A r \in Requests : ~req[r].landed /\ req[r].seen = NoRefs
        /\ \A i \in Instances : mirror[i] = NoRefs /\ fetch[i].advertised = NoRefs
        /\ refs = NoRefs
    BY DEF Init, NoRequest, NoFetch
  <2>3. \A k \in Keys : NoRefs[k] = NoSha
    BY DEF NoRefs
  <2> QED BY <2>1, <2>2, <2>3 DEF IInv, Sound, Genuine, Consumed, OneWinner
<1>2. IInv /\ [Next]_vars => IInv'
  <2> SUFFICES ASSUME IInv, [Next]_vars PROVE IInv'
    OBVIOUS
  <2>1. TypeOK' /\ Shape'
    BY RequestsStep DEF IInv
  <2>2. Sound'
    BY SoundStep DEF IInv
  <2> QED BY <2>1, <2>2, ConsumedStep, OneWinnerStep DEF IInv
<1> QED BY <1>1, <1>2, PTL DEF Spec

\* Of the writes that expect the same commit on the same ref, the origin takes at most
\* one, for any number of instances, callers, refs, failures and restarts.
THEOREM OneWinnerHolds == Spec => []OneWinner
<1>1. IInv => OneWinner
  BY DEF IInv
<1> QED BY <1>1, Invariance, PTL

\* No mirror and no listing ever shows a commit that was not that ref's value.
THEOREM NoGhosts == Spec => []NoGhostClaims
<1>1. IInv => NoGhostClaims
  BY DEF IInv, Sound, Genuine, NoGhostClaims
<1> QED BY <1>1, Invariance, PTL
============================================================================
