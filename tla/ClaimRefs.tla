------------------------------ MODULE ClaimRefs ------------------------------
(***************************************************************************)
(* Claim refs: pkg/git/claim_refs.go and claim_mirror.go.  Several git-rest*)
(* instances share one origin.  PUT and DELETE push with --force-with-lease*)
(* and take no lock; GET lists a local mirror of the refs, which a write   *)
(* updates after its push and the puller's fetch replaces.                 *)
(*                                                                         *)
(* A PUT's commit carries a fresh nonce, so it is named after its request. *)
(***************************************************************************)
EXTENDS FiniteSets, Naturals

CONSTANTS Instances, Keys, Requests, NoSha,
          Faults,       \* how many commands may fail or be cut off
          Pulling       \* the instances whose puller is not wedged

ASSUME ClaimConfig ==
    /\ NoSha \notin Requests /\ NoSha \notin Keys /\ NoSha \notin Instances
    /\ Faults \in Nat
    /\ Pulling \subseteq Instances

VARIABLES refs,       \* refs/claims/* on origin
          mirror,     \* refs/claim-mirror/* of every instance
          refspec,    \* the instance's fetch carries the claim refspec,
          prune,      \* and removes the refs that origin has no longer
          fresh,      \* claimMirrorAge: the last claims fetch is recent enough
          fetch,      \* per instance: a fetch runs, and what it was advertised
          req,        \* the requests
          faults      \* what remains of Faults

vars == <<refs, mirror, refspec, prune, fresh, fetch, req, faults>>

Sha == Requests \cup {NoSha}
RefMap == [Keys -> Sha]
NoRefs == [k \in Keys |-> NoSha]

NoRequest == [op |-> "none", inst |-> NoSha, key |-> NoSha, expected |-> NoSha,
              pc |-> "none", landed |-> FALSE, seen |-> NoRefs]

NoFetch == [busy |-> FALSE, advertised |-> NoRefs]

Fault == faults > 0 /\ faults' = faults - 1

Writes == {"put", "delete"}

\* The value a write gives its ref.
SwappedRefspec(r) == req[r].key   \* mutation
NewSha(r) == IF req[r].op = "put" THEN r ELSE NoSha

At(r, s) == req' = [req EXCEPT ![r].pc = s]

MirrorGets(i, k, s) == mirror' = [mirror EXCEPT ![i] = [@ EXCEPT ![k] = s]]

---------------------------------------------------------------------------
(* PUT and DELETE *)

Receive(r, op, i, k, e) ==
    /\ req[r].op = "none"
    /\ req' = [req EXCEPT ![r] = [NoRequest EXCEPT !.op = op, !.inst = i, !.key = k,
                                                   !.expected = e, !.pc = "push"]]
    /\ UNCHANGED <<refs, mirror, refspec, prune, fresh, fetch, faults>>

\* Callers expect a ref to be absent, or a commit some PUT made.
PutClaimRef(r, i, k) ==
    \E e \in {s \in Requests : req[s].op = "put"} \cup {NoSha} : Receive(r, "put", i, k, e)

DeleteClaimRef(r, i, k) ==
    \E e \in {s \in Requests : req[s].op = "put"} : Receive(r, "delete", i, k, e)

\* The origin's compare-and-swap takes the push.
NoLease(r) == TRUE   \* mutation
LeaseHolds(r) == refs[req[r].key] = req[r].expected

pushClaimRef(r) ==
    /\ req[r].pc = "push"
    /\ LeaseHolds(r)
    /\ refs' = [refs EXCEPT ![req[r].key] = NewSha(r)]
    /\ req' = [req EXCEPT ![r].pc = "landed", ![r].landed = TRUE]
    /\ UNCHANGED <<mirror, refspec, prune, fresh, fetch, faults>>

\* The client of a push that failed or was killed is gone; the origin may still be at it.
Underway(r) == req[r].op \in Writes /\ req[r].pc \in {"push", "error"} /\ ~req[r].landed

PushLandsLate(r) ==
    /\ Underway(r) /\ req[r].pc = "error"
    /\ LeaseHolds(r)
    /\ refs' = [refs EXCEPT ![req[r].key] = NewSha(r)]
    /\ req' = [req EXCEPT ![r].landed = TRUE]
    /\ UNCHANGED <<mirror, refspec, prune, fresh, fetch, faults>>

\* isLeaseConflict: the push is rejected and answered 409.
IgnoreConflict == "update"   \* mutation
ConflictAnswer == "conflict"

\* A push that cannot lock the ref, because another one is about to move it, counts too.
Contended(r) == \E s \in Requests \ {r} : Underway(s) /\ req[s].key = req[r].key

LeaseConflict(r) ==
    /\ req[r].pc = "push"
    /\ ~LeaseHolds(r) \/ Contended(r)
    /\ At(r, ConflictAnswer)
    /\ UNCHANGED <<refs, mirror, refspec, prune, fresh, fetch, faults>>

\* A push that git reports as landed has moved its own tracking ref, which the claim
\* refspec makes the mirror's.
PushReported(r) ==
    /\ req[r].pc = "landed"
    /\ IF refspec[req[r].inst]
       THEN MirrorGets(req[r].inst, req[r].key, NewSha(r))
       ELSE UNCHANGED mirror
    /\ At(r, "update")
    /\ UNCHANGED <<refs, refspec, prune, fresh, fetch, faults>>

\* A push or an ls-remote fails in transport, or is killed, a push before or after it
\* landed: 500.
DoubtIsConflict == "conflict"   \* mutation
DoubtAnswer == "error"

OriginFails(r) ==
    /\ req[r].pc \in {"push", "landed", "list"}
    /\ Fault
    /\ At(r, DoubtAnswer)
    /\ UNCHANGED <<refs, mirror, refspec, prune, fresh, fetch>>

\* updateClaimMirrorRef or removeClaimMirrorRef, then 200.
updateClaimMirrorRef(r) ==
    /\ req[r].pc = "update"
    /\ MirrorGets(req[r].inst, req[r].key, NewSha(r))
    /\ At(r, "ok")
    /\ UNCHANGED <<refs, refspec, prune, fresh, fetch, faults>>

\* Its failure is logged and swallowed.
MirrorUpdateFails(r) ==
    /\ req[r].pc = "update"
    /\ Fault
    /\ At(r, "ok")
    /\ UNCHANGED <<refs, mirror, refspec, prune, fresh, fetch>>

---------------------------------------------------------------------------
(* GET *)

\* A fresh mirror serves the list, unless reading it or one of its commits fails.
listClaimRefsFromMirror(i, served) ==
    \/ served = fresh[i] /\ UNCHANGED faults
    \/ fresh[i] /\ ~served /\ Fault

ListClaimRefs(r, i) ==
    /\ req[r].op = "none"
    /\ \E served \in BOOLEAN :
          /\ listClaimRefsFromMirror(i, served)
          /\ req' = [req EXCEPT ![r] =
                       [NoRequest EXCEPT !.op = "list", !.inst = i,
                                         !.pc = IF served THEN "ok" ELSE "list",
                                         !.seen = IF served THEN mirror[i] ELSE NoRefs]]
    /\ UNCHANGED <<refs, mirror, refspec, prune, fresh, fetch>>

\* Otherwise ls-remote asks the origin,
ListRefs(r) ==
    /\ req[r].pc = "list"
    /\ req' = [req EXCEPT ![r].pc = "read", ![r].seen = refs]
    /\ UNCHANGED <<refs, mirror, refspec, prune, fresh, fetch, faults>>

\* and the listed commits are read. The fetches of the refs in D fail: each is listed
\* again, dropped when it has moved, and fails the request when it has not.
AllMoved(D, r) == \A k \in D : refs[k] # req[r].seen[k]

listClaimRefsLive(r) ==
    /\ req[r].pc = "read"
    /\ \E D \in SUBSET {k \in Keys : req[r].seen[k] # NoSha} :
          /\ IF D = {} THEN UNCHANGED faults ELSE Fault
          /\ IF AllMoved(D, r)
             THEN req' = [req EXCEPT ![r].pc = "ok",
                                     ![r].seen = [k \in Keys |-> IF k \in D THEN NoSha ELSE @[k]]]
             ELSE At(r, "error")
    /\ UNCHANGED <<refs, mirror, refspec, prune, fresh, fetch>>

---------------------------------------------------------------------------
(* The fetch of a pull, the passing of time, a restart *)

StartFetch(i) ==
    /\ i \in Pulling /\ ~fetch[i].busy
    /\ fetch' = [fetch EXCEPT ![i].busy = TRUE, ![i].advertised = refs]
    /\ UNCHANGED <<refs, mirror, refspec, prune, fresh, req, faults>>

\* The mirror after a fetch: a ref that origin does not advertise goes with
\* remote.origin.prune and stays without it.
KeepVanished(i) ==   \* mutation
    [k \in Keys |-> IF fetch[i].advertised[k] = NoSha THEN mirror[i][k] ELSE fetch[i].advertised[k]]
Fetched(i) ==
    [k \in Keys |-> IF fetch[i].advertised[k] = NoSha /\ ~prune[i]
                    THEN mirror[i][k] ELSE fetch[i].advertised[k]]

\* The fetch is over, and recordClaimMirrorFetch notes it if it carried the refspec,
\* whether it pruned or not.
recordClaimMirrorFetch(i) ==
    /\ fetch[i].busy
    /\ fetch' = [fetch EXCEPT ![i] = NoFetch]
    /\ IF refspec[i]
       THEN /\ mirror' = [mirror EXCEPT ![i] = Fetched(i)]
            /\ fresh' = [fresh EXCEPT ![i] = TRUE]
       ELSE UNCHANGED <<mirror, fresh>>
    /\ UNCHANGED <<refs, refspec, prune, req, faults>>

\* A failed fetch may have updated some of the refs.
FetchFails(i) ==
    /\ fetch[i].busy
    /\ Fault
    /\ fetch' = [fetch EXCEPT ![i] = NoFetch]
    /\ \E K \in IF refspec[i] THEN SUBSET Keys ELSE {{}} :
          mirror' = [mirror EXCEPT ![i] =
                       [k \in Keys |-> IF k \in K THEN Fetched(i)[k] ELSE @[k]]]
    /\ UNCHANGED <<refs, refspec, prune, fresh, req>>

\* The staleness bound passes without another fetch.
Expire(i) ==
    /\ fresh[i]
    /\ fresh' = [fresh EXCEPT ![i] = FALSE]
    /\ UNCHANGED <<refs, mirror, refspec, prune, fetch, req, faults>>

\* The requests whose handlers are running, or whose client waits for one that is.
InFlight(i) == {r \in Requests : req[r].inst = i /\ req[r].pc \in {"push", "landed", "update", "list", "read"}}

\* ConfigureClaimMirror is two commands, the refspec first. Either may fail, which the
\* boot only logs; what an earlier boot has configured is still there.
ConfigureClaimMirror(i) ==
    \E added, pruning \in BOOLEAN :
        /\ refspec' = [refspec EXCEPT ![i] = @ \/ added]
        /\ prune' = [prune EXCEPT ![i] = @ \/ ((refspec[i] \/ added) /\ pruning)]

\* The process dies with its requests and its fetch and comes back: the mirror is on
\* disk, its fetch time is not.
Restart(i) ==
    /\ Fault
    /\ req' = [r \in Requests |->
                 IF r \in InFlight(i) THEN [req[r] EXCEPT !.pc = "error"] ELSE req[r]]
    /\ fetch' = [fetch EXCEPT ![i] = NoFetch]
    /\ fresh' = [fresh EXCEPT ![i] = FALSE]
    /\ ConfigureClaimMirror(i)
    /\ UNCHANGED <<refs, mirror>>

---------------------------------------------------------------------------
\* An instance that has booted with an empty origin: ConfigureClaimMirror and its first
\* pull may have failed.
Init ==
    /\ refs = NoRefs
    /\ mirror = [i \in Instances |-> NoRefs]
    /\ refspec \in [Instances -> BOOLEAN]
    /\ prune \in [Instances -> BOOLEAN]
    /\ fresh \in [Instances -> BOOLEAN]
    /\ \A i \in Instances : prune[i] \/ fresh[i] => refspec[i]
    /\ fetch = [i \in Instances |-> NoFetch]
    /\ req = [r \in Requests |-> NoRequest]
    /\ faults = Faults

RequestStep(r) ==
    \/ pushClaimRef(r) \/ LeaseConflict(r) \/ PushReported(r) \/ OriginFails(r)
    \/ updateClaimMirrorRef(r) \/ MirrorUpdateFails(r) \/ ListRefs(r) \/ listClaimRefsLive(r)

FetchStep(i) == StartFetch(i) \/ recordClaimMirrorFetch(i) \/ FetchFails(i)

Next ==
    \/ \E r \in Requests :
          \/ \E i \in Instances, k \in Keys : PutClaimRef(r, i, k) \/ DeleteClaimRef(r, i, k)
          \/ \E i \in Instances : ListClaimRefs(r, i)
          \/ RequestStep(r) \/ PushLandsLate(r)
    \/ \E i \in Instances : FetchStep(i) \/ Expire(i) \/ Restart(i)

Spec == Init /\ [][Next]_vars

\* Handlers run to their end, and the puller ticks for ever.
FairSpec ==
    /\ Spec
    /\ \A r \in Requests : WF_vars(RequestStep(r))
    /\ \A i \in Instances : WF_vars(FetchStep(i))

---------------------------------------------------------------------------
(* Properties *)

RequestPCs == {"none", "push", "landed", "update", "list", "read", "ok", "conflict", "error"}

Request ==
    [op : {"none", "list"} \cup Writes, inst : Instances \cup {NoSha}, key : Keys \cup {NoSha},
     expected : Sha, pc : RequestPCs, landed : BOOLEAN, seen : RefMap]
FetchState == [busy : BOOLEAN, advertised : RefMap]

\* Every variable has its shape.
TypeOK ==
    /\ refs \in RefMap
    /\ mirror \in [Instances -> RefMap]
    /\ refspec \in [Instances -> BOOLEAN]
    /\ prune \in [Instances -> BOOLEAN]
    /\ fresh \in [Instances -> BOOLEAN]
    /\ fetch \in [Instances -> FetchState]
    /\ req \in [Requests -> Request]
    /\ faults \in Nat

\* Two callers never both win: of all the requests of all instances that expect the same
\* commit on the same ref, the origin takes at most one, whatever they are answered.
OneWinner ==
    \A r, s \in Requests :
        (/\ req[r].landed /\ req[s].landed
         /\ req[r].key = req[s].key
         /\ req[r].expected = req[s].expected /\ req[r].expected # NoSha) => r = s

\* The commit was the value of that ref on the origin.
WasClaim(s, k) == req[s].op = "put" /\ req[s].key = k /\ req[s].landed

\* No mirror and no answer shows a ghost: a commit listed for a ref has really been that
\* ref's value on the origin, even if its PUT was never answered 200.
NoGhostClaims ==
    /\ \A i \in Instances, k \in Keys : mirror[i][k] # NoSha => WasClaim(mirror[i][k], k)
    /\ \A r \in Requests, k \in Keys : req[r].seen[k] # NoSha => WasClaim(req[r].seen[k], k)

\* What a caller can tell of a write: its request, and its answer once there is one.
CallOf(r) ==
    IF req[r].op \in Writes
    THEN [key |-> req[r].key, expected |-> req[r].expected, new |-> NewSha(r),
          state |-> CASE req[r].pc = "push" -> "open"
                      [] req[r].pc \in {"landed", "update", "ok"} -> "won"
                      [] req[r].pc = "conflict" -> "lost"
                      [] OTHER -> IF req[r].landed THEN "doubtSwapped" ELSE "doubt"]
    ELSE [key |-> NoSha, expected |-> NoSha, new |-> NoSha, state |-> "none"]

Lease == INSTANCE ClaimLease WITH reg <- refs, call <- [r \in Requests |-> CallOf(r)]

\* The writes implement a compare-and-swap register: 200 means the swap happened, 409
\* that it did not and will not, 500 that it has happened, still may or never will.
ClaimLeaseSpec == Lease!Spec

\* All that a mirror may have wrong: without prune, a ref that origin has no longer.
Healed(i) == \A k \in Keys : mirror[i][k] # refs[k] => (~prune[i] /\ refs[k] = NoSha)

\* Every mirror heals: once the writes are over, each instance that fetches claims ends
\* with a mirror that has every claim of the origin with its value, and if its fetches
\* prune nothing else, and keeps it so, late mirror updates included.
MirrorHeals == <>[](\A i \in Instances : refspec[i] => Healed(i))
============================================================================
