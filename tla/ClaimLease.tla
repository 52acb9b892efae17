----------------------------- MODULE ClaimLease -----------------------------
(***************************************************************************)
(* What the claim endpoints promise: every claim ref is a register that    *)
(* changes only by compare-and-swap, at most once per request, and the     *)
(* answer tells the caller what happened.  "won" and "lost" are final; an  *)
(* answer may also leave the caller in doubt: the swap has happened, or    *)
(* still may, or never will.                                               *)
(***************************************************************************)
CONSTANTS Keys,       \* claim refs
          Requests,   \* PUT and DELETE requests; a PUT's commit is named after it
          NoSha       \* the ref does not exist

VARIABLES reg,        \* the value of every claim ref
          call        \* the requests: what each asked for, and what became of it

Sha == Requests \cup {NoSha}

NoCall == [key |-> NoSha, expected |-> NoSha, new |-> NoSha, state |-> "none"]

Init ==
    /\ reg = [k \in Keys |-> NoSha]
    /\ call = [r \in Requests |-> NoCall]

\* r asks to move k from e to n: its own commit, or nothing for a delete.
Invoke(r, k, e, n) ==
    /\ call[r] = NoCall
    /\ call' = [call EXCEPT ![r] = [key |-> k, expected |-> e, new |-> n, state |-> "open"]]
    /\ UNCHANGED reg

\* The swap may still happen: the caller waits, or has been left in doubt before it.
Pending(r) == call[r].state \in {"open", "doubt"}

Swap(r) ==
    /\ Pending(r)
    /\ reg[call[r].key] = call[r].expected
    /\ reg' = [reg EXCEPT ![call[r].key] = call[r].new]
    /\ call' = [call EXCEPT ![r].state = IF @ = "open" THEN "won" ELSE "doubtSwapped"]

\* A lost request was refused: the ref had moved off the value it expected, or another
\* request was about to move it.
Refuse(r) ==
    /\ call[r].state = "open"
    /\ \/ reg[call[r].key] # call[r].expected
       \/ \E s \in Requests \ {r} : Pending(s) /\ call[s].key = call[r].key
    /\ call' = [call EXCEPT ![r].state = "lost"]
    /\ UNCHANGED reg

\* Callers that hear neither 200 nor 409: one of them, or all of a server that dies.
Doubt(R) ==
    /\ \A r \in R : call[r].state \in {"open", "won"}
    /\ call' = [r \in Requests |->
                  IF r \in R
                  THEN [call[r] EXCEPT !.state = IF @ = "open" THEN "doubt" ELSE "doubtSwapped"]
                  ELSE call[r]]
    /\ UNCHANGED reg

Next ==
    \/ \E r \in Requests :
          \/ \E k \in Keys, e \in Sha, n \in {r, NoSha} : Invoke(r, k, e, n)
          \/ Swap(r) \/ Refuse(r)
    \/ \E R \in SUBSET Requests : Doubt(R)

Spec == Init /\ [][Next]_<<reg, call>>
============================================================================
