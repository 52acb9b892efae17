----------------------------- MODULE MCGitRest -----------------------------
(* Bounds of the runs: how often each event may happen in one behaviour.    *)
EXTENDS GitRest

NoFaults == [e \in Events |-> 0]
Bounds(req, upstream, f) == [f EXCEPT !["req"] = req, !["upstream"] = upstream]

CrashBudget == Bounds(2, 1, [NoFaults EXCEPT !["cut"] = 1, !["net"] = 1, !["crash"] = 1])
ConflictBudget == Bounds(2, 2, [NoFaults EXCEPT !["cut"] = 1])
DeliveryBudget == Bounds(2, 1, [NoFaults EXCEPT !["cut"] = 1, !["term"] = 1, !["crash"] = 1])
FaultBudget == Bounds(2, 2, [NoFaults EXCEPT !["io"] = 1, !["cut"] = 1])
OneCut == Bounds(2, 1, [NoFaults EXCEPT !["cut"] = 1])
OneCrash == Bounds(2, 1, [NoFaults EXCEPT !["crash"] = 1])
============================================================================
