------------------------------- MODULE JobLife -------------------------------
(***************************************************************************)
(* What the job list of an agent promises to whoever polls a job: it is    *)
(* pending, then running, then has one result that never changes; the      *)
(* list is in memory, so a restart forgets every job, and the id of a      *)
(* forgotten job is never used again.  Under fairness every job ends.      *)
(***************************************************************************)
CONSTANTS Jobs

VARIABLE status    \* of every job id there will ever be

Results == {"done", "blocked", "retrying", "failed"}
Known(j) == status[j] \in {"pending", "running"} \union Results

Init == status = [j \in Jobs |-> "unborn"]

Become(j, from, to) == status[j] = from /\ status' = [status EXCEPT ![j] = to]

Accept(j) == Become(j, "unborn", "pending")
Run(j) == Become(j, "pending", "running")
End(j) == \E r \in Results : Become(j, "running", r)

Forget == status' = [j \in Jobs |-> IF Known(j) THEN "forgotten" ELSE status[j]]

Next == Forget \/ \E j \in Jobs : Accept(j) \/ Run(j) \/ End(j)

Spec == Init /\ [][Next]_status
FairSpec == Spec /\ \A j \in Jobs : WF_status(Run(j)) /\ WF_status(End(j))
=============================================================================
