------------------------------ MODULE TaskBoard ------------------------------
(***************************************************************************)
(* What the swarm promises about its tasks, with no member, slot or        *)
(* goroutine in sight: a task is announced once, may be started and sent   *)
(* back to pending while it is open, and is settled at most once, for good.*)
(* Coordinator implements it, and so does the whole Swarm.                 *)
(***************************************************************************)
CONSTANT Tasks

VARIABLE status

Open     == {"pending", "running"}
Terminal == {"done", "failed", "handed-off"}
Status   == Open \cup Terminal

BoardTypeOK == status \in [Tasks -> Status \cup {"none"}]

Init == status = [t \in Tasks |-> "none"]

Announce(t) == /\ status[t] = "none"
               /\ status' = [status EXCEPT ![t] = "pending"]

\* A member starts on an open task (again, after a relaunch or an adoption).
Begin(t) == /\ status[t] \in Open
            /\ status' = [status EXCEPT ![t] = "running"]

\* An open task is given to a new owner.
Requeue(t) == /\ status[t] \in Open
              /\ status' = [status EXCEPT ![t] = "pending"]

Settle(t) == /\ status[t] \in Open
             /\ \E s \in Terminal : status' = [status EXCEPT ![t] = s]

Next == \E t \in Tasks : Announce(t) \/ Begin(t) \/ Requeue(t) \/ Settle(t)

Spec == Init /\ [][Next]_status

\* With fairness the promise also says that an announced task is settled.
Settling == \A t \in Tasks : WF_status(Settle(t))
FairSpec == Spec /\ Settling
=============================================================================
