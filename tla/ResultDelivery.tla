--------------------------- MODULE ResultDelivery ---------------------------
(***************************************************************************)
(* What the agent promises about the results its canaries produce, with no *)
(* mention of loops, buffers or mutexes: a produced result is pending until *)
(* the broker has stored it or the agent has logged that it dropped it, and *)
(* whatever is still pending when the process ends is lost.  A pending      *)
(* result is never lost while the process lives.                            *)
(***************************************************************************)
CONSTANT Results

VARIABLES
    status, \* status[r]: where result r is in its life
    alive   \* the agent process is running

vars == <<status, alive>>

Status == {"none", "pending", "delivered", "dropped", "lost"}

TypeOK ==
    /\ status \in [Results -> Status]
    /\ alive \in BOOLEAN

Init ==
    /\ status = [r \in Results |-> "none"]
    /\ alive = TRUE

Move(r, from, to) ==
    /\ alive
    /\ status[r] = from
    /\ status' = [status EXCEPT ![r] = to]
    /\ alive' = alive

Produce(r) == Move(r, "none", "pending")

Deliver(r) == Move(r, "pending", "delivered")

Drop(r) == Move(r, "pending", "dropped")

\* The process ends: everything it still held in memory is gone.
End ==
    /\ alive
    /\ alive' = FALSE
    /\ status' = [r \in Results |->
                    IF status[r] = "pending" THEN "lost" ELSE status[r]]

Next ==
    \/ \E r \in Results : Produce(r) \/ Deliver(r) \/ Drop(r)
    \/ End

Spec == Init /\ [][Next]_vars
=============================================================================
