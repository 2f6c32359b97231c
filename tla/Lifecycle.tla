------------------------------ MODULE Lifecycle ------------------------------
(***************************************************************************)
(* What a client of the API may observe of an experiment, whatever the     *)
(* storage, the queue and the workers do: its status and whether a         *)
(* cancellation was accepted.  JobPlatform implements this specification   *)
(* (MCJobPlatform, LifecycleSpec).                                         *)
(*                                                                         *)
(* It is the state diagram of docs/ARCHITECTURE.md completed with what the *)
(* code does: a claim always shows "running", also after an accepted       *)
(* cancellation or over an attempt that died, and an attempt under         *)
(* cancellation can end requeued or failed.                                *)
(***************************************************************************)
CONSTANT Experiments

VARIABLES
    status,  \* status[e]
    wanted   \* wanted[e]: a cancellation was accepted while e was not terminal

vars == <<status, wanted>>

Terminal(e) == status[e] \in {"cancelled", "completed", "failed"}

Active(e) == status[e] \in {"running", "cancelling"}

Init ==
    /\ status = [e \in Experiments |-> "absent"]
    /\ wanted = [e \in Experiments |-> FALSE]

Becomes(e, s) == status' = [status EXCEPT ![e] = s] /\ UNCHANGED wanted

Create(e) == status[e] = "absent" /\ Becomes(e, "queued")

RequestCancel(e) ==
    /\ status[e] # "absent" /\ ~Terminal(e)
    /\ status' = [status EXCEPT ![e] = "cancelling"]
    /\ wanted' = [wanted EXCEPT ![e] = TRUE]

Start(e) == (status[e] = "queued" \/ Active(e)) /\ Becomes(e, "running")

Complete(e) == status[e] = "running" /\ ~wanted[e] /\ Becomes(e, "completed")

ConfirmCancel(e) == Active(e) /\ wanted[e] /\ Becomes(e, "cancelled")

Requeue(e) == Active(e) /\ Becomes(e, "queued")

Fail(e) == Active(e) /\ Becomes(e, "failed")

Next ==
    \E e \in Experiments :
        \/ Create(e)
        \/ RequestCancel(e)
        \/ Start(e)
        \/ Complete(e)
        \/ ConfirmCancel(e)
        \/ Requeue(e)
        \/ Fail(e)

Spec == Init /\ [][Next]_vars
=============================================================================
