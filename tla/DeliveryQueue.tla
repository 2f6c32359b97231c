---------------------------- MODULE DeliveryQueue ----------------------------
(***************************************************************************)
(* What the platform relies on in a JobQueue (queueing.py 20-37): a job    *)
(* that was sent stays until the consumer that received it last settles    *)
(* it, and comes back to some consumer until then.                         *)
(***************************************************************************)
CONSTANTS Jobs, Consumers, NoConsumer

VARIABLES
    phase,  \* phase[j]: "new", "sent" or "settled"
    taker   \* taker[j]: the consumer whose delivery is the one that counts, or was

vars == <<phase, taker>>

Init ==
    /\ phase = [j \in Jobs |-> "new"]
    /\ taker = [j \in Jobs |-> NoConsumer]

Enqueue(j) ==
    /\ phase[j] = "new"
    /\ phase' = [phase EXCEPT ![j] = "sent"]
    /\ UNCHANGED taker

Receive(j, c) ==
    /\ phase[j] = "sent"
    /\ taker' = [taker EXCEPT ![j] = c]
    /\ UNCHANGED phase

\* Given back, or never settled.
Release(j) ==
    /\ phase[j] = "sent"
    /\ taker' = [taker EXCEPT ![j] = NoConsumer]
    /\ UNCHANGED phase

Acknowledge(j, c) ==
    /\ phase[j] = "sent" /\ taker[j] = c
    /\ phase' = [phase EXCEPT ![j] = "settled"]
    /\ UNCHANGED taker

Next ==
    \E j \in Jobs :
        \/ Enqueue(j) \/ Release(j)
        \/ \E c \in Consumers : Receive(j, c) \/ Acknowledge(j, c)

Spec == Init /\ [][Next]_vars

\* At-least-once delivery: a job that was sent is in some consumer's hands again, or done.
Redelivered ==
    \A j \in Jobs : phase[j] = "sent" ~> (phase[j] = "settled" \/ taker[j] # NoConsumer)
=============================================================================
