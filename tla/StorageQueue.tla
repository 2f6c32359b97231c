----------------------------- MODULE StorageQueue -----------------------------
(***************************************************************************)
(* AzureStorageJobQueue (queueing.py 70-113) over the storage service: a   *)
(* message has one valid pop receipt, which every receive and every update *)
(* replaces; a message whose visibility timeout ended can be received by   *)
(* another consumer, and until then its receipt still works.  A delivery   *)
(* carries the receipt that its consumer heard of last; any call can fail  *)
(* before it took effect, or after it with its answer lost.                *)
(***************************************************************************)
EXTENDS Naturals

CONSTANTS
    Jobs,        \* messages; a send repeated by the client library is another one
    Consumers,
    NoConsumer,
    NoJob,
    MaxFaults    \* failed calls in one behaviour (a bound)

ASSUME StorageQueueAssumption ==
    NoConsumer \notin Consumers /\ NoJob \notin Jobs /\ MaxFaults \in Nat

VARIABLES
    server,  \* server[j]: the message at the service
    hand,    \* hand[c]: the ReceivedJob that c works on
    faults

vars == <<server, hand, faults>>

Free == [job |-> NoJob, valid |-> FALSE, sure |-> FALSE]

\* Every variable keeps its type, and a free hand holds no receipt.  `last': who received
\* the message last, or removed it; `valid': the receipt in hand is the message's present
\* one; `sure': every call was answered.
TypeOK ==
    /\ server \in [Jobs -> [state : {"new", "visible", "hidden", "gone"},
                            last : Consumers \cup {NoConsumer}]]
    /\ hand \in [Consumers -> [job : Jobs \cup {NoJob}, valid : BOOLEAN, sure : BOOLEAN]]
    /\ \A c \in Consumers : hand[c].job = NoJob => hand[c] = Free
    /\ faults \in 0 .. MaxFaults

Init ==
    /\ server = [j \in Jobs |-> [state |-> "new", last |-> NoConsumer]]
    /\ hand = [c \in Consumers |-> Free]
    /\ faults = 0

-----------------------------------------------------------------------------
Fault == faults < MaxFaults /\ faults' = faults + 1

There(j) == server[j].state \in {"visible", "hidden"}

\* Mutated form: the message id alone names the delivery.
AcceptedById(c) == hand[c].job # NoJob /\ There(hand[c].job)

\* The service accepts a call with c's message id and pop receipt.
Accepted(c) == hand[c].valid /\ There(hand[c].job)

\* A new receipt for j, which only the consumers in `heard' hold.
Reissued(j, heard) ==
    [c \in Consumers |->
        IF hand[c].job = j
          THEN [job |-> j, valid |-> c \in heard, sure |-> hand[c].sure]
          ELSE hand[c]]

Moved(j, state, last) == [server EXCEPT ![j] = [state |-> state, last |-> last]]

In(j, state) == Moved(j, state, server[j].last)

Enqueue(j) ==
    /\ server[j].state = "new"
    /\ server' = In(j, "visible")
    /\ UNCHANGED <<hand, faults>>

Receive(c, j) ==
    /\ hand[c] = Free
    /\ server[j].state = "visible"
    /\ server' = Moved(j, "hidden", c)
    /\ hand' = [Reissued(j, {}) EXCEPT ![c] = [job |-> j, valid |-> TRUE, sure |-> TRUE]]
    /\ UNCHANGED faults

\* The answer is lost, or its content does not parse: nobody has the receipt.
ReceiveUnheard(j) ==
    /\ Fault
    /\ server[j].state = "visible"
    /\ server' = Moved(j, "hidden", NoConsumer)
    /\ hand' = Reissued(j, {})

\* Mutated form: the delivery keeps the receipt it was received with.
RenewForgetful(c) ==
    /\ Accepted(c)
    /\ server' = In(hand[c].job, "hidden")
    /\ hand' = Reissued(hand[c].job, {})
    /\ UNCHANGED faults

\* renew: the new receipt goes into the delivery, for the settlement to use.
Renew(c) ==
    /\ Accepted(c)
    /\ server' = In(hand[c].job, "hidden")
    /\ hand' = Reissued(hand[c].job, {c})
    /\ UNCHANGED faults

\* A renewal took effect and its answer is lost: the receipt in hand is stale.
RenewUnheard(c) ==
    /\ Fault
    /\ Accepted(c)
    /\ server' = In(hand[c].job, "hidden")
    /\ hand' = [Reissued(hand[c].job, {}) EXCEPT
                  ![c] = [job |-> hand[c].job, valid |-> FALSE, sure |-> FALSE]]

\* Mutated form: a refused settlement is tried again.
RefusedRetried(c) ==
    /\ hand[c] # Free /\ ~Accepted(c)
    /\ UNCHANGED vars

\* Settlement ends the delivery, accepted or not; process() swallows what it raises.
Refused(c) ==
    /\ hand[c] # Free
    /\ (~Accepted(c) /\ UNCHANGED faults) \/ Fault
    /\ hand' = [hand EXCEPT ![c] = Free]
    /\ UNCHANGED server

Acknowledge(c) ==
    \/ /\ Accepted(c)
       /\ server' = Moved(hand[c].job, "gone", c)
       /\ hand' = [hand EXCEPT ![c] = Free]
       /\ UNCHANGED faults
    \/ Refused(c)

\* update_message with no visibility timeout: a new receipt, which nobody uses.
Abandon(c) ==
    \/ /\ Accepted(c)
       /\ server' = In(hand[c].job, "visible")
       /\ hand' = [Reissued(hand[c].job, {}) EXCEPT ![c] = Free]
       /\ UNCHANGED faults
    \/ Refused(c)

\* process() ends with no action, or the worker dies.
Drop(c) ==
    /\ Fault
    /\ hand[c] # Free
    /\ hand' = [hand EXCEPT ![c] = Free]
    /\ UNCHANGED server

\* The visibility timeout ends; the receipt stays valid.
Reappear(j) ==
    /\ server[j].state = "hidden"
    /\ server' = In(j, "visible")
    /\ UNCHANGED <<hand, faults>>

Next ==
    \/ \E j \in Jobs : Enqueue(j) \/ ReceiveUnheard(j) \/ Reappear(j)
    \/ \E c \in Consumers, j \in Jobs : Receive(c, j)
    \/ \E c \in Consumers :
         Renew(c) \/ RenewUnheard(c) \/ Acknowledge(c) \/ Abandon(c) \/ Drop(c)

Spec == Init /\ [][Next]_vars

-----------------------------------------------------------------------------
\* A delivery whose calls were all answered, of a message nobody received since, can still
\* be settled: renewing replaced the receipt in hand with the one the service expects
\* (queueing.py 96-110; the renewer and the settlement share the job, worker.py 189, 361).
HeardDeliveriesSettle ==
    \A c \in Consumers :
        /\ hand[c].sure /\ There(hand[c].job) /\ server[hand[c].job].last = c
        => Accepted(c)

\* The delivery that counts: the one with the valid receipt, or that removed the message.
Taker(j) ==
    IF server[j].state = "gone" THEN server[j].last
    ELSE IF \E c \in Consumers : hand[c].job = j /\ hand[c].valid
      THEN CHOOSE c \in Consumers : hand[c].job = j /\ hand[c].valid
      ELSE NoConsumer

PhaseOf(state) ==
    CASE state = "new" -> "new" [] state = "gone" -> "settled" [] OTHER -> "sent"

Promise ==
    INSTANCE DeliveryQueue WITH
        phase <- [j \in Jobs |-> PhaseOf(server[j].state)],
        taker <- [j \in Jobs |-> Taker(j)]

\* The adapter keeps the promise of a job queue: only the consumer that received a message
\* last removes it, whatever a consumer whose time was up still tries
\* (queueing.py 82-110).
StorageKeepsPromise == Promise!Spec

\* A message that was sent comes to a consumer until one of them settles it, through lost
\* answers, failed settlements and dropped deliveries (docs/ARCHITECTURE.md 8).
StorageRedelivers == Promise!Redelivered
=============================================================================
