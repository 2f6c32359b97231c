---------------------------- MODULE JobQueuesProofs ----------------------------
(***************************************************************************)
(* Proofs about the two queues: each keeps the promise of a job queue, and *)
(* a delivery from Azure that heard every answer can be settled.           *)
(***************************************************************************)
EXTENDS JobQueues, Sequences, TLAPS

\* The valid receipt is with the consumer that received the message last, and a message
\* in somebody's hands was sent.
ReceiptInv ==
    \A c \in Consumers :
        /\ hand[c].valid => There(hand[c].job) /\ server[hand[c].job].last = c
        /\ hand[c].job # NoJob => server[hand[c].job].state # "new"

Inv == TypeOK /\ ReceiptInv /\ HeardDeliveriesSettle

Messages == [state : {"new", "visible", "hidden", "gone"}, last : Consumers \cup {NoConsumer}]

Deliveries == [job : Jobs \cup {NoJob}, valid : BOOLEAN, sure : BOOLEAN]

\* What the invariant says of one delivery.
DeliveryInv(c) ==
    /\ hand[c].job = NoJob => ~hand[c].valid /\ ~hand[c].sure
    /\ hand[c].job # NoJob => server[hand[c].job].state # "new"
    /\ hand[c].valid => There(hand[c].job) /\ server[hand[c].job].last = c
    /\ hand[c].sure /\ There(hand[c].job) /\ server[hand[c].job].last = c => hand[c].valid

-----------------------------------------------------------------------------
\* The invariant, delivery by delivery.
LEMMA Parts ==
    Inv <=> /\ server \in [Jobs -> Messages]
            /\ hand \in [Consumers -> Deliveries]
            /\ faults \in 0 .. MaxFaults
            /\ \A c \in Consumers : DeliveryInv(c)
  <1>1. ASSUME hand \in [Consumers -> Deliveries], NEW c \in Consumers
        PROVE  /\ hand[c] = [job |-> hand[c].job, valid |-> hand[c].valid, sure |-> hand[c].sure]
               /\ hand[c].valid \in BOOLEAN /\ hand[c].sure \in BOOLEAN
    BY <1>1 DEF Deliveries
  <1>2. ASSUME hand \in [Consumers -> Deliveries], NEW c \in Consumers
        PROVE  (hand[c].job = NoJob => hand[c] = Free)
                 <=> (hand[c].job = NoJob => ~hand[c].valid /\ ~hand[c].sure)
    BY <1>1, <1>2 DEF Free
  <1> QED
    BY <1>2 DEF Inv, TypeOK, ReceiptInv, HeardDeliveriesSettle, Accepted, DeliveryInv,
                Messages, Deliveries

\* The parts of the invariant hold at first (queueing.py 70-78).
LEMMA Initially == Init => Inv
  BY StorageQueueAssumption
     DEF Init, Inv, TypeOK, ReceiptInv, HeardDeliveriesSettle, Free, There, Accepted

\* The invariant after a step.
LEMMA PartsNext ==
    ASSUME server' \in [Jobs -> Messages], hand' \in [Consumers -> Deliveries],
           faults' \in 0 .. MaxFaults, \A c \in Consumers : DeliveryInv(c)'
    PROVE  Inv'
  <1>1. (/\ server \in [Jobs -> Messages]
         /\ hand \in [Consumers -> Deliveries]
         /\ faults \in 0 .. MaxFaults
         /\ \A c \in Consumers : DeliveryInv(c))'
    BY DEF Messages, Deliveries
  <1> QED
    BY <1>1, Parts, PTL

\* A new receipt takes every consumer's but those that heard of it (queueing.py 82-110).
LEMMA ReissuedFacts ==
    ASSUME hand \in [Consumers -> Deliveries], NEW j \in Jobs, NEW heard \in SUBSET Consumers
    PROVE  /\ Reissued(j, heard) \in [Consumers -> Deliveries]
           /\ \A c \in Consumers :
                Reissued(j, heard)[c] =
                   IF hand[c].job = j
                     THEN [job |-> j, valid |-> c \in heard, sure |-> hand[c].sure]
                     ELSE hand[c]
  <1>1. ASSUME NEW b \in BOOLEAN, NEW c \in Consumers
        PROVE  [job |-> j, valid |-> b, sure |-> hand[c].sure] \in Deliveries
    BY DEF Deliveries
  <1>2. ASSUME NEW c \in Consumers PROVE (c \in heard) \in BOOLEAN
    OBVIOUS
  <1>3. ASSUME NEW c \in Consumers
        PROVE  [job |-> j, valid |-> c \in heard, sure |-> hand[c].sure] \in Deliveries
    BY <1>1, <1>2, Zenon
  <1> QED
    BY <1>3, Zenon DEF Reissued

\* A receipt that nobody heard of leaves nobody a valid one (queueing.py 82-110).
LEMMA RevokedFacts ==
    ASSUME hand \in [Consumers -> Deliveries], NEW j \in Jobs
    PROVE  /\ Reissued(j, {}) \in [Consumers -> Deliveries]
           /\ \A c \in Consumers :
                Reissued(j, {})[c] =
                   IF hand[c].job = j
                     THEN [job |-> j, valid |-> FALSE, sure |-> hand[c].sure]
                     ELSE hand[c]
  <1>1. {} \in SUBSET Consumers
    OBVIOUS
  <1>2. \A c \in Consumers : (c \in {}) = FALSE
    OBVIOUS
  <1>3. \A c \in Consumers :
          [job |-> j, valid |-> c \in {}, sure |-> hand[c].sure]
            = [job |-> j, valid |-> FALSE, sure |-> hand[c].sure]
    BY <1>2, Zenon
  <1>4. /\ Reissued(j, {}) \in [Consumers -> Deliveries]
        /\ \A c \in Consumers :
             Reissued(j, {})[c] =
                IF hand[c].job = j
                  THEN [job |-> j, valid |-> c \in {}, sure |-> hand[c].sure]
                  ELSE hand[c]
    BY <1>1, ReissuedFacts
  <1>5. ASSUME NEW c \in Consumers
        PROVE  Reissued(j, {})[c] =
                  IF hand[c].job = j
                    THEN [job |-> j, valid |-> FALSE, sure |-> hand[c].sure]
                    ELSE hand[c]
    BY <1>3, <1>4, Zenon
  <1> QED
    BY <1>4, <1>5, Zenon

\* Only the message that is moved changes (queueing.py 82-110).
LEMMA MovedFacts ==
    ASSUME server \in [Jobs -> Messages], NEW j \in Jobs,
           NEW s \in {"new", "visible", "hidden", "gone"}, NEW c \in Consumers \cup {NoConsumer}
    PROVE  /\ Moved(j, s, c) \in [Jobs -> Messages]
           /\ Moved(j, s, c)[j] = [state |-> s, last |-> c]
           /\ \A k \in Jobs : k # j => Moved(j, s, c)[k] = server[k]
  BY DEF Messages, Moved

\* In(j, s) leaves the last receiver as it is (queueing.py 96-110).
LEMMA InFacts ==
    ASSUME server \in [Jobs -> Messages], NEW j \in Jobs,
           NEW s \in {"new", "visible", "hidden", "gone"}
    PROVE  /\ In(j, s) \in [Jobs -> Messages]
           /\ In(j, s)[j] = [state |-> s, last |-> server[j].last]
           /\ \A k \in Jobs : k # j => In(j, s)[k] = server[k]
  <1>1. server[j].last \in Consumers \cup {NoConsumer}
    BY DEF Messages
  <1> QED
    BY <1>1, MovedFacts DEF In

-----------------------------------------------------------------------------
\* A step that moves one message.
Moves(j, state, last) ==
    /\ server' \in [Jobs -> Messages]
    /\ server'[j] = [state |-> state, last |-> last]
    /\ \A k \in Jobs : k # j => server'[k] = server[k]

\* A step that takes the receipt of j from everybody else.
Revokes(j, kept) ==
    /\ hand' \in [Consumers -> Deliveries]
    /\ \A d \in Consumers \ kept :
         hand'[d] = IF hand[d].job = j
                      THEN [job |-> j, valid |-> FALSE, sure |-> hand[d].sure]
                      ELSE hand[d]

\* A delivery that is not of the last receiver any more keeps its invariant without receipt.
LEMMA Revoked ==
    ASSUME server \in [Jobs -> Messages], hand \in [Consumers -> Deliveries],
           NEW j \in Jobs, NEW kept, NEW d \in Consumers \ kept, DeliveryInv(d),
           server'[j].last # d, server'[j].state # "new",
           \A k \in Jobs : k # j => server'[k] = server[k],
           Revokes(j, kept)
    PROVE  DeliveryInv(d)'
  <1>1. CASE hand[d].job = j
    BY <1>1, StorageQueueAssumption DEF DeliveryInv, There, Revokes
  <1>2. CASE hand[d].job # j
    BY <1>2, StorageQueueAssumption DEF DeliveryInv, There, Deliveries, Revokes
  <1> QED
    BY <1>1, <1>2

\* A failure is counted, up to the bound; other steps are not.
LEMMA FaultCounted ==
    ASSUME faults \in 0 .. MaxFaults, Fault \/ UNCHANGED faults
    PROVE  faults' \in 0 .. MaxFaults
  BY StorageQueueAssumption DEF Fault

\* An accepted call is of the message's last receiver, and of no other.
LEMMA AcceptedFacts ==
    ASSUME Inv, NEW c \in Consumers, Accepted(c)
    PROVE  /\ hand[c].job \in Jobs /\ hand[c].valid
           /\ There(hand[c].job)
           /\ server[hand[c].job].last = c
           /\ hand[c] # Free
  BY Parts DEF Accepted, DeliveryInv, Deliveries, Free

-----------------------------------------------------------------------------
\* What each operation does to the message and to the receipts.

LEMMA EnqueueEffect ==
    ASSUME Inv, NEW j \in Jobs, Enqueue(j)
    PROVE  /\ server[j].state = "new" /\ hand' = hand /\ UNCHANGED faults
           /\ Moves(j, "visible", server[j].last)
  <1>1. server \in [Jobs -> Messages]
    BY Parts
  <1> QED
    BY <1>1, InFacts DEF Enqueue, Moves

LEMMA ReceiveEffect ==
    ASSUME Inv, NEW c \in Consumers, NEW j \in Jobs, Receive(c, j)
    PROVE  /\ server[j].state = "visible" /\ hand[c] = Free /\ UNCHANGED faults
           /\ Moves(j, "hidden", c)
           /\ Revokes(j, {c})
           /\ hand'[c] = [job |-> j, valid |-> TRUE, sure |-> TRUE]
  <1>1. server \in [Jobs -> Messages] /\ hand \in [Consumers -> Deliveries]
    BY Parts
  <1>2. Moves(j, "hidden", c)
    BY <1>1, MovedFacts DEF Receive, Moves
  <1>3. [job |-> j, valid |-> TRUE, sure |-> TRUE] \in Deliveries
    BY DEF Deliveries
  <1>4. Revokes(j, {c}) /\ hand'[c] = [job |-> j, valid |-> TRUE, sure |-> TRUE]
    BY <1>1, <1>3, RevokedFacts DEF Receive, Revokes
  <1> QED
    BY <1>2, <1>4 DEF Receive

LEMMA ReceiveUnheardEffect ==
    ASSUME Inv, NEW j \in Jobs, ReceiveUnheard(j)
    PROVE  /\ server[j].state = "visible" /\ Fault
           /\ Moves(j, "hidden", NoConsumer)
           /\ Revokes(j, {})
  <1>1. server \in [Jobs -> Messages] /\ hand \in [Consumers -> Deliveries]
    BY Parts
  <1>2. Moves(j, "hidden", NoConsumer)
    BY <1>1, MovedFacts DEF ReceiveUnheard, Moves
  <1>3. Revokes(j, {})
    BY <1>1, RevokedFacts DEF ReceiveUnheard, Revokes
  <1> QED
    BY <1>2, <1>3 DEF ReceiveUnheard

LEMMA RenewEffect ==
    ASSUME Inv, NEW c \in Consumers, NEW j \in Jobs, j = hand[c].job, Renew(c)
    PROVE  /\ Accepted(c) /\ UNCHANGED faults
           /\ Moves(j, "hidden", c)
           /\ Revokes(j, {c})
           /\ hand'[c] = [job |-> j, valid |-> TRUE, sure |-> hand[c].sure]
  <1>1. server \in [Jobs -> Messages] /\ hand \in [Consumers -> Deliveries]
    BY Parts
  <1>2. /\ Accepted(c) /\ UNCHANGED faults
        /\ server' = In(j, "hidden") /\ hand' = Reissued(j, {c}) /\ server[j].last = c
    BY AcceptedFacts DEF Renew
  <1>3. Moves(j, "hidden", c)
    BY <1>1, <1>2, InFacts DEF Moves
  <1>4. {c} \in SUBSET Consumers
    OBVIOUS
  <1>5. /\ hand' \in [Consumers -> Deliveries]
        /\ \A d \in Consumers :
             hand'[d] = IF hand[d].job = j
                          THEN [job |-> j, valid |-> d \in {c}, sure |-> hand[d].sure]
                          ELSE hand[d]
    <2>1. /\ Reissued(j, {c}) \in [Consumers -> Deliveries]
          /\ \A d \in Consumers :
               Reissued(j, {c})[d] =
                  IF hand[d].job = j
                    THEN [job |-> j, valid |-> d \in {c}, sure |-> hand[d].sure]
                    ELSE hand[d]
      BY <1>1, <1>4, ReissuedFacts, Zenon
    <2>2. hand' = Reissued(j, {c})
      BY <1>2
    <2> QED
      BY <2>1, <2>2, Zenon
  <1>6. (c \in {c}) = TRUE /\ \A d \in Consumers \ {c} : (d \in {c}) = FALSE
    OBVIOUS
  <1>7. hand'[c] = [job |-> j, valid |-> TRUE, sure |-> hand[c].sure]
    BY <1>5, <1>6, Zenon
  <1>8. \A d \in Consumers \ {c} :
          hand'[d] = IF hand[d].job = j
                       THEN [job |-> j, valid |-> FALSE, sure |-> hand[d].sure]
                       ELSE hand[d]
    <2>1. \A d \in Consumers \ {c} : d \in Consumers
      OBVIOUS
    <2> QED
      BY <1>5, <1>6, <2>1, Zenon
  <1> QED
    BY <1>2, <1>3, <1>5, <1>7, <1>8, Zenon DEF Revokes

LEMMA RenewUnheardEffect ==
    ASSUME Inv, NEW c \in Consumers, NEW j \in Jobs, j = hand[c].job, RenewUnheard(c)
    PROVE  /\ Accepted(c) /\ Fault
           /\ Moves(j, "hidden", c)
           /\ Revokes(j, {c})
           /\ hand'[c] = [job |-> j, valid |-> FALSE, sure |-> FALSE]
  <1>1. server \in [Jobs -> Messages] /\ hand \in [Consumers -> Deliveries]
    BY Parts
  <1>2. /\ Accepted(c) /\ Fault /\ server[j].last = c
        /\ server' = In(j, "hidden")
        /\ hand' = [Reissued(j, {}) EXCEPT ![c] = [job |-> j, valid |-> FALSE, sure |-> FALSE]]
    BY AcceptedFacts DEF RenewUnheard
  <1>3. Moves(j, "hidden", c)
    BY <1>1, <1>2, InFacts DEF Moves
  <1>4. [job |-> j, valid |-> FALSE, sure |-> FALSE] \in Deliveries
    BY DEF Deliveries
  <1>5. Revokes(j, {c}) /\ hand'[c] = [job |-> j, valid |-> FALSE, sure |-> FALSE]
    BY <1>1, <1>2, <1>4, RevokedFacts DEF Revokes
  <1> QED
    BY <1>2, <1>3, <1>5

LEMMA AcknowledgeEffect ==
    ASSUME Inv, NEW c \in Consumers, Acknowledge(c), ~Refused(c), NEW j \in Jobs, j = hand[c].job
    PROVE  /\ Accepted(c) /\ UNCHANGED faults
           /\ Moves(j, "gone", c)
           /\ hand' \in [Consumers -> Deliveries]
           /\ hand'[c] = Free
           /\ \A d \in Consumers \ {c} : hand'[d] = hand[d]
  <1>1. server \in [Jobs -> Messages] /\ hand \in [Consumers -> Deliveries]
    BY Parts
  <1>2. /\ Accepted(c) /\ server' = Moved(j, "gone", c) /\ UNCHANGED faults
        /\ hand' = [hand EXCEPT ![c] = Free] /\ Free \in Deliveries
    BY DEF Acknowledge, Free, Deliveries
  <1>3. Moves(j, "gone", c)
    BY <1>1, <1>2, MovedFacts DEF Moves
  <1> QED
    BY <1>1, <1>2, <1>3

LEMMA AbandonEffect ==
    ASSUME Inv, NEW c \in Consumers, Abandon(c), ~Refused(c), NEW j \in Jobs, j = hand[c].job
    PROVE  /\ Accepted(c) /\ UNCHANGED faults
           /\ Moves(j, "visible", c)
           /\ Revokes(j, {c})
           /\ hand'[c] = Free
  <1>1. server \in [Jobs -> Messages] /\ hand \in [Consumers -> Deliveries]
    BY Parts
  <1>2. /\ Accepted(c) /\ server' = In(j, "visible") /\ UNCHANGED faults
        /\ hand' = [Reissued(j, {}) EXCEPT ![c] = Free] /\ Free \in Deliveries
    BY DEF Abandon, Free, Deliveries
  <1>3. server[j].last = c
    BY <1>2, AcceptedFacts
  <1>4. Moves(j, "visible", c)
    BY <1>1, <1>2, <1>3, InFacts DEF Moves
  <1>5. Revokes(j, {c}) /\ hand'[c] = Free
    BY <1>1, <1>2, RevokedFacts DEF Revokes
  <1> QED
    BY <1>2, <1>4, <1>5

LEMMA RefusedEffect ==
    ASSUME Inv, NEW c \in Consumers, Refused(c) \/ Drop(c)
    PROVE  /\ server' = server /\ (Fault \/ UNCHANGED faults)
           /\ hand' \in [Consumers -> Deliveries]
           /\ hand'[c] = Free
           /\ \A d \in Consumers \ {c} : hand'[d] = hand[d]
  <1>1. hand \in [Consumers -> Deliveries] /\ Free \in Deliveries
    BY Parts DEF Free, Deliveries
  <1> QED
    BY <1>1 DEF Refused, Drop

LEMMA ReappearEffect ==
    ASSUME Inv, NEW j \in Jobs, Reappear(j)
    PROVE  /\ server[j].state = "hidden" /\ hand' = hand /\ UNCHANGED faults
           /\ Moves(j, "visible", server[j].last)
  <1>1. server \in [Jobs -> Messages]
    BY Parts
  <1> QED
    BY <1>1, InFacts DEF Reappear, Moves

-----------------------------------------------------------------------------
\* The invariant is kept.

\* A message is sent: nobody had it (queueing.py 79-80).
LEMMA EnqueueInv == ASSUME Inv, NEW j \in Jobs, Enqueue(j) PROVE Inv'
  <1>1. /\ server \in [Jobs -> Messages] /\ hand \in [Consumers -> Deliveries]
        /\ faults \in 0 .. MaxFaults
        /\ \A d \in Consumers : DeliveryInv(d)
    BY Parts
  <1>2. /\ server[j].state = "new" /\ hand' = hand /\ faults' = faults
        /\ Moves(j, "visible", server[j].last)
    BY EnqueueEffect
  <1>3. ASSUME NEW d \in Consumers PROVE DeliveryInv(d)'
    <2>1. hand[d].job # j
      BY <1>1, <1>2, StorageQueueAssumption DEF DeliveryInv
    <2> QED
      BY <1>1, <1>2, <2>1, StorageQueueAssumption DEF DeliveryInv, There, Deliveries, Moves
  <1> QED
    BY <1>1, <1>2, <1>3, PartsNext DEF Moves

\* Receiving makes c the last receiver, and takes the receipts of the others.
LEMMA ReceiveInv == ASSUME Inv, NEW c \in Consumers, NEW j \in Jobs, Receive(c, j) PROVE Inv'
  <1>1. /\ server \in [Jobs -> Messages] /\ hand \in [Consumers -> Deliveries]
        /\ faults \in 0 .. MaxFaults
        /\ \A d \in Consumers : DeliveryInv(d)
    BY Parts
  <1>2. /\ Moves(j, "hidden", c) /\ Revokes(j, {c}) /\ UNCHANGED faults
        /\ hand'[c] = [job |-> j, valid |-> TRUE, sure |-> TRUE]
    BY ReceiveEffect
  <1>3. ASSUME NEW d \in Consumers PROVE DeliveryInv(d)'
    <2>1. CASE d = c
      BY <1>2, <2>1, StorageQueueAssumption DEF DeliveryInv, There, Moves
    <2>2. CASE d # c
      BY <1>1, <1>2, <2>2, Revoked DEF Moves
    <2> QED
      BY <2>1, <2>2
  <1> QED
    BY <1>1, <1>2, <1>3, PartsNext, FaultCounted DEF Moves, Revokes

\* Nobody is the last receiver of a message whose answer was lost (queueing.py 82-94).
LEMMA ReceiveUnheardInv == ASSUME Inv, NEW j \in Jobs, ReceiveUnheard(j) PROVE Inv'
  <1>1. /\ server \in [Jobs -> Messages] /\ hand \in [Consumers -> Deliveries]
        /\ faults \in 0 .. MaxFaults
        /\ \A d \in Consumers : DeliveryInv(d)
    BY Parts
  <1>2. Moves(j, "hidden", NoConsumer) /\ Revokes(j, {}) /\ Fault
    BY ReceiveUnheardEffect
  <1>3. ASSUME NEW d \in Consumers PROVE DeliveryInv(d)'
    <2>1. /\ d \in Consumers \ {} /\ NoConsumer # d
      BY StorageQueueAssumption
    <2>2. server'[j].last # d /\ server'[j].state # "new" /\ \A k \in Jobs : k # j => server'[k] = server[k]
      BY <1>2, <2>1 DEF Moves
    <2> QED
      BY <1>1, <1>2, <2>1, <2>2, Revoked
  <1> QED
    BY <1>1, <1>2, <1>3, PartsNext, FaultCounted DEF Moves, Revokes

\* A renewal leaves the receipt to its delivery, or to nobody (queueing.py 104-110).
LEMMA RenewInv == ASSUME Inv, NEW c \in Consumers, Renew(c) \/ RenewUnheard(c) PROVE Inv'
  <1>1. /\ server \in [Jobs -> Messages] /\ hand \in [Consumers -> Deliveries]
        /\ faults \in 0 .. MaxFaults
        /\ \A d \in Consumers : DeliveryInv(d)
    BY Parts
  <1>2. Accepted(c)
    BY DEF Renew, RenewUnheard
  <1>3. PICK j \in Jobs : j = hand[c].job
    BY <1>2, AcceptedFacts
  <1>4. /\ Moves(j, "hidden", c) /\ Revokes(j, {c}) /\ (Fault \/ UNCHANGED faults)
        /\ \/ hand'[c] = [job |-> j, valid |-> TRUE, sure |-> hand[c].sure]
           \/ hand'[c] = [job |-> j, valid |-> FALSE, sure |-> FALSE]
    BY <1>3, RenewEffect, RenewUnheardEffect
  <1>5. ASSUME NEW d \in Consumers PROVE DeliveryInv(d)'
    <2>1. CASE d = c
      <3>1. server'[j].state = "hidden" /\ server'[j].last = c /\ j # NoJob
        BY <1>4, StorageQueueAssumption DEF Moves
      <3>2. CASE hand'[c] = [job |-> j, valid |-> TRUE, sure |-> hand[c].sure]
        BY <2>1, <3>1, <3>2 DEF DeliveryInv, There
      <3>3. CASE hand'[c] = [job |-> j, valid |-> FALSE, sure |-> FALSE]
        BY <2>1, <3>1, <3>3 DEF DeliveryInv, There
      <3> QED
        BY <1>4, <3>2, <3>3
    <2>2. CASE d # c
      <3>1. /\ d \in Consumers \ {c} /\ server'[j].last # d /\ server'[j].state # "new"
            /\ \A k \in Jobs : k # j => server'[k] = server[k]
        BY <1>4, <2>2 DEF Moves
      <3> QED
        BY <1>1, <1>4, <3>1, Revoked
    <2> QED
      BY <2>1, <2>2
  <1> QED
    BY <1>1, <1>4, <1>5, PartsNext, FaultCounted DEF Moves, Revokes

\* A delivery that ends unsettled: its receipt is forgotten (worker.py 359-365).
LEMMA RefusedInv == ASSUME Inv, NEW c \in Consumers, Refused(c) \/ Drop(c) PROVE Inv'
  <1>1. /\ server \in [Jobs -> Messages] /\ hand \in [Consumers -> Deliveries]
        /\ faults \in 0 .. MaxFaults
        /\ \A d \in Consumers : DeliveryInv(d)
    BY Parts
  <1>2. /\ server' = server /\ (Fault \/ UNCHANGED faults)
        /\ hand' \in [Consumers -> Deliveries] /\ hand'[c] = Free
        /\ \A d \in Consumers \ {c} : hand'[d] = hand[d]
    BY RefusedEffect
  <1>3. ASSUME NEW d \in Consumers PROVE DeliveryInv(d)'
    <2>1. CASE d = c
      BY <1>2, <2>1 DEF DeliveryInv, Free
    <2>2. CASE d # c
      BY <1>1, <1>2, <2>2 DEF DeliveryInv, There
    <2> QED
      BY <2>1, <2>2
  <1> QED
    BY <1>1, <1>2, <1>3, PartsNext, FaultCounted

\* Deleting the message: nobody but its last receiver held a valid receipt
\* (queueing.py 96-98).
LEMMA AcknowledgeInv == ASSUME Inv, NEW c \in Consumers, Acknowledge(c) PROVE Inv'
  <1>1. /\ server \in [Jobs -> Messages] /\ hand \in [Consumers -> Deliveries]
        /\ faults \in 0 .. MaxFaults
        /\ \A d \in Consumers : DeliveryInv(d)
    BY Parts
  <1>2. CASE Refused(c)
    BY <1>2, RefusedInv
  <1>3. CASE ~Refused(c)
    <2>1. Accepted(c)
      BY <1>3 DEF Acknowledge
    <2>2. PICK j \in Jobs : j = hand[c].job /\ server[j].last = c
      BY <2>1, AcceptedFacts
    <2>3. /\ Moves(j, "gone", c) /\ UNCHANGED faults
          /\ hand' \in [Consumers -> Deliveries] /\ hand'[c] = Free
          /\ \A d \in Consumers \ {c} : hand'[d] = hand[d]
      BY <1>3, <2>2, AcknowledgeEffect
    <2>4. ASSUME NEW d \in Consumers PROVE DeliveryInv(d)'
      <3>1. CASE d = c
        BY <2>3, <3>1 DEF DeliveryInv, Free
      <3>2. CASE d # c
        BY <1>1, <2>2, <2>3, <3>2, StorageQueueAssumption
           DEF DeliveryInv, There, Deliveries, Moves
      <3> QED
        BY <3>1, <3>2
    <2> QED
      BY <1>1, <2>3, <2>4, PartsNext, FaultCounted DEF Moves
  <1> QED
    BY <1>2, <1>3

\* Giving the message back replaces its receipt (queueing.py 100-102).
LEMMA AbandonInv == ASSUME Inv, NEW c \in Consumers, Abandon(c) PROVE Inv'
  <1>1. /\ server \in [Jobs -> Messages] /\ hand \in [Consumers -> Deliveries]
        /\ faults \in 0 .. MaxFaults
        /\ \A d \in Consumers : DeliveryInv(d)
    BY Parts
  <1>2. CASE Refused(c)
    BY <1>2, RefusedInv
  <1>3. CASE ~Refused(c)
    <2>1. Accepted(c)
      BY <1>3 DEF Abandon
    <2>2. PICK j \in Jobs : j = hand[c].job
      BY <2>1, AcceptedFacts
    <2>3. Moves(j, "visible", c) /\ Revokes(j, {c}) /\ UNCHANGED faults /\ hand'[c] = Free
      BY <1>3, <2>2, AbandonEffect
    <2>4. ASSUME NEW d \in Consumers PROVE DeliveryInv(d)'
      <3>1. CASE d = c
        BY <2>3, <3>1 DEF DeliveryInv, Free
      <3>2. CASE d # c
        BY <1>1, <2>3, <3>2, Revoked DEF Moves
      <3> QED
        BY <3>1, <3>2
    <2> QED
      BY <1>1, <2>3, <2>4, PartsNext, FaultCounted DEF Moves, Revokes
  <1> QED
    BY <1>2, <1>3

\* The end of a visibility timeout leaves the receipts as they are.
LEMMA ReappearInv == ASSUME Inv, NEW j \in Jobs, Reappear(j) PROVE Inv'
  <1>1. /\ server \in [Jobs -> Messages] /\ hand \in [Consumers -> Deliveries]
        /\ faults \in 0 .. MaxFaults
        /\ \A d \in Consumers : DeliveryInv(d)
    BY Parts
  <1>2. /\ server[j].state = "hidden" /\ hand' = hand /\ faults' = faults
        /\ Moves(j, "visible", server[j].last)
    BY ReappearEffect
  <1>3. ASSUME NEW d \in Consumers PROVE DeliveryInv(d)'
    BY <1>1, <1>2, StorageQueueAssumption DEF DeliveryInv, There, Deliveries, Moves
  <1> QED
    BY <1>1, <1>2, <1>3, PartsNext DEF Moves

\* Every step keeps the invariant (queueing.py 70-113).
LEMMA NextInv == ASSUME Inv, [Next]_vars PROVE Inv'
  <1>1. CASE UNCHANGED vars
    BY <1>1, Parts, PartsNext DEF vars, DeliveryInv, There
  <1> QED
    BY <1>1, EnqueueInv, ReceiveInv, ReceiveUnheardInv, RenewInv, RefusedInv, AcknowledgeInv,
       AbandonInv, ReappearInv DEF Next

-----------------------------------------------------------------------------
\* The invariant holds in every reachable state (queueing.py 70-113).
THEOREM InvInvariant == Spec => []Inv
  BY Initially, NextInv, PTL DEF Spec

\* Every variable keeps its type, for any numbers of messages, consumers and failures.
THEOREM TypeCorrect == Spec => []TypeOK
  BY InvInvariant, PTL DEF Inv

\* A delivery that heard every answer can be settled until somebody else receives the
\* message (queueing.py 96-110).
THEOREM HeardSettle == Spec => []HeardDeliveriesSettle
  BY InvInvariant, PTL DEF Inv

-----------------------------------------------------------------------------
\* The adapter implements the promise of a job queue.

Holds(c, j) == hand[c].job = j /\ hand[c].valid

TakerInv(j) ==
    /\ server[j].state = "gone" => Taker(j) = server[j].last
    /\ server[j].state # "gone" =>
         /\ \A c \in Consumers : Holds(c, j) => Taker(j) = c
         /\ (\A c \in Consumers : ~Holds(c, j)) => Taker(j) = NoConsumer

\* Whose delivery counts: as there is one valid receipt at most, the choice is none.
LEMMA TakerFacts == Inv => \A j \in Jobs : TakerInv(j)
  <1> SUFFICES ASSUME Inv, NEW j \in Jobs PROVE TakerInv(j)
    OBVIOUS
  <1>1. \A c \in Consumers : Holds(c, j) => server[j].last = c
    BY DEF Inv, ReceiptInv, Holds
  <1>2. ASSUME server[j].state # "gone", NEW c \in Consumers, Holds(c, j)
        PROVE  Taker(j) = c
    <2> DEFINE t == CHOOSE d \in Consumers : hand[d].job = j /\ hand[d].valid
    <2>1. t \in Consumers /\ Holds(t, j)
      BY <1>2, Zenon DEF Holds
    <2>2. t = c
      BY <1>1, <1>2, <2>1, Zenon
    <2> QED
      BY <1>2, <2>2, Zenon DEF Taker, Holds
  <1> QED
    BY <1>2, Zenon DEF Taker, TakerInv, Holds

LEMMA TakerFactsNext == ASSUME Inv' PROVE \A j \in Jobs : TakerInv(j)'
  <1>1. (\A j \in Jobs : TakerInv(j))'
    BY TakerFacts, PTL
  <1> QED
    BY <1>1

\* The abstract view of job k stays.
Same(k) == PhaseOf(server'[k].state) = PhaseOf(server[k].state) /\ Taker(k)' = Taker(k)

\* It stays if the message is neither sent nor removed, and valid receipts stay where they
\* are.
LEMMA SameWhen ==
    ASSUME Inv, Inv', NEW k \in Jobs,
           server'[k].state = "new" <=> server[k].state = "new",
           server'[k].state = "gone" <=> server[k].state = "gone",
           server'[k].state = "gone" => server'[k].last = server[k].last,
           \A c \in Consumers : Holds(c, k)' <=> Holds(c, k)
    PROVE  Same(k)
  <1>1. TakerInv(k) /\ TakerInv(k)'
    BY TakerFacts, TakerFactsNext
  <1> QED
    BY <1>1 DEF Same, TakerInv, PhaseOf

\* A step that changes the abstract view of one job.
LEMMA OneJob ==
    ASSUME NEW j \in Jobs, \A k \in Jobs : k # j => Same(k)
    PROVE  /\ PhaseOf(server'[j].state) = PhaseOf(server[j].state) =>
                UNCHANGED [k \in Jobs |-> PhaseOf(server[k].state)]
           /\ [k \in Jobs |-> PhaseOf(server'[k].state)]
                = [[k \in Jobs |-> PhaseOf(server[k].state)] EXCEPT ![j] = PhaseOf(server'[j].state)]
           /\ [k \in Jobs |-> Taker(k)]' = [[k \in Jobs |-> Taker(k)] EXCEPT ![j] = Taker(j)']
           /\ Taker(j)' = Taker(j) => UNCHANGED [k \in Jobs |-> Taker(k)]
  BY Zenon DEF Same

\* A job nobody's delivery counts for any more, if it is not done.
LEMMA Released ==
    ASSUME Inv, Inv', NEW j \in Jobs, \A k \in Jobs : k # j => Same(k),
           There(j), There(j)', \A c \in Consumers : ~Holds(c, j)'
    PROVE  Promise!Next
  <1>1. Taker(j)' = NoConsumer
    BY TakerFactsNext DEF TakerInv, There
  <1>2. PhaseOf(server[j].state) = "sent" /\ PhaseOf(server'[j].state) = "sent"
    BY DEF There, PhaseOf
  <1>3. Promise!Release(j)
    BY <1>1, <1>2, OneJob DEF Promise!Release
  <1> QED
    BY <1>3 DEF Promise!Next

\* A step that no client of the queue can tell.
LEMMA Unseen ==
    ASSUME \A k \in Jobs : Same(k)
    PROVE  UNCHANGED Promise!vars
  BY Zenon DEF Same, Promise!vars

\* The other messages, and the consumers of others, are left alone.
LEMMA OthersSame ==
    ASSUME Inv, Inv', NEW j \in Jobs,
           \A k \in Jobs : k # j => server'[k] = server[k],
           \A c \in Consumers, k \in Jobs : k # j => (Holds(c, k)' <=> Holds(c, k))
    PROVE  \A k \in Jobs : k # j => Same(k)
  BY SameWhen

\* Sending (queueing.py 79-80).
LEMMA EnqueueRefines ==
    ASSUME Inv, Inv', NEW j \in Jobs, Enqueue(j)
    PROVE  Promise!Next
  <1>1. /\ server \in [Jobs -> Messages]
        /\ \A d \in Consumers : DeliveryInv(d)
    BY Parts
  <1>2. /\ server[j].state = "new" /\ hand' = hand
        /\ server'[j] = [state |-> "visible", last |-> server[j].last]
        /\ \A k \in Jobs : k # j => server'[k] = server[k]
    BY <1>1, InFacts DEF Enqueue
  <1>3. \A c \in Consumers : ~Holds(c, j) /\ ~Holds(c, j)'
    BY <1>1, <1>2, StorageQueueAssumption DEF Holds, DeliveryInv
  <1>4. \A k \in Jobs : k # j => Same(k)
    BY <1>2, OthersSame DEF Holds
  <1>5. Taker(j)' = Taker(j)
    BY <1>2, <1>3, TakerFacts, TakerFactsNext DEF TakerInv
  <1>6. PhaseOf(server[j].state) = "new" /\ PhaseOf(server'[j].state) = "sent"
    BY <1>2 DEF PhaseOf
  <1>7. Promise!Enqueue(j)
    BY <1>4, <1>5, <1>6, OneJob DEF Promise!Enqueue
  <1> QED
    BY <1>7 DEF Promise!Next

\* Without a receipt, and with the others as they were (queueing.py 82-110).
LEMMA RevokedHolds ==
    ASSUME hand \in [Consumers -> Deliveries], NEW j \in Jobs, NEW kept, Revokes(j, kept),
           NEW d \in Consumers \ kept
    PROVE  ~Holds(d, j)' /\ \A k \in Jobs : k # j => (Holds(d, k)' <=> Holds(d, k))
  BY DEF Revokes, Holds

\* Receiving (queueing.py 82-94).
LEMMA ReceiveRefines ==
    ASSUME Inv, Inv', NEW c \in Consumers, NEW j \in Jobs, Receive(c, j)
    PROVE  Promise!Next
  <1>1. hand \in [Consumers -> Deliveries]
    BY Parts
  <1>2. /\ server[j].state = "visible" /\ hand[c] = Free
        /\ Moves(j, "hidden", c) /\ Revokes(j, {c})
        /\ hand'[c] = [job |-> j, valid |-> TRUE, sure |-> TRUE]
    BY ReceiveEffect
  <1>3. \A d \in Consumers, k \in Jobs : k # j => (Holds(d, k)' <=> Holds(d, k))
    <2>1. \A k \in Jobs : k # j => ~Holds(c, k) /\ ~Holds(c, k)'
      BY <1>2 DEF Holds, Free
    <2>2. \A d \in Consumers \ {c} : \A k \in Jobs : k # j => (Holds(d, k)' <=> Holds(d, k))
      BY <1>1, <1>2, RevokedHolds
    <2> QED
      BY <2>1, <2>2
  <1>4. \A k \in Jobs : k # j => Same(k)
    BY <1>2, <1>3, OthersSame DEF Moves
  <1>5. Taker(j)' = c
    BY <1>2, TakerFactsNext DEF TakerInv, Holds, Moves
  <1>6. PhaseOf(server[j].state) = "sent" /\ PhaseOf(server'[j].state) = "sent"
    BY <1>2 DEF PhaseOf, Moves
  <1>7. Promise!Receive(j, c)
    BY <1>4, <1>5, <1>6, OneJob DEF Promise!Receive
  <1> QED
    BY <1>7 DEF Promise!Next

\* A receipt that its consumer does not hear of, or has no use for (queueing.py 82-110).
LEMMA RevokeRefines ==
    ASSUME Inv, Inv', NEW j \in Jobs, There(j), There(j)',
           \A k \in Jobs : k # j => server'[k] = server[k],
           \A d \in Consumers :
             /\ ~Holds(d, j)'
             /\ \A k \in Jobs : k # j => (Holds(d, k)' <=> Holds(d, k))
    PROVE  Promise!Next
  BY OthersSame, Released

LEMMA ReceiveUnheardRefines ==
    ASSUME Inv, Inv', NEW j \in Jobs, ReceiveUnheard(j)
    PROVE  Promise!Next
  <1>1. hand \in [Consumers -> Deliveries]
    BY Parts
  <1>2. server[j].state = "visible" /\ Moves(j, "hidden", NoConsumer) /\ Revokes(j, {})
    BY ReceiveUnheardEffect
  <1>3. \A d \in Consumers :
          /\ ~Holds(d, j)'
          /\ \A k \in Jobs : k # j => (Holds(d, k)' <=> Holds(d, k))
    BY <1>1, <1>2, RevokedHolds
  <1> QED
    BY <1>2, <1>3, RevokeRefines DEF There, Moves

\* Renewing (queueing.py 104-110).
LEMMA RenewRefines ==
    ASSUME Inv, Inv', NEW c \in Consumers, Renew(c)
    PROVE  UNCHANGED Promise!vars
  <1>1. hand \in [Consumers -> Deliveries]
    BY Parts
  <1>2. Accepted(c)
    BY DEF Renew
  <1>3. PICK j \in Jobs : j = hand[c].job /\ There(j) /\ server[j].last = c /\ hand[c].valid
    BY <1>2, AcceptedFacts
  <1>4. /\ Moves(j, "hidden", c) /\ Revokes(j, {c})
        /\ hand'[c] = [job |-> j, valid |-> TRUE, sure |-> hand[c].sure]
    BY <1>3, RenewEffect
  <1>5. \A d \in Consumers, k \in Jobs : Holds(d, k)' <=> Holds(d, k)
    <2>1. \A k \in Jobs : Holds(c, k)' <=> Holds(c, k)
      BY <1>3, <1>4 DEF Holds
    <2>2. \A d \in Consumers \ {c} : ~Holds(d, j)
      BY <1>3 DEF Inv, ReceiptInv, Holds
    <2>3. \A d \in Consumers \ {c} :
            /\ ~Holds(d, j)'
            /\ \A k \in Jobs : k # j => (Holds(d, k)' <=> Holds(d, k))
      BY <1>1, <1>4, RevokedHolds
    <2> QED
      BY <2>1, <2>2, <2>3
  <1>6. Same(j)
    BY <1>3, <1>4, <1>5, SameWhen DEF There, Moves
  <1>7. \A k \in Jobs : k # j => Same(k)
    BY <1>4, <1>5, OthersSame DEF Moves
  <1> QED
    BY <1>6, <1>7, Unseen

LEMMA RenewUnheardRefines ==
    ASSUME Inv, Inv', NEW c \in Consumers, RenewUnheard(c)
    PROVE  Promise!Next
  <1>1. hand \in [Consumers -> Deliveries]
    BY Parts
  <1>2. Accepted(c)
    BY DEF RenewUnheard
  <1>3. PICK j \in Jobs : j = hand[c].job /\ There(j)
    BY <1>2, AcceptedFacts
  <1>4. /\ Moves(j, "hidden", c) /\ Revokes(j, {c})
        /\ hand'[c] = [job |-> j, valid |-> FALSE, sure |-> FALSE]
    BY <1>3, RenewUnheardEffect
  <1>5. \A d \in Consumers :
          /\ ~Holds(d, j)'
          /\ \A k \in Jobs : k # j => (Holds(d, k)' <=> Holds(d, k))
    <2>1. ~Holds(c, j)' /\ \A k \in Jobs : k # j => (Holds(c, k)' <=> Holds(c, k))
      BY <1>3, <1>4 DEF Holds
    <2>2. \A d \in Consumers \ {c} :
            /\ ~Holds(d, j)'
            /\ \A k \in Jobs : k # j => (Holds(d, k)' <=> Holds(d, k))
      BY <1>1, <1>4, RevokedHolds
    <2> QED
      BY <2>1, <2>2
  <1> QED
    BY <1>3, <1>4, <1>5, RevokeRefines DEF There, Moves

\* A delivery that ends unsettled (worker.py 359-365).
LEMMA RefusedRefines ==
    ASSUME Inv, Inv', NEW c \in Consumers, Refused(c) \/ Drop(c)
    PROVE  [Promise!Next]_(Promise!vars)
  <1>1. hand \in [Consumers -> Deliveries]
    BY Parts
  <1>2. /\ server' = server /\ hand'[c] = Free
        /\ \A d \in Consumers \ {c} : hand'[d] = hand[d]
    BY RefusedEffect
  <1>3. CASE hand[c].valid
    <2>1. Accepted(c)
      BY <1>3 DEF Inv, ReceiptInv, Accepted
    <2>2. PICK j \in Jobs : j = hand[c].job /\ There(j) /\ server[j].last = c
      BY <2>1, AcceptedFacts
    <2>3. \A k \in Jobs : ~Holds(c, k)'
      BY <1>2 DEF Holds, Free
    <2>4. \A d \in Consumers \ {c} :
            ~Holds(d, j)' /\ \A k \in Jobs : Holds(d, k)' <=> Holds(d, k)
      BY <1>2, <2>2 DEF Inv, ReceiptInv, Holds
    <2>5. \A k \in Jobs : k # j => ~Holds(c, k)
      BY <2>2 DEF Holds
    <2>6. \A d \in Consumers :
            /\ ~Holds(d, j)'
            /\ \A k \in Jobs : k # j => (Holds(d, k)' <=> Holds(d, k))
      BY <2>3, <2>4, <2>5
    <2> QED
      BY <1>2, <2>2, <2>6, RevokeRefines DEF There
  <1>4. CASE ~hand[c].valid
    <2>1. \A d \in Consumers, k \in Jobs : Holds(d, k)' <=> Holds(d, k)
      BY <1>2, <1>4 DEF Holds, Free
    <2>2. \A k \in Jobs : Same(k)
      BY <1>2, <2>1, SameWhen
    <2> QED
      BY <2>2, Unseen
  <1> QED
    BY <1>3, <1>4

\* Deleting the message, by the consumer that received it last (queueing.py 96-98).
LEMMA AcknowledgeRefines ==
    ASSUME Inv, Inv', NEW c \in Consumers, Acknowledge(c)
    PROVE  [Promise!Next]_(Promise!vars)
  <1>1. CASE Refused(c)
    BY <1>1, RefusedRefines
  <1>2. CASE ~Refused(c)
    <2>1. Accepted(c)
      BY <1>2 DEF Acknowledge
    <2>2. PICK j \in Jobs : j = hand[c].job /\ There(j) /\ hand[c].valid
      BY <2>1, AcceptedFacts
    <2>3. /\ Moves(j, "gone", c) /\ hand'[c] = Free
          /\ \A d \in Consumers \ {c} : hand'[d] = hand[d]
      BY <1>2, <2>2, AcknowledgeEffect
    <2>4. \A d \in Consumers, k \in Jobs : k # j => (Holds(d, k)' <=> Holds(d, k))
      BY <2>2, <2>3 DEF Holds, Free
    <2>5. \A k \in Jobs : k # j => Same(k)
      BY <2>3, <2>4, OthersSame DEF Moves
    <2>6. Taker(j) = c
      BY <2>2, TakerFacts DEF TakerInv, Holds, There
    <2>7. Taker(j)' = c
      BY <2>3, TakerFactsNext DEF TakerInv, Moves
    <2>8. PhaseOf(server[j].state) = "sent" /\ PhaseOf(server'[j].state) = "settled"
      BY <2>2, <2>3 DEF There, PhaseOf, Moves
    <2>9. Promise!Acknowledge(j, c)
      BY <2>5, <2>6, <2>7, <2>8, OneJob DEF Promise!Acknowledge
    <2> QED
      BY <2>9 DEF Promise!Next
  <1> QED
    BY <1>1, <1>2

\* Giving the message back (queueing.py 100-102).
LEMMA AbandonRefines ==
    ASSUME Inv, Inv', NEW c \in Consumers, Abandon(c)
    PROVE  [Promise!Next]_(Promise!vars)
  <1>1. hand \in [Consumers -> Deliveries]
    BY Parts
  <1>2. CASE Refused(c)
    BY <1>2, RefusedRefines
  <1>3. CASE ~Refused(c)
    <2>1. Accepted(c)
      BY <1>3 DEF Abandon
    <2>2. PICK j \in Jobs : j = hand[c].job /\ There(j)
      BY <2>1, AcceptedFacts
    <2>3. Moves(j, "visible", c) /\ Revokes(j, {c}) /\ hand'[c] = Free
      BY <1>3, <2>2, AbandonEffect
    <2>4. ~Holds(c, j)' /\ \A k \in Jobs : k # j => (Holds(c, k)' <=> Holds(c, k))
      BY <2>2, <2>3 DEF Holds, Free
    <2>5. \A d \in Consumers \ {c} :
            /\ ~Holds(d, j)'
            /\ \A k \in Jobs : k # j => (Holds(d, k)' <=> Holds(d, k))
      BY <1>1, <2>3, RevokedHolds
    <2>6. \A d \in Consumers :
            /\ ~Holds(d, j)'
            /\ \A k \in Jobs : k # j => (Holds(d, k)' <=> Holds(d, k))
      BY <2>4, <2>5
    <2> QED
      BY <2>2, <2>3, <2>6, RevokeRefines DEF There, Moves
  <1> QED
    BY <1>2, <1>3

\* A visibility timeout ends: nothing a client can tell until the message is received.
LEMMA ReappearRefines ==
    ASSUME Inv, Inv', NEW j \in Jobs, Reappear(j)
    PROVE  UNCHANGED Promise!vars
  <1>1. /\ server[j].state = "hidden" /\ hand' = hand
        /\ Moves(j, "visible", server[j].last)
    BY ReappearEffect
  <1>2. Same(j)
    BY <1>1, SameWhen DEF Holds, Moves
  <1>3. \A k \in Jobs : k # j => Same(k)
    BY <1>1, OthersSame DEF Holds, Moves
  <1> QED
    BY <1>2, <1>3, Unseen

LEMMA NextRefines == ASSUME Inv, Inv', [Next]_vars PROVE [Promise!Next]_(Promise!vars)
  <1>1. CASE UNCHANGED vars
    <2>1. \A k \in Jobs : Same(k)
      BY <1>1, SameWhen DEF vars, Holds
    <2> QED
      BY <2>1, Unseen
  <1> QED
    BY <1>1, EnqueueRefines, ReceiveRefines, ReceiveUnheardRefines, RenewRefines,
       RenewUnheardRefines, RefusedRefines, AcknowledgeRefines, AbandonRefines,
       ReappearRefines DEF Next

\* The adapter implements the promise of a job queue, for any numbers of messages,
\* consumers and failures: only the consumer that received a message last removes it
\* (queueing.py 70-113).
THEOREM ImplementsDeliveryQueue == Spec => StorageKeepsPromise
  <1>1. Init => Promise!Init
    <2> SUFFICES ASSUME Init PROVE Promise!Init
      OBVIOUS
    <2>1. \A j \in Jobs : server[j].state = "new"
      BY DEF Init
    <2>2. \A c \in Consumers, j \in Jobs : ~Holds(c, j)
      BY StorageQueueAssumption DEF Init, Holds, Free
    <2>3. \A j \in Jobs : Taker(j) = NoConsumer
      BY <2>1, <2>2, Initially, TakerFacts DEF TakerInv
    <2>4. \A j \in Jobs : PhaseOf(server[j].state) = "new"
      BY <2>1 DEF PhaseOf
    <2> QED
      BY <2>3, <2>4 DEF Promise!Init
  <1>2. Inv /\ Inv' /\ [Next]_vars => [Promise!Next]_(Promise!vars)
    BY NextRefines
  <1> QED
    BY <1>1, <1>2, InvInvariant, PTL DEF Spec, StorageKeepsPromise, Promise!Spec
-----------------------------------------------------------------------------
\* The queue in memory: a job is in one place at a time, and in the hands of one thread at
\* most.

Elements(q) == {q[i] : i \in DOMAIN q}

Distinct(q) == \A i, k \in 1 .. Len(q) : q[i] = q[k] => i = k

Waiting == Elements(fifo)

Has(c, j) == thread[c].job = j

Hands == [job : Jobs \cup {NoJob}, returned : BOOLEAN]

MemoryTypeOK ==
    /\ fifo \in Seq(Jobs)
    /\ thread \in [Consumers -> Hands]
    /\ acked \in [Jobs -> Consumers \cup {NoConsumer}]
    /\ dropped \in SUBSET Jobs

\* Where job j is: in the queue or not, in whose hands, by whom acknowledged, dropped or not.
At(j, waiting, holders, acker, lost) ==
    /\ (j \in Waiting) <=> waiting
    /\ \A c \in Consumers : Has(c, j) <=> c \in holders
    /\ acked[j] = acker
    /\ (j \in dropped) <=> lost

Unsent(j)  == At(j, FALSE, {}, NoConsumer, FALSE)
Queued(j)  == At(j, TRUE, {}, NoConsumer, FALSE)
With(j, t) == At(j, FALSE, {t}, NoConsumer, FALSE)
Over(j, t) == At(j, FALSE, {}, t, FALSE)
Lost(j)    == At(j, FALSE, {}, NoConsumer, TRUE)

OnePlace(j) ==
    \/ Unsent(j) \/ Queued(j) \/ Lost(j)
    \/ \E t \in Consumers : With(j, t) \/ Over(j, t)

MemoryInv == MemoryTypeOK /\ Distinct(fifo) /\ \A j \in Jobs : OnePlace(j)

\* Taking the head of a queue without repeats.
LEMMA HeadFacts ==
    ASSUME NEW q \in Seq(Jobs), q # << >>, Distinct(q)
    PROVE  /\ Head(q) \in Jobs /\ Head(q) \in Elements(q)
           /\ Tail(q) \in Seq(Jobs) /\ Distinct(Tail(q))
           /\ Elements(Tail(q)) = Elements(q) \ {Head(q)}
  <1>1. /\ Len(q) \in Nat /\ Len(q) # 0 /\ Head(q) = q[1] /\ DOMAIN q = 1 .. Len(q)
        /\ \A i \in 1 .. Len(q) : q[i] \in Jobs
    OBVIOUS
  <1>2. /\ Tail(q) \in Seq(Jobs) /\ Len(Tail(q)) = Len(q) - 1
        /\ DOMAIN Tail(q) = 1 .. (Len(q) - 1)
        /\ \A i \in 1 .. (Len(q) - 1) : Tail(q)[i] = q[i + 1]
    OBVIOUS
  <1>3. Distinct(Tail(q))
    BY <1>1, <1>2 DEF Distinct
  <1>4. ASSUME NEW j \in Elements(Tail(q)) PROVE j \in Elements(q) /\ j # Head(q)
    <2>1. PICK i \in 1 .. (Len(q) - 1) : j = q[i + 1]
      BY <1>2, <1>4 DEF Elements
    <2>2. 1 \in 1 .. Len(q) /\ i + 1 \in 1 .. Len(q) /\ i + 1 # 1
      BY <1>1
    <2>3. j # q[1]
      BY <2>1, <2>2 DEF Distinct
    <2> QED
      BY <1>1, <2>1, <2>2, <2>3 DEF Elements
  <1>5. ASSUME NEW j \in Elements(q), j # Head(q) PROVE j \in Elements(Tail(q))
    <2>1. PICK i \in 1 .. Len(q) : j = q[i]
      BY <1>1, <1>5 DEF Elements
    <2>2. i - 1 \in 1 .. (Len(q) - 1) /\ Tail(q)[i - 1] = j
      BY <1>1, <1>2, <1>5, <2>1
    <2> QED
      BY <1>2, <2>2 DEF Elements
  <1>6. Elements(Tail(q)) = Elements(q) \ {Head(q)}
    BY <1>4, <1>5
  <1>7. 1 \in 1 .. Len(q) /\ Head(q) \in Jobs /\ Head(q) \in Elements(q)
    BY <1>1 DEF Elements
  <1> QED
    BY <1>2, <1>3, <1>6, <1>7

\* Putting another job at the end of it.
LEMMA AppendFacts ==
    ASSUME NEW q \in Seq(Jobs), NEW j \in Jobs, j \notin Elements(q), Distinct(q)
    PROVE  /\ Append(q, j) \in Seq(Jobs) /\ Distinct(Append(q, j))
           /\ Elements(Append(q, j)) = Elements(q) \cup {j}
  <1>1. /\ Len(q) \in Nat /\ DOMAIN q = 1 .. Len(q)
        /\ \A i \in 1 .. Len(q) : q[i] # j
    BY DEF Elements
  <1>2. /\ Append(q, j) \in Seq(Jobs) /\ Len(Append(q, j)) = Len(q) + 1
        /\ DOMAIN Append(q, j) = 1 .. (Len(q) + 1)
        /\ Append(q, j)[Len(q) + 1] = j
        /\ \A i \in 1 .. Len(q) : Append(q, j)[i] = q[i]
    OBVIOUS
  <1>3. \A i \in 1 .. (Len(q) + 1) : i = Len(q) + 1 \/ i \in 1 .. Len(q)
    BY <1>1
  <1>4. Distinct(Append(q, j))
    BY <1>1, <1>2, <1>3 DEF Distinct
  <1>5. \A k \in Elements(Append(q, j)) : k \in Elements(q) \cup {j}
    BY <1>1, <1>2, <1>3 DEF Elements
  <1>6. \A k \in Elements(q) \cup {j} : k \in Elements(Append(q, j))
    <2>1. Len(q) + 1 \in 1 .. (Len(q) + 1) /\ 1 .. Len(q) \subseteq 1 .. (Len(q) + 1)
      BY <1>1
    <2> QED
      BY <1>1, <1>2, <2>1 DEF Elements
  <1> QED
    BY <1>2, <1>4, <1>5, <1>6

\* What the queue's sets say of one job.
LEMMA PlaceFacts ==
    ASSUME NEW j \in Jobs
    PROVE  /\ j \in Memory!Held <=> \E c \in Consumers : Has(c, j)
           /\ j \in Memory!Done <=> acked[j] # NoConsumer
           /\ j \in Memory!Sent <=>
                \/ j \in Waiting \/ j \in dropped \/ acked[j] # NoConsumer
                \/ \E c \in Consumers : Has(c, j)
  BY DEF Memory!Held, Memory!Done, Memory!Sent, Waiting, Elements, Has

\* A job in some place is in no other.
LEMMA OnlyPlace ==
    ASSUME MemoryInv, NEW j \in Jobs
    PROVE  /\ j \in Waiting => Queued(j)
           /\ \A c \in Consumers : Has(c, j) => With(j, c)
           /\ j \notin Memory!Sent => Unsent(j)
  <1>1. OnePlace(j)
    BY DEF MemoryInv
  <1>2. \A t \in Consumers : Over(j, t) => j \in Memory!Sent
    BY PlaceFacts, StorageQueueAssumption DEF Over, At
  <1>3. ASSUME NEW t \in Consumers, With(j, t) PROVE j \in Memory!Sent
    BY <1>3, PlaceFacts DEF With, At
  <1> QED
    BY <1>1, <1>2, <1>3, PlaceFacts
       DEF OnePlace, Unsent, Queued, With, Over, Lost, At

\* The queue in memory has none of the jobs at first (queueing.py 40-47).
LEMMA MemoryInitially ==
    ASSUME Memory!Init
    PROVE  MemoryInv /\ \A j \in Jobs : Unsent(j)
  <1>1. fifo = << >> /\ fifo \in Seq(Jobs) /\ Len(fifo) = 0 /\ DOMAIN fifo = {}
    BY DEF Memory!Init
  <1>2. MemoryTypeOK
    BY <1>1 DEF Memory!Init, MemoryTypeOK, Hands
  <1>3. \A c \in Consumers, j \in Jobs : ~Has(c, j)
    BY StorageQueueAssumption DEF Memory!Init, Has
  <1>4. Waiting = {} /\ Distinct(fifo)
    BY <1>1 DEF Waiting, Elements, Distinct
  <1>5. \A j \in Jobs : Unsent(j)
    BY <1>3, <1>4 DEF Memory!Init, Unsent, At
  <1> QED
    BY <1>2, <1>4, <1>5 DEF OnePlace, MemoryInv

\* A step leaves job k where it is.
Kept(k) ==
    /\ k \in Waiting' <=> k \in Waiting
    /\ \A c \in Consumers : Has(c, k)' <=> Has(c, k)
    /\ acked'[k] = acked[k]
    /\ k \in dropped' <=> k \in dropped

\* A step moves job j only.
Moving(j) ==
    /\ MemoryTypeOK' /\ Distinct(fifo')
    /\ \A k \in Jobs : k # j => Kept(k)

\* A thread takes a job in hand.
LEMMA TakenUp ==
    ASSUME MemoryInv, NEW t \in Consumers, NEW j \in Jobs, Queued(j),
           thread[t].job = NoJob, thread' = [thread EXCEPT ![t].job = j]
    PROVE  /\ thread' \in [Consumers -> Hands]
           /\ \A c \in Consumers : Has(c, j)' <=> c = t
           /\ \A c \in Consumers, k \in Jobs : k # j => (Has(c, k)' <=> Has(c, k))
  <1>1. /\ thread \in [Consumers -> Hands]
        /\ \A c \in Consumers : ~Has(c, j)
    BY DEF MemoryInv, MemoryTypeOK, Queued, At
  <1>2. /\ thread' \in [Consumers -> Hands] /\ thread'[t].job = j
        /\ \A c \in Consumers : c # t => thread'[c] = thread[c]
    BY <1>1 DEF Hands
  <1> QED
    BY <1>1, <1>2, StorageQueueAssumption DEF Has

\* A thread lets go of the job in hand.
LEMMA PutDown ==
    ASSUME MemoryInv, NEW t \in Consumers, thread[t].job # NoJob, Memory!LetGo(t)
    PROVE  \E j \in Jobs :
             /\ j = thread[t].job /\ With(j, t)
             /\ thread' \in [Consumers -> Hands]
             /\ \A c \in Consumers : ~Has(c, j)'
             /\ \A c \in Consumers, k \in Jobs : k # j => (Has(c, k)' <=> Has(c, k))
  <1>1. thread \in [Consumers -> Hands] /\ thread' = [thread EXCEPT ![t].job = NoJob]
    BY DEF MemoryInv, MemoryTypeOK, Memory!LetGo
  <1>2. PICK j \in Jobs : j = thread[t].job
    BY <1>1 DEF Hands
  <1>3. With(j, t)
    BY <1>2, OnlyPlace DEF Has
  <1>4. /\ thread' \in [Consumers -> Hands] /\ thread'[t].job = NoJob
        /\ \A c \in Consumers : c # t => thread'[c] = thread[c]
    BY <1>1 DEF Hands
  <1> QED
    BY <1>2, <1>3, <1>4, StorageQueueAssumption DEF Has, With, At

\* What each operation does: the job it moves, where from and where to.

\* Sending (queueing.py 44-45).
LEMMA MemoryEnqueueEffect ==
    ASSUME MemoryInv, NEW j \in Jobs, Memory!Enqueue(j)
    PROVE  Moving(j) /\ Unsent(j) /\ Queued(j)'
  <1>1. Unsent(j)
    BY OnlyPlace DEF Memory!Enqueue
  <1>2. /\ MemoryTypeOK /\ Distinct(fifo) /\ j \notin Elements(fifo)
        /\ fifo' = Append(fifo, j) /\ thread' = thread /\ acked' = acked /\ dropped' = dropped
    BY <1>1 DEF MemoryInv, Memory!Enqueue, Unsent, At, Waiting
  <1>3. fifo' \in Seq(Jobs) /\ Distinct(fifo') /\ Elements(fifo') = Elements(fifo) \cup {j}
    BY <1>2, AppendFacts DEF MemoryTypeOK
  <1> QED
    BY <1>1, <1>2, <1>3 DEF Moving, Kept, MemoryTypeOK, Waiting, Unsent, Queued, At, Has

\* Taking the first job of the queue (queueing.py 47-54).
LEMMA MemoryReceiveEffect ==
    ASSUME MemoryInv, NEW t \in Consumers, Memory!Receive(t)
    PROVE  \E j \in Jobs : Moving(j) /\ Queued(j) /\ With(j, t)'
  <1>1. /\ MemoryTypeOK /\ Distinct(fifo) /\ fifo # << >> /\ thread[t].job = NoJob
        /\ fifo' = Tail(fifo) /\ thread' = [thread EXCEPT ![t].job = Head(fifo)]
        /\ acked' = acked /\ dropped' = dropped
    BY DEF MemoryInv, Memory!Receive
  <1>2. PICK j \in Jobs :
          /\ j = Head(fifo) /\ j \in Elements(fifo)
          /\ fifo' \in Seq(Jobs) /\ Distinct(fifo') /\ Elements(fifo') = Elements(fifo) \ {j}
    BY <1>1, HeadFacts DEF MemoryTypeOK
  <1>3. Queued(j)
    BY <1>2, OnlyPlace DEF Waiting
  <1>4. /\ thread' \in [Consumers -> Hands]
        /\ \A c \in Consumers : Has(c, j)' <=> c = t
        /\ \A c \in Consumers, k \in Jobs : k # j => (Has(c, k)' <=> Has(c, k))
    BY <1>1, <1>2, <1>3, TakenUp
  <1>5. With(j, t)'
    BY <1>1, <1>2, <1>3, <1>4 DEF With, Queued, At, Waiting
  <1>6. Moving(j)
    BY <1>1, <1>2, <1>4 DEF Moving, Kept, MemoryTypeOK, Waiting
  <1> QED
    BY <1>3, <1>5, <1>6

\* Acknowledging (queueing.py 56-57).
LEMMA MemoryAcknowledgeEffect ==
    ASSUME MemoryInv, NEW t \in Consumers, Memory!Acknowledge(t)
    PROVE  \E j \in Jobs : Moving(j) /\ With(j, t) /\ Over(j, t)'
  <1>1. MemoryTypeOK /\ Distinct(fifo) /\ fifo' = fifo /\ dropped' = dropped
    BY DEF MemoryInv, Memory!Acknowledge
  <1>2. PICK j \in Jobs :
          /\ j = thread[t].job /\ With(j, t)
          /\ thread' \in [Consumers -> Hands]
          /\ \A c \in Consumers : ~Has(c, j)'
          /\ \A c \in Consumers, k \in Jobs : k # j => (Has(c, k)' <=> Has(c, k))
    BY PutDown DEF Memory!Acknowledge
  <1>3. /\ acked' \in [Jobs -> Consumers \cup {NoConsumer}]
        /\ acked'[j] = t /\ \A k \in Jobs : k # j => acked'[k] = acked[k]
    BY <1>1, <1>2 DEF Memory!Acknowledge, MemoryTypeOK
  <1>4. Over(j, t)'
    BY <1>1, <1>2, <1>3 DEF With, Over, At, Waiting
  <1>5. Moving(j)
    BY <1>1, <1>2, <1>3 DEF Moving, Kept, MemoryTypeOK, Waiting
  <1> QED
    BY <1>2, <1>4, <1>5

\* Giving the job back, behind the others (queueing.py 59-61).
LEMMA MemoryAbandonEffect ==
    ASSUME MemoryInv, NEW t \in Consumers, Memory!Abandon(t)
    PROVE  \E j \in Jobs : Moving(j) /\ With(j, t) /\ Queued(j)'
  <1>1. /\ MemoryTypeOK /\ Distinct(fifo) /\ fifo' = Append(fifo, thread[t].job)
        /\ acked' = acked /\ dropped' = dropped
    BY DEF MemoryInv, Memory!Abandon
  <1>2. PICK j \in Jobs :
          /\ j = thread[t].job /\ With(j, t)
          /\ thread' \in [Consumers -> Hands]
          /\ \A c \in Consumers : ~Has(c, j)'
          /\ \A c \in Consumers, k \in Jobs : k # j => (Has(c, k)' <=> Has(c, k))
    BY PutDown DEF Memory!Abandon
  <1>3. fifo' \in Seq(Jobs) /\ Distinct(fifo') /\ Elements(fifo') = Elements(fifo) \cup {j}
    BY <1>1, <1>2, AppendFacts DEF MemoryTypeOK, With, At, Waiting
  <1>4. Queued(j)'
    BY <1>1, <1>2, <1>3 DEF With, Queued, At, Waiting
  <1>5. Moving(j)
    BY <1>1, <1>2, <1>3 DEF Moving, Kept, MemoryTypeOK, Waiting
  <1> QED
    BY <1>2, <1>4, <1>5

\* A delivery that settles nothing: the job is nowhere any more (worker.py 359-365).
LEMMA MemoryDropEffect ==
    ASSUME MemoryInv, NEW t \in Consumers, Memory!Drop(t)
    PROVE  \E j \in Jobs : Moving(j) /\ With(j, t) /\ Lost(j)'
  <1>1. /\ MemoryTypeOK /\ Distinct(fifo) /\ fifo' = fifo /\ acked' = acked
        /\ dropped' = dropped \cup {thread[t].job}
    BY DEF MemoryInv, Memory!Drop
  <1>2. PICK j \in Jobs :
          /\ j = thread[t].job /\ With(j, t)
          /\ thread' \in [Consumers -> Hands]
          /\ \A c \in Consumers : ~Has(c, j)'
          /\ \A c \in Consumers, k \in Jobs : k # j => (Has(c, k)' <=> Has(c, k))
    BY PutDown DEF Memory!Drop
  <1>3. Lost(j)'
    BY <1>1, <1>2 DEF With, Lost, At, Waiting
  <1>4. Moving(j)
    BY <1>1, <1>2 DEF Moving, Kept, MemoryTypeOK, Waiting
  <1> QED
    BY <1>2, <1>3, <1>4

\* A thread that finds the queue empty leaves every job where it is.
LEMMA MemoryReturnEffect ==
    ASSUME MemoryInv, NEW t \in Consumers, Memory!Return(t)
    PROVE  MemoryTypeOK' /\ Distinct(fifo') /\ \A k \in Jobs : Kept(k)
  <1>1. /\ MemoryTypeOK /\ Distinct(fifo) /\ fifo' = fifo /\ acked' = acked /\ dropped' = dropped
        /\ thread' = [thread EXCEPT ![t].returned = TRUE]
    BY DEF MemoryInv, Memory!Return
  <1>2. thread' \in [Consumers -> Hands] /\ \A c \in Consumers : thread'[c].job = thread[c].job
    BY <1>1 DEF MemoryTypeOK, Hands
  <1> QED
    BY <1>1, <1>2 DEF MemoryTypeOK, Kept, Has, Waiting

LEMMA MovedInv ==
    ASSUME MemoryInv, NEW j \in Jobs, Moving(j), OnePlace(j)'
    PROVE  MemoryInv'
  <1>1. ASSUME NEW k \in Jobs, k # j PROVE OnePlace(k)'
    <2>1. Kept(k) /\ OnePlace(k)
      BY <1>1 DEF Moving, MemoryInv
    <2> QED
      BY <2>1 DEF Kept, OnePlace, Unsent, Queued, With, Over, Lost, At
  <1> QED
    BY <1>1 DEF Moving, MemoryInv

\* The invariant of the queue in memory is preserved by each of its operations.
LEMMA MemoryNextInv == ASSUME MemoryInv, [Memory!Next]_(Memory!vars) PROVE MemoryInv'
  <1>1. ASSUME NEW j \in Jobs, Memory!Enqueue(j) PROVE MemoryInv'
    BY <1>1, MemoryEnqueueEffect, MovedInv DEF OnePlace
  <1>2. ASSUME NEW t \in Consumers, Memory!Receive(t) PROVE MemoryInv'
    BY <1>2, MemoryReceiveEffect, MovedInv DEF OnePlace
  <1>3. ASSUME NEW t \in Consumers, Memory!Acknowledge(t) PROVE MemoryInv'
    BY <1>3, MemoryAcknowledgeEffect, MovedInv DEF OnePlace
  <1>4. ASSUME NEW t \in Consumers, Memory!Abandon(t) PROVE MemoryInv'
    BY <1>4, MemoryAbandonEffect, MovedInv DEF OnePlace
  <1>5. ASSUME NEW t \in Consumers, Memory!Drop(t) PROVE MemoryInv'
    BY <1>5, MemoryDropEffect, MovedInv DEF OnePlace
  <1>6. ASSUME MemoryTypeOK', Distinct(fifo'), \A k \in Jobs : Kept(k) PROVE MemoryInv'
    BY <1>6 DEF MemoryInv, Kept, OnePlace, Unsent, Queued, With, Over, Lost, At
  <1>7. ASSUME NEW t \in Consumers, Memory!Return(t) PROVE MemoryInv'
    BY <1>6, <1>7, MemoryReturnEffect
  <1>8. CASE UNCHANGED Memory!vars
    BY <1>6, <1>8 DEF Memory!vars, MemoryInv, MemoryTypeOK, Kept, Waiting, Has
  <1> QED
    BY <1>1, <1>2, <1>3, <1>4, <1>5, <1>7, <1>8 DEF Memory!Next, Memory!ThreadStep

\* A job in memory is in the queue, or in the hands of one thread, or acknowledged by one,
\* or dropped: never in two places, however the threads interleave (queueing.py 40-61).
THEOREM MemoryInvInvariant == Memory!Spec => []MemoryInv
  BY MemoryInitially, MemoryNextInv, PTL DEF Memory!Spec

-----------------------------------------------------------------------------
\* The queue in memory implements the promise of a job queue.

\* The abstract view of job j.
MemoryPhase(j) ==
    IF j \in Memory!Done THEN "settled" ELSE IF j \in Memory!Sent THEN "sent" ELSE "new"

MemoryTaker(j) ==
    IF j \in Memory!Done THEN acked[j]
    ELSE IF j \in Memory!Held THEN CHOOSE t \in Consumers : thread[t].job = j
    ELSE NoConsumer

View(j, phase, taker) == MemoryPhase(j) = phase /\ MemoryTaker(j) = taker

\* What the promise says of a job, by the place that it is in.
LEMMA ViewOf ==
    ASSUME NEW j \in Jobs
    PROVE  /\ Unsent(j) => View(j, "new", NoConsumer)
           /\ Queued(j) \/ Lost(j) => View(j, "sent", NoConsumer)
           /\ \A t \in Consumers :
                /\ With(j, t) => View(j, "sent", t)
                /\ Over(j, t) => View(j, "settled", t)
  <1>1. ASSUME NEW t \in Consumers, With(j, t) PROVE View(j, "sent", t)
    <2>1. /\ j \notin Memory!Done /\ j \in Memory!Sent /\ j \in Memory!Held
          /\ \A c \in Consumers : thread[c].job = j <=> c = t
      BY <1>1, PlaceFacts DEF With, At, Has
    <2>2. (CHOOSE c \in Consumers : thread[c].job = j) = t
      BY <2>1, Zenon
    <2> QED
      BY <2>1, <2>2, Zenon DEF View, MemoryPhase, MemoryTaker
  <1>2. ASSUME NEW t \in Consumers, Over(j, t) PROVE View(j, "settled", t)
    <2>1. acked[j] = t /\ j \in Memory!Done
      BY <1>2, PlaceFacts, StorageQueueAssumption DEF Over, At
    <2> QED
      BY <2>1, Zenon DEF View, MemoryPhase, MemoryTaker
  <1>3. ASSUME Unsent(j) PROVE View(j, "new", NoConsumer)
    <2>1. j \notin Memory!Done /\ j \notin Memory!Sent /\ j \notin Memory!Held
      BY <1>3, PlaceFacts DEF Unsent, At
    <2> QED
      BY <2>1, Zenon DEF View, MemoryPhase, MemoryTaker
  <1>4. ASSUME Queued(j) \/ Lost(j) PROVE View(j, "sent", NoConsumer)
    <2>1. j \notin Memory!Done /\ j \in Memory!Sent /\ j \notin Memory!Held
      BY <1>4, PlaceFacts DEF Queued, Lost, At
    <2> QED
      BY <2>1, Zenon DEF View, MemoryPhase, MemoryTaker
  <1> QED
    BY <1>1, <1>2, <1>3, <1>4

LEMMA ViewOfNext ==
    ASSUME NEW j \in Jobs
    PROVE  /\ Queued(j)' \/ Lost(j)' => View(j, "sent", NoConsumer)'
           /\ \A t \in Consumers :
                /\ With(j, t)' => View(j, "sent", t)'
                /\ Over(j, t)' => View(j, "settled", t)'
  <1>1. (/\ Queued(j) \/ Lost(j) => View(j, "sent", NoConsumer)
         /\ \A t \in Consumers :
              /\ With(j, t) => View(j, "sent", t)
              /\ Over(j, t) => View(j, "settled", t))'
    BY ViewOf, PTL
  <1> QED
    BY <1>1

LEMMA PlaceFactsNext ==
    ASSUME NEW j \in Jobs
    PROVE  (/\ j \in Memory!Held <=> \E c \in Consumers : Has(c, j)
            /\ j \in Memory!Done <=> acked[j] # NoConsumer
            /\ j \in Memory!Sent <=>
                 \/ j \in Waiting \/ j \in dropped \/ acked[j] # NoConsumer
                 \/ \E c \in Consumers : Has(c, j))'
  BY PlaceFacts, PTL

ViewKept(k) == MemoryPhase(k)' = MemoryPhase(k) /\ MemoryTaker(k)' = MemoryTaker(k)

\* A job that stays where it is looks the same.
LEMMA KeptSame == ASSUME NEW k \in Jobs, Kept(k) PROVE ViewKept(k)
  <1>1. /\ (k \in Memory!Done)' <=> k \in Memory!Done
        /\ (k \in Memory!Sent)' <=> k \in Memory!Sent
        /\ (k \in Memory!Held)' <=> k \in Memory!Held
    BY PlaceFacts, PlaceFactsNext DEF Kept
  <1>2. (CHOOSE t \in Consumers : thread[t].job = k)' = CHOOSE t \in Consumers : thread[t].job = k
    BY Zenon DEF Kept, Has
  <1>3. acked'[k] = acked[k]
    BY DEF Kept
  <1>4. MemoryPhase(k)' = MemoryPhase(k)
    BY <1>1, Zenon DEF MemoryPhase
  <1>5. MemoryTaker(k)' = MemoryTaker(k)
    <2>1. CASE k \in Memory!Done
      BY <1>1, <1>3, <2>1, Zenon DEF MemoryTaker
    <2>2. CASE k \notin Memory!Done /\ k \in Memory!Held
      <3> DEFINE t == CHOOSE t \in Consumers : thread[t].job = k
      <3>1. MemoryTaker(k) = t
        BY <2>2, Zenon DEF MemoryTaker
      <3>2. MemoryTaker(k)' = t'
        BY <1>1, <2>2, Zenon DEF MemoryTaker
      <3> QED
        BY <1>2, <3>1, <3>2, Zenon
    <2>3. CASE k \notin Memory!Done /\ k \notin Memory!Held
      BY <1>1, <2>3, Zenon DEF MemoryTaker
    <2> QED
      BY <2>1, <2>2, <2>3
  <1> QED
    BY <1>4, <1>5 DEF ViewKept

\* A step that changes the abstract view of one job.
LEMMA OneView ==
    ASSUME NEW j \in Jobs, Moving(j)
    PROVE  /\ MemoryPhase(j)' = MemoryPhase(j) => UNCHANGED [k \in Jobs |-> MemoryPhase(k)]
           /\ [k \in Jobs |-> MemoryPhase(k)]'
                = [[k \in Jobs |-> MemoryPhase(k)] EXCEPT ![j] = MemoryPhase(j)']
           /\ MemoryTaker(j)' = MemoryTaker(j) => UNCHANGED [k \in Jobs |-> MemoryTaker(k)]
           /\ [k \in Jobs |-> MemoryTaker(k)]'
                = [[k \in Jobs |-> MemoryTaker(k)] EXCEPT ![j] = MemoryTaker(j)']
  <1>1. \A k \in Jobs : k # j => ViewKept(k)
    BY KeptSame DEF Moving
  <1> QED
    BY <1>1, Zenon DEF ViewKept

\* Each operation is the promise's: sending sends, and so on (queueing.py 40-61).
LEMMA ViewSent ==
    ASSUME NEW j \in Jobs, Moving(j), View(j, "new", NoConsumer), View(j, "sent", NoConsumer)'
    PROVE  Memory!Promise!Enqueue(j)
  BY OneView, Zenon DEF View, Memory!Promise!Enqueue, MemoryPhase, MemoryTaker

LEMMA ViewReceived ==
    ASSUME NEW j \in Jobs, Moving(j), NEW t \in Consumers,
           View(j, "sent", NoConsumer), View(j, "sent", t)'
    PROVE  Memory!Promise!Receive(j, t)
  BY OneView, Zenon DEF View, Memory!Promise!Receive, MemoryPhase, MemoryTaker

LEMMA ViewAcknowledged ==
    ASSUME NEW j \in Jobs, Moving(j), NEW t \in Consumers,
           View(j, "sent", t), View(j, "settled", t)'
    PROVE  Memory!Promise!Acknowledge(j, t)
  BY OneView, Zenon DEF View, Memory!Promise!Acknowledge, MemoryPhase, MemoryTaker

LEMMA ViewReleased ==
    ASSUME NEW j \in Jobs, Moving(j), NEW t \in Consumers,
           View(j, "sent", t), View(j, "sent", NoConsumer)'
    PROVE  Memory!Promise!Release(j)
  BY OneView, Zenon DEF View, Memory!Promise!Release, MemoryPhase, MemoryTaker

LEMMA AllKept ==
    ASSUME \A k \in Jobs : Kept(k)
    PROVE  UNCHANGED Memory!Promise!vars
  <1>1. \A k \in Jobs : ViewKept(k)
    BY KeptSame
  <1>2. UNCHANGED [k \in Jobs |-> MemoryPhase(k)] /\ UNCHANGED [k \in Jobs |-> MemoryTaker(k)]
    BY <1>1, Zenon DEF ViewKept
  <1> QED
    BY <1>2, Zenon DEF Memory!Promise!vars, MemoryPhase, MemoryTaker

LEMMA MemoryNextRefines ==
    ASSUME MemoryInv, [Memory!Next]_(Memory!vars)
    PROVE  [Memory!Promise!Next]_(Memory!Promise!vars)
  <1>1. ASSUME NEW j \in Jobs, Memory!Enqueue(j) PROVE Memory!Promise!Enqueue(j)
    BY <1>1, MemoryEnqueueEffect, ViewOf, ViewOfNext, ViewSent
  <1>2. ASSUME NEW t \in Consumers, Memory!Receive(t)
        PROVE  \E j \in Jobs : Memory!Promise!Receive(j, t)
    BY <1>2, MemoryReceiveEffect, ViewOf, ViewOfNext, ViewReceived
  <1>3. ASSUME NEW t \in Consumers, Memory!Acknowledge(t)
        PROVE  \E j \in Jobs : Memory!Promise!Acknowledge(j, t)
    BY <1>3, MemoryAcknowledgeEffect, ViewOf, ViewOfNext, ViewAcknowledged
  <1>4. ASSUME NEW t \in Consumers, Memory!Abandon(t)
        PROVE  \E j \in Jobs : Memory!Promise!Release(j)
    BY <1>4, MemoryAbandonEffect, ViewOf, ViewOfNext, ViewReleased
  <1>5. ASSUME NEW t \in Consumers, Memory!Drop(t)
        PROVE  \E j \in Jobs : Memory!Promise!Release(j)
    BY <1>5, MemoryDropEffect, ViewOf, ViewOfNext, ViewReleased
  <1>6. ASSUME NEW t \in Consumers, Memory!Return(t) PROVE UNCHANGED Memory!Promise!vars
    BY <1>6, MemoryReturnEffect, AllKept
  <1>7. CASE UNCHANGED Memory!vars
    <2>1. \A k \in Jobs : Kept(k)
      BY <1>7 DEF Memory!vars, Kept, Waiting, Has
    <2> QED
      BY <2>1, AllKept
  <1> QED
    BY <1>1, <1>2, <1>3, <1>4, <1>5, <1>6, <1>7
       DEF Memory!Next, Memory!ThreadStep, Memory!Promise!Next

\* The queue in memory implements the promise of a job queue, for any jobs, threads and
\* numbers of returns: a job is acknowledged once, by the thread it was last handed to
\* (queueing.py 40-61).
THEOREM MemoryImplementsDeliveryQueue == Memory!Spec => Memory!MemoryKeepsPromise
  <1>1. Memory!Init => Memory!Promise!Init
    <2> SUFFICES ASSUME Memory!Init PROVE Memory!Promise!Init
      OBVIOUS
    <2>1. \A j \in Jobs : MemoryPhase(j) = "new" /\ MemoryTaker(j) = NoConsumer
      BY MemoryInitially, ViewOf DEF View
    <2> QED
      BY <2>1, Zenon DEF Memory!Promise!Init, MemoryPhase, MemoryTaker
  <1>2. MemoryInv /\ [Memory!Next]_(Memory!vars)
          => [Memory!Promise!Next]_(Memory!Promise!vars)
    BY MemoryNextRefines
  <1> QED
    BY <1>1, <1>2, MemoryInvInvariant, PTL
       DEF Memory!Spec, Memory!MemoryKeepsPromise, Memory!Promise!Spec

-----------------------------------------------------------------------------
\* Whichever queue a process is given keeps the promise: a step of the queue in use is one
\* of its own, and the other queue stands still (factory.py queue_from_settings;
\* queueing.py 20-113).
THEOREM BothKeepPromise == QueuesSpec => QueuesKeepPromise
  <1>1. QueuesInit => Init /\ Memory!Init
    BY DEF QueuesInit
  <1>2. [QueuesNext]_allVars => [Next]_vars /\ [Memory!Next]_(Memory!vars)
    BY DEF QueuesNext, InMemory, InAzure, allVars, vars, memoryVars, Memory!vars
  <1>3. QueuesSpec => Spec /\ Memory!Spec
    BY <1>1, <1>2, PTL DEF QueuesSpec, Spec, Memory!Spec
  <1> QED
    BY <1>3, ImplementsDeliveryQueue, MemoryImplementsDeliveryQueue DEF QueuesKeepPromise

\* So the queues of the scheduled system do: its consumers and its visibility timeouts.
COROLLARY ScheduledKeepPromise == FairSpec => QueuesKeepPromise
  BY BothKeepPromise, PTL DEF FairSpec
=============================================================================
