----------------------------- MODULE MemoryQueue -----------------------------
(***************************************************************************)
(* InMemoryJobQueue (queueing.py 40-68) under the worker threads of the    *)
(* scaling benchmark (benchmarks/worker_scaling.py): all jobs are sent     *)
(* first, and each thread drains the queue until it finds it empty.  The   *)
(* queue has no visibility timeout: what a delivery settles with decides.  *)
(* A worker gives a job back when it is told to stop, which the benchmark  *)
(* never does; the threads here may.                                       *)
(***************************************************************************)
EXTENDS Naturals, Sequences

CONSTANTS
    Jobs,
    Threads,
    NoThread,
    NoJob,
    MaxReturns   \* times one job is given back (a bound)

VARIABLES
    fifo,        \* the queue.Queue
    returns,     \* returns[j]: times it was given back
    thread,      \* thread[t]: the job in hand, and whether t has returned
    acked,       \* acked[j]: the thread that acknowledged it
    dropped,     \* jobs whose delivery settled nothing
    settling     \* no delivery ends without settling its job

vars == <<fifo, returns, thread, acked, dropped, settling>>

Init ==
    /\ fifo = << >>
    /\ returns = [j \in Jobs |-> 0]
    /\ thread = [t \in Threads |-> [job |-> NoJob, returned |-> FALSE]]
    /\ acked = [j \in Jobs |-> NoThread] /\ dropped = {}
    /\ settling \in BOOLEAN

-----------------------------------------------------------------------------
Held == {j \in Jobs : \E t \in Threads : thread[t].job = j}

Done == {j \in Jobs : acked[j] # NoThread}

Sent == {fifo[i] : i \in DOMAIN fifo} \cup Held \cup Done \cup dropped

\* service.create of every experiment, before the threads start.
Enqueue(j) ==
    /\ j \notin Sent
    /\ fifo' = Append(fifo, j)
    /\ UNCHANGED <<returns, thread, acked, dropped, settling>>

Receive(t) ==
    LET j == Head(fifo)
    IN  /\ Sent = Jobs
        /\ thread[t].job = NoJob /\ ~thread[t].returned /\ fifo # << >>
        /\ fifo' = Tail(fifo)
        /\ thread' = [thread EXCEPT ![t].job = j]
        /\ UNCHANGED <<returns, acked, dropped, settling>>

\* queue.Empty: run_once is False, and the thread returns.
Return(t) ==
    /\ Sent = Jobs
    /\ thread[t].job = NoJob /\ ~thread[t].returned /\ fifo = << >>
    /\ thread' = [thread EXCEPT ![t].returned = TRUE]
    /\ UNCHANGED <<fifo, returns, acked, dropped, settling>>

LetGo(t) == thread' = [thread EXCEPT ![t].job = NoJob]

Acknowledge(t) ==
    /\ thread[t].job # NoJob /\ LetGo(t)
    /\ acked' = [acked EXCEPT ![thread[t].job] = t]
    /\ UNCHANGED <<fifo, returns, dropped, settling>>

\* task_done, then put.
Abandon(t) ==
    /\ thread[t].job # NoJob /\ returns[thread[t].job] < MaxReturns
    /\ returns' = [returns EXCEPT ![thread[t].job] = @ + 1]
    /\ fifo' = Append(fifo, thread[t].job)
    /\ LetGo(t)
    /\ UNCHANGED <<acked, dropped, settling>>

\* process() ends with no action: nobody has the job any more.
Drop(t) ==
    /\ ~settling
    /\ thread[t].job # NoJob /\ LetGo(t)
    /\ dropped' = dropped \cup {thread[t].job}
    /\ UNCHANGED <<fifo, returns, acked, settling>>

ThreadStep(t) == Receive(t) \/ Return(t) \/ Acknowledge(t) \/ Abandon(t) \/ Drop(t)

Next ==
    \/ \E j \in Jobs : Enqueue(j)
    \/ \E t \in Threads : ThreadStep(t)

Spec == Init /\ [][Next]_vars

-----------------------------------------------------------------------------
Promise ==
    INSTANCE DeliveryQueue WITH
        Consumers <- Threads,
        NoConsumer <- NoThread,
        phase <- [j \in Jobs |-> IF j \in Done THEN "settled"
                                 ELSE IF j \in Sent THEN "sent" ELSE "new"],
        taker <- [j \in Jobs |-> IF j \in Done THEN acked[j]
                                 ELSE IF j \in Held THEN CHOOSE t \in Threads : thread[t].job = j
                                 ELSE NoThread]

\* The queue keeps the promise of a job queue, but for redelivery (queueing.py 20-37).
MemoryKeepsPromise == Promise!Spec

\* Redelivery takes deliveries that settle: then a job sent comes to a thread until it is
\* acknowledged, and the drain ends with every job done.
MemoryRedelivers == settling => Promise!Redelivered /\ <>(Done = Jobs)
=============================================================================
