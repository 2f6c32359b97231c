------------------------------ MODULE JobQueues ------------------------------
(***************************************************************************)
(* The queue a process is given (factory.py queue_from_settings): Azure    *)
(* Storage behind its adapter, or one in memory.  Either is driven by the  *)
(* same consumers, and held against the same promise.                      *)
(***************************************************************************)
EXTENDS StorageQueue

CONSTANT MaxReturns  \* see MemoryQueue

VARIABLES
    backend,  \* settings.queue_backend
    fifo, returns, thread, acked, dropped, settling

Memory == INSTANCE MemoryQueue WITH Threads <- Consumers, NoThread <- NoConsumer

memoryVars == <<fifo, returns, thread, acked, dropped, settling>>

allVars == <<backend, vars, memoryVars>>

QueuesInit == backend \in {"memory", "azure"} /\ Init /\ Memory!Init

\* A step of the queue that is in use.
InMemory(step) == backend = "memory" /\ step /\ UNCHANGED <<backend, vars>>
InAzure(step)  == backend = "azure" /\ step /\ UNCHANGED <<backend, memoryVars>>

QueuesNext == InMemory(Memory!Next) \/ InAzure(Next)

QueuesSpec == QueuesInit /\ [][QueuesNext]_allVars

Send == \E j \in Jobs : Memory!Enqueue(j)

\* Threads run.  In Azure, timeouts end, a delivery is settled or dropped, and whoever
\* polls gets a message that is visible again and again.
FairSpec ==
    /\ QueuesSpec
    /\ WF_allVars(InMemory(Send))
    /\ \A c \in Consumers :
         /\ WF_allVars(InMemory(Memory!ThreadStep(c)))
         /\ WF_allVars(InAzure(Acknowledge(c) \/ Abandon(c)))
    /\ \A j \in Jobs :
         /\ WF_allVars(InAzure(Reappear(j)))
         /\ SF_allVars(InAzure(\E c \in Consumers : Receive(c, j)))

-----------------------------------------------------------------------------
\* Both queues keep the promise of a job queue but for redelivery: only the consumer that
\* received a job last removes it, whatever a consumer whose time was up still tries
\* (queueing.py 20-113).
QueuesKeepPromise == StorageKeepsPromise /\ Memory!MemoryKeepsPromise

\* With Azure a job is redelivered whatever happens to a delivery.  In memory it takes
\* deliveries that settle: then the drain ends with every job done.
JobsRedelivered ==
    /\ backend = "azure" => StorageRedelivers
    /\ backend = "memory" => Memory!MemoryRedelivers
=============================================================================
