------------------------------ MODULE WorkerLoop ------------------------------
(***************************************************************************)
(* The loop of a worker process (worker.py run_forever, run_once): a scan  *)
(* of all records for unsent jobs whenever 30 seconds have passed, one     *)
(* poll of the queue, and a pause after an empty poll or an exception.     *)
(* One worker is modelled; a delivery is "busy" from receive to settlement *)
(* (its inside is JobPlatform).  The API's handlers send jobs as well, and *)
(* a job that was sent again has several messages, its copies.  Records    *)
(* and messages written by another version do not parse (extra="forbid",   *)
(* domain.py 89, 126).                                                     *)
(***************************************************************************)
EXTENDS Naturals, FiniteSets

CONSTANTS
    Count,          \* experiments 1 .. Count, in the order they are listed
    UnreadableSets, \* sets of experiments whose records do not parse
    Aliens,         \* messages that do not parse
    MaxFaults       \* failed calls and stops in one behaviour (a bound)

Experiments == 1 .. Count
Messages    == Experiments \cup Aliens

ASSUME LoopAssumption ==
    Count \in Nat /\ MaxFaults \in Nat /\ UnreadableSets \subseteq SUBSET Experiments
    /\ Aliens \cap (0 .. Count) = {}

VARIABLES
    record,  \* record[e]: not there, accepted and unsent, sent, or terminal
    handler, \* experiments that a handler of the API is dispatching
    visible, \* visible[m]: copies of m in the queue that can be received
    hidden,  \* hidden[m]: copies received and not settled, the one in hand included
    pc,      \* where run_forever is
    at,      \* the next record of a scan, or the job in hand
    due,     \* more than 30 seconds since `reconciled'
    stop,    \* stop_event
    faults,
    unreadable  \* the records another version wrote

queue == <<visible, hidden>>
vars  == <<record, handler, visible, hidden, pc, at, due, stop, faults, unreadable>>

Init ==
    /\ record = [e \in Experiments |-> "absent"]
    /\ handler = {}
    /\ visible = [m \in Messages |-> IF m \in Aliens THEN 1 ELSE 0]
    /\ hidden = [m \in Messages |-> 0]
    /\ pc = "top" /\ at = 0 /\ due \in BOOLEAN /\ stop = FALSE /\ faults = 0
    /\ unreadable \in UnreadableSets

Fault == faults < MaxFaults /\ faults' = faults + 1

Sent(e) == visible' = [visible EXCEPT ![e] = @ + 1] /\ UNCHANGED hidden
Hidden(m) ==
    visible' = [visible EXCEPT ![m] = @ - 1] /\ hidden' = [hidden EXCEPT ![m] = @ + 1]
Removed(m) == hidden' = [hidden EXCEPT ![m] = @ - 1] /\ UNCHANGED visible
Returned(m) ==
    visible' = [visible EXCEPT ![m] = @ + 1] /\ hidden' = [hidden EXCEPT ![m] = @ - 1]

Marked(e) == record' = [record EXCEPT ![e] = IF @ = "pending" THEN "sent" ELSE @]

-----------------------------------------------------------------------------
\* The API accepts a request, or is asked again under its key, and dispatches the
\* record it has created or read.

Accept(e) ==
    /\ record[e] = "absent"
    /\ record' = [record EXCEPT ![e] = "pending"]
    /\ handler' = handler \cup {e}
    /\ UNCHANGED <<queue, pc, at, due, stop, faults, unreadable>>

AcceptAgain(e) ==
    /\ record[e] = "pending" /\ e \notin handler
    /\ handler' = handler \cup {e}
    /\ UNCHANGED <<record, queue, pc, at, due, stop, faults, unreadable>>

\* The message is sent whatever has become of the record since; the mark may fail.
HandlerSends(e) ==
    /\ e \in handler /\ handler' = handler \ {e}
    /\ Sent(e)
    /\ \/ Marked(e) /\ UNCHANGED faults
       \/ Fault /\ UNCHANGED record
    /\ UNCHANGED <<pc, at, due, stop, unreadable>>

\* The call that sends fails, or the process dies before it.
HandlerFails(e) ==
    /\ e \in handler /\ handler' = handler \ {e}
    /\ UNCHANGED <<record, queue, pc, at, due, stop, faults, unreadable>>

-----------------------------------------------------------------------------
\* Mutated forms: the loop never ends, or the scan has moved in front of it.
TopForever ==
    /\ pc = "top"
    /\ pc' = IF due THEN "scan" ELSE "poll"
    /\ at' = 1
    /\ UNCHANGED <<record, handler, queue, due, stop, faults, unreadable>>

TopScansFirst ==
    /\ pc = "top"
    /\ pc' = IF stop THEN "stopped" ELSE IF at = 0 THEN "scan" ELSE "poll"
    /\ at' = 1
    /\ UNCHANGED <<record, handler, queue, due, stop, faults, unreadable>>

Top ==
    /\ pc = "top"
    /\ pc' = IF stop THEN "stopped" ELSE IF due THEN "scan" ELSE "poll"
    /\ at' = 1
    /\ UNCHANGED <<record, handler, queue, due, stop, faults, unreadable>>

-----------------------------------------------------------------------------
\* reconcile_pending

Scanning == pc = "scan" /\ at <= Count

\* A record that is absent, sent or terminal is passed over.
Pass ==
    /\ Scanning /\ record[at] # "pending"
    /\ record[at] # "absent" => at \notin unreadable
    /\ at' = at + 1
    /\ UNCHANGED <<record, handler, queue, pc, due, stop, faults, unreadable>>

\* dispatch: send, then mark; what it raises is swallowed.
Dispatch ==
    /\ Scanning /\ record[at] = "pending" /\ at \notin unreadable
    /\ \/ Sent(at) /\ Marked(at) /\ UNCHANGED faults
       \/ Fault /\ (Sent(at) \/ UNCHANGED queue) /\ UNCHANGED record
    /\ at' = at + 1
    /\ UNCHANGED <<handler, pc, due, stop, unreadable>>

\* The scan is complete: `reconciled' is set to now.
Scanned ==
    /\ pc = "scan" /\ at > Count
    /\ pc' = "poll" /\ due' = FALSE
    /\ UNCHANGED <<record, handler, queue, at, stop, faults, unreadable>>

\* The except clause of run_forever; the timer is not reset.
Raised == pc' = "wait"

\* Listing or reading a record raises.
ScanRaises ==
    /\ Scanning
    /\ \/ record[at] # "absent" /\ at \in unreadable /\ UNCHANGED faults
       \/ Fault
    /\ Raised
    /\ UNCHANGED <<record, handler, queue, at, due, stop, unreadable>>

-----------------------------------------------------------------------------
\* run_once

\* A message that does not parse is hidden by the call that raises.
Receive(m) ==
    /\ pc = "poll" /\ visible[m] > 0
    /\ Hidden(m)
    /\ IF m \in Aliens THEN Raised /\ UNCHANGED at
                       ELSE pc' = "busy" /\ at' = m
    /\ UNCHANGED <<record, handler, due, stop, faults, unreadable>>

Empty ==
    /\ pc = "poll" /\ \A m \in Messages : visible[m] = 0
    /\ pc' = "wait"
    /\ UNCHANGED <<record, handler, queue, at, due, stop, faults, unreadable>>

PollRaises ==
    /\ Fault
    /\ pc = "poll" /\ Raised
    /\ UNCHANGED <<record, handler, queue, at, due, stop, unreadable>>

\* process never raises.  It acknowledges the message of an ended experiment, or ends the
\* experiment, or gives the job back when it is told to stop, or settles nothing.
Ends(e) == record' = [record EXCEPT ![e] = "done"]

\* Mutated form: the record that has ended already is passed over without a settlement.
ProcessUnsettled ==
    /\ pc = "busy"
    /\ IF record[at] = "done" THEN UNCHANGED <<record, queue>> ELSE Ends(at) /\ Removed(at)
    /\ pc' = "top"
    /\ UNCHANGED <<handler, at, due, stop, faults, unreadable>>

Process ==
    /\ pc = "busy"
    /\ \/ at \notin unreadable /\ Ends(at) /\ Removed(at) /\ UNCHANGED faults
       \/ at \notin unreadable /\ Ends(at) /\ UNCHANGED queue /\ Fault
       \/ /\ at \notin unreadable /\ stop /\ record[at] # "done"
          /\ Returned(at) /\ UNCHANGED <<record, faults>>
       \/ UNCHANGED <<record, queue>> /\ IF at \in unreadable THEN UNCHANGED faults ELSE Fault
    /\ pc' = "top"
    /\ UNCHANGED <<handler, at, due, stop, unreadable>>

Pause ==
    /\ pc = "wait"
    /\ pc' = "top"
    /\ UNCHANGED <<record, handler, queue, at, due, stop, faults, unreadable>>

-----------------------------------------------------------------------------
\* Time, and what happens to the process.

ThirtySecondsPass ==
    /\ ~due /\ due' = TRUE
    /\ UNCHANGED <<record, handler, queue, pc, at, stop, faults, unreadable>>

VisibilityEnds(m) ==
    /\ hidden[m] > IF pc = "busy" /\ at = m THEN 1 ELSE 0
    /\ Returned(m)
    /\ UNCHANGED <<record, handler, pc, at, due, stop, faults, unreadable>>

Stop ==
    /\ Fault
    /\ ~stop /\ stop' = TRUE
    /\ UNCHANGED <<record, handler, queue, pc, at, due, unreadable>>

\* The container is started again.
Restart ==
    /\ pc = "stopped"
    /\ pc' = "top" /\ at' = 0 /\ stop' = FALSE /\ due' \in BOOLEAN
    /\ UNCHANGED <<record, handler, queue, faults, unreadable>>

LoopStep ==
    \/ Top \/ Pass \/ Dispatch \/ Scanned \/ ScanRaises
    \/ \E m \in Messages : Receive(m)
    \/ Empty \/ PollRaises \/ Process \/ Pause

Next ==
    \/ \E e \in Experiments :
         Accept(e) \/ AcceptAgain(e) \/ HandlerSends(e) \/ HandlerFails(e)
    \/ LoopStep \/ ThirtySecondsPass \/ Stop \/ Restart
    \/ \E m \in Messages : VisibilityEnds(m)

Spec == Init /\ [][Next]_vars

\* The thread runs, time passes, hidden messages reappear, a stopped worker is replaced,
\* and polls that go on hand out every visible message in the end.
FairSpec ==
    /\ Spec
    /\ WF_vars(LoopStep) /\ WF_vars(ThirtySecondsPass) /\ WF_vars(Restart)
    /\ \A m \in Messages : WF_vars(VisibilityEnds(m)) /\ SF_vars(Receive(m))

-----------------------------------------------------------------------------
\* Every accepted job is sent and processed, through failed calls, lost sends, restarts
\* and messages nobody can parse, if all records can be read: no exception leaves the loop,
\* and no busy stretch postpones the scan for ever.  Jobs listed before the first record
\* that cannot be read are still sent (worker.py 376-388, service.py 76-77).
AcceptedJobsDone ==
    \A e \in Experiments :
        /\ unreadable = {} => record[e] = "pending" ~> record[e] = "done"
        /\ (\A u \in unreadable : e < u) => record[e] = "pending" ~> record[e] # "pending"

\* All messages of an ended job leave the queue, duplicates included: those that several
\* handlers and scans sent, that were sent and not marked, that came back because the
\* acknowledgement failed, or that a handler sends when the job has ended already, if all
\* records can be read (worker.py 183-184, 344-363; service.py 61-77).
DuplicatesDrained ==
    \A e \in Experiments :
        unreadable = {} => record[e] = "done" ~> visible[e] + hidden[e] = 0

\* A worker that is told to stop leaves its loop, however many messages wait or come back
\* (worker.py 79-80, 379, 392-397).
StopHonoured == stop ~> pc = "stopped"

\* "Idle workers reconcile unsent jobs every 30 seconds" (docs/ARCHITECTURE.md 41-42): an
\* unsent job whose own record can be read is sent.
UnsentReconciled ==
    \A e \in Experiments :
        e \notin unreadable => record[e] = "pending" ~> record[e] # "pending"
=============================================================================
