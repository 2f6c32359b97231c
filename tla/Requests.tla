------------------------------- MODULE Requests -------------------------------
(***************************************************************************)
(* POST /experiments (api.py create_experiment, service.py create and      *)
(* dispatch): clients that repeat a request until it is answered, several  *)
(* of them under one Idempotency-Key, and API processes whose calls fail   *)
(* or whose answers are lost.  A configuration stands for its fingerprint. *)
(* The workers appear as Finish only.                                      *)
(***************************************************************************)
EXTENDS Naturals, FiniteSets

CONSTANTS
    Clients,
    Keys,       \* idempotency keys; uuid5 of a key is its experiment
    FreshIds,   \* what uuid4 draws (a bound on experiments without a key)
    Configs,
    NoKey,      \* the request has no Idempotency-Key
    Nothing,    \* no experiment, no configuration
    MaxFaults   \* failed calls in one behaviour (a bound)

ASSUME RequestsAssumption ==
    /\ NoKey \notin Keys /\ Keys \cap FreshIds = {} /\ Nothing \notin Configs
    /\ Nothing \notin Keys \cup FreshIds /\ MaxFaults \in Nat

Ids == Keys \cup FreshIds

VARIABLES
    request,  \* request[c]: what c asks for, and whether it may and is well formed
    store,    \* store[i]: the record of experiment i
    sent,     \* experiments with a message that was sent
    handler,  \* handler[c]: the call of create under way for c
    answer,   \* answer[c]: the status code that c got; 0 for none, or 5xx, so far
    faults

vars == <<request, store, sent, handler, answer, faults>>

NoRecord == [config |-> Nothing, dispatched |-> FALSE, ended |-> FALSE]

NoCall == [step |-> "none", id |-> Nothing]

\* Every variable keeps its type, and a call is about an experiment.
TypeOK ==
    /\ request \in [Clients -> [key : Keys \cup {NoKey}, config : Configs,
                                admitted : BOOLEAN, valid : BOOLEAN]]
    /\ store \in [Ids -> [config : Configs \cup {Nothing}, dispatched : BOOLEAN,
                          ended : BOOLEAN]]
    /\ sent \subseteq Ids
    /\ handler \in [Clients ->
         [step : {"none", "create", "conflict", "send", "mark", "load"},
          id : Ids \cup {Nothing}]]
    /\ \A c \in Clients : handler[c].step = "none" <=> handler[c].id = Nothing
    /\ answer \in [Clients -> {0, 202, 401, 409, 422}]
    /\ faults \in 0 .. MaxFaults

Init ==
    /\ request \in [Clients -> [key : Keys \cup {NoKey}, config : Configs,
                                admitted : BOOLEAN, valid : BOOLEAN]]
    /\ store = [i \in Ids |-> NoRecord]
    /\ sent = {}
    /\ handler = [c \in Clients |-> NoCall]
    /\ answer = [c \in Clients |-> 0]
    /\ faults = 0

-----------------------------------------------------------------------------
Fault == faults < MaxFaults /\ faults' = faults + 1

Exists(i) == store[i].config # Nothing

At(c, step) == handler[c].step = step

Goto(c, step) == handler' = [handler EXCEPT ![c].step = step]

Answered(c, code) ==
    /\ handler' = [handler EXCEPT ![c] = NoCall]
    /\ answer' = [answer EXCEPT ![c] = code]

\* uuid4 draws an id nobody has.
Unused == {f \in FreshIds : ~Exists(f) /\ \A c \in Clients : handler[c].id # f}

\* The client sends its request, or sends it again while it has no answer.
Submit(c) ==
    LET r == request[c]
    IN  /\ At(c, "none") /\ answer[c] = 0
        /\ r.admitted /\ r.valid
        /\ \E i \in IF r.key = NoKey THEN Unused ELSE {r.key} :
             handler' = [handler EXCEPT ![c] = [step |-> "create", id |-> i]]
        /\ UNCHANGED <<request, store, sent, answer, faults>>

\* 401 from authorize, 422 (or 400) from validation; create is not called.
Refuse(c) ==
    /\ At(c, "none") /\ answer[c] = 0
    /\ \/ ~request[c].admitted /\ Answered(c, 401)
       \/ ~request[c].valid /\ Answered(c, 422)
    /\ UNCHANGED <<request, store, sent, faults>>

Stored(c) ==
    [store EXCEPT ![handler[c].id] =
        [config |-> request[c].config, dispatched |-> FALSE, ended |-> FALSE]]

\* repository.create: the upload with overwrite=False lands, or finds a blob.
Create(c) ==
    /\ At(c, "create")
    /\ IF Exists(handler[c].id)
         THEN Goto(c, "conflict") /\ UNCHANGED store
         ELSE Goto(c, "send") /\ store' = Stored(c)
    /\ UNCHANGED <<request, sent, answer, faults>>

\* The upload lands, its answer is lost, and the client library sends it again: the blob
\* it finds is its own.
CreateResent(c) ==
    /\ Fault
    /\ At(c, "create") /\ ~Exists(handler[c].id)
    /\ store' = Stored(c)
    /\ Goto(c, "conflict")
    /\ UNCHANGED <<request, sent, answer>>

\* Mutated form: a key that was used answers with what it was used for.
ConflictUnchecked(c) ==
    LET r == store[handler[c].id]
    IN  /\ At(c, "conflict")
        /\ Goto(c, IF r.dispatched \/ r.ended THEN "load" ELSE "send") /\ UNCHANGED answer
        /\ UNCHANGED <<request, store, sent, faults>>

\* Mutated form: a key that was used is a conflict.
ConflictAlways(c) ==
    /\ At(c, "conflict") /\ Answered(c, 409)
    /\ UNCHANGED <<request, store, sent, faults>>

\* Mutated form: the ConflictError of a key that was used is not handled.
ConflictRaised(c) ==
    /\ At(c, "conflict") /\ handler' = [handler EXCEPT ![c] = NoCall]
    /\ UNCHANGED <<request, store, sent, answer, faults>>

\* The fingerprints are compared; dispatch returns early if there is nothing to send.
Conflict(c) ==
    LET r == store[handler[c].id]
    IN  /\ At(c, "conflict")
        /\ IF r.config # request[c].config THEN Answered(c, 409)
           ELSE /\ Goto(c, IF r.dispatched \/ r.ended THEN "load" ELSE "send")
                /\ UNCHANGED answer
        /\ UNCHANGED <<request, store, sent, faults>>

\* dispatch: enqueue, then mark; what it raises is swallowed.
Send(c) ==
    /\ At(c, "send")
    /\ sent' = sent \cup {handler[c].id}
    /\ Goto(c, "mark")
    /\ UNCHANGED <<request, store, answer, faults>>

Mark(c) ==
    /\ At(c, "mark")
    /\ store' = [store EXCEPT ![handler[c].id].dispatched = TRUE]
    /\ Goto(c, "load")
    /\ UNCHANGED <<request, sent, answer, faults>>

DispatchFails(c) ==
    /\ Fault
    /\ \/ At(c, "send") /\ sent' \in {sent, sent \cup {handler[c].id}}
       \/ At(c, "mark") /\ UNCHANGED sent
    /\ Goto(c, "load")
    /\ UNCHANGED <<request, store, answer>>

\* repository.get, and the response.
Load(c) ==
    /\ At(c, "load")
    /\ Answered(c, 202)
    /\ UNCHANGED <<request, store, sent, faults>>

\* Another exception, a dead API process, or a lost response: an upload may have landed.
Unanswered(c) ==
    /\ Fault
    /\ handler[c] # NoCall
    /\ handler' = [handler EXCEPT ![c] = NoCall]
    /\ store' \in {store} \cup {s \in {Stored(c)} : At(c, "create") /\ ~Exists(handler[c].id)}
    /\ UNCHANGED <<request, sent, answer>>

\* A worker ends an experiment whose message it received.
Finish(i) ==
    /\ i \in sent /\ ~store[i].ended
    /\ store' = [store EXCEPT ![i].ended = TRUE]
    /\ UNCHANGED <<request, sent, handler, answer, faults>>

CallStep(c) ==
    Submit(c) \/ Refuse(c) \/ Create(c) \/ Conflict(c) \/ Send(c) \/ Mark(c) \/ Load(c)

Next ==
    \/ \E c \in Clients : CallStep(c) \/ CreateResent(c) \/ DispatchFails(c) \/ Unanswered(c)
    \/ \E i \in Ids : Finish(i)

Spec == Init /\ [][Next]_vars

\* Calls go on, and clients repeat a request until it is answered.
FairSpec == Spec /\ \A c \in Clients : WF_vars(CallStep(c))

-----------------------------------------------------------------------------
\* Whoever got 202 has an experiment with its own configuration, whoever else used the
\* key at the same time: clients that share a key and were accepted agree
\* (service.py 48-59).
AcceptedIsOwn ==
    \A c \in Clients :
        answer[c] = 202 =>
            \E i \in Ids : /\ store[i].config = request[c].config
                           /\ request[c].key \in {i, NoKey}

\* 409 is true: another configuration is stored under the key.  A client that repeats its
\* request, or whose client library did, is never told that it contradicts itself
\* (service.py 50-55, api.py 114-116).
ConflictIsTrue ==
    \A c \in Clients :
        answer[c] = 409 =>
            /\ request[c].key # NoKey
            /\ store[request[c].key].config \notin {Nothing, request[c].config}

\* Every request is answered in the end, by 202 or a refusal, if its client repeats it.
RequestsAnswered == \A c \in Clients : <>(answer[c] # 0)
=============================================================================
