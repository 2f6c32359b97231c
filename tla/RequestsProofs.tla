---------------------------- MODULE RequestsProofs ----------------------------
(***************************************************************************)
(* Proofs about POST /experiments: what an answer says of the experiment,  *)
(* for any numbers of clients, keys and failures.                          *)
(***************************************************************************)
EXTENDS Requests, TLAPS

Demands == [key : Keys \cup {NoKey}, config : Configs, admitted : BOOLEAN, valid : BOOLEAN]

Entries == [config : Configs \cup {Nothing}, dispatched : BOOLEAN, ended : BOOLEAN]

Calls ==
    [step : {"none", "create", "conflict", "send", "mark", "load"}, id : Ids \cup {Nothing}]

\* A call is about its client's own experiment: nobody else has the id that uuid4 drew.
IdInv(c) ==
    handler[c].step # "none" =>
        /\ request[c].key = NoKey =>
             /\ handler[c].id \in FreshIds
             /\ \A d \in Clients \ {c} : handler[d].id # handler[c].id
        /\ request[c].key # NoKey => handler[c].id = request[c].key

\* What a call in progress has found out about the record.
RecordInv(c) ==
    /\ handler[c].step = "create" /\ request[c].key = NoKey => ~Exists(handler[c].id)
    /\ handler[c].step = "conflict" =>
         /\ Exists(handler[c].id)
         /\ request[c].key = NoKey => store[handler[c].id].config = request[c].config
    /\ handler[c].step \in {"send", "mark", "load"} =>
         store[handler[c].id].config = request[c].config

AnswerInv(c) ==
    /\ answer[c] = 202 =>
         \E i \in Ids : store[i].config = request[c].config /\ request[c].key \in {i, NoKey}
    /\ answer[c] = 409 =>
         /\ request[c].key # NoKey
         /\ store[request[c].key].config \notin {Nothing, request[c].config}

Inv == TypeOK /\ \A c \in Clients : IdInv(c) /\ RecordInv(c) /\ AnswerInv(c)

-----------------------------------------------------------------------------
\* A configuration that was stored stays, and only the call in `by' stores one.
Keeps(by) ==
    \A i \in Ids :
        /\ Exists(i) => store'[i].config = store[i].config
        /\ ~Exists(i) => store'[i].config = Nothing \/ i = by

\* Clients that take no step.
LEMMA OthersKept ==
    ASSUME Inv, NEW c \in Clients, NEW d \in Clients \ {c},
           request' = request,
           \A e \in Clients \ {c} : handler'[e] = handler[e] /\ answer'[e] = answer[e],
           Keeps(handler[c].id),
           \/ handler'[c].id \in {handler[c].id, Nothing} \cup Keys
           \/ handler'[c].id \in Unused
    PROVE  IdInv(d)' /\ RecordInv(d)' /\ AnswerInv(d)'
  <1>1. /\ IdInv(d) /\ RecordInv(d) /\ AnswerInv(d) /\ IdInv(c)
        /\ handler[d] \in Calls /\ request[d] \in Demands /\ d \in Clients
        /\ handler[d].step = "none" <=> handler[d].id = Nothing
        /\ \A i \in Ids : store[i] \in Entries
    BY DEF Inv, TypeOK, Calls, Demands, Entries
  <1>2. IdInv(d)'
    BY <1>1, RequestsAssumption DEF IdInv, Unused, Ids
  <1>3. RecordInv(d)'
    BY <1>1, RequestsAssumption DEF IdInv, RecordInv, Keeps, Exists, Calls, Demands, Ids
  <1>4. AnswerInv(d)'
    BY <1>1, RequestsAssumption DEF AnswerInv, Keeps, Exists, Demands, Ids
  <1> QED
    BY <1>2, <1>3, <1>4

-----------------------------------------------------------------------------
\* What holds of a client before its step.
LEMMA Before ==
    ASSUME Inv, NEW c \in Clients
    PROVE  /\ IdInv(c) /\ RecordInv(c) /\ AnswerInv(c)
           /\ request[c] \in Demands /\ handler[c] \in Calls
           /\ handler[c].step = "none" <=> handler[c].id = Nothing
           /\ handler[c].step # "none" => handler[c].id \in Ids
           /\ store \in [Ids -> Entries]
  <1>1. /\ IdInv(c) /\ RecordInv(c) /\ AnswerInv(c)
        /\ request[c] \in Demands /\ handler[c] \in Calls
        /\ handler[c].step = "none" <=> handler[c].id = Nothing
        /\ store \in [Ids -> Entries]
    BY DEF Inv, TypeOK, Demands, Calls, Entries
  <1>2. handler[c].id \in Ids \cup {Nothing}
    BY <1>1 DEF Calls
  <1> QED
    BY <1>1, <1>2

Codes == {0, 202, 401, 409, 422}

\* A step changes the call and the answer of its own client only.
OnlyClient(c) ==
    /\ handler' \in [Clients -> Calls] /\ answer' \in [Clients -> Codes]
    /\ \A e \in Clients \ {c} : handler'[e] = handler[e] /\ answer'[e] = answer[e]
    /\ handler'[c].step = "none" <=> handler'[c].id = Nothing

\* The rest of the state.
Surroundings ==
    /\ request' = request /\ sent' \subseteq Ids /\ store' \in [Ids -> Entries]
    /\ Fault \/ UNCHANGED faults

\* The step of one client keeps the invariant, if it keeps its client's part.
LEMMA StepKeeps ==
    ASSUME Inv, NEW c \in Clients, OnlyClient(c), Surroundings,
           Keeps(handler[c].id),
           handler'[c].id \in {handler[c].id, Nothing} \cup Keys \/ handler'[c].id \in Unused,
           IdInv(c)', RecordInv(c)', AnswerInv(c)'
    PROVE  Inv'
  <1>1. TypeOK'
    <2>1. faults' \in 0 .. MaxFaults
      BY RequestsAssumption DEF Inv, TypeOK, Fault, Surroundings
    <2>2. \A d \in Clients : handler'[d].step = "none" <=> handler'[d].id = Nothing
      BY DEF Inv, TypeOK, OnlyClient
    <2>3. request' \in [Clients -> [key : Keys \cup {NoKey}, config : Configs,
                                    admitted : BOOLEAN, valid : BOOLEAN]]
      BY DEF Inv, TypeOK, Surroundings
    <2> QED
      BY <2>1, <2>2, <2>3 DEF TypeOK, Calls, Entries, Codes, OnlyClient, Surroundings
  <1>2. request' = request
    BY DEF Surroundings
  <1>3. \A d \in Clients \ {c} : IdInv(d)' /\ RecordInv(d)' /\ AnswerInv(d)'
    BY <1>2, OthersKept DEF OnlyClient
  <1> QED
    BY <1>1, <1>3 DEF Inv

\* A call that goes on about the same experiment.
LEMMA IdKept ==
    ASSUME Inv, NEW c \in Clients, request' = request,
           handler'[c].id = handler[c].id, handler[c].step # "none",
           \A e \in Clients \ {c} : handler'[e] = handler[e]
    PROVE  IdInv(c)'
  BY Before DEF IdInv

\* An answer that was given stays true.
LEMMA AnswerKept ==
    ASSUME Inv, NEW c \in Clients, request' = request, answer'[c] = answer[c],
           Keeps(handler[c].id)
    PROVE  AnswerInv(c)'
  BY Before, RequestsAssumption DEF AnswerInv, Keeps, Exists, Demands, Ids

-----------------------------------------------------------------------------
\* The client's request becomes a call, about its key's experiment or one of its own
\* (service.py 31-47).
LEMMA SubmitInv == ASSUME Inv, NEW c \in Clients, Submit(c) PROVE Inv'
  <1>1. PICK i \in Ids :
          /\ handler' = [handler EXCEPT ![c] = [step |-> "create", id |-> i]]
          /\ request[c].key = NoKey => i \in Unused
          /\ request[c].key # NoKey => i = request[c].key /\ i \in Keys
    <2>1. Unused \subseteq Ids
      BY DEF Unused, Ids
    <2> QED
      BY <2>1, Before DEF Submit, Demands, Ids
  <1>2. [step |-> "create", id |-> i] \in Calls /\ i # Nothing
    BY RequestsAssumption DEF Calls, Ids
  <1>3. handler[c].step = "none" /\ UNCHANGED <<request, store, sent, answer, faults>>
    BY DEF Submit, At
  <1>4. Surroundings
    BY <1>3, Before DEF Inv, TypeOK, Surroundings
  <1>5. Keeps(handler[c].id)
    BY <1>3 DEF Keeps, Exists
  <1>6. OnlyClient(c) /\ handler'[c] = [step |-> "create", id |-> i]
    BY <1>1, <1>2, <1>3 DEF Inv, TypeOK, OnlyClient, Calls, Codes
  <1>7. IdInv(c)'
    BY <1>1, <1>3, <1>6 DEF IdInv, Unused, OnlyClient
  <1>8. RecordInv(c)'
    BY <1>1, <1>3, <1>6 DEF RecordInv, Unused, Exists
  <1>9. AnswerInv(c)'
    BY <1>3, <1>5, AnswerKept
  <1>10. handler'[c].id \in {handler[c].id, Nothing} \cup Keys \/ handler'[c].id \in Unused
    BY <1>1, <1>6
  <1> QED
    BY <1>4, <1>5, <1>6, <1>7, <1>8, <1>9, <1>10, StepKeeps

\* A call that goes on with another step.
LEMMA Goes ==
    ASSUME Inv, NEW c \in Clients, NEW step \in {"conflict", "send", "mark", "load"},
           handler[c].step # "none", Goto(c, step), UNCHANGED answer
    PROVE  /\ OnlyClient(c)
           /\ handler'[c].step = step /\ handler'[c].id = handler[c].id
           /\ handler'[c].id # Nothing
  <1>1. handler \in [Clients -> Calls] /\ answer \in [Clients -> Codes]
    BY DEF Inv, TypeOK, Calls, Codes
  <1>2. [handler[c] EXCEPT !.step = step] = [step |-> step, id |-> handler[c].id]
    <2>1. ASSUME NEW r \in Calls PROVE [r EXCEPT !.step = step] = [step |-> step, id |-> r.id]
      BY DEF Calls
    <2> QED
      BY <1>1, <2>1
  <1>3. handler' = [handler EXCEPT ![c] = [step |-> step, id |-> handler[c].id]]
    BY <1>2, Zenon DEF Goto
  <1>4. [step |-> step, id |-> handler[c].id] \in Calls
    BY <1>1 DEF Calls
  <1>5. handler[c].id # Nothing
    BY Before
  <1> QED
    BY <1>1, <1>3, <1>4, <1>5 DEF OnlyClient

\* A call that is over.
LEMMA Ends ==
    ASSUME Inv, NEW c \in Clients, handler' = [handler EXCEPT ![c] = NoCall],
           answer' \in [Clients -> Codes], \A d \in Clients \ {c} : answer'[d] = answer[d]
    PROVE  OnlyClient(c) /\ handler'[c].step = "none" /\ handler'[c].id = Nothing
  <1>1. handler \in [Clients -> Calls] /\ NoCall \in Calls
    BY DEF Inv, TypeOK, Calls, NoCall
  <1> QED
    BY <1>1 DEF OnlyClient, NoCall

\* A call that ends with an answer, or without one.
LEMMA Answers ==
    ASSUME Inv, NEW c \in Clients
    PROVE  /\ answer \in [Clients -> Codes]
           /\ \A code \in Codes :
                LET new == [answer EXCEPT ![c] = code]
                IN  /\ new \in [Clients -> Codes] /\ new[c] = code
                    /\ \A d \in Clients \ {c} : new[d] = answer[d]
  BY DEF Inv, TypeOK, Codes

\* A call that is over leaves nothing to say but its answer.
LEMMA EndKeeps ==
    ASSUME Inv, NEW c \in Clients, OnlyClient(c), Surroundings, handler'[c].step = "none",
           Keeps(handler[c].id), AnswerInv(c)'
    PROVE  Inv'
  <1>1. handler'[c].id = Nothing
    BY DEF OnlyClient
  <1>2. IdInv(c)' /\ RecordInv(c)'
    BY DEF IdInv, RecordInv
  <1> QED
    BY <1>1, <1>2, StepKeeps

\* A call that goes on keeps what it says of its id.
LEMMA GoingKeeps ==
    ASSUME Inv, NEW c \in Clients, OnlyClient(c), Surroundings, handler[c].step # "none",
           handler'[c].id = handler[c].id, UNCHANGED answer,
           Keeps(handler[c].id), RecordInv(c)'
    PROVE  Inv'
  <1>1. request' = request
    BY DEF Surroundings
  <1>2. IdInv(c)'
    BY <1>1, IdKept DEF OnlyClient
  <1>3. AnswerInv(c)'
    BY <1>1, AnswerKept
  <1> QED
    BY <1>2, <1>3, StepKeeps

\* The upload with overwrite=False (service.py 48-49, repositories.py 128-147).
LEMMA StoredFacts ==
    ASSUME Inv, NEW c \in Clients, handler[c].step = "create", ~Exists(handler[c].id)
    PROVE  /\ Stored(c) \in [Ids -> Entries]
           /\ Stored(c)[handler[c].id].config = request[c].config
           /\ \A i \in Ids : i # handler[c].id => Stored(c)[i] = store[i]
           /\ request[c].config \in Configs
  <1>1. handler[c].id \in Ids /\ store \in [Ids -> Entries] /\ request[c].config \in Configs
    BY Before DEF Demands
  <1>2. [config |-> request[c].config, dispatched |-> FALSE, ended |-> FALSE] \in Entries
    BY <1>1 DEF Entries
  <1> QED
    BY <1>1, <1>2 DEF Stored

\* What is stored does not change what was (service.py 48-55).
LEMMA StoringKeeps ==
    ASSUME Inv, NEW c \in Clients, handler[c].step = "create", ~Exists(handler[c].id),
           store' = Stored(c)
    PROVE  /\ Keeps(handler[c].id) /\ store' \in [Ids -> Entries]
           /\ store'[handler[c].id].config = request[c].config
           /\ store'[handler[c].id].config # Nothing
  <1>1. handler[c].id \in Ids
    BY Before
  <1>2. store'[handler[c].id].config = request[c].config
    BY StoredFacts
  <1> QED
    BY <1>1, <1>2, StoredFacts, RequestsAssumption DEF Keeps, Exists

\* create, answered or sent again by the client library (service.py 48-49).
LEMMA CreateInv ==
    ASSUME Inv, NEW c \in Clients, Create(c) \/ CreateResent(c) PROVE Inv'
  <1>1. /\ handler[c].step = "create" /\ UNCHANGED <<request, sent, answer>>
        /\ Fault \/ UNCHANGED faults
        /\ \/ Exists(handler[c].id) /\ Goto(c, "conflict") /\ store' = store
           \/ /\ ~Exists(handler[c].id) /\ store' = Stored(c)
              /\ Goto(c, "send") \/ Goto(c, "conflict")
    BY DEF Create, CreateResent, At
  <1>2. OnlyClient(c) /\ handler'[c].id = handler[c].id
    BY <1>1, Goes
  <1>3. Keeps(handler[c].id) /\ store' \in [Ids -> Entries]
    BY <1>1, StoringKeeps, Before DEF Keeps, Exists
  <1>4. Surroundings
    BY <1>1, <1>3 DEF Surroundings, Inv, TypeOK
  <1>5. RecordInv(c)'
    <2>1. CASE Exists(handler[c].id)
      <3>1. handler'[c].step = "conflict" /\ store' = store
        BY <1>1, <2>1, Goes
      <3>2. request[c].key # NoKey
        BY <1>1, <2>1, Before DEF RecordInv
      <3> QED
        BY <1>1, <1>2, <2>1, <3>1, <3>2 DEF RecordInv, Exists
    <2>2. CASE ~Exists(handler[c].id)
      <3>1. /\ store'[handler[c].id].config = request[c].config
            /\ store'[handler[c].id].config # Nothing
        BY <1>1, <2>2, StoringKeeps
      <3>2. handler'[c].step \in {"send", "conflict"}
        BY <1>1, <2>2, Goes
      <3>3. handler'[c].step # "create"
        BY <3>2
      <3> QED
        BY <1>1, <1>2, <3>1, <3>3 DEF RecordInv, Exists
    <2> QED
      BY <2>1, <2>2
  <1> QED
    BY <1>1, <1>2, <1>3, <1>4, <1>5, GoingKeeps

\* The fingerprints are compared (service.py 50-57).
LEMMA ConflictInv == ASSUME Inv, NEW c \in Clients, Conflict(c) PROVE Inv'
  <1>1. handler[c].step = "conflict" /\ UNCHANGED <<request, store, sent, faults>>
    BY DEF Conflict, At
  <1>2. Keeps(handler[c].id) /\ Surroundings
    BY <1>1, Before DEF Keeps, Exists, Surroundings, Inv, TypeOK
  <1>3. CASE store[handler[c].id].config # request[c].config
    <2>1. handler' = [handler EXCEPT ![c] = NoCall] /\ answer' = [answer EXCEPT ![c] = 409]
      BY <1>3 DEF Conflict, Answered
    <2>2. /\ answer' \in [Clients -> Codes] /\ answer'[c] = 409
          /\ \A d \in Clients \ {c} : answer'[d] = answer[d]
      BY <2>1, Answers DEF Codes
    <2>3. OnlyClient(c) /\ handler'[c].step = "none"
      BY <2>1, <2>2, Ends
    <2>4. AnswerInv(c)'
      BY <1>1, <1>3, <2>2, Before DEF AnswerInv, RecordInv, IdInv, Exists
    <2> QED
      BY <1>2, <2>3, <2>4, EndKeeps
  <1>4. CASE store[handler[c].id].config = request[c].config
    <2>1. PICK step \in {"load", "send"} : Goto(c, step) /\ UNCHANGED answer
      BY <1>4 DEF Conflict
    <2>2. OnlyClient(c) /\ handler'[c].step = step /\ handler'[c].id = handler[c].id
      BY <1>1, <2>1, Goes
    <2>3. RecordInv(c)'
      BY <1>1, <1>4, <2>2 DEF RecordInv
    <2> QED
      BY <1>1, <1>2, <2>1, <2>2, <2>3, GoingKeeps
  <1> QED
    BY <1>3, <1>4

\* A record whose flags change keeps its configuration.
LEMMA FlagFacts ==
    ASSUME Inv, NEW i \in Ids,
           \/ store' = [store EXCEPT ![i].dispatched = TRUE]
           \/ store' = [store EXCEPT ![i].ended = TRUE]
    PROVE  store' \in [Ids -> Entries] /\ \A j \in Ids : store'[j].config = store[j].config
  <1>1. store \in [Ids -> Entries] /\ store[i] \in Entries
    BY DEF Inv, TypeOK, Entries
  <1>2. ASSUME NEW r \in Entries
        PROVE  [r EXCEPT !.dispatched = TRUE] \in Entries
               /\ [r EXCEPT !.dispatched = TRUE].config = r.config
    BY DEF Entries
  <1>3. ASSUME NEW r \in Entries
        PROVE  [r EXCEPT !.ended = TRUE] \in Entries /\ [r EXCEPT !.ended = TRUE].config = r.config
    BY DEF Entries
  <1>4. PICK n \in Entries : n.config = store[i].config /\ store' = [store EXCEPT ![i] = n]
    BY <1>1, <1>2, <1>3, Zenon
  <1> QED
    BY <1>1, <1>4

\* Sending, marking, and what fails of it (service.py 61-74).
LEMMA DispatchInv ==
    ASSUME Inv, NEW c \in Clients, Send(c) \/ Mark(c) \/ DispatchFails(c) PROVE Inv'
  <1>1. /\ handler[c].step \in {"send", "mark"} /\ UNCHANGED <<request, answer>>
        /\ Fault \/ UNCHANGED faults
        /\ Goto(c, "mark") \/ Goto(c, "load")
        /\ sent' \in {sent, sent \cup {handler[c].id}}
        /\ store' = store \/ store' = [store EXCEPT ![handler[c].id].dispatched = TRUE]
    BY DEF Send, Mark, DispatchFails, At
  <1>2. handler[c].id \in Ids /\ store[handler[c].id].config = request[c].config
    BY <1>1, Before DEF RecordInv
  <1>3. store' \in [Ids -> Entries] /\ \A j \in Ids : store'[j].config = store[j].config
    <2>1. CASE store' = store
      BY <2>1, Before
    <2>2. CASE store' # store
      BY <1>1, <1>2, <2>2, FlagFacts
    <2> QED
      BY <2>1, <2>2
  <1>4. Keeps(handler[c].id) /\ Surroundings
    BY <1>1, <1>2, <1>3 DEF Keeps, Exists, Surroundings, Inv, TypeOK
  <1>5. /\ OnlyClient(c) /\ handler'[c].id = handler[c].id
        /\ handler'[c].step \in {"mark", "load"}
    BY <1>1, Goes
  <1>6. RecordInv(c)'
    BY <1>1, <1>2, <1>3, <1>5 DEF RecordInv
  <1> QED
    BY <1>1, <1>4, <1>5, <1>6, GoingKeeps

\* The response (api.py 131-136), or none.
LEMMA LoadInv == ASSUME Inv, NEW c \in Clients, Load(c) PROVE Inv'
  <1>1. /\ handler[c].step = "load" /\ UNCHANGED <<request, store, sent, faults>>
        /\ handler' = [handler EXCEPT ![c] = NoCall] /\ answer' = [answer EXCEPT ![c] = 202]
    BY DEF Load, At, Answered
  <1>2. Keeps(handler[c].id) /\ Surroundings
    BY <1>1, Before DEF Keeps, Exists, Surroundings, Inv, TypeOK
  <1>3. /\ answer' \in [Clients -> Codes] /\ answer'[c] = 202
        /\ \A d \in Clients \ {c} : answer'[d] = answer[d]
    BY <1>1, Answers DEF Codes
  <1>4. /\ handler[c].id \in Ids /\ store[handler[c].id].config = request[c].config
        /\ request[c].key \in {handler[c].id, NoKey}
    BY <1>1, Before DEF RecordInv, IdInv
  <1>5. AnswerInv(c)'
    BY <1>1, <1>3, <1>4 DEF AnswerInv
  <1>6. OnlyClient(c) /\ handler'[c].step = "none"
    BY <1>1, <1>3, Ends
  <1> QED
    BY <1>2, <1>5, <1>6, EndKeeps

LEMMA UnansweredInv == ASSUME Inv, NEW c \in Clients, Unanswered(c) PROVE Inv'
  <1>1. /\ Fault /\ UNCHANGED <<request, sent, answer>>
        /\ handler' = [handler EXCEPT ![c] = NoCall]
        /\ \/ store' = store
           \/ handler[c].step = "create" /\ ~Exists(handler[c].id) /\ store' = Stored(c)
    BY DEF Unanswered, At
  <1>2. Keeps(handler[c].id) /\ store' \in [Ids -> Entries]
    BY <1>1, StoringKeeps, Before DEF Keeps, Exists
  <1>3. Surroundings
    BY <1>1, <1>2 DEF Surroundings, Inv, TypeOK
  <1>4. OnlyClient(c) /\ handler'[c].step = "none"
    <2>1. answer' \in [Clients -> Codes] /\ \A d \in Clients \ {c} : answer'[d] = answer[d]
      BY <1>1, Answers
    <2>2. handler' = [handler EXCEPT ![c] = NoCall]
      BY <1>1
    <2> QED
      BY <2>1, <2>2, Ends
  <1>5. AnswerInv(c)'
    BY <1>1, <1>2, AnswerKept
  <1> QED
    BY <1>2, <1>3, <1>4, <1>5, EndKeeps

\* A refusal (api.py 103-108) says nothing of the store.
LEMMA RefuseInv == ASSUME Inv, NEW c \in Clients, Refuse(c) PROVE Inv'
  <1>1. PICK code \in {401, 422} :
          /\ handler' = [handler EXCEPT ![c] = NoCall] /\ answer' = [answer EXCEPT ![c] = code]
          /\ UNCHANGED <<request, store, sent, faults>>
    BY DEF Refuse, Answered
  <1>2. Keeps(handler[c].id) /\ Surroundings
    BY <1>1, Before DEF Keeps, Exists, Surroundings, Inv, TypeOK
  <1>3. /\ answer' \in [Clients -> Codes] /\ answer'[c] \notin {202, 409}
        /\ \A d \in Clients \ {c} : answer'[d] = answer[d]
    BY <1>1, Answers DEF Codes
  <1>4. OnlyClient(c) /\ handler'[c].step = "none"
    <2>1. handler' = [handler EXCEPT ![c] = NoCall]
      BY <1>1
    <2>2. answer' \in [Clients -> Codes] /\ \A d \in Clients \ {c} : answer'[d] = answer[d]
      BY <1>3
    <2> QED
      BY <2>1, <2>2, Ends
  <1>5. AnswerInv(c)'
    BY <1>3 DEF AnswerInv
  <1> QED
    BY <1>2, <1>4, <1>5, EndKeeps

\* A worker ends an experiment: nothing a client looks at changes (worker.py 268-282).
LEMMA FinishInv == ASSUME Inv, NEW i \in Ids, Finish(i) PROVE Inv'
  <1>1. /\ UNCHANGED <<request, sent, handler, answer, faults>>
        /\ store' = [store EXCEPT ![i].ended = TRUE]
    BY DEF Finish
  <1>2. store' \in [Ids -> Entries] /\ \A j \in Ids : store'[j].config = store[j].config
    BY <1>1, FlagFacts
  <1>3. TypeOK'
    BY <1>1, <1>2 DEF Inv, TypeOK, Entries
  <1>4. ASSUME NEW c \in Clients PROVE IdInv(c)' /\ RecordInv(c)' /\ AnswerInv(c)'
    <2>1. /\ IdInv(c) /\ RecordInv(c) /\ AnswerInv(c) /\ request[c].key \in Keys \cup {NoKey}
          /\ handler[c].step # "none" => handler[c].id \in Ids
      BY Before DEF Demands
    <2>2. IdInv(c)' /\ RecordInv(c)'
      BY <1>1, <1>2, <2>1 DEF IdInv, RecordInv, Exists
    <2>3. AnswerInv(c)'
      BY <1>1, <1>2, <2>1 DEF AnswerInv, Ids
    <2> QED
      BY <2>2, <2>3
  <1> QED
    BY <1>3, <1>4 DEF Inv

LEMMA StutterInv == ASSUME Inv, UNCHANGED vars PROVE Inv'
  <1>1. UNCHANGED <<request, store, sent, handler, answer, faults>>
    BY DEF vars
  <1> QED
    BY <1>1 DEF Inv, TypeOK, IdInv, RecordInv, AnswerInv, Exists

\* At first there is no call and no record.
LEMMA Initially == Init => Inv
  BY RequestsAssumption
     DEF Init, Inv, TypeOK, IdInv, RecordInv, AnswerInv, NoCall, NoRecord, Ids

-----------------------------------------------------------------------------
\* The invariant holds in every reachable state (api.py 119-136, service.py 31-74).
THEOREM InvInvariant == Spec => []Inv
  <1>1. Inv /\ [Next]_vars => Inv'
    BY SubmitInv, RefuseInv, CreateInv, ConflictInv, DispatchInv, LoadInv, UnansweredInv,
       FinishInv, StutterInv DEF Next, CallStep
  <1> QED
    BY Initially, <1>1, PTL DEF Spec

\* Every variable keeps its type, for any numbers of clients, keys and failures.
THEOREM TypeCorrect == Spec => []TypeOK
  BY InvInvariant, PTL DEF Inv

\* Whoever got 202 has an experiment of its own configuration (service.py 48-59).
THEOREM AcceptedOwn == Spec => []AcceptedIsOwn
  <1>1. Inv => AcceptedIsOwn
    BY DEF Inv, AnswerInv, AcceptedIsOwn
  <1> QED
    BY <1>1, InvInvariant, PTL

\* Nobody is told of a conflict with itself (service.py 50-55).
THEOREM ConflictTrue == Spec => []ConflictIsTrue
  <1>1. Inv => ConflictIsTrue
    BY DEF Inv, AnswerInv, ConflictIsTrue
  <1> QED
    BY <1>1, InvInvariant, PTL
=============================================================================
