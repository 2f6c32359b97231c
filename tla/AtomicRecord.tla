---------------------------- MODULE AtomicRecord ----------------------------
(***************************************************************************)
(* What ExperimentRepository (repositories.py) promises about one record,  *)
(* whichever backend keeps it.  A caller is one call of create, mutate or  *)
(* get.  The record is the sequence of the calls that changed it: its      *)
(* creator first, then every mutation on top of the one before.  A call    *)
(* may change it more than once before it is answered (the backend may     *)
(* apply a mutation again after a lost answer), never after.               *)
(***************************************************************************)
EXTENDS Sequences

CONSTANTS
    Creators,  \* calls of create
    Changers,  \* calls of mutate
    Readers    \* calls of get

VARIABLES
    content,  \* the record, <<>> before it is created
    answer,   \* answer[c]: what c was told, "none" while it is under way
    view      \* view[c]: the record as c, still under way, wrote or read it, or <<>>

vars == <<content, answer, view>>

Callers == Creators \cup Changers \cup Readers

Init ==
    /\ content = <<>>
    /\ answer = [c \in Callers |-> "none"]
    /\ view = [c \in Callers |-> <<>>]

Create(c) ==
    /\ c \in Creators /\ content = <<>>
    /\ content' = <<c>>
    /\ view' = [view EXCEPT ![c] = content']
    /\ UNCHANGED answer

Change(c) ==
    /\ c \in Changers /\ content # <<>>
    /\ content' = Append(content, c)
    /\ view' = [view EXCEPT ![c] = content']
    /\ UNCHANGED answer

Read(c) ==
    /\ c \in Readers /\ content # <<>>
    /\ view' = [view EXCEPT ![c] = content]
    /\ UNCHANGED <<content, answer>>

Answer(c, a) ==
    /\ answer' = [answer EXCEPT ![c] = a]
    /\ view' = [view EXCEPT ![c] = <<>>]
    /\ UNCHANGED content

\* A call succeeds only after it took effect ...
Accept(c) == view[c] # <<>> /\ Answer(c, "ok")

\* ... and is refused only if it had none: create when the record exists, get
\* when it does not, mutate when it does not or when the callback raises.
Refuse(c) ==
    /\ view[c] = <<>>
    /\ c \in Creators => content # <<>>
    /\ c \in Readers => content = <<>>
    /\ Answer(c, "refused")

\* Any other exception promises nothing.
Fail(c) == Answer(c, "failed")

Next ==
    \E c \in Callers :
        /\ answer[c] = "none"
        /\ Create(c) \/ Change(c) \/ Read(c) \/ Accept(c) \/ Refuse(c) \/ Fail(c)

Spec == Init /\ [][Next]_vars
=============================================================================
