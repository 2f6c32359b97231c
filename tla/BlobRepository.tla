--------------------------- MODULE BlobRepository ---------------------------
(***************************************************************************)
(* AzureBlobExperimentRepository (repositories.py) for one experiment: its *)
(* state blob and the calls of create, mutate and get.  mutate downloads   *)
(* the blob with its ETag, applies its callback and uploads under the      *)
(* condition that the ETag is the same, MaxTries times at most.            *)
(*                                                                         *)
(* The answer to a request that took effect may be lost.  Then an          *)
(* exception reaches the caller, or the client library sends the request   *)
(* again: create is told that the blob exists, mutate that it was          *)
(* modified.                                                               *)
(*                                                                         *)
(* The record is the sequence of the changes made to it.  It never has the *)
(* same length twice, so its length stands for the ETag.                   *)
(***************************************************************************)
EXTENDS Naturals, Sequences, FiniteSets

CONSTANTS
    Creators,  \* calls of create
    Changers,  \* calls of mutate
    Readers,   \* calls of get
    MaxTries   \* rounds of the loop in mutate, 5 in the code

Callers == Creators \cup Changers \cup Readers

ASSUME DisjointCallers ==
    /\ Creators \cap Changers = {} /\ Creators \cap Readers = {}
    /\ Changers \cap Readers = {}
ASSUME MaxTriesAssumption == MaxTries \in Nat \ {0}

VARIABLES
    blob,    \* the state blob, <<>> while there is none
    pc,      \* pc[c]    : where the call is
    copy,    \* copy[c]  : the record as mutate downloaded it, until the upload
    tries,   \* tries[c] : uploads of mutate that were refused
    lost,    \* lost[c]  : answers to uploads of c that were lost
    answer,  \* answer[c]: what the call returned or raised
    view     \* view[c]  : the record the call wrote or read, while it is under way

vars == <<blob, pc, copy, tries, lost, answer, view>>

\* Every variable keeps its type; a round is counted only while there is one left
\* (repositories.py 166-190).
TypeOK ==
    /\ blob \in Seq(Callers)
    /\ pc \in [Callers -> {"start", "upload", "answer", "done"}]
    /\ copy \in [Callers -> Seq(Callers)]
    /\ tries \in [Callers -> 0 .. MaxTries - 1]
    /\ lost \in [Callers -> Nat]
    /\ answer \in [Callers -> {"none", "ok", "refused", "exhausted", "failed"}]
    /\ view \in [Callers -> Seq(Callers)]

Init ==
    /\ blob = <<>>
    /\ pc = [c \in Callers |-> "start"]
    /\ copy = [c \in Callers |-> <<>>]
    /\ tries = [c \in Callers |-> 0]
    /\ lost = [c \in Callers |-> 0]
    /\ answer = [c \in Callers |-> "none"]
    /\ view = [c \in Callers |-> <<>>]

ETag(b) == Len(b)

Exists == blob # <<>>

Goto(c, to) == pc' = [pc EXCEPT ![c] = to]

\* The call ends; its locals are gone.
Answer(c, a) ==
    /\ answer' = [answer EXCEPT ![c] = a]
    /\ copy' = [copy EXCEPT ![c] = <<>>]
    /\ tries' = [tries EXCEPT ![c] = 0]
    /\ view' = [view EXCEPT ![c] = <<>>]
    /\ Goto(c, "done")

Land(c, b) ==
    /\ blob' = b
    /\ view' = [view EXCEPT ![c] = b]
    /\ copy' = [copy EXCEPT ![c] = <<>>]
    /\ Goto(c, "answer")
    /\ UNCHANGED answer

Return(c) ==
    /\ pc[c] = "answer"
    /\ Answer(c, "ok")
    /\ UNCHANGED <<blob, lost>>

-----------------------------------------------------------------------------
\* create: an upload that must not overwrite.

Create(c) ==
    /\ pc[c] = "start" /\ c \in Creators /\ ~Exists
    /\ Land(c, <<c>>)
    /\ UNCHANGED <<tries, lost>>

AlreadyExists(c) ==
    /\ pc[c] = "start" /\ c \in Creators /\ Exists
    /\ Answer(c, "refused")
    /\ UNCHANGED <<blob, lost>>

-----------------------------------------------------------------------------
\* get, and the download of mutate.

Get(c) ==
    /\ pc[c] = "start" /\ c \in Readers /\ Exists
    /\ Land(c, blob)
    /\ UNCHANGED <<tries, lost>>

NotFound(c) ==
    /\ pc[c] = "start" /\ c \notin Creators /\ ~Exists
    /\ Answer(c, "refused")
    /\ UNCHANGED <<blob, lost>>

Download(c) ==
    /\ pc[c] = "start" /\ c \in Changers /\ Exists
    /\ copy' = [copy EXCEPT ![c] = blob]
    /\ Goto(c, "upload")
    /\ UNCHANGED <<blob, tries, lost, answer, view>>

-----------------------------------------------------------------------------
\* mutate, on the copy it downloaded.

CallbackRaises(c) ==
    /\ pc[c] = "upload"
    /\ Answer(c, "refused")
    /\ UNCHANGED <<blob, lost>>

\* Mutated forms: the upload has no condition; it comes back into the loop.
UploadAnyway(c) ==
    /\ pc[c] = "upload"
    /\ Land(c, Append(copy[c], c))
    /\ UNCHANGED <<tries, lost>>

UploadTwice(c) ==
    /\ pc[c] = "upload" /\ ETag(copy[c]) = ETag(blob)
    /\ blob' = Append(copy[c], c)
    /\ view' = [view EXCEPT ![c] = blob']
    /\ tries' = [tries EXCEPT ![c] = IF @ + 1 < MaxTries THEN @ + 1 ELSE @]
    /\ Goto(c, IF tries[c] + 1 < MaxTries THEN "start" ELSE "answer")
    /\ copy' = [copy EXCEPT ![c] = <<>>]
    /\ UNCHANGED <<lost, answer>>

Upload(c) ==
    /\ pc[c] = "upload" /\ ETag(copy[c]) = ETag(blob)
    /\ Land(c, Append(copy[c], c))
    /\ UNCHANGED <<tries, lost>>

\* Mutated form: the next round keeps the copy and the ETag of the last.
NextRoundStale(c) ==
    /\ IF tries[c] + 1 < MaxTries
       THEN /\ tries' = [tries EXCEPT ![c] = @ + 1]
            /\ Goto(c, "upload")
            /\ UNCHANGED <<copy, answer, view>>
       ELSE Answer(c, "exhausted")
    /\ UNCHANGED blob

\* ResourceModifiedError: download again, unless this was the last round.
NextRound(c) ==
    /\ IF tries[c] + 1 < MaxTries
       THEN /\ tries' = [tries EXCEPT ![c] = @ + 1]
            /\ Goto(c, "start")
            /\ copy' = [copy EXCEPT ![c] = <<>>]
            /\ UNCHANGED <<answer, view>>
       ELSE Answer(c, "exhausted")
    /\ UNCHANGED blob

Modified(c) ==
    /\ pc[c] = "upload" /\ ETag(copy[c]) # ETag(blob)
    /\ NextRound(c)
    /\ UNCHANGED lost

-----------------------------------------------------------------------------
\* Failures of requests.

\* The request did not take effect.
RequestFails(c) ==
    /\ pc[c] \in {"start", "upload"}
    /\ Answer(c, "failed")
    /\ UNCHANGED <<blob, lost>>

LoseAnswer(c) == pc[c] = "answer" /\ lost' = [lost EXCEPT ![c] = @ + 1]

\* It did, and the caller gets an exception.
AnswerLost(c) ==
    /\ LoseAnswer(c)
    /\ Answer(c, "failed")
    /\ UNCHANGED blob

\* It did, and the client library sends it again.
CreateResent(c) ==
    /\ LoseAnswer(c) /\ c \in Creators
    /\ Answer(c, "refused")
    /\ UNCHANGED blob

UploadResent(c) == LoseAnswer(c) /\ c \in Changers /\ NextRound(c)

-----------------------------------------------------------------------------
Step(c) ==
    \/ Create(c) \/ AlreadyExists(c) \/ Get(c) \/ NotFound(c)
    \/ Download(c) \/ CallbackRaises(c) \/ Upload(c) \/ Modified(c)
    \/ Return(c)
    \/ RequestFails(c) \/ AnswerLost(c) \/ CreateResent(c) \/ UploadResent(c)

Next == \E c \in Callers : Step(c)

Spec == Init /\ [][Next]_vars

-----------------------------------------------------------------------------
(***************************************************************************)
(* Properties                                                              *)
(***************************************************************************)

TimesApplied(c) == Cardinality({i \in DOMAIN blob : blob[i] = c})

Applied(c) == \E i \in DOMAIN blob : blob[i] = c

\* A refusal after an upload of the same call took effect promises nothing.
Told(c) ==
    IF answer[c] \in {"refused", "exhausted"}
    THEN IF Applied(c) THEN "failed" ELSE "refused"
    ELSE answer[c]

Answers == [c \in Callers |-> Told(c)]

\* The blob behaves like one atomic record: every mutation is made on top of all
\* earlier ones, although each caller uploads the whole record it computed from
\* a copy; a successful call took effect, and returns what it wrote or read.
AtomicRecord == INSTANCE AtomicRecord WITH content <- blob, answer <- Answers
AtomicRecordSpec == AtomicRecord!Spec

\* A change is made again, or made and then reported as refused, only after an
\* answer of the same call was lost.
RepeatsNeedLostAnswers ==
    \A c \in Creators \cup Changers :
        /\ TimesApplied(c) <= 1 + lost[c]
        /\ answer[c] \in {"refused", "exhausted"} => TimesApplied(c) <= lost[c]
        /\ answer[c] = "ok" => TimesApplied(c) >= 1

ChangesByOthers(c) == Cardinality({i \in DOMAIN blob : blob[i] # c})

\* "concurrent updates did not converge" is never the fault of one slow caller: for each
\* of its rounds another call changed the record, besides creating it, or an answer to an
\* upload of its own was lost and the client library sent it again (repositories.py 171-190).
GivingUpNeedsWrites ==
    \A c \in Changers :
        answer[c] = "exhausted" => ChangesByOthers(c) - 1 + lost[c] >= MaxTries
=============================================================================
