--------------------------- MODULE FileRepository ---------------------------
(***************************************************************************)
(* FilesystemExperimentRepository (repositories.py) for one experiment:    *)
(* its directory with state.json, the flock on .lock, and the temporary    *)
(* files from which _atomic_write replaces state.json.  A caller is one    *)
(* call of create, mutate or get, in a thread or process of its own; it    *)
(* may fail at any system call and its process may be killed.              *)
(*                                                                         *)
(* A record is the sequence of the calls that changed it, so that a lost   *)
(* or repeated change shows; its version is the length of the sequence.    *)
(* iter_records reads a file the way get does.                             *)
(***************************************************************************)
EXTENDS Naturals, Sequences, FiniteSets

CONSTANTS
    Creators,  \* calls of create
    Changers,  \* calls of mutate
    Readers,   \* calls of get
    NoCaller,  \* nobody holds the lock
    State,     \* the name state.json; a caller's name stands for its temporary file
    NoFile,    \* the file does not exist
    Torn       \* the file is there and incomplete

Callers == Creators \cup Changers \cup Readers
Writers == Creators \cup Changers

ASSUME DisjointCallers ==
    /\ Creators \cap Changers = {} /\ Creators \cap Readers = {}
    /\ Changers \cap Readers = {}
ASSUME NoCallerAssumption == NoCaller \notin Callers
ASSUME StateAssumption    == State \notin Callers
ASSUME ContentAssumption  ==
    /\ NoFile \notin Seq(Callers) /\ Torn \notin Seq(Callers) /\ Torn # NoFile

VARIABLES
    files,   \* files[f] : the content of state.json and of the temporary files
    lock,    \* the caller whose open .lock file holds the flock
    pc,      \* pc[c]    : where the call is
    copy,    \* copy[c]  : the record to be written
    answer,  \* answer[c]: what the call returned or raised
    view     \* view[c]  : the record the call wrote or read, while it is under way

vars == <<files, lock, pc, copy, answer, view>>

PCs == {"start", "locked", "write", "sync", "replace", "close", "read", "done", "dead"}

\* Every variable keeps its type: a file is a whole record, incomplete or not there
\* (repositories.py 62-116).
TypeOK ==
    /\ files \in [Callers \cup {State} -> Seq(Callers) \cup {NoFile, Torn}]
    /\ lock \in Callers \cup {NoCaller}
    /\ pc \in [Callers -> PCs]
    /\ copy \in [Callers -> Seq(Callers)]
    /\ answer \in [Callers -> {"none", "ok", "refused", "failed"}]
    /\ view \in [Callers -> Seq(Callers)]

Init ==
    /\ files = [f \in Callers \cup {State} |-> NoFile]
    /\ lock = NoCaller
    /\ pc = [c \in Callers |-> "start"]
    /\ copy = [c \in Callers |-> <<>>]
    /\ answer = [c \in Callers |-> "none"]
    /\ view = [c \in Callers |-> <<>>]

Goto(c, to) == pc' = [pc EXCEPT ![c] = to]

Exists == files[State] # NoFile

\* The call ends; its locals are gone.
Answer(c, a) ==
    /\ answer' = [answer EXCEPT ![c] = a]
    /\ copy' = [copy EXCEPT ![c] = <<>>]
    /\ view' = [view EXCEPT ![c] = <<>>]
    /\ Goto(c, "done")

-----------------------------------------------------------------------------
\* Locking and answering.

\* Mutated form: the lock is not exclusive.
LockIgnored(c) ==
    /\ pc[c] = "start" /\ c \in Writers
    /\ lock' = c
    /\ Goto(c, "locked")
    /\ UNCHANGED <<files, copy, answer, view>>

Lock(c) ==
    /\ pc[c] = "start" /\ c \in Writers
    /\ lock = NoCaller
    /\ lock' = c
    /\ Goto(c, "locked")
    /\ UNCHANGED <<files, copy, answer, view>>

Unlock(c) == lock' = IF lock = c THEN NoCaller ELSE lock

\* Mutated form: an exception leaves the lock file open.
AnswerLocked(c, a) == Answer(c, a) /\ UNCHANGED lock

\* The finally clause closes the lock file, whatever happened.
AnswerUnlocked(c, a) == Answer(c, a) /\ Unlock(c)

-----------------------------------------------------------------------------
\* create and mutate, under the lock.

\* create finds state.json, or mutate does not.
Rejected(c) ==
    /\ pc[c] = "locked"
    /\ Exists <=> c \in Creators
    /\ AnswerUnlocked(c, "refused")
    /\ UNCHANGED files

\* The callback of mutate raises.
CallbackRaises(c) ==
    /\ pc[c] = "locked" /\ c \in Changers /\ Exists
    /\ AnswerUnlocked(c, "refused")
    /\ UNCHANGED files

\* What the call is going to write.
Prepare(c) ==
    /\ pc[c] = "locked"
    /\ Exists <=> c \in Changers
    /\ copy' = [copy EXCEPT ![c] = Append(IF Exists THEN files[State] ELSE <<>>, c)]
    /\ Goto(c, "write")
    /\ UNCHANGED <<files, lock, answer, view>>

\* Mutated form: state.json is written in place.
ScratchInPlace(c) == State

\* The temporary file of _atomic_write.
Scratch(c) == c

MakeTemporary(c) ==
    /\ pc[c] = "write"
    /\ files' = [files EXCEPT ![Scratch(c)] = Torn]
    /\ Goto(c, "sync")
    /\ UNCHANGED <<lock, copy, answer, view>>

\* write, flush and fsync.
WriteTemporary(c) ==
    /\ pc[c] = "sync"
    /\ files' = [files EXCEPT ![Scratch(c)] = copy[c]]
    /\ Goto(c, "replace")
    /\ UNCHANGED <<lock, copy, answer, view>>

Replace(c) ==
    /\ pc[c] = "replace"
    /\ files' = [f \in DOMAIN files |->
                    IF f = State THEN files[Scratch(c)]
                    ELSE IF f = c THEN NoFile ELSE files[f]]
    /\ view' = [view EXCEPT ![c] = copy[c]]
    /\ Goto(c, "close")
    /\ UNCHANGED <<lock, copy, answer>>

Close(c) ==
    /\ pc[c] = "close"
    /\ AnswerUnlocked(c, "ok")
    /\ UNCHANGED files

-----------------------------------------------------------------------------
\* get, without the lock: path.exists and then read_text.

NotFound(c) ==
    /\ pc[c] = "start" /\ c \in Readers /\ ~Exists
    /\ Answer(c, "refused")
    /\ UNCHANGED <<files, lock>>

Found(c) ==
    /\ pc[c] = "start" /\ c \in Readers /\ Exists
    /\ Goto(c, "read")
    /\ UNCHANGED <<files, lock, copy, answer, view>>

\* The file that was open keeps its content when another one replaces it.  The
\* parser raises on an incomplete file.
ReadState(c) ==
    /\ pc[c] = "read"
    /\ IF files[State] \in {NoFile, Torn}
       THEN Answer(c, "failed")
       ELSE /\ view' = [view EXCEPT ![c] = files[State]]
            /\ Goto(c, "close")
            /\ UNCHANGED <<copy, answer>>
    /\ UNCHANGED <<files, lock>>

-----------------------------------------------------------------------------
\* Failures.

WritePCs == {"locked", "write", "sync", "replace"}

\* Mutated forms: a failing write leaves its temporary file; a call fails after
\* os.replace as well.
FailsLittering(c) ==
    /\ pc[c] \in WritePCs
    /\ AnswerUnlocked(c, "failed")
    /\ UNCHANGED files

FailsReplaced(c) ==
    /\ pc[c] \in WritePCs \cup {"close"}
    /\ files' = [files EXCEPT ![c] = NoFile]
    /\ AnswerUnlocked(c, "failed")

\* A system call fails under the lock; both finally clauses run.
Fails(c) ==
    /\ pc[c] \in WritePCs
    /\ files' = [files EXCEPT ![c] = NoFile]
    /\ AnswerUnlocked(c, "failed")

\* ... or outside it: opening .lock, reading state.json.
FailsUnlocked(c) ==
    /\ pc[c] \in {"start", "read"}
    /\ Answer(c, "failed")
    /\ UNCHANGED <<files, lock>>

\* Mutated form: a lock that outlives its process.
CrashLocked(c) ==
    /\ pc[c] \notin {"done", "dead"}
    /\ Goto(c, "dead")
    /\ UNCHANGED <<files, lock, copy, answer, view>>

\* The process is killed: the system closes its files, nothing else is done.
Crash(c) ==
    /\ pc[c] \notin {"done", "dead"}
    /\ Goto(c, "dead")
    /\ Unlock(c)
    /\ UNCHANGED <<files, copy, answer, view>>

-----------------------------------------------------------------------------
Step(c) ==
    \/ Lock(c) \/ Rejected(c) \/ CallbackRaises(c) \/ Prepare(c)
    \/ MakeTemporary(c) \/ WriteTemporary(c) \/ Replace(c) \/ Close(c)
    \/ NotFound(c) \/ Found(c) \/ ReadState(c)

Next == \E c \in Callers : Step(c) \/ Fails(c) \/ FailsUnlocked(c) \/ Crash(c)

Spec == Init /\ [][Next]_vars

\* A call runs until it is answered; failures and kills are not fair.
FairSpec == Spec /\ \A c \in Callers : WF_vars(Step(c))

-----------------------------------------------------------------------------
(***************************************************************************)
(* Properties                                                              *)
(***************************************************************************)

\* The record that a reader would get.
Content == IF files[State] \in {NoFile, Torn} THEN <<>> ELSE files[State]

TimesApplied(c) == Cardinality({i \in DOMAIN Content : Content[i] = c})

\* The files behave like one atomic record: a change is made on top of all
\* earlier ones although state.json is rewritten as a whole, a reader gets the
\* record as it was at one moment of its call, and no kill or failure in the
\* middle of a write shows (_locked, _atomic_write).
AtomicRecord == INSTANCE AtomicRecord WITH content <- Content
AtomicRecordSpec == AtomicRecord!Spec

\* state.json is a whole record or is not there, at every moment, so that readers
\* need no lock (get, iter_records): a failure or a kill in the middle of a write
\* leaves the earlier record, and the next writer goes on from it.
StateIsWhole == files[State] # Torn /\ files[State] # <<>>

\* An exception from create or mutate means that the record was not changed, a
\* normal return that it was, once: os.replace is the last step that can fail,
\* so a caller that repeats a failed change does not make it twice.
AnswersAreExact ==
    \A c \in Writers :
        /\ TimesApplied(c) <= 1
        /\ answer[c] = "ok" => TimesApplied(c) = 1
        /\ answer[c] \in {"refused", "failed"} => TimesApplied(c) = 0

\* A temporary file is left behind only by a process that was killed (the
\* finally clause of _atomic_write unlinks it, os.replace takes it away).
NoLitter == \A c \in Callers : files[c] # NoFile => pc[c] \in {"sync", "replace", "dead"}

\* Whatever happens to the holder of the lock, every other call is answered.
EveryCallAnswered == \A c \in Callers : <>(answer[c] # "none" \/ pc[c] = "dead")
=============================================================================
