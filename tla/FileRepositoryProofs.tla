------------------------ MODULE FileRepositoryProofs ------------------------
(***************************************************************************)
(* FilesystemExperimentRepository implements AtomicRecord, for any number  *)
(* of calls, whichever of them fail or are killed.                         *)
(***************************************************************************)
EXTENDS FileRepository, FiniteSetTheorems, TLAPS

\* Where a writer is under the lock, and where it has computed what to write.
LockedPCs == {"locked", "write", "sync", "replace", "close"}
WritingPCs == {"write", "sync", "replace"}

\* What a call in each of its places knows of the files.
CallInv(c) ==
    /\ answer[c] = "none" <=> pc[c] # "done"
    /\ c \in Writers /\ pc[c] \in LockedPCs => lock = c
    /\ pc[c] \in LockedPCs \ {"close"} => c \in Writers
    /\ pc[c] \in WritingPCs =>
          /\ c \in Creators <=> files[State] = NoFile
          /\ copy[c] = Append(Content, c)
    /\ pc[c] = "replace" => files[c] = copy[c]
    /\ pc[c] = "read" => c \in Readers /\ files[State] # NoFile
    /\ pc[c] \in {"start", "locked"} => view[c] = <<>>
    /\ pc[c] = "close" => view[c] # <<>>
    /\ pc[c] \in WritingPCs => view[c] = <<>>

Inv == TypeOK /\ StateIsWhole /\ \A c \in Callers : CallInv(c)

-----------------------------------------------------------------------------
LEMMA EmptyRecord == <<>> \in Seq(Callers)
  OBVIOUS

LEMMA AppendRecord ==
    ASSUME NEW s \in Seq(Callers), NEW c \in Callers
    PROVE  Append(s, c) \in Seq(Callers) /\ Append(s, c) # <<>>
  <1>1. Append(s, c) \in Seq(Callers) /\ Len(Append(s, c)) = Len(s) + 1
    OBVIOUS
  <1>2. Len(<<>>) = 0 /\ Len(s) \in Nat
    OBVIOUS
  <1> QED
    BY <1>1, <1>2

\* The record that state.json holds.
LEMMA ContentRecord ==
    ASSUME Inv
    PROVE  /\ Content \in Seq(Callers)
           /\ files[State] = NoFile => Content = <<>>
           /\ files[State] # NoFile => Content = files[State] /\ Content # <<>>
  BY EmptyRecord, ContentAssumption DEF Inv, TypeOK, StateIsWhole, Content

LEMMA InitInv == Init => Inv
  <1> SUFFICES ASSUME Init PROVE Inv
    OBVIOUS
  <1>1. TypeOK
    BY EmptyRecord DEF Init, TypeOK, PCs
  <1>2. StateIsWhole
    BY EmptyRecord, ContentAssumption DEF Init, StateIsWhole
  <1>3. \A c \in Callers : CallInv(c)
    BY DEF Init, CallInv, LockedPCs, WritingPCs
  <1> QED
    BY <1>1, <1>2, <1>3 DEF Inv

\* A step of c that leaves state.json alone, and takes no lock of another call.
LEMMA OthersKept ==
    ASSUME Inv, NEW c \in Callers, NEW d \in Callers, d # c,
           files'[State] = files[State], files'[d] = files[d],
           lock' = lock \/ lock # d,
           pc'[d] = pc[d], copy'[d] = copy[d], answer'[d] = answer[d], view'[d] = view[d]
    PROVE  CallInv(d)'
  <1>1. CallInv(d) /\ Content' = Content
    BY DEF Inv, Content
  <1>2. d \in Writers /\ pc[d] \in LockedPCs => lock' = d
    BY <1>1 DEF CallInv
  <1> QED
    BY <1>1, <1>2 DEF CallInv

-----------------------------------------------------------------------------
\* A step of c in which its call ends, with the temporary file gone or not.
LEMMA Ending ==
    ASSUME Inv, NEW c \in Callers, NEW a \in {"ok", "refused", "failed"}, Answer(c, a),
           Unlock(c) \/ UNCHANGED lock,
           UNCHANGED files \/ files' = [files EXCEPT ![c] = NoFile]
    PROVE  Inv'
  <1>0. State # c /\ files \in [Callers \cup {State} -> Seq(Callers) \cup {NoFile, Torn}]
    BY StateAssumption DEF Inv, TypeOK
  <1>1. TypeOK'
    BY <1>0, EmptyRecord DEF Inv, TypeOK, Answer, Goto, PCs, Unlock
  <1>2. StateIsWhole'
    BY <1>0 DEF Inv, StateIsWhole
  <1>3. CallInv(c)'
    BY DEF Inv, TypeOK, CallInv, Answer, Goto, LockedPCs, WritingPCs
  <1>4. ASSUME NEW d \in Callers, d # c PROVE CallInv(d)'
    <2>1. /\ pc'[d] = pc[d] /\ copy'[d] = copy[d] /\ answer'[d] = answer[d] /\ view'[d] = view[d]
          /\ files'[State] = files[State] /\ files'[d] = files[d]
          /\ lock' = lock \/ lock # d
      BY <1>0, <1>4 DEF Inv, TypeOK, Answer, Goto, Unlock
    <2> QED
      BY <1>4, <2>1, OthersKept
  <1> QED
    BY <1>1, <1>2, <1>3, <1>4 DEF Inv

\* A step of c under way that leaves state.json alone.
LEMMA GoingOn ==
    ASSUME Inv, NEW c \in Callers, TypeOK', CallInv(c)',
           files'[State] = files[State], lock' = lock \/ lock \in {c, NoCaller},
           \A d \in Callers \ {c} :
               /\ files'[d] = files[d] /\ pc'[d] = pc[d] /\ copy'[d] = copy[d]
               /\ answer'[d] = answer[d] /\ view'[d] = view[d]
    PROVE  Inv'
  <1>1. StateIsWhole'
    BY DEF Inv, StateIsWhole
  <1>2. ASSUME NEW d \in Callers, d # c PROVE CallInv(d)'
    BY <1>2, OthersKept, NoCallerAssumption
  <1> QED
    BY <1>1, <1>2 DEF Inv

LEMMA LockInv ==
    ASSUME Inv, NEW c \in Callers, Lock(c)
    PROVE  Inv'
  <1>1. TypeOK'
    BY DEF Inv, TypeOK, Lock, Goto, PCs
  <1>2. CallInv(c)'
    BY DEF Inv, TypeOK, CallInv, Lock, Goto, LockedPCs, WritingPCs
  <1> QED
    BY <1>1, <1>2, GoingOn DEF Lock, Goto, Inv, TypeOK

LEMMA PrepareInv ==
    ASSUME Inv, NEW c \in Callers, Prepare(c)
    PROVE  Inv'
  <1>0. CallInv(c) /\ c \in Writers /\ pc[c] = "locked"
    BY DEF Inv, CallInv, Prepare, LockedPCs
  <1>1. copy' = [copy EXCEPT ![c] = Append(Content, c)] /\ Append(Content, c) \in Seq(Callers)
    BY ContentRecord, AppendRecord DEF Prepare, Exists
  <1>2. TypeOK'
    BY <1>1 DEF Inv, TypeOK, Prepare, Goto, PCs
  <1>3. CallInv(c)'
    <2>1. /\ pc'[c] = "write" /\ copy'[c] = Append(Content, c) /\ Content' = Content
          /\ answer' = answer /\ view' = view /\ lock' = lock /\ files' = files
      BY <1>1 DEF Inv, TypeOK, Prepare, Goto, Content
    <2>2. c \in Creators <=> files[State] = NoFile
      BY <1>0, DisjointCallers DEF Prepare, Exists, Writers
    <2> QED
      BY <1>0, <2>1, <2>2 DEF CallInv, LockedPCs, WritingPCs
  <1> QED
    BY <1>2, <1>3, GoingOn DEF Prepare, Goto, Inv, TypeOK

LEMMA TemporaryInv ==
    ASSUME Inv, NEW c \in Callers, MakeTemporary(c) \/ WriteTemporary(c)
    PROVE  Inv'
  <1>0. CallInv(c) /\ State # c /\ files \in [Callers \cup {State} -> Seq(Callers) \cup {NoFile, Torn}]
    BY StateAssumption DEF Inv, TypeOK
  <1>1. /\ pc[c] \in {"write", "sync"} /\ pc'[c] \in {"sync", "replace"}
        /\ pc'[c] = "replace" => files'[c] = copy[c]
        /\ files'[State] = files[State] /\ UNCHANGED <<lock, copy, answer, view>>
    BY <1>0 DEF MakeTemporary, WriteTemporary, Goto, Scratch, Inv, TypeOK
  <1>2. TypeOK'
    BY DEF Inv, TypeOK, MakeTemporary, WriteTemporary, Goto, PCs, Scratch
  <1>3. CallInv(c)'
    <2>1. Content' = Content
      BY <1>1 DEF Content
    <2> QED
      BY <1>0, <1>1, <2>1 DEF CallInv, LockedPCs, WritingPCs
  <1> QED
    BY <1>0, <1>1, <1>2, <1>3, GoingOn DEF MakeTemporary, WriteTemporary, Goto, Scratch, Inv, TypeOK

\* What os.replace does: the record gets the change of the lock's holder.
LEMMA Replaced ==
    ASSUME Inv, NEW c \in Callers, Replace(c)
    PROVE  /\ c \in Writers /\ lock = c
           /\ c \in Creators <=> files[State] = NoFile
           /\ copy[c] = Append(Content, c) /\ copy[c] \in Seq(Callers) /\ copy[c] # <<>>
           /\ files'[State] = copy[c] /\ files'[c] = NoFile
           /\ \A d \in Callers \ {c} : files'[d] = files[d]
           /\ Content' = copy[c] /\ view' = [view EXCEPT ![c] = copy[c]]
  <1>0. CallInv(c) /\ State # c /\ files \in [Callers \cup {State} -> Seq(Callers) \cup {NoFile, Torn}]
    BY StateAssumption DEF Inv, TypeOK
  <1>1. pc[c] = "replace"
    BY DEF Replace
  <1>2. /\ c \in Writers /\ lock = c /\ files[c] = copy[c]
        /\ c \in Creators <=> files[State] = NoFile
        /\ copy[c] = Append(Content, c)
    BY <1>0, <1>1 DEF CallInv, LockedPCs, WritingPCs
  <1>3. copy[c] \in Seq(Callers) /\ copy[c] # <<>>
    BY <1>2, ContentRecord, AppendRecord
  <1>4. /\ files'[State] = copy[c] /\ files'[c] = NoFile
        /\ \A d \in Callers \ {c} : files'[d] = files[d]
    BY <1>0, <1>2, StateAssumption DEF Replace, Scratch
  <1>5. Content' = copy[c]
    BY <1>3, <1>4, ContentAssumption DEF Content
  <1> QED
    BY <1>2, <1>3, <1>4, <1>5 DEF Replace

LEMMA ReplaceInv ==
    ASSUME Inv, NEW c \in Callers, Replace(c)
    PROVE  Inv'
  <1>1. TypeOK'
    <2>1. files' \in [Callers \cup {State} -> Seq(Callers) \cup {NoFile, Torn}]
      BY DEF Inv, TypeOK, Replace, Scratch
    <2>2. view' \in [Callers -> Seq(Callers)]
      BY Replaced DEF Inv, TypeOK
    <2> QED
      BY <2>1, <2>2 DEF Inv, TypeOK, Replace, Goto, PCs
  <1>2. StateIsWhole'
    BY Replaced, ContentAssumption DEF StateIsWhole
  <1>3. CallInv(c)'
    <2>1. /\ pc[c] = "replace" /\ pc'[c] = "close" /\ view'[c] # <<>> /\ lock' = lock
          /\ answer' = answer
      BY Replaced DEF Inv, TypeOK, Replace, Goto
    <2> QED
      BY <2>1, Replaced DEF Inv, CallInv, LockedPCs, WritingPCs
  <1>4. ASSUME NEW d \in Callers, d # c PROVE CallInv(d)'
    <2>1. /\ pc'[d] = pc[d] /\ copy'[d] = copy[d] /\ answer'[d] = answer[d] /\ view'[d] = view[d]
          /\ lock' = lock /\ CallInv(d)
      BY <1>4 DEF Inv, TypeOK, Replace, Goto
    <2>2. ~(d \in Writers /\ pc[d] \in LockedPCs)
      BY <1>4, <2>1, Replaced DEF CallInv
    <2>3. pc[d] \notin LockedPCs \ {"close"}
      BY <2>1, <2>2 DEF CallInv
    <2>4. files'[State] # NoFile
      BY Replaced, ContentAssumption
    <2> QED
      BY <2>1, <2>2, <2>3, <2>4 DEF CallInv, LockedPCs, WritingPCs
  <1> QED
    BY <1>1, <1>2, <1>3, <1>4 DEF Inv

LEMMA FoundInv ==
    ASSUME Inv, NEW c \in Callers, Found(c)
    PROVE  Inv'
  <1>1. TypeOK'
    BY DEF Inv, TypeOK, Found, Goto, PCs
  <1>2. CallInv(c)'
    BY DEF Inv, TypeOK, CallInv, Found, Goto, Exists, LockedPCs, WritingPCs
  <1> QED
    BY <1>1, <1>2, GoingOn DEF Found, Goto, Inv, TypeOK

\* A reader that found state.json reads a whole record.
LEMMA ReadRecord ==
    ASSUME Inv, NEW c \in Callers, ReadState(c)
    PROVE  /\ c \in Readers /\ Content # <<>> /\ Content \in Seq(Callers)
           /\ pc[c] = "read" /\ Goto(c, "close")
           /\ view' = [view EXCEPT ![c] = Content]
           /\ UNCHANGED <<files, lock, copy, answer>>
  <1>1. pc[c] = "read" /\ c \in Readers /\ files[State] \notin {NoFile, Torn}
    BY DEF Inv, CallInv, StateIsWhole, ReadState
  <1> QED
    BY <1>1, ContentRecord DEF ReadState

LEMMA ReadInv ==
    ASSUME Inv, NEW c \in Callers, ReadState(c)
    PROVE  Inv'
  <1>1. TypeOK'
    BY ReadRecord DEF Inv, TypeOK, Goto, PCs
  <1>2. CallInv(c)'
    <2>1. /\ c \in Readers /\ c \notin Writers /\ pc'[c] = "close" /\ view'[c] # <<>>
          /\ answer'[c] = "none"
      BY ReadRecord, DisjointCallers DEF Inv, TypeOK, CallInv, Goto, Writers
    <2> QED
      BY <2>1 DEF CallInv, LockedPCs, WritingPCs
  <1>3. \A d \in Callers \ {c} : pc'[d] = pc[d] /\ view'[d] = view[d]
    BY ReadRecord DEF Goto, Inv, TypeOK
  <1>4. UNCHANGED <<files, lock, copy, answer>>
    BY ReadRecord
  <1> QED
    BY <1>1, <1>2, <1>3, <1>4, GoingOn

LEMMA CrashInv ==
    ASSUME Inv, NEW c \in Callers, Crash(c)
    PROVE  Inv'
  <1>1. TypeOK'
    BY DEF Inv, TypeOK, Crash, Goto, PCs, Unlock
  <1>2. CallInv(c)'
    BY DEF Inv, TypeOK, CallInv, Crash, Goto, LockedPCs, WritingPCs
  <1> QED
    BY <1>1, <1>2, GoingOn DEF Crash, Goto, Unlock, Inv, TypeOK

\* The steps in which a call ends.
LEMMA EndingSteps ==
    ASSUME Inv, NEW c \in Callers,
           \/ Rejected(c) \/ CallbackRaises(c) \/ Close(c) \/ NotFound(c)
           \/ Fails(c) \/ FailsUnlocked(c)
    PROVE  Inv'
  <1>1. CASE Rejected(c) \/ CallbackRaises(c) \/ Close(c) \/ Fails(c)
    BY <1>1, Ending DEF Rejected, CallbackRaises, Close, Fails, AnswerUnlocked
  <1>2. CASE NotFound(c)
    BY <1>2, Ending DEF NotFound
  <1>3. CASE FailsUnlocked(c)
    BY <1>3, Ending DEF FailsUnlocked
  <1> QED
    BY <1>1, <1>2, <1>3

LEMMA StepInv ==
    ASSUME Inv, NEW c \in Callers, Step(c) \/ Fails(c) \/ FailsUnlocked(c) \/ Crash(c)
    PROVE  Inv'
  BY LockInv, PrepareInv, TemporaryInv, ReplaceInv, FoundInv, ReadInv, CrashInv, EndingSteps
     DEF Step

\* The invariant holds of every behaviour: only the holder of the lock is inside
\* create or mutate, and what it is going to write is the present record and its
\* own change.
THEOREM InvInvariant == Spec => []Inv
  <1>1. Inv /\ UNCHANGED vars => Inv'
    BY DEF Inv, TypeOK, StateIsWhole, CallInv, Content, vars
  <1>2. Inv /\ [Next]_vars => Inv'
    BY <1>1, StepInv DEF Next
  <1> QED
    BY <1>2, InitInv, PTL DEF Spec

\* state.json is never incomplete, so that get and iter_records need no lock: the
\* only step that touches it is os.replace, on a file that is complete.
THEOREM StateAlwaysWhole == Spec => []StateIsWhole
  <1>1. Inv => StateIsWhole
    BY DEF Inv
  <1> QED
    BY <1>1, InvInvariant, PTL

\* One step keeps the temporary files in the hands of those who make them.
LEMMA StepLeavesNoLitter ==
    ASSUME Inv, NoLitter, [Next]_vars
    PROVE  NoLitter'
  <1>0. SUFFICES ASSUME NEW d \in Callers, files'[d] # NoFile
                 PROVE  pc'[d] \in {"sync", "replace", "dead"}
    BY DEF NoLitter
  <1>1. CASE UNCHANGED vars
    BY <1>0, <1>1 DEF NoLitter, vars
  <1>2. ASSUME NEW c \in Callers, Step(c) \/ Fails(c) \/ FailsUnlocked(c) \/ Crash(c)
        PROVE  pc'[d] \in {"sync", "replace", "dead"}
    <2>0. d # State /\ d \in DOMAIN files /\ pc \in [Callers -> PCs]
      BY StateAssumption DEF Inv, TypeOK
    <2>1. CASE MakeTemporary(c)
      BY <1>0, <2>0, <2>1 DEF MakeTemporary, Scratch, Goto, NoLitter
    <2>2. CASE WriteTemporary(c)
      BY <1>0, <2>0, <2>2 DEF WriteTemporary, Scratch, Goto, NoLitter
    <2>3. CASE Replace(c)
      BY <1>0, <2>0, <2>3 DEF Replace, Goto, NoLitter
    <2>4. CASE Fails(c)
      BY <1>0, <2>0, <2>4 DEF Fails, AnswerUnlocked, Answer, Goto, NoLitter
    <2>5. CASE Crash(c)
      BY <1>0, <2>0, <2>5 DEF Crash, Goto, NoLitter
    <2>6. CASE Lock(c) \/ Prepare(c) \/ Found(c)
      BY <1>0, <2>0, <2>6 DEF Lock, Prepare, Found, Goto, NoLitter
    <2>7. CASE Rejected(c) \/ CallbackRaises(c) \/ Close(c) \/ NotFound(c) \/ FailsUnlocked(c)
      BY <1>0, <2>0, <2>7
      DEF Rejected, CallbackRaises, Close, NotFound, FailsUnlocked, AnswerUnlocked, Answer,
          Goto, NoLitter
    <2>8. CASE ReadState(c)
      BY <1>0, <2>0, <2>8 DEF ReadState, Answer, Goto, NoLitter
    <2> QED
      BY <1>2, <2>1, <2>2, <2>3, <2>4, <2>5, <2>6, <2>7, <2>8 DEF Step
  <1> QED
    BY <1>1, <1>2 DEF Next

\* A temporary file outlives its call only if the process was killed (the finally
\* clause of _atomic_write).
THEOREM NoLitterIsLeft == Spec => []NoLitter
  <1>1. Init => NoLitter
    BY StateAssumption DEF Init, NoLitter
  <1> QED
    BY <1>1, InvInvariant, StepLeavesNoLitter, PTL DEF Spec

-----------------------------------------------------------------------------
\* Refinement.

LEMMA EndingRefines ==
    ASSUME Inv, NEW c \in Callers, NEW a \in {"ok", "refused", "failed"}, Answer(c, a),
           pc[c] # "done", Content' = Content,
           a = "ok" => view[c] # <<>>,
           a = "refused" => /\ view[c] = <<>>
                            /\ c \in Creators => Content # <<>>
                            /\ c \in Readers => Content = <<>>
    PROVE  AtomicRecord!Next
  <1>1. answer[c] = "none"
    BY DEF Inv, CallInv
  <1>2. AtomicRecord!Answer(c, a)
    BY DEF AtomicRecord!Answer, Answer
  <1>3. AtomicRecord!Accept(c) \/ AtomicRecord!Refuse(c) \/ AtomicRecord!Fail(c)
    BY <1>2 DEF AtomicRecord!Accept, AtomicRecord!Refuse, AtomicRecord!Fail
  <1> QED
    BY <1>1, <1>3 DEF AtomicRecord!Next, AtomicRecord!Callers, Callers

LEMMA SilentRefines ==
    ASSUME files'[State] = files[State], UNCHANGED <<answer, view>>
    PROVE  UNCHANGED AtomicRecord!vars
  BY DEF AtomicRecord!vars, Content

LEMMA StepRefines ==
    ASSUME Inv, NEW c \in Callers, Step(c) \/ Fails(c) \/ FailsUnlocked(c) \/ Crash(c)
    PROVE  [AtomicRecord!Next]_(AtomicRecord!vars)
  <1>0. /\ CallInv(c) /\ State # c
        /\ files \in [Callers \cup {State} -> Seq(Callers) \cup {NoFile, Torn}]
    BY StateAssumption DEF Inv, TypeOK
  <1>1. CASE Lock(c) \/ Prepare(c) \/ Found(c) \/ Crash(c)
    BY <1>1, SilentRefines DEF Lock, Prepare, Found, Crash
  <1>2. CASE MakeTemporary(c) \/ WriteTemporary(c)
    BY <1>0, <1>2, SilentRefines DEF MakeTemporary, WriteTemporary, Scratch
  <1>3. CASE Rejected(c)
    <2>1. view[c] = <<>> /\ pc[c] = "locked" /\ (c \in Creators <=> Content # <<>>)
          /\ Content' = Content /\ c \in Writers
      BY <1>0, <1>3, ContentRecord DEF Rejected, Exists, Content, CallInv, LockedPCs
    <2> QED
      BY <1>3, <2>1, DisjointCallers, EndingRefines DEF Rejected, AnswerUnlocked, Writers
  <1>4. CASE CallbackRaises(c)
    <2>1. view[c] = <<>> /\ pc[c] = "locked" /\ Content' = Content
      BY <1>0, <1>4 DEF CallbackRaises, Content, CallInv
    <2> QED
      BY <1>4, <2>1, DisjointCallers, EndingRefines DEF CallbackRaises, AnswerUnlocked
  <1>5. CASE Replace(c)
    <2>1. answer[c] = "none" /\ UNCHANGED answer
      BY <1>0, <1>5 DEF CallInv, Replace
    <2>2. CASE c \in Creators
      <3>1. Content = <<>> /\ Content' = <<c>>
        <4>1. Append(<<>>, c) = <<c>>
          OBVIOUS
        <4> QED
          BY <1>5, <2>2, <4>1, Replaced, ContentRecord
      <3>2. AtomicRecord!Create(c)
        BY <1>5, <2>1, <2>2, <3>1, Replaced DEF AtomicRecord!Create
      <3> QED
        BY <2>1, <3>2 DEF AtomicRecord!Next, AtomicRecord!Callers, Callers
    <2>3. CASE c \in Changers
      <3>1. Content # <<>>
        BY <1>5, <2>3, DisjointCallers, Replaced, ContentRecord
      <3>2. AtomicRecord!Change(c)
        BY <1>5, <2>1, <2>3, <3>1, Replaced DEF AtomicRecord!Change
      <3> QED
        BY <2>1, <3>2 DEF AtomicRecord!Next, AtomicRecord!Callers, Callers
    <2> QED
      BY <1>5, <2>2, <2>3, Replaced DEF Writers
  <1>6. CASE Close(c)
    BY <1>0, <1>6, EndingRefines DEF Close, AnswerUnlocked, CallInv, Content
  <1>7. CASE NotFound(c)
    <2>1. view[c] = <<>> /\ Content = <<>> /\ Content' = Content
      BY <1>0, <1>7, ContentRecord DEF NotFound, Exists, CallInv, Content
    <2> QED
      BY <1>7, <2>1, DisjointCallers, EndingRefines DEF NotFound
  <1>8. CASE ReadState(c)
    <2>1. answer[c] = "none" /\ Content' = Content
      BY <1>0, <1>8, ReadRecord DEF CallInv, Content
    <2>2. AtomicRecord!Read(c)
      BY <1>8, <2>1, ReadRecord DEF AtomicRecord!Read
    <2> QED
      BY <2>1, <2>2 DEF AtomicRecord!Next, AtomicRecord!Callers, Callers
  <1>9. CASE Fails(c) \/ FailsUnlocked(c)
    <2>1. Content' = Content /\ pc[c] # "done" /\ Answer(c, "failed")
      BY <1>0, <1>9 DEF Fails, FailsUnlocked, AnswerUnlocked, Content, WritePCs
    <2> QED
      BY <2>1, EndingRefines
  <1> QED
    BY <1>1, <1>2, <1>3, <1>4, <1>5, <1>6, <1>7, <1>8, <1>9 DEF Step

\* The lock and the replaced file behave like one atomic record, with any number
\* of callers, readers without the lock, failures and kills.
THEOREM ImplementsAtomicRecord == Spec => AtomicRecordSpec
  <1>1. Init => AtomicRecord!Init
    BY DEF Init, AtomicRecord!Init, AtomicRecord!Callers, Callers, Content
  <1>2. Inv /\ [Next]_vars => [AtomicRecord!Next]_(AtomicRecord!vars)
    BY StepRefines, SilentRefines DEF Next, vars
  <1> QED
    BY <1>1, <1>2, InvInvariant, PTL DEF Spec, AtomicRecordSpec, AtomicRecord!Spec

\* The type invariant is part of the invariant.
THEOREM TypeCorrect == Spec => []TypeOK
  <1>1. Inv => TypeOK
    BY DEF Inv
  <1> QED
    BY <1>1, InvInvariant, PTL

-----------------------------------------------------------------------------
\* Counting the changes of a call.

\* A change of c, made on top of the record, counts for c and for nobody else.
LEMMA TimesAppend ==
    ASSUME Content \in Seq(Callers), NEW c \in Callers, Content' = Append(Content, c), NEW d
    PROVE  TimesApplied(d)' = IF d = c THEN TimesApplied(d) + 1 ELSE TimesApplied(d)
  <1> DEFINE s == Content
             t == Append(s, c)
             n == Len(s) + 1
             At == {i \in DOMAIN s : s[i] = d}
             Then == {i \in DOMAIN t : t[i] = d}
  <1>0. TimesApplied(d) = Cardinality(At) /\ TimesApplied(d)' = Cardinality(Then)
    BY DEF TimesApplied
  <1>1. s \in Seq(Callers) /\ Len(s) \in Nat /\ DOMAIN s = 1 .. Len(s)
    OBVIOUS
  <1> HIDE DEF s
  <1>2. DOMAIN t = 1 .. n /\ t[n] = c /\ \A i \in DOMAIN s : t[i] = s[i]
    BY <1>1
  <1>3. n \notin DOMAIN s /\ \A i : i \in DOMAIN t <=> i \in DOMAIN s \/ i = n
    BY <1>1, <1>2
  <1>4. IsFiniteSet(1 .. Len(s))
    BY <1>1, FS_Interval
  <1>5. IsFiniteSet(At)
    BY <1>1, <1>4, FS_Subset
  <1> HIDE DEF t, n
  <1>6. CASE d = c
    <2>1. Then = At \cup {n} /\ n \notin At
      BY <1>2, <1>3, <1>6
    <2> HIDE DEF At, Then
    <2>2. Cardinality(Then) = Cardinality(At) + 1
      BY <1>5, <2>1, FS_AddElement
    <2> QED
      BY <1>0, <1>6, <2>2
  <1>7. CASE d # c
    <2>1. Then = At
      BY <1>2, <1>3, <1>7
    <2> QED
      BY <1>0, <1>7, <2>1
  <1> QED
    BY <1>6, <1>7

\* A writer's change is in the record if and only if its os.replace was done.
CountInv(c) ==
    LET n == TimesApplied(c)
    IN  /\ n \in {0, 1}
        /\ pc[c] \in {"start"} \cup WritePCs \/ answer[c] \in {"refused", "failed"} => n = 0
        /\ pc[c] = "close" \/ answer[c] = "ok" => n = 1

Counts == \A c \in Writers : CountInv(c)

LEMMA StepFrame ==
    ASSUME Inv, NEW c \in Callers, Step(c) \/ Fails(c) \/ FailsUnlocked(c) \/ Crash(c),
           NEW d \in Callers, d # c
    PROVE  pc'[d] = pc[d] /\ answer'[d] = answer[d]
  BY DEF Inv, TypeOK, Step, Lock, Rejected, CallbackRaises, Prepare, MakeTemporary,
         WriteTemporary, Replace, Close, NotFound, Found, ReadState, Fails, FailsUnlocked,
         Crash, AnswerUnlocked, Answer, Goto

\* Only os.replace changes the record.
LEMMA ContentKept ==
    ASSUME Inv, NEW c \in Callers, Step(c) \/ Fails(c) \/ FailsUnlocked(c) \/ Crash(c),
           ~Replace(c)
    PROVE  files'[State] = files[State] /\ Content' = Content
  <1>1. State # c /\ files \in [Callers \cup {State} -> Seq(Callers) \cup {NoFile, Torn}]
    BY StateAssumption DEF Inv, TypeOK
  <1>2. CASE MakeTemporary(c) \/ WriteTemporary(c) \/ Fails(c)
    BY <1>1, <1>2 DEF MakeTemporary, WriteTemporary, Fails, Scratch, Content
  <1>3. CASE ~(MakeTemporary(c) \/ WriteTemporary(c) \/ Fails(c))
    BY <1>3 DEF Step, Lock, Rejected, CallbackRaises, Prepare, Close, NotFound, Found, ReadState,
                FailsUnlocked, Crash, Content
  <1> QED
    BY <1>2, <1>3

LEMMA OwnStepCounts ==
    ASSUME Inv, NEW c \in Writers, CountInv(c),
           Step(c) \/ Fails(c) \/ FailsUnlocked(c) \/ Crash(c)
    PROVE  CountInv(c)'
  <1>0. c \in Callers /\ CallInv(c) /\ c \notin Readers
    BY DisjointCallers DEF Inv, Callers, Writers
  <1>1. CASE Replace(c)
    <2>1. TimesApplied(c)' = TimesApplied(c) + 1
      BY <1>0, <1>1, Replaced, ContentRecord, TimesAppend
    <2>2. pc[c] = "replace" /\ pc'[c] = "close" /\ answer'[c] = "none"
      BY <1>0, <1>1 DEF Replace, Goto, CallInv, Inv, TypeOK
    <2>3. TimesApplied(c) = 0
      BY <2>2 DEF CountInv, WritePCs
    <2> QED
      BY <2>1, <2>2, <2>3 DEF CountInv, WritePCs
  <1>2. CASE ~Replace(c)
    <2>1. TimesApplied(c)' = TimesApplied(c)
      BY <1>0, <1>2, ContentKept DEF TimesApplied
    <2>2. CASE Close(c)
      <3>1. pc[c] = "close" /\ pc'[c] = "done" /\ answer'[c] = "ok"
        BY <1>0, <2>2 DEF Close, AnswerUnlocked, Answer, Goto, Inv, TypeOK
      <3> QED
        BY <2>1, <3>1 DEF CountInv, WritePCs
    <2>3. CASE Crash(c)
      <3>1. pc'[c] = "dead" /\ answer'[c] = answer[c]
        BY <1>0, <2>3 DEF Crash, Goto, Inv, TypeOK
      <3> QED
        BY <2>1, <3>1 DEF CountInv, WritePCs
    <2>4. CASE ~Close(c) /\ ~Crash(c)
      <3>1. \/ Lock(c) \/ Prepare(c) \/ MakeTemporary(c) \/ WriteTemporary(c)
            \/ Rejected(c) \/ CallbackRaises(c) \/ Fails(c) \/ FailsUnlocked(c)
        <4>1. ~NotFound(c) /\ ~Found(c) /\ ~ReadState(c)
          BY <1>0 DEF NotFound, Found, ReadState, CallInv
        <4> QED
          BY <1>2, <2>4, <4>1 DEF Step
      <3>2. pc[c] \in {"start"} \cup WritePCs /\ pc'[c] \in {"done"} \cup WritePCs
            /\ answer'[c] # "ok"
        <4>1. CASE Lock(c) \/ Prepare(c) \/ MakeTemporary(c) \/ WriteTemporary(c)
          BY <1>0, <4>1 DEF Lock, Prepare, MakeTemporary, WriteTemporary, WritePCs, CallInv,
                            Goto, Inv, TypeOK
        <4>2. CASE Rejected(c) \/ CallbackRaises(c) \/ Fails(c)
          BY <1>0, <4>2 DEF Rejected, CallbackRaises, Fails, WritePCs, AnswerUnlocked, Answer,
                            Goto, Inv, TypeOK
        <4>3. CASE FailsUnlocked(c)
          BY <1>0, <4>3 DEF FailsUnlocked, WritePCs, CallInv, Answer, Goto, Inv, TypeOK
        <4> QED
          BY <3>1, <4>1, <4>2, <4>3
      <3>3. TimesApplied(c) = 0
        BY <3>2 DEF CountInv
      <3> QED
        BY <2>1, <3>2, <3>3 DEF CountInv, WritePCs
    <2> QED
      BY <2>2, <2>3, <2>4
  <1> QED
    BY <1>1, <1>2

\* An exception means that the record was not changed, a normal return that it was,
\* once, for any number of calls, failures and kills (repositories.py 71-116).
THEOREM AnswersExact == Spec => []AnswersAreExact
  <1>1. ASSUME Init PROVE Counts
    <2>1. Content = <<>>
      BY <1>1 DEF Init, Content
    <2>2. \A c : TimesApplied(c) = 0
      <3>1. \A c : {i \in DOMAIN Content : Content[i] = c} = {}
        BY <2>1
      <3> QED
        BY <3>1, FS_EmptySet DEF TimesApplied
    <2> QED
      BY <1>1, <2>2 DEF Init, Counts, CountInv, Callers, Writers, WritePCs
  <1>2. ASSUME Inv, Counts, [Next]_vars PROVE Counts'
    <2>1. CASE UNCHANGED vars
      BY <1>2, <2>1 DEF Counts, CountInv, TimesApplied, Content, vars
    <2>2. ASSUME NEW c \in Callers, Step(c) \/ Fails(c) \/ FailsUnlocked(c) \/ Crash(c)
          PROVE  Counts'
      <3>1. ASSUME NEW d \in Writers, d = c PROVE CountInv(d)'
        BY <1>2, <2>2, <3>1, OwnStepCounts DEF Counts
      <3>2. ASSUME NEW d \in Writers, d # c PROVE CountInv(d)'
        <4>1. d \in Callers
          BY DEF Callers, Writers
        <4>2. TimesApplied(d)' = TimesApplied(d)
          <5>1. CASE Replace(c)
            BY <1>2, <3>2, <5>1, Replaced, ContentRecord, TimesAppend
          <5>2. CASE ~Replace(c)
            BY <1>2, <2>2, <5>2, ContentKept DEF TimesApplied
          <5> QED
            BY <5>1, <5>2
        <4> QED
          BY <1>2, <2>2, <3>2, <4>1, <4>2, StepFrame DEF Counts, CountInv
      <3> QED
        BY <3>1, <3>2 DEF Counts
    <2> QED
      BY <1>2, <2>1, <2>2 DEF Next
  <1>3. Counts => AnswersAreExact
    BY DEF Counts, CountInv, AnswersAreExact
  <1> QED
    BY <1>1, <1>2, <1>3, InvInvariant, PTL DEF Spec
=============================================================================
