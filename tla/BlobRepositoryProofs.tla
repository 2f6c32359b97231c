------------------------ MODULE BlobRepositoryProofs ------------------------
(***************************************************************************)
(* AzureBlobExperimentRepository implements AtomicRecord, for any number   *)
(* of calls and of tries.                                                  *)
(***************************************************************************)
EXTENDS BlobRepository, FiniteSetTheorems, TLAPS

IsPrefixOf(s, t) == Len(s) <= Len(t) /\ \A i \in 1 .. Len(s) : s[i] = t[i]

\* What a call in each of its places knows of the blob.
CallInv(c) ==
    /\ pc[c] = "done" <=> answer[c] # "none"
    /\ pc[c] = "start" /\ c \notin Changers => view[c] = <<>>
    /\ pc[c] = "upload" => c \in Changers /\ copy[c] # <<>> /\ IsPrefixOf(copy[c], blob)
    /\ pc[c] = "answer" => view[c] # <<>>
    /\ view[c] # <<>> /\ c \notin Readers => Applied(c)

Inv == TypeOK /\ \A c \in Callers : CallInv(c)

-----------------------------------------------------------------------------
\* A copy with the blob's ETag is the blob.
LEMMA SameETag ==
    ASSUME TypeOK, NEW c \in Callers, IsPrefixOf(copy[c], blob), ETag(copy[c]) = ETag(blob)
    PROVE  copy[c] = blob
  <1>1. copy[c] \in Seq(Callers) /\ blob \in Seq(Callers)
    BY DEF TypeOK
  <1> QED
    BY <1>1 DEF IsPrefixOf, ETag

\* Only upload c changes the blob, and it appends.
Appends(c) == blob' = Append(blob, c)

\* The invariant of the other calls survives a step of c.
LEMMA OthersKept ==
    ASSUME Inv, NEW c \in Callers, NEW d \in Callers, d # c,
           blob' = blob \/ Appends(c),
           pc'[d] = pc[d], copy'[d] = copy[d], answer'[d] = answer[d], view'[d] = view[d]
    PROVE  CallInv(d)'
  <1>1. blob \in Seq(Callers) /\ copy[d] \in Seq(Callers) /\ CallInv(d)
    BY DEF Inv, TypeOK
  <1>2. IsPrefixOf(copy[d], blob) => IsPrefixOf(copy[d], blob')
    <2>1. CASE blob' = blob
      BY <2>1
    <2>2. CASE Appends(c)
      <3>1. Len(blob') = Len(blob) + 1 /\ \A i \in 1 .. Len(blob) : blob'[i] = blob[i]
        BY <1>1, <2>2 DEF Appends
      <3> QED
        BY <1>1, <3>1 DEF IsPrefixOf
    <2> QED
      BY <2>1, <2>2
  <1>3. Applied(d) => Applied(d)'
    <2>1. CASE blob' = blob
      BY <2>1 DEF Applied
    <2>2. CASE Appends(c)
      BY <1>1, <2>2 DEF Appends, Applied
    <2> QED
      BY <2>1, <2>2
  <1> QED
    BY <1>1, <1>2, <1>3 DEF CallInv

LEMMA EmptyRecord == <<>> \in Seq(Callers)
  OBVIOUS

LEMMA AppendRecord ==
    ASSUME NEW b \in Seq(Callers), NEW c \in Callers
    PROVE  Append(b, c) \in Seq(Callers) /\ Append(b, c) # <<>>
  <1>1. Append(b, c) \in Seq(Callers) /\ Len(Append(b, c)) = Len(b) + 1
    OBVIOUS
  <1>2. Len(<<>>) = 0 /\ Len(b) \in Nat
    OBVIOUS
  <1> QED
    BY <1>1, <1>2

LEMMA InitInv == Init => Inv
  <1> SUFFICES ASSUME Init PROVE Inv
    OBVIOUS
  <1>1. TypeOK
    BY EmptyRecord, MaxTriesAssumption DEF Init, TypeOK
  <1>2. \A c \in Callers : CallInv(c)
    BY DEF Init, CallInv
  <1> QED
    BY <1>1, <1>2 DEF Inv

-----------------------------------------------------------------------------
\* A step of c in which its call ends.
LEMMA Ending ==
    ASSUME Inv, NEW c \in Callers, NEW a \in {"ok", "refused", "exhausted", "failed"},
           pc[c] # "done", Answer(c, a), UNCHANGED blob,
           lost' = lost \/ lost' = [lost EXCEPT ![c] = @ + 1]
    PROVE  Inv'
  <1>1. TypeOK'
    <2>1. lost' \in [Callers -> Nat]
      <3>1. lost \in [Callers -> Nat] /\ lost[c] + 1 \in Nat
        BY DEF Inv, TypeOK
      <3> QED
        BY <3>1
    <2>2. tries' \in [Callers -> 0 .. MaxTries - 1]
      <3>1. tries \in [Callers -> 0 .. MaxTries - 1] /\ 0 \in 0 .. MaxTries - 1
        BY MaxTriesAssumption DEF Inv, TypeOK
      <3> QED
        BY <3>1 DEF Answer
    <2> QED
      BY <2>1, <2>2, EmptyRecord DEF Inv, TypeOK, Answer, Goto
  <1>2. CallInv(c)'
    BY DEF Inv, TypeOK, CallInv, Answer, Goto
  <1>3. ASSUME NEW d \in Callers, d # c PROVE CallInv(d)'
    <2>1. pc'[d] = pc[d] /\ copy'[d] = copy[d] /\ answer'[d] = answer[d] /\ view'[d] = view[d]
      BY <1>3 DEF Inv, TypeOK, Answer, Goto
    <2> QED
      BY <1>3, <2>1, OthersKept
  <1> QED
    BY <1>1, <1>2, <1>3 DEF Inv

\* A step of c that writes or reads the record.
LEMMA Landing ==
    ASSUME Inv, NEW c \in Callers, NEW b, Land(c, b), UNCHANGED <<tries, lost>>,
           pc[c] # "done", b # <<>>,
           \/ c \in Readers /\ b = blob
           \/ b = Append(blob, c)
    PROVE  Inv'
  <1>1. TypeOK'
    <2>1. b \in Seq(Callers)
      BY AppendRecord DEF Inv, TypeOK
    <2> QED
      BY <2>1, EmptyRecord DEF Inv, TypeOK, Land, Goto
  <1>2. CallInv(c)'
    <2>1. c \notin Readers => Applied(c)'
      <3>1. SUFFICES ASSUME blob' = Append(blob, c) PROVE Applied(c)'
        BY DEF Land
      <3>2. Len(blob) + 1 \in DOMAIN blob' /\ blob'[Len(blob) + 1] = c
        BY <3>1 DEF Inv, TypeOK
      <3> QED
        BY <3>2 DEF Applied
    <2> QED
      BY <2>1 DEF Inv, TypeOK, CallInv, Land, Goto
  <1>3. ASSUME NEW d \in Callers, d # c PROVE CallInv(d)'
    <2>1. /\ pc'[d] = pc[d] /\ copy'[d] = copy[d] /\ answer'[d] = answer[d] /\ view'[d] = view[d]
          /\ blob' = blob \/ Appends(c)
      BY <1>3 DEF Inv, TypeOK, Land, Goto, Appends
    <2> QED
      BY <1>3, <2>1, OthersKept
  <1> QED
    BY <1>1, <1>2, <1>3 DEF Inv

\* A step of c from which mutate goes on with another download or its upload.
LEMMA GoingOn ==
    ASSUME Inv, NEW c \in Changers, NEW to \in {"start", "upload"}, Goto(c, to),
           pc[c] # "done",
           copy' = [copy EXCEPT ![c] = IF to = "start" THEN <<>> ELSE blob],
           to = "upload" => blob # <<>>,
           tries' = tries \/ (tries[c] + 1 < MaxTries /\ tries' = [tries EXCEPT ![c] = @ + 1]),
           lost' = lost \/ lost' = [lost EXCEPT ![c] = @ + 1],
           UNCHANGED <<blob, answer, view>>
    PROVE  Inv'
  <1>0. c \in Callers
    BY DEF Callers
  <1>1. TypeOK'
    <2>1. lost' \in [Callers -> Nat]
      <3>1. lost \in [Callers -> Nat] /\ lost[c] + 1 \in Nat
        BY <1>0 DEF Inv, TypeOK
      <3> QED
        BY <1>0, <3>1
    <2>2. tries' \in [Callers -> 0 .. MaxTries - 1]
      <3>1. /\ tries \in [Callers -> 0 .. MaxTries - 1]
            /\ tries[c] + 1 < MaxTries => tries[c] + 1 \in 0 .. MaxTries - 1
        BY <1>0, MaxTriesAssumption DEF Inv, TypeOK
      <3> QED
        BY <1>0, <3>1
    <2>3. copy' \in [Callers -> Seq(Callers)]
      BY <1>0, EmptyRecord DEF Inv, TypeOK
    <2> QED
      BY <1>0, <2>1, <2>2, <2>3 DEF Inv, TypeOK, Goto
  <1>2. CallInv(c)'
    <2>1. to = "upload" => IsPrefixOf(copy'[c], blob')
      BY <1>0 DEF Inv, TypeOK, IsPrefixOf
    <2>2. Applied(c) => Applied(c)'
      BY DEF Applied
    <2> QED
      BY <1>0, <2>1, <2>2 DEF Inv, TypeOK, CallInv, Goto
  <1>3. ASSUME NEW d \in Callers, d # c PROVE CallInv(d)'
    <2>1. pc'[d] = pc[d] /\ copy'[d] = copy[d]
      BY <1>0, <1>3 DEF Inv, TypeOK, Goto
    <2> QED
      BY <1>0, <1>3, <2>1, OthersKept
  <1> QED
    BY <1>1, <1>2, <1>3 DEF Inv

\* A refused upload, or a repeated one.
LEMMA NextRoundInv ==
    ASSUME Inv, NEW c \in Changers, pc[c] # "done", NextRound(c),
           lost' = lost \/ lost' = [lost EXCEPT ![c] = @ + 1]
    PROVE  Inv'
  <1>1. CASE tries[c] + 1 < MaxTries
    BY <1>1, GoingOn DEF NextRound
  <1>2. CASE ~(tries[c] + 1 < MaxTries)
    BY <1>2, Ending DEF NextRound, Callers
  <1> QED
    BY <1>1, <1>2

LEMMA StepInv ==
    ASSUME Inv, NEW c \in Callers, Step(c)
    PROVE  Inv'
  <1>0. TypeOK /\ CallInv(c)
    BY DEF Inv
  <1>1. CASE Create(c)
    <2>1. <<c>> = Append(blob, c) /\ <<c>> # <<>>
      BY <1>1 DEF Create, Exists
    <2> QED
      BY <1>1, <2>1, Landing DEF Create
  <1>2. CASE AlreadyExists(c) \/ NotFound(c) \/ CallbackRaises(c) \/ Return(c) \/ RequestFails(c)
    BY <1>2, Ending DEF AlreadyExists, NotFound, CallbackRaises, Return, RequestFails
  <1>3. CASE Get(c)
    BY <1>3, Landing DEF Get, Exists
  <1>4. CASE Download(c)
    <2>1. copy' = [copy EXCEPT ![c] = IF "upload" = "start" THEN <<>> ELSE blob]
      BY <1>4 DEF Download
    <2> QED
      BY <1>4, <2>1, GoingOn DEF Download, Exists
  <1>5. CASE Upload(c)
    <2>1. copy[c] = blob /\ blob \in Seq(Callers)
      BY <1>0, <1>5, SameETag DEF Upload, CallInv, TypeOK
    <2>2. Append(copy[c], c) = Append(blob, c) /\ Append(blob, c) # <<>>
      BY <2>1, AppendRecord
    <2> QED
      BY <1>5, <2>2, Landing DEF Upload
  <1>6. CASE Modified(c)
    BY <1>0, <1>6, NextRoundInv DEF Modified, CallInv
  <1>7. CASE AnswerLost(c) \/ CreateResent(c)
    BY <1>7, Ending DEF AnswerLost, CreateResent, LoseAnswer
  <1>8. CASE UploadResent(c)
    BY <1>8, NextRoundInv DEF UploadResent, LoseAnswer
  <1> QED
    BY <1>1, <1>2, <1>3, <1>4, <1>5, <1>6, <1>7, <1>8 DEF Step

\* The invariant holds of every behaviour: a copy that mutate holds is a prefix
\* of the blob, and a call that has something to return took effect.
THEOREM InvInvariant == Spec => []Inv
  <1>1. Inv /\ UNCHANGED vars => Inv'
    BY DEF Inv, TypeOK, CallInv, Applied, IsPrefixOf, vars
  <1>2. Inv /\ [Next]_vars => Inv'
    BY <1>1, StepInv DEF Next
  <1> QED
    BY <1>2, InitInv, PTL DEF Spec

-----------------------------------------------------------------------------
\* Refinement.

\* What other calls were told does not change when c appends its change.
LEMMA OthersTold ==
    ASSUME Inv, NEW c \in Callers, NEW d \in Callers, d # c,
           blob' = blob \/ Appends(c), answer'[d] = answer[d]
    PROVE  Told(d)' = Told(d)
  <1>1. Applied(d)' <=> Applied(d)
    <2>1. CASE blob' = blob
      BY <2>1 DEF Applied
    <2>2. CASE Appends(c)
      <3>1. blob \in Seq(Callers)
        BY DEF Inv, TypeOK
      <3>2. DOMAIN blob' = 1 .. Len(blob) + 1 /\ blob'[Len(blob) + 1] = c
            /\ \A i \in DOMAIN blob : blob'[i] = blob[i]
        BY <2>2, <3>1 DEF Appends
      <3> QED
        BY <3>1, <3>2 DEF Applied
    <2> QED
      BY <2>1, <2>2
  <1> QED
    BY <1>1 DEF Told

\* The end of a call is an answer of the atomic record.
LEMMA EndingRefines ==
    ASSUME Inv, NEW c \in Callers, NEW a \in {"ok", "refused", "exhausted", "failed"},
           pc[c] # "done", Answer(c, a), UNCHANGED blob,
           a = "ok" => view[c] # <<>>,
           a = "refused" /\ c \in Creators => blob # <<>>,
           a = "refused" /\ c \in Readers => blob = <<>> /\ view[c] = <<>>,
           a = "exhausted" => c \in Changers
    PROVE  AtomicRecord!Next
  <1>1. Told(c) = "none"
    BY DEF Inv, CallInv, Told
  <1>2. AtomicRecord!Answer(c, Told(c)')
    <2>1. Answers' = [Answers EXCEPT ![c] = Told(c)']
      BY OthersTold DEF Answers, Inv, TypeOK, Answer
    <2> QED
      BY <2>1 DEF AtomicRecord!Answer, Answers, Answer
  <1>3. AtomicRecord!Accept(c) \/ AtomicRecord!Refuse(c) \/ AtomicRecord!Fail(c)
    <2>1. answer'[c] = a
      BY DEF Inv, TypeOK, Answer
    <2>2. CASE a = "ok"
      BY <1>2, <2>1, <2>2 DEF AtomicRecord!Accept, Told
    <2>3. CASE a = "failed"
      BY <1>2, <2>1, <2>3 DEF AtomicRecord!Fail, Told
    <2>4. CASE a \in {"refused", "exhausted"} /\ Applied(c)'
      BY <1>2, <2>1, <2>4 DEF AtomicRecord!Fail, Told
    <2>5. CASE a \in {"refused", "exhausted"} /\ ~Applied(c)'
      <3>1. view[c] = <<>>
        BY <2>5, DisjointCallers DEF Inv, CallInv, Applied, Callers
      <3> QED
        BY <1>2, <2>1, <2>5, <3>1, DisjointCallers DEF AtomicRecord!Refuse, Told
    <2> QED
      BY <2>2, <2>3, <2>4, <2>5
  <1>4. Answers[c] = "none"
    BY <1>1 DEF Answers
  <1> QED
    BY <1>3, <1>4 DEF AtomicRecord!Next, AtomicRecord!Callers, Callers

\* Landing is a change or a read of the atomic record.
LEMMA LandingRefines ==
    ASSUME Inv, NEW c \in Callers, NEW b, Land(c, b), pc[c] # "done",
           \/ c \in Creators /\ blob = <<>> /\ b = <<c>>
           \/ c \in Changers /\ blob # <<>> /\ b = Append(blob, c)
           \/ c \in Readers /\ blob # <<>> /\ b = blob
    PROVE  AtomicRecord!Next
  <1>1. answer[c] = "none" /\ UNCHANGED answer /\ (blob' = blob \/ Appends(c))
    <2>1. <<c>> = Append(<<>>, c)
      OBVIOUS
    <2> QED
      BY <2>1 DEF Inv, CallInv, Land, Appends
  <1>2. Told(c) = "none" /\ Told(c)' = "none"
    BY <1>1 DEF Told
  <1>3. UNCHANGED Answers
    <2>1. \A d \in Callers : Told(d)' = Told(d)
      BY <1>1, <1>2, OthersTold
    <2> QED
      BY <2>1 DEF Answers
  <1>4. blob' = b /\ view' = [view EXCEPT ![c] = b]
    BY DEF Land
  <1>5. AtomicRecord!Create(c) \/ AtomicRecord!Change(c) \/ AtomicRecord!Read(c)
    BY <1>3, <1>4 DEF AtomicRecord!Create, AtomicRecord!Change, AtomicRecord!Read, Answers
  <1>6. Answers[c] = "none"
    BY <1>2 DEF Answers
  <1> QED
    BY <1>5, <1>6 DEF AtomicRecord!Next, AtomicRecord!Callers, Callers

LEMMA SilentRefines ==
    ASSUME UNCHANGED <<blob, answer, view>>
    PROVE  UNCHANGED AtomicRecord!vars
  <1>1. \A c \in Callers : Told(c)' = Told(c)
    BY DEF Told, Applied
  <1>2. UNCHANGED Answers
    BY <1>1 DEF Answers
  <1> QED
    BY <1>2 DEF AtomicRecord!vars

LEMMA NextRoundRefines ==
    ASSUME Inv, NEW c \in Changers, pc[c] # "done", NextRound(c)
    PROVE  [AtomicRecord!Next]_(AtomicRecord!vars)
  <1>1. CASE tries[c] + 1 < MaxTries
    BY <1>1, SilentRefines DEF NextRound
  <1>2. CASE ~(tries[c] + 1 < MaxTries)
    BY <1>2, EndingRefines DEF NextRound, Callers
  <1> QED
    BY <1>1, <1>2

LEMMA StepRefines ==
    ASSUME Inv, NEW c \in Callers, Step(c)
    PROVE  [AtomicRecord!Next]_(AtomicRecord!vars)
  <1>0. TypeOK /\ CallInv(c)
    BY DEF Inv
  <1>1. CASE Create(c)
    BY <1>1, LandingRefines DEF Create, Exists
  <1>2. CASE AlreadyExists(c)
    BY <1>2, DisjointCallers, EndingRefines DEF AlreadyExists, Exists
  <1>3. CASE Get(c)
    BY <1>3, LandingRefines DEF Get, Exists
  <1>4. CASE NotFound(c)
    BY <1>0, <1>4, DisjointCallers, EndingRefines DEF NotFound, Exists, CallInv
  <1>5. CASE Download(c)
    BY <1>5, SilentRefines DEF Download
  <1>6. CASE CallbackRaises(c)
    BY <1>0, <1>6, DisjointCallers, EndingRefines DEF CallbackRaises, CallInv
  <1>7. CASE Upload(c)
    <2>1. c \in Changers /\ copy[c] = blob /\ blob # <<>>
      BY <1>0, <1>7, SameETag DEF Upload, CallInv
    <2> QED
      BY <1>7, <2>1, LandingRefines DEF Upload
  <1>8. CASE Modified(c)
    BY <1>0, <1>8, NextRoundRefines DEF Modified, CallInv
  <1>9. CASE Return(c)
    BY <1>0, <1>9, EndingRefines DEF Return, CallInv
  <1>10. CASE RequestFails(c) \/ AnswerLost(c)
    BY <1>10, EndingRefines DEF RequestFails, AnswerLost, LoseAnswer
  <1>11. CASE CreateResent(c)
    <2>1. blob # <<>>
      BY <1>0, <1>11, DisjointCallers DEF CreateResent, LoseAnswer, CallInv, Applied, TypeOK
    <2> QED
      BY <1>11, <2>1, DisjointCallers, EndingRefines DEF CreateResent, LoseAnswer
  <1>12. CASE UploadResent(c)
    BY <1>12, NextRoundRefines DEF UploadResent, LoseAnswer
  <1> QED
    BY <1>1, <1>2, <1>3, <1>4, <1>5, <1>6, <1>7, <1>8, <1>9, <1>10, <1>11, <1>12 DEF Step

\* The blob with its conditional uploads behaves like one atomic record, with any
\* number of callers and tries, and whichever answers are lost.
THEOREM ImplementsAtomicRecord == Spec => AtomicRecordSpec
  <1>1. Init => AtomicRecord!Init
    BY DEF Init, AtomicRecord!Init, AtomicRecord!Callers, Callers, Answers, Told
  <1>2. Inv /\ [Next]_vars => [AtomicRecord!Next]_(AtomicRecord!vars)
    BY StepRefines, SilentRefines DEF Next, vars
  <1> QED
    BY <1>1, <1>2, InvInvariant, PTL DEF Spec, AtomicRecordSpec, AtomicRecord!Spec

-----------------------------------------------------------------------------
\* What a step of c leaves of the other calls, and does to the blob.

LEMMA StepFrame ==
    ASSUME Inv, NEW c \in Callers, Step(c), NEW d \in Callers, d # c
    PROVE  /\ pc'[d] = pc[d] /\ tries'[d] = tries[d] /\ copy'[d] = copy[d]
           /\ answer'[d] = answer[d]
  <1>1. CASE Create(c) \/ Get(c) \/ Upload(c)
    BY <1>1 DEF Create, Get, Upload, Land, Goto, Inv, TypeOK
  <1>2. CASE AlreadyExists(c) \/ NotFound(c) \/ CallbackRaises(c) \/ Return(c) \/ RequestFails(c)
    BY <1>2 DEF AlreadyExists, NotFound, CallbackRaises, Return, RequestFails, Answer, Goto,
                Inv, TypeOK
  <1>3. CASE AnswerLost(c) \/ CreateResent(c)
    BY <1>3 DEF AnswerLost, CreateResent, Answer, Goto, Inv, TypeOK
  <1>4. CASE Download(c)
    BY <1>4 DEF Download, Goto, Inv, TypeOK
  <1>5. CASE Modified(c) \/ UploadResent(c)
    BY <1>5 DEF Modified, UploadResent, NextRound, Answer, Goto, Inv, TypeOK
  <1> QED
    BY <1>1, <1>2, <1>3, <1>4, <1>5 DEF Step

LEMMA BlobGrows ==
    ASSUME Inv, NEW c \in Callers, Step(c)
    PROVE  blob' = blob \/ Appends(c)
  <1>0. TypeOK /\ CallInv(c)
    BY DEF Inv
  <1>1. CASE Create(c)
    <2>1. <<c>> = Append(<<>>, c)
      OBVIOUS
    <2> QED
      BY <1>1, <2>1 DEF Create, Land, Exists, Appends
  <1>2. CASE Upload(c)
    <2>1. copy[c] = blob
      BY <1>0, <1>2, SameETag DEF Upload, CallInv
    <2> QED
      BY <1>2, <2>1 DEF Upload, Land, Appends
  <1>3. CASE ~(Create(c) \/ Upload(c))
    BY <1>3 DEF Step, AlreadyExists, Get, NotFound, Download, CallbackRaises, Modified, Return,
                RequestFails, AnswerLost, CreateResent, UploadResent, NextRound, Land
  <1> QED
    BY <1>1, <1>2, <1>3

LEMMA Longer ==
    ASSUME Inv, NEW c \in Callers, Step(c)
    PROVE  /\ Len(blob) \in Nat /\ Len(blob') \in Nat /\ Len(blob) <= Len(blob')
           /\ Appends(c) => Len(blob') = Len(blob) + 1
  <1>1. blob \in Seq(Callers)
    BY DEF Inv, TypeOK
  <1>2. CASE blob' = blob
    <2>1. ~Appends(c)
      BY <1>1, <1>2 DEF Appends
    <2> QED
      BY <1>1, <1>2, <2>1
  <1>3. CASE Appends(c)
    BY <1>1, <1>3 DEF Appends
  <1> QED
    BY <1>2, <1>3, BlobGrows

\* The type invariant is part of the invariant.
THEOREM TypeCorrect == Spec => []TypeOK
  <1>1. Inv => TypeOK
    BY DEF Inv
  <1> QED
    BY <1>1, InvInvariant, PTL

-----------------------------------------------------------------------------
\* Counting the changes of a call.

LEMMA TimesCounts ==
    ASSUME TypeOK, NEW c
    PROVE  /\ TimesApplied(c) \in Nat
           /\ blob = <<>> => TimesApplied(c) = 0
           /\ Applied(c) => TimesApplied(c) >= 1
  <1> DEFINE At == {i \in DOMAIN blob : blob[i] = c}
  <1>1. blob \in Seq(Callers) /\ Len(blob) \in Nat /\ DOMAIN blob = 1 .. Len(blob)
    BY DEF TypeOK
  <1>2. IsFiniteSet(1 .. Len(blob))
    BY <1>1, FS_Interval
  <1>3. IsFiniteSet(At)
    BY <1>1, <1>2, FS_Subset
  <1>4. Cardinality(At) \in Nat /\ (Cardinality(At) = 0 <=> At = {})
    BY <1>3, FS_CardinalityType, FS_EmptySet
  <1>5. blob = <<>> => At = {}
    OBVIOUS
  <1>6. Applied(c) => At # {}
    BY DEF Applied
  <1> QED
    BY <1>4, <1>5, <1>6 DEF TimesApplied

\* An upload of c counts for c and for nobody else.
LEMMA TimesAppend ==
    ASSUME TypeOK, NEW c \in Callers, Appends(c), NEW d
    PROVE  TimesApplied(d)' = IF d = c THEN TimesApplied(d) + 1 ELSE TimesApplied(d)
  <1> DEFINE n == Len(blob) + 1
             At == {i \in DOMAIN blob : blob[i] = d}
             Next2 == {i \in DOMAIN blob' : blob'[i] = d}
  <1>1. blob \in Seq(Callers) /\ Len(blob) \in Nat /\ DOMAIN blob = 1 .. Len(blob)
    BY DEF TypeOK
  <1>2. DOMAIN blob' = 1 .. n /\ blob'[n] = c /\ \A i \in DOMAIN blob : blob'[i] = blob[i]
    BY <1>1 DEF Appends
  <1>3. n \notin DOMAIN blob /\ \A i : i \in DOMAIN blob' <=> i \in DOMAIN blob \/ i = n
    BY <1>1, <1>2
  <1>4. IsFiniteSet(1 .. Len(blob))
    BY <1>1, FS_Interval
  <1>5. IsFiniteSet(At)
    BY <1>1, <1>4, FS_Subset
  <1>6. CASE d = c
    <2>1. Next2 = At \cup {n}
      BY <1>2, <1>3, <1>6
    <2>2. n \notin At
      BY <1>3
    <2> HIDE DEF At, Next2, n
    <2>3. Cardinality(Next2) = Cardinality(At) + 1
      BY <1>5, <2>1, <2>2, FS_AddElement
    <2> QED
      BY <1>6, <2>3 DEF TimesApplied, At, Next2
  <1>7. CASE d # c
    <2>1. Next2 = At
      BY <1>2, <1>3, <1>7
    <2> QED
      BY <1>7, <2>1 DEF TimesApplied
  <1> QED
    BY <1>6, <1>7

\* A call has made at most one change more than it lost answers, and none more
\* unless that upload is still to be answered or was reported as done.
CountInv(c) ==
    LET n == TimesApplied(c)
    IN  /\ n <= lost[c] + 1
        /\ pc[c] \in {"start", "upload"} \/ answer[c] \in {"refused", "exhausted"} => n <= lost[c]
        /\ pc[c] = "answer" \/ answer[c] = "ok" => n >= 1

Counts == \A c \in Creators \cup Changers : CountInv(c)

\* The count and the losses of the other calls.
LEMMA OthersCount ==
    ASSUME Inv, NEW c \in Callers, Step(c), NEW d \in Callers, d # c
    PROVE  TimesApplied(d)' = TimesApplied(d) /\ lost'[d] = lost[d]
  <1>1. TimesApplied(d)' = TimesApplied(d)
    <2>1. CASE blob' = blob
      BY <2>1 DEF TimesApplied
    <2>2. CASE Appends(c)
      BY <2>2, TimesAppend DEF Inv
    <2> QED
      BY <2>1, <2>2, BlobGrows
  <1>2. UNCHANGED lost \/ LoseAnswer(c)
    BY DEF Step, Create, AlreadyExists, Get, NotFound, Download, CallbackRaises, Upload, Modified,
           Return, RequestFails, AnswerLost, CreateResent, UploadResent
  <1>3. lost'[d] = lost[d]
    BY <1>2 DEF LoseAnswer, Inv, TypeOK
  <1> QED
    BY <1>1, <1>3

\* What a step of c does to the count and the losses of c.
LEMMA OwnCount ==
    ASSUME Inv, NEW c \in Callers, Step(c)
    PROVE  /\ Create(c) \/ Upload(c) =>
                TimesApplied(c)' = TimesApplied(c) + 1 /\ lost'[c] = lost[c]
           /\ LoseAnswer(c) => TimesApplied(c)' = TimesApplied(c) /\ lost'[c] = lost[c] + 1
           /\ ~(Create(c) \/ Upload(c) \/ LoseAnswer(c)) =>
                TimesApplied(c)' = TimesApplied(c) /\ lost'[c] = lost[c]
  <1>0. TypeOK /\ CallInv(c)
    BY DEF Inv
  <1>1. CASE Create(c)
    <2>1. <<c>> = Append(<<>>, c)
      OBVIOUS
    <2>2. Appends(c) /\ UNCHANGED lost
      BY <1>1, <2>1 DEF Create, Land, Exists, Appends
    <2> QED
      BY <1>0, <1>1, <2>2, TimesAppend DEF Create, LoseAnswer
  <1>2. CASE Upload(c)
    <2>1. copy[c] = blob
      BY <1>0, <1>2, SameETag DEF Upload, CallInv
    <2>2. Appends(c) /\ UNCHANGED lost
      BY <1>2, <2>1 DEF Upload, Land, Appends
    <2> QED
      BY <1>0, <1>2, <2>2, TimesAppend DEF Upload, LoseAnswer
  <1>3. CASE ~(Create(c) \/ Upload(c))
    <2>1. blob' = blob
      BY <1>3 DEF Step, AlreadyExists, Get, NotFound, Download, CallbackRaises, Modified, Return,
                  RequestFails, AnswerLost, CreateResent, UploadResent, NextRound, Land
    <2>2. TimesApplied(c)' = TimesApplied(c)
      BY <2>1 DEF TimesApplied
    <2>3. LoseAnswer(c) => lost'[c] = lost[c] + 1
      BY <1>0 DEF LoseAnswer, TypeOK
    <2>4. ~LoseAnswer(c) => lost' = lost
      BY <1>3 DEF Step, AlreadyExists, Get, NotFound, Download, CallbackRaises, Modified, Return,
                  RequestFails, AnswerLost, CreateResent, UploadResent
    <2> QED
      BY <1>3, <2>2, <2>3, <2>4
  <1> QED
    BY <1>1, <1>2, <1>3

\* Where the next round leads.
LEMMA NextRoundEnds ==
    ASSUME Inv, NEW c \in Callers, NextRound(c)
    PROVE  \/ pc'[c] = "start" /\ answer'[c] = answer[c]
           \/ pc'[c] = "done" /\ answer'[c] = "exhausted"
  <1>1. CASE tries[c] + 1 < MaxTries
    BY <1>1 DEF NextRound, Goto, Inv, TypeOK
  <1>2. CASE ~(tries[c] + 1 < MaxTries)
    BY <1>2 DEF NextRound, Answer, Goto, Inv, TypeOK
  <1> QED
    BY <1>1, <1>2

LEMMA OwnStepCounts ==
    ASSUME Inv, NEW c \in Creators \cup Changers, CountInv(c), Step(c)
    PROVE  CountInv(c)'
  <1>0. /\ c \in Callers /\ TypeOK /\ CallInv(c)
        /\ TimesApplied(c) \in Nat /\ lost[c] \in Nat
    BY TimesCounts DEF Callers, Inv, TypeOK
  <1> DEFINE n == TimesApplied(c)
  <1>1. CASE Create(c) \/ Upload(c)
    <2>1. TimesApplied(c)' = n + 1 /\ lost'[c] = lost[c]
      BY <1>0, <1>1, OwnCount
    <2>2. pc[c] \in {"start", "upload"} /\ pc'[c] = "answer" /\ answer'[c] = "none"
      BY <1>0, <1>1 DEF Create, Upload, Land, Goto, CallInv, TypeOK
    <2>3. n <= lost[c]
      BY <2>2 DEF CountInv
    <2> HIDE DEF n
    <2> QED
      BY <1>0, <2>1, <2>2, <2>3 DEF CountInv, n
  <1>2. CASE LoseAnswer(c)
    <2>1. TimesApplied(c)' = n /\ lost'[c] = lost[c] + 1
      BY <1>0, <1>2, OwnCount
    <2>2. pc[c] = "answer" /\ answer[c] = "none"
      BY <1>0, <1>2 DEF LoseAnswer, CallInv
    <2>3. AnswerLost(c) \/ CreateResent(c) \/ UploadResent(c)
      <3>1. ~Return(c)
        BY <1>0, <2>1 DEF Return
      <3> QED
        BY <2>2, <3>1 DEF Step, Create, AlreadyExists, Get, NotFound, Download, CallbackRaises,
                          Upload, Modified, RequestFails
    <2>4. \/ pc'[c] = "start" /\ answer'[c] = "none"
          \/ pc'[c] = "done" /\ answer'[c] \in {"failed", "refused", "exhausted"}
      BY <1>0, <2>2, <2>3, NextRoundEnds
         DEF AnswerLost, CreateResent, UploadResent, Answer, Goto, TypeOK
    <2>5. n <= lost[c] + 1
      BY DEF CountInv
    <2> HIDE DEF n
    <2> QED
      BY <1>0, <2>1, <2>4, <2>5 DEF CountInv, n
  <1>3. CASE ~(Create(c) \/ Upload(c) \/ LoseAnswer(c))
    <2>1. TimesApplied(c)' = n /\ lost'[c] = lost[c]
      BY <1>0, <1>3, OwnCount
    <2>2. CASE Return(c)
      <3>1. pc[c] = "answer" /\ pc'[c] = "done" /\ answer'[c] = "ok"
        BY <1>0, <2>2 DEF Return, Answer, Goto, TypeOK
      <3>2. n >= 1 /\ n <= lost[c] + 1
        BY <3>1 DEF CountInv
      <3> HIDE DEF n
      <3> QED
        BY <2>1, <3>1, <3>2 DEF CountInv, n
    <2>3. CASE ~Return(c)
      <3>1. pc[c] \in {"start", "upload"}
        BY <1>3, <2>3 DEF Step, AlreadyExists, Get, NotFound, Download, CallbackRaises, Modified,
               RequestFails, AnswerLost, CreateResent, UploadResent
      <3>2. c \notin Readers
        BY DisjointCallers
      <3>3. pc'[c] \in {"start", "upload", "done"} /\ answer'[c] # "ok"
        BY <1>0, <1>3, <2>3, <3>1, <3>2, NextRoundEnds
           DEF Step, AlreadyExists, Get, NotFound, Download, CallbackRaises, Modified,
               RequestFails, AnswerLost, CreateResent, UploadResent, Answer, Goto, CallInv, TypeOK
      <3>4. n <= lost[c]
        BY <3>1 DEF CountInv
      <3> HIDE DEF n
      <3> QED
        BY <1>0, <2>1, <3>3, <3>4 DEF CountInv, n
    <2> QED
      BY <2>2, <2>3
  <1> QED
    BY <1>1, <1>2, <1>3

\* A change is made again, or refused although it was made, only if an answer to the
\* same call was lost, for any contention (repositories.py 141-190).
THEOREM RepeatsExplained == Spec => []RepeatsNeedLostAnswers
  <1>1. ASSUME Init PROVE Counts
    <2>1. TypeOK /\ blob = <<>>
      BY <1>1, InitInv DEF Inv, Init
    <2>2. \A c \in Callers : TimesApplied(c) = 0
      BY <2>1, TimesCounts
    <2> QED
      BY <1>1, <2>2 DEF Init, Counts, CountInv, Callers
  <1>2. ASSUME Inv, Counts, [Next]_vars PROVE Counts'
    <2>1. CASE UNCHANGED vars
      BY <1>2, <2>1 DEF Counts, CountInv, TimesApplied, vars
    <2>2. ASSUME NEW c \in Callers, Step(c) PROVE Counts'
      <3>1. ASSUME NEW d \in Creators \cup Changers PROVE CountInv(d)'
        <4>1. CASE d = c
          BY <1>2, <2>2, <4>1, OwnStepCounts DEF Counts
        <4>2. CASE d # c
          <5>1. d \in Callers
            BY DEF Callers
          <5> QED
            BY <1>2, <2>2, <4>2, <5>1, OthersCount, StepFrame DEF Counts, CountInv
        <4> QED
          BY <4>1, <4>2
      <3> QED
        BY <3>1 DEF Counts
    <2> QED
      BY <1>2, <2>1, <2>2 DEF Next
  <1>3. Inv /\ Counts => RepeatsNeedLostAnswers
    <2> SUFFICES ASSUME Inv, NEW c \in Creators \cup Changers, CountInv(c)
                 PROVE  /\ TimesApplied(c) <= 1 + lost[c]
                        /\ answer[c] \in {"refused", "exhausted"} => TimesApplied(c) <= lost[c]
                        /\ answer[c] = "ok" => TimesApplied(c) >= 1
      BY DEF Counts, RepeatsNeedLostAnswers
    <2>1. TimesApplied(c) \in Nat /\ lost[c] \in Nat
      BY TimesCounts DEF Inv, TypeOK, Callers
    <2> QED
      BY <2>1 DEF CountInv
  <1> QED
    BY <1>1, <1>2, <1>3, InvInvariant, PTL DEF Spec

-----------------------------------------------------------------------------
\* Rounds of mutate.

LEMMA OthersCounted ==
    ASSUME TypeOK, NEW c
    PROVE  /\ IsFiniteSet({i \in DOMAIN blob : blob[i] # c})
           /\ ChangesByOthers(c) \in Nat
           /\ blob # <<>> /\ blob[1] # c => ChangesByOthers(c) >= 1
  <1> DEFINE At == {i \in DOMAIN blob : blob[i] # c}
  <1>1. blob \in Seq(Callers) /\ Len(blob) \in Nat /\ DOMAIN blob = 1 .. Len(blob)
    BY DEF TypeOK
  <1>2. IsFiniteSet(At)
    <2>1. IsFiniteSet(DOMAIN blob)
      BY <1>1, FS_Interval
    <2> QED
      BY <2>1, FS_Subset
  <1>3. Cardinality(At) \in Nat /\ (Cardinality(At) = 0 <=> At = {})
    BY <1>2, FS_CardinalityType, FS_EmptySet
  <1>4. blob # <<>> /\ blob[1] # c => 1 \in At
    BY <1>1
  <1> QED
    BY <1>2, <1>3, <1>4 DEF ChangesByOthers

\* An upload of c is a change by another for everybody but c.
LEMMA OthersAppend ==
    ASSUME TypeOK, NEW c \in Callers, Appends(c), NEW d
    PROVE  ChangesByOthers(d)' = IF d = c THEN ChangesByOthers(d) ELSE ChangesByOthers(d) + 1
  <1> DEFINE n == Len(blob) + 1
             At == {i \in DOMAIN blob : blob[i] # d}
             Next2 == {i \in DOMAIN blob' : blob'[i] # d}
  <1>1. blob \in Seq(Callers) /\ Len(blob) \in Nat /\ DOMAIN blob = 1 .. Len(blob)
    BY DEF TypeOK
  <1>2. DOMAIN blob' = 1 .. n /\ blob'[n] = c /\ \A i \in DOMAIN blob : blob'[i] = blob[i]
    BY <1>1 DEF Appends
  <1>3. n \notin DOMAIN blob /\ \A i : i \in DOMAIN blob' <=> i \in DOMAIN blob \/ i = n
    BY <1>1, <1>2
  <1>4. IsFiniteSet(At)
    BY OthersCounted
  <1>5. CASE d # c
    <2>1. Next2 = At \cup {n}
      BY <1>2, <1>3, <1>5
    <2>2. n \notin At
      BY <1>3
    <2> HIDE DEF At, Next2, n
    <2>3. Cardinality(Next2) = Cardinality(At) + 1
      BY <1>4, <2>1, <2>2, FS_AddElement
    <2> QED
      BY <1>5, <2>3 DEF ChangesByOthers, At, Next2
  <1>6. CASE d = c
    <2>1. Next2 = At
      BY <1>2, <1>3, <1>6
    <2> QED
      BY <1>6, <2>1 DEF ChangesByOthers
  <1> QED
    BY <1>5, <1>6

\* What stands for the rounds c has lost: changes by others, and its own lost answers.
Excuses(c) == ChangesByOthers(c) + lost[c]

\* One excuse, the creation, is there before the first round; each lost round takes one
\* more, and so does each change since the copy of this round was downloaded.
RoundInv(c) ==
    /\ pc[c] = "start" => tries[c] = 0 \/ tries[c] + 1 <= Excuses(c)
    /\ pc[c] = "upload" => tries[c] + 1 + (Len(blob) - Len(copy[c])) <= Excuses(c)
    /\ pc[c] = "answer" => tries[c] + 1 <= Excuses(c)
    /\ answer[c] = "exhausted" => MaxTries + 1 <= Excuses(c)

CreatedFirst == blob # <<>> => blob[1] \notin Changers

Rounds == CreatedFirst /\ \A c \in Changers : RoundInv(c)

LEMMA ExcusesType ==
    ASSUME TypeOK, NEW c \in Changers
    PROVE  /\ c \in Callers /\ Excuses(c) \in Nat /\ lost[c] \in Nat /\ tries[c] \in Nat
           /\ ChangesByOthers(c) \in Nat
           /\ blob \in Seq(Callers) /\ Len(blob) \in Nat
           /\ copy[c] \in Seq(Callers) /\ Len(copy[c]) \in Nat
  <1>1. c \in Callers
    BY DEF Callers
  <1>2. lost[c] \in Nat /\ tries[c] \in Nat /\ blob \in Seq(Callers) /\ copy[c] \in Seq(Callers)
    BY <1>1, MaxTriesAssumption DEF TypeOK
  <1>3. ChangesByOthers(c) \in Nat
    BY OthersCounted
  <1> QED
    BY <1>1, <1>2, <1>3 DEF Excuses

LEMMA OneMore ==
    ASSUME NEW t \in Nat, NEW l \in Nat, NEW k \in Nat, NEW x \in Nat, t + 1 + (l - k) <= x
    PROVE  t + 1 + ((l + 1) - k) <= x + 1
  OBVIOUS

\* A step of another call adds an excuse if it changes the blob.
LEMMA OthersRounds ==
    ASSUME Inv, NEW c \in Callers, Step(c), NEW d \in Changers, d # c, RoundInv(d)
    PROVE  RoundInv(d)'
  <1>1. /\ TypeOK /\ d \in Callers /\ Excuses(d) \in Nat /\ lost[d] \in Nat /\ tries[d] \in Nat
        /\ ChangesByOthers(d) \in Nat /\ Len(blob) \in Nat /\ Len(copy[d]) \in Nat
        /\ MaxTries \in Nat
    BY ExcusesType, MaxTriesAssumption DEF Inv
  <1>2. /\ pc'[d] = pc[d] /\ tries'[d] = tries[d] /\ copy'[d] = copy[d]
        /\ answer'[d] = answer[d] /\ lost'[d] = lost[d]
    BY <1>1, StepFrame, OthersCount
  <1>3. CASE blob' = blob
    <2>1. Excuses(d)' = Excuses(d)
      BY <1>2, <1>3 DEF Excuses, ChangesByOthers
    <2> QED
      BY <1>2, <1>3, <2>1 DEF RoundInv
  <1>4. CASE Appends(c)
    <2>1. ChangesByOthers(d)' = ChangesByOthers(d) + 1
      BY <1>1, <1>4, OthersAppend
    <2>2. Excuses(d)' = Excuses(d) + 1
      BY <1>1, <1>2, <2>1 DEF Excuses
    <2>3. Len(blob') = Len(blob) + 1
      BY <1>4, Longer
    <2>4. pc'[d] = "start" => tries'[d] = 0 \/ tries'[d] + 1 <= Excuses(d)'
      BY <1>1, <1>2, <2>2 DEF RoundInv
    <2>5. pc'[d] = "upload" =>
            tries'[d] + 1 + (Len(blob') - Len(copy'[d])) <= Excuses(d)'
      <3>1. SUFFICES ASSUME pc'[d] = "upload"
                     PROVE  tries'[d] + 1 + (Len(blob') - Len(copy'[d])) <= Excuses(d)'
        OBVIOUS
      <3>2. tries[d] + 1 + (Len(blob) - Len(copy[d])) <= Excuses(d)
        BY <1>2, <3>1 DEF RoundInv
      <3>3. tries[d] + 1 + ((Len(blob) + 1) - Len(copy[d])) <= Excuses(d) + 1
        BY <1>1, <3>2, OneMore
      <3> QED
        BY <1>2, <2>2, <2>3, <3>3
    <2>6. /\ pc'[d] = "answer" => tries'[d] + 1 <= Excuses(d)'
          /\ answer'[d] = "exhausted" => MaxTries + 1 <= Excuses(d)'
      BY <1>1, <1>2, <2>2 DEF RoundInv
    <2> QED
      BY <2>4, <2>5, <2>6 DEF RoundInv
  <1> QED
    BY <1>3, <1>4, BlobGrows

\* The next round, for which there is one excuse more than for the last.
LEMMA NextRoundRounds ==
    ASSUME Inv, NEW c \in Changers, NextRound(c), pc[c] # "done",
           Excuses(c)' \in Nat, tries[c] + 2 <= Excuses(c)'
    PROVE  RoundInv(c)'
  <1>0. c \in Callers /\ tries[c] \in Nat /\ MaxTries \in Nat /\ answer[c] = "none"
    BY MaxTriesAssumption DEF Callers, Inv, TypeOK, CallInv
  <1>1. CASE tries[c] + 1 < MaxTries
    <2>1. pc'[c] = "start" /\ tries'[c] = tries[c] + 1 /\ answer'[c] = "none"
      BY <1>0, <1>1 DEF NextRound, Goto, Inv, TypeOK
    <2>2. tries'[c] + 1 <= Excuses(c)'
      BY <1>0, <2>1
    <2> QED
      BY <2>1, <2>2 DEF RoundInv
  <1>2. CASE ~(tries[c] + 1 < MaxTries)
    <2>1. pc'[c] = "done"
      BY <1>0, <1>2 DEF NextRound, Answer, Goto, Inv, TypeOK
    <2>2. MaxTries + 1 <= Excuses(c)'
      BY <1>0, <1>2
    <2> QED
      BY <2>1, <2>2 DEF RoundInv
  <1> QED
    BY <1>1, <1>2

\* A step of c itself.
LEMMA OwnRounds ==
    ASSUME Inv, CreatedFirst, NEW c \in Changers, Step(c), RoundInv(c)
    PROVE  RoundInv(c)'
  <1>0. /\ TypeOK /\ CallInv(c) /\ c \in Callers /\ c \notin Creators /\ c \notin Readers
        /\ Excuses(c) \in Nat /\ lost[c] \in Nat /\ tries[c] \in Nat
        /\ ChangesByOthers(c) \in Nat /\ Len(blob) \in Nat /\ Len(copy[c]) \in Nat
    BY ExcusesType, DisjointCallers DEF Inv
  <1>1. CASE Upload(c)
    <2>1. copy[c] = blob /\ pc[c] = "upload"
      BY <1>0, <1>1, SameETag DEF Upload, CallInv
    <2>2. Appends(c) /\ pc'[c] = "answer" /\ tries'[c] = tries[c] /\ answer'[c] = "none"
          /\ lost'[c] = lost[c]
      BY <1>0, <1>1, <2>1 DEF Upload, Land, Goto, CallInv, Appends, TypeOK
    <2>3. Excuses(c)' = Excuses(c)
      BY <1>0, <2>2, OthersAppend DEF Excuses
    <2>4. tries[c] + 1 <= Excuses(c)
      BY <1>0, <2>1 DEF RoundInv
    <2> QED
      BY <2>2, <2>3, <2>4 DEF RoundInv
  <1>2. ASSUME ~Upload(c) PROVE blob' = blob /\ ChangesByOthers(c)' = ChangesByOthers(c)
    <2>1. blob' = blob
      BY <1>0, <1>2 DEF Step, Create, AlreadyExists, Get, NotFound, Download, CallbackRaises,
             Modified, Return, RequestFails, AnswerLost, CreateResent, UploadResent, NextRound
    <2> QED
      BY <2>1 DEF ChangesByOthers
  <1>3. CASE Download(c)
    <2>1. /\ pc'[c] = "upload" /\ copy'[c] = blob /\ tries'[c] = tries[c] /\ answer'[c] = "none"
          /\ blob # <<>> /\ pc[c] = "start" /\ lost'[c] = lost[c] /\ ~Upload(c)
      BY <1>0, <1>3 DEF Download, Upload, Goto, CallInv, TypeOK, Exists
    <2>2. ChangesByOthers(c) >= 1
      BY <1>0, <2>1, OthersCounted DEF CreatedFirst
    <2>3. Excuses(c)' = Excuses(c) /\ Excuses(c) >= 1
      BY <1>0, <1>2, <2>1, <2>2 DEF Excuses
    <2>4. tries[c] + 1 <= Excuses(c)
      BY <1>0, <2>1, <2>3 DEF RoundInv
    <2>5. tries'[c] + 1 + (Len(blob') - Len(copy'[c])) <= Excuses(c)'
      BY <1>0, <1>2, <2>1, <2>3, <2>4
    <2> QED
      BY <2>1, <2>5 DEF RoundInv
  <1>4. CASE Modified(c)
    <2>1. pc[c] = "upload" /\ Len(copy[c]) < Len(blob) /\ lost' = lost /\ ~Upload(c)
      BY <1>0, <1>4 DEF Modified, Upload, CallInv, IsPrefixOf, ETag
    <2>2. Excuses(c)' = Excuses(c)
      BY <1>2, <2>1 DEF Excuses
    <2>3. tries[c] + 2 <= Excuses(c)
      BY <1>0, <2>1 DEF RoundInv
    <2> QED
      BY <1>0, <1>4, <2>1, <2>2, <2>3, NextRoundRounds DEF Modified
  <1>5. CASE UploadResent(c)
    <2>1. pc[c] = "answer" /\ lost'[c] = lost[c] + 1 /\ ~Upload(c)
      BY <1>0, <1>5 DEF UploadResent, LoseAnswer, Upload, TypeOK
    <2>2. Excuses(c)' = Excuses(c) + 1
      BY <1>0, <1>2, <2>1 DEF Excuses
    <2>3. tries[c] + 2 <= Excuses(c)'
      BY <1>0, <2>1, <2>2 DEF RoundInv
    <2>4. Excuses(c)' \in Nat
      BY <1>0, <2>2
    <2> QED
      BY <1>5, <2>1, <2>3, <2>4, NextRoundRounds DEF UploadResent
  <1>6. CASE ~(Upload(c) \/ Download(c) \/ Modified(c) \/ UploadResent(c))
    <2>1. pc'[c] = "done" /\ answer'[c] # "exhausted"
      BY <1>0, <1>6 DEF Step, Create, Get, AlreadyExists, NotFound, CallbackRaises, Return,
                        RequestFails, AnswerLost, CreateResent, Answer, Goto, TypeOK
    <2> QED
      BY <2>1 DEF RoundInv
  <1> QED
    BY <1>1, <1>3, <1>4, <1>5, <1>6

\* The first change of the blob is its creation, for ever.
LEMMA CreatedFirstKept ==
    ASSUME Inv, CreatedFirst, NEW c \in Callers, Step(c)
    PROVE  CreatedFirst'
  <1>0. TypeOK /\ CallInv(c) /\ blob \in Seq(Callers) /\ Len(blob) \in Nat
    BY DEF Inv, TypeOK
  <1>1. CASE blob' = blob
    BY <1>1 DEF CreatedFirst
  <1>2. CASE Appends(c) /\ blob # <<>>
    <2>1. blob'[1] = blob[1]
      BY <1>0, <1>2 DEF Appends
    <2> QED
      BY <1>2, <2>1 DEF CreatedFirst
  <1>3. CASE Appends(c) /\ blob = <<>>
    <2>1. blob' # blob
      BY <1>0, <1>3, AppendRecord DEF Appends
    <2>2. Create(c)
      <3>1. ~Upload(c)
        BY <1>0, <1>3, SameETag DEF Upload, CallInv
      <3> QED
        BY <2>1, <3>1 DEF Step, AlreadyExists, Get, NotFound, Download, CallbackRaises, Modified,
              Return, RequestFails, AnswerLost, CreateResent, UploadResent, NextRound, Land
    <2>3. blob' = <<c>> /\ c \notin Changers
      BY <2>2, DisjointCallers DEF Create, Land
    <2> QED
      BY <2>3 DEF CreatedFirst
  <1> QED
    BY <1>1, <1>2, <1>3, BlobGrows

\* mutate raises "concurrent updates did not converge" only after as many changes of the
\* record by others, its creation not counted, and lost answers of its own as it has
\* rounds, whatever the contention (repositories.py 171-190).
THEOREM GivingUp == Spec => []GivingUpNeedsWrites
  <1>1. Init => Rounds
    BY MaxTriesAssumption DEF Init, Rounds, RoundInv, CreatedFirst, Callers
  <1>2. ASSUME Inv, Rounds, [Next]_vars PROVE Rounds'
    <2>1. CASE UNCHANGED vars
      BY <1>2, <2>1 DEF Rounds, RoundInv, CreatedFirst, Excuses, ChangesByOthers, vars
    <2>2. ASSUME NEW c \in Callers, Step(c) PROVE Rounds'
      <3>1. CreatedFirst'
        BY <1>2, <2>2, CreatedFirstKept DEF Rounds
      <3>2. ASSUME NEW d \in Changers PROVE RoundInv(d)'
        BY <1>2, <2>2, <3>2, OwnRounds, OthersRounds DEF Rounds
      <3> QED
        BY <3>1, <3>2 DEF Rounds
    <2> QED
      BY <1>2, <2>1, <2>2 DEF Next
  <1>3. Inv /\ Rounds => GivingUpNeedsWrites
    <2> SUFFICES ASSUME Inv, Rounds, NEW c \in Changers, answer[c] = "exhausted"
                 PROVE  ChangesByOthers(c) - 1 + lost[c] >= MaxTries
      BY DEF GivingUpNeedsWrites
    <2>1. ChangesByOthers(c) \in Nat /\ lost[c] \in Nat /\ MaxTries \in Nat
      BY ExcusesType, MaxTriesAssumption DEF Inv
    <2> QED
      BY <2>1 DEF Rounds, RoundInv, Excuses
  <1> QED
    BY <1>1, <1>2, <1>3, InvInvariant, PTL DEF Spec
=============================================================================
