------------------------- MODULE RecordCreateProofs -------------------------
(***************************************************************************)
(* Proofs about RecordCreate, for any number of creators, and about the    *)
(* page that has a new record created, ClientEdits, for any fields and any *)
(* number of writes, refetches and faults.                                 *)
(***************************************************************************)
EXTENDS RecordCreate, ClientEdits, SequenceTheorems, FiniteSetTheorems, TLAPS

\* A creator about to insert holds the number after one that is taken, or the
\* first: only the end of the event takes numbers back.
PendingInv ==
  \A r \in Requests : pc[r] = "insert" =>
    /\ number[r] > 0
    /\ eventExists => number[r] = 1 \/ number[r] - 1 \in Taken

\* A stored record's creator is past its insert and remembers the number.
OwnerInv ==
  /\ \A x \in records : pc[x.by] \in {"fill", "done"} /\ number[x.by] = x.number
  /\ \A r \in Requests :
       /\ pc[r] = "fill" /\ eventExists => [number |-> number[r], by |-> r] \in records
       /\ reply[r] = "created" => pc[r] = "done"

IInv == TypeOK /\ PendingInv /\ OwnerInv /\ NumbersConsecutive /\ CreatedOnce

\* Each step of the module, named: the case split of the proofs below.
LEMMA StepCases ==
  ASSUME [Next]_vars
  PROVE  \/ \E r \in Requests :
              \/ NextNumber(r) \/ Insert(r) \/ InsertDuplicate(r)
              \/ Fill(r) \/ FillFails(r) \/ DatabaseError(r)
         \/ DeleteEvent
         \/ UNCHANGED vars
BY DEF Next, Handle, Finished

LEMMA InitIInv == Init => IInv
BY AllocAssumption
   DEF Init, IInv, TypeOK, PendingInv, OwnerInv, NumbersConsecutive, CreatedOnce,
       Taken, Steps, Replies

LEMMA NextTypeOK == TypeOK /\ PendingInv /\ [Next]_vars => TypeOK'
<1> SUFFICES ASSUME TypeOK, PendingInv, [Next]_vars
             PROVE  TypeOK'
    OBVIOUS
<1> USE DEF TypeOK, Steps, Replies, Answer, vars
<1>1. ASSUME NEW r \in Requests, NextNumber(r)
      PROVE  TypeOK'
  <2>1. Taken \subseteq Nat
    BY DEF Taken, Record
  <2> QED
    BY <1>1, <2>1 DEF NextNumber
<1>2. ASSUME NEW r \in Requests, Insert(r)
      PROVE  TypeOK'
  <2>1. [number |-> number[r], by |-> r] \in Record
    BY <1>2 DEF Insert, PendingInv, Record
  <2> QED
    BY <1>2, <2>1 DEF Insert
<1>3. ASSUME NEW r \in Requests, InsertDuplicate(r)
      PROVE  TypeOK'
  <2>1. attempt[r] < MaxNumberAllocAttempts => attempt[r] + 1 \in 1 .. MaxNumberAllocAttempts
    BY AllocAssumption
  <2> QED
    BY <1>3, <2>1 DEF InsertDuplicate
<1>4. ASSUME NEW r \in Requests, Fill(r) \/ FillFails(r) \/ DatabaseError(r)
      PROVE  TypeOK'
  BY <1>4, AllocAssumption DEF Fill, FillFails, DatabaseError
<1>5. CASE DeleteEvent \/ UNCHANGED vars
  BY <1>5 DEF DeleteEvent
<1> QED
  BY <1>1, <1>2, <1>3, <1>4, <1>5, StepCases

\* An insert takes one number more.
LEMMA TakenAfterInsert ==
  ASSUME NEW n, NEW b, records' = records \cup {[number |-> n, by |-> b]}
  PROVE  Taken' = Taken \cup {n}
<1> DEFINE x == [number |-> n, by |-> b]
<1>1. x.number = n
  OBVIOUS
<1>2. records' = records \cup {x}
  OBVIOUS
<1> HIDE DEF x
<1>3. Taken' \subseteq Taken \cup {n}
  BY <1>1, <1>2 DEF Taken
<1>4. Taken \subseteq Taken' /\ n \in Taken'
  BY <1>1, <1>2 DEF Taken
<1> QED
  BY <1>3, <1>4

LEMMA NextIInv == IInv /\ [Next]_vars => IInv'
<1> SUFFICES ASSUME IInv, [Next]_vars
             PROVE  /\ PendingInv' /\ OwnerInv'
                    /\ NumbersConsecutive' /\ CreatedOnce'
    BY NextTypeOK DEF IInv
<1> USE DEF IInv, TypeOK, PendingInv, OwnerInv, NumbersConsecutive, CreatedOnce,
            Answer, Taken, Record, vars
<1>1. ASSUME NEW r \in Requests, NextNumber(r)
      PROVE  PendingInv' /\ OwnerInv' /\ NumbersConsecutive' /\ CreatedOnce'
  <2>1. PICK m \in {0} \cup Taken : number' = [number EXCEPT ![r] = m + 1]
    BY <1>1 DEF NextNumber
  <2>2. UNCHANGED <<records, eventExists, reply, filled>> /\ pc' = [pc EXCEPT ![r] = "insert"]
        /\ pc[r] = "next"
    BY <1>1 DEF NextNumber
  <2>3. m \in Nat /\ (m + 1 = 1 \/ m + 1 - 1 \in Taken)
    BY DEF Taken
  <2>4. PendingInv'
    BY <2>1, <2>2, <2>3
  <2>5. OwnerInv' /\ NumbersConsecutive' /\ CreatedOnce'
    BY <2>1, <2>2
  <2> QED
    BY <2>4, <2>5
<1>2. ASSUME NEW r \in Requests, Insert(r)
      PROVE  PendingInv' /\ OwnerInv' /\ NumbersConsecutive' /\ CreatedOnce'
  <2> DEFINE x == [number |-> number[r], by |-> r]
  <2>1. /\ records' = records \cup {x} /\ number[r] \notin Taken
        /\ number[r] = 1 \/ number[r] - 1 \in Taken
        /\ UNCHANGED <<eventExists, filled, number>>
        /\ pc[r] = "insert"
        /\ pc' = [pc EXCEPT ![r] = "fill"] \/ pc' = [pc EXCEPT ![r] = "done"]
        /\ reply' = reply \/ reply' = [reply EXCEPT ![r] = "error"]
    BY <1>2 DEF Insert
  <2>2. Taken' = Taken \cup {number[r]}
    BY <2>1, TakenAfterInsert
  <2>3. \A y \in records : y.by # r /\ y.number # number[r]
    BY <2>1
  <2>4. PendingInv'
    BY <2>1, <2>2
  <2>5. OwnerInv'
    BY <1>2, <2>1, <2>3 DEF Insert
  <2>6. NumbersConsecutive'
    BY <2>1, <2>2, <2>3
  <2>7. CreatedOnce'
    BY <2>1, <2>3
  <2> QED
    BY <2>4, <2>5, <2>6, <2>7
<1>3. ASSUME NEW r \in Requests,
             InsertDuplicate(r) \/ Fill(r) \/ FillFails(r) \/ DatabaseError(r)
      PROVE  PendingInv' /\ OwnerInv' /\ NumbersConsecutive' /\ CreatedOnce'
  BY <1>3, AllocAssumption DEF InsertDuplicate, Fill, FillFails, DatabaseError
<1>4. CASE DeleteEvent
  BY <1>4 DEF DeleteEvent
<1>5. CASE UNCHANGED vars
  BY <1>5
<1> QED
  BY <1>1, <1>2, <1>3, <1>4, <1>5, StepCases

LEMMA Invariance == Spec => []IInv
<1> QED
  BY InitIInv, NextIInv, PTL DEF Spec

\* The numbers of an event run from 1 without a gap and name one record each.
THEOREM Consecutive == Spec => []NumbersConsecutive
<1>1. IInv => NumbersConsecutive
  BY DEF IInv
<1> QED
  BY <1>1, Invariance, PTL

\* A creator stores one record at most; a creation that is acknowledged is there,
\* under its number, with its content.
THEOREM CreatesOnce == Spec => []CreatedOnce
<1>1. IInv => CreatedOnce
  BY DEF IInv
<1> QED
  BY <1>1, Invariance, PTL

\* A number stays with its record while the event exists.
THEOREM NumbersAreKept == Spec => NumbersStay
<1>1. [Next]_vars => [eventExists' => records \subseteq records']_vars
  BY StepCases
     DEF NextNumber, Insert, InsertDuplicate, Fill, FillFails, DatabaseError,
         DeleteEvent, vars
<1> QED
  BY <1>1, PTL DEF Spec, NumbersStay
-----------------------------------------------------------------------------
\* Conflicts

\* As long as the event is there, a creator has lost one number of another record in
\* each attempt before the present one, and the number at hand is none of them.
LostInv ==
  eventExists => \A r \in Requests :
    /\ IsFiniteSet(lost[r]) /\ lost[r] \subseteq Taken
    /\ pc[r] \in {"next", "insert"} =>
         reply[r] = "none" /\ Cardinality(lost[r]) = attempt[r] - 1
    /\ pc[r] = "insert" => number[r] \notin lost[r]
    /\ reply[r] = "conflict" => \/ \E x \in records : x.by = r
                                \/ Cardinality(lost[r]) = MaxNumberAllocAttempts

LEMMA InitLost == Init => LostInv
<1> SUFFICES ASSUME Init PROVE LostInv
    OBVIOUS
<1>1. IsFiniteSet({}) /\ Cardinality({}) = 0
  BY FS_EmptySet
<1> QED
  BY <1>1 DEF Init, LostInv

LEMMA NextLost == IInv /\ LostInv /\ [Next]_vars => LostInv'
<1> SUFFICES ASSUME IInv, LostInv, [Next]_vars, eventExists'
             PROVE  LostInv'
    BY DEF LostInv
<1>0. /\ TypeOK /\ eventExists /\ OwnerInv
      /\ DOMAIN pc = Requests /\ DOMAIN number = Requests /\ DOMAIN attempt = Requests
      /\ DOMAIN reply = Requests /\ DOMAIN lost = Requests
  BY StepCases DEF IInv, TypeOK, NextNumber, Insert, InsertDuplicate, Fill, FillFails, DatabaseError,
       DeleteEvent, vars
<1> DEFINE LostOf(r) ==
      /\ IsFiniteSet(lost[r]) /\ lost[r] \subseteq Taken
      /\ pc[r] \in {"next", "insert"} =>
           reply[r] = "none" /\ Cardinality(lost[r]) = attempt[r] - 1
      /\ pc[r] = "insert" => number[r] \notin lost[r]
      /\ reply[r] = "conflict" => \/ \E x \in records : x.by = r
                                  \/ Cardinality(lost[r]) = MaxNumberAllocAttempts
<1>1. \A r \in Requests : LostOf(r)
  BY <1>0 DEF LostInv
<1>2. ASSUME NEW r \in Requests, records \subseteq records',
             pc'[r] = pc[r], number'[r] = number[r], attempt'[r] = attempt[r],
             reply'[r] = reply[r], lost'[r] = lost[r]
      PROVE  LostOf(r)'
  <2>1. Taken \subseteq Taken'
    BY <1>2 DEF Taken
  <2> QED
    BY <1>1, <1>2, <2>1
<1>3. ASSUME NEW r \in Requests, NextNumber(r)
      PROVE  \A q \in Requests : LostOf(q)'
  <2>1. PICK m \in {0} \cup Taken : /\ \A n \in Taken : n <= m
                                    /\ number' = [number EXCEPT ![r] = m + 1]
    BY <1>3 DEF NextNumber
  <2>2. /\ UNCHANGED <<records, attempt, reply, lost>>
        /\ pc[r] = "next" /\ pc' = [pc EXCEPT ![r] = "insert"]
    BY <1>3 DEF NextNumber
  <2>3. Taken \subseteq Nat
    BY <1>0 DEF TypeOK, Taken, Record
  <2>4. m + 1 \notin Taken
    BY <2>1, <2>3
  <2>5. LostOf(r)'
    <3>1. Taken' = Taken
      BY <2>2 DEF Taken
    <3> QED
      BY <1>0, <1>1, <2>1, <2>2, <2>4, <3>1
  <2>6. \A q \in Requests \ {r} : LostOf(q)'
    BY <1>0, <1>2, <2>1, <2>2
  <2> QED
    BY <2>5, <2>6
<1>4. ASSUME NEW r \in Requests, InsertDuplicate(r)
      PROVE  \A q \in Requests : LostOf(q)'
  <2>1. /\ pc[r] = "insert" /\ number[r] \in Taken
        /\ lost' = [lost EXCEPT ![r] = @ \cup {number[r]}]
        /\ UNCHANGED <<records, number>>
        /\ \/ /\ attempt' = [attempt EXCEPT ![r] = @ + 1]
              /\ pc' = [pc EXCEPT ![r] = "next"] /\ reply' = reply
           \/ /\ attempt[r] = MaxNumberAllocAttempts /\ attempt' = attempt
              /\ pc' = [pc EXCEPT ![r] = "done"]
              /\ reply' = [reply EXCEPT ![r] = "conflict"]
    BY <1>4 DEF InsertDuplicate, Answer
  <2>2. /\ IsFiniteSet(lost[r] \cup {number[r]})
        /\ Cardinality(lost[r] \cup {number[r]}) = attempt[r]
    <3>1. /\ IsFiniteSet(lost[r]) /\ number[r] \notin lost[r]
          /\ Cardinality(lost[r]) = attempt[r] - 1 /\ attempt[r] \in Nat
      BY <1>0, <1>1, <2>1 DEF TypeOK
    <3>2. /\ IsFiniteSet(lost[r] \cup {number[r]})
          /\ Cardinality(lost[r] \cup {number[r]}) = Cardinality(lost[r]) + 1
      BY <3>1, FS_AddElement
    <3> QED
      BY <3>1, <3>2
  <2>3. LostOf(r)'
    <3>1. Taken' = Taken /\ attempt[r] \in Nat
      BY <1>0, <2>1 DEF Taken, TypeOK
    <3>2. lost'[r] = lost[r] \cup {number[r]} /\ lost'[r] \subseteq Taken
      BY <1>0, <1>1, <2>1
    <3>3. CASE /\ attempt' = [attempt EXCEPT ![r] = @ + 1]
               /\ pc' = [pc EXCEPT ![r] = "next"] /\ reply' = reply
      BY <1>0, <1>1, <2>1, <2>2, <3>1, <3>2, <3>3
    <3>4. CASE /\ attempt[r] = MaxNumberAllocAttempts
               /\ pc' = [pc EXCEPT ![r] = "done"]
      BY <1>0, <2>2, <3>1, <3>2, <3>4
    <3> QED
      BY <2>1, <3>3, <3>4
  <2>4. \A q \in Requests \ {r} : LostOf(q)'
    BY <1>0, <1>2, <2>1
  <2> QED
    BY <2>3, <2>4
<1>5. ASSUME NEW r \in Requests, Insert(r) \/ Fill(r) \/ FillFails(r) \/ DatabaseError(r)
      PROVE  \A q \in Requests : LostOf(q)'
  <2>1. /\ records \subseteq records' /\ UNCHANGED <<number, attempt, lost>>
        /\ pc' = [pc EXCEPT ![r] = "fill"] \/ pc' = [pc EXCEPT ![r] = "done"]
        /\ reply' = reply \/ \E a : reply' = [reply EXCEPT ![r] = a]
    BY <1>5 DEF Insert, Fill, FillFails, DatabaseError, Answer
  <2>2. Taken \subseteq Taken'
    BY <2>1 DEF Taken
  <2>3. reply'[r] = "conflict" => reply[r] = "conflict" \/ \E x \in records : x.by = r
    <3>1. CASE FillFails(r)
      <4>1. [number |-> number[r], by |-> r] \in records
        BY <1>0, <3>1 DEF FillFails, OwnerInv
      <4> QED
        BY <4>1
    <3>2. CASE Insert(r) \/ Fill(r) \/ DatabaseError(r)
      BY <1>0, <3>2 DEF Insert, Fill, DatabaseError, Answer
    <3> QED
      BY <1>5, <3>1, <3>2
  <2>4. LostOf(r)'
    BY <1>0, <1>1, <2>1, <2>2, <2>3
  <2>5. \A q \in Requests \ {r} : LostOf(q)'
    BY <1>0, <1>2, <2>1
  <2> QED
    BY <2>4, <2>5
<1>6. ASSUME UNCHANGED vars
      PROVE  \A q \in Requests : LostOf(q)'
  BY <1>2, <1>6 DEF vars
<1>7. ~ DeleteEvent
  BY DEF DeleteEvent
<1>8. \A q \in Requests : LostOf(q)'
  BY <1>3, <1>4, <1>5, <1>6, <1>7, StepCases
<1> QED
  BY <1>8 DEF LostInv

\* A creator is turned away only after it has lost as many different numbers as it has
\* attempts, each to a record of another request.
THEOREM ConflictsAreLost == Spec => []ConflictOnlyAfterLosing
<1>1. LostInv => ConflictOnlyAfterLosing
  BY DEF LostInv, ConflictOnlyAfterLosing, Taken
<1> QED
  BY <1>1, InitIInv, NextIInv, InitLost, NextLost, PTL DEF Spec
-----------------------------------------------------------------------------
\* The variables keep their types, those of the history included.
FormTyped ==
  /\ stored \in Seq(Content)
  /\ incidentNumber \in 0 .. Len(stored)
  /\ incident \in Content /\ shown \in Content
  /\ typing \in Fields \cup {Nothing} /\ (typing # Nothing => shown[typing] # 0)
  /\ chain \in Seq(Mutation)
  /\ phase \in Phases
  /\ phase # "idle" => chain # <<>>
  /\ target \in 0 .. incidentNumber
  /\ free \subseteq 1 .. MaxWrites
  /\ loads \in Seq(Load) /\ Len(loads) <= MaxLoads
  /\ news \in Nat
  /\ writes \in 0 .. MaxWrites
  /\ faults \in 0 .. MaxFaults
  /\ applied \subseteq (1 .. Len(stored)) \X Fields \X (1 .. MaxWrites)
  /\ typed \subseteq Fields \X (1 .. MaxWrites)
  /\ lostCreates \in Nat

\* Nothing is attached and nothing fetched before there is a record, and a mutation
\* goes to the record that there is when it is sent.
NumberInv ==
  /\ \A i \in 1 .. Len(chain) : chain[i].field = Members => incidentNumber # New
  /\ free # {} => incidentNumber # New
  /\ loads # <<>> => incidentNumber # New
  /\ phase \in {"post", "answered", "failed"} => target = incidentNumber
  /\ phase \in {"load", "reload"} => incidentNumber # New

\* One record is created for the number and one for each answer that was lost.
CountInv ==
  LET known == incidentNumber # New \/ (phase = "answered" /\ target = New) IN
  Len(stored) = lostCreates + (IF known THEN 1 ELSE 0)

\* The chain's own refetch: there is one while the first mutation waits for it.
LoadInv ==
  /\ \A i \in 1 .. Len(loads) : loads[i].by = "chain" => phase \in {"load", "reload"}
  /\ \A i, j \in 1 .. Len(loads) : loads[i].by = "chain" /\ loads[j].by = "chain" => i = j
  /\ phase \in {"load", "reload"} => \E i \in 1 .. Len(loads) : loads[i].by = "chain"

\* The first mutation is stored before it is answered.
HeadInv ==
  phase \in {"answered", "load"} /\ Head(chain).field \in Fields =>
    \E t \in 1 .. Len(stored) : <<t, Head(chain).field, Head(chain).write>> \in applied

\* What is written to a field grows from what is stored, over what is handed to the
\* chain, to what is being typed.
OrderInv ==
  /\ \A x \in applied : x[3] <= writes /\ x[3] <= stored[x[1]][x[2]]
  /\ \A i \in 1 .. Len(chain) : chain[i].field \in Fields =>
       /\ chain[i].write <= writes
       /\ \A x \in applied : x[2] = chain[i].field => x[3] <= chain[i].write
       /\ chain[i].field = typing => chain[i].write <= shown[typing]
       /\ \A j \in 1 .. Len(chain) :
            i < j /\ chain[j].field = chain[i].field => chain[i].write <= chain[j].write
  /\ typing \in Fields =>
       /\ shown[typing] <= writes
       /\ \A x \in applied : x[2] = typing => x[3] <= shown[typing]

\* The chain's refetch, once read, has all of the user's stored writes.
ReadInv ==
  \A i \in 1 .. Len(loads) : loads[i].by = "chain" /\ loads[i].read =>
    \A x \in applied : x[1] = incidentNumber => x[3] <= loads[i].content[x[2]]

\* The page shows them, in what is not being typed into.
Settled ==
  \A x \in applied : x[1] = incidentNumber /\ x[2] # typing => x[3] <= shown[x[2]]

\* It does so from when the chain redraws it until the next mutation is stored.
SettleInv ==
  drawnBy = "chain" =>
    \/ Settled
    \/ phase \in {"answered", "failed", "load", "reload"} /\ Head(chain).field # Members

FormInv ==
  /\ FormTyped /\ NumberInv /\ CountInv /\ LoadInv
  /\ HeadInv /\ NoTypingLost /\ OrderInv /\ ReadInv /\ SettleInv


-----------------------------------------------------------------------------
\* Each step of the page, named.
LEMMA FormStepCases ==
  ASSUME [FormNext]_formVars
  PROVE  \/ \E f \in Fields : Type(f) \/ OthersWrite(f)
         \/ Commit
         \/ \E way \in {"chain", "free"} : Click(way)
         \/ \E i \in DOMAIN loads : ReadLoad(i) \/ Draw(i) \/ LoadFails(i)
         \/ Start \/ Reach \/ Refuse \/ Answered \/ AnsweredRoster \/ Failed
         \/ \E w \in free : FreeReach(w) \/ FreeFails(w)
         \/ Hear \/ HearAll
         \/ UNCHANGED formVars
BY DEF FormNext, FormFinished

\* A sequence without its element at i: the ones before it stay, the others move up.
LEMMA RemovedAt ==
  ASSUME NEW S, NEW s \in Seq(S), NEW i \in 1 .. Len(s)
  PROVE  /\ RemoveAt(s, i) \in Seq(S)
         /\ Len(RemoveAt(s, i)) = Len(s) - 1
         /\ \A j \in 1 .. Len(s) - 1 : RemoveAt(s, i)[j] = IF j < i THEN s[j] ELSE s[j + 1]
<1> DEFINE a == SubSeq(s, 1, i - 1)
           b == SubSeq(s, i + 1, Len(s))
<1>1. Len(s) \in Nat /\ \A j \in 1 .. Len(s) : s[j] \in S
  BY LenProperties, ElementOfSeq
<1>2. \A j \in 1 .. i - 1 : s[j] \in S
  BY <1>1
<1>3. \A j \in i + 1 .. Len(s) : s[j] \in S
  BY <1>1
<1>4. /\ a \in Seq(S) /\ Len(a) = IF 1 <= i - 1 THEN i - 1 - 1 + 1 ELSE 0
      /\ \A j \in 1 .. i - 1 - 1 + 1 : a[j] = s[1 + j - 1]
  BY <1>1, <1>2, SubSeqProperties
<1>5. /\ b \in Seq(S) /\ Len(b) = IF i + 1 <= Len(s) THEN Len(s) - (i + 1) + 1 ELSE 0
      /\ \A j \in 1 .. Len(s) - (i + 1) + 1 : b[j] = s[i + 1 + j - 1]
  BY <1>1, <1>3, SubSeqProperties
<1>6. RemoveAt(s, i) = a \o b
  BY DEF RemoveAt
<1> HIDE DEF a, b
<1>7. /\ Len(a) = i - 1 /\ \A j \in 1 .. i - 1 : a[j] = s[j]
      /\ Len(b) = Len(s) - i /\ \A j \in 1 .. Len(s) - i : b[j] = s[i + j]
  BY <1>1, <1>4, <1>5
<1>8. /\ a \o b \in Seq(S)
      /\ Len(a \o b) = Len(a) + Len(b)
      /\ \A j \in 1 .. Len(a) + Len(b) : (a \o b)[j] = IF j <= Len(a) THEN a[j] ELSE b[j - Len(a)]
  BY <1>4, <1>5, ConcatProperties
<1>9. ASSUME NEW j \in 1 .. Len(s) - 1
      PROVE  (a \o b)[j] = IF j < i THEN s[j] ELSE s[j + 1]
  <2>1. j \in 1 .. Len(a) + Len(b)
    BY <1>1, <1>7
  <2>2. CASE j < i
    BY <1>1, <1>7, <1>8, <2>1, <2>2
  <2>3. CASE ~(j < i)
    <3>1. (a \o b)[j] = b[j - (i - 1)]
      BY <1>1, <1>7, <1>8, <2>1, <2>3
    <3>2. j - (i - 1) \in 1 .. Len(s) - i /\ i + (j - (i - 1)) = j + 1
      BY <1>1, <2>3
    <3> QED
      BY <1>7, <2>3, <3>1, <3>2
  <2> QED
    BY <2>2, <2>3
<1> QED
  BY <1>1, <1>6, <1>7, <1>8, <1>9

\* The records once a field is written: only that field of that record changes, and a
\* new record is put behind the others.
LEMMA StoredFacts ==
  ASSUME stored \in Seq(Content), NEW t \in 0 .. Len(stored), NEW f, NEW w \in 0 .. MaxWrites
  PROVE  /\ Stored(t, f, w) \in Seq(Content)
         /\ Len(Stored(t, f, w)) = IF t = New THEN Len(stored) + 1 ELSE Len(stored)
         /\ \A k \in 1 .. Len(stored), c \in Columns :
              Stored(t, f, w)[k][c] = IF k = t /\ c = f THEN w ELSE stored[k][c]
         /\ t = New => \A c \in Columns :
              Stored(t, f, w)[Len(stored) + 1][c] = IF c = f THEN w ELSE 0
<1> DEFINE old == IF t = New THEN Empty ELSE stored[t]
           new == [c \in Columns |-> IF c = f THEN w ELSE old[c]]
<1>1. Len(stored) \in Nat /\ \A k \in 1 .. Len(stored) : stored[k] \in Content
  <2> HIDE DEF old, new
  <2> QED
    BY LenProperties, ElementOfSeq
<1>2. old \in Content
  <2>1. Empty \in Content
    BY BoundsAssumption DEF Empty, Content
  <2>2. t # New => t \in 1 .. Len(stored)
    BY <1>1 DEF New
  <2> QED
    BY <1>1, <2>1, <2>2
<1>3. new \in Content /\ \A c \in Columns : new[c] = IF c = f THEN w ELSE old[c]
  BY <1>2 DEF Content
<1>4. Stored(t, f, w) = IF t = New THEN Append(stored, new) ELSE [stored EXCEPT ![t] = new]
  BY DEF Stored
<1>5. t = New => old = Empty /\ \A c \in Columns : old[c] = 0
  BY DEF Empty
<1>6. t # New => old = stored[t]
  OBVIOUS
<1> HIDE DEF old, new
<1>7. CASE t = New
  <2>1. /\ Append(stored, new) \in Seq(Content)
        /\ Len(Append(stored, new)) = Len(stored) + 1
        /\ \A k \in 1 .. Len(stored) : Append(stored, new)[k] = stored[k]
        /\ Append(stored, new)[Len(stored) + 1] = new
    BY <1>3, AppendProperties
  <2>2. \A k \in 1 .. Len(stored) : k # t
    BY <1>7 DEF New
  <2> QED
    BY <1>3, <1>4, <1>5, <1>7, <2>1, <2>2
<1>8. CASE t # New
  <2>1. t \in 1 .. Len(stored)
    BY <1>1, <1>8 DEF New
  <2>2. /\ [stored EXCEPT ![t] = new] \in Seq(Content)
        /\ Len([stored EXCEPT ![t] = new]) = Len(stored)
        /\ \A k \in 1 .. Len(stored) : [stored EXCEPT ![t] = new][k] = IF k = t THEN new ELSE stored[k]
    BY <1>3, <2>1, ExceptSeq
  <2> QED
    BY <1>3, <1>4, <1>6, <1>8, <2>2
<1> QED
  BY <1>7, <1>8

\* What a redraw shows.
LEMMA DrawnFacts ==
  ASSUME NEW content \in Content, shown \in Content
  PROVE  /\ Drawn(content) \in Content
         /\ \A c \in Columns : Drawn(content)[c] = IF c = typing THEN shown[c] ELSE content[c]
BY DEF Drawn, Content

\* The first mutation leaves the chain, and at most one, that is no edit of a field,
\* is put behind the others.
LEMMA FinishFacts ==
  ASSUME FormTyped, chain # <<>>, NEW ok \in BOOLEAN, Finish(ok)
  PROVE  /\ chain' \in Seq(Mutation)
         /\ \A i \in 2 .. Len(chain) : i - 1 \in 1 .. Len(chain') /\ chain'[i - 1] = chain[i]
         /\ \A j \in 1 .. Len(chain') :
              \/ j + 1 \in 2 .. Len(chain) /\ chain'[j] = chain[j + 1]
              \/ ok /\ j = Len(chain') /\ chain'[j].field = Members
         /\ phase' = "idle" /\ target' = New
         /\ free' \subseteq 1 .. MaxWrites /\ (free' # {} => ok \/ free # {})
         /\ refused' = IF ok THEN refused ELSE refused \cup {Head(chain).write}
<1> DEFINE m == Head(chain)
           more == [field |-> Members, write |-> m.write, next |-> "done"]
<1>1. chain \in Seq(Mutation) /\ Len(chain) \in Nat
  BY LenProperties DEF FormTyped
<1>2. /\ m \in Mutation /\ m = chain[1]
      /\ Tail(chain) \in Seq(Mutation)
      /\ Len(Tail(chain)) = Len(chain) - 1
      /\ \A i \in 1 .. Len(Tail(chain)) : Tail(chain)[i] = chain[i + 1]
  BY <1>1, HeadTailProperties
<1>3. more \in Mutation /\ more.field = Members /\ m.write \in 1 .. MaxWrites
  BY <1>2 DEF Mutation, Columns
<1>4. /\ chain' = IF ok /\ m.next = "chain" THEN Append(Tail(chain), more) ELSE Tail(chain)
      /\ free' = IF ok /\ m.next = "free" THEN free \cup {m.write} ELSE free
      /\ refused' = IF ok THEN refused ELSE refused \cup {m.write}
      /\ phase' = "idle" /\ target' = New
  BY DEF Finish
<1> HIDE DEF m, more
<1>5. /\ Append(Tail(chain), more) \in Seq(Mutation)
      /\ Len(Append(Tail(chain), more)) = Len(chain)
      /\ \A i \in 1 .. Len(Tail(chain)) : Append(Tail(chain), more)[i] = Tail(chain)[i]
      /\ Append(Tail(chain), more)[Len(chain)] = more
  <2>1. /\ Append(Tail(chain), more) \in Seq(Mutation)
        /\ Len(Append(Tail(chain), more)) = Len(Tail(chain)) + 1
        /\ \A i \in 1 .. Len(Tail(chain)) : Append(Tail(chain), more)[i] = Tail(chain)[i]
        /\ Append(Tail(chain), more)[Len(Tail(chain)) + 1] = more
    BY <1>2, <1>3, AppendProperties
  <2>2. Len(Tail(chain)) + 1 = Len(chain)
    BY <1>1, <1>2
  <2> QED
    BY <2>1, <2>2
<1>6. ASSUME ok /\ m.next = "chain"
      PROVE  /\ chain' \in Seq(Mutation)
             /\ \A i \in 2 .. Len(chain) : i - 1 \in 1 .. Len(chain') /\ chain'[i - 1] = chain[i]
             /\ \A j \in 1 .. Len(chain') :
                  \/ j + 1 \in 2 .. Len(chain) /\ chain'[j] = chain[j + 1]
                  \/ ok /\ j = Len(chain') /\ chain'[j].field = Members
  <2>1. chain' = Append(Tail(chain), more)
    BY <1>4, <1>6
  <2>2. Len(chain') = Len(chain) /\ chain'[Len(chain)].field = Members
    BY <1>3, <1>5, <2>1
  <2>3. \A i \in 1 .. Len(chain) - 1 : chain'[i] = chain[i + 1]
    BY <1>1, <1>2, <1>5, <2>1
  <2>4. chain' \in Seq(Mutation)
    BY <1>5, <2>1
  <2>5. \A i \in 2 .. Len(chain) : i - 1 \in 1 .. Len(chain') /\ chain'[i - 1] = chain[i]
    BY ONLY <1>1, <2>2, <2>3
  <2>6. ASSUME NEW j \in 1 .. Len(chain')
        PROVE  \/ j + 1 \in 2 .. Len(chain) /\ chain'[j] = chain[j + 1]
               \/ j = Len(chain') /\ chain'[j].field = Members
    <3>1. CASE j = Len(chain)
      BY <2>2, <3>1
    <3>2. CASE j # Len(chain)
      BY ONLY <1>1, <2>2, <2>3, <3>2, j \in 1 .. Len(chain')
    <3> QED
      BY <3>1, <3>2
  <2> QED
    BY ONLY <1>6, <2>4, <2>5, <2>6, Zenon
<1>7. ASSUME ~(ok /\ m.next = "chain")
      PROVE  /\ chain' \in Seq(Mutation)
             /\ \A i \in 2 .. Len(chain) : i - 1 \in 1 .. Len(chain') /\ chain'[i - 1] = chain[i]
             /\ \A j \in 1 .. Len(chain') :
                  \/ j + 1 \in 2 .. Len(chain) /\ chain'[j] = chain[j + 1]
                  \/ ok /\ j = Len(chain') /\ chain'[j].field = Members
  <2>1. chain' = Tail(chain)
    BY <1>4, <1>7
  <2>2. \A i \in 2 .. Len(chain) : i - 1 \in 1 .. Len(chain') /\ chain'[i - 1] = chain[i]
    BY ONLY <1>1, <1>2, <2>1
  <2>3. \A j \in 1 .. Len(chain') : j + 1 \in 2 .. Len(chain) /\ chain'[j] = chain[j + 1]
    BY ONLY <1>1, <1>2, <2>1
  <2>4. chain' \in Seq(Mutation)
    BY <1>2, <2>1
  <2> QED
    BY ONLY <2>2, <2>3, <2>4, Zenon
<1>8. free' \subseteq 1 .. MaxWrites /\ (free' # {} => ok \/ free # {})
  <2>1. free \subseteq 1 .. MaxWrites
    BY DEF FormTyped
  <2> QED
    BY <1>3, <1>4, <2>1
<1>9. refused' = IF ok THEN refused ELSE refused \cup {Head(chain).write}
  BY <1>4 DEF m
<1> QED
  BY ONLY <1>4, <1>6, <1>7, <1>8, <1>9, Zenon

\* A refetch joins the others, not yet read.
LEMMA BeginLoadFacts ==
  ASSUME FormTyped, NEW by \in {"chain", "other"}, BeginLoad(by)
  PROVE  /\ loads' \in Seq(Load) /\ Len(loads') <= MaxLoads
         /\ Len(loads') = Len(loads) + 1
         /\ \A i \in 1 .. Len(loads) : loads'[i] = loads[i]
         /\ loads'[Len(loads) + 1].by = by /\ loads'[Len(loads) + 1].read = FALSE
<1> DEFINE l == [by |-> by, read |-> FALSE, content |-> Empty]
<1>1. loads \in Seq(Load) /\ Len(loads) \in Nat /\ Len(loads) < MaxLoads /\ MaxLoads \in Nat
  BY LenProperties, BoundsAssumption DEF FormTyped, BeginLoad
<1>2. l \in Load /\ l.by = by /\ l.read = FALSE
  BY BoundsAssumption DEF Load, Content, Empty
<1>3. loads' = Append(loads, l)
  BY DEF BeginLoad
<1> HIDE DEF l
<1>4. /\ Append(loads, l) \in Seq(Load)
      /\ Len(Append(loads, l)) = Len(loads) + 1
      /\ \A i \in 1 .. Len(loads) : Append(loads, l)[i] = loads[i]
      /\ Append(loads, l)[Len(loads) + 1] = l
  BY <1>1, <1>2, AppendProperties
<1> QED
  BY <1>1, <1>2, <1>3, <1>4

\* A refetch leaves the others as they are.
LEMMA EndLoadFacts ==
  ASSUME FormTyped, NEW i \in DOMAIN loads, loads' = RemoveAt(loads, i)
  PROVE  /\ i \in 1 .. Len(loads) /\ loads[i] \in Load
         /\ loads' \in Seq(Load) /\ Len(loads') <= MaxLoads /\ Len(loads') = Len(loads) - 1
         /\ \A j \in 1 .. Len(loads') :
              /\ j < i => j \in 1 .. Len(loads) /\ loads'[j] = loads[j]
              /\ ~(j < i) => j + 1 \in 1 .. Len(loads) /\ loads'[j] = loads[j + 1]
<1>1. loads \in Seq(Load) /\ Len(loads) \in Nat /\ DOMAIN loads = 1 .. Len(loads)
      /\ Len(loads) <= MaxLoads /\ MaxLoads \in Nat
  BY LenProperties, BoundsAssumption DEF FormTyped
<1>2. /\ RemoveAt(loads, i) \in Seq(Load)
      /\ Len(RemoveAt(loads, i)) = Len(loads) - 1
      /\ \A j \in 1 .. Len(loads) - 1 :
           RemoveAt(loads, i)[j] = IF j < i THEN loads[j] ELSE loads[j + 1]
  BY <1>1, RemovedAt
<1>3. i \in 1 .. Len(loads) /\ loads[i] \in Load
  BY <1>1, ElementOfSeq
<1> QED
  BY <1>1, <1>2, <1>3

\* The server's answer to a refetch.
LEMMA ReadLoadFacts ==
  ASSUME FormTyped, NEW i \in DOMAIN loads, ReadLoad(i), incidentNumber # New
  PROVE  /\ loads' \in Seq(Load) /\ Len(loads') = Len(loads)
         /\ \A j \in 1 .. Len(loads) :
              /\ loads'[j].by = loads[j].by
              /\ j # i => loads'[j] = loads[j]
         /\ loads'[i].read = TRUE /\ loads'[i].content = stored[incidentNumber]
<1> DEFINE l == [by |-> loads[i].by, read |-> TRUE, content |-> stored[incidentNumber]]
<1>1. loads \in Seq(Load) /\ Len(loads) \in Nat /\ DOMAIN loads = 1 .. Len(loads)
  BY LenProperties DEF FormTyped
<1>2. loads[i] \in Load
  BY <1>1, ElementOfSeq
<1>3. stored[incidentNumber] \in Content
  <2>1. stored \in Seq(Content) /\ incidentNumber \in 1 .. Len(stored)
    <3>1. stored \in Seq(Content) /\ Len(stored) \in Nat /\ incidentNumber \in 0 .. Len(stored)
      BY LenProperties DEF FormTyped
    <3> QED
      BY <3>1 DEF New
  <2> QED
    BY <2>1, ElementOfSeq
<1>4. /\ l \in Load /\ l.by = loads[i].by /\ l.read = TRUE
      /\ l.content = stored[incidentNumber]
  BY <1>2, <1>3 DEF Load
<1>5. loads' = [loads EXCEPT ![i] = l]
  BY DEF ReadLoad
<1> HIDE DEF l
<1>6. /\ [loads EXCEPT ![i] = l] \in Seq(Load)
      /\ Len([loads EXCEPT ![i] = l]) = Len(loads)
      /\ \A j \in 1 .. Len(loads) : [loads EXCEPT ![i] = l][j] = IF j = i THEN l ELSE loads[j]
  BY <1>1, <1>4, ExceptSeq
<1> QED
  BY <1>1, <1>4, <1>5, <1>6

\* A mutation is handed to the chain.
LEMMA HandedFacts ==
  ASSUME FormTyped, NEW m \in Mutation, chain' = Append(chain, m)
  PROVE  /\ chain' \in Seq(Mutation) /\ chain' # <<>>
         /\ Len(chain') = Len(chain) + 1
         /\ \A i \in 1 .. Len(chain) : chain'[i] = chain[i]
         /\ chain'[Len(chain) + 1] = m
<1>1. chain \in Seq(Mutation) /\ Len(chain) \in Nat
  BY LenProperties DEF FormTyped
<1>2. /\ chain' \in Seq(Mutation)
      /\ Len(chain') = Len(chain) + 1
      /\ \A i \in 1 .. Len(chain) : chain'[i] = chain[i]
      /\ chain'[Len(chain) + 1] = m
  BY <1>1, AppendProperties
<1>3. chain' # <<>>
  BY <1>1, <1>2, EmptySeq
<1> QED
  BY <1>2, <1>3

\* The running mutation is the first of the chain.
LEMMA HeadFacts ==
  ASSUME FormTyped, chain # <<>>
  PROVE  1 \in 1 .. Len(chain) /\ Head(chain) = chain[1] /\ Head(chain) \in Mutation
<1>1. chain \in Seq(Mutation)
  BY DEF FormTyped
<1> QED
  BY <1>1, HeadTailProperties, LenProperties, EmptySeq

\* A redraw keeps the types, and what is being typed.
LEMMA RedrawnTyped ==
  ASSUME FormTyped, NEW content \in Content, shown' = Drawn(content), typing' = typing
  PROVE  shown' \in Content /\ (typing' # Nothing => shown'[typing'] # 0)
<1>1. shown \in Content /\ typing \in Fields \cup {Nothing} /\ (typing # Nothing => shown[typing] # 0)
  BY DEF FormTyped
<1>2. /\ Drawn(content) \in Content
      /\ \A c \in Columns : Drawn(content)[c] = IF c = typing THEN shown[c] ELSE content[c]
  BY <1>1, DrawnFacts
<1>3. typing # Nothing => typing \in Columns
  BY <1>1 DEF Columns
<1> QED
  BY <1>1, <1>2, <1>3

\* What is stored keeps the types of the records and of what was stored.
LEMMA StoredTyped ==
  ASSUME FormTyped, NEW t \in 0 .. Len(stored), NEW f, NEW w \in 0 .. MaxWrites,
         stored' = Stored(t, f, w)
  PROVE  /\ stored' \in Seq(Content) /\ Len(stored') \in Nat /\ Len(stored) \in Nat
         /\ Len(stored') >= Len(stored)
         /\ applied \subseteq (1 .. Len(stored')) \X Fields \X (1 .. MaxWrites)
         /\ Len(stored') = IF t = New THEN Len(stored) + 1 ELSE Len(stored)
<1>1. stored \in Seq(Content) /\ applied \subseteq (1 .. Len(stored)) \X Fields \X (1 .. MaxWrites)
  BY DEF FormTyped
<1>2. Len(stored) \in Nat
  BY <1>1, LenProperties
<1>3. stored' \in Seq(Content) /\ Len(stored') = IF t = New THEN Len(stored) + 1 ELSE Len(stored)
  BY <1>1, StoredFacts
<1>4. Len(stored') >= Len(stored) /\ Len(stored') \in Nat
  BY <1>2, <1>3
<1>5. 1 .. Len(stored) \subseteq 1 .. Len(stored')
  BY <1>2, <1>4
<1> QED
  BY <1>1, <1>2, <1>3, <1>4, <1>5

LEMMA InitFormTyped ==
  ASSUME FormInit
  PROVE  FormTyped
<1>1. Empty \in Content
  BY BoundsAssumption DEF Empty, Content
<1>2. stored = <<>> /\ chain = <<>> /\ loads = <<>>
  BY DEF FormInit
<1>3. Len(stored) = 0 /\ Len(loads) = 0 /\ stored \in Seq(Content) /\ chain \in Seq(Mutation)
      /\ loads \in Seq(Load)
  BY <1>2, EmptySeq
<1> QED
  BY <1>1, <1>2, <1>3, BoundsAssumption DEF FormInit, FormTyped, Phases, New

\* A user's step, and somebody else's, keep the types.
LEMMA UserFormTyped ==
  ASSUME FormTyped, NumberInv,
         \/ \E f \in Fields : Type(f) \/ OthersWrite(f)
         \/ Commit
         \/ \E way \in {"chain", "free"} : Click(way)
  PROVE  FormTyped'
<1>1. ASSUME NEW f \in Fields, Type(f)
      PROVE  FormTyped'
  <2>1. writes' \in 1 .. MaxWrites /\ f \in Columns
    BY <1>1, BoundsAssumption DEF Type, Write, FormTyped, Columns
  <2>2. shown' \in Content /\ shown'[f] # 0 /\ typing' = f
    <3>1. shown \in Content /\ shown' = [shown EXCEPT ![f] = writes']
      BY <1>1 DEF FormTyped, Type
    <3> QED
      BY <1>1, <2>1, <3>1 DEF Content, Type
  <2> QED
    BY <1>1, <2>1, <2>2 DEF FormTyped, Type, work
<1>2. ASSUME NEW f \in Fields, OthersWrite(f)
      PROVE  FormTyped'
  <2>1. writes' \in 0 .. MaxWrites /\ incidentNumber \in 0 .. Len(stored)
    BY <1>2, BoundsAssumption DEF OthersWrite, Write, FormTyped
  <2>2. stored' = Stored(incidentNumber, f, writes')
    BY <1>2 DEF OthersWrite
  <2>3. PICK w \in 0 .. MaxWrites : w = writes'
    BY <2>1
  <2>4. /\ stored' \in Seq(Content) /\ Len(stored') \in Nat /\ Len(stored) \in Nat
        /\ Len(stored') >= Len(stored)
        /\ applied \subseteq (1 .. Len(stored')) \X Fields \X (1 .. MaxWrites)
    BY <2>1, <2>2, <2>3, StoredTyped
  <2> QED
    BY <1>2, <2>1, <2>4 DEF FormTyped, OthersWrite, page, work, history
<1>3. ASSUME Commit
      PROVE  FormTyped'
  <2> DEFINE m == [field |-> typing, write |-> shown[typing], next |-> "done"]
  <2>1. typing \in Columns /\ shown[typing] \in 1 .. MaxWrites
    BY <1>3, BoundsAssumption DEF FormTyped, Commit, Columns, Content
  <2>2. m \in Mutation
    BY <2>1 DEF Mutation
  <2>3. chain' = Append(chain, m)
    BY <1>3 DEF Commit
  <2> HIDE DEF m
  <2>4. chain' \in Seq(Mutation) /\ chain' # <<>>
    BY <2>2, <2>3, HandedFacts
  <2> QED
    BY <1>3, <2>4 DEF FormTyped, Commit, history
<1>4. ASSUME NEW way \in {"chain", "free"}, Click(way)
      PROVE  FormTyped'
  <2>1. writes' \in 1 .. MaxWrites
    BY <1>4, BoundsAssumption DEF Click, Write, FormTyped
  <2>0. UNCHANGED <<stored, incidentNumber, incident, shown, typing, phase, target, loads, news,
                    faults, applied, typed, lostCreates>>
    BY <1>4 DEF Click, page, history
  <2>2. CASE way = "free" /\ incidentNumber # New
    <3>1. free' = free \cup {writes'} /\ chain' = chain
      BY <1>4, <2>2 DEF Click
    <3>2. free' \subseteq 1 .. MaxWrites
      BY <2>1, <3>1 DEF FormTyped
    <3> QED
      BY <2>0, <2>1, <3>1, <3>2 DEF FormTyped
  <2>3. CASE ~(way = "free" /\ incidentNumber # New)
    <3>1. PICK m \in Mutation : chain' = Append(chain, m)
      <4>1. /\ [field |-> Nothing, write |-> writes', next |-> way] \in Mutation
            /\ [field |-> Members, write |-> writes', next |-> "done"] \in Mutation
        BY <2>1 DEF Mutation, Columns
      <4> QED
        BY <1>4, <2>3, <4>1 DEF Click
    <3>2. chain' \in Seq(Mutation) /\ chain' # <<>>
      BY <3>1, HandedFacts
    <3>3. free' = free
      BY <1>4, <2>3 DEF Click
    <3> QED
      BY <2>0, <2>1, <3>2, <3>3 DEF FormTyped
  <2> QED
    BY <2>2, <2>3
<1> QED
  BY <1>1, <1>2, <1>3, <1>4

\* The end of a mutation keeps the types.
LEMMA FinishTyped ==
  ASSUME FormTyped, chain # <<>>, NEW ok \in BOOLEAN, Finish(ok)
  PROVE  chain' \in Seq(Mutation) /\ phase' = "idle" /\ target' = 0 /\ free' \subseteq 1 .. MaxWrites
<1>1. /\ chain' \in Seq(Mutation) /\ phase' = "idle" /\ target' = New
      /\ free' \subseteq 1 .. MaxWrites
  BY FinishFacts
<1> QED
  BY <1>1 DEF New

\* A refetch that is read, drawn or lost keeps the types.
LEMMA LoadFormTyped ==
  ASSUME FormTyped, NumberInv, LoadInv,
         NEW i \in DOMAIN loads, ReadLoad(i) \/ Draw(i) \/ LoadFails(i)
  PROVE  FormTyped'
<1>1. loads # <<>> /\ i \in 1 .. Len(loads)
  <2>1. loads \in Seq(Load) /\ DOMAIN loads = 1 .. Len(loads) /\ Len(<<>>) = 0
    BY LenProperties, EmptySeq DEF FormTyped
  <2>2. i \in 1 .. Len(loads)
    BY <2>1
  <2> QED
    BY <2>1, <2>2
<1>2. incidentNumber # New
  BY <1>1 DEF NumberInv
<1>3. CASE ReadLoad(i)
  <2>1. loads' \in Seq(Load) /\ Len(loads') = Len(loads)
    BY <1>2, <1>3, ReadLoadFacts
  <2> QED
    BY <1>3, <2>1 DEF FormTyped, ReadLoad, page, work, history
<1>4. CASE Draw(i) \/ LoadFails(i)
  <2>1. loads' = RemoveAt(loads, i)
    BY <1>4 DEF Draw, LoadFails
  <2>2. loads' \in Seq(Load) /\ Len(loads') <= MaxLoads /\ loads[i] \in Load
    BY <2>1, EndLoadFacts
  <2>3. PICK content \in Content : shown' = Drawn(content) /\ incident' = content
    <3>1. loads[i].content \in Content /\ incident \in Content
      BY <2>2 DEF Load, FormTyped
    <3> QED
      BY <1>4, <3>1 DEF Draw, LoadFails
  <2>4. typing' = typing /\ AfterDraw(loads[i])
    BY <1>4 DEF Draw, LoadFails
  <2>5. shown' \in Content /\ (typing' # Nothing => shown'[typing'] # 0)
    BY <2>3, <2>4, RedrawnTyped
  <2>6. /\ chain' \in Seq(Mutation) /\ phase' \in Phases /\ (phase' # "idle" => chain' # <<>>)
        /\ target' \in 0 .. incidentNumber /\ free' \subseteq 1 .. MaxWrites
    <3>1. CASE loads[i].by = "chain"
      <4>1. phase \in {"load", "reload"}
        BY <1>1, <3>1 DEF LoadInv
      <4>2. chain # <<>> /\ incidentNumber \in Nat
        BY <4>1, LenProperties DEF FormTyped
      <4>3. PICK ok \in BOOLEAN : Finish(ok)
        BY <2>4, <3>1 DEF AfterDraw
      <4>4. /\ chain' \in Seq(Mutation) /\ phase' = "idle" /\ target' = 0
            /\ free' \subseteq 1 .. MaxWrites
        BY <4>2, <4>3, FinishTyped
      <4> QED
        BY <4>2, <4>4 DEF Phases
    <3>2. CASE loads[i].by # "chain"
      <4>1. UNCHANGED <<chain, phase, target, free>>
        BY <2>4, <3>2 DEF AfterDraw, work
      <4> QED
        BY <4>1 DEF FormTyped
    <3> QED
      BY <3>1, <3>2
  <2>7. /\ UNCHANGED <<stored, incidentNumber, typing, news, writes, applied, typed, lostCreates>>
        /\ faults' \in 0 .. MaxFaults
    BY <1>4, BoundsAssumption DEF Draw, LoadFails, Fault, FormTyped
  <2> QED
    BY <2>2, <2>3, <2>5, <2>6, <2>7 DEF FormTyped
<1> QED
  BY <1>3, <1>4

\* A mutation's own steps keep the types.
LEMMA ChainFormTyped ==
  ASSUME FormTyped, NumberInv,
         Start \/ Reach \/ Refuse \/ Answered \/ AnsweredRoster \/ Failed
  PROVE  FormTyped'
<1>0. /\ stored \in Seq(Content) /\ Len(stored) \in Nat
      /\ incidentNumber \in 0 .. Len(stored) /\ target \in 0 .. incidentNumber
      /\ chain \in Seq(Mutation) /\ (phase # "idle" => chain # <<>>)
  BY LenProperties DEF FormTyped
<1>1. CASE Start
  <2>1. target' \in 0 .. incidentNumber
    BY <1>0, <1>1 DEF Start
  <2> QED
    BY <1>1, <2>1 DEF FormTyped, Start, page, history, Phases
<1>2. CASE Reach
  <2>1. phase = "post" /\ stored' = Stored(target, Head(chain).field, Head(chain).write)
    BY <1>2 DEF Reach
  <2>2. Head(chain) \in Mutation
    BY <1>0, <2>1, HeadFacts
  <2>3. PICK m \in Mutation : m = Head(chain)
    BY <2>2
  <2>4. m.write \in 1 .. MaxWrites /\ m.write \in 0 .. MaxWrites
    BY BoundsAssumption DEF Mutation
  <2>5. /\ stored' \in Seq(Content) /\ Len(stored') \in Nat /\ Len(stored') >= Len(stored)
        /\ applied \subseteq (1 .. Len(stored')) \X Fields \X (1 .. MaxWrites)
        /\ Len(stored') = IF target = New THEN Len(stored) + 1 ELSE Len(stored)
    <3>1. target \in 0 .. Len(stored)
      BY <1>0
    <3> QED
      BY <2>1, <2>3, <2>4, <3>1, StoredTyped
  <2>6. applied' \subseteq (1 .. Len(stored')) \X Fields \X (1 .. MaxWrites)
    <3> DEFINE t == IF target = New THEN Len(stored) + 1 ELSE target
    <3>1. t \in 1 .. Len(stored')
      BY <1>0, <2>5 DEF New
    <3>2. applied' = IF m.field \in Fields THEN applied \cup {<<t, m.field, m.write>>} ELSE applied
      BY <1>2, <2>3 DEF Reach
    <3> HIDE DEF t
    <3> QED
      BY <2>4, <2>5, <3>1, <3>2
  <2>7. /\ UNCHANGED <<incidentNumber, incident, shown, typing, chain, target, free, loads, writes,
                       typed>>
        /\ news' = news + 1 /\ phase' \in Phases
        /\ \/ faults' = faults /\ lostCreates' = lostCreates
           \/ Fault /\ lostCreates' \in {lostCreates, lostCreates + 1}
    BY <1>2 DEF Reach, page, Phases
  <2>8. news' \in Nat /\ faults' \in 0 .. MaxFaults /\ lostCreates' \in Nat
    BY <2>7, BoundsAssumption DEF FormTyped, Fault
  <2>9. incidentNumber' \in 0 .. Len(stored')
    BY <1>0, <2>5, <2>7
  <2> QED
    BY <1>0, <2>1, <2>5, <2>6, <2>7, <2>8, <2>9 DEF FormTyped
<1>3. CASE Refuse
  <2>1. faults' \in 0 .. MaxFaults
    BY <1>3, BoundsAssumption DEF FormTyped, Refuse, Fault
  <2> QED
    BY <1>3, <2>1 DEF FormTyped, Refuse, page, history, Phases
<1>4. CASE Answered
  <2>1. loads' \in Seq(Load) /\ Len(loads') <= MaxLoads
    BY <1>4, BeginLoadFacts DEF Answered
  <2>2. incidentNumber' \in 0 .. Len(stored) /\ target \in 0 .. incidentNumber'
    BY <1>0, <1>4 DEF Answered, New
  <2>3. phase # "idle" /\ phase' \in Phases
    BY <1>4 DEF Answered, Phases
  <2> QED
    BY <1>4, <2>1, <2>2, <2>3 DEF FormTyped, Answered, history
<1>5. CASE AnsweredRoster
  <2>1. PICK ok \in BOOLEAN : Finish(ok)
    BY <1>5 DEF AnsweredRoster
  <2>2. chain # <<>>
    BY <1>0, <1>5 DEF AnsweredRoster
  <2>3. /\ chain' \in Seq(Mutation) /\ phase' = "idle" /\ target' = 0
        /\ free' \subseteq 1 .. MaxWrites
    BY <2>1, <2>2, FinishTyped
  <2>4. target' \in 0 .. incidentNumber
    BY <1>0, <2>3
  <2> QED
    BY <1>5, <2>3, <2>4 DEF FormTyped, AnsweredRoster, page, Phases
<1>6. CASE Failed
  <2>0. phase = "failed" /\ chain # <<>>
        /\ UNCHANGED <<stored, incidentNumber, typing, news, writes, faults, applied, typed,
                       lostCreates>>
    BY <1>0, <1>6 DEF Failed
  <2>1. CASE DrawNew("chain") /\ Finish(FALSE) /\ UNCHANGED loads
    <3>1. Empty \in Content
      BY BoundsAssumption DEF Empty, Content
    <3>2. shown' = Drawn(Empty) /\ incident' = Empty
      BY <2>1 DEF DrawNew
    <3>3. shown' \in Content /\ (typing' # Nothing => shown'[typing'] # 0)
      BY <2>0, <3>1, <3>2, RedrawnTyped
    <3>4. /\ chain' \in Seq(Mutation) /\ phase' = "idle" /\ target' = 0
          /\ free' \subseteq 1 .. MaxWrites
      BY <2>0, <2>1, FinishTyped
    <3>5. target' \in 0 .. incidentNumber
      BY <1>0, <3>4
    <3> QED
      BY <2>0, <2>1, <3>1, <3>2, <3>3, <3>4, <3>5 DEF FormTyped, Phases
  <2>2. CASE /\ BeginLoad("chain") /\ phase' = "reload"
             /\ UNCHANGED <<incident, shown, drawnBy, chain, target, free, refused>>
    <3>1. loads' \in Seq(Load) /\ Len(loads') <= MaxLoads
      BY <2>2, BeginLoadFacts
    <3> QED
      BY <2>0, <2>2, <3>1 DEF FormTyped, Phases
  <2> QED
    BY <1>6, <2>1, <2>2 DEF Failed
<1> QED
  BY <1>1, <1>2, <1>3, <1>4, <1>5, <1>6

\* What goes past the chain, and what the page hears, keeps the types.
LEMMA OtherFormTyped ==
  ASSUME FormTyped, NumberInv,
         \/ \E w \in free : FreeReach(w) \/ FreeFails(w)
         \/ Hear \/ HearAll
         \/ UNCHANGED formVars
  PROVE  FormTyped'
<1>1. ASSUME NEW w \in free, FreeReach(w)
      PROVE  FormTyped'
  <2>1. w \in 0 .. MaxWrites /\ incidentNumber \in 0 .. Len(stored)
    BY BoundsAssumption DEF FormTyped
  <2>2. stored' = Stored(incidentNumber, Members, w) /\ BeginLoad("other")
    BY <1>1 DEF FreeReach
  <2>3. /\ stored' \in Seq(Content) /\ Len(stored') \in Nat /\ Len(stored) \in Nat
        /\ Len(stored') >= Len(stored)
        /\ applied \subseteq (1 .. Len(stored')) \X Fields \X (1 .. MaxWrites)
    BY <2>1, <2>2, StoredTyped
  <2>4. loads' \in Seq(Load) /\ Len(loads') <= MaxLoads
    BY <2>2, BeginLoadFacts
  <2>5. incidentNumber \in 0 .. Len(stored')
    BY <2>1, <2>3
  <2>6. free' \subseteq 1 .. MaxWrites /\ news' \in Nat
    BY <1>1 DEF FormTyped, FreeReach
  <2> QED
    BY <1>1, <2>3, <2>4, <2>5, <2>6 DEF FormTyped, FreeReach, page, history
<1>2. ASSUME NEW w \in free, FreeFails(w)
      PROVE  FormTyped'
  <2>1. free' \subseteq 1 .. MaxWrites /\ faults' \in 0 .. MaxFaults
    BY <1>2, BoundsAssumption DEF FormTyped, FreeFails, Fault
  <2> QED
    BY <1>2, <2>1 DEF FormTyped, FreeFails, page, history
<1>3. CASE Hear
  <2>1. loads' \in Seq(Load) /\ Len(loads') <= MaxLoads
    <3>1. loads' = loads \/ BeginLoad("other")
      BY <1>3 DEF Hear
    <3> QED
      BY <3>1, BeginLoadFacts DEF FormTyped
  <2>2. news' \in Nat
    BY <1>3 DEF FormTyped, Hear
  <2> QED
    BY <1>3, <2>1, <2>2 DEF FormTyped, Hear, page, work, history
<1>4. CASE HearAll
  <2>1. loads' \in Seq(Load) /\ Len(loads') <= MaxLoads
    <3>1. loads' = loads \/ BeginLoad("other")
      BY <1>4 DEF HearAll
    <3> QED
      BY <3>1, BeginLoadFacts DEF FormTyped
  <2>2. faults' \in 0 .. MaxFaults /\ typing' = typing
    BY <1>4, BoundsAssumption DEF FormTyped, HearAll, Fault
  <2>3. incident' \in Content /\ shown' \in Content /\ (typing' # Nothing => shown'[typing'] # 0)
    <3>1. CASE UNCHANGED <<incident, shown>>
      BY <2>2, <3>1 DEF FormTyped
    <3>2. CASE DrawNew("other")
      <4>1. Empty \in Content
        BY BoundsAssumption DEF Empty, Content
      <4>2. shown' = Drawn(Empty) /\ incident' = Empty
        BY <3>2 DEF DrawNew
      <4> QED
        BY <2>2, <4>1, <4>2, RedrawnTyped
    <3> QED
      BY <1>4, <3>1, <3>2 DEF HearAll
  <2> QED
    BY <1>4, <2>1, <2>2, <2>3 DEF FormTyped, HearAll, work
<1>5. CASE UNCHANGED formVars
  BY <1>5 DEF FormTyped, formVars, page, work, history
<1> QED
  BY <1>1, <1>2, <1>3, <1>4, <1>5

-----------------------------------------------------------------------------
\* What the end of a mutation leaves behind is for the record that there is.
LEMMA FinishNumber ==
  ASSUME FormTyped, NumberInv, chain # <<>>, NEW ok \in BOOLEAN, Finish(ok),
         ok => incidentNumber # New
  PROVE  /\ \A j \in 1 .. Len(chain') : chain'[j].field = Members => incidentNumber # New
         /\ free' # {} => incidentNumber # New
         /\ phase' = "idle"
<1>1. /\ \A j \in 1 .. Len(chain') :
              \/ j + 1 \in 2 .. Len(chain) /\ chain'[j] = chain[j + 1]
              \/ ok /\ j = Len(chain') /\ chain'[j].field = Members
      /\ phase' = "idle"
      /\ free' # {} => ok \/ free # {}
  BY FinishFacts
<1>2. free # {} => incidentNumber # New
  BY DEF NumberInv
<1>3. ASSUME NEW j \in 1 .. Len(chain'), chain'[j].field = Members
      PROVE  incidentNumber # New
  <2>1. CASE ok
    BY <2>1
  <2>2. CASE j + 1 \in 2 .. Len(chain) /\ chain'[j] = chain[j + 1]
    <3>1. Len(chain) \in Nat
      BY LenProperties DEF FormTyped
    <3>2. j + 1 \in 1 .. Len(chain)
      BY <2>2, <3>1
    <3> QED
      BY <1>3, <2>2, <3>2 DEF NumberInv
  <2> QED
    BY ONLY <1>1, <2>1, <2>2, j \in 1 .. Len(chain')
<1> QED
  BY <1>1, <1>2, <1>3

\* The chain's refetch has begun.
LEMMA BeginLoadInv ==
  ASSUME FormTyped, LoadInv, NEW by \in {"chain", "other"}, BeginLoad(by),
         IF by = "chain" THEN phase \notin {"load", "reload"} /\ phase' \in {"load", "reload"}
                         ELSE phase' = phase
  PROVE  LoadInv'
<1>1. /\ Len(loads) \in Nat /\ Len(loads') = Len(loads) + 1
      /\ \A i \in 1 .. Len(loads) : loads'[i] = loads[i]
      /\ loads'[Len(loads) + 1].by = by
  BY BeginLoadFacts, LenProperties DEF FormTyped
<1>2. \A i \in 1 .. Len(loads') : i \in 1 .. Len(loads) \/ i = Len(loads) + 1
  BY <1>1
<1>3. CASE by = "chain"
  <2>1. \A i \in 1 .. Len(loads) : loads[i].by # "chain"
    BY <1>3 DEF LoadInv
  <2>2. \A i \in 1 .. Len(loads') : loads'[i].by = "chain" => i = Len(loads) + 1
    BY <1>1, <1>2, <2>1
  <2>3. phase' \in {"load", "reload"}
    BY <1>3
  <2>4. Len(loads) + 1 \in 1 .. Len(loads')
    BY <1>1
  <2> QED
    BY <1>1, <1>3, <2>2, <2>3, <2>4 DEF LoadInv
<1>4. CASE by # "chain"
  <2>1. \A i \in 1 .. Len(loads') : loads'[i].by = "chain" =>
          i \in 1 .. Len(loads) /\ loads[i].by = "chain"
    BY <1>1, <1>2, <1>4
  <2>2. \A i \in 1 .. Len(loads) : i \in 1 .. Len(loads') /\ loads'[i] = loads[i]
    BY <1>1
  <2> QED
    BY <1>4, <2>1, <2>2 DEF LoadInv
<1> QED
  BY <1>3, <1>4

\* A refetch has ended, and with it the mutation that waited for it.
LEMMA EndLoadInv ==
  ASSUME FormTyped, LoadInv, NEW i \in DOMAIN loads, loads' = RemoveAt(loads, i),
         phase' = IF loads[i].by = "chain" THEN "idle" ELSE phase
  PROVE  LoadInv'
<1>1. /\ i \in 1 .. Len(loads) /\ Len(loads) \in Nat /\ Len(loads') = Len(loads) - 1
      /\ \A j \in 1 .. Len(loads') :
              /\ j < i => j \in 1 .. Len(loads) /\ loads'[j] = loads[j]
              /\ ~(j < i) => j + 1 \in 1 .. Len(loads) /\ loads'[j] = loads[j + 1]
  BY EndLoadFacts, LenProperties DEF FormTyped
<1>2. \A j, k \in 1 .. Len(loads) : loads[j].by = "chain" /\ loads[k].by = "chain" => j = k
  BY DEF LoadInv
<1>3. CASE loads[i].by = "chain"
  <2>1. \A j \in 1 .. Len(loads') : loads'[j].by # "chain"
    BY <1>1, <1>2, <1>3
  <2> QED
    BY <1>3, <2>1 DEF LoadInv
<1>4. CASE loads[i].by # "chain"
  <2>1. \A j \in 1 .. Len(loads') : loads'[j].by = "chain" => phase' \in {"load", "reload"}
    <3>1. \A k \in 1 .. Len(loads) : loads[k].by = "chain" => phase' \in {"load", "reload"}
      BY <1>4 DEF LoadInv
    <3>2. SUFFICES ASSUME NEW j \in 1 .. Len(loads'), loads'[j].by = "chain"
                   PROVE  phase' \in {"load", "reload"}
      OBVIOUS
    <3>3. CASE j < i
      BY <1>1, <3>1, <3>2, <3>3
    <3>4. CASE ~(j < i)
      BY <1>1, <3>1, <3>2, <3>4
    <3> QED
      BY <3>3, <3>4
  <2>2. \A j, k \in 1 .. Len(loads') : loads'[j].by = "chain" /\ loads'[k].by = "chain" => j = k
    <3>1. SUFFICES ASSUME NEW j \in 1 .. Len(loads'), NEW k \in 1 .. Len(loads'),
                          loads'[j].by = "chain", loads'[k].by = "chain"
                   PROVE  j = k
      OBVIOUS
    <3>2. PICK a \in 1 .. Len(loads) : loads[a] = loads'[j] /\ a = IF j < i THEN j ELSE j + 1
      BY <1>1
    <3>3. PICK b \in 1 .. Len(loads) : loads[b] = loads'[k] /\ b = IF k < i THEN k ELSE k + 1
      BY <1>1
    <3>4. a = b
      BY <1>2, <3>1, <3>2, <3>3
    <3> QED
      BY ONLY <1>1, <3>2, <3>3, <3>4, i \in 1 .. Len(loads), j \in 1 .. Len(loads'), k \in 1 .. Len(loads')
  <2>3. ASSUME phase' \in {"load", "reload"}
        PROVE  \E j \in 1 .. Len(loads') : loads'[j].by = "chain"
    <3>1. PICK k \in 1 .. Len(loads) : loads[k].by = "chain"
      BY <1>4, <2>3 DEF LoadInv
    <3>2. CASE k < i
      <4>1. k \in 1 .. Len(loads')
        BY <1>1, <3>2
      <4> QED
        BY <1>1, <3>1, <3>2, <4>1
    <3>3. CASE ~(k < i)
      <4>1. k # i
        BY <1>4, <3>1
      <4>2. k - 1 \in 1 .. Len(loads') /\ ~(k - 1 < i) /\ (k - 1) + 1 = k
        BY <1>1, <3>3, <4>1
      <4>3. loads'[k - 1] = loads[k]
        BY <1>1, <4>2
      <4> QED
        BY <3>1, <4>2, <4>3
    <3> QED
      BY <3>2, <3>3
  <2> QED
    BY <2>1, <2>2, <2>3 DEF LoadInv
<1> QED
  BY <1>3, <1>4

\* A new record is created only by a mutation that was sent while there was none, and
\* its number is known when the next one is sent.
LEMMA UserNumbers ==
  ASSUME FormTyped, NumberInv, CountInv, LoadInv,
         \/ \E f \in Fields : Type(f) \/ OthersWrite(f)
         \/ Commit
         \/ \E way \in {"chain", "free"} : Click(way)
  PROVE  NumberInv' /\ CountInv' /\ LoadInv'
<1>0. UNCHANGED <<incidentNumber, phase, target, loads, lostCreates>>
  BY DEF Type, OthersWrite, Commit, Click, page, work, history
<1>1. LoadInv'
  BY <1>0 DEF LoadInv
<1>2. Len(stored') = Len(stored)
  <2>1. CASE UNCHANGED stored
    BY <2>1
  <2>2. ASSUME NEW f \in Fields, OthersWrite(f)
        PROVE  Len(stored') = Len(stored)
    <3>1. writes' \in 0 .. MaxWrites
      BY <2>2, BoundsAssumption DEF OthersWrite, Write, FormTyped
    <3>2. PICK w \in 0 .. MaxWrites : w = writes'
      BY <3>1
    <3>3. stored' = Stored(incidentNumber, f, w) /\ incidentNumber # New
      BY <2>2, <3>2 DEF OthersWrite
    <3>4. incidentNumber \in 0 .. Len(stored)
      BY DEF FormTyped
    <3>5. Len(stored') = IF incidentNumber = New THEN Len(stored) + 1 ELSE Len(stored)
      BY <3>3, <3>4, StoredTyped
    <3> QED
      BY <3>3, <3>5
  <2> QED
    BY <2>1, <2>2 DEF Type, Commit, Click
<1>3. CountInv'
  BY <1>0, <1>2 DEF CountInv
<1>4. free' # {} => incidentNumber # New
  BY DEF NumberInv, Type, OthersWrite, Commit, Click, work
<1>5. \A i \in 1 .. Len(chain') : chain'[i].field = Members => incidentNumber # New
  <2>1. CASE UNCHANGED chain
    BY <2>1 DEF NumberInv
  <2>2. ASSUME NEW m \in Mutation, chain' = Append(chain, m), m.field = Members => incidentNumber # New
        PROVE  \A i \in 1 .. Len(chain') : chain'[i].field = Members => incidentNumber # New
    <3>1. /\ Len(chain) \in Nat /\ Len(chain') = Len(chain) + 1
          /\ \A i \in 1 .. Len(chain) : chain'[i] = chain[i]
          /\ chain'[Len(chain) + 1] = m
      BY <2>2, HandedFacts, LenProperties DEF FormTyped
    <3>2. \A i \in 1 .. Len(chain') : i \in 1 .. Len(chain) \/ i = Len(chain) + 1
      BY <3>1
    <3> QED
      BY <2>2, <3>1, <3>2 DEF NumberInv
  <2>3. CASE Commit
    <3> DEFINE m == [field |-> typing, write |-> shown[typing], next |-> "done"]
    <3>1. typing \in Columns /\ shown[typing] \in 1 .. MaxWrites /\ typing # Members
      BY <2>3, BoundsAssumption, FieldsAssumption DEF FormTyped, Commit, Columns, Content
    <3>2. m \in Mutation /\ m.field # Members
      BY <3>1 DEF Mutation
    <3>3. chain' = Append(chain, m)
      BY <2>3 DEF Commit
    <3> HIDE DEF m
    <3> QED
      BY <2>2, <3>2, <3>3
  <2>4. ASSUME NEW way \in {"chain", "free"}, Click(way)
        PROVE  \A i \in 1 .. Len(chain') : chain'[i].field = Members => incidentNumber # New
    <3>1. writes' \in 1 .. MaxWrites
      BY <2>4, BoundsAssumption DEF Click, Write, FormTyped
    <3>2. CASE way = "free" /\ incidentNumber # New
      BY <3>2
    <3>3. CASE ~(way = "free" /\ incidentNumber # New)
      <4>1. PICK m \in Mutation : chain' = Append(chain, m) /\ (m.field = Members => incidentNumber # New)
        <5>1. /\ [field |-> Nothing, write |-> writes', next |-> way] \in Mutation
              /\ [field |-> Members, write |-> writes', next |-> "done"] \in Mutation
              /\ Nothing # Members
          BY <3>1, FieldsAssumption DEF Mutation, Columns
        <5> QED
          BY <2>4, <3>3, <5>1 DEF Click
      <4> QED
        BY <2>2, <4>1
    <3> QED
      BY <3>2, <3>3
  <2> QED
    BY <2>1, <2>3, <2>4 DEF Type, OthersWrite, work
<1>6. NumberInv'
  BY <1>0, <1>4, <1>5 DEF NumberInv
<1> QED
  BY <1>1, <1>3, <1>6

LEMMA LoadNumbers ==
  ASSUME FormTyped, NumberInv, CountInv, LoadInv,
         NEW i \in DOMAIN loads, ReadLoad(i) \/ Draw(i) \/ LoadFails(i)
  PROVE  NumberInv' /\ CountInv' /\ LoadInv'
<1>1. i \in 1 .. Len(loads) /\ incidentNumber # New
  <2>1. loads \in Seq(Load) /\ DOMAIN loads = 1 .. Len(loads) /\ Len(<<>>) = 0
    BY LenProperties, EmptySeq DEF FormTyped
  <2>2. i \in 1 .. Len(loads)
    BY <2>1
  <2>3. loads # <<>>
    BY <2>1, <2>2
  <2> QED
    BY <2>2, <2>3 DEF NumberInv
<1>2. UNCHANGED <<stored, incidentNumber, lostCreates>>
  BY DEF ReadLoad, Draw, LoadFails, page, history
<1>3. CountInv'
  BY <1>1, <1>2 DEF CountInv
<1>4. CASE ReadLoad(i)
  <2>1. UNCHANGED <<chain, phase, target, free>>
    BY <1>4 DEF ReadLoad, work
  <2>2. NumberInv'
    BY <1>1, <1>2, <2>1 DEF NumberInv
  <2>3. Len(loads') = Len(loads) /\ \A j \in 1 .. Len(loads) : loads'[j].by = loads[j].by
    BY <1>1, <1>4, ReadLoadFacts
  <2>4. LoadInv'
    BY <2>1, <2>3 DEF LoadInv
  <2> QED
    BY <1>3, <2>2, <2>4
<1>5. CASE Draw(i) \/ LoadFails(i)
  <2>1. loads' = RemoveAt(loads, i) /\ AfterDraw(loads[i])
    BY <1>5 DEF Draw, LoadFails
  <2>2. CASE loads[i].by # "chain"
    <3>1. UNCHANGED <<chain, phase, target, free>>
      BY <2>1, <2>2 DEF AfterDraw, work
    <3>2. NumberInv'
      BY <1>1, <1>2, <3>1 DEF NumberInv
    <3>3. LoadInv'
      BY <2>1, <2>2, <3>1, EndLoadInv
    <3> QED
      BY <1>3, <3>2, <3>3
  <2>3. CASE loads[i].by = "chain"
    <3>1. PICK ok \in BOOLEAN : Finish(ok)
      BY <2>1, <2>3 DEF AfterDraw
    <3>2. chain # <<>>
      BY <1>1, <2>3 DEF LoadInv, FormTyped
    <3>3. /\ \A j \in 1 .. Len(chain') : chain'[j].field = Members => incidentNumber # New
          /\ free' # {} => incidentNumber # New
          /\ phase' = "idle"
      BY <1>1, <3>1, <3>2, FinishNumber
    <3>4. NumberInv'
      BY <1>1, <1>2, <3>3 DEF NumberInv
    <3>5. LoadInv'
      BY <2>1, <2>3, <3>3, EndLoadInv
    <3> QED
      BY <1>3, <3>4, <3>5
  <2> QED
    BY <2>2, <2>3
<1> QED
  BY <1>4, <1>5

LEMMA ChainNumbers ==
  ASSUME FormTyped, NumberInv, CountInv, LoadInv,
         Start \/ Reach \/ Refuse \/ Answered \/ AnsweredRoster \/ Failed
  PROVE  NumberInv' /\ CountInv' /\ LoadInv'
<1>0. /\ stored \in Seq(Content) /\ Len(stored) \in Nat /\ lostCreates \in Nat
      /\ incidentNumber \in 0 .. Len(stored) /\ target \in 0 .. incidentNumber
      /\ chain \in Seq(Mutation) /\ (phase # "idle" => chain # <<>>)
  BY LenProperties DEF FormTyped
<1>a. Len(stored) = lostCreates + (IF incidentNumber # New \/ (phase = "answered" /\ target = New)
                                     THEN 1 ELSE 0)
  BY DEF CountInv
<1>1. CASE Start
  <2>1. /\ UNCHANGED <<stored, incidentNumber, chain, free, loads, lostCreates>>
        /\ phase = "idle" /\ phase' = "post" /\ target' = incidentNumber
    BY <1>1 DEF Start, page, history
  <2>2. CountInv'
    BY <1>a, <2>1 DEF CountInv
  <2>3. LoadInv'
    BY <2>1 DEF LoadInv
  <2>4. NumberInv'
    BY <2>1 DEF NumberInv
  <2> QED
    BY <2>2, <2>3, <2>4
<1>2. CASE Reach
  <2>1. /\ UNCHANGED <<incidentNumber, chain, target, free, loads>>
        /\ phase = "post" /\ stored' = Stored(target, Head(chain).field, Head(chain).write)
        /\ \/ phase' = "answered" /\ lostCreates' = lostCreates
           \/ /\ phase' = "failed"
              /\ lostCreates' = IF target = New THEN lostCreates + 1 ELSE lostCreates
    BY <1>2 DEF Reach, page
  <2>2. PICK m \in Mutation : m = Head(chain)
    BY <1>0, <2>1, HeadFacts
  <2>3. m.write \in 0 .. MaxWrites /\ target \in 0 .. Len(stored)
    BY <1>0, BoundsAssumption DEF Mutation
  <2>4. Len(stored') = IF target = New THEN Len(stored) + 1 ELSE Len(stored)
    BY <2>1, <2>2, <2>3, StoredTyped
  <2>5. target = incidentNumber
    BY <2>1 DEF NumberInv
  <2>6. ASSUME phase' = "answered" /\ lostCreates' = lostCreates
        PROVE  CountInv'
    BY <1>0, <1>a, <2>1, <2>4, <2>5, <2>6 DEF CountInv
  <2>7. ASSUME phase' = "failed",
               lostCreates' = IF target = New THEN lostCreates + 1 ELSE lostCreates
        PROVE  CountInv'
    BY <1>0, <1>a, <2>1, <2>4, <2>5, <2>7 DEF CountInv
  <2>8. LoadInv'
    BY <2>1 DEF LoadInv
  <2>9. NumberInv'
    BY <2>1, <2>5 DEF NumberInv
  <2> QED
    BY <2>1, <2>6, <2>7, <2>8, <2>9
<1>3. CASE Refuse
  <2>1. /\ UNCHANGED <<stored, incidentNumber, chain, target, free, loads, lostCreates>>
        /\ phase = "post" /\ phase' = "failed"
    BY <1>3 DEF Refuse, page, history
  <2>2. CountInv'
    BY <1>a, <2>1 DEF CountInv
  <2>3. LoadInv'
    BY <2>1 DEF LoadInv
  <2>4. NumberInv'
    BY <2>1 DEF NumberInv
  <2> QED
    BY <2>2, <2>3, <2>4
<1>4. CASE Answered
  <2>1. /\ UNCHANGED <<stored, chain, target, free, lostCreates>>
        /\ phase = "answered" /\ phase' = "load" /\ BeginLoad("chain")
        /\ incidentNumber' = IF target = New THEN Len(stored) ELSE incidentNumber
    BY <1>4 DEF Answered, history
  <2>2. target = incidentNumber
    BY <2>1 DEF NumberInv
  <2>3. incidentNumber' # New /\ (incidentNumber # New => incidentNumber' = incidentNumber)
    BY <1>0, <1>a, <2>1, <2>2 DEF New
  <2>4. CountInv'
    BY <1>0, <1>a, <2>1, <2>2, <2>3 DEF CountInv
  <2>5. LoadInv'
    BY <2>1, BeginLoadInv
  <2>6. NumberInv'
    BY <2>1, <2>3 DEF NumberInv
  <2> QED
    BY <2>4, <2>5, <2>6
<1>5. CASE AnsweredRoster
  <2>1. PICK ok \in BOOLEAN : Finish(ok)
    BY <1>5 DEF AnsweredRoster
  <2>2. /\ UNCHANGED <<stored, incidentNumber, loads, lostCreates>>
        /\ chain # <<>> /\ phase \in {"answered", "failed"} /\ Head(chain).field = Members
    BY <1>0, <1>5 DEF AnsweredRoster, page
  <2>3. incidentNumber # New
    BY <2>2, HeadFacts DEF NumberInv
  <2>4. /\ \A j \in 1 .. Len(chain') : chain'[j].field = Members => incidentNumber # New
        /\ free' # {} => incidentNumber # New
        /\ phase' = "idle"
    BY <2>1, <2>2, <2>3, FinishNumber
  <2>5. CountInv'
    BY <1>a, <2>2, <2>3 DEF CountInv
  <2>6. NumberInv'
    BY <2>2, <2>3, <2>4 DEF NumberInv
  <2>7. \A i \in 1 .. Len(loads) : loads[i].by # "chain"
    BY <2>2 DEF LoadInv
  <2>8. LoadInv'
    BY <2>2, <2>4, <2>7 DEF LoadInv
  <2> QED
    BY <2>5, <2>6, <2>8
<1>6. CASE Failed
  <2>0. phase = "failed" /\ chain # <<>> /\ UNCHANGED <<stored, incidentNumber, lostCreates>>
    BY <1>0, <1>6 DEF Failed
  <2>1. CASE incidentNumber = New /\ Finish(FALSE) /\ UNCHANGED loads
    <3>1. /\ \A j \in 1 .. Len(chain') : chain'[j].field = Members => incidentNumber # New
          /\ free' # {} => incidentNumber # New
          /\ phase' = "idle"
      BY <2>0, <2>1, FinishNumber
    <3>2. CountInv'
      BY <1>a, <2>0, <3>1 DEF CountInv
    <3>3. NumberInv'
      BY <2>0, <2>1, <3>1 DEF NumberInv
    <3>4. \A i \in 1 .. Len(loads) : loads[i].by # "chain"
      BY <2>0 DEF LoadInv
    <3>5. LoadInv'
      BY <2>1, <3>1, <3>4 DEF LoadInv
    <3> QED
      BY <3>2, <3>3, <3>5
  <2>2. CASE /\ BeginLoad("chain") /\ phase' = "reload" /\ incidentNumber # New
             /\ UNCHANGED <<chain, target, free>>
    <3>1. CountInv'
      BY <1>a, <2>0, <2>2 DEF CountInv
    <3>2. NumberInv'
      BY <2>0, <2>2 DEF NumberInv
    <3>3. LoadInv'
      BY <2>0, <2>2, BeginLoadInv
    <3> QED
      BY <3>1, <3>2, <3>3
  <2> QED
    BY <1>6, <2>1, <2>2 DEF Failed
<1> QED
  BY <1>1, <1>2, <1>3, <1>4, <1>5, <1>6

LEMMA OtherNumbers ==
  ASSUME FormTyped, NumberInv, CountInv, LoadInv,
         \/ \E w \in free : FreeReach(w) \/ FreeFails(w)
         \/ Hear \/ HearAll
         \/ UNCHANGED formVars
  PROVE  NumberInv' /\ CountInv' /\ LoadInv'
<1>1. UNCHANGED <<incidentNumber, chain, phase, target, lostCreates>>
  BY DEF FreeReach, FreeFails, Hear, HearAll, formVars, page, work, history
<1>2. free' \subseteq free
  BY DEF FreeReach, FreeFails, Hear, HearAll, formVars, work
<1>3. loads' = loads \/ (incidentNumber # New /\ BeginLoad("other"))
  BY DEF FreeReach, FreeFails, Hear, HearAll, formVars, NumberInv
<1>4. LoadInv'
  <2>1. CASE loads' = loads
    BY <1>1, <2>1 DEF LoadInv
  <2>2. CASE BeginLoad("other")
    BY <1>1, <2>2, BeginLoadInv
  <2> QED
    BY <1>3, <2>1, <2>2
<1>5. NumberInv'
  BY <1>1, <1>2, <1>3 DEF NumberInv
<1>6. Len(stored') = Len(stored)
  <2>1. CASE UNCHANGED stored
    BY <2>1
  <2>2. ASSUME NEW w \in free, FreeReach(w)
        PROVE  Len(stored') = Len(stored)
    <3>1. w \in 0 .. MaxWrites /\ incidentNumber \in 0 .. Len(stored)
      BY BoundsAssumption DEF FormTyped
    <3>2. incidentNumber # New
      BY DEF NumberInv
    <3>3. stored' = Stored(incidentNumber, Members, w)
      BY <2>2 DEF FreeReach
    <3>4. Len(stored') = IF incidentNumber = New THEN Len(stored) + 1 ELSE Len(stored)
      BY <3>1, <3>3, StoredTyped
    <3> QED
      BY <3>2, <3>4
  <2> QED
    BY <2>1, <2>2 DEF FreeFails, Hear, HearAll, formVars
<1>7. CountInv'
  BY <1>1, <1>6 DEF CountInv
<1> QED
  BY <1>4, <1>5, <1>7

-----------------------------------------------------------------------------
\* An edit stays where it is, or what has become of it is known.
LEMMA TypingKept ==
  ASSUME FormTyped, FormTyped', NoTypingLost,
         typed' = typed, typing' = typing, typing \in Fields => shown'[typing] = shown[typing],
         \A i \in 1 .. Len(chain) : chain[i].field \in Fields =>
           \/ \E j \in 1 .. Len(chain') : chain'[j] = chain[i]
           \/ \E t \in 1 .. Len(stored) : <<t, chain[i].field, chain[i].write>> \in applied
           \/ chain[i].write \in refused',
         applied \subseteq applied', refused \subseteq refused', Len(stored') >= Len(stored)
  PROVE  NoTypingLost'
<1>1. /\ DOMAIN chain = 1 .. Len(chain) /\ DOMAIN chain' = 1 .. Len(chain')
      /\ DOMAIN stored = 1 .. Len(stored) /\ DOMAIN stored' = 1 .. Len(stored')
      /\ Len(stored) \in Nat /\ Len(stored') \in Nat
  <2>1. chain \in Seq(Mutation) /\ stored \in Seq(Content)
    BY DEF FormTyped
  <2>2. chain' \in Seq(Mutation) /\ stored' \in Seq(Content)
    BY DEF FormTyped
  <2> QED
    BY <2>1, <2>2, LenProperties
<1>2. SUFFICES ASSUME NEW x \in typed
               PROVE  \/ typing' = x[1] /\ shown'[x[1]] = x[2]
                      \/ \E i \in DOMAIN chain' : chain'[i].field = x[1] /\ chain'[i].write = x[2]
                      \/ \E t \in DOMAIN stored' : <<t, x[1], x[2]>> \in applied'
                      \/ x[2] \in refused'
  BY DEF NoTypingLost
<1>3. x[1] \in Fields
  <2>1. x \in Fields \X (1 .. MaxWrites)
    BY DEF FormTyped
  <2> QED
    BY <2>1
<1>4. \/ typing = x[1] /\ shown[x[1]] = x[2]
      \/ \E i \in DOMAIN chain : chain[i].field = x[1] /\ chain[i].write = x[2]
      \/ \E t \in DOMAIN stored : <<t, x[1], x[2]>> \in applied
      \/ x[2] \in refused
  BY DEF NoTypingLost
<1>5. \A t \in 1 .. Len(stored) : t \in DOMAIN stored'
  BY <1>1
<1>6. CASE typing = x[1] /\ shown[x[1]] = x[2]
  BY <1>3, <1>6
<1>7. CASE \E i \in DOMAIN chain : chain[i].field = x[1] /\ chain[i].write = x[2]
  <2>1. PICK i \in 1 .. Len(chain) : chain[i].field = x[1] /\ chain[i].write = x[2]
    BY <1>1, <1>7
  <2>2. CASE \E j \in 1 .. Len(chain') : chain'[j] = chain[i]
    BY <1>1, <2>1, <2>2
  <2>3. CASE \E t \in 1 .. Len(stored) : <<t, chain[i].field, chain[i].write>> \in applied
    BY <1>1, <1>5, <2>1, <2>3
  <2>4. CASE chain[i].write \in refused'
    BY <2>1, <2>4
  <2> QED
    BY <1>3, <2>1, <2>2, <2>3, <2>4
<1>8. CASE \E t \in DOMAIN stored : <<t, x[1], x[2]>> \in applied
  BY <1>1, <1>5, <1>8
<1>9. CASE x[2] \in refused
  BY <1>9
<1> QED
  BY <1>4, <1>6, <1>7, <1>8, <1>9

\* The mutation that has run is stored, or was answered with an error; the others wait.
LEMMA FinishKeeps ==
  ASSUME FormTyped, chain # <<>>, NEW ok \in BOOLEAN, Finish(ok),
         ok /\ Head(chain).field \in Fields =>
           \E t \in 1 .. Len(stored) : <<t, Head(chain).field, Head(chain).write>> \in applied
  PROVE  /\ \A i \in 1 .. Len(chain) : chain[i].field \in Fields =>
              \/ \E j \in 1 .. Len(chain') : chain'[j] = chain[i]
              \/ \E t \in 1 .. Len(stored) : <<t, chain[i].field, chain[i].write>> \in applied
              \/ chain[i].write \in refused'
         /\ refused \subseteq refused'
         /\ phase' = "idle"
<1>1. /\ \A i \in 2 .. Len(chain) : i - 1 \in 1 .. Len(chain') /\ chain'[i - 1] = chain[i]
      /\ refused' = IF ok THEN refused ELSE refused \cup {Head(chain).write}
      /\ phase' = "idle"
  BY FinishFacts
<1>2. Head(chain) = chain[1] /\ Len(chain) \in Nat
  BY HeadFacts, LenProperties DEF FormTyped
<1>3. refused \subseteq refused' /\ (~ok => Head(chain).write \in refused')
  BY <1>1
<1>4. ASSUME NEW i \in 1 .. Len(chain), chain[i].field \in Fields
      PROVE  \/ \E j \in 1 .. Len(chain') : chain'[j] = chain[i]
             \/ \E t \in 1 .. Len(stored) : <<t, chain[i].field, chain[i].write>> \in applied
             \/ chain[i].write \in refused'
  <2>1. CASE i = 1
    BY <1>2, <1>3, <1>4, <2>1
  <2>2. CASE i # 1
    <3>1. i \in 2 .. Len(chain)
      BY <1>2, <2>2
    <3>2. i - 1 \in 1 .. Len(chain') /\ chain'[i - 1] = chain[i]
      BY <1>1, <3>1
    <3> QED
      BY <3>2
  <2> QED
    BY <2>1, <2>2
<1> QED
  BY <1>1, <1>3, <1>4

\* While a mutation runs, what is handed over is put behind it.
LEMMA HeadKept ==
  ASSUME FormTyped, FormTyped', HeadInv, phase' = phase, applied \subseteq applied',
         Len(stored') >= Len(stored),
         chain' = chain \/ \E m \in Mutation : chain' = Append(chain, m)
  PROVE  HeadInv'
<1>1. Len(stored) \in Nat /\ Len(stored') \in Nat
  <2>1. stored \in Seq(Content)
    BY DEF FormTyped
  <2>2. stored' \in Seq(Content)
    BY DEF FormTyped
  <2> QED
    BY <2>1, <2>2, LenProperties
<1>2. chain # <<>> => Head(chain') = Head(chain)
  <2>1. CASE chain' = chain
    BY <2>1
  <2>2. ASSUME NEW m \in Mutation, chain' = Append(chain, m), chain # <<>>
        PROVE  Head(chain') = Head(chain)
    <3>1. /\ chain' \in Seq(Mutation) /\ chain' # <<>>
          /\ \A i \in 1 .. Len(chain) : chain'[i] = chain[i]
      BY <2>2, HandedFacts
    <3>2. 1 \in 1 .. Len(chain) /\ Head(chain) = chain[1]
      BY <2>2, HeadFacts
    <3>3. Head(chain') = chain'[1]
      BY <3>1, HeadTailProperties
    <3> QED
      BY <3>1, <3>2, <3>3
  <2> QED
    BY <2>1, <2>2
<1>3. phase \in {"answered", "load"} => chain # <<>>
  BY DEF FormTyped
<1>4. SUFFICES ASSUME phase' \in {"answered", "load"}, Head(chain').field \in Fields
               PROVE  \E t \in 1 .. Len(stored') :
                        <<t, Head(chain').field, Head(chain').write>> \in applied'
  BY DEF HeadInv
<1>5. PICK t \in 1 .. Len(stored) : <<t, Head(chain).field, Head(chain).write>> \in applied
  BY <1>2, <1>3, <1>4 DEF HeadInv
<1>6. t \in 1 .. Len(stored')
  BY <1>1, <1>5
<1> QED
  BY <1>2, <1>3, <1>4, <1>5, <1>6

\* A redraw leaves what is being typed.
LEMMA RedrawnTyping ==
  ASSUME FormTyped, NEW content \in Content, shown' = Drawn(content)
  PROVE  typing \in Fields => shown'[typing] = shown[typing]
<1>1. shown \in Content
  BY DEF FormTyped
<1>2. \A c \in Columns : Drawn(content)[c] = IF c = typing THEN shown[c] ELSE content[c]
  BY <1>1, DrawnFacts
<1> QED
  BY <1>2 DEF Columns

\* What is typed stays in its control until it is handed over.
LEMMA UserTyping ==
  ASSUME FormTyped, FormTyped', NumberInv, HeadInv, NoTypingLost,
         \/ \E f \in Fields : Type(f) \/ OthersWrite(f)
         \/ Commit
         \/ \E way \in {"chain", "free"} : Click(way)
  PROVE  HeadInv' /\ NoTypingLost'
<1>0. /\ phase' = phase /\ applied' = applied /\ refused' = refused
      /\ Len(stored) \in Nat /\ stored \in Seq(Content) /\ chain \in Seq(Mutation)
      /\ Len(chain) \in Nat
  BY LenProperties DEF Type, OthersWrite, Commit, Click, page, work, history, FormTyped
<1>1. ASSUME NEW f \in Fields, Type(f)
      PROVE  HeadInv' /\ NoTypingLost'
  <2>1. /\ UNCHANGED <<stored, chain>> /\ typing = Nothing
        /\ typing' = f /\ shown' = [shown EXCEPT ![f] = writes']
        /\ typed' = typed \cup {<<f, writes'>>}
    BY <1>1 DEF Type, work
  <2>2. HeadInv'
    BY <1>0, <2>1, HeadKept
  <2>3. shown'[f] = writes'
    <3>1. f \in Columns /\ shown \in Content
      BY DEF Columns, FormTyped
    <3> QED
      BY <2>1, <3>1 DEF Content
  <2>4. SUFFICES ASSUME NEW x \in typed'
                 PROVE  \/ typing' = x[1] /\ shown'[x[1]] = x[2]
                        \/ \E i \in DOMAIN chain' : chain'[i].field = x[1] /\ chain'[i].write = x[2]
                        \/ \E t \in DOMAIN stored' : <<t, x[1], x[2]>> \in applied'
                        \/ x[2] \in refused'
    BY <2>2 DEF NoTypingLost
  <2>5. CASE x = <<f, writes'>>
    BY <2>1, <2>3, <2>5
  <2>6. CASE x \in typed
    <3>1. x[1] # Nothing
      <4>1. x \in Fields \X (1 .. MaxWrites)
        BY <2>6 DEF FormTyped
      <4> QED
        BY <4>1, FieldsAssumption
    <3>2. \/ typing = x[1] /\ shown[x[1]] = x[2]
          \/ \E i \in DOMAIN chain : chain[i].field = x[1] /\ chain[i].write = x[2]
          \/ \E t \in DOMAIN stored : <<t, x[1], x[2]>> \in applied
          \/ x[2] \in refused
      BY <2>6 DEF NoTypingLost
    <3> QED
      BY <1>0, <2>1, <3>1, <3>2
  <2> QED
    BY <2>1, <2>5, <2>6
<1>2. ASSUME NEW f \in Fields, OthersWrite(f)
      PROVE  HeadInv' /\ NoTypingLost'
  <2>1. UNCHANGED <<chain, typing, shown, typed>>
    BY <1>2 DEF OthersWrite, page, work, history
  <2>2. Len(stored') >= Len(stored)
    <3>1. writes' \in 0 .. MaxWrites /\ incidentNumber \in 0 .. Len(stored)
      BY <1>2, BoundsAssumption DEF OthersWrite, Write, FormTyped
    <3>2. PICK w \in 0 .. MaxWrites : w = writes'
      BY <3>1
    <3>3. stored' = Stored(incidentNumber, f, w)
      BY <1>2, <3>2 DEF OthersWrite
    <3> QED
      BY <3>1, <3>3, StoredTyped
  <2>3. HeadInv'
    BY <1>0, <2>1, <2>2, HeadKept
  <2>4. NoTypingLost'
    BY <1>0, <2>1, <2>2, TypingKept
  <2> QED
    BY <2>3, <2>4
<1>3. CASE Commit
  <2> DEFINE m == [field |-> typing, write |-> shown[typing], next |-> "done"]
  <2>1. typing \in Columns /\ shown[typing] \in 1 .. MaxWrites
    BY <1>3, BoundsAssumption DEF FormTyped, Commit, Columns, Content
  <2>2. m \in Mutation /\ m.field = typing /\ m.write = shown[typing]
    BY <2>1 DEF Mutation
  <2>3. chain' = Append(chain, m)
    BY <1>3 DEF Commit
  <2> HIDE DEF m
  <2>4. /\ chain' \in Seq(Mutation) /\ Len(chain') = Len(chain) + 1
        /\ \A i \in 1 .. Len(chain) : chain'[i] = chain[i]
        /\ chain'[Len(chain) + 1] = m
    BY <2>2, <2>3, HandedFacts
  <2>5. UNCHANGED <<stored, typed>>
    BY <1>3 DEF Commit, history
  <2>6. HeadInv'
    BY <1>0, <2>2, <2>3, <2>5, HeadKept
  <2>7. /\ DOMAIN chain = 1 .. Len(chain) /\ DOMAIN chain' = 1 .. Len(chain')
        /\ Len(chain) + 1 \in 1 .. Len(chain')
        /\ \A i \in 1 .. Len(chain) : i \in 1 .. Len(chain')
    BY <1>0, <2>4, LenProperties
  <2>8. SUFFICES ASSUME NEW x \in typed
                 PROVE  \/ typing' = x[1] /\ shown'[x[1]] = x[2]
                        \/ \E i \in DOMAIN chain' : chain'[i].field = x[1] /\ chain'[i].write = x[2]
                        \/ \E t \in DOMAIN stored' : <<t, x[1], x[2]>> \in applied'
                        \/ x[2] \in refused'
    BY <2>5, <2>6 DEF NoTypingLost
  <2>9. \/ typing = x[1] /\ shown[x[1]] = x[2]
        \/ \E i \in DOMAIN chain : chain[i].field = x[1] /\ chain[i].write = x[2]
        \/ \E t \in DOMAIN stored : <<t, x[1], x[2]>> \in applied
        \/ x[2] \in refused
    BY DEF NoTypingLost
  <2>10. CASE typing = x[1] /\ shown[x[1]] = x[2]
    BY <2>2, <2>4, <2>7, <2>10
  <2>11. CASE \E i \in DOMAIN chain : chain[i].field = x[1] /\ chain[i].write = x[2]
    BY <2>4, <2>7, <2>11
  <2>12. CASE \/ \E t \in DOMAIN stored : <<t, x[1], x[2]>> \in applied
              \/ x[2] \in refused
    BY <1>0, <2>5, <2>12
  <2> QED
    BY <2>9, <2>10, <2>11, <2>12
<1>4. ASSUME NEW way \in {"chain", "free"}, Click(way)
      PROVE  HeadInv' /\ NoTypingLost'
  <2>1. UNCHANGED <<stored, typing, shown, typed>>
    BY <1>4 DEF Click, page, history
  <2>2. chain' = chain \/ \E m \in Mutation : chain' = Append(chain, m)
    <3>1. writes' \in 1 .. MaxWrites
      BY <1>4, BoundsAssumption DEF Click, Write, FormTyped
    <3>2. /\ [field |-> Nothing, write |-> writes', next |-> way] \in Mutation
          /\ [field |-> Members, write |-> writes', next |-> "done"] \in Mutation
      BY <3>1 DEF Mutation, Columns
    <3>3. CASE way = "free" /\ incidentNumber # New
      BY <1>4, <3>3 DEF Click
    <3>4. CASE ~(way = "free" /\ incidentNumber # New)
      <4>1. chain' = Append(chain,
                 IF incidentNumber = New THEN [field |-> Nothing, write |-> writes', next |-> way]
                                 ELSE [field |-> Members, write |-> writes', next |-> "done"])
        BY <1>4, <3>4 DEF Click
      <4> QED
        BY <3>2, <4>1
    <3> QED
      BY <3>3, <3>4
  <2>3. HeadInv'
    BY <1>0, <2>1, <2>2, HeadKept
  <2>4. \A i \in 1 .. Len(chain) : \E j \in 1 .. Len(chain') : chain'[j] = chain[i]
    <3>1. CASE chain' = chain
      BY <3>1
    <3>2. ASSUME NEW m \in Mutation, chain' = Append(chain, m)
          PROVE  \A i \in 1 .. Len(chain) : \E j \in 1 .. Len(chain') : chain'[j] = chain[i]
      <4>1. /\ Len(chain') = Len(chain) + 1
            /\ \A i \in 1 .. Len(chain) : chain'[i] = chain[i]
        BY <3>2, HandedFacts
      <4>2. \A i \in 1 .. Len(chain) : i \in 1 .. Len(chain')
        BY <1>0, <4>1
      <4> QED
        BY <4>1, <4>2
    <3> QED
      BY <2>2, <3>1, <3>2
  <2>5. /\ typed' = typed /\ typing' = typing /\ shown' = shown /\ applied' = applied
        /\ refused' = refused /\ Len(stored') >= Len(stored)
    BY <1>0, <2>1
  <2>6. NoTypingLost'
    BY <2>4, <2>5, TypingKept
  <2> QED
    BY <2>3, <2>6
<1> QED
  BY <1>1, <1>2, <1>3, <1>4

LEMMA LoadTyping ==
  ASSUME FormTyped, FormTyped', LoadInv, HeadInv, NoTypingLost,
         NEW i \in DOMAIN loads, ReadLoad(i) \/ Draw(i) \/ LoadFails(i)
  PROVE  HeadInv' /\ NoTypingLost'
<1>0. /\ UNCHANGED <<stored, typing, applied, typed>>
      /\ Len(stored) \in Nat /\ i \in 1 .. Len(loads)
  BY LenProperties DEF ReadLoad, Draw, LoadFails, page, history, FormTyped
<1>1. CASE ReadLoad(i)
  <2>1. UNCHANGED <<chain, phase, shown, refused>>
    BY <1>1 DEF ReadLoad, page, work, history
  <2>2. HeadInv'
    BY <1>0, <2>1, HeadKept
  <2>3. NoTypingLost'
    BY <1>0, <2>1, TypingKept
  <2> QED
    BY <2>2, <2>3
<1>2. CASE Draw(i) \/ LoadFails(i)
  <2>1. loads' = RemoveAt(loads, i) /\ AfterDraw(loads[i])
    BY <1>2 DEF Draw, LoadFails
  <2>2. PICK content \in Content : shown' = Drawn(content)
    <3>1. loads[i] \in Load /\ incident \in Content
      BY <2>1, EndLoadFacts DEF FormTyped
    <3> QED
      BY <1>2, <3>1 DEF Draw, LoadFails, Load
  <2>3. typing \in Fields => shown'[typing] = shown[typing]
    BY <2>2, RedrawnTyping
  <2>4. CASE loads[i].by = "chain"
    <3>1. phase \in {"load", "reload"} /\ chain # <<>>
      BY <1>0, <2>4 DEF LoadInv, FormTyped
    <3>2. PICK ok \in BOOLEAN : Finish(ok) /\ ok = (phase = "load")
      BY <2>1, <2>4 DEF AfterDraw
    <3>3. ok /\ Head(chain).field \in Fields =>
            \E t \in 1 .. Len(stored) : <<t, Head(chain).field, Head(chain).write>> \in applied
      BY <3>2 DEF HeadInv
    <3>4. /\ \A j \in 1 .. Len(chain) : chain[j].field \in Fields =>
              \/ \E k \in 1 .. Len(chain') : chain'[k] = chain[j]
              \/ \E t \in 1 .. Len(stored) : <<t, chain[j].field, chain[j].write>> \in applied
              \/ chain[j].write \in refused'
          /\ refused \subseteq refused'
          /\ phase' = "idle"
      BY <3>1, <3>2, <3>3, FinishKeeps
    <3>5. HeadInv'
      BY <3>4 DEF HeadInv
    <3>6. /\ typed' = typed /\ typing' = typing /\ applied \subseteq applied'
          /\ Len(stored') >= Len(stored)
      BY <1>0
    <3>7. NoTypingLost'
      BY ONLY <2>3, <3>4, <3>6, TypingKept, FormTyped, FormTyped', NoTypingLost
    <3> QED
      BY <3>5, <3>7
  <2>5. CASE loads[i].by # "chain"
    <3>1. UNCHANGED <<chain, phase, refused>>
      BY <2>1, <2>5 DEF AfterDraw, work
    <3>2. HeadInv'
      BY <1>0, <3>1, HeadKept
    <3>3. NoTypingLost'
      BY <1>0, <2>3, <3>1, TypingKept
    <3> QED
      BY <3>2, <3>3
  <2> QED
    BY <2>4, <2>5
<1> QED
  BY <1>1, <1>2

LEMMA ChainTyping ==
  ASSUME FormTyped, FormTyped', NumberInv, HeadInv, NoTypingLost,
         Start \/ Reach \/ Refuse \/ Answered \/ AnsweredRoster \/ Failed
  PROVE  HeadInv' /\ NoTypingLost'
<1>0. /\ UNCHANGED <<typing, typed>>
      /\ Len(stored) \in Nat /\ target \in 0 .. Len(stored)
      /\ (phase # "idle" => chain # <<>>)
  <2>1. UNCHANGED <<typing, typed>>
    BY DEF Start, Reach, Refuse, Answered, AnsweredRoster, Failed, page, history
  <2>2. Len(stored) \in Nat
    BY LenProperties DEF FormTyped
  <2>3. incidentNumber \in 0 .. Len(stored) /\ target \in 0 .. incidentNumber
        /\ (phase # "idle" => chain # <<>>)
    BY DEF FormTyped
  <2> QED
    BY <2>1, <2>2, <2>3
<1>1. CASE Start \/ Refuse \/ Answered
  <2>1. /\ UNCHANGED <<stored, shown, chain, applied, refused>>
        /\ phase' = "answered" => FALSE
        /\ phase' = "load" => phase = "answered"
    BY <1>1 DEF Start, Refuse, Answered, page, history
  <2>2. HeadInv'
    BY <2>1 DEF HeadInv
  <2>3. applied \subseteq applied' /\ refused \subseteq refused' /\ Len(stored') >= Len(stored)
    BY <1>0, <2>1
  <2>4. NoTypingLost'
    BY <1>0, <2>1, <2>3, TypingKept
  <2> QED
    BY <2>2, <2>4
<1>2. CASE Reach
  <2>1. /\ phase = "post" /\ stored' = Stored(target, Head(chain).field, Head(chain).write)
        /\ UNCHANGED <<shown, chain, refused>>
    BY <1>2 DEF Reach, page
  <2>2. PICK m \in Mutation : m = Head(chain)
    BY <1>0, <2>1, HeadFacts
  <2>3. m.write \in 0 .. MaxWrites
    BY BoundsAssumption DEF Mutation
  <2>4. /\ Len(stored') >= Len(stored) /\ Len(stored') \in Nat
        /\ Len(stored') = IF target = New THEN Len(stored) + 1 ELSE Len(stored)
    BY <1>0, <2>1, <2>2, <2>3, StoredTyped
  <2>5. /\ applied \subseteq applied'
        /\ m.field \in Fields => \E t \in 1 .. Len(stored') : <<t, m.field, m.write>> \in applied'
    <3> DEFINE t == IF target = New THEN Len(stored) + 1 ELSE target
    <3>1. t \in 1 .. Len(stored')
      BY <1>0, <2>4 DEF New
    <3>2. applied' = IF m.field \in Fields THEN applied \cup {<<t, m.field, m.write>>} ELSE applied
      BY <1>2, <2>2 DEF Reach
    <3> HIDE DEF t
    <3> QED
      BY <3>1, <3>2
  <2>6. HeadInv'
    BY <2>1, <2>2, <2>5 DEF HeadInv
  <2>7. refused \subseteq refused'
    BY <2>1
  <2>8. NoTypingLost'
    BY <1>0, <2>1, <2>4, <2>5, <2>7, TypingKept
  <2> QED
    BY <2>6, <2>8
<1>3. CASE AnsweredRoster
  <2>1. PICK ok \in BOOLEAN : Finish(ok)
    BY <1>3 DEF AnsweredRoster
  <2>2. /\ UNCHANGED <<stored, shown, applied>> /\ Head(chain).field = Members /\ chain # <<>>
    BY <1>0, <1>3 DEF AnsweredRoster, page
  <2>3. Head(chain).field \notin Fields
    BY <2>2, FieldsAssumption
  <2>4. /\ \A j \in 1 .. Len(chain) : chain[j].field \in Fields =>
            \/ \E k \in 1 .. Len(chain') : chain'[k] = chain[j]
            \/ \E t \in 1 .. Len(stored) : <<t, chain[j].field, chain[j].write>> \in applied
            \/ chain[j].write \in refused'
        /\ refused \subseteq refused'
        /\ phase' = "idle"
    BY <2>1, <2>2, <2>3, FinishKeeps
  <2>5. HeadInv'
    BY <2>4 DEF HeadInv
  <2>6. /\ typed' = typed /\ typing' = typing /\ shown' = shown /\ applied \subseteq applied'
        /\ Len(stored') >= Len(stored)
    BY <1>0, <2>2
  <2>7. NoTypingLost'
    BY ONLY <2>4, <2>6, TypingKept, FormTyped, FormTyped', NoTypingLost
  <2> QED
    BY <2>5, <2>7
<1>4. CASE Failed
  <2>0. phase = "failed" /\ chain # <<>> /\ UNCHANGED <<stored, applied>>
    BY <1>0, <1>4 DEF Failed
  <2>1. CASE DrawNew("chain") /\ Finish(FALSE)
    <3>1. Empty \in Content
      BY BoundsAssumption DEF Empty, Content
    <3>2. typing \in Fields => shown'[typing] = shown[typing]
      BY <2>1, <3>1, RedrawnTyping DEF DrawNew
    <3>3. /\ \A j \in 1 .. Len(chain) : chain[j].field \in Fields =>
              \/ \E k \in 1 .. Len(chain') : chain'[k] = chain[j]
              \/ \E t \in 1 .. Len(stored) : <<t, chain[j].field, chain[j].write>> \in applied
              \/ chain[j].write \in refused'
          /\ refused \subseteq refused'
          /\ phase' = "idle"
      BY <2>0, <2>1, FinishKeeps
    <3>4. HeadInv'
      BY <3>3 DEF HeadInv
    <3>5. /\ typed' = typed /\ typing' = typing /\ applied \subseteq applied'
          /\ Len(stored') >= Len(stored)
      BY <1>0, <2>0
    <3>6. NoTypingLost'
      BY ONLY <3>2, <3>3, <3>5, TypingKept, FormTyped, FormTyped', NoTypingLost
    <3> QED
      BY <3>4, <3>6
  <2>2. CASE phase' = "reload" /\ UNCHANGED <<shown, chain, refused>>
    <3>1. HeadInv'
      BY <2>2 DEF HeadInv
    <3>2. applied \subseteq applied' /\ refused \subseteq refused' /\ Len(stored') >= Len(stored)
      BY <1>0, <2>0, <2>2
    <3>3. NoTypingLost'
      BY <1>0, <2>2, <3>2, TypingKept
    <3> QED
      BY <3>1, <3>3
  <2> QED
    BY <1>4, <2>1, <2>2 DEF Failed
<1> QED
  BY <1>1, <1>2, <1>3, <1>4

LEMMA OtherTyping ==
  ASSUME FormTyped, FormTyped', NumberInv, HeadInv, NoTypingLost,
         \/ \E w \in free : FreeReach(w) \/ FreeFails(w)
         \/ Hear \/ HearAll
         \/ UNCHANGED formVars
  PROVE  HeadInv' /\ NoTypingLost'
<1>1. UNCHANGED <<chain, phase, typing, applied, refused, typed>>
  BY DEF FreeReach, FreeFails, Hear, HearAll, formVars, page, work, history
<1>2. Len(stored') >= Len(stored)
  <2>1. CASE UNCHANGED stored
    <3>1. Len(stored) \in Nat
      BY LenProperties DEF FormTyped
    <3> QED
      BY <2>1, <3>1
  <2>2. ASSUME NEW w \in free, FreeReach(w)
        PROVE  Len(stored') >= Len(stored)
    <3>1. w \in 0 .. MaxWrites /\ incidentNumber \in 0 .. Len(stored)
      BY BoundsAssumption DEF FormTyped
    <3>2. stored' = Stored(incidentNumber, Members, w)
      BY <2>2 DEF FreeReach
    <3> QED
      BY <3>1, <3>2, StoredTyped
  <2> QED
    BY <2>1, <2>2 DEF FreeFails, Hear, HearAll, formVars
<1>3. typing \in Fields => shown'[typing] = shown[typing]
  <2>1. CASE UNCHANGED shown
    BY <2>1
  <2>2. CASE DrawNew("other")
    <3>1. Empty \in Content
      BY BoundsAssumption DEF Empty, Content
    <3> QED
      BY <2>2, <3>1, RedrawnTyping DEF DrawNew
  <2> QED
    BY <2>1, <2>2 DEF FreeReach, FreeFails, Hear, HearAll, formVars, page
<1>4. HeadInv'
  BY <1>1, <1>2, HeadKept
<1>5. NoTypingLost'
  BY <1>1, <1>2, <1>3, TypingKept
<1> QED
  BY <1>4, <1>5

-----------------------------------------------------------------------------
\* A user's write is the number of a record, a field and what is written.
LEMMA AppliedFacts ==
  ASSUME FormTyped, NEW x \in applied
  PROVE  x[1] \in 1 .. Len(stored) /\ x[2] \in Fields /\ x[2] \in Columns /\ x[2] # Members
         /\ x[3] \in 1 .. MaxWrites
<1>1. x \in (1 .. Len(stored)) \X Fields \X (1 .. MaxWrites)
  BY DEF FormTyped
<1> QED
  BY <1>1, FieldsAssumption DEF Columns

\* What is handed to the chain is written with a number.
LEMMA HandedTyped ==
  ASSUME FormTyped, NEW i \in 1 .. Len(chain)
  PROVE  chain[i] \in Mutation /\ chain[i].write \in 1 .. MaxWrites
<1>1. chain[i] \in Mutation
  BY ElementOfSeq DEF FormTyped
<1> QED
  BY <1>1 DEF Mutation

\* The order of the writes is kept by whatever only takes edits from the front of the
\* chain, and stores nothing older.
LEMMA OrderKept ==
  ASSUME FormTyped, OrderInv, NEW d \in {0, 1},
         \A j \in 1 .. Len(chain') : chain'[j].field \in Fields =>
           j + d \in 1 .. Len(chain) /\ chain'[j] = chain[j + d],
         applied' = applied, typing' = typing, typing \in Fields => shown'[typing] = shown[typing],
         writes' \in Nat, writes <= writes',
         \A x \in applied : x[3] <= stored'[x[1]][x[2]]
  PROVE  OrderInv'
<1>0. writes \in Nat /\ \A x \in applied : x[3] \in Nat
  <2>1. writes \in Nat
    BY BoundsAssumption DEF FormTyped
  <2>2. \A x \in applied : x[3] \in Nat
    BY AppliedFacts, BoundsAssumption
  <2> QED
    BY <2>1, <2>2
<1>1. ASSUME NEW x \in applied
      PROVE  x[3] <= writes'
  <2>1. x[3] <= writes
    BY DEF OrderInv
  <2> QED
    BY <1>0, <2>1
<1>2. ASSUME NEW j \in 1 .. Len(chain'), chain'[j].field \in Fields
      PROVE  /\ chain'[j].write <= writes'
             /\ \A x \in applied : x[2] = chain'[j].field => x[3] <= chain'[j].write
             /\ chain'[j].field = typing => chain'[j].write <= shown'[typing]
             /\ \A k \in 1 .. Len(chain') :
                  j < k /\ chain'[k].field = chain'[j].field => chain'[j].write <= chain'[k].write
  <2>1. j + d \in 1 .. Len(chain) /\ chain'[j] = chain[j + d]
    BY <1>2
  <2>2. PICK i \in 1 .. Len(chain) : i = j + d /\ chain'[j] = chain[i]
    BY <2>1
  <2>3. /\ chain[i].write <= writes
        /\ \A x \in applied : x[2] = chain[i].field => x[3] <= chain[i].write
        /\ chain[i].field = typing => chain[i].write <= shown[typing]
        /\ \A k \in 1 .. Len(chain) :
             i < k /\ chain[k].field = chain[i].field => chain[i].write <= chain[k].write
    BY <1>2, <2>2 DEF OrderInv
  <2>4. chain[i].write \in Nat
    BY HandedTyped, BoundsAssumption
  <2>5. chain'[j].write <= writes'
    BY <1>0, <2>2, <2>3, <2>4
  <2>6. chain'[j].field = typing => chain'[j].write <= shown'[typing]
    BY <1>2, <2>2, <2>3
  <2>7. ASSUME NEW k \in 1 .. Len(chain'), j < k, chain'[k].field = chain'[j].field
        PROVE  chain'[j].write <= chain'[k].write
    <3>1. k + d \in 1 .. Len(chain) /\ chain'[k] = chain[k + d]
      BY <1>2, <2>7
    <3>2. i < k + d
      BY <2>2, <2>7
    <3> QED
      BY <2>2, <2>3, <2>7, <3>1, <3>2
  <2> QED
    BY <2>2, <2>3, <2>5, <2>6, <2>7
<1>3. ASSUME typing \in Fields
      PROVE  shown'[typing] <= writes' /\ \A x \in applied : x[2] = typing => x[3] <= shown'[typing]
  <2>1. shown[typing] <= writes /\ \A x \in applied : x[2] = typing => x[3] <= shown[typing]
    BY <1>3 DEF OrderInv
  <2>2. shown[typing] \in Nat
    BY <1>3, BoundsAssumption DEF FormTyped, Content, Columns
  <2> QED
    BY <1>0, <1>3, <2>1, <2>2
<1> QED
  BY <1>1, <1>2, <1>3 DEF OrderInv

\* The edits that are left when a mutation ends.
LEMMA FinishOrder ==
  ASSUME FormTyped, chain # <<>>, NEW ok \in BOOLEAN, Finish(ok)
  PROVE  \A j \in 1 .. Len(chain') : chain'[j].field \in Fields =>
           j + 1 \in 1 .. Len(chain) /\ chain'[j] = chain[j + 1]
<1>1. \A j \in 1 .. Len(chain') :
        \/ j + 1 \in 2 .. Len(chain) /\ chain'[j] = chain[j + 1]
        \/ ok /\ j = Len(chain') /\ chain'[j].field = Members
  BY FinishFacts
<1>2. \A j \in 1 .. Len(chain') :
        \/ j + 1 \in 2 .. Len(chain) /\ chain'[j] = chain[j + 1]
        \/ chain'[j].field = Members
  BY ONLY <1>1, Zenon
<1>3. Len(chain) \in Nat
  BY LenProperties DEF FormTyped
<1> QED
  BY <1>2, <1>3, FieldsAssumption

\* What is stored of the user's writes is not overwritten by anything older.
LEMMA StoredOrder ==
  ASSUME FormTyped, OrderInv, NEW t \in 0 .. Len(stored), NEW f, NEW w \in 0 .. MaxWrites,
         stored' = Stored(t, f, w), \A x \in applied : x[2] = f => x[3] <= w
  PROVE  \A x \in applied : x[3] <= stored'[x[1]][x[2]]
<1>1. \A k \in 1 .. Len(stored), c \in Columns :
        Stored(t, f, w)[k][c] = IF k = t /\ c = f THEN w ELSE stored[k][c]
  BY StoredFacts DEF FormTyped
<1>2. SUFFICES ASSUME NEW x \in applied
               PROVE  x[3] <= stored'[x[1]][x[2]]
  OBVIOUS
<1>3. x[1] \in 1 .. Len(stored) /\ x[2] \in Columns
  BY AppliedFacts
<1>4. stored'[x[1]][x[2]] = IF x[1] = t /\ x[2] = f THEN w ELSE stored[x[1]][x[2]]
  BY <1>1, <1>3
<1>5. x[3] <= stored[x[1]][x[2]]
  BY DEF OrderInv
<1> QED
  BY <1>4, <1>5

\* A step that adds no edit and stores nothing.
LEMMA OrderSame ==
  ASSUME FormTyped, OrderInv, UNCHANGED <<stored, chain, typing, applied>>,
         typing \in Fields => shown'[typing] = shown[typing],
         writes' \in Nat, writes <= writes'
  PROVE  OrderInv'
<1>1. \A x \in applied : x[3] <= stored'[x[1]][x[2]]
  BY DEF OrderInv
<1>2. Len(chain) \in Nat
  BY LenProperties DEF FormTyped
<1>3. \A j \in 1 .. Len(chain') : j + 0 \in 1 .. Len(chain) /\ chain'[j] = chain[j + 0]
  BY <1>2
<1> QED
  BY <1>1, <1>3, OrderKept

LEMMA UserOrder ==
  ASSUME FormTyped, FormTyped', NumberInv, OrderInv,
         \/ \E f \in Fields : Type(f) \/ OthersWrite(f)
         \/ Commit
         \/ \E way \in {"chain", "free"} : Click(way)
  PROVE  OrderInv'
<1>0. /\ Len(chain) \in Nat /\ writes \in Nat /\ writes \in 0 .. MaxWrites /\ MaxWrites \in Nat
      /\ applied' = applied
      /\ writes' \in Nat
  BY LenProperties, BoundsAssumption
  DEF FormTyped, Type, OthersWrite, Commit, Click, Write, history
<1>1. ASSUME NEW f \in Fields, Type(f)
      PROVE  OrderInv'
  <2>1. /\ UNCHANGED <<stored, chain>> /\ typing = Nothing /\ f # Nothing
        /\ typing' = f /\ shown' = [shown EXCEPT ![f] = writes'] /\ writes' = writes + 1
    BY <1>1, FieldsAssumption DEF Type, Write, work
  <2>2. shown'[f] = writes'
    <3>1. f \in Columns /\ shown \in Content
      BY DEF Columns, FormTyped
    <3> QED
      BY <2>1, <3>1 DEF Content
  <2>3. \A x \in applied : x[3] \in Nat
    BY AppliedFacts, BoundsAssumption
  <2>4. \A x \in applied : x[3] <= writes' /\ x[3] <= stored'[x[1]][x[2]]
    BY <1>0, <2>1, <2>3 DEF OrderInv
  <2>5. ASSUME NEW i \in 1 .. Len(chain), chain[i].field \in Fields
        PROVE  /\ chain[i].write <= writes'
               /\ \A x \in applied : x[2] = chain[i].field => x[3] <= chain[i].write
               /\ \A j \in 1 .. Len(chain) :
                    i < j /\ chain[j].field = chain[i].field => chain[i].write <= chain[j].write
    <3>1. chain[i].write \in Nat
      BY HandedTyped, BoundsAssumption
    <3>2. chain[i].write <= writes
      BY <2>5 DEF OrderInv
    <3>3. chain[i].write <= writes'
      BY <1>0, <2>1, <3>1, <3>2
    <3> QED
      BY <2>5, <3>3 DEF OrderInv
  <2> QED
    BY <1>0, <2>1, <2>2, <2>4, <2>5 DEF OrderInv
<1>2. ASSUME NEW f \in Fields, OthersWrite(f)
      PROVE  OrderInv'
  <2>1. /\ UNCHANGED <<chain, typing, shown>> /\ writes' = writes + 1 /\ writes' \in 0 .. MaxWrites
        /\ incidentNumber \in 0 .. Len(stored)
        /\ stored' = Stored(incidentNumber, f, writes')
    BY <1>0, <1>2 DEF OthersWrite, Write, page, work, FormTyped
  <2>2. PICK w \in 0 .. MaxWrites : w = writes'
    BY <2>1
  <2>3. \A x \in applied : x[3] \in Nat /\ x[3] <= writes
    BY AppliedFacts, BoundsAssumption DEF OrderInv
  <2>4. \A x \in applied : x[3] <= w
    BY <1>0, <2>1, <2>2, <2>3
  <2>5. \A x \in applied : x[3] <= stored'[x[1]][x[2]]
    BY <2>1, <2>2, <2>4, StoredOrder
  <2>6. \A j \in 1 .. Len(chain') : j + 0 \in 1 .. Len(chain) /\ chain'[j] = chain[j + 0]
    BY <1>0, <2>1
  <2>7. writes <= writes'
    BY <1>0, <2>1
  <2> QED
    BY <1>0, <2>1, <2>5, <2>6, <2>7, OrderKept
<1>3. CASE Commit
  <2> DEFINE m == [field |-> typing, write |-> shown[typing], next |-> "done"]
  <2>1. typing \in Columns /\ typing \in Fields /\ shown[typing] \in 1 .. MaxWrites
    BY <1>3, BoundsAssumption DEF FormTyped, Commit, Columns, Content
  <2>2. m \in Mutation /\ m.field = typing /\ m.write = shown[typing]
    BY <2>1 DEF Mutation
  <2>3. /\ chain' = Append(chain, m) /\ UNCHANGED <<stored, shown, writes>>
        /\ typing' = Nothing /\ Nothing \notin Fields
    BY <1>3, FieldsAssumption DEF Commit
  <2> HIDE DEF m
  <2>4. /\ Len(chain') = Len(chain) + 1
        /\ \A i \in 1 .. Len(chain) : chain'[i] = chain[i]
        /\ chain'[Len(chain) + 1] = m
    BY <2>2, <2>3, HandedFacts
  <2>5. shown[typing] <= writes /\ \A x \in applied : x[2] = typing => x[3] <= shown[typing]
    BY <2>1 DEF OrderInv
  <2>6. \A x \in applied : x[3] <= writes /\ x[3] <= stored[x[1]][x[2]]
    BY DEF OrderInv
  <2>7. \A i \in 1 .. Len(chain') : i \in 1 .. Len(chain) \/ i = Len(chain) + 1
    BY <1>0, <2>4
  <2>8. ASSUME NEW i \in 1 .. Len(chain'), chain'[i].field \in Fields
        PROVE  /\ chain'[i].write <= writes
               /\ \A x \in applied : x[2] = chain'[i].field => x[3] <= chain'[i].write
               /\ \A j \in 1 .. Len(chain') :
                    i < j /\ chain'[j].field = chain'[i].field => chain'[i].write <= chain'[j].write
    <3>1. CASE i = Len(chain) + 1
      <4>1. \A j \in 1 .. Len(chain') : ~(i < j)
        BY <1>0, <2>4, <3>1
      <4> QED
        BY <2>2, <2>4, <2>5, <3>1, <4>1
    <3>2. CASE i \in 1 .. Len(chain)
      <4>1. /\ chain[i].write <= writes
            /\ \A x \in applied : x[2] = chain[i].field => x[3] <= chain[i].write
            /\ chain[i].field = typing => chain[i].write <= shown[typing]
            /\ \A j \in 1 .. Len(chain) :
                 i < j /\ chain[j].field = chain[i].field => chain[i].write <= chain[j].write
        BY <2>4, <2>8, <3>2 DEF OrderInv
      <4>2. ASSUME NEW j \in 1 .. Len(chain'), i < j, chain'[j].field = chain'[i].field
            PROVE  chain'[i].write <= chain'[j].write
        <5>1. CASE j = Len(chain) + 1
          BY <2>2, <2>4, <3>2, <4>1, <4>2, <5>1
        <5>2. CASE j \in 1 .. Len(chain)
          BY <2>4, <3>2, <4>1, <4>2, <5>2
        <5> QED
          BY <2>7, <5>1, <5>2
      <4> QED
        BY <2>4, <3>2, <4>1, <4>2
    <3> QED
      BY <2>7, <3>1, <3>2
  <2> QED
    BY <1>0, <2>3, <2>6, <2>8 DEF OrderInv
<1>4. ASSUME NEW way \in {"chain", "free"}, Click(way)
      PROVE  OrderInv'
  <2>1. UNCHANGED <<stored, typing, shown>> /\ writes' = writes + 1 /\ writes' \in 1 .. MaxWrites
    BY <1>0, <1>4 DEF Click, Write, page
  <2>2. chain' = chain \/ \E m \in Mutation : chain' = Append(chain, m) /\ m.field \notin Fields
    <3>2. /\ [field |-> Nothing, write |-> writes', next |-> way] \in Mutation
          /\ [field |-> Members, write |-> writes', next |-> "done"] \in Mutation
          /\ Nothing \notin Fields /\ Members \notin Fields
      BY <2>1, FieldsAssumption DEF Mutation, Columns
    <3>3. CASE way = "free" /\ incidentNumber # New
      BY <1>4, <3>3 DEF Click
    <3>4. CASE ~(way = "free" /\ incidentNumber # New)
      <4>1. chain' = Append(chain,
                 IF incidentNumber = New THEN [field |-> Nothing, write |-> writes', next |-> way]
                                 ELSE [field |-> Members, write |-> writes', next |-> "done"])
        BY <1>4, <3>4 DEF Click
      <4> QED
        BY <3>2, <4>1
    <3> QED
      BY <3>3, <3>4
  <2>3. \A j \in 1 .. Len(chain') : chain'[j].field \in Fields =>
          j + 0 \in 1 .. Len(chain) /\ chain'[j] = chain[j + 0]
    <3>1. CASE chain' = chain
      BY <1>0, <3>1
    <3>2. ASSUME NEW m \in Mutation, chain' = Append(chain, m), m.field \notin Fields
          PROVE  \A j \in 1 .. Len(chain') : chain'[j].field \in Fields =>
                   j + 0 \in 1 .. Len(chain) /\ chain'[j] = chain[j + 0]
      <4>1. /\ Len(chain') = Len(chain) + 1
            /\ \A i \in 1 .. Len(chain) : chain'[i] = chain[i]
            /\ chain'[Len(chain) + 1] = m
        BY <3>2, HandedFacts
      <4>2. \A j \in 1 .. Len(chain') : j \in 1 .. Len(chain) \/ j = Len(chain) + 1
        BY <1>0, <4>1
      <4> QED
        BY <1>0, <3>2, <4>1, <4>2
    <3> QED
      BY <2>2, <3>1, <3>2
  <2>4. \A x \in applied : x[3] <= stored'[x[1]][x[2]]
    BY <2>1 DEF OrderInv
  <2>5. writes <= writes'
    BY <1>0, <2>1
  <2> QED
    BY <1>0, <2>1, <2>3, <2>4, <2>5, OrderKept
<1> QED
  BY <1>1, <1>2, <1>3, <1>4

LEMMA LoadOrder ==
  ASSUME FormTyped, LoadInv, OrderInv,
         NEW i \in DOMAIN loads, ReadLoad(i) \/ Draw(i) \/ LoadFails(i)
  PROVE  OrderInv'
<1>0. /\ UNCHANGED <<stored, typing, applied, writes>>
      /\ writes \in Nat /\ i \in 1 .. Len(loads)
  BY LenProperties, BoundsAssumption DEF ReadLoad, Draw, LoadFails, page, history, FormTyped
<1>1. CASE ReadLoad(i)
  <2>1. UNCHANGED <<chain, shown>>
    BY <1>1 DEF ReadLoad, page, work
  <2> QED
    BY <1>0, <2>1, OrderSame
<1>2. CASE Draw(i) \/ LoadFails(i)
  <2>1. loads' = RemoveAt(loads, i) /\ AfterDraw(loads[i])
    BY <1>2 DEF Draw, LoadFails
  <2>2. PICK content \in Content : shown' = Drawn(content)
    <3>1. loads[i] \in Load /\ incident \in Content
      BY <2>1, EndLoadFacts DEF FormTyped
    <3> QED
      BY <1>2, <3>1 DEF Draw, LoadFails, Load
  <2>3. typing \in Fields => shown'[typing] = shown[typing]
    BY <2>2, RedrawnTyping
  <2>4. CASE loads[i].by = "chain"
    <3>1. chain # <<>>
      BY <1>0, <2>4 DEF LoadInv, FormTyped
    <3>2. PICK ok \in BOOLEAN : Finish(ok)
      BY <2>1, <2>4 DEF AfterDraw
    <3>3. \A j \in 1 .. Len(chain') : chain'[j].field \in Fields =>
            j + 1 \in 1 .. Len(chain) /\ chain'[j] = chain[j + 1]
      BY <3>1, <3>2, FinishOrder
    <3>4. \A x \in applied : x[3] <= stored'[x[1]][x[2]]
      BY <1>0 DEF OrderInv
    <3>5. writes' \in Nat /\ writes <= writes'
      BY <1>0
    <3> QED
      BY <1>0, <2>3, <3>3, <3>4, <3>5, OrderKept
  <2>5. CASE loads[i].by # "chain"
    <3>1. UNCHANGED chain
      BY <2>1, <2>5 DEF AfterDraw, work
    <3>2. writes' \in Nat /\ writes <= writes'
      BY <1>0
    <3> QED
      BY <1>0, <2>3, <3>1, <3>2, OrderSame
  <2> QED
    BY <2>4, <2>5
<1> QED
  BY <1>1, <1>2

LEMMA ChainOrder ==
  ASSUME FormTyped, NumberInv, OrderInv,
         Start \/ Reach \/ Refuse \/ Answered \/ AnsweredRoster \/ Failed
  PROVE  OrderInv'
<1>0. /\ UNCHANGED <<typing, writes>> /\ writes \in Nat
      /\ Len(stored) \in Nat /\ target \in 0 .. Len(stored)
      /\ (phase # "idle" => chain # <<>>)
      /\ writes' \in Nat /\ writes <= writes'
  <2>1. UNCHANGED <<typing, writes>>
    BY DEF Start, Reach, Refuse, Answered, AnsweredRoster, Failed, page
  <2>2. Len(stored) \in Nat /\ writes \in Nat
    BY LenProperties, BoundsAssumption DEF FormTyped
  <2>3. incidentNumber \in 0 .. Len(stored) /\ target \in 0 .. incidentNumber
        /\ (phase # "idle" => chain # <<>>)
    BY DEF FormTyped
  <2> QED
    BY <2>1, <2>2, <2>3
<1>1. CASE Start \/ Refuse \/ Answered
  <2>1. UNCHANGED <<stored, shown, chain, applied>>
    BY <1>1 DEF Start, Refuse, Answered, page, history
  <2> QED
    BY <1>0, <2>1, OrderSame
<1>2. CASE Reach
  <2>1. /\ phase = "post" /\ stored' = Stored(target, Head(chain).field, Head(chain).write)
        /\ UNCHANGED <<shown, chain>>
    BY <1>2 DEF Reach, page
  <2>2. PICK m \in Mutation : m = Head(chain)
    BY <1>0, <2>1, HeadFacts
  <2>3. m.write \in 0 .. MaxWrites /\ m.write \in Nat /\ Len(chain) \in Nat
    BY BoundsAssumption, LenProperties DEF Mutation, FormTyped
  <2>4. 1 \in 1 .. Len(chain) /\ m = chain[1]
    BY <1>0, <2>1, <2>2, HeadFacts
  <2> DEFINE t == IF target = New THEN Len(stored) + 1 ELSE target
  <2>5. applied' = IF m.field \in Fields THEN applied \cup {<<t, m.field, m.write>>} ELSE applied
    BY <1>2, <2>2 DEF Reach
  <2>6. /\ t \in Nat
        /\ m.field \in Fields => stored'[t][m.field] = m.write
    <3>0. stored \in Seq(Content) /\ m.write \in 0 .. MaxWrites /\ target \in 0 .. Len(stored)
      BY <1>0, <2>3 DEF FormTyped
    <3>1. /\ \A k \in 1 .. Len(stored), c \in Columns :
               Stored(target, m.field, m.write)[k][c] =
                 IF k = target /\ c = m.field THEN m.write ELSE stored[k][c]
          /\ target = New => \A c \in Columns :
               Stored(target, m.field, m.write)[Len(stored) + 1][c] =
                 IF c = m.field THEN m.write ELSE 0
      BY ONLY <3>0, StoredFacts, SMTT(20)
    <3>2. target # New => target \in 1 .. Len(stored)
      BY <1>0 DEF New
    <3>3. m.field \in Fields => m.field \in Columns
      BY DEF Columns
    <3>4. CASE target = New
      BY <1>0, <2>1, <2>2, <3>1, <3>3, <3>4
    <3>5. CASE target # New
      BY <1>0, <2>1, <2>2, <3>1, <3>2, <3>3, <3>5
    <3> QED
      BY <3>4, <3>5
  <2> HIDE DEF t
  <2>7. ASSUME m.field \in Fields
        PROVE  /\ m.write <= writes
               /\ \A x \in applied : x[2] = m.field => x[3] <= m.write
               /\ m.field = typing => m.write <= shown[typing]
               /\ \A j \in 1 .. Len(chain) :
                    1 < j /\ chain[j].field = m.field => m.write <= chain[j].write
    BY <2>4, <2>7 DEF OrderInv
  <2>8. \A x \in applied : x[3] <= stored'[x[1]][x[2]]
    <3>1. \A x \in applied : x[2] = m.field => x[3] <= m.write
      BY <2>7, AppliedFacts
    <3> QED
      BY <1>0, <2>1, <2>2, <2>3, <3>1, StoredOrder
  <2>9. ASSUME NEW x \in applied'
        PROVE  x \in applied \/ (m.field \in Fields /\ x = <<t, m.field, m.write>>)
    BY <2>5
  <2>10. \A x \in applied' : x[3] <= writes /\ x[3] <= stored'[x[1]][x[2]]
    <3>1. \A x \in applied : x[3] <= writes
      BY DEF OrderInv
    <3>2. ASSUME NEW x \in applied', m.field \in Fields, x = <<t, m.field, m.write>>
          PROVE  x[3] <= writes /\ x[3] <= stored'[x[1]][x[2]]
      <4>1. x[1] = t /\ x[2] = m.field /\ x[3] = m.write
        BY <3>2
      <4> QED
        BY <2>3, <2>6, <2>7, <3>2, <4>1
    <3> QED
      BY <2>8, <2>9, <3>1, <3>2
  <2>11. ASSUME NEW i \in 1 .. Len(chain), chain[i].field \in Fields
         PROVE  \A x \in applied' : x[2] = chain[i].field => x[3] <= chain[i].write
    <3>1. SUFFICES ASSUME NEW x \in applied', x[2] = chain[i].field
                   PROVE  x[3] <= chain[i].write
      OBVIOUS
    <3>2. CASE x \in applied
      BY <2>11, <3>1, <3>2 DEF OrderInv
    <3>3. CASE m.field \in Fields /\ x = <<t, m.field, m.write>>
      <4>1. x[2] = m.field /\ x[3] = m.write
        BY <3>3
      <4>2. CASE i = 1
        BY <2>3, <2>4, <4>1, <4>2
      <4>3. CASE i # 1
        <5>1. 1 < i
          BY <2>3, <4>3
        <5> QED
          BY <2>7, <3>1, <3>3, <4>1, <5>1
      <4> QED
        BY <4>2, <4>3
    <3> QED
      BY <2>9, <3>2, <3>3
  <2>12. ASSUME typing \in Fields
         PROVE  shown[typing] <= writes /\ \A x \in applied' : x[2] = typing => x[3] <= shown[typing]
    <3>1. shown[typing] <= writes /\ \A x \in applied : x[2] = typing => x[3] <= shown[typing]
      BY <2>12 DEF OrderInv
    <3>2. ASSUME NEW x \in applied', m.field \in Fields, x = <<t, m.field, m.write>>, x[2] = typing
          PROVE  x[3] <= shown[typing]
      <4>1. x[2] = m.field /\ x[3] = m.write
        BY <3>2
      <4> QED
        BY <2>7, <3>2, <4>1
    <3> QED
      BY <2>9, <3>1, <3>2
  <2>13. \A i \in 1 .. Len(chain) : chain[i].field \in Fields =>
           /\ chain[i].write <= writes
           /\ chain[i].field = typing => chain[i].write <= shown[typing]
           /\ \A j \in 1 .. Len(chain) :
                i < j /\ chain[j].field = chain[i].field => chain[i].write <= chain[j].write
    BY DEF OrderInv
  <2> QED
    BY <1>0, <2>1, <2>10, <2>11, <2>12, <2>13 DEF OrderInv
<1>3. CASE AnsweredRoster
  <2>1. PICK ok \in BOOLEAN : Finish(ok)
    BY <1>3 DEF AnsweredRoster
  <2>2. UNCHANGED <<stored, shown, applied>> /\ chain # <<>>
    BY <1>0, <1>3 DEF AnsweredRoster, page
  <2>3. \A j \in 1 .. Len(chain') : chain'[j].field \in Fields =>
          j + 1 \in 1 .. Len(chain) /\ chain'[j] = chain[j + 1]
    BY <2>1, <2>2, FinishOrder
  <2>4. \A x \in applied : x[3] <= stored'[x[1]][x[2]]
    BY <2>2 DEF OrderInv
  <2>5. typing \in Fields => shown'[typing] = shown[typing]
    BY <2>2
  <2> QED
    BY <1>0, <2>2, <2>3, <2>4, <2>5, OrderKept
<1>4. CASE Failed
  <2>0. phase = "failed" /\ chain # <<>> /\ UNCHANGED <<stored, applied>>
    BY <1>0, <1>4 DEF Failed
  <2>1. CASE DrawNew("chain") /\ Finish(FALSE)
    <3>1. Empty \in Content
      BY BoundsAssumption DEF Empty, Content
    <3>2. typing \in Fields => shown'[typing] = shown[typing]
      BY <2>1, <3>1, RedrawnTyping DEF DrawNew
    <3>3. \A j \in 1 .. Len(chain') : chain'[j].field \in Fields =>
            j + 1 \in 1 .. Len(chain) /\ chain'[j] = chain[j + 1]
      BY <2>0, <2>1, FinishOrder
    <3>4. \A x \in applied : x[3] <= stored'[x[1]][x[2]]
      BY <2>0 DEF OrderInv
    <3> QED
      BY <1>0, <2>0, <3>2, <3>3, <3>4, OrderKept
  <2>2. CASE UNCHANGED <<shown, chain>>
    <3>1. typing \in Fields => shown'[typing] = shown[typing]
      BY <2>2
    <3> QED
      BY <1>0, <2>0, <2>2, <3>1, OrderSame
  <2> QED
    BY <1>4, <2>1, <2>2 DEF Failed
<1> QED
  BY <1>1, <1>2, <1>3, <1>4

LEMMA OtherOrder ==
  ASSUME FormTyped, NumberInv, OrderInv,
         \/ \E w \in free : FreeReach(w) \/ FreeFails(w)
         \/ Hear \/ HearAll
         \/ UNCHANGED formVars
  PROVE  OrderInv'
<1>1. UNCHANGED <<chain, typing, applied, writes>>
  BY DEF FreeReach, FreeFails, Hear, HearAll, formVars, page, work, history
<1>2. writes' \in Nat /\ writes <= writes' /\ Len(chain) \in Nat
  BY <1>1, LenProperties, BoundsAssumption DEF FormTyped
<1>3. \A x \in applied : x[3] <= stored'[x[1]][x[2]]
  <2>1. CASE UNCHANGED stored
    BY <2>1 DEF OrderInv
  <2>2. ASSUME NEW w \in free, FreeReach(w)
        PROVE  \A x \in applied : x[3] <= stored'[x[1]][x[2]]
    <3>1. w \in 0 .. MaxWrites /\ incidentNumber \in 0 .. Len(stored)
      BY BoundsAssumption DEF FormTyped
    <3>2. stored' = Stored(incidentNumber, Members, w)
      BY <2>2 DEF FreeReach
    <3>3. \A x \in applied : x[2] # Members
      BY AppliedFacts
    <3> QED
      BY <3>1, <3>2, <3>3, StoredOrder
  <2> QED
    BY <2>1, <2>2 DEF FreeFails, Hear, HearAll, formVars
<1>4. typing \in Fields => shown'[typing] = shown[typing]
  <2>1. CASE UNCHANGED shown
    BY <2>1
  <2>2. CASE DrawNew("other")
    <3>1. Empty \in Content
      BY BoundsAssumption DEF Empty, Content
    <3> QED
      BY <2>2, <3>1, RedrawnTyping DEF DrawNew
  <2> QED
    BY <2>1, <2>2 DEF FreeReach, FreeFails, Hear, HearAll, formVars, page
<1>5. \A j \in 1 .. Len(chain') : j + 0 \in 1 .. Len(chain) /\ chain'[j] = chain[j + 0]
  BY <1>1, <1>2
<1> QED
  BY <1>1, <1>2, <1>3, <1>4, <1>5, OrderKept

-----------------------------------------------------------------------------
\* A refetch that begins has read nothing.
LEMMA BeginRead ==
  ASSUME FormTyped, ReadInv, NEW by \in {"chain", "other"}, BeginLoad(by), applied' = applied,
         incidentNumber' = incidentNumber \/ \A i \in 1 .. Len(loads) : loads[i].by # "chain"
  PROVE  ReadInv'
<1>1. /\ Len(loads) \in Nat /\ Len(loads') = Len(loads) + 1
      /\ \A i \in 1 .. Len(loads) : loads'[i] = loads[i]
      /\ loads'[Len(loads) + 1].read = FALSE
  BY BeginLoadFacts, LenProperties DEF FormTyped
<1>2. \A i \in 1 .. Len(loads') : i \in 1 .. Len(loads) \/ i = Len(loads) + 1
  BY <1>1
<1>3. SUFFICES ASSUME NEW i \in 1 .. Len(loads'), loads'[i].by = "chain", loads'[i].read,
                      NEW x \in applied, x[1] = incidentNumber'
               PROVE  x[3] <= loads'[i].content[x[2]]
  BY DEF ReadInv
<1>4. i \in 1 .. Len(loads) /\ loads'[i] = loads[i]
  BY <1>1, <1>2, <1>3
<1>5. incidentNumber' = incidentNumber
  BY <1>3, <1>4
<1> QED
  BY <1>3, <1>4, <1>5 DEF ReadInv

\* A redraw shows at least what is in what it draws, except in what is being typed into.
LEMMA RedrawnSettled ==
  ASSUME FormTyped, NEW content \in Content, shown' = Drawn(content),
         UNCHANGED <<typing, incidentNumber, applied>>,
         \A x \in applied : x[1] = incidentNumber => x[3] <= content[x[2]]
  PROVE  Settled'
<1>1. \A c \in Columns : Drawn(content)[c] = IF c = typing THEN shown[c] ELSE content[c]
  BY DrawnFacts DEF FormTyped
<1>2. \A x \in applied : x[2] \in Columns
  BY AppliedFacts
<1> QED
  BY <1>1, <1>2 DEF Settled

\* The page keeps showing what it shows.
LEMMA SettleSame ==
  ASSUME FormTyped, SettleInv, UNCHANGED <<phase, shown, typing, incidentNumber, applied, drawnBy>>,
         chain' = chain \/ \E m \in Mutation : chain' = Append(chain, m)
  PROVE  SettleInv'
<1>1. Settled' <=> Settled
  BY DEF Settled
<1>2. chain # <<>> => Head(chain') = Head(chain)
  <2>1. ASSUME NEW m \in Mutation, chain' = Append(chain, m), chain # <<>>
        PROVE  Head(chain') = Head(chain)
    <3>1. /\ chain' \in Seq(Mutation) /\ chain' # <<>>
          /\ \A i \in 1 .. Len(chain) : chain'[i] = chain[i]
      BY <2>1, HandedFacts
    <3>2. 1 \in 1 .. Len(chain) /\ Head(chain) = chain[1]
      BY <2>1, HeadFacts
    <3>3. Head(chain') = chain'[1]
      BY <3>1, HeadTailProperties
    <3> QED
      BY <3>1, <3>2, <3>3
  <2> QED
    BY <2>1
<1>3. phase # "idle" => chain # <<>>
  BY DEF FormTyped
<1> QED
  BY <1>1, <1>2, <1>3 DEF SettleInv

LEMMA UserSettles ==
  ASSUME FormTyped, OrderInv, ReadInv, SettleInv,
         \/ \E f \in Fields : Type(f) \/ OthersWrite(f)
         \/ Commit
         \/ \E way \in {"chain", "free"} : Click(way)
  PROVE  ReadInv' /\ SettleInv'
<1>0. UNCHANGED <<phase, incidentNumber, applied, drawnBy, loads>>
  BY DEF Type, OthersWrite, Commit, Click, page, work, history
<1>1. ReadInv'
  BY <1>0 DEF ReadInv
<1>2. ASSUME NEW f \in Fields, Type(f)
      PROVE  SettleInv'
  <2>1. chain' = chain /\ typing = Nothing /\ typing' = f /\ shown' = [shown EXCEPT ![f] = writes']
    BY <1>2 DEF Type, work
  <2>2. \A c \in Columns : c # f => shown'[c] = shown[c]
    <3>1. shown \in Content
      BY DEF FormTyped
    <3> QED
      BY <2>1, <3>1 DEF Content
  <2>3. \A x \in applied : x[2] \in Columns /\ x[2] # Nothing
    BY AppliedFacts, FieldsAssumption
  <2>4. Settled => Settled'
    BY <1>0, <2>1, <2>2, <2>3 DEF Settled
  <2> QED
    BY <1>0, <2>1, <2>4 DEF SettleInv
<1>3. ASSUME NEW f \in Fields, OthersWrite(f)
      PROVE  SettleInv'
  <2>1. UNCHANGED <<chain, shown, typing>>
    BY <1>3 DEF OthersWrite, page, work
  <2> QED
    BY <1>0, <2>1, SettleSame
<1>4. CASE Commit
  <2> DEFINE m == [field |-> typing, write |-> shown[typing], next |-> "done"]
  <2>1. typing \in Fields /\ typing \in Columns /\ shown[typing] \in 1 .. MaxWrites
    BY <1>4, BoundsAssumption DEF FormTyped, Commit, Columns, Content
  <2>2. m \in Mutation
    BY <2>1 DEF Mutation
  <2>3. chain' = Append(chain, m) /\ shown' = shown
    BY <1>4 DEF Commit
  <2> HIDE DEF m
  <2>4. \A x \in applied : x[2] = typing => x[3] <= shown[x[2]]
    BY <2>1 DEF OrderInv
  <2>5. Settled => Settled'
    BY <1>0, <2>3, <2>4 DEF Settled
  <2>6. chain # <<>> => Head(chain') = Head(chain)
    <3>1. /\ chain' \in Seq(Mutation) /\ chain' # <<>>
          /\ \A i \in 1 .. Len(chain) : chain'[i] = chain[i]
      BY <2>2, <2>3, HandedFacts
    <3>2. chain # <<>> => 1 \in 1 .. Len(chain) /\ Head(chain) = chain[1]
      BY HeadFacts
    <3>3. Head(chain') = chain'[1]
      BY <3>1, HeadTailProperties
    <3> QED
      BY <3>1, <3>2, <3>3
  <2>7. phase # "idle" => chain # <<>>
    BY DEF FormTyped
  <2>8. drawnBy = "chain" =>
          \/ Settled
          \/ phase \in {"answered", "failed", "load", "reload"} /\ Head(chain).field # Members
    BY DEF SettleInv
  <2>9. SettleInv'
    BY ONLY <1>0, <2>5, <2>6, <2>7, <2>8 DEF SettleInv
  <2> QED
    BY <1>1, <2>9
<1>5. ASSUME NEW way \in {"chain", "free"}, Click(way)
      PROVE  SettleInv'
  <2>1. UNCHANGED <<typing, shown>>
    BY <1>5 DEF Click, page
  <2>2. writes' \in 1 .. MaxWrites
    BY <1>5, BoundsAssumption DEF Click, Write, FormTyped
  <2>3. chain' = chain \/ \E m \in Mutation : chain' = Append(chain, m)
    <3>2. /\ [field |-> Nothing, write |-> writes', next |-> way] \in Mutation
          /\ [field |-> Members, write |-> writes', next |-> "done"] \in Mutation
      BY <2>2 DEF Mutation, Columns
    <3>3. CASE way = "free" /\ incidentNumber # New
      BY <1>5, <3>3 DEF Click
    <3>4. CASE ~(way = "free" /\ incidentNumber # New)
      <4>1. chain' = Append(chain,
                 IF incidentNumber = New THEN [field |-> Nothing, write |-> writes', next |-> way]
                                 ELSE [field |-> Members, write |-> writes', next |-> "done"])
        BY <1>5, <3>4 DEF Click
      <4> QED
        BY <3>2, <4>1
    <3> QED
      BY <3>3, <3>4
  <2> QED
    BY <1>0, <2>1, <2>3, SettleSame
<1> QED
  BY <1>1, <1>2, <1>3, <1>4, <1>5

LEMMA LoadSettles ==
  ASSUME FormTyped, NumberInv, LoadInv, LoadInv', OrderInv, ReadInv, SettleInv,
         NEW i \in DOMAIN loads, ReadLoad(i) \/ Draw(i) \/ LoadFails(i)
  PROVE  ReadInv' /\ SettleInv'
<1>0. UNCHANGED <<typing, incidentNumber, applied>> /\ i \in 1 .. Len(loads)
      /\ incidentNumber # New
  <2>1. loads \in Seq(Load) /\ DOMAIN loads = 1 .. Len(loads) /\ Len(<<>>) = 0
    BY LenProperties, EmptySeq DEF FormTyped
  <2>2. i \in 1 .. Len(loads)
    BY <2>1
  <2>3. loads # <<>>
    BY <2>1, <2>2
  <2>4. UNCHANGED <<typing, incidentNumber, applied>>
    BY DEF ReadLoad, Draw, LoadFails, page, history
  <2> QED
    BY <2>2, <2>3, <2>4 DEF NumberInv
<1>1. CASE ReadLoad(i)
  <2>1. UNCHANGED <<chain, phase, shown, drawnBy>>
    BY <1>1 DEF ReadLoad, page, work, history
  <2>2. SettleInv'
    BY <1>0, <2>1, SettleSame
  <2>3. /\ Len(loads') = Len(loads)
        /\ \A j \in 1 .. Len(loads) : loads'[j].by = loads[j].by /\ (j # i => loads'[j] = loads[j])
        /\ loads'[i].content = stored[incidentNumber]
    BY <1>0, <1>1, ReadLoadFacts
  <2>4. \A x \in applied : x[1] = incidentNumber => x[3] <= stored[incidentNumber][x[2]]
    BY DEF OrderInv
  <2>5. ReadInv'
    <3>1. SUFFICES ASSUME NEW j \in 1 .. Len(loads'), loads'[j].by = "chain", loads'[j].read,
                          NEW x \in applied, x[1] = incidentNumber
                   PROVE  x[3] <= loads'[j].content[x[2]]
      BY <1>0 DEF ReadInv
    <3>2. CASE j = i
      BY <2>3, <2>4, <3>1, <3>2
    <3>3. CASE j # i
      BY <2>3, <3>1, <3>3 DEF ReadInv
    <3> QED
      BY <3>2, <3>3
  <2> QED
    BY <2>2, <2>5
<1>2. CASE Draw(i) \/ LoadFails(i)
  <2>1. loads' = RemoveAt(loads, i) /\ AfterDraw(loads[i])
    BY <1>2 DEF Draw, LoadFails
  <2>2. /\ loads[i] \in Load
        /\ \A j \in 1 .. Len(loads') :
             /\ j < i => j \in 1 .. Len(loads) /\ loads'[j] = loads[j]
             /\ ~(j < i) => j + 1 \in 1 .. Len(loads) /\ loads'[j] = loads[j + 1]
    BY <2>1, EndLoadFacts
  <2>3. \A j \in 1 .. Len(loads') : \E k \in 1 .. Len(loads) : loads'[j] = loads[k]
    BY <2>2
  <2>4. ReadInv'
    BY <1>0, <2>3 DEF ReadInv
  <2>5. loads[i].by \in {"chain", "other"} /\ loads[i].content \in Content
    BY <2>2 DEF Load
  <2>6. CASE LoadFails(i) \/ loads[i].by # "chain"
    <3>1. drawnBy' # "chain"
      BY <1>2, <2>6 DEF Draw, LoadFails
    <3>2. SettleInv'
      BY <3>1 DEF SettleInv
    <3> QED
      BY <2>4, <3>2
  <2>7. CASE Draw(i) /\ loads[i].by = "chain"
    <3>1. shown' = Drawn(loads[i].content) /\ loads[i].read
      BY <2>7 DEF Draw
    <3>2. \A x \in applied : x[1] = incidentNumber => x[3] <= loads[i].content[x[2]]
      BY <1>0, <2>7, <3>1 DEF ReadInv
    <3>3. Settled'
      BY <1>0, <2>5, <3>1, <3>2, RedrawnSettled
    <3>4. SettleInv'
      BY <3>3 DEF SettleInv
    <3> QED
      BY <2>4, <3>4
  <2> QED
    BY <1>2, <2>6, <2>7
<1> QED
  BY <1>1, <1>2

LEMMA ChainSettles ==
  ASSUME FormTyped, NumberInv, LoadInv, ReadInv, SettleInv,
         Start \/ Reach \/ Refuse \/ Answered \/ AnsweredRoster \/ Failed
  PROVE  ReadInv' /\ SettleInv'
<1>0. /\ phase # "idle" => chain # <<>>
      /\ phase # "idle" /\ Head(chain).field = Members => incidentNumber # New
      /\ phase \notin {"load", "reload"} => \A i \in 1 .. Len(loads) : loads[i].by # "chain"
      /\ phase \notin {"load", "reload"}
  <2>1. phase # "idle" => chain # <<>>
    BY DEF FormTyped
  <2>2. chain # <<>> => 1 \in 1 .. Len(chain) /\ Head(chain) = chain[1]
    BY HeadFacts
  <2>3. phase \notin {"load", "reload"}
    BY DEF Start, Reach, Refuse, Answered, AnsweredRoster, Failed
  <2> QED
    BY <2>1, <2>2, <2>3 DEF NumberInv, LoadInv
<1>1. drawnBy = "chain" =>
        \/ Settled
        \/ phase \in {"answered", "failed", "load", "reload"} /\ Head(chain).field # Members
  BY DEF SettleInv
<1>2. CASE Start \/ Refuse
  <2>1. /\ UNCHANGED <<incidentNumber, shown, typing, chain, loads, applied, drawnBy>>
        /\ phase \in {"idle", "post"}
    BY <1>2 DEF Start, Refuse, page, history
  <2>2. Settled' <=> Settled
    BY <2>1 DEF Settled
  <2>3. ReadInv'
    BY <2>1 DEF ReadInv
  <2>4. SettleInv'
    BY <1>1, <2>1, <2>2 DEF SettleInv
  <2> QED
    BY <2>3, <2>4
<1>3. CASE Reach
  <2>1. /\ UNCHANGED <<incidentNumber, shown, typing, chain, loads, drawnBy>>
        /\ phase = "post" /\ phase' \in {"answered", "failed"}
        /\ Head(chain).field \notin Fields => applied' = applied
    BY <1>3 DEF Reach, page
  <2>2. ReadInv'
    BY <1>0, <2>1 DEF ReadInv
  <2>3. CASE Head(chain).field # Members
    <3>1. SettleInv'
      BY <2>1, <2>3 DEF SettleInv
    <3> QED
      BY <2>2, <3>1
  <2>4. CASE Head(chain).field = Members
    <3>1. applied' = applied
      BY <2>1, <2>4, FieldsAssumption
    <3>2. Settled' <=> Settled
      BY <2>1, <3>1 DEF Settled
    <3>3. SettleInv'
      BY <1>1, <2>1, <3>2 DEF SettleInv
    <3> QED
      BY <2>2, <3>3
  <2> QED
    BY <2>3, <2>4
<1>4. CASE Answered
  <2>1. /\ UNCHANGED <<shown, typing, chain, applied, drawnBy>>
        /\ phase = "answered" /\ phase' = "load" /\ BeginLoad("chain")
        /\ incidentNumber' = IF target = New THEN Len(stored) ELSE incidentNumber
    BY <1>4 DEF Answered, history
  <2>2. ReadInv'
    BY <1>0, <2>1, BeginRead
  <2>3. CASE Head(chain).field # Members
    <3>1. SettleInv'
      BY <2>1, <2>3 DEF SettleInv
    <3> QED
      BY <2>2, <3>1
  <2>4. CASE Head(chain).field = Members
    <3>1. target = incidentNumber /\ incidentNumber # New
      BY <1>0, <2>1, <2>4 DEF NumberInv
    <3>2. incidentNumber' = incidentNumber
      BY <2>1, <3>1
    <3>3. Settled' <=> Settled
      BY <2>1, <3>2 DEF Settled
    <3>4. SettleInv'
      BY <1>1, <2>4, <2>1, <3>3 DEF SettleInv
    <3> QED
      BY <2>2, <3>4
  <2> QED
    BY <2>3, <2>4
<1>5. CASE AnsweredRoster
  <2>1. /\ UNCHANGED <<incidentNumber, shown, typing, loads, applied, drawnBy>>
        /\ Head(chain).field = Members
    BY <1>5 DEF AnsweredRoster, page
  <2>2. Settled' <=> Settled
    BY <2>1 DEF Settled
  <2>3. ReadInv'
    BY <2>1 DEF ReadInv
  <2>4. SettleInv'
    BY <1>1, <2>1, <2>2 DEF SettleInv
  <2> QED
    BY <2>3, <2>4
<1>6. CASE Failed
  <2>0. phase = "failed" /\ UNCHANGED <<incidentNumber, typing, applied>>
    BY <1>6 DEF Failed
  <2>1. CASE incidentNumber = New /\ UNCHANGED loads
    <3>1. ReadInv'
      BY <2>0, <2>1 DEF ReadInv
    <3>2. \A x \in applied : x[1] # incidentNumber
      <4>1. \A x \in applied : x[1] \in 1 .. Len(stored)
        BY AppliedFacts
      <4> QED
        BY <2>1, <4>1 DEF New
    <3>3. Settled'
      BY <2>0, <3>2 DEF Settled
    <3>4. SettleInv'
      BY <3>3 DEF SettleInv
    <3> QED
      BY <3>1, <3>4
  <2>2. CASE BeginLoad("chain") /\ phase' = "reload" /\ UNCHANGED <<shown, drawnBy, chain>>
    <3>1. ReadInv'
      BY <2>0, <2>2, BeginRead
    <3>2. Settled' <=> Settled
      BY <2>0, <2>2 DEF Settled
    <3>3. SettleInv'
      BY <1>1, <2>0, <2>2, <3>2 DEF SettleInv
    <3> QED
      BY <3>1, <3>3
  <2> QED
    BY <1>6, <2>1, <2>2 DEF Failed
<1> QED
  BY <1>2, <1>3, <1>4, <1>5, <1>6

LEMMA OtherSettles ==
  ASSUME FormTyped, NumberInv, ReadInv, SettleInv,
         \/ \E w \in free : FreeReach(w) \/ FreeFails(w)
         \/ Hear \/ HearAll
         \/ UNCHANGED formVars
  PROVE  ReadInv' /\ SettleInv'
<1>1. UNCHANGED <<chain, phase, typing, incidentNumber, applied>>
  BY DEF FreeReach, FreeFails, Hear, HearAll, formVars, page, work, history
<1>2. loads' = loads \/ BeginLoad("other")
  BY DEF FreeReach, FreeFails, Hear, HearAll, formVars
<1>3. ReadInv'
  <2>1. CASE loads' = loads
    BY <1>1, <2>1 DEF ReadInv
  <2>2. CASE BeginLoad("other")
    BY <1>1, <2>2, BeginRead
  <2> QED
    BY <1>2, <2>1, <2>2
<1>4. UNCHANGED <<shown, drawnBy>> \/ drawnBy' = "other"
  BY DEF FreeReach, FreeFails, Hear, HearAll, DrawNew, formVars, page, history
<1>5. SettleInv'
  <2>1. CASE UNCHANGED <<shown, drawnBy>>
    BY <1>1, <2>1, SettleSame
  <2>2. CASE drawnBy' = "other"
    BY <2>2 DEF SettleInv
  <2> QED
    BY <1>4, <2>1, <2>2
<1> QED
  BY <1>3, <1>5
-----------------------------------------------------------------------------
LEMMA InitFormInv ==
  ASSUME FormInit
  PROVE  FormInv
<1>1. FormTyped
  BY InitFormTyped
<1>2. /\ stored = <<>> /\ chain = <<>> /\ loads = <<>> /\ free = {} /\ applied = {} /\ typed = {}
      /\ phase = "idle" /\ incidentNumber = New /\ typing = Nothing /\ lostCreates = 0
  BY DEF FormInit
<1>3. Len(<<>>) = 0
  BY EmptySeq
<1>4. NumberInv /\ LoadInv /\ HeadInv /\ NoTypingLost /\ ReadInv
  BY <1>2, <1>3 DEF NumberInv, LoadInv, HeadInv, NoTypingLost, ReadInv
<1>5. CountInv
  BY <1>2, <1>3 DEF CountInv
<1>6. OrderInv
  BY <1>2, <1>3, FieldsAssumption DEF OrderInv
<1>7. Settled
  BY <1>2 DEF Settled
<1>8. SettleInv
  BY <1>7 DEF SettleInv
<1> QED
  BY <1>1, <1>4, <1>5, <1>6, <1>8 DEF FormInv

LEMMA NextFormInv ==
  ASSUME FormInv, [FormNext]_formVars
  PROVE  FormInv'
<1>0. /\ FormTyped /\ NumberInv /\ CountInv /\ LoadInv
      /\ HeadInv /\ NoTypingLost /\ OrderInv /\ ReadInv /\ SettleInv
  BY DEF FormInv
<1>1. ASSUME \/ \E f \in Fields : Type(f) \/ OthersWrite(f)
             \/ Commit
             \/ \E way \in {"chain", "free"} : Click(way)
      PROVE  FormInv'
  <2>1. FormTyped'
    BY <1>0, <1>1, UserFormTyped
  <2>2. NumberInv' /\ CountInv' /\ LoadInv'
    BY <1>0, <1>1, UserNumbers
  <2>3. HeadInv' /\ NoTypingLost'
    BY <1>0, <1>1, <2>1, UserTyping
  <2>4. OrderInv'
    BY <1>0, <1>1, <2>1, UserOrder
  <2>5. ReadInv' /\ SettleInv'
    BY <1>0, <1>1, UserSettles
  <2> QED
    BY <2>1, <2>2, <2>3, <2>4, <2>5 DEF FormInv
<1>2. ASSUME NEW i \in DOMAIN loads, ReadLoad(i) \/ Draw(i) \/ LoadFails(i)
      PROVE  FormInv'
  <2>1. FormTyped'
    BY <1>0, <1>2, LoadFormTyped
  <2>2. NumberInv' /\ CountInv' /\ LoadInv'
    BY <1>0, <1>2, LoadNumbers
  <2>3. HeadInv' /\ NoTypingLost'
    BY <1>0, <1>2, <2>1, LoadTyping
  <2>4. OrderInv'
    BY <1>0, <1>2, LoadOrder
  <2>5. ReadInv' /\ SettleInv'
    BY <1>0, <1>2, <2>2, LoadSettles
  <2> QED
    BY <2>1, <2>2, <2>3, <2>4, <2>5 DEF FormInv
<1>3. ASSUME Start \/ Reach \/ Refuse \/ Answered \/ AnsweredRoster \/ Failed
      PROVE  FormInv'
  <2>1. FormTyped'
    BY <1>0, <1>3, ChainFormTyped
  <2>2. NumberInv' /\ CountInv' /\ LoadInv'
    BY <1>0, <1>3, ChainNumbers
  <2>3. HeadInv' /\ NoTypingLost'
    BY <1>0, <1>3, <2>1, ChainTyping
  <2>4. OrderInv'
    BY <1>0, <1>3, ChainOrder
  <2>5. ReadInv' /\ SettleInv'
    BY <1>0, <1>3, ChainSettles
  <2> QED
    BY <2>1, <2>2, <2>3, <2>4, <2>5 DEF FormInv
<1>4. ASSUME \/ \E w \in free : FreeReach(w) \/ FreeFails(w)
             \/ Hear \/ HearAll
             \/ UNCHANGED formVars
      PROVE  FormInv'
  <2>1. FormTyped'
    BY <1>0, <1>4, OtherFormTyped
  <2>2. NumberInv' /\ CountInv' /\ LoadInv'
    BY <1>0, <1>4, OtherNumbers
  <2>3. HeadInv' /\ NoTypingLost'
    BY <1>0, <1>4, <2>1, OtherTyping
  <2>4. OrderInv'
    BY <1>0, <1>4, OtherOrder
  <2>5. ReadInv' /\ SettleInv'
    BY <1>0, <1>4, OtherSettles
  <2> QED
    BY <2>1, <2>2, <2>3, <2>4, <2>5 DEF FormInv
<1> QED
  BY <1>1, <1>2, <1>3, <1>4, FormStepCases

THEOREM FormInvariant == FormSpec => []FormInv
<1>1. FormInit => FormInv
  BY InitFormInv
<1>2. FormInv /\ [FormNext]_formVars => FormInv'
  BY NextFormInv
<1> QED
  BY <1>1, <1>2, PTL DEF FormSpec

\* The variables keep their types; the chain has a refetch of its own under way exactly
\* while its first mutation waits for one.
THEOREM FormIsTyped == FormSpec => []FormTypeOK
<1>1. FormInv => FormTypeOK
  <2>1. SUFFICES ASSUME FormTyped, LoadInv
                 PROVE  FormTypeOK
    BY DEF FormInv
  <2>2. DOMAIN loads = 1 .. Len(loads)
    BY <2>1, LenProperties DEF FormTyped
  <2> DEFINE own == {i \in DOMAIN loads : loads[i].by = "chain"}
  <2>3. Cardinality(own) = IF phase \in {"load", "reload"} THEN 1 ELSE 0
    <3>1. CASE phase \in {"load", "reload"}
      <4>1. PICK i \in 1 .. Len(loads) : loads[i].by = "chain"
        BY <2>1, <3>1 DEF LoadInv
      <4>2. own = {i}
        BY <2>1, <2>2, <4>1 DEF LoadInv
      <4>3. Cardinality({i}) = 1
        BY FS_Singleton, Zenon
      <4> QED
        BY <3>1, <4>2, <4>3
    <3>2. CASE phase \notin {"load", "reload"}
      <4>1. own = {}
        BY <2>1, <2>2, <3>2 DEF LoadInv
      <4>2. Cardinality({}) = 0
        BY FS_EmptySet
      <4> QED
        BY <3>2, <4>1, <4>2
    <3> QED
      BY <3>1, <3>2
  <2> HIDE DEF own
  <2>4. FormTypeOK <=> FormTyped /\ Cardinality(own) = (IF phase \in {"load", "reload"} THEN 1 ELSE 0)
    BY <2>1 DEF FormTyped, FormTypeOK, own
  <2> QED
    BY <2>1, <2>3, <2>4
<1> QED
  BY <1>1, FormInvariant, PTL

\* However the user's edits, the server's answers and its announcements interleave, a page
\* for a new record creates one record, and one more for each answer that was lost.
THEOREM OneRecordPerPage == FormSpec => []PageCreatesOnce
<1>1. FormInv => PageCreatesOnce
  <2>1. SUFFICES ASSUME FormTyped, CountInv
                 PROVE  PageCreatesOnce
    BY DEF FormInv
  <2> QED
    BY <2>1 DEF FormTyped, CountInv, PageCreatesOnce
<1> QED
  BY <1>1, FormInvariant, PTL

\* A redraw never takes away what the user has typed: every edit is in its control, in the
\* chain, stored, or refused.
THEOREM EditsAreKept == FormSpec => []NoTypingLost
<1>1. FormInv => NoTypingLost
  BY DEF FormInv
<1> QED
  BY <1>1, FormInvariant, PTL

\* A chain that has come to rest shows the latest of the user's stored edits.
THEOREM ChainSettlesOnEdits == FormSpec => []SettlesOnOwnWrites
<1>1. FormInv => SettlesOnOwnWrites
  <2>1. SUFFICES ASSUME FormTyped, SettleInv, Quiet, drawnBy = "chain"
                 PROVE  \A x \in applied : x[1] = incidentNumber /\ x[2] # typing =>
                          shown[x[2]] >= x[3]
    BY DEF FormInv, SettlesOnOwnWrites
  <2>2. phase = "idle"
    BY <2>1 DEF FormTyped, Quiet
  <2>3. Settled
    BY <2>1, <2>2 DEF SettleInv
  <2>4. \A x \in applied : x[3] \in Int /\ shown[x[2]] \in Int
    <3>1. shown \in Content
      BY <2>1 DEF FormTyped
    <3>2. \A x \in applied : x[2] \in Columns /\ x[3] \in 1 .. MaxWrites
      BY <2>1, AppliedFacts
    <3> QED
      BY <3>1, <3>2, BoundsAssumption DEF Content
  <2> QED
    BY <2>3, <2>4 DEF Settled
<1> QED
  BY <1>1, FormInvariant, PTL
=============================================================================
