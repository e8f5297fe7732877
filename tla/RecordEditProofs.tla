-------------------------- MODULE RecordEditProofs --------------------------
(***************************************************************************)
(* Proofs about RecordEdit, for any number of requests, any fields and     *)
(* values, and any bounds on the retries.                                  *)
(***************************************************************************)
EXTENDS RecordEdit, FiniteSetTheorems, TLAPS

\* An attempt between its read and its end.
Attempting(r) == pc[r] \in {"update", "recheck", "entries", "commit"}

\* What an attempt read is the present row unless the version moved on, and the
\* merge of it was accepted.
SeenInv ==
  \A r \in Requests : Attempting(r) =>
    /\ seen[r].version \in 1 .. version
    /\ seen[r].version = version => seen[r].row = row
    /\ Merged(r) \in ValidRows

\* The row is held exclusively exactly by the attempt whose guarded update ran:
\* one that matched is still looking at the present version.
LockInv ==
  \A r \in Requests :
    /\ pc[r] \in {"update", "recheck"} => ChangesFields(r)
    /\ lock = r => ChangesFields(r) /\ exists /\ pc[r] \in {"recheck", "entries", "commit"}
    /\ pc[r] \in {"entries", "commit"} /\ ChangesFields(r) =>
         lock = r /\ seen[r].version = version
    /\ pc[r] = "recheck" /\ exists => lock = r /\ seen[r].version < version

\* Entries in an open transaction are the request's own, younger than the change
\* entries already committed when they record a change themselves.
InsertedInv ==
  \A r \in Requests :
    /\ inserted[r] # {} => pc[r] = "commit"
    /\ \A e \in inserted[r] :
         /\ e.by = r
         /\ e.id < nextEntry
         /\ e.kind = "change" =>
              /\ ChangesFields(r)
              /\ \A d \in entries : d.kind = "change" => d.id < e.id
              /\ \A d \in inserted[r] : d.kind = "change" => d = e
    /\ pc[r] = "commit" /\ ChangesFields(r) => \E e \in inserted[r] : e.kind = "change"

EntriesInv ==
  \A e \in entries :
    /\ e.id < nextEntry
    /\ e.by \in committed
    /\ e.kind = "change" => \A d \in entries : d.kind = "change" /\ d.id = e.id => d = e

\* A request commits once.
CommittedInv ==
  \A r \in Requests :
    /\ r \in committed => pc[r] \in {"notify", "done"}
    /\ pc[r] = "notify" => r \in committed

IInv ==
  /\ TypeOK
  /\ SeenInv
  /\ LockInv
  /\ InsertedInv
  /\ EntriesInv
  /\ CommittedInv
  /\ ChangeLogExplainsRow

-----------------------------------------------------------------------------
\* Each step of the module, named: the case split of every proof below.
LEMMA StepCases ==
  ASSUME [Next]_vars
  PROVE  \/ \E r \in Requests :
              \/ Read(r) \/ GuardedUpdate(r) \/ Recheck(r)
              \/ InsertEntries(r) \/ InsertIntoNothing(r)
              \/ Commit(r) \/ Notify(r)
              \/ CommitUnacknowledged(r) \/ DeadlockVictim(r) \/ DatabaseError(r)
         \/ DeleteEvent
         \/ UNCHANGED vars
BY DEF Next, Handle, Finished

\* A merge over a valid row is a row again, and an empty patch leaves it alone.
LEMMA MergeEmpty ==
  ASSUME NEW p \in Patches, NEW rw \in ValidRows, DOMAIN p = {}
  PROVE  Merge(p, rw) = rw
BY DataAssumption DEF Merge

\* The entries a request inserts are entries.
LEMMA NewEntriesType ==
  ASSUME NEW r \in Requests, nextEntry \in Nat
  PROVE  NewEntries(r) \in SUBSET Entry
BY DEF NewEntries, Entry


\* The types hold, and with SeenInv they keep holding: a committed row is a
\* merge that was accepted.
LEMMA InitTypeOK == Init => TypeOK
BY DataAssumption, AttemptsAssumption
   DEF Init, TypeOK, Steps, Replies

LEMMA NextTypeOK == TypeOK /\ SeenInv /\ [Next]_vars => TypeOK'
<1> SUFFICES ASSUME TypeOK, SeenInv, [Next]_vars
             PROVE  TypeOK'
    OBVIOUS
<1> USE DEF TypeOK, Steps, Replies, database, input, goroutine, history
<1>1. ASSUME NEW r \in Requests, Read(r)
      PROVE  TypeOK'
  BY <1>1 DEF Read, Answer
<1>2. ASSUME NEW r \in Requests, GuardedUpdate(r)
      PROVE  TypeOK'
  BY <1>2 DEF GuardedUpdate
<1>3. ASSUME NEW r \in Requests, Recheck(r)
      PROVE  TypeOK'
  <2>1. casTry' \in [Requests -> 1 .. MaxCASAttempts]
    <3>1. casTry[r] < MaxCASAttempts => casTry[r] + 1 \in 1 .. MaxCASAttempts
      BY AttemptsAssumption
    <3> QED
      BY <1>3, <3>1 DEF Recheck
  <2>2. deadlockTry' \in [Requests -> 1 .. MaxDeadlockAttempts]
    <3>1. 1 \in 1 .. MaxDeadlockAttempts
      BY AttemptsAssumption
    <3> QED
      BY <1>3, <3>1 DEF Recheck
  <2> QED
    BY <1>3, <2>1, <2>2 DEF Recheck, Release, Answer, Again
<1>4. ASSUME NEW r \in Requests, InsertEntries(r)
      PROVE  TypeOK'
  BY <1>4, NewEntriesType DEF InsertEntries
<1>5. ASSUME NEW r \in Requests, InsertIntoNothing(r)
      PROVE  TypeOK'
  BY <1>5 DEF InsertIntoNothing, Release, Answer
<1>6. ASSUME NEW r \in Requests, Persist(r), pc[r] = "commit",
             UNCHANGED <<exists, nextEntry, input, seen, casTry, deadlockTry,
                         published, firstSeen>>,
             pc' \in [Requests -> Steps], reply' \in [Requests -> Replies]
      PROVE  TypeOK'
  BY <1>6 DEF Persist, Release, SeenInv, Attempting
<1>7. ASSUME NEW r \in Requests, Commit(r)
      PROVE  TypeOK'
  BY <1>6, <1>7 DEF Commit
<1>8. ASSUME NEW r \in Requests, CommitUnacknowledged(r)
      PROVE  TypeOK'
  BY <1>6, <1>8 DEF CommitUnacknowledged, Answer
<1>9. ASSUME NEW r \in Requests, Notify(r)
      PROVE  TypeOK'
  BY <1>9 DEF Notify, Answer
<1>10. ASSUME NEW r \in Requests, DeadlockVictim(r)
       PROVE  TypeOK'
  <2>1. deadlockTry' \in [Requests -> 1 .. MaxDeadlockAttempts]
    <3>1. deadlockTry[r] < MaxDeadlockAttempts =>
            deadlockTry[r] + 1 \in 1 .. MaxDeadlockAttempts
      BY AttemptsAssumption
    <3> QED
      BY <1>10, <3>1 DEF DeadlockVictim
  <2> QED
    BY <1>10, <2>1 DEF DeadlockVictim, Release, Answer, Again
<1>11. ASSUME NEW r \in Requests, DatabaseError(r)
       PROVE  TypeOK'
  BY <1>11 DEF DatabaseError, Release, Answer
<1>12. CASE DeleteEvent
  BY <1>12 DEF DeleteEvent
<1>13. CASE UNCHANGED vars
  BY <1>13 DEF vars
<1> QED
  BY <1>1, <1>2, <1>3, <1>4, <1>5, <1>7, <1>8, <1>9, <1>10, <1>11, <1>12, <1>13,
     StepCases

-----------------------------------------------------------------------------
\* A commit writes the row and moves the version only while its transaction
\* holds the row, and then it is a merge over the present row.
LEMMA PersistRow ==
  ASSUME TypeOK, SeenInv, LockInv,
         NEW r \in Requests, pc[r] = "commit", Persist(r)
  PROVE  /\ ChangesFields(r) <=> lock = r
         /\ row' = Merge(patch[r], row)
         /\ version' = IF ChangesFields(r) THEN version + 1 ELSE version
<1>1. ChangesFields(r) <=> lock = r
  BY DEF LockInv
<1>2. CASE ChangesFields(r)
  BY <1>1, <1>2 DEF Persist, LockInv, SeenInv, Attempting, Merged
<1>3. CASE ~ChangesFields(r)
  <2>1. Merge(patch[r], row) = row
    BY <1>3, MergeEmpty DEF TypeOK, ChangesFields
  <2> QED
    BY <1>1, <1>3, <2>1 DEF Persist
<1> QED
  BY <1>1, <1>2, <1>3

LEMMA InitSeenLock == Init => SeenInv /\ LockInv
BY DataAssumption DEF Init, SeenInv, LockInv, Attempting

LEMMA NextSeenInv ==
  TypeOK /\ SeenInv /\ LockInv /\ [Next]_vars => SeenInv'
<1> SUFFICES ASSUME TypeOK, SeenInv, LockInv, [Next]_vars
             PROVE  SeenInv'
    OBVIOUS
<1> USE DEF TypeOK, SeenInv, Attempting, Merged, input, database, goroutine, history
<1>1. ASSUME NEW r \in Requests, Read(r)
      PROVE  SeenInv'
  BY <1>1 DEF Read, Answer
<1>2. ASSUME NEW r \in Requests, GuardedUpdate(r)
      PROVE  SeenInv'
  BY <1>2 DEF GuardedUpdate
<1>3. ASSUME NEW r \in Requests, Recheck(r)
      PROVE  SeenInv'
  BY <1>3 DEF Recheck, Answer, Again
<1>4. ASSUME NEW r \in Requests, InsertEntries(r)
      PROVE  SeenInv'
  BY <1>4 DEF InsertEntries
<1>5. ASSUME NEW r \in Requests, InsertIntoNothing(r)
      PROVE  SeenInv'
  BY <1>5 DEF InsertIntoNothing, Answer
<1>6. ASSUME NEW r \in Requests, pc[r] = "commit", Persist(r), UNCHANGED <<seen, input>>,
             pc' = [pc EXCEPT ![r] = "notify"] \/ pc' = [pc EXCEPT ![r] = "done"]
      PROVE  SeenInv'
  <2>1. /\ version' = version /\ row' = row
        \/ version' = version + 1
    <3>1. CASE ChangesFields(r)
      BY <1>6, <3>1, PersistRow
    <3>2. CASE ~ChangesFields(r)
      BY <1>6, <3>2, PersistRow, MergeEmpty DEF ChangesFields
    <3> QED
      BY <3>1, <3>2
  <2>2. ASSUME NEW q \in Requests, Attempting(q)'
        PROVE  Attempting(q) /\ seen'[q] = seen[q] /\ patch'[q] = patch[q]
    BY <1>6, <2>2
  <2>3. ASSUME NEW q \in Requests, Attempting(q)'
        PROVE  /\ seen'[q].version \in 1 .. version'
               /\ seen'[q].version = version' => seen'[q].row = row'
               /\ Merged(q)' \in ValidRows
    <3>1. /\ seen[q].version \in 1 .. version
          /\ seen[q].version = version => seen[q].row = row
          /\ Merged(q) \in ValidRows
      BY <2>2, <2>3
    <3>2. seen[q].version # version + 1
      BY <3>1
    <3> QED
      BY <2>1, <2>2, <2>3, <3>1, <3>2
  <2> QED
    BY <2>3
<1>7. ASSUME NEW r \in Requests, Commit(r)
      PROVE  SeenInv'
  BY <1>6, <1>7 DEF Commit
<1>8. ASSUME NEW r \in Requests, CommitUnacknowledged(r)
      PROVE  SeenInv'
  BY <1>6, <1>8 DEF CommitUnacknowledged, Answer
<1>9. ASSUME NEW r \in Requests, Notify(r)
      PROVE  SeenInv'
  BY <1>9 DEF Notify, Answer
<1>10. ASSUME NEW r \in Requests, DeadlockVictim(r)
       PROVE  SeenInv'
  BY <1>10 DEF DeadlockVictim, Answer, Again
<1>11. ASSUME NEW r \in Requests, DatabaseError(r)
       PROVE  SeenInv'
  BY <1>11 DEF DatabaseError, Answer
<1>12. CASE DeleteEvent
  BY <1>12 DEF DeleteEvent
<1>13. CASE UNCHANGED vars
  BY <1>13 DEF vars
<1> QED
  BY <1>1, <1>2, <1>3, <1>4, <1>5, <1>7, <1>8, <1>9, <1>10, <1>11, <1>12, <1>13,
     StepCases

LEMMA NextLockInv ==
  TypeOK /\ SeenInv /\ LockInv /\ [Next]_vars => LockInv'
<1> SUFFICES ASSUME TypeOK, SeenInv, LockInv, [Next]_vars
             PROVE  LockInv'
    OBVIOUS
<1> USE DataAssumption
    DEF TypeOK, LockInv, ChangesFields, input, database, goroutine, history
<1>1. ASSUME NEW r \in Requests, Read(r)
      PROVE  LockInv'
  <2>1. /\ UNCHANGED <<version, exists, lock, patch>> /\ pc[r] = "read"
        /\ seen' = [seen EXCEPT ![r] = [row |-> row, version |-> version]]
        /\ \/ pc' = [pc EXCEPT ![r] = "done"]
           \/ pc' = [pc EXCEPT ![r] = "update"] /\ ChangesFields(r)
           \/ pc' = [pc EXCEPT ![r] = "entries"] /\ ~ChangesFields(r)
    BY <1>1 DEF Read, Answer
  <2>2. /\ \A q \in Requests \ {r} : pc'[q] = pc[q] /\ seen'[q] = seen[q]
        /\ lock # r
    BY <2>1
  <2>3. \/ pc'[r] = "done"
        \/ pc'[r] = "update" /\ ChangesFields(r)
        \/ pc'[r] = "entries" /\ ~ChangesFields(r)
    BY <2>1
  <2> QED
    BY <2>1, <2>2, <2>3
<1>2. ASSUME NEW r \in Requests, GuardedUpdate(r)
      PROVE  LockInv'
  <2>1. seen[r].version \in 1 .. version
    BY <1>2 DEF GuardedUpdate, SeenInv, Attempting
  <2>2. seen' = seen /\ version' = version /\ exists' = exists /\ patch' = patch
    BY <1>2 DEF GuardedUpdate
  <2>3. CASE exists /\ version = seen[r].version
    <3>1. lock' = r /\ pc' = [pc EXCEPT ![r] = "entries"]
      BY <1>2, <2>3 DEF GuardedUpdate
    <3> QED
      BY <1>2, <2>2, <2>3, <3>1 DEF GuardedUpdate
  <2>4. CASE ~(exists /\ version = seen[r].version)
    <3>1. /\ lock' = IF exists THEN r ELSE lock
          /\ pc' = [pc EXCEPT ![r] = "recheck"]
          /\ exists => seen[r].version < version
      <4>1. exists => version # seen[r].version
        BY <2>4
      <4>2. exists => seen[r].version < version
        <5>1. version \in Nat
          BY DEF TypeOK
        <5> HIDE DEF TypeOK, LockInv
        <5> QED
          BY <2>1, <4>1, <5>1
      <4> QED
        BY <1>2, <2>4, <4>2 DEF GuardedUpdate
    <3>2. lock = NoRequest /\ pc[r] = "update"
      BY <1>2 DEF GuardedUpdate
    <3>3. CASE exists
      BY <2>2, <3>1, <3>2, <3>3
    <3>4. CASE ~exists
      BY <2>2, <3>1, <3>2, <3>4
    <3> QED
      BY <3>3, <3>4
  <2> QED
    BY <2>3, <2>4
<1>3. ASSUME NEW r \in Requests, Recheck(r)
      PROVE  LockInv'
  BY <1>3 DEF Recheck, Release, Answer, Again
<1>4. ASSUME NEW r \in Requests, InsertEntries(r)
      PROVE  LockInv'
  BY <1>4 DEF InsertEntries
<1>5. ASSUME NEW r \in Requests, InsertIntoNothing(r)
      PROVE  LockInv'
  BY <1>5 DEF InsertIntoNothing, Release, Answer
<1>6. ASSUME NEW r \in Requests, pc[r] = "commit", Persist(r),
             UNCHANGED <<exists, seen, input>>,
             pc' = [pc EXCEPT ![r] = "notify"] \/ pc' = [pc EXCEPT ![r] = "done"]
      PROVE  LockInv'
  BY <1>6 DEF Persist, Release
<1>7. ASSUME NEW r \in Requests, Commit(r)
      PROVE  LockInv'
  BY <1>6, <1>7 DEF Commit
<1>8. ASSUME NEW r \in Requests, CommitUnacknowledged(r)
      PROVE  LockInv'
  BY <1>6, <1>8 DEF CommitUnacknowledged, Answer
<1>9. ASSUME NEW r \in Requests, Notify(r)
      PROVE  LockInv'
  BY <1>9 DEF Notify, Answer
<1>10. ASSUME NEW r \in Requests, DeadlockVictim(r)
       PROVE  LockInv'
  BY <1>10 DEF DeadlockVictim, Release, Answer, Again
<1>11. ASSUME NEW r \in Requests, DatabaseError(r)
       PROVE  LockInv'
  BY <1>11 DEF DatabaseError, Release, Answer
<1>12. CASE DeleteEvent
  BY <1>12 DEF DeleteEvent
<1>13. CASE UNCHANGED vars
  BY <1>13 DEF vars
<1> QED
  BY <1>1, <1>2, <1>3, <1>4, <1>5, <1>7, <1>8, <1>9, <1>10, <1>11, <1>12, <1>13,
     StepCases

-----------------------------------------------------------------------------
LEMMA InitRest ==
  Init => InsertedInv /\ EntriesInv /\ CommittedInv /\ ChangeLogExplainsRow
BY DEF Init, InsertedInv, EntriesInv, CommittedInv, ChangeLogExplainsRow, ChangesTo

LEMMA NextCommittedInv ==
  TypeOK /\ CommittedInv /\ [Next]_vars => CommittedInv'
<1> SUFFICES ASSUME TypeOK, CommittedInv, [Next]_vars
             PROVE  CommittedInv'
    OBVIOUS
<1> USE DEF TypeOK, CommittedInv, Steps, input, database, goroutine, history
<1>1. ASSUME NEW r \in Requests, Read(r)
      PROVE  CommittedInv'
  BY <1>1 DEF Read, Answer
<1>2. ASSUME NEW r \in Requests,
             GuardedUpdate(r) \/ InsertEntries(r) \/ InsertIntoNothing(r) \/ Notify(r)
      PROVE  CommittedInv'
  BY <1>2 DEF GuardedUpdate, InsertEntries, InsertIntoNothing, Notify, Answer
<1>3. ASSUME NEW r \in Requests, Recheck(r) \/ DeadlockVictim(r) \/ DatabaseError(r)
      PROVE  CommittedInv'
  BY <1>3 DEF Recheck, DeadlockVictim, DatabaseError, Answer, Again
<1>4. ASSUME NEW r \in Requests, Commit(r) \/ CommitUnacknowledged(r)
      PROVE  CommittedInv'
  BY <1>4 DEF Commit, CommitUnacknowledged, Persist, Answer
<1>5. CASE DeleteEvent
  BY <1>5 DEF DeleteEvent
<1>6. CASE UNCHANGED vars
  BY <1>6 DEF vars
<1> QED
  BY <1>1, <1>2, <1>3, <1>4, <1>5, <1>6, StepCases

\* The entries an attempt inserts are younger than all there are.
LEMMA NewEntriesShape ==
  ASSUME TypeOK, EntriesInv, NEW r \in Requests
  PROVE  \A e \in NewEntries(r) :
           /\ e.by = r
           /\ e.id < nextEntry + 2
           /\ e.kind = "change" =>
                /\ ChangesFields(r)
                /\ \A d \in entries : d.kind = "change" => d.id < e.id
                /\ \A d \in NewEntries(r) : d.kind = "change" => d = e
<1> DEFINE change == [id |-> nextEntry, by |-> r, kind |-> "change"]
           aNote == [id |-> nextEntry + 1, by |-> r, kind |-> "note"]
<1>1. nextEntry \in Nat
  BY DEF TypeOK
<1>2. \A e \in NewEntries(r) : (e = change /\ ChangesFields(r)) \/ e = aNote
  BY DEF NewEntries
<1>3. \A d \in entries : d.id < nextEntry
  BY DEF EntriesInv
<1> QED
  BY <1>1, <1>2, <1>3

LEMMA NextInsertedInv ==
  TypeOK /\ LockInv /\ InsertedInv /\ EntriesInv /\ [Next]_vars => InsertedInv'
<1> SUFFICES ASSUME TypeOK, LockInv, InsertedInv, EntriesInv, [Next]_vars
             PROVE  InsertedInv'
    OBVIOUS
<1> USE DEF InsertedInv, ChangesFields, input, database, goroutine, history
<1>1. ASSUME NEW r \in Requests, Read(r) \/ GuardedUpdate(r) \/ Notify(r)
      PROVE  InsertedInv'
  <2>1. UNCHANGED <<inserted, nextEntry, entries, patch>>
    BY <1>1 DEF Read, GuardedUpdate, Notify
  <2>2. /\ pc[r] # "commit"
        /\ \/ pc' = [pc EXCEPT ![r] = "done"] \/ pc' = [pc EXCEPT ![r] = "update"]
           \/ pc' = [pc EXCEPT ![r] = "entries"] \/ pc' = [pc EXCEPT ![r] = "recheck"]
    BY <1>1 DEF Read, GuardedUpdate, Notify, Answer
  <2>3. \A q \in Requests : pc'[q] = "commit" <=> pc[q] = "commit"
    BY <2>2 DEF TypeOK
  <2> QED
    BY <2>1, <2>3
<1>2. ASSUME NEW r \in Requests, Recheck(r) \/ DeadlockVictim(r) \/ DatabaseError(r)
      PROVE  InsertedInv'
  <2>1. /\ UNCHANGED <<nextEntry, entries, patch>>
        /\ inserted' = [inserted EXCEPT ![r] = {}]
    BY <1>2 DEF Recheck, DeadlockVictim, DatabaseError, Release
  <2>2. pc' = [pc EXCEPT ![r] = "done"] \/ pc' = [pc EXCEPT ![r] = "read"]
    BY <1>2 DEF Recheck, DeadlockVictim, DatabaseError, Answer, Again
  <2>3. /\ inserted'[r] = {} /\ pc'[r] # "commit"
        /\ \A q \in Requests \ {r} : inserted'[q] = inserted[q] /\ pc'[q] = pc[q]
    BY <2>1, <2>2 DEF TypeOK
  <2> QED
    BY <2>1, <2>3
<1>3. ASSUME NEW r \in Requests, InsertEntries(r)
      PROVE  InsertedInv'
  <2>1. /\ inserted' = [inserted EXCEPT ![r] = NewEntries(r)]
        /\ pc' = [pc EXCEPT ![r] = "commit"]
        /\ nextEntry' = nextEntry + 2 /\ nextEntry \in Nat
        /\ entries' = entries /\ patch' = patch
    BY <1>3 DEF InsertEntries, TypeOK
  <2>2. ChangesFields(r) => \E e \in NewEntries(r) : e.kind = "change"
    <3> DEFINE change == [id |-> nextEntry, by |-> r, kind |-> "change"]
    <3>1. ChangesFields(r) => change \in NewEntries(r)
      BY DEF NewEntries
    <3>2. change.kind = "change"
      OBVIOUS
    <3> QED
      BY <3>1, <3>2
  <2>3. ASSUME NEW q \in Requests, q # r
        PROVE  inserted'[q] = inserted[q] /\ pc'[q] = pc[q]
    BY <2>1, <2>3 DEF TypeOK
  <2>4. inserted'[r] = NewEntries(r) /\ pc'[r] = "commit"
    BY <2>1 DEF TypeOK
  <2>5. \A q \in Requests : \A e \in inserted[q] : e.id \in Nat
    BY DEF TypeOK, Entry
  <2> QED
    BY <2>1, <2>2, <2>3, <2>4, <2>5, NewEntriesShape
<1>4. ASSUME NEW r \in Requests, InsertIntoNothing(r)
      PROVE  InsertedInv'
  <2>1. pc[r] = "entries" /\ inserted[r] = {} /\ ~exists
    BY <1>4 DEF InsertIntoNothing
  <2>2. ~ChangesFields(r)
    BY <2>1 DEF LockInv
  <2> QED
    BY <1>4, <2>1, <2>2 DEF TypeOK, InsertIntoNothing, Release, Answer
<1>5. ASSUME NEW r \in Requests, pc[r] = "commit", Persist(r),
             UNCHANGED <<nextEntry, input>>,
             pc' = [pc EXCEPT ![r] = "notify"] \/ pc' = [pc EXCEPT ![r] = "done"]
      PROVE  InsertedInv'
  <2>1. /\ inserted' = [inserted EXCEPT ![r] = {}]
        /\ entries' = entries \cup inserted[r]
    BY <1>5 DEF Persist, Release
  <2>2. inserted'[r] = {} /\ pc'[r] # "commit"
    BY <1>5, <2>1 DEF TypeOK
  <2>3. ASSUME NEW q \in Requests, q # r
        PROVE  inserted'[q] = inserted[q] /\ pc'[q] = pc[q]
    BY <1>5, <2>1, <2>3 DEF TypeOK
  \* Only one of the open transactions holds the row, so only one logs a change.
  <2>4. ASSUME NEW q \in Requests, q # r, NEW e \in inserted[q], e.kind = "change"
        PROVE  \A d \in inserted[r] : d.kind # "change"
    <3>1. ChangesFields(q) /\ pc[q] = "commit"
      BY <2>4
    <3>2. ~ChangesFields(r)
      BY <1>5, <2>4, <3>1 DEF LockInv
    <3> QED
      BY <3>2
  <2> QED
    BY <1>5, <2>1, <2>2, <2>3, <2>4
<1>6. ASSUME NEW r \in Requests, Commit(r) \/ CommitUnacknowledged(r)
      PROVE  InsertedInv'
  BY <1>5, <1>6 DEF Commit, CommitUnacknowledged, Answer
<1>7. CASE DeleteEvent
  BY <1>7 DEF DeleteEvent
<1>8. CASE UNCHANGED vars
  BY <1>8 DEF vars
<1> QED
  BY <1>1, <1>2, <1>3, <1>4, <1>6, <1>7, <1>8, StepCases

LEMMA NextEntriesInv ==
  TypeOK /\ InsertedInv /\ EntriesInv /\ [Next]_vars => EntriesInv'
<1> SUFFICES ASSUME TypeOK, InsertedInv, EntriesInv, [Next]_vars
             PROVE  EntriesInv'
    OBVIOUS
<1> USE DEF EntriesInv, input, database, goroutine, history
<1>1. ASSUME NEW r \in Requests,
             \/ Read(r) \/ GuardedUpdate(r) \/ Notify(r) \/ Recheck(r)
             \/ DeadlockVictim(r) \/ DatabaseError(r) \/ InsertIntoNothing(r)
      PROVE  EntriesInv'
  BY <1>1 DEF Read, GuardedUpdate, Notify, Recheck, DeadlockVictim, DatabaseError,
              InsertIntoNothing
<1>2. ASSUME NEW r \in Requests, InsertEntries(r)
      PROVE  EntriesInv'
  <2>1. \A e \in entries : e.id \in Nat
    BY DEF TypeOK, Entry
  <2>2. /\ nextEntry' = nextEntry + 2 /\ nextEntry \in Nat
        /\ entries' = entries /\ committed' = committed
    BY <1>2 DEF InsertEntries, TypeOK
  <2> QED
    BY <2>1, <2>2
<1>3. ASSUME NEW r \in Requests, Commit(r) \/ CommitUnacknowledged(r)
      PROVE  EntriesInv'
  <2>1. /\ entries' = entries \cup inserted[r]
        /\ committed' = committed \cup {r}
        /\ nextEntry' = nextEntry
    BY <1>3 DEF Commit, CommitUnacknowledged, Persist
  <2>2. /\ \A e \in inserted[r] : e.id \in Nat
        /\ \A e \in entries : e.id \in Nat
    BY DEF TypeOK, Entry
  <2>3. \A e \in inserted[r], d \in entries :
          e.kind = "change" /\ d.kind = "change" => d.id # e.id
    BY <2>2 DEF InsertedInv
  <2>4. \A e \in inserted[r], d \in inserted[r] :
          e.kind = "change" /\ d.kind = "change" => d = e
    BY DEF InsertedInv
  <2>5. \A e \in inserted[r] : e.by = r /\ e.id < nextEntry
    BY DEF InsertedInv
  <2> QED
    BY <2>1, <2>3, <2>4, <2>5
<1>4. CASE DeleteEvent
  BY <1>4 DEF DeleteEvent
<1>5. CASE UNCHANGED vars
  BY <1>5 DEF vars
<1> QED
  BY <1>1, <1>2, <1>3, <1>4, <1>5, StepCases

\* The commit of a change adds one entry, the youngest, and writes the fields that
\* it names; any other commit adds no change entry and leaves the row alone.
LEMMA PersistChangeLog ==
  ASSUME IInv, NEW r \in Requests, pc[r] = "commit", Persist(r), UNCHANGED <<exists, input>>
  PROVE  ChangeLogExplainsRow'
<1> SUFFICES ASSUME exists, NEW f \in Fields
             PROVE  /\ ChangesTo(f)' = {} => row'[f] = InitRow[f]
                    /\ \A e \in ChangesTo(f)' :
                         (\A d \in ChangesTo(f)' : d.id <= e.id)
                            => row'[f] = patch[e.by][f]
    BY DEF ChangeLogExplainsRow, input
<1>1. /\ entries' = entries \cup inserted[r]
      /\ patch' = patch
      /\ row' = Merge(patch[r], row)
  BY PersistRow DEF IInv, Persist, input
<1>2. row'[f] = IF f \in DOMAIN patch[r] THEN patch[r][f] ELSE row[f]
  BY <1>1 DEF Merge
<1>3. /\ ChangesTo(f) = {} => row[f] = InitRow[f]
      /\ \A e \in ChangesTo(f) :
           (\A d \in ChangesTo(f) : d.id <= e.id) => row[f] = patch[e.by][f]
  BY DEF IInv, ChangeLogExplainsRow
<1>4. CASE f \in DOMAIN patch[r]
  <2>1. PICK c \in inserted[r] : c.kind = "change"
    BY <1>4 DEF IInv, InsertedInv, ChangesFields
  <2>2. c.by = r /\ c \in ChangesTo(f)' /\ c.id \in Nat
    BY <1>1, <1>4, <2>1 DEF IInv, InsertedInv, ChangesTo, TypeOK, Entry
  <2>3. ASSUME NEW e \in ChangesTo(f)', e # c
        PROVE  e.id < c.id /\ e.id \in Nat
    <3>1. e \in entries
      BY <1>1, <2>1, <2>3 DEF IInv, InsertedInv, ChangesTo
    <3>2. e.id \in Nat
      BY <3>1 DEF IInv, TypeOK, Entry
    <3> QED
      BY <2>1, <2>3, <3>1, <3>2 DEF IInv, InsertedInv, ChangesTo
  <2>4. ASSUME NEW e \in ChangesTo(f)', \A d \in ChangesTo(f)' : d.id <= e.id
        PROVE  e = c
    <3>1. c.id <= e.id
      BY <2>2, <2>4
    <3> QED
      BY <2>2, <2>3, <3>1
  <2> QED
    BY <1>2, <1>4, <2>2, <2>4
<1>5. CASE f \notin DOMAIN patch[r]
  <2>1. \A e \in inserted[r] : e.by = r
    BY DEF IInv, InsertedInv
  <2>2. ChangesTo(f)' = ChangesTo(f)
    BY <1>1, <1>5, <2>1 DEF ChangesTo
  <2> QED
    BY <1>2, <1>3, <1>5, <2>2
<1> QED
  BY <1>4, <1>5

LEMMA NextChangeLog == IInv /\ [Next]_vars => ChangeLogExplainsRow'
<1> SUFFICES ASSUME IInv, [Next]_vars
             PROVE  ChangeLogExplainsRow'
    OBVIOUS
<1>1. ASSUME UNCHANGED <<row, entries, exists, patch>>
      PROVE  ChangeLogExplainsRow'
  BY <1>1 DEF IInv, ChangeLogExplainsRow, ChangesTo
<1>2. ASSUME NEW r \in Requests,
             \/ Read(r) \/ GuardedUpdate(r) \/ Notify(r) \/ Recheck(r)
             \/ DeadlockVictim(r) \/ DatabaseError(r)
             \/ InsertEntries(r) \/ InsertIntoNothing(r)
      PROVE  ChangeLogExplainsRow'
  BY <1>1, <1>2
     DEF Read, GuardedUpdate, Notify, Recheck, DeadlockVictim, DatabaseError,
         InsertEntries, InsertIntoNothing, input, database, history
<1>3. ASSUME NEW r \in Requests, Commit(r) \/ CommitUnacknowledged(r)
      PROVE  ChangeLogExplainsRow'
  BY <1>3, PersistChangeLog DEF Commit, CommitUnacknowledged, input
<1>4. CASE DeleteEvent
  BY <1>4 DEF DeleteEvent, ChangeLogExplainsRow
<1>5. CASE UNCHANGED vars
  BY <1>1, <1>5 DEF vars, database, input
<1> QED
  BY <1>2, <1>3, <1>4, <1>5, StepCases

-----------------------------------------------------------------------------
LEMMA InitIInv == Init => IInv
BY InitTypeOK, InitSeenLock, InitRest DEF IInv

LEMMA NextIInv == IInv /\ [Next]_vars => IInv'
BY NextTypeOK, NextSeenInv, NextLockInv, NextCommittedInv, NextInsertedInv,
   NextEntriesInv, NextChangeLog DEF IInv

LEMMA Invariance == Spec => []IInv
BY InitIInv, NextIInv, PTL DEF Spec

\* Every variable keeps its type; in particular the stored row always passes the
\* handler's check (a Visit never departs before it arrives), although the check
\* is made on a row read before the transaction.
THEOREM TypeCorrect == Spec => []TypeOK
<1>1. IInv => TypeOK
  BY DEF IInv
<1> QED
  BY <1>1, Invariance, PTL

\* No committed change is lost: each column holds what its latest change-log
\* entry says.
THEOREM NoLostUpdate == Spec => []ChangeLogExplainsRow
<1>1. IInv => ChangeLogExplainsRow
  BY DEF IInv
<1> QED
  BY <1>1, Invariance, PTL

-----------------------------------------------------------------------------
\* A step of the handlers is a step of AtomicRecord, or changes nothing it sees.
LEMMA AtomicStep == IInv /\ [Next]_vars => [Atomic!Next]_(Atomic!vars)
<1> SUFFICES ASSUME IInv, [Next]_vars
             PROVE  [Atomic!Next]_(Atomic!vars)
    OBVIOUS
<1> USE DEF Atomic!vars, Atomic!Next
<1>1. ASSUME NEW r \in Requests,
             \/ Read(r) \/ GuardedUpdate(r) \/ Notify(r) \/ Recheck(r)
             \/ DeadlockVictim(r) \/ DatabaseError(r)
             \/ InsertEntries(r) \/ InsertIntoNothing(r)
      PROVE  UNCHANGED Atomic!vars
  BY <1>1
     DEF Read, GuardedUpdate, Notify, Recheck, DeadlockVictim, DatabaseError,
         InsertEntries, InsertIntoNothing, input, database, history
<1>2. ASSUME NEW r \in Requests, Commit(r) \/ CommitUnacknowledged(r)
      PROVE  Atomic!Apply(r)
  <2>1. /\ pc[r] = "commit" /\ Persist(r) /\ committed' = committed \cup {r}
        /\ patch' = patch /\ exists' = exists
    BY <1>2 DEF Commit, CommitUnacknowledged, Persist, input
  <2>2. r \notin committed
    BY <2>1 DEF IInv, CommittedInv
  <2>3. /\ ChangesFields(r) <=> lock = r
        /\ row' = Merge(patch[r], row)
        /\ version' = IF ChangesFields(r) THEN version + 1 ELSE version
    BY <2>1, PersistRow DEF IInv
  <2>4. exists \/ DOMAIN patch[r] = {}
    BY <2>3 DEF IInv, LockInv, ChangesFields
  <2>5. row' \in ValidRows
    BY <1>2, NextTypeOK DEF IInv, TypeOK
  <2> QED
    BY <2>1, <2>2, <2>3, <2>4, <2>5
       DEF Atomic!Apply, Atomic!Merge, Merge, ChangesFields
<1>3. CASE DeleteEvent
  BY <1>3 DEF DeleteEvent, Atomic!Remove, input, history
<1>4. CASE UNCHANGED vars
  BY <1>4 DEF vars, database, input, history
<1> QED
  BY <1>1, <1>2, <1>3, <1>4, StepCases

\* The edits are atomic: whatever the interleaving, the deadlocks and the retries,
\* the record only ever changes by whole requests applied to its present state.
THEOREM EditsAreAtomic == Spec => ImplementsAtomicRecord
<1>1. Init => Atomic!Init
  BY DEF Init, Atomic!Init
<1> QED
  BY <1>1, Invariance, AtomicStep, PTL
     DEF Spec, Atomic!Spec, ImplementsAtomicRecord

-----------------------------------------------------------------------------
\* An answered request is over, and the one event it publishes goes out between
\* its commit and its success.
PublishInv ==
  \A r \in Requests :
    /\ published[r] = IF reply[r] = "success" THEN 1 ELSE 0
    /\ reply[r] # "none" => pc[r] = "done"
    /\ reply[r] = "success" => r \in committed

LEMMA NextPublishInv ==
  TypeOK /\ CommittedInv /\ PublishInv /\ [Next]_vars => PublishInv'
<1> SUFFICES ASSUME TypeOK, CommittedInv, PublishInv, [Next]_vars
             PROVE  PublishInv'
    OBVIOUS
<1> USE DEF TypeOK, PublishInv, Replies, input, database, goroutine, history
<1>1. ASSUME NEW r \in Requests, Read(r)
      PROVE  PublishInv'
  BY <1>1 DEF Read, Answer
<1>2. ASSUME NEW r \in Requests,
             GuardedUpdate(r) \/ InsertEntries(r) \/ InsertIntoNothing(r)
      PROVE  PublishInv'
  BY <1>2 DEF GuardedUpdate, InsertEntries, InsertIntoNothing, Answer
<1>3. ASSUME NEW r \in Requests, Recheck(r) \/ DeadlockVictim(r) \/ DatabaseError(r)
      PROVE  PublishInv'
  BY <1>3 DEF Recheck, DeadlockVictim, DatabaseError, Answer, Again
<1>4. ASSUME NEW r \in Requests, Commit(r) \/ CommitUnacknowledged(r)
      PROVE  PublishInv'
  BY <1>4 DEF Commit, CommitUnacknowledged, Persist, Answer
<1>5. ASSUME NEW r \in Requests, Notify(r)
      PROVE  PublishInv'
  BY <1>5 DEF Notify, Answer, CommittedInv
<1>6. CASE DeleteEvent
  BY <1>6 DEF DeleteEvent
<1>7. CASE UNCHANGED vars
  BY <1>7 DEF vars
<1> QED
  BY <1>1, <1>2, <1>3, <1>4, <1>5, <1>6, <1>7, StepCases

\* Nothing is published of a transaction that did not commit, and nothing twice.
THEOREM PublishedOnce == Spec => []PublishedAfterCommit
<1>1. Init => PublishInv
  BY DEF Init, PublishInv
<1>2. IInv /\ PublishInv /\ [Next]_vars => PublishInv'
  BY NextPublishInv DEF IInv
<1>3. PublishInv => PublishedAfterCommit
  BY DEF PublishInv, PublishedAfterCommit
<1> QED
  BY <1>1, <1>2, <1>3, Invariance, PTL DEF Spec

-----------------------------------------------------------------------------
\* Each attempt of the updateIncident loop began at a later version than the one
\* before it.
TryOf(r) ==
  /\ pc[r] = "read" =>
       \/ firstSeen[r] = 0 /\ casTry[r] = 1
       \/ firstSeen[r] > 0 /\ version >= firstSeen[r] + casTry[r] - 1
  /\ Attempting(r) =>
       firstSeen[r] > 0 /\ seen[r].version >= firstSeen[r] + casTry[r] - 1
  /\ reply[r] = "conflict" =>
       ChangesFields(r) /\ version >= firstSeen[r] + MaxCASAttempts

TryInv == \A r \in Requests : TryOf(r)

LEMMA VersionGrows == IInv /\ [Next]_vars => version' >= version
<1> SUFFICES ASSUME IInv, [Next]_vars
             PROVE  version' >= version
    OBVIOUS
<1>1. version \in Nat
  BY DEF IInv, TypeOK
<1>2. ASSUME NEW r \in Requests, Commit(r) \/ CommitUnacknowledged(r)
      PROVE  version' \in {version, version + 1}
  BY <1>2, PersistRow DEF IInv, Commit, CommitUnacknowledged
<1>3. ASSUME NEW r \in Requests,
             \/ Read(r) \/ GuardedUpdate(r) \/ Notify(r) \/ Recheck(r)
             \/ DeadlockVictim(r) \/ DatabaseError(r)
             \/ InsertEntries(r) \/ InsertIntoNothing(r)
      PROVE  version' = version
  BY <1>3 DEF Read, GuardedUpdate, Notify, Recheck, DeadlockVictim, DatabaseError,
              InsertEntries, InsertIntoNothing, database
<1>4. DeleteEvent \/ UNCHANGED vars => version' = version
  BY DEF DeleteEvent, vars, database
<1> QED
  BY <1>1, <1>2, <1>3, <1>4, StepCases

LEMMA NextTryInv == IInv /\ TryInv /\ PublishInv /\ [Next]_vars => TryInv'
<1> SUFFICES ASSUME IInv, TryInv, PublishInv, [Next]_vars, NEW q \in Requests
             PROVE  TryOf(q)'
    BY DEF TryInv
<1> USE DEF Attempting, ChangesFields, input, database, goroutine, history
<1>1. /\ version \in Nat \ {0} /\ MaxCASAttempts \in Nat
      /\ firstSeen[q] \in Nat /\ casTry[q] \in Nat /\ seen[q].version \in Nat
  BY AttemptsAssumption DEF IInv, TypeOK
<1>2. version' >= version /\ version' \in Nat
  <2>1. IInv'
    BY NextIInv
  <2> QED
    BY <2>1, VersionGrows DEF IInv, TypeOK
<1>3. TryOf(q)
  BY DEF TryInv
<1>4. reply[q] # "none" => pc[q] = "done"
  BY DEF PublishInv
\* A request that keeps its counters, or is answered otherwise, keeps its part.
<1>5. ASSUME firstSeen'[q] = firstSeen[q], casTry'[q] = casTry[q],
             seen'[q] = seen[q], patch' = patch,
             reply'[q] = reply[q] \/ reply'[q] # "conflict",
             \/ pc'[q] = pc[q]
             \/ pc'[q] \in {"notify", "done"}
             \/ Attempting(q) /\ pc'[q] \in {"update", "recheck", "entries", "commit"}
      PROVE  TryOf(q)'
  BY <1>1, <1>2, <1>3, <1>5 DEF TryOf
\* One that starts again has the attempt's version behind it.
<1>6. ASSUME firstSeen'[q] = firstSeen[q], patch' = patch, pc'[q] = "read",
             reply'[q] = "none", Attempting(q), casTry'[q] \in Nat,
             firstSeen[q] + casTry'[q] - 1 <= version
      PROVE  TryOf(q)'
  BY <1>1, <1>2, <1>3, <1>6 DEF TryOf
<1>7. patch' = patch
  BY StepCases DEF Read, GuardedUpdate, Notify, Recheck, DeadlockVictim, DatabaseError,
       InsertEntries, InsertIntoNothing, Commit, CommitUnacknowledged, DeleteEvent, vars
<1>8. ASSUME NEW r \in Requests, Read(r)
      PROVE  TryOf(q)'
  <2>1. CASE q # r
    BY <1>5, <1>7, <1>8, <2>1 DEF Read, Answer, IInv, TypeOK
  <2>2. CASE q = r
    <3>1. /\ firstSeen'[q] = IF firstSeen[q] = 0 THEN version ELSE firstSeen[q]
          /\ seen'[q].version = version /\ casTry'[q] = casTry[q]
          /\ version' = version /\ pc'[q] # "read" /\ pc[q] = "read"
      BY <1>8, <2>2 DEF Read, Answer, IInv, TypeOK
    <3>2. reply'[q] # "conflict"
      BY <1>4, <1>8, <2>2, <3>1 DEF Read, Answer, IInv, TypeOK
    <3> QED
      BY <1>1, <1>3, <3>1, <3>2 DEF TryOf
  <2> QED
    BY <2>1, <2>2
<1>9. ASSUME NEW r \in Requests, GuardedUpdate(r) \/ InsertEntries(r)
      PROVE  TryOf(q)'
  BY <1>5, <1>7, <1>9 DEF GuardedUpdate, InsertEntries, IInv, TypeOK
<1>10. ASSUME NEW r \in Requests, InsertIntoNothing(r) \/ DatabaseError(r)
       PROVE  TryOf(q)'
  BY <1>5, <1>7, <1>10 DEF InsertIntoNothing, DatabaseError, Answer, IInv, TypeOK
<1>11. ASSUME NEW r \in Requests, Commit(r) \/ CommitUnacknowledged(r) \/ Notify(r)
       PROVE  TryOf(q)'
  BY <1>5, <1>7, <1>11
     DEF Commit, CommitUnacknowledged, Notify, Answer, IInv, TypeOK
<1>12. ASSUME NEW r \in Requests, Recheck(r)
       PROVE  TryOf(q)'
  <2>1. CASE q # r
    BY <1>5, <1>7, <1>12, <2>1 DEF Recheck, Answer, Again, IInv, TypeOK
  <2>2. CASE q = r
    <3>1. pc[q] = "recheck" /\ firstSeen' = firstSeen /\ version' = version
      BY <1>12, <2>2 DEF Recheck
    <3>2. ChangesFields(q)
      BY <3>1 DEF IInv, LockInv
    <3>3. CASE ~exists
      <4>1. /\ pc'[q] = "done" /\ reply'[q] = "notfound"
            /\ casTry'[q] = casTry[q] /\ seen'[q] = seen[q]
        BY <1>12, <2>2, <3>3 DEF Recheck, Answer, IInv, TypeOK
      <4> QED
        BY <1>5, <1>7, <3>1, <4>1
    <3>4. CASE exists
      <4>1. seen[q].version < version
        BY <3>1, <3>4 DEF IInv, LockInv
      <4>2. firstSeen[q] > 0 /\ seen[q].version >= firstSeen[q] + casTry[q] - 1
        BY <1>3, <3>1 DEF TryOf
      <4>3. version >= firstSeen[q] + casTry[q]
        BY <1>1, <4>1, <4>2
      <4>4. CASE casTry[q] = MaxCASAttempts
        <5>1. pc'[q] = "done"
          BY <1>12, <2>2, <3>4, <4>4 DEF Recheck, Answer, Again, IInv, TypeOK
        <5> QED
          BY <1>1, <1>7, <3>1, <3>2, <4>3, <4>4, <5>1 DEF TryOf
      <4>5. CASE casTry[q] # MaxCASAttempts
        <5>1. pc'[q] = "read" /\ reply' = reply /\ casTry'[q] = casTry[q] + 1
          BY <1>12, <2>2, <3>4, <4>5 DEF Recheck, Again, IInv, TypeOK
        <5>2. firstSeen[q] + casTry'[q] - 1 <= version /\ casTry'[q] \in Nat
          BY <1>1, <4>3, <5>1
        <5> QED
          BY <1>4, <1>6, <1>7, <3>1, <5>1, <5>2
      <4> QED
        BY <4>4, <4>5
    <3> QED
      BY <3>3, <3>4
  <2> QED
    BY <2>1, <2>2
<1>13. ASSUME NEW r \in Requests, DeadlockVictim(r)
       PROVE  TryOf(q)'
  <2>1. /\ firstSeen' = firstSeen /\ casTry' = casTry /\ seen' = seen
        /\ version' = version
    BY <1>13 DEF DeadlockVictim
  <2>2. CASE q # r \/ pc'[q] = "done"
    <3>1. /\ reply'[q] = reply[q] \/ reply'[q] # "conflict"
          /\ pc'[q] = pc[q] \/ pc'[q] = "done"
      BY <1>13, <2>2 DEF DeadlockVictim, Answer, Again, IInv, TypeOK
    <3> QED
      BY <1>5, <1>7, <2>1, <3>1
  <2>3. CASE q = r /\ pc'[q] # "done"
    <3>1. /\ pc'[q] = "read" /\ reply' = reply /\ pc[q] \in {"update", "entries"}
      BY <1>13, <2>3 DEF DeadlockVictim, Answer, Again, IInv, TypeOK
    <3>2. /\ seen[q].version >= firstSeen[q] + casTry[q] - 1
          /\ seen[q].version <= version
      BY <1>3, <3>1 DEF TryOf, IInv, SeenInv
    <3>3. firstSeen[q] + casTry'[q] - 1 <= version
      BY <1>1, <2>1, <3>2
    <3> QED
      BY <1>1, <1>4, <1>6, <1>7, <2>1, <3>1, <3>3
  <2> QED
    BY <2>2, <2>3
<1>14. CASE DeleteEvent \/ UNCHANGED vars
  BY <1>5, <1>7, <1>14 DEF DeleteEvent, vars
<1> QED
  BY <1>8, <1>9, <1>10, <1>11, <1>12, <1>13, <1>14, StepCases

\* A 409 means that the request lost MaxCASAttempts races in a row.
THEOREM ConflictsAreReal == Spec => []ConflictOnlyAfterLosing
<1>1. Init => PublishInv /\ TryInv
  BY DEF Init, PublishInv, TryInv, TryOf, Attempting
<1>2. IInv /\ TryInv /\ PublishInv /\ [Next]_vars => TryInv' /\ PublishInv'
  BY NextTryInv, NextPublishInv DEF IInv
<1>3. TryInv => ConflictOnlyAfterLosing
  BY DEF TryInv, TryOf, ConflictOnlyAfterLosing
<1> QED
  BY <1>1, <1>2, <1>3, Invariance, PTL DEF Spec

-----------------------------------------------------------------------------
\* The record's row is held shared only by an attempt about to commit.
SharersInv == \A r \in Requests : r \in sharers => pc[r] = "commit"

LEMMA NextSharersInv == TypeOK /\ SharersInv /\ [Next]_vars => SharersInv'
<1> SUFFICES ASSUME TypeOK, SharersInv, [Next]_vars
             PROVE  SharersInv'
    OBVIOUS
<1> USE DEF TypeOK, SharersInv, database, goroutine
<1>1. ASSUME NEW r \in Requests, Read(r) \/ GuardedUpdate(r) \/ Notify(r)
      PROVE  SharersInv'
  BY <1>1 DEF Read, GuardedUpdate, Notify, Answer
<1>2. ASSUME NEW r \in Requests, Recheck(r) \/ DeadlockVictim(r) \/ DatabaseError(r)
      PROVE  SharersInv'
  BY <1>2 DEF Recheck, DeadlockVictim, DatabaseError, Release, Answer, Again
<1>3. ASSUME NEW r \in Requests, InsertEntries(r)
      PROVE  SharersInv'
  BY <1>3 DEF InsertEntries
<1>4. ASSUME NEW r \in Requests, InsertIntoNothing(r)
      PROVE  SharersInv'
  BY <1>4 DEF InsertIntoNothing, Release, Answer
<1>5. ASSUME NEW r \in Requests, Commit(r) \/ CommitUnacknowledged(r)
      PROVE  SharersInv'
  BY <1>5 DEF Commit, CommitUnacknowledged, Persist, Release, Answer
<1>6. CASE DeleteEvent \/ UNCHANGED vars
  BY <1>6 DEF DeleteEvent, vars
<1> QED
  BY <1>1, <1>2, <1>3, <1>4, <1>5, <1>6, StepCases

\* What EveryAttemptEnds says of one request and the retry loops.
ComesCloser(q) ==
  <<pc[q], casTry[q], deadlockTry[q]>>' # <<pc[q], casTry[q], deadlockTry[q]>>
    => pc[q] # "done" /\ Closer(q)

LEMMA StepsComeCloser ==
  ASSUME TypeOK, [Next]_vars, NEW q \in Requests
  PROVE  ComesCloser(q)
<1> USE DEF TypeOK, Steps, ComesCloser, Closer, goroutine, database
<1>1. ASSUME NEW r \in Requests, q # r,
             \/ Read(r) \/ GuardedUpdate(r) \/ Recheck(r)
             \/ InsertEntries(r) \/ InsertIntoNothing(r)
             \/ Commit(r) \/ Notify(r)
             \/ CommitUnacknowledged(r) \/ DeadlockVictim(r) \/ DatabaseError(r)
      PROVE  ComesCloser(q)
  <2>1. pc'[q] = pc[q] /\ casTry'[q] = casTry[q] /\ deadlockTry'[q] = deadlockTry[q]
    BY <1>1 DEF Read, GuardedUpdate, Recheck, InsertEntries, InsertIntoNothing, Commit, Notify,
                CommitUnacknowledged, DeadlockVictim, DatabaseError, Answer, Again
  <2> QED
    BY <2>1
<1>2. CASE Read(q)
  BY <1>2 DEF Read, Answer, Onward
<1>3. CASE GuardedUpdate(q)
  BY <1>3 DEF GuardedUpdate, Onward
<1>4. CASE Recheck(q)
  BY <1>4, AttemptsAssumption DEF Recheck, Answer, Again
<1>5. CASE InsertEntries(q)
  BY <1>5 DEF InsertEntries, Onward
<1>6. CASE InsertIntoNothing(q)
  BY <1>6 DEF InsertIntoNothing, Answer, Onward
<1>7. CASE Commit(q) \/ CommitUnacknowledged(q)
  BY <1>7 DEF Commit, CommitUnacknowledged, Answer, Onward
<1>8. CASE Notify(q)
  BY <1>8 DEF Notify, Answer
<1>9. CASE DeadlockVictim(q)
  BY <1>9, AttemptsAssumption DEF DeadlockVictim, Answer, Again
<1>10. CASE DatabaseError(q)
  BY <1>10 DEF DatabaseError, Answer
<1>11. CASE DeleteEvent \/ UNCHANGED vars
  BY <1>11 DEF DeleteEvent, vars
<1> QED
  BY <1>1, <1>2, <1>3, <1>4, <1>5, <1>6, <1>7, <1>8, <1>9, <1>10, <1>11, StepCases

\* Every request comes to its end: the nested retries run out for any bounds on
\* them, and a lock is only ever held by an attempt that can go on.
THEOREM RetriesRunOut == Spec => EveryAttemptEnds
<1>1. Init => SharersInv
  BY DEF Init, SharersInv
<1>2. IInv /\ SharersInv /\ [Next]_vars => SharersInv'
  BY NextSharersInv DEF IInv
<1>3. ASSUME IInv, SharersInv, [Next]_vars
      PROVE  \A r \in Requests :
               /\ <<pc[r], casTry[r], deadlockTry[r]>>' # <<pc[r], casTry[r], deadlockTry[r]>>
                    => pc[r] # "done" /\ Closer(r)
               /\ lock' = r => pc'[r] \in {"recheck", "entries", "commit"}
               /\ r \in sharers' => pc'[r] = "commit"
  <2> SUFFICES ASSUME NEW r \in Requests
               PROVE  /\ ComesCloser(r)
                      /\ lock' = r => pc'[r] \in {"recheck", "entries", "commit"}
                      /\ r \in sharers' => pc'[r] = "commit"
      BY DEF ComesCloser
  <2>1. ComesCloser(r)
    BY <1>3, StepsComeCloser DEF IInv
  <2>2. lock' = r => pc'[r] \in {"recheck", "entries", "commit"}
    BY <1>3, NextIInv DEF IInv, LockInv
  <2>3. r \in sharers' => pc'[r] = "commit"
    BY <1>3, NextSharersInv DEF IInv, SharersInv
  <2> QED
    BY <2>1, <2>2, <2>3
<1> QED
  BY <1>1, <1>2, <1>3, Invariance, PTL DEF Spec, EveryAttemptEnds

-----------------------------------------------------------------------------
\* At most one entry of each kind of each request.
Single(E) == \A d, e \in E : d.by = e.by /\ d.kind = e.kind => d = e

\* E holds what r is to append, and no more than that.
Whole(r, E) ==
  /\ (\E e \in E : e.by = r /\ e.kind = "change") <=> ChangesFields(r)
  /\ (\E e \in E : e.by = r /\ e.kind = "note") <=> note[r]

\* A transaction about to commit has inserted its request's entries whole, so
\* the record holds them whole, unless it is deleted, once the request is
\* committed; and a refused request never is.
StoredInv ==
  /\ Single(entries)
  /\ \A r \in Requests :
       /\ Single(inserted[r])
       /\ pc[r] = "commit" => Whole(r, inserted[r])
       /\ exists /\ r \in committed => Whole(r, entries)
       /\ reply[r] \in {"conflict", "notfound", "badrequest"} => r \notin committed

\* A request inserts one entry of each kind it asks for.
LEMMA NewEntriesWhole ==
  ASSUME NEW r \in Requests, TypeOK
  PROVE  Single(NewEntries(r)) /\ Whole(r, NewEntries(r))
<1> DEFINE change == [id |-> nextEntry, by |-> r, kind |-> "change"]
           aNote == [id |-> nextEntry + 1, by |-> r, kind |-> "note"]
<1>1. /\ change.by = r /\ change.kind = "change"
      /\ aNote.by = r /\ aNote.kind = "note"
  OBVIOUS
<1>2. \A e : e \in NewEntries(r) <=>
               \/ ChangesFields(r) /\ e = change
               \/ note[r] /\ e = aNote
  BY DEF NewEntries
<1>3. note[r] \in BOOLEAN
  BY DEF TypeOK
<1> HIDE DEF change, aNote
<1> QED
  BY <1>1, <1>2, <1>3 DEF Single, Whole

\* The commit moves them to the record, which had none of this request's.
LEMMA PersistStored ==
  ASSUME IInv, PublishInv, StoredInv, NEW r \in Requests, pc[r] = "commit", Persist(r),
         UNCHANGED <<exists, input>>,
         \/ pc' = [pc EXCEPT ![r] = "notify"] /\ UNCHANGED reply
         \/ Answer(r, "error")
  PROVE  StoredInv'
<1>1. /\ entries' = entries \cup inserted[r]
      /\ committed' = committed \cup {r}
      /\ inserted' = [inserted EXCEPT ![r] = {}]
      /\ patch' = patch /\ note' = note /\ exists' = exists
  BY DEF Persist, Release, input
<1>2. /\ r \notin committed
      /\ \A e \in entries : e.by # r
      /\ \A e \in inserted[r] : e.by = r
  BY DEF IInv, CommittedInv, EntriesInv, InsertedInv
<1>3. Single(entries')
  BY <1>1, <1>2 DEF StoredInv, Single
<1>4. ASSUME NEW q \in Requests
      PROVE  /\ Single(inserted'[q])
             /\ pc'[q] = "commit" => q # r /\ pc[q] = "commit" /\ inserted'[q] = inserted[q]
  BY <1>1 DEF StoredInv, Single, IInv, TypeOK, Answer
<1>5. ASSUME NEW q \in Requests, pc'[q] = "commit"
      PROVE  Whole(q, inserted[q])'
  BY <1>1, <1>4, <1>5 DEF StoredInv, Whole, ChangesFields
<1>6. ASSUME NEW q \in Requests, exists', q \in committed'
      PROVE  Whole(q, entries)'
  <2>1. CASE q = r
    BY <1>1, <1>2, <2>1 DEF StoredInv, Whole, ChangesFields
  <2>2. CASE q # r
    BY <1>1, <1>2, <1>6, <2>2 DEF StoredInv, Whole, ChangesFields
  <2> QED
    BY <2>1, <2>2
<1>7. ASSUME NEW q \in Requests, reply'[q] \in {"conflict", "notfound", "badrequest"}
      PROVE  q \notin committed'
  <2>1. q # r /\ reply'[q] = reply[q]
    BY <1>7 DEF Answer, IInv, TypeOK, PublishInv
  <2> QED
    BY <1>1, <1>7, <2>1 DEF StoredInv
<1> QED
  BY <1>3, <1>4, <1>5, <1>6, <1>7 DEF StoredInv, Single

LEMMA NextStoredInv ==
  IInv /\ PublishInv /\ StoredInv /\ [Next]_vars => StoredInv'
<1> SUFFICES ASSUME IInv, PublishInv, StoredInv, [Next]_vars
             PROVE  StoredInv'
    OBVIOUS
<1> USE DEF input, database, goroutine, history
\* Most steps leave what is committed alone, and commit nothing of what they
\* roll back.
<1>1. ASSUME UNCHANGED <<entries, exists, committed, input>>, NEW r \in Requests,
             inserted' = inserted \/ inserted' = [inserted EXCEPT ![r] = {}],
             pc'[r] # "commit",
             \A q \in Requests \ {r} : pc'[q] = pc[q] /\ reply'[q] = reply[q],
             reply'[r] \in {"conflict", "notfound", "badrequest"} => r \notin committed
      PROVE  StoredInv'
  <2>1. ASSUME NEW q \in Requests
        PROVE  Single(inserted'[q]) /\ (q # r => inserted'[q] = inserted[q])
    BY <1>1 DEF StoredInv, Single, IInv, TypeOK
  <2>2. ASSUME NEW q \in Requests
        PROVE  /\ pc'[q] = "commit" => Whole(q, inserted[q])'
               /\ exists' /\ q \in committed' => Whole(q, entries)'
               /\ reply'[q] \in {"conflict", "notfound", "badrequest"} => q \notin committed'
    BY <1>1, <2>1 DEF StoredInv, Whole, ChangesFields
  <2> QED
    BY <1>1, <2>1, <2>2 DEF StoredInv, Single
<1>2. ASSUME NEW r \in Requests,
             \/ Read(r) \/ GuardedUpdate(r) \/ Notify(r) \/ Recheck(r)
             \/ DeadlockVictim(r) \/ DatabaseError(r)
      PROVE  StoredInv'
  <2>1. /\ UNCHANGED <<entries, exists, committed, input>>
        /\ inserted' = inserted \/ inserted' = [inserted EXCEPT ![r] = {}]
    BY <1>2 DEF Read, GuardedUpdate, Notify, Recheck, DeadlockVictim, DatabaseError, Release
  <2>2. /\ pc'[r] # "commit"
        /\ \A q \in Requests \ {r} : pc'[q] = pc[q] /\ reply'[q] = reply[q]
    BY <1>2 DEF Read, GuardedUpdate, Notify, Recheck, DeadlockVictim, DatabaseError,
                Answer, Again, IInv, TypeOK
  <2>3. reply'[r] \in {"conflict", "notfound", "badrequest"} => r \notin committed
    <3>1. CASE Notify(r)
      BY <3>1 DEF Notify, Answer, IInv, TypeOK
    <3>2. CASE ~Notify(r)
      <4>1. pc[r] \notin {"notify", "done"}
        BY <1>2, <3>2 DEF Read, GuardedUpdate, Recheck, DeadlockVictim, DatabaseError
      <4> QED
        BY <4>1 DEF IInv, CommittedInv
    <3> QED
      BY <3>1, <3>2
  <2> QED
    BY <1>1, <2>1, <2>2, <2>3
<1>3. ASSUME NEW r \in Requests, InsertEntries(r)
      PROVE  StoredInv'
  <2>1. /\ UNCHANGED <<entries, exists, committed, input, reply>>
        /\ inserted' = [inserted EXCEPT ![r] = NewEntries(r)]
        /\ pc' = [pc EXCEPT ![r] = "commit"]
    BY <1>3 DEF InsertEntries
  <2>2. Single(NewEntries(r)) /\ Whole(r, NewEntries(r))
    BY NewEntriesWhole DEF IInv
  <2>3. inserted'[r] = NewEntries(r)
    BY <2>1 DEF IInv, TypeOK
  <2>4. ASSUME NEW q \in Requests, q # r
        PROVE  inserted'[q] = inserted[q] /\ pc'[q] = pc[q]
    BY <2>1, <2>4 DEF IInv, TypeOK
  <2>5. ASSUME NEW q \in Requests
        PROVE  Single(inserted'[q]) /\ (pc'[q] = "commit" => Whole(q, inserted[q])')
    <3>1. CASE q = r
      BY <2>1, <2>2, <2>3, <3>1 DEF Whole, ChangesFields
    <3>2. CASE q # r
      BY <2>1, <2>4, <3>2 DEF StoredInv, Whole, ChangesFields
    <3> QED
      BY <3>1, <3>2
  <2>6. ASSUME NEW q \in Requests
        PROVE  /\ exists' /\ q \in committed' => Whole(q, entries)'
               /\ reply'[q] \in {"conflict", "notfound", "badrequest"} => q \notin committed'
    BY <2>1 DEF StoredInv, Whole, ChangesFields
  <2> QED
    BY <2>1, <2>5, <2>6 DEF StoredInv, Single
<1>4. ASSUME NEW r \in Requests, InsertIntoNothing(r)
      PROVE  StoredInv'
  <2>1. CASE NewEntries(r) # {}
    <3>1. /\ UNCHANGED <<entries, exists, committed, input>>
          /\ inserted' = [inserted EXCEPT ![r] = {}]
          /\ Answer(r, "error")
      BY <1>4, <2>1 DEF InsertIntoNothing, Release
    <3> QED
      BY <1>1, <3>1 DEF Answer, IInv, TypeOK
  <2>2. CASE NewEntries(r) = {}
    <3>1. /\ UNCHANGED <<entries, exists, committed, input, inserted, reply>>
          /\ pc' = [pc EXCEPT ![r] = "commit"]
          /\ pc[r] = "entries"
      BY <1>4, <2>2 DEF InsertIntoNothing
    <3>2. inserted[r] = {} /\ Whole(r, {})
      <4>1. inserted[r] = {}
        BY <3>1 DEF IInv, InsertedInv
      <4>2. Whole(r, NewEntries(r))
        BY NewEntriesWhole DEF IInv
      <4> QED
        BY <2>2, <4>1, <4>2
    <3>3. ASSUME NEW q \in Requests, pc'[q] = "commit"
          PROVE  Whole(q, inserted[q])
      BY <3>1, <3>2, <3>3 DEF StoredInv, IInv, TypeOK
    <3>4. ASSUME NEW q \in Requests
          PROVE  /\ pc'[q] = "commit" => Whole(q, inserted[q])'
                 /\ exists' /\ q \in committed' => Whole(q, entries)'
      BY <3>1, <3>3 DEF StoredInv, Whole, ChangesFields
    <3> QED
      BY <3>1, <3>4 DEF StoredInv, Single
  <2> QED
    BY <2>1, <2>2
<1>5. ASSUME NEW r \in Requests, Commit(r) \/ CommitUnacknowledged(r)
      PROVE  StoredInv'
  BY <1>5, PersistStored DEF Commit, CommitUnacknowledged
<1>6. CASE DeleteEvent
  <2>1. /\ entries' = {} /\ ~exists'
        /\ UNCHANGED <<inserted, pc, committed, reply, input>>
    BY <1>6 DEF DeleteEvent
  <2> QED
    BY <2>1 DEF StoredInv, Single, Whole, ChangesFields
<1>7. CASE UNCHANGED vars
  BY <1>7 DEF vars, StoredInv, Single, Whole, ChangesFields
<1> QED
  BY <1>2, <1>3, <1>4, <1>5, <1>6, <1>7, StepCases

\* An acknowledged request has stored its entries, one of each kind it asked for;
\* a refused one has stored none; and none is stored twice, whatever the retries.
THEOREM EntriesStoredOnce == Spec => []StoredOnceOrNever
<1>1. Init => PublishInv /\ StoredInv
  BY DEF Init, PublishInv, StoredInv, Single, Whole
<1>2. IInv /\ PublishInv /\ StoredInv /\ [Next]_vars => PublishInv' /\ StoredInv'
  BY NextPublishInv, NextStoredInv DEF IInv
<1>3. IInv /\ PublishInv /\ StoredInv => StoredOnceOrNever
  <2> SUFFICES ASSUME IInv, PublishInv, StoredInv, NEW r \in Requests
               PROVE  StoredOnceOrNever!(r)
    BY DEF StoredOnceOrNever
  <2>1. ASSUME NEW k \in {"change", "note"}
        PROVE  Cardinality(EntriesOf(r, k)) <= 1
    <3>1. \A d, e \in EntriesOf(r, k) : d = e
      BY DEF StoredInv, Single, EntriesOf
    <3>2. EntriesOf(r, k) = {} \/ \E e : EntriesOf(r, k) = {e}
      BY <3>1
    <3>3. CASE EntriesOf(r, k) = {}
      BY <3>3, FS_EmptySet
    <3>4. ASSUME NEW e, EntriesOf(r, k) = {e}
          PROVE  Cardinality(EntriesOf(r, k)) <= 1
      <4>1. Cardinality({e}) = 1
        BY FS_Singleton, Zenon
      <4> QED
        BY <3>4, <4>1
    <3> QED
      BY <3>2, <3>3, <3>4
  <2>2. ASSUME exists, reply[r] = "success"
        PROVE  /\ EntriesOf(r, "change") # {} <=> ChangesFields(r)
               /\ EntriesOf(r, "note") # {} <=> note[r]
    <3>1. Whole(r, entries)
      BY <2>2 DEF PublishInv, StoredInv
    <3> QED
      BY <3>1 DEF Whole, EntriesOf
  <2>3. ASSUME reply[r] \in {"conflict", "notfound", "badrequest"}
        PROVE  EntriesOf(r, "change") \cup EntriesOf(r, "note") = {}
    BY <2>3 DEF StoredInv, IInv, EntriesInv, EntriesOf
  <2> QED
    BY <2>1, <2>2, <2>3
<1> QED
  BY <1>1, <1>2, <1>3, Invariance, PTL DEF Spec
=============================================================================
