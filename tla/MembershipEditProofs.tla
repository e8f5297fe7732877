------------------------- MODULE MembershipEditProofs -------------------------
(***************************************************************************)
(* Proofs about MembershipEdit, for any requests, any relations and any    *)
(* number of retries: the rows of a member stay together, the change log   *)
(* explains them, and requests that agree all win.                         *)
(***************************************************************************)
EXTENDS MembershipEdit, SequenceTheorems, TLAPS

\* The rows r's transaction has been at.
Written(r) == {body[r].keys[i] : i \in 1 .. done[r]}

\* A transaction holds what it has been at; what it inserts is absent meanwhile,
\* what it deletes is present, and what it found absent stays so.
Transaction(r) ==
  /\ done[r] \in 0 .. Len(body[r].keys)
  /\ pc[r] = "write" => done[r] < Len(body[r].keys)
  /\ pc[r] \in {"log", "commit"} => done[r] = Len(body[r].keys)
  /\ pc[r] \notin {"write", "log", "commit"} => done[r] = 0
  /\ held[r] \cup gaps[r] = Written(r)
  /\ body[r].attach => gaps[r] = {} /\ held[r] \cap member = {}
  /\ ~body[r].attach => held[r] \subseteq member /\ gaps[r] \cap member = {}

\* A row held is held by nobody else.
Apart(r, q) == held[r] \cap (held[q] \cup gaps[q]) = {}

LockInv ==
  /\ body \in [Requests -> Bodies]
  /\ DOMAIN pc = Requests /\ DOMAIN done = Requests /\ DOMAIN held = Requests
  /\ DOMAIN gaps = Requests /\ DOMAIN inserted = Requests /\ DOMAIN reply = Requests
  /\ \A r \in Requests : Transaction(r)
  /\ \A r, q \in Requests : r # q => Apart(r, q)
-----------------------------------------------------------------------------
LEMMA BodyFacts ==
  ASSUME LockInv, NEW r \in Requests
  PROVE  /\ body[r] \in Bodies /\ body[r].attach \in BOOLEAN
         /\ Len(body[r].keys) \in Nat /\ Len(body[r].keys) >= 1
         /\ DOMAIN body[r].keys = 1 .. Len(body[r].keys)
         /\ KeysOf(r) = {body[r].keys[i] : i \in 1 .. Len(body[r].keys)}
<1>1. body[r] \in Bodies
  BY DEF LockInv
<1>2. body[r].attach \in BOOLEAN /\ body[r].keys \in Seq(Keys) /\ Len(body[r].keys) >= 1
  BY <1>1, BodiesAssumption
<1> QED
  BY <1>1, <1>2 DEF KeysOf, KeySet

\* A transaction is as it was if its rows were left alone.
LEMMA TransactionStays ==
  ASSUME NEW q, Transaction(q), body' = body, pc'[q] = pc[q], done'[q] = done[q],
         held'[q] = held[q], gaps'[q] = gaps[q],
         \A k \in held[q] \cup gaps[q] : k \in member' <=> k \in member
  PROVE  Transaction(q)'
BY DEF Transaction, Written

\* A transaction that is rolled back, or has not begun, holds nothing.
LEMMA NothingHeld ==
  ASSUME LockInv, NEW r \in Requests, body' = body, done'[r] = 0, held'[r] = {}, gaps'[r] = {},
         pc'[r] \notin {"log", "commit"}
  PROVE  Transaction(r)'
<1>1. Written(r)' = {}
  BY DEF Written
<1> QED
  BY <1>1, BodyFacts DEF Transaction

\* What a step of r does to the transactions: it ends r's without an effect; it
\* changes neither its rows nor its locks; it is at one row more; or it commits.
LEMMA StepCases ==
  ASSUME LockInv, NEW r \in Requests, Handle(r) \/ DeadlockVictim(r) \/ DatabaseError(r)
  PROVE  /\ body' = body
         /\ \/ /\ member' = member /\ Release(r) /\ UNCHANGED <<entries, nextEntry>>
               /\ \/ pc' = [pc EXCEPT ![r] = "notify"]
                  \/ pc' = [pc EXCEPT ![r] = "done"]
                  \/ pc' = pc /\ pc[r] = "write"
            \/ Check(r) \/ InsertRow(r) \/ DeleteRow(r) \/ Log(r) \/ Commit(r) \/ Notify(r)
<1>1. CASE InsertDuplicate(r) \/ InsertRefused(r) \/ DatabaseError(r)
  BY <1>1 DEF InsertDuplicate, InsertRefused, DatabaseError, Answer
<1>2. CASE DeadlockVictim(r)
  <2>1. \E S \in SUBSET Requests : r \in S /\ Cycle(S)
    BY <1>2 DEF DeadlockVictim
  <2>2. pc[r] = "write"
    BY <2>1 DEF Cycle, Blockers
  <2> QED
    BY <1>2, <2>2 DEF DeadlockVictim, Answer
<1>3. CASE Check(r) \/ InsertRow(r) \/ DeleteRow(r) \/ Log(r) \/ Commit(r) \/ Notify(r)
  BY <1>3 DEF Check, InsertRow, DeleteRow, Log, Commit, Notify
<1> QED
  BY <1>1, <1>2, <1>3, Zenon DEF Handle

LEMMA NextLockInv == LockInv /\ [Next]_vars => LockInv'
<1> SUFFICES ASSUME LockInv, [Next]_vars
             PROVE  LockInv'
    OBVIOUS
<1>0. /\ DOMAIN pc = Requests /\ DOMAIN done = Requests /\ DOMAIN held = Requests
      /\ DOMAIN gaps = Requests /\ DOMAIN inserted = Requests /\ DOMAIN reply = Requests
      /\ \A r \in Requests : Transaction(r)
      /\ \A r, q \in Requests : r # q => Apart(r, q)
  BY DEF LockInv
\* The frame of a step of r.
<1>1. ASSUME NEW r \in Requests, body' = body,
             DOMAIN pc' = Requests, DOMAIN done' = Requests, DOMAIN held' = Requests,
             DOMAIN gaps' = Requests, DOMAIN inserted' = Requests, DOMAIN reply' = Requests,
             \A q \in Requests \ {r} :
               /\ pc'[q] = pc[q] /\ done'[q] = done[q] /\ held'[q] = held[q] /\ gaps'[q] = gaps[q]
               /\ \A k \in held[q] \cup gaps[q] : k \in member' <=> k \in member
               /\ Apart(r, q)' /\ Apart(q, r)',
             Transaction(r)'
      PROVE  LockInv'
  <2>1. \A q \in Requests \ {r} : Transaction(q)'
    BY <1>0, <1>1, TransactionStays
  <2>2. \A p, q \in Requests : p # q => Apart(p, q)'
    <3>1. ASSUME NEW p \in Requests, NEW q \in Requests, p # q
          PROVE  Apart(p, q)'
      <4>1. CASE p = r \/ q = r
        BY <1>1, <3>1, <4>1
      <4>2. CASE p # r /\ q # r
        <5>1. Apart(p, q) /\ held'[p] = held[p] /\ held'[q] = held[q] /\ gaps'[q] = gaps[q]
          BY <1>0, <1>1, <3>1, <4>2
        <5> QED
          BY <5>1 DEF Apart
      <4> QED
        BY <4>1, <4>2
    <3> QED
      BY <3>1
  <2>3. body' \in [Requests -> Bodies]
    BY <1>1 DEF LockInv
  <2> QED
    BY <1>1, <2>1, <2>2, <2>3 DEF LockInv
<1>2. ASSUME NEW r \in Requests, body' = body, member' = member, Release(r),
             DOMAIN reply' = Requests, pc'[r] \notin {"log", "commit"}, DOMAIN pc' = Requests,
             \A q \in Requests \ {r} : pc'[q] = pc[q]
      PROVE  LockInv'
  <2>1. /\ done'[r] = 0 /\ held'[r] = {} /\ gaps'[r] = {}
        /\ DOMAIN done' = Requests /\ DOMAIN held' = Requests /\ DOMAIN gaps' = Requests
        /\ DOMAIN inserted' = Requests
        /\ \A q \in Requests \ {r} :
             done'[q] = done[q] /\ held'[q] = held[q] /\ gaps'[q] = gaps[q]
    BY <1>0, <1>2 DEF Release
  <2>2. Transaction(r)'
    BY <1>2, <2>1, NothingHeld
  <2>3. \A q \in Requests \ {r} : Apart(r, q)' /\ Apart(q, r)'
    BY <2>1, <1>0 DEF Apart
  <2> QED
    BY <1>1, <1>2, <2>1, <2>2, <2>3
<1>3. ASSUME NEW r \in Requests, Check(r) \/ Log(r) \/ Notify(r)
      PROVE  LockInv'
  <2>1. /\ UNCHANGED <<member, body, done, held, gaps>>
        /\ DOMAIN inserted' = Requests /\ DOMAIN reply' = Requests
        /\ DOMAIN pc' = Requests /\ \A q \in Requests \ {r} : pc'[q] = pc[q]
    BY <1>0, <1>3 DEF Check, Log, Notify, Answer, transaction
  <2>2. \/ pc[r] \in {"check", "notify"} /\ pc'[r] \in {"write", "done"}
        \/ pc[r] = "log" /\ pc'[r] = "commit"
    BY <1>0, <1>3 DEF Check, Log, Notify, Answer
  <2>3. Transaction(r)'
    <3>1. Transaction(r) /\ Written(r)' = Written(r)
      BY <1>0, <2>1 DEF Written
    <3>2. /\ pc[r] \in {"check", "notify"} => done[r] = 0
          /\ pc[r] = "log" => done[r] = Len(body[r].keys)
      BY <3>1 DEF Transaction
    <3> QED
      BY <2>1, <2>2, <3>1, <3>2, BodyFacts DEF Transaction
  <2>4. \A q \in Requests \ {r} : Apart(r, q)' /\ Apart(q, r)'
    BY <1>0, <2>1 DEF Apart
  <2> QED
    BY <1>0, <1>1, <2>1, <2>3, <2>4
<1>4. ASSUME NEW r \in Requests, InsertRow(r) \/ DeleteRow(r)
      PROVE  LockInv'
  <2> DEFINE k == CurrentKey(r)
  <2>1. /\ UNCHANGED <<member, body, inserted, reply>>
        /\ pc[r] = "write" /\ Blockers(r) = {}
        /\ done' = [done EXCEPT ![r] = @ + 1]
        /\ pc' = [pc EXCEPT ![r] = IF done[r] + 1 = Len(body[r].keys) THEN "log" ELSE "write"]
        /\ \/ /\ body[r].attach /\ k \notin member
              /\ held' = [held EXCEPT ![r] = @ \cup {k}] /\ gaps' = gaps
           \/ /\ ~body[r].attach /\ k \in member
              /\ held' = [held EXCEPT ![r] = @ \cup {k}] /\ gaps' = gaps
           \/ /\ ~body[r].attach /\ k \notin member
              /\ gaps' = [gaps EXCEPT ![r] = @ \cup {k}] /\ held' = held
    BY <1>4 DEF InsertRow, DeleteRow, RowDone
  <2>2. \A q \in Requests \ {r} : k \notin held[q] /\ (body[r].attach => k \notin gaps[q])
    BY <2>1 DEF Blockers
  <2>3. /\ DOMAIN pc' = Requests /\ DOMAIN done' = Requests /\ DOMAIN held' = Requests
        /\ DOMAIN gaps' = Requests
        /\ \A q \in Requests \ {r} :
             pc'[q] = pc[q] /\ done'[q] = done[q] /\ held'[q] = held[q] /\ gaps'[q] = gaps[q]
    BY <1>0, <2>1
  <2>4. Transaction(r) /\ done[r] \in Nat /\ done[r] < Len(body[r].keys) /\ done'[r] = done[r] + 1
    BY <1>0, <2>1, BodyFacts DEF Transaction
  <2>5. Written(r)' = Written(r) \cup {k}
    <3>1. 1 .. done'[r] = 1 .. done[r] \cup {done[r] + 1}
      BY <2>4
    <3> QED
      BY <2>1, <3>1 DEF Written, CurrentKey
  <2>6. held'[r] \cup gaps'[r] = held[r] \cup gaps[r] \cup {k}
    BY <1>0, <2>1
  <2>7. /\ body[r].attach => gaps'[r] = {} /\ held'[r] \cap member = {}
        /\ ~body[r].attach => held'[r] \subseteq member /\ gaps'[r] \cap member = {}
    BY <1>0, <2>1, <2>4 DEF Transaction
  <2>8. /\ done'[r] \in 0 .. Len(body[r].keys)
        /\ pc'[r] = "write" => done'[r] < Len(body[r].keys)
        /\ pc'[r] \in {"log", "commit"} => done'[r] = Len(body[r].keys)
        /\ pc'[r] \in {"write", "log"}
    BY <1>0, <2>1, <2>4, BodyFacts
  <2>9. Transaction(r)'
    BY <2>1, <2>4, <2>5, <2>6, <2>7, <2>8 DEF Transaction
  <2>10. \A q \in Requests \ {r} : k \in member => k \notin gaps[q]
    BY <1>0, BodyFacts DEF Transaction
  <2>11. ASSUME NEW q \in Requests \ {r}
         PROVE  Apart(r, q)' /\ Apart(q, r)'
    <3>1. Apart(r, q) /\ Apart(q, r) /\ held'[q] = held[q] /\ gaps'[q] = gaps[q]
      BY <1>0, <2>3
    <3>2. \/ held'[r] = held[r] \cup {k} /\ gaps'[r] = gaps[r] /\ k \notin held[q] \cup gaps[q]
          \/ held'[r] = held[r] /\ gaps'[r] = gaps[r] \cup {k} /\ k \notin held[q]
      BY <1>0, <2>1, <2>2, <2>10
    <3> QED
      BY <3>1, <3>2 DEF Apart
  <2> QED
    BY <1>0, <1>1, <2>1, <2>3, <2>9, <2>11
<1>5. ASSUME NEW r \in Requests, Commit(r)
      PROVE  LockInv'
  <2>1. /\ UNCHANGED <<body, reply>> /\ Release(r)
        /\ member' = IF body[r].attach THEN member \cup held[r] ELSE member \ held[r]
        /\ pc' = [pc EXCEPT ![r] = "notify"]
    BY <1>5 DEF Commit
  <2>2. /\ done'[r] = 0 /\ held'[r] = {} /\ gaps'[r] = {}
        /\ DOMAIN done' = Requests /\ DOMAIN held' = Requests /\ DOMAIN gaps' = Requests
        /\ DOMAIN inserted' = Requests
        /\ \A q \in Requests \ {r} :
             done'[q] = done[q] /\ held'[q] = held[q] /\ gaps'[q] = gaps[q]
    BY <1>0, <2>1 DEF Release
  <2>3. Transaction(r)'
    BY <1>0, <2>1, <2>2, NothingHeld
  <2>4. ASSUME NEW q \in Requests \ {r}
        PROVE  /\ \A k \in held[q] \cup gaps[q] : k \in member' <=> k \in member
               /\ Apart(r, q)' /\ Apart(q, r)'
    <3>1. held[r] \cap (held[q] \cup gaps[q]) = {}
      BY <1>0 DEF Apart
    <3>2. \A k \in held[q] \cup gaps[q] : k \in member' <=> k \in member
      BY <2>1, <3>1
    <3> QED
      BY <2>2, <3>2 DEF Apart
  <2> QED
    BY <1>0, <1>1, <2>1, <2>2, <2>3, <2>4
<1>6. ASSUME NEW r \in Requests, Handle(r) \/ DeadlockVictim(r) \/ DatabaseError(r)
      PROVE  LockInv'
  <2>1. CASE /\ member' = member /\ Release(r)
             /\ \/ pc' = [pc EXCEPT ![r] = "notify"]
                \/ pc' = [pc EXCEPT ![r] = "done"]
                \/ pc' = pc /\ pc[r] = "write"
    <3>1. /\ DOMAIN pc' = Requests /\ pc'[r] \notin {"log", "commit"}
          /\ \A q \in Requests \ {r} : pc'[q] = pc[q]
      BY <1>0, <2>1
    <3>2. body' = body
      BY <1>6, StepCases
    <3>3. DOMAIN reply' = Requests
      BY <1>0, <1>6 DEF Handle, Check, InsertRow, InsertDuplicate, InsertRefused, DeleteRow, Log,
                        Commit, Notify, DeadlockVictim, DatabaseError, Answer
    <3> QED
      BY <1>2, <2>1, <3>1, <3>2, <3>3
  <2> QED
    BY <1>3, <1>4, <1>5, <1>6, <2>1, StepCases, Zenon
<1>7. CASE UNCHANGED vars
  <2>1. UNCHANGED <<member, body, pc, done, held, gaps, inserted, reply>>
    BY <1>7 DEF vars, transaction
  <2>2. \A r : (Transaction(r)' <=> Transaction(r)) /\ \A q : (Apart(r, q)' <=> Apart(r, q))
    BY <2>1 DEF Transaction, Written, Apart
  <2> QED
    BY <2>1, <2>2 DEF LockInv
<1> QED
  BY <1>6, <1>7 DEF Next, Finished

-----------------------------------------------------------------------------
\* The rows of a member.

StoredInv == \A b \in Bodies : KeySet(b) \subseteq member \/ KeySet(b) \cap member = {}

\* A commit writes all rows of its request, and only those.
LEMMA CommitWritesAll ==
  ASSUME LockInv, NEW r \in Requests, Commit(r)
  PROVE  member' = IF body[r].attach THEN member \cup KeysOf(r) ELSE member \ KeysOf(r)
<1>1. pc[r] = "commit" /\ Transaction(r)
      /\ member' = IF body[r].attach THEN member \cup held[r] ELSE member \ held[r]
  BY DEF Commit, LockInv
<1>2. held[r] \cup gaps[r] = KeysOf(r)
  BY <1>1, BodyFacts DEF Transaction, Written
<1>3. /\ body[r].attach => gaps[r] = {}
      /\ ~body[r].attach => gaps[r] \cap member = {}
  BY <1>1 DEF Transaction
<1> QED
  BY <1>1, <1>2, <1>3

\* Nothing but a commit changes what is stored.
LEMMA OnlyCommitsStore ==
  ASSUME [Next]_vars
  PROVE  (entries' = entries /\ member' = member) \/ \E r \in Requests : Commit(r)
<1>1. ASSUME NEW r \in Requests, Handle(r) \/ DeadlockVictim(r) \/ DatabaseError(r), ~Commit(r)
      PROVE  entries' = entries /\ member' = member
  BY <1>1 DEF Handle, Check, InsertRow, InsertDuplicate, InsertRefused, DeleteRow, Log, Notify,
              DeadlockVictim, DatabaseError
<1> QED
  BY <1>1 DEF Next, Finished, vars

LEMMA NextStoredInv == LockInv /\ StoredInv /\ [Next]_vars => StoredInv'
<1> SUFFICES ASSUME LockInv, StoredInv, [Next]_vars
             PROVE  StoredInv'
    OBVIOUS
<1>1. CASE member' = member
  BY <1>1 DEF StoredInv
<1>2. ASSUME NEW r \in Requests, Commit(r)
      PROVE  StoredInv'
  <2>1. member' = IF body[r].attach THEN member \cup KeysOf(r) ELSE member \ KeysOf(r)
    BY <1>2, CommitWritesAll
  <2>2. ASSUME NEW b \in Bodies
        PROVE  KeySet(b) \subseteq member' \/ KeySet(b) \cap member' = {}
    <3>1. KeySet(b) = KeysOf(r) \/ KeySet(b) \cap KeysOf(r) = {}
      BY BodyFacts, BodiesAssumption DEF KeysOf
    <3>2. KeySet(b) \subseteq member \/ KeySet(b) \cap member = {}
      BY DEF StoredInv
    <3> QED
      BY <2>1, <3>1, <3>2
  <2> QED
    BY <2>2 DEF StoredInv
<1> QED
  BY <1>1, <1>2, OnlyCommitsStore

-----------------------------------------------------------------------------
\* The change log.

\* An entry of an open transaction is younger than those committed about its row,
\* unless the row is absent and nobody can insert it: then those say so as well.
EntryInv ==
  /\ nextEntry \in Nat
  /\ \A e \in entries : e.id \in Nat /\ e.id < nextEntry
  /\ \A r \in Requests : pc[r] = "commit" =>
       /\ \A k \in KeysOf(r) : \E i \in inserted[r] : i.key = k
       /\ \A i \in inserted[r] :
            /\ i.id \in Nat /\ i.id < nextEntry
            /\ i.key \in KeysOf(r) /\ i.added = body[r].attach
            /\ \A e \in entries : e.key = i.key =>
                 e.id < i.id \/ (~e.added /\ i.key \in gaps[r])

LEMMA LogsItsRows ==
  ASSUME LockInv, EntryInv, NEW r \in Requests, Log(r)
  PROVE  /\ nextEntry' \in Nat /\ nextEntry' >= nextEntry
         /\ inserted'[r] = {[id |-> nextEntry + i - 1, key |-> body[r].keys[i],
                             added |-> body[r].attach] : i \in 1 .. Len(body[r].keys)}
         /\ \A i \in inserted'[r] :
              /\ i.id \in Nat /\ i.id >= nextEntry /\ i.id < nextEntry'
              /\ i.key \in KeysOf(r) /\ i.added = body[r].attach
         /\ \A k \in KeysOf(r) : \E i \in inserted'[r] : i.key = k
<1>1. /\ nextEntry' = nextEntry + Len(body[r].keys) /\ nextEntry \in Nat
      /\ inserted'[r] = {[id |-> nextEntry + i - 1, key |-> body[r].keys[i],
                          added |-> body[r].attach] : i \in 1 .. Len(body[r].keys)}
  BY BodyFacts DEF Log, LockInv, EntryInv
<1>2. ASSUME NEW i \in inserted'[r]
      PROVE  /\ i.id \in Nat /\ i.id >= nextEntry /\ i.id < nextEntry'
             /\ i.key \in KeysOf(r) /\ i.added = body[r].attach
  <2>1. PICK n \in 1 .. Len(body[r].keys) :
          i = [id |-> nextEntry + n - 1, key |-> body[r].keys[n], added |-> body[r].attach]
    BY <1>1
  <2>2. i.id = nextEntry + n - 1 /\ i.key = body[r].keys[n] /\ i.added = body[r].attach
    BY <2>1
  <2> QED
    BY <1>1, <2>2, BodyFacts
<1>3. ASSUME NEW k \in KeysOf(r)
      PROVE  \E i \in inserted'[r] : i.key = k
  <2>1. PICK n \in 1 .. Len(body[r].keys) : k = body[r].keys[n]
    BY BodyFacts
  <2>2. [id |-> nextEntry + n - 1, key |-> body[r].keys[n], added |-> body[r].attach] \in inserted'[r]
    BY <1>1
  <2> QED
    BY <2>1, <2>2
<1> QED
  BY <1>1, <1>2, <1>3, BodyFacts

\* Two open transactions at their commit that are about the same row: both have
\* found it absent.
LEMMA BothAbsent ==
  ASSUME LockInv, NEW r \in Requests, NEW q \in Requests \ {r}, NEW k,
         pc[r] = "commit", pc[q] = "commit", k \in KeysOf(r), k \in KeysOf(q)
  PROVE  k \in gaps[q] /\ ~body[r].attach
<1>1. Transaction(r) /\ Transaction(q) /\ Apart(r, q) /\ Apart(q, r)
  BY DEF LockInv
<1>2. k \in held[r] \cup gaps[r] /\ k \in held[q] \cup gaps[q]
  BY <1>1, BodyFacts DEF Transaction, Written
<1>3. k \in gaps[r] /\ k \in gaps[q]
  BY <1>1, <1>2 DEF Apart
<1> QED
  BY <1>1, <1>3 DEF Transaction

LEMMA NextEntryInv == LockInv /\ EntryInv /\ [Next]_vars => EntryInv'
<1> SUFFICES ASSUME LockInv, EntryInv, [Next]_vars
             PROVE  EntryInv'
    OBVIOUS
<1>0. DOMAIN pc = Requests /\ DOMAIN inserted = Requests /\ DOMAIN gaps = Requests
  BY DEF LockInv
\* Steps that store no entry and insert none.
<1>1. ASSUME UNCHANGED <<entries, nextEntry, body>>,
             \A q \in Requests : pc'[q] = "commit" =>
               pc[q] = "commit" /\ inserted'[q] = inserted[q] /\ gaps'[q] = gaps[q]
      PROVE  EntryInv'
  BY <1>1 DEF EntryInv, KeysOf
<1>2. ASSUME NEW r \in Requests, Check(r) \/ InsertRow(r) \/ DeleteRow(r) \/ Notify(r)
      PROVE  EntryInv'
  <2>1. /\ UNCHANGED <<entries, nextEntry, body, inserted>>
        /\ \A q \in Requests \ {r} : pc'[q] = pc[q] /\ gaps'[q] = gaps[q]
        /\ pc'[r] # "commit"
    BY <1>0, <1>2 DEF Check, InsertRow, DeleteRow, Notify, RowDone, Answer, transaction
  <2> QED
    BY <1>1, <2>1
<1>3. ASSUME NEW r \in Requests, Log(r)
      PROVE  EntryInv'
  <2>1. /\ UNCHANGED <<entries, body, gaps>>
        /\ \A q \in Requests \ {r} : pc'[q] = pc[q] /\ inserted'[q] = inserted[q]
    BY <1>0, <1>3 DEF Log
  <2>2. /\ nextEntry \in Nat /\ nextEntry' \in Nat /\ nextEntry' >= nextEntry
        /\ \A i \in inserted'[r] :
              /\ i.id \in Nat /\ i.id >= nextEntry /\ i.id < nextEntry'
              /\ i.key \in KeysOf(r) /\ i.added = body[r].attach
        /\ \A k \in KeysOf(r) : \E i \in inserted'[r] : i.key = k
    BY <1>3, LogsItsRows DEF EntryInv
  <2>3. \A e \in entries : e.id \in Nat /\ e.id < nextEntry /\ e.id < nextEntry'
    BY <2>2 DEF EntryInv
  <2>4. \A i \in inserted'[r] : \A e \in entries : e.id < i.id
    BY <2>2, <2>3
  <2>5. ASSUME NEW q \in Requests, pc'[q] = "commit"
        PROVE  /\ \A k \in KeysOf(q) : \E i \in inserted'[q] : i.key = k
               /\ \A i \in inserted'[q] :
                    /\ i.id \in Nat /\ i.id < nextEntry'
                    /\ i.key \in KeysOf(q) /\ i.added = body[q].attach
                    /\ \A e \in entries : e.key = i.key =>
                         e.id < i.id \/ (~e.added /\ i.key \in gaps[q])
    <3>1. CASE q = r
      BY <2>2, <2>4, <3>1
    <3>2. CASE q # r
      <4>1. pc[q] = "commit" /\ inserted'[q] = inserted[q]
        BY <2>1, <2>5, <3>2
      <4>2. \A i \in inserted[q] : i.id \in Nat /\ i.id < nextEntry
        BY <4>1 DEF EntryInv
      <4>3. \A i \in inserted[q] : i.id < nextEntry'
        BY <2>2, <4>2
      <4> QED
        BY <4>1, <4>2, <4>3 DEF EntryInv
    <3> QED
      BY <3>1, <3>2
  <2> QED
    BY <2>1, <2>2, <2>3, <2>5 DEF EntryInv, KeysOf
<1>4. ASSUME NEW r \in Requests, Commit(r)
      PROVE  EntryInv'
  <2>1. /\ UNCHANGED <<nextEntry, body>> /\ entries' = entries \cup inserted[r]
        /\ pc[r] = "commit" /\ pc'[r] = "notify"
        /\ \A q \in Requests \ {r} :
             pc'[q] = pc[q] /\ inserted'[q] = inserted[q] /\ gaps'[q] = gaps[q]
    BY <1>0, <1>4 DEF Commit, Release
  <2>2. \A e \in entries' : e.id \in Nat /\ e.id < nextEntry
    BY <2>1 DEF EntryInv
  <2>3. ASSUME NEW q \in Requests, pc'[q] = "commit"
        PROVE  /\ q # r /\ pc[q] = "commit" /\ inserted'[q] = inserted[q] /\ gaps'[q] = gaps[q]
               /\ \A i \in inserted[q], e \in entries' : e.key = i.key =>
                    e.id < i.id \/ (~e.added /\ i.key \in gaps[q])
    <3>1. q # r /\ pc[q] = "commit" /\ inserted'[q] = inserted[q] /\ gaps'[q] = gaps[q]
      BY <2>1, <2>3
    <3>2. ASSUME NEW i \in inserted[q], NEW e \in inserted[r], e.key = i.key
          PROVE  ~e.added /\ i.key \in gaps[q]
      <4>1. i.key \in KeysOf(q) /\ i.key \in KeysOf(r) /\ e.added = body[r].attach
        BY <2>1, <3>1, <3>2 DEF EntryInv
      <4> QED
        BY <2>1, <3>1, <4>1, BothAbsent
    <3> QED
      BY <2>1, <3>1, <3>2 DEF EntryInv
  <2> QED
    BY <2>1, <2>2, <2>3 DEF EntryInv, KeysOf
<1>5. ASSUME NEW r \in Requests, Handle(r) \/ DeadlockVictim(r) \/ DatabaseError(r)
      PROVE  EntryInv'
  <2>1. CASE /\ Release(r) /\ UNCHANGED <<entries, nextEntry>>
             /\ \/ pc' = [pc EXCEPT ![r] = "notify"]
                \/ pc' = [pc EXCEPT ![r] = "done"]
                \/ pc' = pc /\ pc[r] = "write"
    <3>1. pc'[r] # "commit" /\ \A q \in Requests \ {r} :
            pc'[q] = pc[q] /\ inserted'[q] = inserted[q] /\ gaps'[q] = gaps[q]
      BY <1>0, <2>1 DEF Release
    <3>2. body' = body
      BY <1>5, StepCases
    <3> QED
      BY <1>1, <2>1, <3>1, <3>2
  <2> QED
    BY <1>2, <1>3, <1>4, <1>5, <2>1, StepCases, Zenon
<1>6. CASE UNCHANGED vars
  BY <1>1, <1>6 DEF vars, transaction
<1> QED
  BY <1>5, <1>6 DEF Next, Finished

LEMMA NextExplained ==
  LockInv /\ EntryInv /\ ChangeLogExplainsMembership /\ [Next]_vars => ChangeLogExplainsMembership'
<1> SUFFICES ASSUME LockInv, EntryInv, ChangeLogExplainsMembership, [Next]_vars
             PROVE  ChangeLogExplainsMembership'
    OBVIOUS
<1>1. CASE entries' = entries /\ member' = member
  BY <1>1 DEF ChangeLogExplainsMembership, EntriesAbout
<1>2. ASSUME NEW r \in Requests, Commit(r)
      PROVE  ChangeLogExplainsMembership'
  <2>1. /\ member' = IF body[r].attach THEN member \cup KeysOf(r) ELSE member \ KeysOf(r)
        /\ entries' = entries \cup inserted[r] /\ pc[r] = "commit"
    BY <1>2, CommitWritesAll DEF Commit
  <2>2. ASSUME NEW k \in Keys, NEW e \in EntriesAbout(k)',
               \A d \in EntriesAbout(k)' : d.id <= e.id
        PROVE  e.added <=> k \in member'
    <3>1. CASE k \notin KeysOf(r)
      <4>1. \A i \in inserted[r] : i.key # k
        BY <2>1, <3>1 DEF EntryInv
      <4>2. EntriesAbout(k)' = EntriesAbout(k) /\ (k \in member' <=> k \in member)
        BY <2>1, <3>1, <4>1 DEF EntriesAbout
      <4> QED
        BY <2>2, <4>2 DEF ChangeLogExplainsMembership
    <3>2. CASE k \in KeysOf(r) /\ e \in inserted[r]
      <4>1. e.added = body[r].attach
        BY <2>1, <3>2 DEF EntryInv
      <4> QED
        BY <2>1, <3>2, <4>1, BodyFacts
    <3>3. CASE k \in KeysOf(r) /\ e \notin inserted[r]
      <4>1. e \in entries /\ e.key = k /\ e.id \in Nat
        BY <2>1, <2>2, <3>3 DEF EntriesAbout, EntryInv
      <4>2. PICK i \in inserted[r] : i.key = k
        BY <2>1, <3>3 DEF EntryInv
      <4>3. i \in EntriesAbout(k)' /\ i.id \in Nat
        BY <2>1, <4>2 DEF EntriesAbout, EntryInv
      <4>4. i.id <= e.id
        BY <2>2, <4>3
      <4>5. ~e.added /\ k \in gaps[r]
        BY <2>1, <4>1, <4>2, <4>3, <4>4 DEF EntryInv
      <4>6. ~body[r].attach
        BY <4>5 DEF LockInv, Transaction
      <4> QED
        BY <2>1, <3>3, <4>5, <4>6
    <3> QED
      BY <3>1, <3>2, <3>3
  <2> QED
    BY <2>2 DEF ChangeLogExplainsMembership
<1> QED
  BY <1>1, <1>2, OnlyCommitsStore

-----------------------------------------------------------------------------
\* The answers.

Agreed(r) ==
  \A q \in Requests : KeysOf(q) \cap KeysOf(r) # {} => body[q].attach = body[r].attach
AsAsked(r) == IF body[r].attach THEN KeysOf(r) \subseteq member ELSE KeysOf(r) \cap member = {}
Won(r) == pc[r] = "notify" \/ reply[r] = "success"

WonInv == \A r \in Requests : Won(r) /\ Agreed(r) => AsAsked(r)

\* One row tells of all.
LEMMA OneForAll ==
  ASSUME LockInv, StoredInv, NEW r \in Requests, (body[r].keys[1] \in member) = body[r].attach
  PROVE  AsAsked(r)
<1>1. body[r].keys[1] \in KeysOf(r)
  BY BodyFacts
<1>2. KeysOf(r) \subseteq member \/ KeysOf(r) \cap member = {}
  BY BodyFacts DEF StoredInv, KeysOf
<1>3. body[r].attach \in BOOLEAN
  BY BodyFacts
<1> QED
  BY <1>1, <1>2, <1>3 DEF AsAsked

\* What was as asked stays so, for requests that are agreed about.
LEMMA AskedStays ==
  ASSUME LockInv, [Next]_vars, body' = body, NEW r \in Requests, Agreed(r), AsAsked(r)
  PROVE  AsAsked(r)'
<1>1. KeysOf(r)' = KeysOf(r)
  BY DEF KeysOf
<1>2. CASE member' = member
  BY <1>1, <1>2 DEF AsAsked
<1>3. ASSUME NEW q \in Requests, Commit(q)
      PROVE  AsAsked(r)'
  <2>1. member' = IF body[q].attach THEN member \cup KeysOf(q) ELSE member \ KeysOf(q)
    BY <1>3, CommitWritesAll
  <2>2. KeysOf(q) \cap KeysOf(r) = {} \/ body[q].attach = body[r].attach
    BY DEF Agreed
  <2> QED
    BY <1>1, <2>1, <2>2 DEF AsAsked
<1> QED
  BY <1>2, <1>3, OnlyCommitsStore

LEMMA NextWonInv == LockInv /\ StoredInv /\ WonInv /\ [Next]_vars => WonInv'
<1> SUFFICES ASSUME LockInv, StoredInv, WonInv, [Next]_vars
             PROVE  WonInv'
    OBVIOUS
<1>0. DOMAIN pc = Requests /\ DOMAIN reply = Requests /\ StoredInv'
  BY NextStoredInv DEF LockInv
<1>1. body' = body
  <2>1. ASSUME NEW r \in Requests, Handle(r) \/ DeadlockVictim(r) \/ DatabaseError(r)
        PROVE  body' = body
    BY <2>1, StepCases
  <2> QED
    BY <2>1 DEF Next, Finished, vars
<1>2. \A r \in Requests : (Agreed(r)' <=> Agreed(r)) /\ KeysOf(r)' = KeysOf(r)
  BY <1>1 DEF Agreed, KeysOf
\* Whoever wins by this step finds it as asked.
<1>3. ASSUME NEW r \in Requests, Handle(r) \/ DeadlockVictim(r) \/ DatabaseError(r),
             Won(r)', ~Won(r)
      PROVE  AsAsked(r)'
  <2>1. CASE Check(r)
    <3>1. (body[r].keys[1] \in member) = body[r].attach /\ member' = member
      BY <1>0, <1>3, <2>1 DEF Check, Answer, Won
    <3> QED
      BY <1>1, <1>2, <3>1, OneForAll DEF AsAsked
  <2>2. CASE InsertDuplicate(r)
    <3>1. /\ done[r] = 0 /\ CurrentKey(r) \in member /\ body[r].attach /\ member' = member
      BY <1>0, <1>3, <2>2 DEF InsertDuplicate, Answer, Won
    <3>2. body[r].keys[1] \in member
      BY <3>1 DEF CurrentKey
    <3> QED
      BY <1>1, <1>2, <3>1, <3>2, OneForAll DEF AsAsked
  <2>3. CASE Commit(r)
    BY <1>1, <1>2, <2>3, CommitWritesAll DEF AsAsked
  <2>4. CASE Notify(r)
    BY <1>3, <2>4 DEF Notify, Won
  <2>5. CASE InsertRow(r) \/ DeleteRow(r) \/ Log(r)
    <3>1. reply' = reply /\ pc'[r] # "notify"
      BY <1>0, <2>5 DEF InsertRow, DeleteRow, Log, RowDone
    <3> QED
      BY <1>3, <3>1 DEF Won
  <2>6. CASE InsertRefused(r) \/ DatabaseError(r)
    <3>1. pc'[r] = "done" /\ reply'[r] # "success"
      BY <1>0, <2>6 DEF InsertRefused, DatabaseError, Answer
    <3> QED
      BY <1>3, <3>1 DEF Won
  <2>7. CASE DeadlockVictim(r)
    <3>1. \/ pc' = pc /\ reply' = reply
          \/ pc'[r] = "done" /\ reply'[r] # "success"
      BY <1>0, <2>7 DEF DeadlockVictim, Answer
    <3> QED
      BY <1>3, <3>1 DEF Won
  <2> QED
    BY <1>3, <2>1, <2>2, <2>3, <2>4, <2>5, <2>6, <2>7 DEF Handle
<1>4. ASSUME NEW q \in Requests, Handle(q) \/ DeadlockVictim(q) \/ DatabaseError(q),
             NEW r \in Requests \ {q}
      PROVE  Won(r)' => Won(r)
  <2>1. /\ pc' = pc \/ \E s : pc' = [pc EXCEPT ![q] = s]
        /\ reply' = reply \/ \E a : reply' = [reply EXCEPT ![q] = a]
    <3>1. CASE Check(q) \/ InsertDuplicate(q) \/ InsertRefused(q)
      BY <3>1 DEF Check, InsertDuplicate, InsertRefused, Answer
    <3>2. CASE InsertRow(q) \/ DeleteRow(q) \/ Log(q) \/ Commit(q) \/ Notify(q)
      BY <3>2 DEF InsertRow, DeleteRow, Log, Commit, Notify, RowDone, Answer
    <3>3. CASE DeadlockVictim(q) \/ DatabaseError(q)
      BY <3>3 DEF DeadlockVictim, DatabaseError, Answer
    <3> QED
      BY <1>4, <3>1, <3>2, <3>3 DEF Handle
  <2>2. pc'[r] = pc[r] /\ reply'[r] = reply[r]
    BY <1>0, <2>1
  <2> QED
    BY <2>2 DEF Won
<1>5. ASSUME NEW r \in Requests, Won(r)', Agreed(r)'
      PROVE  AsAsked(r)'
  <2>1. CASE Won(r)
    BY <1>1, <1>2, <1>5, <2>1, AskedStays DEF WonInv
  <2>2. CASE ~Won(r)
    <3>1. CASE UNCHANGED vars
      BY <1>5, <2>2, <3>1 DEF vars, Won
    <3>2. ASSUME NEW q \in Requests, Handle(q) \/ DeadlockVictim(q) \/ DatabaseError(q)
          PROVE  AsAsked(r)'
      BY <1>3, <1>4, <1>5, <2>2, <3>2
    <3> QED
      BY <3>1, <3>2 DEF Next, Finished
  <2> QED
    BY <2>1, <2>2
<1> QED
  BY <1>5 DEF WonInv

-----------------------------------------------------------------------------
IInv == LockInv /\ StoredInv /\ EntryInv /\ ChangeLogExplainsMembership /\ WonInv

LEMMA InitIInv == Init => IInv
<1> SUFFICES ASSUME Init
             PROVE  IInv
    OBVIOUS
<1>1. LockInv
  <2>1. ASSUME NEW r \in Requests
        PROVE  Transaction(r) /\ \A q \in Requests : Apart(r, q)
    <3>1. /\ body[r] \in Bodies /\ done[r] = 0 /\ held[r] = {} /\ gaps[r] = {} /\ pc[r] = "check"
      BY DEF Init
    <3>2. Len(body[r].keys) \in Nat
      BY <3>1, BodiesAssumption
    <3>3. Written(r) = {}
      BY <3>1 DEF Written
    <3> QED
      BY <3>1, <3>2, <3>3 DEF Transaction, Apart
  <2> QED
    BY <2>1 DEF Init, LockInv
<1>2. StoredInv
  BY BodiesAssumption DEF Init, StoredInv
<1>3. EntryInv /\ ChangeLogExplainsMembership
  BY DEF Init, EntryInv, ChangeLogExplainsMembership, EntriesAbout
<1>4. WonInv
  BY DEF Init, WonInv, Won
<1> QED
  BY <1>1, <1>2, <1>3, <1>4 DEF IInv

LEMMA NextIInv == IInv /\ [Next]_vars => IInv'
BY NextLockInv, NextStoredInv, NextEntryInv, NextExplained, NextWonInv DEF IInv

\* The rows of a link are stored together or not at all, whichever ends concurrent
\* requests arrive on, and wherever they deadlock, fail or are refused.
THEOREM LinksAreWhole == Spec => []RowsStoredTogether
<1>1. IInv => RowsStoredTogether
  BY BodyFacts DEF IInv, StoredInv, RowsStoredTogether, KeysOf
<1> QED
  BY <1>1, InitIInv, NextIInv, PTL DEF Spec

\* The latest entry about a row says whether it is stored: the row and gap locks keep
\* the commits in the order of the entries, but for removals of what was not there.
THEOREM ChangesAreExplained == Spec => []ChangeLogExplainsMembership
<1>1. IInv => ChangeLogExplainsMembership
  BY DEF IInv
<1> QED
  BY <1>1, InitIInv, NextIInv, PTL DEF Spec

\* A request answered with success finds its membership as asked, unless another one
\* asked for the opposite: losing the race against its like is no failure.
THEOREM AgreedRequestsWin == Spec => []CommutingRequestsAllWin
<1>1. IInv => CommutingRequestsAllWin
  BY DEF IInv, WonInv, Won, Agreed, AsAsked, CommutingRequestsAllWin
<1> QED
  BY <1>1, InitIInv, NextIInv, PTL DEF Spec
=============================================================================
