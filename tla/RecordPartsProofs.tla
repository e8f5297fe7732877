-------------------------- MODULE RecordPartsProofs --------------------------
(***************************************************************************)
(* Proofs about RecordParts and RecordReads, for any requests and readers, *)
(* any scenarios and any number of retries: the roster has no twins, the   *)
(* change log explains roster and strikes, events follow their commits,    *)
(* and what readers are shown.                                             *)
(***************************************************************************)
EXTENDS RecordReads, FiniteSetTheorems, TLAPS

Change(r) == op(r) \in {"attach", "detach"}

\* What r's place in its handler says of its body and of its transaction.
Phase(r) ==
  /\ op(r) = "none" => pc[r] = "done"
  /\ pc[r] \in {"look", "insert"} => op(r) = "attach"
  /\ pc[r] = "delete" => Change(r)
  /\ pc[r] = "mark" => op(r) = "strike" /\ body(r).to \in BOOLEAN
  /\ pc[r] \in {"log", "commit"} => Change(r) \/ (op(r) = "strike" /\ body(r).to \in BOOLEAN)
  /\ pc[r] \in {"save", "entry", "join"} => op(r) = "upload"
  /\ pc[r] \notin {"insert", "log", "commit"} => held[r] = "none" /\ removed[r] = {}
  /\ pc[r] = "insert" => held[r] \in {"gap", "rows"}
  /\ pc[r] \in {"log", "commit"} /\ op(r) = "attach" => held[r] = "rows"
  /\ pc[r] \in {"log", "commit"} /\ op(r) = "detach" => held[r] \in {"gap", "rows"}
  /\ pc[r] \in {"log", "commit"} /\ op(r) = "strike" => held[r] \in {"none", "entry"} /\ removed[r] = {}
  /\ logged[r] # 0 <=> pc[r] = "commit"

BaseInv == TypeOK /\ \A r \in Requests : Phase(r)
-----------------------------------------------------------------------------
LEMMA BodyFacts ==
  ASSUME given \in Scenarios, NEW r \in Requests
  PROVE  /\ op(r) \in {"none", "attach", "detach", "strike", "upload"}
         /\ op(r) = "attach" => body(r).ranger \in Rangers /\ body(r).role \in Roles \cup {NoRole}
         /\ op(r) = "detach" => body(r).ranger \in Rangers
         /\ op(r) = "strike" => body(r).id \in Nat /\ body(r).to \in BOOLEAN \cup {Nil}
         /\ op(r) # "none" => user(r) \in Users
<1>1. body(r) \in Bodies
  BY PartsAssumption DEF body
<1> QED
  BY <1>1 DEF op, body, user, Bodies

\* A handler touches no other's state.
LEMMA Mine ==
  ASSUME TypeOK, NEW r \in Requests, Request(r)
  PROVE  /\ given' = given /\ exists' = exists /\ version' = version
         /\ \A q \in Requests \ {r} :
              /\ pc'[q] = pc[q] /\ held'[q] = held[q] /\ removed'[q] = removed[q]
              /\ logged'[q] = logged[q] /\ reply'[q] = reply[q] /\ file'[q] = file[q]
<1> USE DEF TypeOK, Goto, Answer, Release, Proceed, record, entries, transaction
<1>1. CASE Begin(r) \/ FetchRow(r) \/ FetchEntries(r)
  BY <1>1 DEF Begin, FetchRow, FetchEntries
<1>2. CASE Look(r) \/ DeleteRows(r) \/ InsertRow(r)
  BY <1>2 DEF Look, DeleteRows, InsertRow
<1>3. CASE Mark(r) \/ LogChange(r)
  BY <1>3 DEF Mark, LogChange
<1>4. CASE ForeignKeyFails(r) \/ DatabaseError(r)
  BY <1>4 DEF ForeignKeyFails, DatabaseError
<1>5. CASE Commit(r)
  BY <1>5 DEF Commit
<1>6. CASE DeadlockVictim(r)
  BY <1>6 DEF DeadlockVictim
<1>7. CASE SaveFile(r) \/ StoreEntry(r) \/ JoinEntry(r) \/ Notify(r)
  BY <1>7 DEF SaveFile, StoreEntry, JoinEntry, Notify
<1> QED
  BY <1>1, <1>2, <1>3, <1>4, <1>5, <1>6, <1>7 DEF Request

\* What no statement of a handler but a commit or a step of an upload changes.
LEMMA PhaseStays ==
  ASSUME NEW q \in Requests, Phase(q), given' = given, pc'[q] = pc[q], held'[q] = held[q],
         removed'[q] = removed[q], logged'[q] = logged[q]
  PROVE  Phase(q)'
BY DEF Phase, Change, op, body

LEMMA StepPhase ==
  ASSUME BaseInv, NEW r \in Requests, Request(r)
  PROVE  Phase(r)'
<1>1. /\ TypeOK /\ Phase(r) /\ given' = given /\ op(r)' = op(r) /\ body(r)' = body(r)
      /\ Change(r)' = Change(r)
  BY Mine DEF BaseInv, op, body, Change
<1>2. /\ op(r) \in {"none", "attach", "detach", "strike", "upload"}
      /\ op(r) = "strike" => body(r).to \in BOOLEAN \cup {Nil}
  BY <1>1, BodyFacts DEF TypeOK
<1>3. /\ pc \in [Requests -> Steps] /\ held \in [Requests -> {"none", "gap", "rows", "entry"}]
      /\ DOMAIN logged = Requests /\ DOMAIN removed = Requests /\ nextEntry # 0
  <2>1. logged[r] \in 0 .. (nextEntry - 1)
    BY <1>1 DEF TypeOK
  <2> QED
    BY <1>1, <2>1 DEF TypeOK
<1> USE DEF Goto, Answer, Release, Proceed, TransactionStart, record, entries, transaction, Steps
<1> HIDE DEF Change
<1>4. CASE Begin(r) \/ FetchRow(r) \/ FetchEntries(r)
  BY <1>1, <1>2, <1>3, <1>4 DEF Begin, FetchRow, FetchEntries, Phase, Change
<1>5. CASE Look(r)
  BY <1>1, <1>2, <1>3, <1>5 DEF Look, Phase, Change
<1>6. CASE DeleteRows(r)
  BY <1>1, <1>2, <1>3, <1>6 DEF DeleteRows, Phase, Change
<1>7. CASE InsertRow(r)
  BY <1>1, <1>2, <1>3, <1>7 DEF InsertRow, Phase, Change
<1>8. CASE Mark(r)
  BY <1>1, <1>2, <1>3, <1>8 DEF Mark, Phase, Change
<1>9. CASE LogChange(r)
  BY <1>1, <1>2, <1>3, <1>9 DEF LogChange, Phase, Change
<1>10. CASE ForeignKeyFails(r) \/ DatabaseError(r)
  BY <1>1, <1>2, <1>3, <1>10 DEF ForeignKeyFails, DatabaseError, Phase, Change
<1>11. CASE Commit(r)
  BY <1>1, <1>2, <1>3, <1>11 DEF Commit, Phase, Change
<1>12. CASE DeadlockVictim(r)
  BY <1>1, <1>2, <1>3, <1>12 DEF DeadlockVictim, Phase, Change
<1>13. CASE SaveFile(r) \/ StoreEntry(r) \/ JoinEntry(r) \/ Notify(r)
  BY <1>1, <1>2, <1>3, <1>13 DEF SaveFile, StoreEntry, JoinEntry, Notify, Phase, Change
<1> QED
  BY <1>4, <1>5, <1>6, <1>7, <1>8, <1>9, <1>10, <1>11, <1>12, <1>13 DEF Request

LEMMA StepType ==
  ASSUME BaseInv, NEW r \in Requests, Request(r)
  PROVE  TypeOK'
<1>1. TypeOK /\ Phase(r) /\ given' = given /\ op(r)' = op(r) /\ body(r)' = body(r)
  BY Mine DEF BaseInv, op, body
<1>2. /\ op(r) \in {"attach", "detach"} => body(r).ranger \in Rangers
      /\ op(r) = "attach" => body(r).role \in Roles \cup {NoRole}
      /\ op(r) = "strike" => body(r).id \in Nat
  BY <1>1, BodyFacts DEF TypeOK
<1>3. ASSUME UNCHANGED <<given, exists, version, roster, attached, stricken, nextEntry, entry, file>>,
             \E step \in Steps : pc' = [pc EXCEPT ![r] = step],
             held' = held \/ (\E lock \in {"none", "gap", "rows", "entry"} : held' = [held EXCEPT ![r] = lock]),
             removed' = removed \/ (\E rows \in SUBSET roster : removed' = [removed EXCEPT ![r] = rows]),
             logged' = logged \/ logged' = [logged EXCEPT ![r] = 0],
             deadlockTry' = deadlockTry
               \/ (deadlockTry[r] < MaxDeadlockAttempts /\ deadlockTry' = [deadlockTry EXCEPT ![r] = @ + 1]),
             reply' = reply \/ (\E a \in Replies : reply' = [reply EXCEPT ![r] = a]),
             published' = published \/ published' = published \cup {r}
      PROVE  TypeOK'
  <2>1. pc' \in [Requests -> Steps] /\ held' \in [Requests -> {"none", "gap", "rows", "entry"}]
    BY <1>1, <1>3 DEF TypeOK
  <2>2. removed' \in [Requests -> SUBSET Rows]
    BY <1>1, <1>3 DEF TypeOK
  <2>3. logged' \in [Requests -> 0 .. (nextEntry' - 1)]
    <3>1. logged[r] \in 0 .. (nextEntry - 1)
      BY <1>1 DEF TypeOK
    <3>2. 0 \in 0 .. (nextEntry - 1)
      BY <1>1, <3>1 DEF TypeOK
    <3> QED
      BY <1>1, <1>3, <3>2 DEF TypeOK
  <2>4. deadlockTry' \in [Requests -> 1 .. MaxDeadlockAttempts]
    BY <1>1, <1>3, PartsAssumption DEF TypeOK
  <2>5. reply' \in [Requests -> Replies] /\ published' \subseteq Requests
    BY <1>1, <1>3 DEF TypeOK
  <2> QED
    BY <1>1, <1>3, <2>1, <2>2, <2>3, <2>4, <2>5 DEF TypeOK
<1> USE DEF Goto, Answer, Release, record, entries, transaction
<1>4. CASE Begin(r) \/ FetchRow(r) \/ FetchEntries(r) \/ Look(r)
  BY <1>3, <1>4 DEF Begin, FetchRow, FetchEntries, Look, Proceed, TransactionStart, Steps, Replies
<1>5. CASE DeleteRows(r)
  <2>1. RowsOf(body(r).ranger) \in SUBSET roster
    BY DEF RowsOf
  <2> QED
    BY <1>3, <1>5, <2>1 DEF DeleteRows, Steps, Replies
<1>6. CASE InsertRow(r) \/ Mark(r)
  BY <1>3, <1>6 DEF InsertRow, Mark, Steps, Replies
<1>7. ASSUME nextEntry' = nextEntry + 1, logged' = [logged EXCEPT ![r] = nextEntry] \/ logged' = [logged EXCEPT ![r] = 0]
      PROVE  /\ logged' \in [Requests -> 0 .. (nextEntry' - 1)]
             /\ \A n \in 0 .. (nextEntry - 1) : n \in 0 .. (nextEntry' - 1)
  BY <1>1, <1>7 DEF TypeOK
<1>8. CASE LogChange(r)
  BY <1>1, <1>7, <1>8 DEF LogChange, TypeOK, Steps
<1>9. CASE ForeignKeyFails(r)
  <2>1. CASE UNCHANGED nextEntry
    BY <1>3, <1>9, <2>1 DEF ForeignKeyFails, Steps, Replies
  <2>2. CASE nextEntry' = nextEntry + 1
    BY <1>1, <1>7, <1>9, <2>2 DEF ForeignKeyFails, TypeOK, Steps, Replies
  <2> QED
    BY <1>9, <2>1, <2>2 DEF ForeignKeyFails
<1>10. CASE DatabaseError(r)
  BY <1>3, <1>10 DEF DatabaseError, Steps, Replies
<1>11. CASE DeadlockVictim(r)
  BY <1>3, <1>11 DEF DeadlockVictim, TransactionStart, Steps, Replies
<1>12. CASE Notify(r)
  BY <1>3, <1>12 DEF Notify, Steps, Replies
<1>13. CASE SaveFile(r)
  BY <1>1, <1>13 DEF SaveFile, TypeOK, Steps, Replies
<1>14. CASE StoreEntry(r)
  <2>1. logged' \in [Requests -> 0 .. (nextEntry' - 1)]
    BY <1>1, <1>14 DEF StoreEntry, TypeOK
  <2>2. \A e \in entry' : e.id \in 1 .. (nextEntry' - 1) /\ e.by \in Requests \cup {"first", "edit"}
    <3>1. logged[r] \in 0 .. (nextEntry - 1)
      BY <1>1 DEF TypeOK
    <3> QED
      BY <1>1, <1>14, <3>1 DEF StoreEntry, Store, TypeOK
  <2> QED
    BY <1>1, <1>14, <2>1, <2>2 DEF StoreEntry, TypeOK, Steps, Replies
<1>15. CASE JoinEntry(r)
  <2>1. \A e \in EntriesOf(r) : e.id \in Nat
    BY <1>1 DEF EntriesOf, TypeOK
  <2>2. {e.id : e \in EntriesOf(r)} \subseteq Nat
    BY <2>1
  <2>3. attached \subseteq Nat /\ attached' = attached \cup {e.id : e \in EntriesOf(r)}
    BY <1>1, <1>15 DEF JoinEntry, TypeOK
  <2>4. attached' \subseteq Nat
    BY <2>2, <2>3
  <2> QED
    BY <1>1, <1>15, <2>4 DEF JoinEntry, TypeOK, Steps, Replies
<1>16. CASE Commit(r)
  <2>1. logged[r] \in 1 .. (nextEntry - 1)
    BY <1>1, <1>16 DEF Commit, TypeOK, Phase
  <2>2. roster' \subseteq Rows
    BY <1>1, <1>2, <1>16 DEF Commit, CommitEffect, TypeOK, Rows
  <2>3. \A e \in entry' : e.id \in 1 .. (nextEntry' - 1) /\ e.by \in Requests \cup {"first", "edit"}
    BY <1>1, <1>16, <2>1 DEF Commit, CommitEffect, Store, TypeOK
  <2>4. attached' \subseteq Nat
    <3>1. attached \subseteq Nat /\ attached' = attached \cup {logged[r]}
      BY <1>1, <1>16 DEF Commit, CommitEffect, TypeOK
    <3>2. logged[r] \in Nat
      BY <1>1, <2>1 DEF TypeOK
    <3> QED
      BY <3>1, <3>2
  <2>6. 0 \in 0 .. (nextEntry - 1) /\ nextEntry' = nextEntry /\ logged' = [logged EXCEPT ![r] = 0]
    BY <1>1, <1>16, <2>1 DEF Commit, TypeOK
  <2>7. logged' \in [Requests -> 0 .. (nextEntry' - 1)]
    BY <1>1, <2>6 DEF TypeOK
  <2>5. stricken' \subseteq Nat
    BY <1>1, <1>2, <1>16, <2>1 DEF Commit, CommitEffect, TypeOK, Phase, Change
  <2> QED
    BY <1>1, <1>16, <2>2, <2>3, <2>4, <2>5, <2>7 DEF Commit, TypeOK, Steps, Replies
<1> QED
  BY <1>4, <1>5, <1>6, <1>8, <1>9, <1>10, <1>11, <1>12, <1>13, <1>14, <1>15, <1>16 DEF Request

-----------------------------------------------------------------------------
\* A step of somebody else, or the end of the process.
LEMMA OthersBase ==
  ASSUME BaseInv, Edit \/ Remove \/ Crash \/ UNCHANGED vars
  PROVE  /\ BaseInv' /\ given' = given
         /\ Edit \/ Remove => UNCHANGED <<pc, held, removed, logged, reply, file, published>>
<1>0. Edit \/ Remove => UNCHANGED <<pc, held, removed, logged, reply, file, published>>
  BY DEF Edit, Remove, transaction
<1> USE DEF BaseInv
<1>1. CASE Edit
  <2>1. TypeOK'
    <3>1. version' \in 1 .. MaxVersion
      BY <1>1, PartsAssumption DEF Edit, TypeOK
    <3>2. attached' \subseteq Nat /\ nextEntry' \in Nat
      BY <1>1 DEF Edit, TypeOK
    <3>3. logged' \in [Requests -> 0 .. (nextEntry' - 1)]
      BY <1>1 DEF Edit, TypeOK, transaction
    <3>4. \A e \in entry' : e.id \in 1 .. (nextEntry' - 1) /\ e.by \in Requests \cup {"first", "edit"}
      BY <1>1 DEF Edit, TypeOK
    <3> QED
      BY <1>1, <3>1, <3>2, <3>3, <3>4 DEF Edit, TypeOK, transaction
  <2>2. given' = given /\ UNCHANGED <<pc, held, removed, logged, reply, file, published>>
    BY <1>1 DEF Edit, transaction
  <2>3. \A r \in Requests : Phase(r)'
    BY <2>2, PhaseStays
  <2> QED
    BY <1>1, <2>1, <2>2, <2>3 DEF Edit
<1>2. CASE Remove
  <2>1. TypeOK'
    BY <1>2 DEF Remove, TypeOK, transaction
  <2>2. given' = given /\ UNCHANGED <<pc, held, removed, logged, reply, file, published>>
    BY <1>2 DEF Remove, transaction
  <2>3. \A r \in Requests : Phase(r)'
    BY <2>2, PhaseStays
  <2> QED
    BY <2>1, <2>2, <2>3
<1>3. CASE Crash
  <2>1. TypeOK'
    BY <1>3 DEF Crash, TypeOK, record, entries, Steps
  <2>2. ASSUME NEW r \in Requests
        PROVE  Phase(r)'
    BY <1>3 DEF Crash, Phase, Change, op, body
  <2> QED
    BY <1>0, <1>3, <2>1, <2>2 DEF Crash
<1>4. CASE UNCHANGED vars
  BY <1>0, <1>4 DEF vars, record, entries, transaction, TypeOK, Phase, Change, op, body
<1> QED
  BY <1>1, <1>2, <1>3, <1>4

LEMMA NextCases ==
  ASSUME [Next]_vars
  PROVE  (\E r \in Requests : Request(r)) \/ Edit \/ Remove \/ Crash \/ UNCHANGED vars
BY DEF Next, Step, Finished

LEMMA NextBase == BaseInv /\ [Next]_vars => BaseInv'
<1> SUFFICES ASSUME BaseInv, [Next]_vars
             PROVE  BaseInv'
    OBVIOUS
<1>1. ASSUME NEW r \in Requests, Request(r)
      PROVE  BaseInv'
  <2>1. TypeOK' /\ Phase(r)'
    BY <1>1, StepType, StepPhase
  <2>2. ASSUME NEW q \in Requests \ {r}
        PROVE  Phase(q)'
    BY <1>1, Mine, PhaseStays DEF BaseInv
  <2> QED
    BY <2>1, <2>2 DEF BaseInv
<1> QED
  BY <1>1, OthersBase, NextCases

LEMMA InitBase == Init => BaseInv
<1> SUFFICES ASSUME Init
             PROVE  BaseInv
    OBVIOUS
<1>1. given \in Scenarios /\ given.exists \in BOOLEAN /\ given.roster \subseteq Rangers
  BY PartsAssumption DEF Init
<1>2. TypeOK
  <2>1. roster \subseteq Rows
    BY <1>1 DEF Init, Rows
  <2>2. logged \in [Requests -> 0 .. (nextEntry - 1)] /\ version \in 1 .. MaxVersion
    BY PartsAssumption DEF Init
  <2>3. pc \in [Requests -> Steps] /\ deadlockTry \in [Requests -> 1 .. MaxDeadlockAttempts]
    BY PartsAssumption DEF Init, Steps
  <2>4. \A e \in entry : e.id \in 1 .. (nextEntry - 1) /\ e.by \in Requests \cup {"first", "edit"}
    BY DEF Init
  <2> QED
    BY <1>1, <2>1, <2>2, <2>3, <2>4 DEF Init, TypeOK, Replies
<1>3. ASSUME NEW r \in Requests
      PROVE  Phase(r)
  BY DEF Init, Phase, Change, op, body
<1> QED
  BY <1>2, <1>3 DEF BaseInv

-----------------------------------------------------------------------------
(* The locks, and the roster.                                              *)

\* Rows held exclude any other lock of the roster, and an entry any other strike.
Apart(r, q) ==
  /\ held[r] = "rows" => held[q] \notin {"gap", "rows"}
  /\ held[r] = "entry" /\ held[q] = "entry" => body(r).id # body(q).id

\* A gap is held only in an empty roster; what is deleted is all of a Ranger's.
Holds(r) ==
  /\ held[r] = "gap" => roster = {}
  /\ held[r] \in {"gap", "rows"} => removed[r] = RowsOf(body(r).ranger)

LockInv ==
  /\ \A r, q \in Requests : r # q => Apart(r, q)
  /\ \A r \in Requests : Holds(r)

NoTwins == \A x, y \in roster : x.ranger = y.ranger => x = y

\* What a statement locks, everything else being as it was.
LEMMA LocksTaken ==
  ASSUME BaseInv, LockInv, NEW r \in Requests, Request(r)
  PROVE  \/ held'[r] = "none"
         \/ held'[r] = held[r] /\ removed'[r] = removed[r]
         \/ /\ held'[r] \in {"gap", "rows"} /\ (held'[r] = "gap" => roster = {})
            /\ \A q \in Requests \ {r} : held[q] # "rows" /\ (held'[r] = "rows" => held[q] # "gap")
            /\ removed'[r] = RowsOf(body(r).ranger)
         \/ /\ held'[r] = "entry"
            /\ \A q \in Requests \ {r} : held[q] = "entry" => body(q).id # body(r).id
<1>1. DOMAIN held = Requests /\ DOMAIN removed = Requests
  BY DEF BaseInv, TypeOK
<1> USE DEF Goto, Answer, Release, transaction
<1>2. CASE DeleteRows(r)
  <2>1. \A q \in Requests \ {r} : held[q] # "rows"
    BY <1>2 DEF DeleteRows, Others
  <2>2. held'[r] = (IF roster = {} THEN "gap" ELSE "rows") /\ removed'[r] = RowsOf(body(r).ranger)
    BY <1>1, <1>2 DEF DeleteRows
  <2> QED
    BY <2>1, <2>2 DEF LockInv, Holds
<1>3. CASE InsertRow(r)
  <2>1. \A q \in Requests \ {r} : held[q] \notin {"gap", "rows"}
    BY <1>3 DEF InsertRow, Others
  <2>2. held'[r] = "rows" /\ removed'[r] = removed[r] /\ held[r] \in {"gap", "rows"}
    BY <1>1, <1>3 DEF InsertRow, BaseInv, Phase
  <2> QED
    BY <2>1, <2>2 DEF LockInv, Holds
<1>4. CASE Mark(r)
  BY <1>1, <1>4 DEF Mark, Others
<1>5. CASE Begin(r) \/ FetchRow(r) \/ FetchEntries(r) \/ Look(r) \/ LogChange(r) \/ SaveFile(r)
           \/ StoreEntry(r) \/ JoinEntry(r) \/ Notify(r)
  BY <1>5 DEF Begin, FetchRow, FetchEntries, Look, LogChange, SaveFile, StoreEntry, JoinEntry, Notify
<1>6. CASE ForeignKeyFails(r) \/ Commit(r) \/ DeadlockVictim(r) \/ DatabaseError(r)
  BY <1>1, <1>6 DEF ForeignKeyFails, Commit, DeadlockVictim, DatabaseError
<1> QED
  BY <1>2, <1>3, <1>4, <1>5, <1>6 DEF Request

\* The only step of a handler that changes the roster.
LEMMA RosterChanges ==
  ASSUME NEW r \in Requests, Request(r), ~Commit(r)
  PROVE  roster' = roster /\ stricken' = stricken
BY DEF Request, Begin, FetchRow, FetchEntries, Look, DeleteRows, InsertRow, Mark, LogChange,
   ForeignKeyFails, DeadlockVictim, DatabaseError, SaveFile, StoreEntry, JoinEntry, Notify, entries

LEMMA CommitRoster ==
  ASSUME BaseInv, LockInv, NEW r \in Requests, Commit(r)
  PROVE  \/ /\ op(r) = "attach" /\ held[r] = "rows"
            /\ roster' = (roster \ RowsOf(body(r).ranger))
                           \cup {[by |-> r, ranger |-> body(r).ranger, role |-> body(r).role]}
         \/ /\ op(r) = "detach" /\ held[r] \in {"gap", "rows"}
            /\ roster' = roster \ RowsOf(body(r).ranger)
         \/ op(r) = "strike" /\ held[r] \in {"none", "entry"} /\ roster' = roster
<1>1. pc[r] = "commit" /\ Phase(r) /\ Holds(r)
  BY DEF Commit, BaseInv, LockInv
<1>2. roster' = (roster \ removed[r]) \cup
        (IF op(r) = "attach" THEN {[by |-> r, ranger |-> body(r).ranger, role |-> body(r).role]} ELSE {})
  BY DEF Commit, CommitEffect
<1>3. CASE op(r) = "attach"
  BY <1>1, <1>2, <1>3 DEF Phase, Holds
<1>4. CASE op(r) = "detach"
  BY <1>1, <1>2, <1>4 DEF Phase, Holds
<1>5. CASE op(r) = "strike"
  <2>1. removed[r] = {} /\ held[r] \in {"none", "entry"}
    BY <1>1, <1>5 DEF Phase
  <2> QED
    BY <1>2, <1>5, <2>1
<1> QED
  BY <1>1, <1>3, <1>4, <1>5 DEF Phase, Change

LEMMA StepLocks ==
  ASSUME BaseInv, LockInv, NEW r \in Requests, Request(r)
  PROVE  LockInv'
<1>1. /\ \A q \in Requests : body(q)' = body(q) /\ op(q)' = op(q)
      /\ \A q \in Requests \ {r} : held'[q] = held[q] /\ removed'[q] = removed[q]
  BY Mine DEF BaseInv, body, op
<1>2. ASSUME NEW q \in Requests \ {r}
      PROVE  Apart(r, q)' /\ Apart(q, r)'
  BY <1>1, LocksTaken DEF LockInv, Apart
<1>3. ASSUME NEW p \in Requests \ {r}, NEW q \in Requests \ {r}, p # q
      PROVE  Apart(p, q)'
  BY <1>1, <1>3 DEF LockInv, Apart
<1>4. CASE ~Commit(r)
  <2>1. roster' = roster /\ \A q \in Requests : RowsOf(body(q).ranger)' = RowsOf(body(q).ranger)
    BY <1>1, <1>4, RosterChanges DEF RowsOf
  <2>2. Holds(r)'
    BY <1>1, <2>1, LocksTaken DEF LockInv, Holds
  <2>3. ASSUME NEW q \in Requests \ {r}
        PROVE  Holds(q)'
    BY <1>1, <2>1 DEF LockInv, Holds
  <2> QED
    BY <1>2, <1>3, <2>2, <2>3 DEF LockInv
<1>5. CASE Commit(r)
  <2>1. held'[r] = "none"
    BY <1>5 DEF Commit, Release, BaseInv, TypeOK
  <2>2. ASSUME NEW q \in Requests \ {r}
        PROVE  Holds(q)'
    <3>1. CASE held[q] \notin {"gap", "rows"}
      BY <1>1, <3>1 DEF Holds
    <3>2. CASE held[q] \in {"gap", "rows"}
      <4>1. roster' = roster
        <5>1. op(r) # "attach" /\ (op(r) = "detach" => held[r] = "gap")
          BY <1>5, <3>2, CommitRoster DEF LockInv, Apart
        <5>2. held[r] = "gap" => roster = {} \ {}
          BY DEF LockInv, Holds
        <5> QED
          BY <1>5, <5>1, <5>2, CommitRoster
      <4> QED
        BY <1>1, <4>1 DEF LockInv, Holds, RowsOf
    <3> QED
      BY <3>1, <3>2
  <2> QED
    BY <1>2, <1>3, <2>1, <2>2 DEF LockInv, Holds
<1> QED
  BY <1>4, <1>5

LEMMA NextLocks == BaseInv /\ LockInv /\ [Next]_vars => LockInv'
<1> SUFFICES ASSUME BaseInv, LockInv, [Next]_vars
             PROVE  LockInv'
    OBVIOUS
<1>1. CASE Edit \/ UNCHANGED vars
  BY <1>1 DEF Edit, vars, transaction, LockInv, Apart, Holds, RowsOf, body
<1>2. CASE Remove
  <2>1. \A r \in Requests : held[r] \in {"none", "gap"}
    BY <1>2 DEF Remove
  <2>2. ASSUME NEW r \in Requests, held[r] = "gap"
        PROVE  removed[r] = {}
    BY <2>2 DEF LockInv, Holds, RowsOf
  <2> QED
    BY <1>2, <2>1, <2>2 DEF Remove, transaction, LockInv, Apart, Holds, RowsOf
<1>3. CASE Crash
  BY <1>3 DEF Crash, LockInv, Apart, Holds
<1> QED
  BY <1>1, <1>2, <1>3, StepLocks, NextCases

LEMMA NextNoTwins == BaseInv /\ LockInv /\ NoTwins /\ [Next]_vars => NoTwins'
<1> SUFFICES ASSUME BaseInv, LockInv, NoTwins, [Next]_vars
             PROVE  NoTwins'
    OBVIOUS
<1>1. CASE Edit \/ Remove \/ Crash \/ UNCHANGED vars
  BY <1>1 DEF Edit, Remove, Crash, vars, NoTwins
<1>2. ASSUME NEW r \in Requests, Request(r), ~Commit(r)
      PROVE  NoTwins'
  BY <1>2, RosterChanges DEF NoTwins
<1>3. ASSUME NEW r \in Requests, Commit(r)
      PROVE  NoTwins'
  BY <1>3, CommitRoster DEF NoTwins, RowsOf
<1> QED
  BY <1>1, <1>2, <1>3, NextCases

LEMMA InitLocks == Init => LockInv /\ NoTwins
BY DEF Init, LockInv, Apart, Holds, NoTwins

-----------------------------------------------------------------------------
(* The change log.                                                         *)

About(g) == {e \in entry : e.says.what = "roster" /\ e.says.ranger = g}
Hits(n) == {e \in entry : e.says.what = "strike" /\ e.says.hit /\ e.says.id = n}

\* What changes of roster and strikes have said is on the record while it exists.
LoggedInv ==
  /\ exists => \A e \in entry : e.says.what \in {"roster", "strike"} => e.id \in attached
  /\ ~exists => attached = {}
  /\ \A r \in Requests : pc[r] = "commit" => exists

\* A change of the roster is newer than all that is said of it, except that two
\* removals of nobody may be stored in either order.
NewerInv ==
  \A r \in Requests : pc[r] = "commit" /\ Change(r) =>
    \A e \in entry : e.says.what = "roster" =>
      e.id < logged[r] \/ (~e.says.on /\ held[r] = "gap")

\* So is a strike, of the entry it holds.
StrikeInv ==
  /\ \A r \in Requests : pc[r] = "commit" /\ held[r] = "entry" =>
       \A e \in Hits(body(r).id) : e.id < logged[r]
  /\ exists =>
       /\ stricken \subseteq attached
       /\ \A e \in entry : e.says.what = "strike" /\ e.says.hit => e.says.id \in attached
       /\ \A r \in Requests : held[r] = "entry" => body(r).id \in attached

\* What a commit stores.
LEMMA CommitStores ==
  ASSUME BaseInv, NEW r \in Requests, Commit(r)
  PROVE  /\ pc[r] = "commit" /\ Phase(r) /\ attached' = attached \cup {logged[r]}
         /\ entry' = entry \cup {[id |-> logged[r], by |-> r, says |-> Says(r)]}
         /\ logged[r] \in 1 .. (nextEntry - 1) /\ nextEntry' = nextEntry
         /\ Says(r).what \in {"roster", "strike"}
         /\ op(r) = "attach" => Says(r) = [what |-> "roster", ranger |-> body(r).ranger,
                                          on |-> TRUE, role |-> body(r).role]
         /\ op(r) = "detach" => Says(r) = [what |-> "roster", ranger |-> body(r).ranger,
                                          on |-> FALSE, role |-> NoRole]
         /\ op(r) = "strike" => /\ Says(r).what = "strike" /\ Says(r).id = body(r).id
                                /\ Says(r).on = body(r).to /\ Says(r).hit = (held[r] = "entry")
<1>1. pc[r] = "commit" /\ Phase(r)
  BY DEF Commit, BaseInv
<1>2. attached' = attached \cup {logged[r]} /\ nextEntry' = nextEntry
  BY DEF Commit, CommitEffect
<1>3. entry' = entry \cup {[id |-> logged[r], by |-> r, says |-> Says(r)]}
  BY DEF Commit, CommitEffect, Store
<1>4. logged[r] \in 1 .. (nextEntry - 1)
  BY <1>1 DEF BaseInv, TypeOK, Phase
<1>5. op(r) \in {"attach", "detach", "strike"}
  BY <1>1 DEF Phase, Change
<1>6. ASSUME op(r) = "strike"
      PROVE  /\ Says(r).what = "strike" /\ Says(r).id = body(r).id
             /\ Says(r).on = body(r).to /\ Says(r).hit = (held[r] = "entry")
  <2>1. Says(r) = [what |-> "strike", id |-> body(r).id, on |-> body(r).to, hit |-> held[r] = "entry"]
    BY <1>6 DEF Says
  <2>2. PICK h \in BOOLEAN : h = (held[r] = "entry")
    OBVIOUS
  <2>3. Says(r) = [what |-> "strike", id |-> body(r).id, on |-> body(r).to, hit |-> h]
    BY <2>1, <2>2, Zenon
  <2>4. Says(r).what = "strike" /\ Says(r).id = body(r).id /\ Says(r).on = body(r).to /\ Says(r).hit = h
    BY <2>3
  <2> QED
    BY <2>2, <2>4, Zenon
<1> QED
  BY <1>1, <1>2, <1>3, <1>4, <1>5, <1>6 DEF Says

\* What any other step of a handler does to the log.
LEMMA LogChanges ==
  ASSUME BaseInv, NEW r \in Requests, Request(r), ~Commit(r)
  PROVE  \/ /\ entry' = entry
            /\ \/ attached' = attached
               \/ exists /\ pc[r] = "join" /\ attached' = attached \cup {e.id : e \in EntriesOf(r)}
         \/ /\ pc[r] = "entry" /\ attached' = attached /\ nextEntry' = nextEntry + 1
            /\ entry' = entry \cup {[id |-> nextEntry, by |-> r, says |-> [what |-> "file"]]}
<1>1. CASE StoreEntry(r)
  <2>1. op(r) = "upload"
    BY <1>1 DEF StoreEntry, BaseInv, Phase
  <2> QED
    BY <1>1, <2>1 DEF StoreEntry, Store, Says
<1>2. CASE JoinEntry(r)
  BY <1>2 DEF JoinEntry
<1> QED
  BY <1>1, <1>2 DEF Request, Begin, FetchRow, FetchEntries, Look, DeleteRows, InsertRow, Mark, LogChange,
     ForeignKeyFails, DeadlockVictim, DatabaseError, SaveFile, Notify, entries

\* An entry comes to a transaction when it logs, and goes with it.
LEMMA LoggedNow ==
  ASSUME BaseInv, NEW r \in Requests, Request(r), pc'[r] = "commit"
  PROVE  /\ pc[r] = "log" /\ exists /\ logged'[r] = nextEntry /\ held'[r] = held[r]
         /\ UNCHANGED <<entry, attached, roster, stricken>> /\ nextEntry' = nextEntry + 1
<1>1. DOMAIN pc = Requests /\ DOMAIN logged = Requests
  BY DEF BaseInv, TypeOK
<1>2. TransactionStart(r) # "commit"
  BY DEF TransactionStart
<1> USE DEF Goto, Answer, Proceed
<1>3. LogChange(r)
  BY <1>1, <1>2 DEF Request, Begin, FetchRow, FetchEntries, Look, DeleteRows, InsertRow, Mark,
     ForeignKeyFails, Commit, DeadlockVictim, DatabaseError, SaveFile, StoreEntry, JoinEntry, Notify
<1> QED
  BY <1>1, <1>3 DEF LogChange, entries

LEMMA NextLogged == BaseInv /\ LoggedInv /\ [Next]_vars => LoggedInv'
<1> SUFFICES ASSUME BaseInv, LoggedInv, [Next]_vars
             PROVE  LoggedInv'
    OBVIOUS
<1>1. ASSUME NEW r \in Requests, Request(r)
      PROVE  LoggedInv'
  <2>1. exists' = exists
    BY <1>1, Mine DEF BaseInv
  <2>2. ASSUME NEW q \in Requests, pc'[q] = "commit"
        PROVE  exists
    BY <1>1, <2>2, Mine, LoggedNow DEF BaseInv, LoggedInv
  <2>3. CASE Commit(r)
    <3>1. exists
      BY <2>3, CommitStores DEF LoggedInv
    <3> QED
      BY <2>1, <2>2, <2>3, <3>1, CommitStores DEF LoggedInv
  <2>4. CASE ~Commit(r)
    <3>1. attached \subseteq attached' /\ (~exists => attached' = attached)
      BY <1>1, <2>4, LogChanges
    <3>2. \A e \in entry' : e.says.what \in {"roster", "strike"} => e \in entry
      BY <1>1, <2>4, LogChanges
    <3> QED
      BY <2>1, <2>2, <3>1, <3>2 DEF LoggedInv
  <2> QED
    BY <2>3, <2>4
<1>2. CASE Edit
  BY <1>2, OthersBase DEF Edit, LoggedInv
<1>3. CASE Remove
  <2>1. \A r \in Requests : pc'[r] # "commit"
    BY <1>3, OthersBase DEF Remove, Referenced, BaseInv, Phase
  <2> QED
    BY <1>3, <2>1 DEF Remove, LoggedInv
<1>4. CASE Crash
  BY <1>4 DEF Crash, record, entries, LoggedInv
<1>5. CASE UNCHANGED vars
  BY <1>5 DEF vars, record, entries, LoggedInv
<1> QED
  BY <1>1, <1>2, <1>3, <1>4, <1>5, NextCases

LEMMA NextNewer == BaseInv /\ LockInv /\ NewerInv /\ [Next]_vars => NewerInv'
<1> SUFFICES ASSUME BaseInv, LockInv, NewerInv, [Next]_vars
             PROVE  NewerInv'
    OBVIOUS
<1>1. ASSUME NEW r \in Requests, Request(r), NEW q \in Requests, pc'[q] = "commit", Change(q),
             NEW e \in entry', e.says.what = "roster"
      PROVE  e.id < logged'[q] \/ (~e.says.on /\ held'[q] = "gap")
  <2>1. CASE q = r
    <3>1. e \in entry /\ logged'[q] = nextEntry
      BY <1>1, <2>1, LoggedNow
    <3> QED
      BY <3>1 DEF BaseInv, TypeOK
  <2>2. CASE q # r
    <3>1. pc[q] = "commit" /\ logged'[q] = logged[q] /\ held'[q] = held[q]
      BY <1>1, <2>2, Mine DEF BaseInv
    <3>2. CASE e \in entry
      BY <1>1, <3>1, <3>2 DEF NewerInv
    <3>3. CASE e \notin entry
      <4>1. Commit(r) /\ e.says = Says(r)
        <5>1. Commit(r)
          BY <1>1, <3>3, LogChanges
        <5> QED
          BY <3>3, <5>1, CommitStores
      <4>2. held[q] \in {"gap", "rows"}
        BY <1>1, <3>1 DEF BaseInv, Phase, Change
      <4>3. op(r) = "detach" /\ held[q] = "gap"
        <5>1. op(r) # "strike"
          BY <1>1, <4>1, CommitStores
        <5>2. op(r) \in {"attach", "detach"} /\ Phase(r) /\ pc[r] = "commit"
          BY <4>1, <5>1, CommitStores DEF Phase, Change
        <5>3. held[q] # "rows" /\ held[r] # "rows"
          BY <2>2, <4>2, <5>2 DEF LockInv, Apart, Phase
        <5> QED
          BY <4>2, <5>2, <5>3 DEF Phase
      <4> QED
        BY <3>1, <4>1, <4>3, CommitStores
    <3> QED
      BY <3>2, <3>3
  <2> QED
    BY <2>1, <2>2
<1>2. ASSUME NEW r \in Requests, Request(r)
      PROVE  NewerInv'
  <2>1. \A q \in Requests : Change(q)' = Change(q)
    BY <1>2, Mine DEF BaseInv, Change, op
  <2> QED
    BY <1>1, <1>2, <2>1 DEF NewerInv
<1>3. CASE Edit
  BY <1>3, OthersBase DEF Edit, NewerInv, Change, op
<1>4. CASE Remove
  BY <1>4, OthersBase DEF Remove, NewerInv, Change, op
<1>5. CASE Crash
  BY <1>5 DEF Crash, NewerInv
<1>6. CASE UNCHANGED vars
  BY <1>6 DEF vars, entries, transaction, NewerInv, Change, op
<1> QED
  BY <1>2, <1>3, <1>4, <1>5, <1>6, NextCases

LEMMA NextStrike == BaseInv /\ LockInv /\ LoggedInv /\ StrikeInv /\ [Next]_vars => StrikeInv'
<1> SUFFICES ASSUME BaseInv, LockInv, LoggedInv, StrikeInv, [Next]_vars
             PROVE  StrikeInv'
    OBVIOUS
<1>1. ASSUME NEW r \in Requests, Request(r), NEW q \in Requests, pc'[q] = "commit", held'[q] = "entry",
             NEW e \in entry', e.says.what = "strike", e.says.hit, e.says.id = body(q).id
      PROVE  e.id < logged'[q]
  <2>1. CASE q = r
    <3>1. e \in entry /\ logged'[q] = nextEntry
      BY <1>1, <2>1, LoggedNow
    <3> QED
      BY <3>1 DEF BaseInv, TypeOK
  <2>2. CASE q # r
    <3>1. pc[q] = "commit" /\ logged'[q] = logged[q] /\ held[q] = "entry"
      BY <1>1, <2>2, Mine DEF BaseInv
    <3>2. CASE e \in entry
      BY <1>1, <3>1, <3>2 DEF StrikeInv, Hits
    <3>3. CASE e \notin entry
      <4>1. Commit(r)
        BY <1>1, <3>3, LogChanges
      <4>2. e.says = Says(r)
        BY <3>3, <4>1, CommitStores
      <4>3. op(r) = "strike"
        BY <1>1, <4>1, <4>2, CommitStores DEF Phase, Change
      <4>4. body(r).id = body(q).id /\ held[r] = "entry"
        <5>1. Says(r).id = body(r).id /\ Says(r).hit = (held[r] = "entry")
          BY <4>1, <4>3, CommitStores
        <5>2. Says(r).hit /\ Says(r).id = body(q).id
          BY <1>1, <4>2, Zenon
        <5> QED
          BY <5>1, <5>2
      <4> QED
        BY <2>2, <3>1, <4>4 DEF LockInv, Apart
    <3> QED
      BY <3>2, <3>3
  <2> QED
    BY <2>1, <2>2
<1>2. ASSUME NEW r \in Requests, Request(r)
      PROVE  StrikeInv'
  <2>1. /\ \A q \in Requests : body(q)' = body(q)
        /\ exists' = exists
        /\ \A q \in Requests \ {r} : held'[q] = held[q]
    BY <1>2, Mine DEF BaseInv, body
  <2>2. attached \subseteq attached'
    BY <1>2, LogChanges, CommitStores
  <2>3. ASSUME exists, held'[r] = "entry"
        PROVE  body(r).id \in attached
    <3>1. CASE held[r] = "entry"
      BY <2>3, <3>1 DEF StrikeInv
    <3>2. CASE held[r] # "entry"
      <4>1. Mark(r)
        BY <1>2, <2>3, <3>2 DEF Request, Begin, FetchRow, FetchEntries, Look, DeleteRows, InsertRow, LogChange,
           ForeignKeyFails, Commit, DeadlockVictim, DatabaseError, SaveFile, StoreEntry, JoinEntry,
           Notify, Release, transaction, BaseInv, TypeOK
      <4> QED
        BY <2>3, <4>1 DEF Mark, BaseInv, TypeOK
    <3> QED
      BY <3>1, <3>2
  <2>4. ASSUME exists
        PROVE  stricken' \subseteq attached'
    <3>1. CASE Commit(r)
      <4>1. stricken' \subseteq stricken \cup (IF held[r] = "entry" THEN {body(r).id} ELSE {})
        BY <3>1 DEF Commit, CommitEffect
      <4> QED
        BY <2>2, <2>4, <4>1 DEF StrikeInv
    <3>2. CASE ~Commit(r)
      BY <1>2, <2>2, <2>4, <3>2, RosterChanges DEF StrikeInv
    <3> QED
      BY <3>1, <3>2
  <2>5. ASSUME exists, NEW e \in entry', e.says.what = "strike", e.says.hit
        PROVE  e.says.id \in attached
    <3>1. CASE e \in entry
      BY <2>5, <3>1 DEF StrikeInv
    <3>2. CASE e \notin entry
      <4>1. Commit(r)
        BY <1>2, <2>5, <3>2, LogChanges
      <4>2. e.says = Says(r)
        BY <3>2, <4>1, CommitStores
      <4>3. op(r) = "strike"
        BY <2>5, <4>1, <4>2, CommitStores DEF Phase, Change
      <4>4. held[r] = "entry" /\ e.says.id = body(r).id
        <5>1. Says(r).id = body(r).id /\ Says(r).hit = (held[r] = "entry")
          BY <4>1, <4>3, CommitStores
        <5>2. Says(r).hit /\ e.says.id = Says(r).id
          BY <2>5, <4>2, Zenon
        <5> QED
          BY <5>1, <5>2
      <4> QED
        BY <2>5, <4>4 DEF StrikeInv
    <3> QED
      BY <3>1, <3>2
  <2>6. \A q \in Requests : exists /\ held'[q] = "entry" => body(q).id \in attached
    BY <2>1, <2>3 DEF StrikeInv
  <2>7. \A q \in Requests : pc'[q] = "commit" /\ held'[q] = "entry" =>
          \A e \in Hits(body(q).id)' : e.id < logged'[q]
    BY <1>1, <1>2, <2>1 DEF Hits
  <2> QED
    BY <2>1, <2>2, <2>4, <2>5, <2>6, <2>7 DEF StrikeInv
<1>3. CASE Edit
  <2>1. attached \subseteq attached' /\ stricken' = stricken /\ exists' = exists
    BY <1>3 DEF Edit, entries
  <2>2. \A e \in entry' : e.says.what = "strike" => e \in entry
    BY <1>3 DEF Edit
  <2>3. UNCHANGED <<given, pc, held, logged>>
    BY <1>3, OthersBase
  <2>4. \A q \in Requests : body(q)' = body(q)
    BY <2>3 DEF body
  <2> QED
    BY <2>1, <2>2, <2>3, <2>4 DEF StrikeInv, Hits
<1>4. CASE Remove
  BY <1>4, OthersBase DEF Remove, StrikeInv, Hits, body
<1>5. CASE Crash
  BY <1>5 DEF Crash, record, entries, StrikeInv
<1>6. CASE UNCHANGED vars
  BY <1>6 DEF vars, record, entries, transaction, StrikeInv, Hits, body
<1> QED
  BY <1>2, <1>3, <1>4, <1>5, <1>6, NextCases

RolesOf(g) == {row.role : row \in RowsOf(g)}
Newest(e, about) == e \in about /\ \A f \in about : f.id <= e.id

\* RosterExplained, of all entries stored.
RolesInv ==
  exists => \A g \in Rangers :
    \/ About(g) = {} /\ RolesOf(g) = (IF g \in given.roster THEN {NoRole} ELSE {})
    \/ \E e : /\ Newest(e, About(g))
             /\ RolesOf(g) = (IF e.says.on THEN {e.says.role} ELSE {})

LEMMA RolesStay ==
  ASSUME RolesInv, given' = given, roster' = roster, exists' => exists,
         \A e \in entry : e \in entry', \A e \in entry' : e.says.what = "roster" => e \in entry
  PROVE  RolesInv'
<1>1. \A g : About(g)' = About(g) /\ RolesOf(g)' = RolesOf(g)
  BY DEF About, RolesOf, RowsOf
<1> QED
  BY <1>1 DEF RolesInv, Newest

LEMMA CommitRoles ==
  ASSUME BaseInv, LockInv, NewerInv, RolesInv, NEW r \in Requests, Commit(r), Change(r), exists,
         given' = given, NEW g \in Rangers
  PROVE  \/ About(g)' = {} /\ RolesOf(g)' = (IF g \in given.roster THEN {NoRole} ELSE {})
         \/ \E e : Newest(e, About(g)') /\ RolesOf(g)' = (IF e.says.on THEN {e.says.role} ELSE {})
<1> DEFINE n == [id |-> logged[r], by |-> r, says |-> Says(r)]
<1>1. /\ entry' = entry \cup {n} /\ n.id = logged[r] /\ n.says = Says(r) /\ logged[r] \in Nat
      /\ pc[r] = "commit"
  BY CommitStores DEF BaseInv, TypeOK
<1>2. /\ n.says.what = "roster" /\ n.says.ranger = body(r).ranger
      /\ op(r) = "attach" => n.says.on = TRUE /\ n.says.role = body(r).role
      /\ op(r) = "detach" => n.says.on = FALSE
  BY <1>1, CommitStores DEF Change
<1> HIDE DEF n
<1>3. CASE g # body(r).ranger
  <2>1. About(g)' = About(g)
    BY <1>1, <1>2, <1>3 DEF About
  <2>2. RowsOf(g)' = RowsOf(g)
    BY <1>3, CommitRoster DEF RowsOf
  <2>3. RolesOf(g)' = RolesOf(g)
    BY <2>2 DEF RolesOf
  <2> QED
    BY <2>1, <2>3 DEF RolesInv
<1>4. CASE g = body(r).ranger
  <2>1. About(g)' = About(g) \cup {n}
    BY <1>1, <1>2, <1>4 DEF About
  <2>2. /\ op(r) = "attach" => RowsOf(g)' = {[by |-> r, ranger |-> g, role |-> body(r).role]}
        /\ op(r) = "detach" => RowsOf(g)' = {}
    BY <1>4, CommitRoster DEF RowsOf
  <2>3. RolesOf(g)' = (IF n.says.on THEN {n.says.role} ELSE {})
    <3>1. CASE op(r) = "attach"
      <4>1. RolesOf(g)' = {body(r).role}
        <5>1. PICK new : new = [by |-> r, ranger |-> g, role |-> body(r).role]
          OBVIOUS
        <5>2. RowsOf(g)' = {new} /\ new.role = body(r).role
          BY <2>2, <3>1, <5>1
        <5>3. RolesOf(g)' = {row.role : row \in RowsOf(g)'}
          BY DEF RolesOf
        <5> QED
          BY <5>2, <5>3
      <4> QED
        BY <1>2, <3>1, <4>1
    <3>2. CASE op(r) = "detach"
      <4>1. RolesOf(g)' = {}
        BY <2>2, <3>2 DEF RolesOf
      <4> QED
        BY <1>2, <3>2, <4>1
    <3> QED
      BY <3>1, <3>2 DEF Change
  <2>4. \A f \in About(g) : f.id \in Nat
    BY DEF About, BaseInv, TypeOK
  <2>5. CASE \A f \in About(g) : f.id < logged[r]
    <3>1. Newest(n, About(g)')
      BY <1>1, <2>1, <2>4, <2>5 DEF Newest
    <3> QED
      BY <2>3, <3>1
  <2>6. CASE ~(\A f \in About(g) : f.id < logged[r])
    <3>1. PICK f \in About(g) : ~(f.id < logged[r])
      BY <2>6
    <3>2. held[r] = "gap"
      BY <1>1, <3>1 DEF NewerInv, About
    <3>3. roster = {} /\ op(r) = "detach"
      <4>1. roster = {}
        BY <3>2 DEF LockInv, Holds
      <4> QED
        BY <3>2, <4>1, CommitStores DEF Change, Phase
    <3>4. PICK e : Newest(e, About(g)) /\ RolesOf(g) = (IF e.says.on THEN {e.says.role} ELSE {})
      BY <3>1 DEF RolesInv
    <3>5. e \in About(g) /\ e.id \in Nat /\ f.id \in Nat /\ f.id <= e.id
      BY <2>4, <3>1, <3>4 DEF Newest
    <3>6. ~(e.id < logged[r])
      BY <1>1, <3>1, <3>5
    <3>7. ~e.says.on
      BY <1>1, <3>5, <3>6 DEF NewerInv, About
    <3>8. Newest(e, About(g)')
      BY <1>1, <2>1, <2>4, <3>4, <3>5, <3>6 DEF Newest
    <3>9. RolesOf(g)' = {}
      BY <2>2, <3>3 DEF RolesOf
    <3> QED
      BY <3>7, <3>8, <3>9
  <2> QED
    BY <2>5, <2>6
<1> QED
  BY <1>3, <1>4

LEMMA NextRoles == BaseInv /\ LockInv /\ NewerInv /\ RolesInv /\ [Next]_vars => RolesInv'
<1> SUFFICES ASSUME BaseInv, LockInv, NewerInv, RolesInv, [Next]_vars
             PROVE  RolesInv'
    OBVIOUS
<1>1. ASSUME NEW r \in Requests, Request(r), ~Commit(r)
      PROVE  RolesInv'
  <2>1. given' = given /\ exists' = exists /\ roster' = roster
    BY <1>1, Mine, RosterChanges DEF BaseInv
  <2>2. (\A e \in entry : e \in entry') /\ (\A e \in entry' : e.says.what = "roster" => e \in entry)
    BY <1>1, LogChanges
  <2> QED
    BY <2>1, <2>2, RolesStay
<1>2. ASSUME NEW r \in Requests, Commit(r)
      PROVE  RolesInv'
  <2>1. given' = given /\ exists' = exists
    BY <1>2, Mine DEF BaseInv, Request
  <2>2. CASE Change(r)
    <3>1. ASSUME exists, NEW g \in Rangers
          PROVE  \/ About(g)' = {} /\ RolesOf(g)' = (IF g \in given.roster THEN {NoRole} ELSE {})
                 \/ \E e : Newest(e, About(g)') /\ RolesOf(g)' = (IF e.says.on THEN {e.says.role} ELSE {})
      BY <1>2, <2>1, <2>2, <3>1, CommitRoles
    <3> QED
      BY <2>1, <3>1 DEF RolesInv, Newest
  <2>3. CASE ~Change(r)
    <3>1. roster' = roster
      BY <1>2, <2>3, CommitRoster DEF Change
    <3>2. (\A e \in entry : e \in entry') /\ (\A e \in entry' : e.says.what = "roster" => e \in entry)
      BY <1>2, <2>3, CommitStores DEF Phase
    <3> QED
      BY <2>1, <3>1, <3>2, RolesStay
  <2> QED
    BY <2>2, <2>3
<1>3. CASE Edit
  <2>1. \A e \in entry' : e.says.what = "roster" => e \in entry
    BY <1>3 DEF Edit
  <2> QED
    BY <1>3, <2>1, RolesStay DEF Edit
<1>4. CASE Remove
  BY <1>4 DEF Remove, RolesInv
<1>5. CASE Crash \/ UNCHANGED vars
  BY <1>5, RolesStay DEF Crash, vars, record, entries
<1> QED
  BY <1>1, <1>2, <1>3, <1>4, <1>5, NextCases

\* StrikesExplained, of all entries stored.
StruckInv ==
  exists => \A n \in attached :
    \/ Hits(n) = {} /\ n \notin stricken
    \/ \E e : Newest(e, Hits(n)) /\ e.says.on = (n \in stricken)

LEMMA StruckStays ==
  ASSUME StrikeInv, StruckInv, stricken' = stricken, exists' => exists, attached \subseteq attached',
         \A e \in entry : e \in entry',
         \A e \in entry' \ entry : ~(e.says.what = "strike" /\ e.says.hit)
  PROVE  StruckInv'
<1> SUFFICES ASSUME exists, NEW n \in attached'
             PROVE  \/ Hits(n) = {} /\ n \notin stricken
                    \/ \E e : Newest(e, Hits(n)) /\ e.says.on = (n \in stricken)
  <2>1. \A n : Hits(n)' = Hits(n)
    BY DEF Hits
  <2> QED
    BY <2>1 DEF StruckInv, Newest
<1>1. CASE n \in attached
  BY <1>1 DEF StruckInv
<1>2. CASE n \notin attached
  BY <1>2 DEF StrikeInv, Hits
<1> QED
  BY <1>1, <1>2

LEMMA CommitStruck ==
  ASSUME BaseInv, StrikeInv, StruckInv, NEW r \in Requests, Commit(r), held[r] = "entry", exists,
         NEW n \in attached'
  PROVE  \/ Hits(n)' = {} /\ n \notin stricken'
         \/ \E e : Newest(e, Hits(n)') /\ e.says.on = (n \in stricken')
<1> DEFINE new == [id |-> logged[r], by |-> r, says |-> Says(r)]
<1>1. /\ entry' = entry \cup {new} /\ new.id = logged[r] /\ new.says = Says(r) /\ logged[r] \in Nat
      /\ pc[r] = "commit" /\ attached' = attached \cup {logged[r]}
  BY CommitStores DEF BaseInv, TypeOK
<1>2. op(r) = "strike" /\ body(r).to \in BOOLEAN
  BY CommitStores DEF Phase, Change
<1>3. /\ new.says.what = "strike" /\ new.says.id = body(r).id /\ new.says.on = body(r).to
      /\ new.says.hit
  BY <1>1, <1>2, CommitStores
<1>4. stricken' = IF body(r).to THEN stricken \cup {body(r).id} ELSE stricken \ {body(r).id}
  BY DEF Commit, CommitEffect
<1> HIDE DEF new
<1>5. CASE n # body(r).id
  <2>1. Hits(n)' = Hits(n) /\ (n \in stricken' <=> n \in stricken)
    BY <1>1, <1>3, <1>4, <1>5 DEF Hits
  <2>2. CASE n \in attached
    BY <2>1, <2>2 DEF StruckInv
  <2>3. CASE n \notin attached
    BY <2>1, <2>3 DEF StrikeInv, Hits
  <2> QED
    BY <2>2, <2>3
<1>6. CASE n = body(r).id
  <2>1. Hits(n)' = Hits(n) \cup {new}
    BY <1>1, <1>3, <1>6 DEF Hits
  <2>2. \A f \in Hits(n) : f.id \in Nat /\ f.id < logged[r]
    BY <1>1, <1>6 DEF StrikeInv, Hits, BaseInv, TypeOK
  <2>3. Newest(new, Hits(n)')
    BY <1>1, <2>1, <2>2 DEF Newest
  <2>4. new.says.on = (n \in stricken')
    BY <1>2, <1>3, <1>4, <1>6
  <2> QED
    BY <2>3, <2>4
<1> QED
  BY <1>5, <1>6

LEMMA NextStruck == BaseInv /\ LoggedInv /\ StrikeInv /\ StruckInv /\ [Next]_vars => StruckInv'
<1> SUFFICES ASSUME BaseInv, LoggedInv, StrikeInv, StruckInv, [Next]_vars
             PROVE  StruckInv'
    OBVIOUS
<1>1. ASSUME NEW r \in Requests, Request(r), ~Commit(r)
      PROVE  StruckInv'
  <2>1. exists' = exists /\ stricken' = stricken /\ attached \subseteq attached'
    BY <1>1, Mine, RosterChanges, LogChanges DEF BaseInv
  <2>2. (\A e \in entry : e \in entry') /\ (\A e \in entry' \ entry : e.says.what = "file")
    BY <1>1, LogChanges
  <2> QED
    BY <2>1, <2>2, StruckStays
<1>2. ASSUME NEW r \in Requests, Commit(r)
      PROVE  StruckInv'
  <2>1. exists' = exists
    BY <1>2, Mine DEF BaseInv, Request
  <2>2. CASE held[r] = "entry"
    <3>1. ASSUME exists, NEW n \in attached'
          PROVE  \/ Hits(n)' = {} /\ n \notin stricken'
                 \/ \E e : Newest(e, Hits(n)') /\ e.says.on = (n \in stricken')
      BY <1>2, <2>2, <3>1, CommitStruck
    <3> QED
      BY <2>1, <3>1 DEF StruckInv, Newest
  <2>3. CASE held[r] # "entry"
    <3>1. stricken' = stricken /\ attached \subseteq attached'
      BY <1>2, <2>3 DEF Commit, CommitEffect
    <3>2. \A e \in entry : e \in entry'
      BY <1>2, CommitStores
    <3>3. ASSUME NEW e \in entry' \ entry, e.says.what = "strike"
          PROVE  ~e.says.hit
      <4>1. e.says = Says(r)
        BY <1>2, <3>3, CommitStores
      <4>2. op(r) = "strike"
        BY <1>2, <3>3, <4>1, CommitStores DEF Phase, Change
      <4>3. Says(r).hit = (held[r] = "entry")
        BY <1>2, <4>2, CommitStores
      <4>4. ~Says(r).hit
        BY <2>3, <4>3
      <4> QED
        BY <4>1, <4>4, Zenon
    <3> QED
      BY <2>1, <3>1, <3>2, <3>3, StruckStays
  <2> QED
    BY <2>2, <2>3
<1>3. CASE Edit
  <2>1. (\A e \in entry : e \in entry') /\ (\A e \in entry' \ entry : e.says.what = "edit")
    BY <1>3 DEF Edit
  <2>2. stricken' = stricken /\ exists' = exists /\ attached \subseteq attached'
    BY <1>3 DEF Edit
  <2> QED
    BY <2>1, <2>2, StruckStays
<1>4. CASE Remove
  BY <1>4 DEF Remove, StruckInv
<1>5. CASE Crash \/ UNCHANGED vars
  BY <1>5, StruckStays DEF Crash, vars, record, entries
<1> QED
  BY <1>1, <1>2, <1>3, <1>4, <1>5, NextCases

-----------------------------------------------------------------------------
(* Answers, events and uploads.                                            *)

Stored(r) == exists => \E e \in EntriesOf(r) : e.id \in attached

\* Nothing is stored for r before its last steps, and nothing is told before.
Told(r) ==
  /\ EntriesOf(r) # {} => pc[r] \in {"join", "notify", "done"}
  /\ pc[r] = "join" => EntriesOf(r) # {}
  /\ pc[r] = "notify" \/ r \in published => Stored(r)
  /\ reply[r] = "success" => pc[r] = "done" /\ (r \in published \/ EntriesOf(r) = {})
  /\ reply[r] = "success" /\ op(r) = "upload" => r \in published

ToldInv == \A r \in Requests : Told(r)

LEMMA EntriesGrow ==
  ASSUME BaseInv, NEW r \in Requests, Request(r)
  PROVE  /\ \A q \in Requests \ {r} : EntriesOf(q)' = EntriesOf(q)
         /\ \/ ~Commit(r) /\ ~StoreEntry(r) /\ EntriesOf(r)' = EntriesOf(r)
            \/ Commit(r) /\ EntriesOf(r)' = EntriesOf(r) \cup {[id |-> logged[r], by |-> r, says |-> Says(r)]}
            \/ StoreEntry(r) /\ EntriesOf(r)' = EntriesOf(r) \cup {[id |-> nextEntry, by |-> r, says |-> Says(r)]}
<1>1. CASE Commit(r)
  BY <1>1, CommitStores DEF EntriesOf
<1>2. CASE StoreEntry(r)
  <2>1. entry' = entry \cup {[id |-> nextEntry, by |-> r, says |-> Says(r)]}
    BY <1>2 DEF StoreEntry, Store
  <2> QED
    BY <1>2, <2>1 DEF EntriesOf
<1>3. CASE ~Commit(r) /\ ~StoreEntry(r)
  <2>1. entry' = entry
    BY <1>3 DEF Request, Begin, FetchRow, FetchEntries, Look, DeleteRows, InsertRow, Mark, LogChange,
       ForeignKeyFails, DeadlockVictim, DatabaseError, SaveFile, JoinEntry, Notify, entries
  <2> QED
    BY <1>3, <2>1 DEF EntriesOf
<1> QED
  BY <1>1, <1>2, <1>3

LEMMA StepTold ==
  ASSUME BaseInv, ToldInv, NEW r \in Requests, Request(r)
  PROVE  ToldInv'
<1>1. /\ exists' = exists /\ given' = given /\ attached \subseteq attached'
      /\ \A q \in Requests \ {r} : pc'[q] = pc[q] /\ reply'[q] = reply[q] /\ EntriesOf(q)' = EntriesOf(q)
  BY Mine, EntriesGrow, LogChanges, CommitStores DEF BaseInv
<1>2. /\ DOMAIN pc = Requests /\ DOMAIN reply = Requests /\ pc[r] \in Steps
      /\ Phase(r) /\ Told(r) /\ op(r)' = op(r)
  BY <1>1 DEF BaseInv, TypeOK, ToldInv, op
<1>3. published' = published \/ (Notify(r) /\ published' = published \cup {r})
  BY DEF Request, Begin, FetchRow, FetchEntries, Look, DeleteRows, InsertRow, Mark, LogChange,
     ForeignKeyFails, Commit, DeadlockVictim, DatabaseError, SaveFile, StoreEntry, JoinEntry, Notify
<1>4. ASSUME NEW q \in Requests \ {r}
      PROVE  Told(q)'
  <2>1. q \in published' <=> q \in published
    BY <1>3
  <2>2. op(q)' = op(q) /\ (Stored(q) => Stored(q)')
    BY <1>1 DEF op, Stored
  <2> QED
    BY <1>1, <2>1, <2>2 DEF ToldInv, Told
<1> USE DEF Goto, Answer
<1>5. ASSUME EntriesOf(r)' = EntriesOf(r), published' = published, pc[r] \notin {"join", "notify"},
             ~Commit(r), ~StoreEntry(r)
      PROVE  Told(r)'
  <2>1. EntriesOf(r) # {} => pc[r] = "done"
    BY <1>2, <1>5 DEF Told
  <2>2. /\ pc'[r] \notin {"join", "notify"} /\ pc[r] # "done"
        /\ reply'[r] = reply[r] \/ (pc'[r] = "done" /\ (op(r) = "upload" => reply'[r] # "success"))
    <3>1. TransactionStart(r) \notin {"join", "notify"}
      BY DEF TransactionStart
    <3> QED
      BY <1>2, <1>5, <3>1 DEF Request, Begin, FetchRow, FetchEntries, Look, DeleteRows, InsertRow,
         Mark, LogChange, ForeignKeyFails, DeadlockVictim, DatabaseError, SaveFile, JoinEntry, Notify,
         Proceed, Phase
  <2>3. Stored(r) => Stored(r)'
    BY <1>1, <1>5 DEF Stored
  <2> QED
    BY <1>2, <1>5, <2>1, <2>2, <2>3 DEF Told
<1>6. ASSUME Commit(r)
      PROVE  Told(r)'
  <2>1. Stored(r)'
    <3>1. [id |-> logged[r], by |-> r, says |-> Says(r)] \in EntriesOf(r)' /\ logged[r] \in attached'
      BY <1>6, CommitStores DEF EntriesOf
    <3> QED
      BY <3>1 DEF Stored
  <2>2. EntriesOf(r) = {} /\ reply[r] # "success" /\ published' = published
    BY <1>2, <1>6 DEF Commit, Told
  <2> QED
    BY <1>2, <1>6, <2>1, <2>2 DEF Commit, Told
<1>7. ASSUME StoreEntry(r)
      PROVE  Told(r)'
  <2>1. EntriesOf(r)' # {} /\ published' = published /\ reply[r] # "success" /\ EntriesOf(r) = {}
    <3>1. EntriesOf(r)' # {}
      BY <1>7, EntriesGrow DEF StoreEntry, Commit
    <3> QED
      BY <1>2, <1>7, <3>1 DEF StoreEntry, Told
  <2>2. r \in published => ~exists
    BY <1>2, <2>1 DEF Told, Stored
  <2> QED
    BY <1>1, <1>2, <1>7, <2>1, <2>2 DEF StoreEntry, Told, Stored
<1>8. ASSUME pc[r] = "join", ~Commit(r), ~StoreEntry(r)
      PROVE  Told(r)'
  <2>1. EntriesOf(r)' = EntriesOf(r) /\ EntriesOf(r) # {} /\ reply[r] # "success"
    BY <1>2, <1>8, EntriesGrow DEF Told
  <2>2. published' = published /\ (reply'[r] # "success") /\ pc'[r] \in {"notify", "done"}
    BY <1>2, <1>8, <2>1 DEF Request, Begin, FetchRow, FetchEntries, Look, DeleteRows, InsertRow,
       Mark, LogChange, ForeignKeyFails, DeadlockVictim, DatabaseError, SaveFile, JoinEntry, Notify
  <2>3. Stored(r) => Stored(r)'
    BY <1>1, <2>1 DEF Stored
  <2>4. pc'[r] = "notify" => Stored(r)'
    <3>1. pc'[r] = "notify" => JoinEntry(r)
      BY <1>2, <1>8 DEF Request, Begin, FetchRow, FetchEntries, Look, DeleteRows, InsertRow,
         Mark, LogChange, ForeignKeyFails, DeadlockVictim, DatabaseError, SaveFile, Notify
    <3>2. JoinEntry(r) => attached' = attached \cup {e.id : e \in EntriesOf(r)}
      BY DEF JoinEntry
    <3> QED
      BY <2>1, <3>1, <3>2 DEF Stored
  <2> QED
    BY <1>2, <2>1, <2>2, <2>3, <2>4 DEF Told
<1>9. ASSUME pc[r] = "notify", ~Commit(r), ~StoreEntry(r)
      PROVE  Told(r)'
  <2>1. EntriesOf(r)' = EntriesOf(r) /\ Stored(r)
    BY <1>2, <1>9, EntriesGrow DEF Told
  <2>2. Notify(r)
    BY <1>9 DEF Request, Begin, FetchRow, FetchEntries, Look, DeleteRows, InsertRow,
       Mark, LogChange, ForeignKeyFails, DeadlockVictim, DatabaseError, SaveFile, JoinEntry
  <2>3. Stored(r)'
    BY <1>1, <2>1 DEF Stored
  <2> QED
    BY <1>2, <2>1, <2>2, <2>3 DEF Notify, Told
<1>10. Told(r)'
  <2>1. Notify(r) => pc[r] = "notify"
    BY DEF Notify
  <2>2. CASE Commit(r) \/ StoreEntry(r) \/ pc[r] \in {"join", "notify"}
    BY <1>6, <1>7, <1>8, <1>9, <2>2
  <2>3. CASE ~(Commit(r) \/ StoreEntry(r) \/ pc[r] \in {"join", "notify"})
    <3>1. EntriesOf(r)' = EntriesOf(r) /\ published' = published
      BY <1>3, <2>1, <2>3, EntriesGrow
    <3> QED
      BY <1>5, <2>3, <3>1
  <2> QED
    BY <2>2, <2>3
<1> QED
  BY <1>4, <1>10 DEF ToldInv

LEMMA NextTold == BaseInv /\ ToldInv /\ [Next]_vars => ToldInv'
<1> SUFFICES ASSUME BaseInv, ToldInv, [Next]_vars
             PROVE  ToldInv'
    OBVIOUS
<1>1. CASE Edit
  <2>1. \A r \in Requests : EntriesOf(r)' = EntriesOf(r)
    BY <1>1, PartsAssumption DEF Edit, EntriesOf
  <2>2. \A r \in Requests : op(r)' = op(r) /\ (Stored(r) => Stored(r)')
    BY <1>1, <2>1 DEF Edit, Stored, op
  <2> QED
    BY <1>1, <2>1, <2>2 DEF Edit, ToldInv, Told
<1>2. CASE Remove
  <2>1. \A r \in Requests : EntriesOf(r)' = EntriesOf(r) /\ op(r)' = op(r) /\ Stored(r)'
    BY <1>2 DEF Remove, EntriesOf, Stored, op
  <2> QED
    BY <1>2, <2>1 DEF Remove, ToldInv, Told
<1>3. CASE Crash
  <2>1. \A r \in Requests : EntriesOf(r)' = EntriesOf(r) /\ op(r)' = op(r) /\ Stored(r)' = Stored(r)
    BY <1>3 DEF Crash, record, entries, EntriesOf, Stored, op
  <2>2. \A r \in Requests : /\ pc'[r] = (IF pc[r] = "begin" THEN "begin" ELSE "done")
                          /\ reply'[r] = reply[r] /\ published' = published
    BY <1>3 DEF Crash
  <2> QED
    BY <2>1, <2>2 DEF ToldInv, Told
<1>4. CASE UNCHANGED vars
  <2>1. \A r \in Requests : EntriesOf(r)' = EntriesOf(r) /\ op(r)' = op(r) /\ Stored(r)' = Stored(r)
    BY <1>4 DEF vars, record, entries, EntriesOf, Stored, op
  <2> QED
    BY <1>4, <2>1 DEF vars, ToldInv, Told
<1> QED
  BY <1>1, <1>2, <1>3, <1>4, StepTold, NextCases

\* A file is whole before the entry that names it, and never touched again.
FileInv ==
  /\ \A e \in entry : e.says.what = "file" => e.by \in Requests /\ file[e.by] = "whole"
  /\ \A r \in Requests : pc[r] \in {"entry", "join"} => file[r] = "whole"

LEMMA NextFile == BaseInv /\ ToldInv /\ FileInv /\ [Next]_vars => FileInv'
<1> SUFFICES ASSUME BaseInv, ToldInv, FileInv, [Next]_vars
             PROVE  FileInv'
    OBVIOUS
<1>1. ASSUME NEW r \in Requests, Request(r)
      PROVE  FileInv'
  <2> USE DEF Goto, Answer, Proceed
  <2>1. \A q \in Requests \ {r} : pc'[q] = pc[q] /\ file'[q] = file[q]
    BY <1>1, Mine DEF BaseInv
  <2>2. DOMAIN pc = Requests /\ DOMAIN file = Requests
    BY DEF BaseInv, TypeOK
  <2>3. CASE SaveFile(r)
    <3>1. EntriesOf(r) = {} /\ entry' = entry /\ (pc'[r] \in {"entry", "join"} => file'[r] = "whole")
      BY <2>2, <2>3 DEF SaveFile, ToldInv, Told, entries
    <3>2. \A e \in entry : e.by # r
      BY <3>1 DEF EntriesOf
    <3> QED
      BY <2>1, <3>1, <3>2 DEF FileInv
  <2>4. CASE ~SaveFile(r)
    <3>1. file' = file /\ (pc'[r] \in {"entry", "join"} => pc[r] = "entry")
      <4>1. TransactionStart(r) \notin {"entry", "join"}
        BY DEF TransactionStart
      <4> QED
        BY <1>1, <2>2, <2>4, <4>1 DEF Request, Begin, FetchRow, FetchEntries, Look, DeleteRows, InsertRow,
           Mark, LogChange, ForeignKeyFails, Commit, DeadlockVictim, DatabaseError, StoreEntry, JoinEntry,
           Notify
    <3>2. \A e \in entry' : e.says.what = "file" => e \in entry \/ (e.by = r /\ pc[r] = "entry")
      BY <1>1, LogChanges, CommitStores
    <3> QED
      BY <2>1, <3>1, <3>2 DEF FileInv
  <2> QED
    BY <2>3, <2>4
<1>2. CASE Edit
  <2>1. (\A e \in entry' \ entry : e.says.what = "edit") /\ UNCHANGED <<file, pc>>
    BY <1>2 DEF Edit
  <2> QED
    BY <2>1 DEF FileInv
<1>3. CASE Remove \/ UNCHANGED vars
  BY <1>3 DEF Remove, vars, entries, FileInv
<1>4. CASE Crash
  BY <1>4 DEF Crash, entries, FileInv
<1> QED
  BY <1>1, <1>2, <1>3, <1>4, NextCases

\* Who has passed the check of the authorship, and all they add, is an author's.
Insider(u) == u \in {FirstAuthor, Editor}
OutsiderInv ==
  /\ \A r \in Requests :
       pc[r] \notin {"begin", "row", "authors", "done"} /\ Limited(user(r)) => Insider(user(r))
  /\ \A e \in entry : Limited(Author(e)) => Insider(Author(e))

LEMMA NextOutsider == BaseInv /\ OutsiderInv /\ [Next]_vars => OutsiderInv'
<1> SUFFICES ASSUME BaseInv, OutsiderInv, [Next]_vars
             PROVE  OutsiderInv'
    OBVIOUS
<1>1. ASSUME given' = given
      PROVE  /\ \A u : Limited(u)' = Limited(u)
             /\ \A r \in Requests : user(r)' = user(r)
             /\ \A e \in entry' : e.by \in Requests \cup {"first", "edit"} => Author(e)' = Author(e)
  BY <1>1, PartsAssumption DEF Limited, kind, user, Author
<1>2. ASSUME NEW r \in Requests, Request(r)
      PROVE  OutsiderInv'
  <2> USE DEF Goto, Answer, Proceed
  <2>1. /\ given' = given /\ TypeOK' /\ DOMAIN pc = Requests
        /\ \A q \in Requests \ {r} : pc'[q] = pc[q]
    BY <1>2, Mine, StepType DEF BaseInv, TypeOK
  <2>2. ASSUME pc'[r] \notin {"begin", "row", "authors", "done"}, Limited(user(r))
        PROVE  Insider(user(r))
    <3>1. CASE pc[r] \notin {"begin", "row", "authors", "done"}
      BY <2>2, <3>1 DEF OutsiderInv
    <3>2. CASE pc[r] \in {"begin", "row", "authors", "done"}
      <4>1. kind = "fieldReport"
        BY <2>2 DEF Limited
      <4>2. FetchEntries(r)
        BY <1>2, <2>1, <2>2, <3>2, <4>1 DEF Request, Begin, LooksUp, FetchRow, Look, DeleteRows, InsertRow,
           Mark, LogChange, ForeignKeyFails, Commit, DeadlockVictim, DatabaseError, SaveFile,
           StoreEntry, JoinEntry, Notify
      <4>3. ContainsAuthor(user(r), attached)
        BY <2>1, <2>2, <4>2 DEF FetchEntries
      <4>4. PICK e \in entry : Author(e) = user(r)
        BY <4>3 DEF ContainsAuthor
      <4> QED
        BY <2>2, <4>4 DEF OutsiderInv
    <3> QED
      BY <3>1, <3>2
  <2>3. ASSUME NEW e \in entry', Limited(Author(e))
        PROVE  Insider(Author(e))
    <3>1. CASE e \in entry
      BY <2>3, <3>1 DEF OutsiderInv
    <3>2. CASE e \notin entry
      <4>1. e.by = r /\ pc[r] \notin {"begin", "row", "authors", "done"}
        BY <1>2, <2>3, <3>2, LogChanges, CommitStores
      <4>2. Author(e) = user(r)
        BY <4>1, PartsAssumption DEF Author
      <4> QED
        BY <2>3, <4>1, <4>2 DEF OutsiderInv
    <3> QED
      BY <3>1, <3>2
  <2>4. \A e \in entry' : e.by \in Requests \cup {"first", "edit"}
    BY <2>1 DEF TypeOK
  <2>5. \A q \in Requests :
          pc'[q] \notin {"begin", "row", "authors", "done"} /\ Limited(user(q)) => Insider(user(q))
    BY <2>1, <2>2 DEF OutsiderInv
  <2> QED
    BY <1>1, <2>1, <2>3, <2>4, <2>5 DEF OutsiderInv, Insider
<1>3. CASE Edit \/ Remove \/ Crash \/ UNCHANGED vars
  <2>1. given' = given /\ TypeOK'
    BY <1>3, OthersBase DEF BaseInv
  <2>2. \A e \in entry' : e \in entry \/ e.by = "edit"
    BY <1>3 DEF Edit, Remove, Crash, vars, entries
  <2>3. \A e \in entry' : Limited(Author(e)) => Insider(Author(e))
    BY <2>2 DEF OutsiderInv, Author, Insider
  <2>4. \A r \in Requests : pc'[r] = pc[r] \/ pc'[r] \in {"begin", "done"}
    BY <1>3, OthersBase DEF Crash, vars
  <2>5. \A r \in Requests :
          pc'[r] \notin {"begin", "row", "authors", "done"} /\ Limited(user(r)) => Insider(user(r))
    BY <2>4 DEF OutsiderInv
  <2> QED
    BY <1>1, <2>1, <2>3, <2>5 DEF OutsiderInv, Insider, TypeOK
<1> QED
  BY <1>2, <1>3, NextCases

-----------------------------------------------------------------------------
(* The theorems about RecordParts.                                         *)

IInv == /\ BaseInv /\ LockInv /\ NoTwins /\ LoggedInv /\ NewerInv /\ RolesInv
        /\ StrikeInv /\ StruckInv /\ ToldInv /\ FileInv /\ OutsiderInv

LEMMA InitIInv == Init => IInv
<1> SUFFICES ASSUME Init
             PROVE  IInv
    OBVIOUS
<1>1. BaseInv /\ LockInv /\ NoTwins
  BY InitBase, InitLocks
<1>2. \A e \in entry : e.id = 1 /\ e.by = "first" /\ e.says.what = "text"
  BY DEF Init
<1>3. LoggedInv /\ NewerInv
  BY <1>2 DEF Init, LoggedInv, NewerInv
<1>4. RolesInv
  <2>1. \A g \in Rangers : About(g) = {}
    BY <1>2 DEF About
  <2>2. ASSUME NEW g \in Rangers
        PROVE  RolesOf(g) = (IF g \in given.roster THEN {NoRole} ELSE {})
    <3>1. RowsOf(g) = IF g \in given.roster THEN {[by |-> "first", ranger |-> g, role |-> NoRole]} ELSE {}
      BY DEF Init, RowsOf
    <3>2. CASE g \in given.roster
      <4>1. PICK row : row = [by |-> "first", ranger |-> g, role |-> NoRole]
        OBVIOUS
      <4>2. RowsOf(g) = {row} /\ row.role = NoRole
        BY <3>1, <3>2, <4>1
      <4> QED
        BY <3>2, <4>2 DEF RolesOf
    <3>3. CASE g \notin given.roster
      BY <3>1, <3>3 DEF RolesOf
    <3> QED
      BY <3>2, <3>3
  <2> QED
    BY <2>1, <2>2 DEF RolesInv
<1>5. StrikeInv /\ StruckInv
  BY <1>2 DEF Init, StrikeInv, StruckInv, Hits
<1>6. ToldInv
  <2>1. \A r \in Requests : EntriesOf(r) = {}
    BY <1>2, PartsAssumption DEF EntriesOf
  <2> QED
    BY <2>1 DEF Init, ToldInv, Told
<1>7. FileInv /\ OutsiderInv
  BY <1>2 DEF Init, FileInv, OutsiderInv, Author, Insider
<1> QED
  BY <1>1, <1>3, <1>4, <1>5, <1>6, <1>7 DEF IInv

LEMMA NextIInv == IInv /\ [Next]_vars => IInv'
BY NextBase, NextLocks, NextNoTwins, NextLogged, NextNewer, NextRoles, NextStrike, NextStruck, NextTold,
   NextFile, NextOutsider DEF IInv

LEMMA IInvHolds == Spec => []IInv
BY InitIInv, NextIInv, PTL DEF Spec

-----------------------------------------------------------------------------
(* The readers.                                                            *)

Ids == {e.id : e \in entry}

\* The identifiers of the entries not committed yet are nobody else's.
FreshInv ==
  /\ attached \subseteq Ids
  /\ \A r \in Requests : logged[r] # 0 => logged[r] \notin Ids
  /\ \A r, q \in Requests : r # q /\ logged[r] # 0 => logged[r] # logged[q]

\* The edits in the log are those up to the version of the row.
EditInv ==
  exists => \A e \in entry : e.says.what = "edit" =>
    e.id \in attached /\ e.says.version \in Nat /\ e.says.version <= version

\* The log only grows, and by what nobody can have read.
Grows ==
  /\ given' = given /\ (exists' => exists) /\ entry \subseteq entry'
  /\ \A e \in entry' \ entry : e.id \notin Ids
  /\ \A e \in entry' \ entry : e.says.what = "edit" => e.says.version \in Nat /\ e.says.version > version
  /\ version \in Nat /\ version' \in Nat /\ version <= version'

LEMMA NextGrows == BaseInv /\ FreshInv /\ [Next]_vars => Grows
<1> SUFFICES ASSUME BaseInv, FreshInv, [Next]_vars
             PROVE  Grows
    OBVIOUS
<1>1. nextEntry \notin Ids /\ version \in Nat
  BY DEF BaseInv, TypeOK, Ids
<1>2. ASSUME NEW r \in Requests, Request(r)
      PROVE  Grows
  <2>1. given' = given /\ exists' = exists /\ version' = version
    BY <1>2, Mine DEF BaseInv
  <2>2. /\ entry \subseteq entry' /\ \A e \in entry' \ entry : e.says.what # "edit"
        /\ \A e \in entry' \ entry : e.id = nextEntry \/ (e.id = logged[r] /\ logged[r] # 0)
    BY <1>2, LogChanges, CommitStores
  <2> QED
    BY <1>1, <2>1, <2>2 DEF FreshInv, Grows
<1>3. CASE Edit
  <2>1. \A e \in entry' \ entry : e.id = nextEntry /\ e.says.version = version'
    BY <1>3 DEF Edit
  <2> QED
    BY <1>1, <1>3, <2>1 DEF Edit, Grows
<1>4. CASE Remove \/ Crash \/ UNCHANGED vars
  BY <1>1, <1>4 DEF Remove, Crash, vars, record, entries, Grows
<1> QED
  BY <1>2, <1>3, <1>4, NextCases

LEMMA NextFresh == BaseInv /\ FreshInv /\ [Next]_vars => FreshInv'
<1> SUFFICES ASSUME BaseInv, FreshInv, [Next]_vars
             PROVE  FreshInv'
    OBVIOUS
<1>1. nextEntry \notin Ids /\ nextEntry # 0 /\ \A r \in Requests : logged[r] # nextEntry
  <2>1. \A r \in Requests : logged[r] \in 0 .. (nextEntry - 1)
    BY DEF BaseInv, TypeOK
  <2> QED
    BY <2>1 DEF BaseInv, TypeOK, Ids
<1>2. ASSUME NEW r \in Requests, Request(r)
      PROVE  FreshInv'
  <2>1. \A q \in Requests \ {r} : logged'[q] = logged[q]
    BY <1>2, Mine DEF BaseInv
  <2>2. CASE Commit(r)
    <3>1. Ids' = Ids \cup {logged[r]} /\ attached' = attached \cup {logged[r]} /\ logged[r] # 0
      <4>1. PICK e : e = [id |-> logged[r], by |-> r, says |-> Says(r)]
        OBVIOUS
      <4>2. entry' = entry \cup {e} /\ e.id = logged[r]
        BY <2>2, <4>1, CommitStores
      <4> QED
        BY <2>2, <4>2, CommitStores DEF Ids
    <3>2. logged'[r] = 0
      BY <2>2 DEF Commit, Release, BaseInv, TypeOK
    <3> QED
      BY <2>1, <3>1, <3>2 DEF FreshInv
  <2>3. CASE StoreEntry(r)
    <3>1. Ids' = Ids \cup {nextEntry} /\ attached' = attached
      <4>1. PICK e : e = [id |-> nextEntry, by |-> r, says |-> Says(r)]
        OBVIOUS
      <4>2. entry' = entry \cup {e} /\ e.id = nextEntry /\ attached' = attached
        BY <2>3, <4>1 DEF StoreEntry, Store
      <4> QED
        BY <4>2 DEF Ids
    <3>2. logged' = logged
      BY <2>3 DEF StoreEntry, transaction
    <3> QED
      BY <1>1, <3>1, <3>2 DEF FreshInv
  <2>4. CASE ~Commit(r) /\ ~StoreEntry(r)
    <3>1. entry' = entry
      BY <1>2, <2>4 DEF Request, Begin, FetchRow, FetchEntries, Look, DeleteRows, InsertRow, Mark, LogChange,
         ForeignKeyFails, DeadlockVictim, DatabaseError, SaveFile, JoinEntry, Notify, entries
    <3>2. attached' \subseteq Ids
      BY <1>2, <2>4, <3>1, LogChanges DEF FreshInv, Ids, EntriesOf
    <3>3. logged'[r] \in {logged[r], nextEntry, 0}
      BY <1>2 DEF Request, Begin, FetchRow, FetchEntries, Look, DeleteRows, InsertRow, Mark, LogChange,
         ForeignKeyFails, Commit, DeadlockVictim, DatabaseError, SaveFile, StoreEntry, JoinEntry, Notify,
         transaction, Release, BaseInv, TypeOK
    <3> QED
      BY <1>1, <2>1, <3>1, <3>2, <3>3 DEF FreshInv, Ids
  <2> QED
    BY <2>2, <2>3, <2>4
<1>3. CASE Edit
  <2>1. Ids' = Ids \cup {nextEntry} /\ attached' = attached \cup {nextEntry}
    <3>1. PICK e : e = [id |-> nextEntry, by |-> "edit", says |-> [what |-> "edit", version |-> version']]
      OBVIOUS
    <3>2. entry' = entry \cup {e} /\ e.id = nextEntry /\ attached' = attached \cup {nextEntry}
      BY <1>3, <3>1 DEF Edit
    <3> QED
      BY <3>2 DEF Ids
  <2>2. logged' = logged
    BY <1>3, OthersBase
  <2> QED
    BY <1>1, <2>1, <2>2 DEF FreshInv
<1>4. CASE Remove
  BY <1>4, OthersBase DEF Remove, FreshInv, Ids
<1>5. CASE Crash \/ UNCHANGED vars
  BY <1>5 DEF Crash, vars, entries, transaction, FreshInv, Ids
<1> QED
  BY <1>2, <1>3, <1>4, <1>5, NextCases

LEMMA NextEdits == BaseInv /\ FreshInv /\ EditInv /\ [Next]_vars => EditInv'
<1> SUFFICES ASSUME BaseInv, FreshInv, EditInv, [Next]_vars
             PROVE  EditInv'
    OBVIOUS
<1>1. Grows
  BY NextGrows
<1>2. ASSUME NEW r \in Requests, Request(r)
      PROVE  EditInv'
  <2>1. exists' = exists /\ version' = version /\ attached \subseteq attached'
    BY <1>2, Mine, LogChanges, CommitStores DEF BaseInv
  <2>2. \A e \in entry' : e.says.what = "edit" => e \in entry
    BY <1>2, LogChanges, CommitStores
  <2> QED
    BY <2>1, <2>2 DEF EditInv
<1>3. CASE Edit
  <2>1. \A e \in entry' : e \in entry \/ (e.id = nextEntry /\ e.says.version = version')
    BY <1>3 DEF Edit
  <2>2. \A e \in entry : e.says.what = "edit" => e.says.version \in Nat /\ e.says.version <= version
    BY <1>3 DEF Edit, EditInv
  <2>3. version \in Nat /\ version' = version + 1 /\ attached' = attached \cup {nextEntry} /\ exists
    BY <1>1, <1>3 DEF Edit, Grows
  <2>4. \A e \in entry : e.says.what = "edit" => e.id \in attached
    BY <1>3 DEF Edit, EditInv
  <2> QED
    BY <2>1, <2>2, <2>3, <2>4 DEF EditInv
<1>4. CASE Remove \/ Crash \/ UNCHANGED vars
  BY <1>4 DEF Remove, Crash, vars, record, entries, EditInv
<1> QED
  BY <1>2, <1>3, <1>4, NextCases

Views == [step : {"begin", "read", "open", "done"}, got : SUBSET Parts, version : Nat, ids : SUBSET Nat,
          rows : SUBSET Rows,
          answer : {"none", "forbidden", "notfound", "absent", "nofile", "part", "shown", "error"}]

\* A reader with an answer is done; one who passed the authorship was shown an entry
\* of their own; who got no file was shown no entry of one.
Seen(v) ==
  /\ view[v].ids \subseteq Ids
  /\ view[v].answer # "none" => view[v].step = "done"
  /\ view[v].step = "begin" => view[v].got = {}
  /\ view[v].step = "open" => read(v).op = "file"
  /\ view[v].step = "open" \/ view[v].answer \in {"shown", "part"} =>
       (ReadLimited(read(v).user) => ContainsAuthor(read(v).user, view[v].ids))
  /\ view[v].answer # "part"
  /\ view[v].answer = "nofile" => Named(v) = {}

SaidOf(v, g) == {e \in About(g) : e.id \in view[v].ids}
ShownOf(v, g) == {row.role : row \in {w \in view[v].rows : w.ranger = g}}
Agrees(v, g) ==
  SaidOf(v, g) # {} => \E e \in About(g) : /\ \A f \in SaidOf(v, g) : f.id <= e.id
                                         /\ ShownOf(v, g) = (IF e.says.on THEN {e.says.role} ELSE {})

\* A page knows the edits up to its version, and its roster is not older than its log.
PageSeen(v) ==
  read(v).op = "page" =>
    /\ "entries" \in view[v].got => "row" \in view[v].got
    /\ "roster" \in view[v].got => "entries" \in view[v].got
    /\ view[v].answer = "shown" => view[v].got = Wanted(v)
    /\ exists /\ "row" \in view[v].got => view[v].version <= version
    /\ exists /\ "entries" \in view[v].got =>
         \A e \in entry : e.says.what = "edit" /\ e.says.version <= view[v].version => e.id \in view[v].ids
    /\ exists /\ "roster" \in view[v].got => \A g \in Rangers : Agrees(v, g)

ReadersInv ==
  /\ view \in [Readers -> Views]
  /\ \A v \in Readers : Seen(v) /\ PageSeen(v)

\* The order in which a page asks.
LEMMA PageOrder ==
  ASSUME NEW v \in Readers, read(v).op = "page"
  PROVE  /\ "entries" \in MayAsk(v) => "row" \in view[v].got
         /\ "roster" \in MayAsk(v) => "entries" \in view[v].got
<1> DEFINE order == [row |-> 1, entries |-> 2, roster |-> 3]
           left == Wanted(v) \ view[v].got
<1>1. MayAsk(v) = {p \in left : \A q \in left : order[p] <= order[q]}
  BY DEF MayAsk
<1>2. order["row"] = 1 /\ order["entries"] = 2 /\ order["roster"] = 3
  OBVIOUS
<1>3. {"row", "entries"} \subseteq Wanted(v)
  BY DEF Wanted, Parts
<1> HIDE DEF order
<1> QED
  BY <1>1, <1>2, <1>3

\* A reader who does not move, or is broken off, is as right as before.
LEMMA ViewStays ==
  ASSUME NEW v \in Readers, view[v] \in Views, Seen(v), PageSeen(v), Grows,
         view'[v] \in {view[v], [view[v] EXCEPT !.step = "done"]}
  PROVE  Seen(v)' /\ PageSeen(v)'
<1>1. /\ view'[v].got = view[v].got /\ view'[v].ids = view[v].ids /\ view'[v].rows = view[v].rows
      /\ view'[v].version = view[v].version /\ view'[v].answer = view[v].answer
      /\ view'[v].step \in {view[v].step, "done"} /\ view[v].version \in Nat
  BY DEF Views
<1>2. /\ read(v)' = read(v) /\ Wanted(v)' = Wanted(v)
      /\ ReadLimited(read(v).user)' = ReadLimited(read(v).user)
  BY DEF Grows, read, Wanted, ReadLimited, kind
<1>3. Seen(v)'
  <2>1. Ids \subseteq Ids'
    BY DEF Grows, Ids
  <2>2. ContainsAuthor(read(v).user, view[v].ids) => ContainsAuthor(read(v).user, view[v].ids)'
    BY <1>1, <1>2 DEF Grows, ContainsAuthor, Author, user
  <2>3. Named(v) = {} => Named(v)' = {}
    BY <1>1, <1>2 DEF Grows, Named, Seen
  <2> QED
    BY <1>1, <1>2, <2>1, <2>2, <2>3 DEF Seen
<1>4. PageSeen(v)'
  <2>1. ASSUME NEW e \in entry', e.id \in view[v].ids
        PROVE  e \in entry
    BY <2>1 DEF Grows, Seen
  <2>2. ASSUME NEW g \in Rangers, Agrees(v, g)
        PROVE  Agrees(v, g)'
    <3>1. SaidOf(v, g)' = SaidOf(v, g)
      BY <1>1, <2>1 DEF SaidOf, About, Grows
    <3>2. ShownOf(v, g)' = ShownOf(v, g) /\ About(g) \subseteq About(g)'
      BY <1>1 DEF ShownOf, About, Grows
    <3> QED
      BY <2>2, <3>1, <3>2 DEF Agrees
  <2>3. ASSUME read(v).op = "page", exists', "entries" \in view[v].got, NEW e \in entry',
               e.says.what = "edit", e.says.version <= view[v].version
        PROVE  e.id \in view[v].ids
    <3>1. "row" \in view[v].got /\ exists /\ view[v].version <= version
      BY <2>3 DEF PageSeen, Grows
    <3>2. CASE e \in entry
      BY <2>3, <3>1, <3>2 DEF PageSeen
    <3>3. CASE e \notin entry
      <4>1. e.says.version > version
        BY <2>3, <3>3 DEF Grows
      <4>2. e.says.version \in Nat
        BY <2>3, <3>3 DEF Grows
      <4> QED
        BY <1>1, <2>3, <3>1, <4>1, <4>2 DEF Grows
    <3> QED
      BY <3>2, <3>3
  <2>4. exists' /\ view[v].version <= version => view[v].version <= version'
    BY <1>1 DEF Grows
  <2> QED
    BY <1>1, <1>2, <2>2, <2>3, <2>4 DEF PageSeen, Grows
<1> QED
  BY <1>3, <1>4

\* A query, or the answer, of a reader.
LEMMA ReadStep ==
  ASSUME IInv, FreshInv, EditInv, ReadersInv, NEW v \in Readers, Read(v), UNCHANGED vars
  PROVE  /\ view'[v] \in Views /\ Seen(v)' /\ PageSeen(v)'
         /\ \A w \in Readers \ {v} : view'[w] = view[w]
<1> DEFINE new == view'[v]
<1>1. /\ view[v] \in Views /\ DOMAIN view = Readers /\ Seen(v) /\ PageSeen(v)
      /\ attached \subseteq Nat /\ version \in Nat /\ roster \subseteq Rows
  BY DEF ReadersInv, IInv, BaseInv, TypeOK
<1>2. /\ UNCHANGED <<given, exists, version, entry, attached, roster, file>>
      /\ read(v)' = read(v) /\ Wanted(v)' = Wanted(v) /\ Ids' = Ids
      /\ ReadLimited(read(v).user)' = ReadLimited(read(v).user)
  BY DEF vars, record, entries, read, Wanted, ReadLimited, kind, Ids
<1>3. \A u, ids : ContainsAuthor(u, ids)' = ContainsAuthor(u, ids)
  BY <1>2 DEF ContainsAuthor, Author, user
<1>0. view[v].got \in SUBSET Parts /\ \A p \in Parts : view[v].got \cup {p} \in SUBSET Parts
  BY <1>1 DEF Views
<1>4. \A w \in Readers \ {v} : view'[w] = view[w]
  BY <1>1 DEF Read, BeginRead, ReadRow, ReadEntries, ReadRoster, Assemble, OpenFile, ReadFails, See, Reply
<1>5. ASSUME NEW a \in {"forbidden", "notfound", "absent", "error"}, Reply(v, a)
      PROVE  new \in Views /\ Seen(v)' /\ PageSeen(v)'
  <2>1. new = [view[v] EXCEPT !.step = "done", !.answer = a]
    BY <1>1, <1>5 DEF Reply
  <2>2. /\ new \in Views /\ new.got = view[v].got /\ new.ids = view[v].ids /\ new.rows = view[v].rows
        /\ new.version = view[v].version /\ new.answer = a /\ new.step = "done"
    BY <1>1, <2>1 DEF Views
  <2>3. Seen(v)'
    BY <1>1, <1>2, <2>2 DEF Seen
  <2>4. \A g : Agrees(v, g)' = Agrees(v, g)
    BY <1>2, <2>2 DEF Agrees, SaidOf, ShownOf, About
  <2>5. PageSeen(v)'
    BY <1>1, <1>2, <2>2, <2>4 DEF PageSeen
  <2> QED
    BY <2>2, <2>3, <2>5
<1>6. CASE BeginRead(v)
  <2>1. CASE See(v, [view[v] EXCEPT !.step = "read"])
    <3>1. new = [view[v] EXCEPT !.step = "read"] /\ view[v].step = "begin"
      BY <1>1, <1>6, <2>1 DEF See, BeginRead
    <3>2. /\ new \in Views /\ new.got = {} /\ new.ids = view[v].ids /\ new.answer = "none"
          /\ new.step = "read"
      BY <1>1, <3>1 DEF Views, Seen
    <3> QED
      BY <1>1, <1>2, <1>4, <3>2 DEF Seen, PageSeen
  <2>2. CASE \E a \in {"notfound", "forbidden"} : Reply(v, a)
    BY <1>4, <1>5, <2>2
  <2> QED
    BY <1>6, <2>1, <2>2 DEF BeginRead
<1>7. CASE ReadRow(v)
  <2>1. CASE exists /\ See(v, [view[v] EXCEPT !.got = @ \cup {"row"}, !.version = version])
    <3>1. new = [view[v] EXCEPT !.got = @ \cup {"row"}, !.version = version] /\ view[v].step = "read"
      BY <1>1, <1>7, <2>1 DEF See, ReadRow
    <3>2. "row" \in MayAsk(v) /\ "row" \notin view[v].got
      BY <1>7 DEF ReadRow, MayAsk
    <3>3. /\ new \in Views /\ new.got = view[v].got \cup {"row"} /\ new.ids = view[v].ids
          /\ new.version = version /\ new.answer = view[v].answer /\ new.answer = "none"
          /\ new.step = "read"
      BY <1>1, <1>0, <3>1 DEF Views, Seen, Parts
    <3>4. Seen(v)'
      BY <1>1, <1>2, <3>3 DEF Seen
    <3>5. read(v).op = "page" => "entries" \notin new.got /\ "roster" \notin new.got
      BY <1>1, <3>2, <3>3 DEF PageSeen
    <3>6. PageSeen(v)'
      BY <1>1, <1>2, <3>3, <3>5 DEF PageSeen
    <3> QED
      BY <1>4, <3>3, <3>4, <3>6
  <2>2. CASE \E a \in {"absent", "notfound"} : Reply(v, a)
    BY <1>4, <1>5, <2>2
  <2> QED
    BY <1>7, <2>1, <2>2 DEF ReadRow
<1>8. CASE ReadEntries(v)
  <2>1. new = [view[v] EXCEPT !.got = @ \cup {"entries"}, !.ids = Returned(v)] /\ view[v].step = "read"
    BY <1>1, <1>8 DEF See, ReadEntries
  <2>2. "entries" \in MayAsk(v) /\ "entries" \notin view[v].got
    BY <1>8 DEF ReadEntries, MayAsk
  <2>3. Returned(v) \subseteq attached /\ (read(v).op = "page" => Returned(v) = attached)
    BY DEF Returned
  <2>4. /\ new \in Views /\ new.got = view[v].got \cup {"entries"} /\ new.ids = Returned(v)
        /\ new.version = view[v].version /\ new.answer = "none" /\ new.step = "read"
    <3>1. /\ new.got = view[v].got \cup {"entries"} /\ new.ids = Returned(v) /\ new.rows = view[v].rows
          /\ new.version = view[v].version /\ new.answer = view[v].answer /\ new.step = view[v].step
          /\ new = [step |-> new.step, got |-> new.got, version |-> new.version, ids |-> new.ids,
                    rows |-> new.rows, answer |-> new.answer]
      BY <1>1, <2>1 DEF Views
    <3>2. view[v].answer = "none" /\ Returned(v) \in SUBSET Nat /\ new.got \in SUBSET Parts
      BY <1>1, <1>0, <2>1, <2>3, <3>1 DEF Seen, Parts
    <3>3. view[v].version \in Nat /\ view[v].rows \in SUBSET Rows
      BY <1>1 DEF Views
    <3> QED
      BY <2>1, <3>1, <3>2, <3>3 DEF Views
  <2>5. Seen(v)'
    BY <1>1, <1>2, <2>3, <2>4 DEF Seen, FreshInv
  <2>6. read(v).op = "page" => "row" \in new.got /\ "roster" \notin new.got
    BY <1>1, <2>2, <2>4, PageOrder DEF PageSeen
  <2>7. read(v).op = "page" /\ exists => \A e \in entry : e.says.what = "edit" => e.id \in new.ids
    BY <2>3, <2>4 DEF EditInv
  <2>8. PageSeen(v)'
    BY <1>1, <1>2, <2>4, <2>6, <2>7 DEF PageSeen
  <2> QED
    BY <1>4, <2>4, <2>5, <2>8
<1>9. CASE ReadRoster(v)
  <2>1. new = [view[v] EXCEPT !.got = @ \cup {"roster"}, !.rows = roster] /\ view[v].step = "read"
    BY <1>1, <1>9 DEF See, ReadRoster
  <2>2. "roster" \in MayAsk(v)
    BY <1>9 DEF ReadRoster
  <2>3. /\ new \in Views /\ new.got = view[v].got \cup {"roster"} /\ new.ids = view[v].ids
        /\ new.version = view[v].version /\ new.answer = "none" /\ new.step = "read" /\ new.rows = roster
    <3>1. /\ new.got = view[v].got \cup {"roster"} /\ new.ids = view[v].ids /\ new.rows = roster
          /\ new.version = view[v].version /\ new.answer = view[v].answer /\ new.step = view[v].step
          /\ new = [step |-> new.step, got |-> new.got, version |-> new.version, ids |-> new.ids,
                    rows |-> new.rows, answer |-> new.answer]
      BY <1>1, <2>1 DEF Views
    <3>2. view[v].answer = "none" /\ roster \in SUBSET Rows /\ new.got \in SUBSET Parts
      BY <1>1, <1>0, <2>1, <3>1 DEF Seen, Parts
    <3>3. view[v].version \in Nat /\ view[v].ids \in SUBSET Nat
      BY <1>1 DEF Views
    <3> QED
      BY <2>1, <3>1, <3>2, <3>3 DEF Views
  <2>4. Seen(v)'
    BY <1>1, <1>2, <2>3 DEF Seen
  <2>5. ASSUME exists, NEW g \in Rangers
        PROVE  Agrees(v, g)'
    <3>1. ShownOf(v, g)' = RolesOf(g) /\ About(g)' = About(g) /\ SaidOf(v, g)' \subseteq About(g)
      BY <1>2, <2>3 DEF ShownOf, RolesOf, RowsOf, SaidOf, About
    <3> QED
      BY <2>5, <3>1 DEF IInv, RolesInv, Newest, Agrees
  <2>6. read(v).op = "page" => "row" \in new.got /\ "entries" \in new.got
    BY <1>1, <2>2, <2>3, PageOrder DEF PageSeen
  <2>7. PageSeen(v)'
    BY <1>1, <1>2, <2>3, <2>5, <2>6 DEF PageSeen
  <2> QED
    BY <1>4, <2>3, <2>4, <2>7
<1>10. CASE Assemble(v)
  <2> DEFINE hidden == ReadLimited(read(v).user) /\ ~ContainsAuthor(read(v).user, view[v].ids)
  <2>1. CASE hidden
    <3>1. \E a \in {"absent", "forbidden"} : Reply(v, a)
      BY <1>10, <2>1 DEF Assemble
    <3> QED
      BY <1>4, <1>5, <3>1
  <2>2. CASE ~hidden
    <3>1. /\ (read(v).op = "file" /\ new = [view[v] EXCEPT !.step = "open"])
             \/ (read(v).op # "file" /\ new = [view[v] EXCEPT !.step = "done", !.answer = "shown"])
          /\ view[v].step = "read" /\ view[v].got = Wanted(v)
      BY <1>1, <1>10, <2>2 DEF Assemble, See, Reply
    <3>2. /\ new \in Views /\ new.got = view[v].got /\ new.ids = view[v].ids /\ new.rows = view[v].rows
          /\ new.version = view[v].version
          /\ (read(v).op = "file" /\ new.answer = "none" /\ new.step = "open")
             \/ (new.answer = "shown" /\ new.step = "done")
      BY <1>1, <3>1 DEF Views, Seen
    <3>3. Seen(v)'
      BY <1>1, <1>2, <1>3, <2>2, <3>2 DEF Seen
    <3>4. \A g : Agrees(v, g)' = Agrees(v, g)
      BY <1>2, <3>2 DEF Agrees, SaidOf, ShownOf, About
    <3>5. PageSeen(v)'
      BY <1>1, <1>2, <3>1, <3>2, <3>4 DEF PageSeen
    <3> QED
      BY <1>4, <3>2, <3>3, <3>5
  <2> QED
    BY <2>1, <2>2
<1>11. CASE OpenFile(v)
  <2>1. \A e \in Named(v) : file[e.by] = "whole"
    BY DEF Named, IInv, FileInv
  <2>2. (Named(v) = {} /\ Reply(v, "nofile")) \/ Reply(v, "shown")
    BY <1>11, <2>1 DEF OpenFile
  <2>3. PICK a \in {"nofile", "shown"} : Reply(v, a) /\ (a = "nofile" => Named(v) = {})
    BY <2>2
  <2>4. new = [view[v] EXCEPT !.step = "done", !.answer = a] /\ view[v].step = "open"
    BY <1>1, <1>11, <2>3 DEF Reply, OpenFile
  <2>5. /\ new \in Views /\ new.got = view[v].got /\ new.ids = view[v].ids /\ new.rows = view[v].rows
        /\ new.version = view[v].version /\ new.answer = a /\ new.step = "done"
    BY <1>1, <2>4 DEF Views
  <2>6. Named(v)' = Named(v)
    BY <1>2, <2>5 DEF Named
  <2>7. Seen(v)'
    BY <1>1, <1>2, <1>3, <2>3, <2>4, <2>5, <2>6 DEF Seen
  <2>8. PageSeen(v)'
    BY <1>1, <1>2, <2>4 DEF PageSeen, Seen
  <2> QED
    BY <1>4, <2>5, <2>7, <2>8
<1>12. CASE ReadFails(v)
  BY <1>4, <1>5, <1>12 DEF ReadFails
<1> QED
  BY <1>6, <1>7, <1>8, <1>9, <1>10, <1>11, <1>12 DEF Read

ReadIInv == IInv /\ FreshInv /\ EditInv /\ ReadersInv

LEMMA NextReadIInv == ReadIInv /\ [ReadNext]_readVars => ReadIInv'
<1> SUFFICES ASSUME IInv, FreshInv, EditInv, ReadersInv, [ReadNext]_readVars
             PROVE  ReadIInv'
    BY DEF ReadIInv
<1>1. [Next]_vars
  BY DEF ReadNext, readVars, Next, CrashRead, ReadFinished
<1>2. IInv' /\ FreshInv' /\ EditInv' /\ Grows
  BY <1>1, NextIInv, NextFresh, NextEdits, NextGrows DEF IInv
<1>3. CASE /\ view' = [v \in Readers |-> view'[v]]
           /\ \A v \in Readers : view'[v] \in {view[v], [view[v] EXCEPT !.step = "done"]}
  <2>1. ASSUME NEW v \in Readers
        PROVE  view'[v] \in Views /\ Seen(v)' /\ PageSeen(v)'
    <3>1. view[v] \in Views /\ Seen(v) /\ PageSeen(v)
      BY DEF ReadersInv
    <3>2. view'[v] \in {view[v], [view[v] EXCEPT !.step = "done"]}
      BY <1>3
    <3>3. view'[v] \in Views
      BY <3>1, <3>2 DEF Views
    <3> QED
      BY <1>2, <3>1, <3>2, <3>3, ViewStays
  <2>2. view' \in [Readers -> Views]
    BY <1>3, <2>1
  <2> QED
    BY <1>2, <2>1, <2>2 DEF ReadersInv, ReadIInv
<1>4. ASSUME NEW v \in Readers, Read(v), UNCHANGED vars
      PROVE  ReadIInv'
  <2>1. /\ view'[v] \in Views /\ Seen(v)' /\ PageSeen(v)'
        /\ \A w \in Readers \ {v} : view'[w] = view[w]
    BY <1>4, ReadStep
  <2>2. ASSUME NEW w \in Readers \ {v}
        PROVE  view'[w] \in Views /\ Seen(w)' /\ PageSeen(w)'
    <3>1. view[w] \in Views /\ Seen(w) /\ PageSeen(w) /\ view'[w] = view[w]
      BY <2>1 DEF ReadersInv
    <3> QED
      BY <1>2, <3>1, ViewStays
  <2>3. \E new : view' = [view EXCEPT ![v] = new]
    BY <1>4, Zenon DEF Read, BeginRead, ReadRow, ReadEntries, ReadRoster, Assemble, OpenFile, ReadFails, See, Reply
  <2>4. view' \in [Readers -> Views]
    BY <2>1, <2>2, <2>3 DEF ReadersInv
  <2> QED
    BY <1>2, <2>1, <2>2, <2>4 DEF ReadersInv, ReadIInv
<1>5. CASE UNCHANGED view
  <2>1. view' = [v \in Readers |-> view'[v]] /\ \A v \in Readers : view'[v] = view[v]
    BY <1>5 DEF ReadersInv
  <2> QED
    BY <1>3, <2>1
<1>6. CASE CrashRead
  <2>1. view' = [v \in Readers |-> IF view[v].step = "begin" THEN view[v] ELSE [view[v] EXCEPT !.step = "done"]]
    BY <1>6 DEF CrashRead
  <2>2. \A v \in Readers : view'[v] \in {view[v], [view[v] EXCEPT !.step = "done"]}
    BY <2>1
  <2>3. view' = [v \in Readers |-> view'[v]]
    BY <2>1
  <2> QED
    BY <1>3, <2>2, <2>3
<1> QED
  BY <1>4, <1>5, <1>6 DEF ReadNext, ReadFinished, readVars

LEMMA InitReadIInv == ReadInit => ReadIInv
<1> SUFFICES ASSUME ReadInit
             PROVE  ReadIInv
    OBVIOUS
<1>1. Init /\ IInv
  BY InitIInv DEF ReadInit
<1>2. entry = {[id |-> 1, by |-> "first", says |-> [what |-> "text"]]} /\ attached \subseteq {1}
      /\ logged = [r \in Requests |-> 0]
  BY <1>1 DEF Init
<1>3. FreshInv
  <2>1. 1 \in Ids
    BY <1>2 DEF Ids
  <2> QED
    BY <1>2, <2>1 DEF FreshInv
<1>4. EditInv
  BY <1>2 DEF EditInv
<1>5. ASSUME NEW v \in Readers
      PROVE  /\ view[v] \in Views /\ view[v].got = {} /\ view[v].ids = {} /\ view[v].answer = "none"
             /\ view[v].step \in {"begin", "done"}
  BY DEF ReadInit, EmptyView, Views
<1>6. view \in [Readers -> Views]
  BY <1>5 DEF ReadInit
<1>7. \A v \in Readers : Seen(v) /\ PageSeen(v)
  BY <1>5 DEF Seen, PageSeen
<1> QED
  BY <1>1, <1>3, <1>4, <1>6, <1>7 DEF ReadIInv, ReadersInv

LEMMA ReadIInvHolds == ReadSpec => []ReadIInv
BY InitReadIInv, NextReadIInv, PTL DEF ReadSpec

-----------------------------------------------------------------------------
(* The theorems.                                                           *)

\* RecordReads implements RecordParts: readers leave what they read alone, and whatever
\* holds of the record without them holds with them.
THEOREM ReadersChangeNothing == ReadSpec => Spec
<1>1. ReadInit => Init
  BY DEF ReadInit
<1>2. [ReadNext]_readVars => [Next]_vars
  BY DEF ReadNext, readVars, Next, CrashRead, ReadFinished
<1> QED
  BY <1>1, <1>2, PTL DEF ReadSpec, Spec

\* No Ranger is on the roster twice, though no key of the table says so: a delete of
\* nothing locks the gap, and a delete of something the whole roster.
THEOREM NobodyTwice == ReadSpec => []RosterHasNoTwins
<1>1. IInv => RosterHasNoTwins
  <2> SUFFICES ASSUME NoTwins, NEW g \in Rangers
               PROVE  Cardinality(RowsOf(g)) <= 1
      BY DEF IInv, RosterHasNoTwins
  <2>1. CASE RowsOf(g) = {}
    BY <2>1, FS_EmptySet
  <2>2. CASE RowsOf(g) # {}
    <3>1. PICK x : RowsOf(g) = {x}
      BY <2>2 DEF NoTwins, RowsOf
    <3> QED
      BY <3>1, FS_Singleton
  <2> QED
    BY <2>1, <2>2
<1> QED
  BY <1>1, IInvHolds, ReadersChangeNothing, PTL

\* The newest entry about a Ranger says whether they are on the roster, and in which
\* role: the locks keep the commits in the order of their entries.
THEOREM RosterIsExplained == ReadSpec => []RosterExplained
<1>1. IInv => RosterExplained
  <2> SUFFICES ASSUME LoggedInv, RolesInv, exists, NEW g \in Rangers
               PROVE  LET about == {e \in entry : /\ e.id \in attached /\ e.says.what = "roster"
                                                 /\ e.says.ranger = g}
                      IN  IF about = {} THEN {row.role : row \in RowsOf(g)} =
                                             (IF g \in given.roster THEN {NoRole} ELSE {})
                          ELSE \E e \in about :
                                 /\ \A f \in about : f.id <= e.id
                                 /\ {row.role : row \in RowsOf(g)} = (IF e.says.on THEN {e.says.role} ELSE {})
      BY DEF IInv, RosterExplained
  <2>1. {e \in entry : e.id \in attached /\ e.says.what = "roster" /\ e.says.ranger = g} = About(g)
    BY DEF LoggedInv, About
  <2>2. {row.role : row \in RowsOf(g)} = RolesOf(g)
    BY DEF RolesOf
  <2>3. \/ About(g) = {} /\ RolesOf(g) = (IF g \in given.roster THEN {NoRole} ELSE {})
        \/ \E e \in About(g) : /\ \A f \in About(g) : f.id <= e.id
                               /\ RolesOf(g) = (IF e.says.on THEN {e.says.role} ELSE {})
    BY DEF RolesInv, Newest
  <2> QED
    BY <2>1, <2>2, <2>3, Zenon
<1> QED
  BY <1>1, IInvHolds, ReadersChangeNothing, PTL

\* The newest strike that found its entry says whether that is stricken.
THEOREM StrikesAreExplained == ReadSpec => []StrikesExplained
<1>1. IInv => StrikesExplained
  <2> SUFFICES ASSUME LoggedInv, StruckInv, NEW n \in attached
               PROVE  LET about == {e \in entry : /\ e.id \in attached /\ e.says.what = "strike"
                                                 /\ e.says.id = n /\ e.says.hit}
                      IN  \/ about = {} /\ n \notin stricken
                          \/ \E e \in about : (\A f \in about : f.id <= e.id) /\ e.says.on = (n \in stricken)
      BY DEF IInv, StrikesExplained
  <2>1. exists
    BY DEF LoggedInv
  <2>2. {e \in entry : e.id \in attached /\ e.says.what = "strike" /\ e.says.id = n /\ e.says.hit} = Hits(n)
    BY <2>1 DEF LoggedInv, Hits
  <2>3. \/ Hits(n) = {} /\ n \notin stricken
        \/ \E e \in Hits(n) : (\A f \in Hits(n) : f.id <= e.id) /\ e.says.on = (n \in stricken)
    BY <2>1 DEF StruckInv, Newest
  <2> QED
    BY <2>2, <2>3, Zenon
<1> QED
  BY <1>1, IInvHolds, ReadersChangeNothing, PTL

\* What is announced is stored, and what is confirmed was announced or was nothing.
THEOREM EventsFollowCommits == ReadSpec => []ToldAfterCommit
<1>1. IInv => ToldAfterCommit
  BY DEF IInv, BaseInv, TypeOK, ToldInv, Told, Stored, ToldAfterCommit
<1> QED
  BY <1>1, IInvHolds, ReadersChangeNothing, PTL

\* A page explains itself though its queries share no snapshot: the edits up to the
\* version shown are in the log shown, and the roster shown is not older than that.
THEOREM PagesExplainThemselves == ReadSpec => []PageExplainsItself
<1>1. ReadIInv => PageExplainsItself
  <2> SUFFICES ASSUME ReadersInv, exists, NEW v \in Readers, view[v].answer = "shown", read(v).op = "page"
               PROVE  /\ \A e \in entry : e.says.what = "edit" /\ e.says.version <= view[v].version
                                             => e.id \in view[v].ids
                      /\ kind # "fieldReport" =>
                         \A g \in Rangers :
                           LET about == {e \in entry : e.says.what = "roster" /\ e.says.ranger = g}
                               shown == {row.role : row \in {w \in view[v].rows : w.ranger = g}}
                               newest == {e \in about : e.id \in view[v].ids}
                           IN  newest # {} =>
                                 \E e \in about :
                                   /\ \A f \in newest : f.id <= e.id
                                   /\ shown = (IF e.says.on THEN {e.says.role} ELSE {})
      BY DEF ReadIInv, PageExplainsItself
  <2>1. PageSeen(v) /\ view[v].got = Wanted(v)
    BY DEF ReadersInv, PageSeen
  <2>2. "entries" \in view[v].got /\ (kind # "fieldReport" => "roster" \in view[v].got)
    BY <2>1 DEF Wanted, Parts
  <2>3. \A e \in entry : e.says.what = "edit" /\ e.says.version <= view[v].version => e.id \in view[v].ids
    BY <2>1, <2>2 DEF PageSeen
  <2>4. kind # "fieldReport" => \A g \in Rangers : Agrees(v, g)
    BY <2>1, <2>2 DEF PageSeen
  <2> QED
    BY <2>3, <2>4, Zenon DEF Agrees, SaidOf, ShownOf, About
<1> QED
  BY <1>1, ReadIInvHolds, PTL

\* Nobody with access to their own Field Reports alone is shown another's, nor adds to it.
THEOREM OutsidersAreKeptOut == ReadSpec => []OutsidersStayOut
<1>1. ReadIInv => OutsidersStayOut
  BY DEF ReadIInv, IInv, OutsiderInv, Insider, ReadersInv, Seen, OutsidersStayOut, OutsidersWriteNothing
<1> QED
  BY <1>1, ReadIInvHolds, PTL

\* Whoever is shown the entry of an upload gets the whole file.
THEOREM FilesComeWhole == ReadSpec => []FilesAreServed
<1>1. ReadIInv => FilesAreServed
  <2> SUFFICES ASSUME IInv, ReadersInv
               PROVE  UploadsAreWhole
      BY DEF ReadIInv, FilesAreServed, ReadersInv, Seen
  <2>1. \A r \in Requests : reply[r] = "success" /\ op(r) = "upload" => Stored(r)
    BY DEF IInv, ToldInv, Told
  <2> QED
    BY <2>1 DEF IInv, FileInv, Stored, UploadsAreWhole
<1> QED
  BY <1>1, ReadIInvHolds, PTL
=============================================================================
