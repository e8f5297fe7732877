----------------------------- MODULE RecordEdit -----------------------------
(***************************************************************************)
(* Concurrent edits of one record: updateIncident, updateVisit and         *)
(* EditFieldReport.updateFieldReport, which share one algorithm.  An       *)
(* attempt reads the stored record outside of any transaction, merges the  *)
(* request's fields over it, and writes the whole row back with            *)
(*     UPDATE ... SET VERSION = VERSION + 1 ... WHERE VERSION = <as read>. *)
(* Zero rows mean that another writer came first: the attempt is rolled    *)
(* back and made again, MaxCASAttempts times at most.  Inside each of      *)
(* these attempts a transaction the database kills as a deadlock victim is *)
(* run again, MaxDeadlockAttempts times at most (retryOnDeadlock).  A      *)
(* request that names no field only appends its report entry and skips the *)
(* guarded update.  The SSE event is published after the commit.           *)
(*                                                                         *)
(* The other tables of the database appear as InnoDB shows them to these   *)
(* transactions: the guarded update holds the record's row exclusively     *)
(* until the transaction ends, and inserting a report entry holds it       *)
(* shared (the foreign key of the link table).                             *)
(***************************************************************************)
EXTENDS Integers, FiniteSets

CONSTANTS
  Requests,             \* the edit requests; each is served by one goroutine
  Fields,               \* columns an edit may write
  InitRow,              \* the record as it is first stored
  ValidRows,            \* rows that pass the check after the merge:
                        \* for a Visit, departure not before arrival
  Patches,              \* the fields a request body may name, with values
  Bodies,               \* the request bodies: <<fields named, has an entry>>
  MaxCASAttempts,       \* maxCASAttempts
  MaxDeadlockAttempts,  \* maxDeadlockAttempts
  NoRequest             \* holder of a free row lock

ASSUME AttemptsAssumption ==
  /\ MaxCASAttempts \in Nat \ {0}
  /\ MaxDeadlockAttempts \in Nat \ {0}

ASSUME DataAssumption ==
  /\ NoRequest \notin Requests
  /\ InitRow \in ValidRows
  /\ \A rw \in ValidRows : rw = [f \in Fields |-> rw[f]]
  /\ \A p \in Patches : DOMAIN p \subseteq Fields
  /\ Bodies \subseteq Patches \X BOOLEAN

VARIABLES
  \* the database
  row,          \* the record's columns, as committed
  version,      \* its VERSION column, as committed
  exists,       \* FALSE once deleteEvent removed the record
  entries,      \* the report entries of the record, as committed
  nextEntry,    \* AUTO_INCREMENT of REPORT_ENTRY; a rollback does not lower it
  lock,         \* the transaction holding the row exclusively, or NoRequest
  sharers,      \* the transactions holding the row shared
  \* the requests: what each asks for, never changed
  patch,        \* patch[r]: the fields r names, with their new values
  note,         \* note[r]: whether r carries a nonempty report entry
  \* the goroutines serving them
  pc,           \* the next statement of r's handler
  seen,         \* the row and version r's attempt read
  inserted,     \* the entries r's open transaction has inserted
  casTry,       \* which attempt of the updateIncident loop r is in
  deadlockTry,  \* which attempt of retryOnDeadlock r is in
  reply,        \* the answer r was given
  \* history, read by the properties only
  committed,    \* the requests whose transaction committed
  published,    \* published[r]: how many SSE events r has published
  firstSeen     \* firstSeen[r]: the version at r's first read

database == <<row, version, exists, entries, nextEntry, lock, sharers>>
input == <<patch, note>>
goroutine == <<pc, seen, inserted, casTry, deadlockTry, reply>>
history == <<committed, published, firstSeen>>
vars == <<database, input, goroutine, history>>

Replies == {"none", "success", "conflict", "notfound", "badrequest", "error"}
Steps == {"read", "update", "recheck", "entries", "commit", "notify", "done"}
Entry == [id : Nat, by : Requests, kind : {"change", "note"}]

-----------------------------------------------------------------------------
\* buildIncidentUpdate, buildVisitUpdate: the request's fields over the stored
\* row.  A state carries its CLOSED column with it, so a patch that names the
\* one names the other.
Merge(p, rw) == [f \in Fields |-> IF f \in DOMAIN p THEN p[f] ELSE rw[f]]

Merged(r) == Merge(patch[r], seen[r].row)

\* len(logs) > 0: every named field adds a line to the change log, whether or
\* not its value differs from the stored one.
ChangesFields(r) == DOMAIN patch[r] # {}

Init ==
  /\ row = InitRow
  /\ version = 1
  /\ exists = TRUE
  /\ entries = {}
  /\ nextEntry = 1
  /\ lock = NoRequest
  /\ sharers = {}
  /\ patch \in [Requests -> Patches]
  /\ note \in [Requests -> BOOLEAN]
  /\ \A r \in Requests : <<patch[r], note[r]>> \in Bodies
  /\ pc = [r \in Requests |-> "read"]
  /\ seen = [r \in Requests |-> [row |-> InitRow, version |-> 0]]
  /\ inserted = [r \in Requests |-> {}]
  /\ casTry = [r \in Requests |-> 1]
  /\ deadlockTry = [r \in Requests |-> 1]
  /\ reply = [r \in Requests |-> "none"]
  /\ committed = {}
  /\ published = [r \in Requests |-> 0]
  /\ firstSeen = [r \in Requests |-> 0]

-----------------------------------------------------------------------------
\* The transaction of r is over: defer rollback(txn), or its commit.
Release(r) ==
  /\ lock' = IF lock = r THEN NoRequest ELSE lock
  /\ sharers' = sharers \ {r}
  /\ inserted' = [inserted EXCEPT ![r] = {}]

\* The handler answers.
Answer(r, a) ==
  /\ pc' = [pc EXCEPT ![r] = "done"]
  /\ reply' = [reply EXCEPT ![r] = a]

\* The handler starts its attempt again, from the read.
Again(r) ==
  /\ pc' = [pc EXCEPT ![r] = "read"]
  /\ UNCHANGED reply

-----------------------------------------------------------------------------
\* The attempt reads the record in autocommit, opens its transaction and
\* merges.  The merged row may be refused.
Read(r) ==
  /\ pc[r] = "read"
  /\ firstSeen' = [firstSeen EXCEPT ![r] = IF @ = 0 THEN version ELSE @]
  /\ seen' = [seen EXCEPT ![r] = [row |-> row, version |-> version]]
  /\ \/ ~exists /\ Answer(r, "notfound")
     \/ exists /\ Merge(patch[r], row) \notin ValidRows /\ Answer(r, "badrequest")
     \/ /\ exists
        /\ Merge(patch[r], row) \in ValidRows
        /\ pc' = [pc EXCEPT ![r] = IF ChangesFields(r) THEN "update" ELSE "entries"]
        /\ UNCHANGED reply
  /\ UNCHANGED <<database, input, inserted, casTry, deadlockTry, committed, published>>

\* Mutant of GuardedUpdate: the statement forgets AND VERSION = @version.
UnguardedUpdate(r) ==
  /\ pc[r] = "update"
  /\ lock = NoRequest
  /\ sharers = {}
  /\ lock' = IF exists THEN r ELSE lock
  /\ pc' = [pc EXCEPT ![r] = IF exists THEN "entries" ELSE "recheck"]
  /\ UNCHANGED <<row, version, exists, entries, nextEntry, sharers, input,
                 seen, inserted, casTry, deadlockTry, reply, history>>

\* UPDATE ... WHERE VERSION = seen: waits for the row, then either holds it
\* with the whole merged row written, or matches no row.  The row stays locked
\* in both cases; a row that is gone leaves nothing to lock.
GuardedUpdate(r) ==
  /\ pc[r] = "update"
  /\ lock = NoRequest
  /\ sharers = {}
  /\ lock' = IF exists THEN r ELSE lock
  /\ pc' = [pc EXCEPT ![r] =
             IF exists /\ version = seen[r].version THEN "entries" ELSE "recheck"]
  /\ UNCHANGED <<row, version, exists, entries, nextEntry, sharers, input,
                 seen, inserted, casTry, deadlockTry, reply, history>>

\* Mutant of Recheck: the attempts are counted from zero, so that the last one is
\* never made.
RecheckOneTooFew(r) ==
  /\ pc[r] = "recheck"
  /\ Release(r)
  /\ IF casTry[r] + 1 < MaxCASAttempts THEN Again(r) ELSE Answer(r, "conflict")
  /\ casTry' = [casTry EXCEPT ![r] = IF @ + 1 < MaxCASAttempts THEN @ + 1 ELSE @]
  /\ UNCHANGED <<row, version, exists, entries, nextEntry, input, seen,
                 deadlockTry, history>>

\* Zero rows: a second read tells a stale version from a vanished row.  The
\* transaction is rolled back either way.
Recheck(r) ==
  /\ pc[r] = "recheck"
  /\ Release(r)
  /\ \/ ~exists /\ Answer(r, "notfound") /\ UNCHANGED <<casTry, deadlockTry>>
     \/ /\ exists
        /\ casTry[r] = MaxCASAttempts
        /\ Answer(r, "conflict")
        /\ UNCHANGED <<casTry, deadlockTry>>
     \/ /\ exists
        /\ casTry[r] < MaxCASAttempts
        /\ Again(r)
        /\ casTry' = [casTry EXCEPT ![r] = @ + 1]
        /\ deadlockTry' = [deadlockTry EXCEPT ![r] = 1]
  /\ UNCHANGED <<row, version, exists, entries, nextEntry, input, seen, history>>

\* What addChangeReportEntries inserts: one generated entry that lists the
\* changed fields, then the request's own text.
NewEntries(r) ==
  (IF ChangesFields(r) THEN {[id |-> nextEntry, by |-> r, kind |-> "change"]} ELSE {})
    \cup (IF note[r] THEN {[id |-> nextEntry + 1, by |-> r, kind |-> "note"]} ELSE {})

\* Mutant of InsertEntries: the event is published within the retried attempt.
InsertAndNotify(r) ==
  /\ pc[r] = "entries"
  /\ exists
  /\ lock \in {NoRequest, r} \/ NewEntries(r) = {}
  /\ sharers' = IF lock = r \/ NewEntries(r) = {} THEN sharers ELSE sharers \cup {r}
  /\ inserted' = [inserted EXCEPT ![r] = NewEntries(r)]
  /\ nextEntry' = nextEntry + 2
  /\ pc' = [pc EXCEPT ![r] = "commit"]
  /\ published' = [published EXCEPT ![r] = 1]
  /\ UNCHANGED <<row, version, exists, entries, lock, input,
                 seen, casTry, deadlockTry, reply, committed, firstSeen>>

\* addChangeReportEntries.  The foreign key needs the record's row, shared.
InsertEntries(r) ==
  /\ pc[r] = "entries"
  /\ exists
  /\ lock \in {NoRequest, r} \/ NewEntries(r) = {}
  /\ sharers' = IF lock = r \/ NewEntries(r) = {} THEN sharers ELSE sharers \cup {r}
  /\ inserted' = [inserted EXCEPT ![r] = NewEntries(r)]
  /\ nextEntry' = nextEntry + 2
  /\ pc' = [pc EXCEPT ![r] = "commit"]
  /\ UNCHANGED <<row, version, exists, entries, lock, input,
                 seen, casTry, deadlockTry, reply, history>>

\* The record is gone: the foreign key refuses the entry, or there is nothing
\* to insert.
InsertIntoNothing(r) ==
  /\ pc[r] = "entries"
  /\ ~exists
  /\ \/ NewEntries(r) # {} /\ Release(r) /\ Answer(r, "error")
     \/ /\ NewEntries(r) = {}
        /\ pc' = [pc EXCEPT ![r] = "commit"]
        /\ UNCHANGED <<lock, sharers, inserted, reply>>
  /\ UNCHANGED <<row, version, exists, entries, nextEntry, input,
                 seen, casTry, deadlockTry, history>>

\* Mutant of Persist: the update forgets VERSION = VERSION + 1.
PersistKeepingVersion(r) ==
  /\ row' = IF lock = r THEN Merged(r) ELSE row
  /\ entries' = entries \cup inserted[r]
  /\ committed' = committed \cup {r}
  /\ Release(r)
  /\ UNCHANGED version

\* COMMIT: the row and the entries the transaction wrote become visible.
Persist(r) ==
  /\ row' = IF lock = r THEN Merged(r) ELSE row
  /\ version' = IF lock = r THEN seen[r].version + 1 ELSE version
  /\ entries' = entries \cup inserted[r]
  /\ committed' = committed \cup {r}
  /\ Release(r)

Commit(r) ==
  /\ pc[r] = "commit"
  /\ Persist(r)
  /\ pc' = [pc EXCEPT ![r] = "notify"]
  /\ UNCHANGED <<exists, nextEntry, input, seen, casTry, deadlockTry, reply,
                 published, firstSeen>>

\* Mutant of CommitUnacknowledged: an unknown outcome is retried as a deadlock is.
RetryUnacknowledged(r) ==
  /\ pc[r] = "commit"
  /\ deadlockTry[r] < MaxDeadlockAttempts
  /\ Persist(r)
  /\ Again(r)
  /\ deadlockTry' = [deadlockTry EXCEPT ![r] = @ + 1]
  /\ UNCHANGED <<exists, nextEntry, input, seen, casTry, published, firstSeen>>

\* The database commits, but the acknowledgement is lost with the connection or
\* with the server: the client is not told, and no event is published.
CommitUnacknowledged(r) ==
  /\ pc[r] = "commit"
  /\ Persist(r)
  /\ Answer(r, "error")
  /\ UNCHANGED <<exists, nextEntry, input, seen, casTry, deadlockTry,
                 published, firstSeen>>

\* es.notifyIncidentUpdate (and its siblings), then the success response.
Notify(r) ==
  /\ pc[r] = "notify"
  /\ published' = [published EXCEPT ![r] = @ + 1]
  /\ Answer(r, "success")
  /\ UNCHANGED <<database, input, seen, inserted, casTry, deadlockTry,
                 committed, firstSeen>>

\* InnoDB rolls r's transaction back as a deadlock victim, at any statement that
\* takes a lock.  retryOnDeadlock runs the attempt again, or gives up.
DeadlockVictim(r) ==
  /\ pc[r] \in {"update", "entries"}
  /\ Release(r)
  /\ \/ /\ deadlockTry[r] < MaxDeadlockAttempts
        /\ Again(r)
        /\ deadlockTry' = [deadlockTry EXCEPT ![r] = @ + 1]
     \/ /\ deadlockTry[r] = MaxDeadlockAttempts
        /\ Answer(r, "error")
        /\ UNCHANGED deadlockTry
  /\ UNCHANGED <<row, version, exists, entries, nextEntry, input, seen, casTry, history>>

\* Mutant of DatabaseError: the error path has no deferred rollback.
ErrorWithoutRollback(r) ==
  /\ pc[r] \in {"read", "update", "recheck", "entries", "commit"}
  /\ Answer(r, "error")
  /\ UNCHANGED <<database, input, seen, inserted, casTry, deadlockTry, history>>

\* Any other database error, a lock wait timeout for instance, or the end of
\* the server process before the commit: the transaction is rolled back and
\* nothing is retried.
DatabaseError(r) ==
  /\ pc[r] \in {"read", "update", "recheck", "entries", "commit"}
  /\ Release(r)
  /\ Answer(r, "error")
  /\ UNCHANGED <<row, version, exists, entries, nextEntry, input,
                 seen, casTry, deadlockTry, history>>

\* deleteEvent removes the record and its entries, in a transaction of its own.
DeleteEvent ==
  /\ exists
  /\ lock = NoRequest
  /\ sharers = {}
  /\ exists' = FALSE
  /\ entries' = {}
  /\ UNCHANGED <<row, version, nextEntry, lock, sharers, input, goroutine, history>>

\* Every request is answered; what is left is to stutter.
Finished ==
  /\ \A r \in Requests : pc[r] = "done"
  /\ UNCHANGED vars

\* The statements of the handler itself, without the failures it may meet.
Handle(r) ==
  \/ Read(r) \/ GuardedUpdate(r) \/ Recheck(r)
  \/ InsertEntries(r) \/ InsertIntoNothing(r)
  \/ Commit(r) \/ Notify(r)

Next ==
  \/ \E r \in Requests :
       \/ Handle(r)
       \/ CommitUnacknowledged(r)
       \/ DeadlockVictim(r)
       \/ DatabaseError(r)
  \/ DeleteEvent
  \/ Finished

Spec == Init /\ [][Next]_vars
-----------------------------------------------------------------------------
TypeOK ==
  /\ row \in ValidRows
  /\ version \in Nat \ {0}
  /\ exists \in BOOLEAN
  /\ entries \subseteq Entry
  /\ nextEntry \in Nat
  /\ lock \in Requests \cup {NoRequest}
  /\ sharers \subseteq Requests
  /\ patch \in [Requests -> Patches]
  /\ note \in [Requests -> BOOLEAN]
  /\ pc \in [Requests -> Steps]
  /\ seen \in [Requests -> [row : ValidRows, version : Nat]]
  /\ inserted \in [Requests -> SUBSET Entry]
  /\ casTry \in [Requests -> 1 .. MaxCASAttempts]
  /\ deadlockTry \in [Requests -> 1 .. MaxDeadlockAttempts]
  /\ reply \in [Requests -> Replies]
  /\ committed \subseteq Requests
  /\ published \in [Requests -> Nat]
  /\ firstSeen \in [Requests -> Nat]

\* The generated entries of the record that name field f.
ChangesTo(f) == {e \in entries : e.kind = "change" /\ f \in DOMAIN patch[e.by]}

\* No lost update, as a reader of the record sees it: a column holds what its
\* latest change-log entry says, and the stored value if it has none.  A stale
\* writer that put back an old value, or an edit that was logged and not stored,
\* would break it.
ChangeLogExplainsRow ==
  exists => \A f \in Fields :
    /\ ChangesTo(f) = {} => row[f] = InitRow[f]
    /\ \A e \in ChangesTo(f) :
         (\A d \in ChangesTo(f) : d.id <= e.id) => row[f] = patch[e.by][f]

EntriesOf(r, k) == {e \in entries : e.by = r /\ e.kind = k}

\* A request is stored whole and once if it is acknowledged, however often its
\* attempts were rolled back, and not at all if it is refused.  (An "error" may
\* hide a commit whose acknowledgement was lost.)
StoredOnceOrNever ==
  \A r \in Requests :
    /\ Cardinality(EntriesOf(r, "change")) <= 1 /\ Cardinality(EntriesOf(r, "note")) <= 1
    /\ exists /\ reply[r] = "success" =>
         /\ EntriesOf(r, "change") # {} <=> ChangesFields(r)
         /\ EntriesOf(r, "note") # {} <=> note[r]
    /\ reply[r] \in {"conflict", "notfound", "badrequest"} =>
         EntriesOf(r, "change") \cup EntriesOf(r, "note") = {}

\* A 409 is never spurious: the request writes a field, and in each of its
\* MaxCASAttempts attempts some other field edit was committed between its read
\* and its update.  A request that only appends never gets one.
ConflictOnlyAfterLosing ==
  \A r \in Requests : reply[r] = "conflict" =>
    /\ ChangesFields(r)
    /\ version >= firstSeen[r] + MaxCASAttempts

\* An SSE event is published only for a transaction that committed, once per
\* request in spite of its retries, and before the client is told of success.
PublishedAfterCommit ==
  \A r \in Requests :
    /\ published[r] > 0 => r \in committed
    /\ published[r] <= 1
    /\ reply[r] = "success" => published[r] = 1

\* One statement of an attempt after another: no step of it is repeated.
Onward == {<<"read", "update">>, <<"read", "entries">>, <<"update", "recheck">>,
           <<"update", "entries">>, <<"entries", "commit">>, <<"commit", "notify">>}

\* r comes closer to its answer: a statement further, or an attempt further.
Closer(r) ==
  \/ pc'[r] = "done"
  \/ casTry'[r] > casTry[r]
  \/ casTry'[r] = casTry[r] /\ deadlockTry'[r] > deadlockTry[r]
  \/ /\ casTry'[r] = casTry[r]
     /\ deadlockTry'[r] = deadlockTry[r]
     /\ <<pc[r], pc'[r]>> \in Onward

\* Every request is answered.  The two retry loops, one in the other, run out:
\* whatever the others do, each step of a request brings it closer to its answer.
\* And no attempt that has ended leaves the record's row locked for the others:
\* whoever holds it is at a statement that waits for nobody.
EveryAttemptEnds ==
  [][\A r \in Requests :
       /\ <<pc[r], casTry[r], deadlockTry[r]>>' # <<pc[r], casTry[r], deadlockTry[r]>>
            => pc[r] # "done" /\ Closer(r)
       /\ lock' = r => pc'[r] \in {"recheck", "entries", "commit"}
       /\ r \in sharers' => pc'[r] = "commit"]_vars

\* The edits behave as if each took effect at one instant, on the record as it
\* then was: RecordEdit implements AtomicRecord.
Atomic == INSTANCE AtomicRecord WITH
  patch <- patch, row <- row, version <- version, exists <- exists, committed <- committed
ImplementsAtomicRecord == Atomic!Spec
=============================================================================
