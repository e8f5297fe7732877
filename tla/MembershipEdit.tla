--------------------------- MODULE MembershipEdit ---------------------------
(***************************************************************************)
(* One member at a time: setIncidentType and setIncidentLink.  A request   *)
(* adds or removes one row of a set-valued relation (an Incident Type), or *)
(* the two rows of a symmetric one (a link between two Incidents).  The    *)
(* handler looks at the first row outside of any transaction and answers   *)
(* at once if the membership is already as asked.  Otherwise one           *)
(* transaction, run again when it is a deadlock victim, inserts or deletes *)
(* the rows in the request's own order, logs one generated report entry    *)
(* per row, on the Incident that row belongs to, and commits.              *)
(*                                                                         *)
(* The rows lie in tables whose primary key is the whole row.  What InnoDB *)
(* does at its default isolation level is modelled: an inserted or deleted *)
(* row is held until the transaction ends; a delete that finds nothing     *)
(* holds the gap, together with other such deletes, against inserts; an    *)
(* insert of a present row is a duplicate-key error.  A gap is that of one *)
(* row: neighbours that share it only wait longer.                         *)
(***************************************************************************)
EXTENDS Integers, Sequences, FiniteSets

CONSTANTS
  Requests,             \* the requests; each is served by one goroutine
  Keys,                 \* the rows there can be
  Unknown,              \* rows that name a type or a peer that does not exist
  Bodies,               \* what a request may ask: [keys : Seq(Keys), attach : BOOLEAN]
  InitMember,           \* the sets of rows that may be stored at first
  MaxDeadlockAttempts   \* maxDeadlockAttempts

\* The rows of a body.
KeySet(b) == {b.keys[i] : i \in DOMAIN b.keys}

\* The rows of one member belong together: whichever end asks, it asks for all.
ASSUME BodiesAssumption ==
  /\ Unknown \subseteq Keys
  /\ InitMember \subseteq SUBSET (Keys \ Unknown)
  /\ \A b \in Bodies :
       /\ b.keys \in Seq(Keys)
       /\ Len(b.keys) >= 1
       /\ b.attach \in BOOLEAN
       /\ \A c \in Bodies : KeySet(b) = KeySet(c) \/ KeySet(b) \cap KeySet(c) = {}
       /\ \A m \in InitMember : KeySet(b) \subseteq m \/ KeySet(b) \cap m = {}
  /\ MaxDeadlockAttempts \in Nat \ {0}

VARIABLES
  member,       \* the rows stored, as committed
  entries,      \* the report entries committed
  nextEntry,    \* AUTO_INCREMENT of REPORT_ENTRY
  body,         \* body[r]: what r asks for, never changed
  pc,           \* the next statement of r's handler
  done,         \* how many of its rows r's transaction has written
  held,         \* the rows r's transaction inserted or deleted
  gaps,         \* the absent rows r's transaction tried to delete
  inserted,     \* the entries r's transaction has inserted
  deadlockTry,  \* which attempt of retryOnDeadlock r is in
  reply,        \* the answer r was given
  published     \* the requests that published their SSE events

transaction == <<done, held, gaps, inserted>>
vars == <<member, entries, nextEntry, body, pc, transaction, deadlockTry, reply, published>>

Replies == {"none", "success", "badrequest", "error"}
Steps == {"check", "write", "log", "commit", "notify", "done"}
Entry == [id : Nat, key : Keys, added : BOOLEAN]

KeysOf(r) == KeySet(body[r])
CurrentKey(r) == body[r].keys[done[r] + 1]
-----------------------------------------------------------------------------
Init ==
  /\ member \in InitMember
  /\ entries = {}
  /\ nextEntry = 1
  /\ body \in [Requests -> Bodies]
  /\ pc = [r \in Requests |-> "check"]
  /\ done = [r \in Requests |-> 0]
  /\ held = [r \in Requests |-> {}]
  /\ gaps = [r \in Requests |-> {}]
  /\ inserted = [r \in Requests |-> {}]
  /\ deadlockTry = [r \in Requests |-> 1]
  /\ reply = [r \in Requests |-> "none"]
  /\ published = {}

Answer(r, a) ==
  /\ pc' = [pc EXCEPT ![r] = "done"]
  /\ reply' = [reply EXCEPT ![r] = a]

\* The transaction of r is over, by commit or by rollback.
Release(r) ==
  /\ done' = [done EXCEPT ![r] = 0]
  /\ held' = [held EXCEPT ![r] = {}]
  /\ gaps' = [gaps EXCEPT ![r] = {}]
  /\ inserted' = [inserted EXCEPT ![r] = {}]

-----------------------------------------------------------------------------
\* The membership check, outside of any transaction.  It looks at the first row
\* only.  For a type the lookup of its name refuses an unknown one.
Check(r) ==
  /\ pc[r] = "check"
  /\ LET k == body[r].keys[1] IN
     \/ (k \in member) = body[r].attach /\ Answer(r, "success")
     \/ /\ (k \in member) # body[r].attach
        /\ Len(body[r].keys) = 1
        /\ k \in Unknown
        /\ Answer(r, "badrequest")
     \/ /\ (k \in member) # body[r].attach
        /\ k \in Unknown => Len(body[r].keys) > 1
        /\ pc' = [pc EXCEPT ![r] = "write"]
        /\ UNCHANGED reply
  /\ UNCHANGED <<member, entries, nextEntry, body, transaction, deadlockTry, published>>

\* The transactions that make r wait: a written row waits for its writer, and an
\* insert waits for those who hold the gap too.
Blockers(r) ==
  IF pc[r] # "write" THEN {}
  ELSE {q \in Requests \ {r} :
          \/ CurrentKey(r) \in held[q]
          \/ body[r].attach /\ CurrentKey(r) \in gaps[q]}

\* One row written; the next one, or the report entries, come next.
RowDone(r) ==
  /\ done' = [done EXCEPT ![r] = @ + 1]
  /\ pc' = [pc EXCEPT ![r] = IF done[r] + 1 = Len(body[r].keys) THEN "log" ELSE "write"]

\* The statement whose every error is taken for a broken foreign key.
FirstLinkInsert(r) == body[r].attach /\ Len(body[r].keys) > 1 /\ done[r] = 0

\* insert into ...: AttachIncidentTypeToIncident, LinkIncidents.
InsertRow(r) ==
  /\ pc[r] = "write"
  /\ body[r].attach
  /\ Blockers(r) = {}
  /\ CurrentKey(r) \notin member \cup Unknown
  /\ held' = [held EXCEPT ![r] = @ \cup {CurrentKey(r)}]
  /\ RowDone(r)
  /\ UNCHANGED <<member, entries, nextEntry, body, gaps, inserted, deadlockTry,
                 reply, published>>

\* Mutant of InsertDuplicate: the duplicate is ignored and the change logged.
InsertDuplicateLogged(r) ==
  /\ pc[r] = "write"
  /\ body[r].attach
  /\ Blockers(r) = {}
  /\ CurrentKey(r) \in member
  /\ RowDone(r)
  /\ UNCHANGED <<member, entries, nextEntry, body, held, gaps, inserted, deadlockTry,
                 reply, published>>

\* Mutant of InsertDuplicate: the early return leaves the transaction open.
InsertDuplicateUnreleased(r) ==
  /\ pc[r] = "write"
  /\ body[r].attach
  /\ Blockers(r) = {}
  /\ CurrentKey(r) \in member
  /\ held' = [held EXCEPT ![r] = @ \cup {CurrentKey(r)}]
  /\ pc' = [pc EXCEPT ![r] = "notify"]
  /\ UNCHANGED <<member, entries, nextEntry, body, done, gaps, inserted, deadlockTry,
                 reply, published>>

\* A duplicate first row means that another request got there: nothing to do,
\* the rest of the transaction is rolled back, and the handler goes on to
\* notify.  A duplicate second row is an error.
InsertDuplicate(r) ==
  /\ pc[r] = "write"
  /\ body[r].attach
  /\ Blockers(r) = {}
  /\ CurrentKey(r) \in member
  /\ IF done[r] = 0
     THEN pc' = [pc EXCEPT ![r] = "notify"] /\ UNCHANGED reply
     ELSE Answer(r, "error")
  /\ Release(r)
  /\ UNCHANGED <<member, entries, nextEntry, body, deadlockTry, published>>

\* The foreign key refuses a link to an Incident that does not exist.
InsertRefused(r) ==
  /\ pc[r] = "write"
  /\ body[r].attach
  /\ CurrentKey(r) \in Unknown
  /\ Answer(r, IF done[r] = 0 THEN "badrequest" ELSE "error")
  /\ Release(r)
  /\ UNCHANGED <<member, entries, nextEntry, body, deadlockTry, published>>

\* Mutant of DeleteRow: a transaction that locks no gaps, as at READ COMMITTED.
DeleteRowWithoutGap(r) ==
  /\ pc[r] = "write"
  /\ ~body[r].attach
  /\ Blockers(r) = {}
  /\ held' = [held EXCEPT ![r] = @ \cup ({CurrentKey(r)} \cap member)]
  /\ RowDone(r)
  /\ UNCHANGED <<member, entries, nextEntry, body, gaps, inserted, deadlockTry,
                 reply, published>>

\* delete from ... where <the key>: DetachIncidentTypeFromIncident,
\* UnlinkIncidents.  That no row matched is not noticed.
DeleteRow(r) ==
  /\ pc[r] = "write"
  /\ ~body[r].attach
  /\ Blockers(r) = {}
  /\ IF CurrentKey(r) \in member
     THEN held' = [held EXCEPT ![r] = @ \cup {CurrentKey(r)}] /\ UNCHANGED gaps
     ELSE gaps' = [gaps EXCEPT ![r] = @ \cup {CurrentKey(r)}] /\ UNCHANGED held
  /\ RowDone(r)
  /\ UNCHANGED <<member, entries, nextEntry, body, inserted, deadlockTry, reply, published>>

\* addIncidentReportEntry, once per row.
Log(r) ==
  /\ pc[r] = "log"
  /\ inserted' = [inserted EXCEPT ![r] =
       {[id |-> nextEntry + i - 1, key |-> body[r].keys[i], added |-> body[r].attach] :
          i \in DOMAIN body[r].keys}]
  /\ nextEntry' = nextEntry + Len(body[r].keys)
  /\ pc' = [pc EXCEPT ![r] = "commit"]
  /\ UNCHANGED <<member, entries, body, done, held, gaps, deadlockTry, reply, published>>

Commit(r) ==
  /\ pc[r] = "commit"
  /\ member' = IF body[r].attach THEN member \cup held[r] ELSE member \ held[r]
  /\ entries' = entries \cup inserted[r]
  /\ Release(r)
  /\ pc' = [pc EXCEPT ![r] = "notify"]
  /\ UNCHANGED <<nextEntry, body, deadlockTry, reply, published>>

\* es.notifyIncidentUpdate for the Incident of each row, then the answer.
Notify(r) ==
  /\ pc[r] = "notify"
  /\ published' = published \cup {r}
  /\ Answer(r, "success")
  /\ UNCHANGED <<member, entries, nextEntry, body, transaction, deadlockTry>>

\* A cycle of waiting transactions: each waits for another of the set, and no
\* smaller set has that.
Cycle(S) ==
  LET Stuck(T) == T # {} /\ \A q \in T : Blockers(q) \cap T # {} IN
  Stuck(S) /\ \A T \in SUBSET S : Stuck(T) => T = S

\* Mutant of DeadlockVictim: the error of the last attempt is dropped.
DeadlockSwallowed(r) ==
  /\ \E S \in SUBSET Requests : r \in S /\ Cycle(S)
  /\ Release(r)
  /\ Answer(r, "success")
  /\ UNCHANGED <<member, entries, nextEntry, body, deadlockTry, published>>

\* InnoDB rolls one transaction of a cycle back.  retryOnDeadlock runs the
\* transaction again, without a second look at the membership, or gives up; any
\* error of a link's first insert is reported as the client's mistake.
DeadlockVictim(r) ==
  /\ \E S \in SUBSET Requests : r \in S /\ Cycle(S)
  /\ Release(r)
  /\ \/ /\ deadlockTry[r] < MaxDeadlockAttempts
        /\ deadlockTry' = [deadlockTry EXCEPT ![r] = @ + 1]
        /\ UNCHANGED <<pc, reply>>
     \/ /\ deadlockTry[r] = MaxDeadlockAttempts
        /\ Answer(r, IF FirstLinkInsert(r) THEN "badrequest" ELSE "error")
        /\ UNCHANGED deadlockTry
  /\ UNCHANGED <<member, entries, nextEntry, body, published>>

\* Any other database error, or the end of the server process.
DatabaseError(r) ==
  /\ pc[r] \in {"check", "write", "log", "commit"}
  /\ Release(r)
  /\ Answer(r, IF pc[r] = "write" /\ FirstLinkInsert(r) THEN "badrequest" ELSE "error")
  /\ UNCHANGED <<member, entries, nextEntry, body, deadlockTry, published>>

\* Every request is answered; what is left is to stutter.
Finished ==
  /\ \A r \in Requests : pc[r] = "done"
  /\ UNCHANGED vars

\* The statements of the handler itself.
Handle(r) ==
  \/ Check(r)
  \/ InsertRow(r) \/ InsertDuplicate(r) \/ InsertRefused(r) \/ DeleteRow(r)
  \/ Log(r) \/ Commit(r) \/ Notify(r)

Next ==
  \/ \E r \in Requests : Handle(r) \/ DeadlockVictim(r) \/ DatabaseError(r)
  \/ Finished

Spec == Init /\ [][Next]_vars

\* Every goroutine goes on, and the database resolves every deadlock.
FairSpec ==
  /\ Spec
  /\ \A r \in Requests : WF_vars(Handle(r))
  /\ WF_vars(\E r \in Requests : DeadlockVictim(r))
-----------------------------------------------------------------------------
TypeOK ==
  /\ member \subseteq Keys \ Unknown
  /\ entries \subseteq Entry
  /\ nextEntry \in Nat \ {0}
  /\ body \in [Requests -> Bodies]
  /\ pc \in [Requests -> Steps]
  /\ \A r \in Requests : done[r] \in 0 .. Len(body[r].keys)
  /\ \A r \in Requests : pc[r] = "write" => done[r] < Len(body[r].keys)
  /\ held \in [Requests -> SUBSET Keys]
  /\ gaps \in [Requests -> SUBSET Keys]
  /\ inserted \in [Requests -> SUBSET Entry]
  /\ deadlockTry \in [Requests -> 1 .. MaxDeadlockAttempts]
  /\ reply \in [Requests -> Replies]
  /\ published \subseteq Requests

\* The two rows of a link are stored together or not at all, whichever ends the
\* concurrent requests arrive on and wherever they fail.
RowsStoredTogether ==
  \A r \in Requests : KeysOf(r) \subseteq member \/ KeysOf(r) \cap member = {}

\* The change log of an Incident agrees with its relations: the latest entry
\* about a row says whether the row is stored.
EntriesAbout(k) == {e \in entries : e.key = k}
ChangeLogExplainsMembership ==
  \A k \in Keys : \A e \in EntriesAbout(k) :
    (\A d \in EntriesAbout(k) : d.id <= e.id) => (e.added <=> k \in member)

\* Requests for different members, or for the same membership, all win: a
\* request answered with success finds its membership as asked unless another
\* request asked for the opposite.
CommutingRequestsAllWin ==
  \A r \in Requests :
    /\ reply[r] = "success"
    /\ \A q \in Requests : KeysOf(q) \cap KeysOf(r) # {} => body[q].attach = body[r].attach
    => IF body[r].attach THEN KeysOf(r) \subseteq member ELSE KeysOf(r) \cap member = {}

\* No cycle of waiting requests lasts, and no request is left without an answer.
EveryRequestAnswered == \A r \in Requests : <>(pc[r] = "done")
=============================================================================
