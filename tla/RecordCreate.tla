---------------------------- MODULE RecordCreate ----------------------------
(***************************************************************************)
(* Creating an Incident, a Field Report or a Visit: newIncident,           *)
(* newFieldReport and newVisit, which share one algorithm.  The number is  *)
(* found by a plain SELECT, so that another creator may take it first; the *)
(* primary key (EVENT, NUMBER) turns that into a duplicate-key error, and  *)
(* the handler looks again, MaxNumberAllocAttempts times at most.  The     *)
(* row, once inserted, is committed; the request's content is written over *)
(* it afterwards, in transactions of its own (RecordEdit).                 *)
(*                                                                         *)
(* Filling the new record is one step here, as RecordEdit's theorem        *)
(* EditsAreAtomic allows; it may fail, and the record stays as it is.      *)
(***************************************************************************)
EXTENDS Integers, FiniteSets

CONSTANTS
  Requests,               \* the creation requests, all for one event
  FillFailures,           \* answers of a fill that fails: RecordEdit's replies
  MaxNumberAllocAttempts  \* maxNumberAllocAttempts

ASSUME AllocAssumption ==
  /\ MaxNumberAllocAttempts \in Nat \ {0}
  /\ FillFailures \subseteq {"badrequest", "conflict", "notfound", "error"}

VARIABLES
  eventExists,  \* FALSE once deleteEvent removed the event
  records,      \* the stored records of the event: [number, by]
  filled,       \* the requests whose content is stored
  pc,           \* the next statement of r's handler
  number,       \* the number r's SELECT returned
  attempt,      \* which attempt of the allocation loop r is in
  reply,        \* the answer r was given
  \* history, read by the properties only
  lost,         \* lost[r]: the numbers r tried in vain
  published     \* the requests that published the record's SSE event

vars == <<eventExists, records, filled, pc, number, attempt, reply, lost, published>>

Record == [number : Nat \ {0}, by : Requests]
Replies == {"none", "created", "badrequest", "conflict", "notfound", "error"}
Steps == {"next", "insert", "fill", "done"}
Taken == {x.number : x \in records}
-----------------------------------------------------------------------------
Init ==
  /\ eventExists = TRUE
  /\ records = {}
  /\ filled = {}
  /\ pc = [r \in Requests |-> "next"]
  /\ number = [r \in Requests |-> 0]
  /\ attempt = [r \in Requests |-> 1]
  /\ reply = [r \in Requests |-> "none"]
  /\ lost = [r \in Requests |-> {}]
  /\ published = {}

Answer(r, a) ==
  /\ pc' = [pc EXCEPT ![r] = "done"]
  /\ reply' = [reply EXCEPT ![r] = a]

\* Mutant of NextNumber: numbers are reserved when they are handed out, as
\* AUTO_INCREMENT does.
ReserveNumber(r) ==
  /\ pc[r] = "next"
  /\ \E m \in {0} \cup Taken \cup {number[q] : q \in Requests} :
       /\ \A n \in Taken \cup {number[q] : q \in Requests} : n <= m
       /\ number' = [number EXCEPT ![r] = m + 1]
  /\ pc' = [pc EXCEPT ![r] = "insert"]
  /\ UNCHANGED <<eventExists, records, filled, attempt, reply, lost, published>>

\* select coalesce(max(NUMBER), 0) + 1: NextIncidentNumber and its siblings.
NextNumber(r) ==
  /\ pc[r] = "next"
  /\ \E m \in {0} \cup Taken :
       /\ \A n \in Taken : n <= m
       /\ number' = [number EXCEPT ![r] = m + 1]
  /\ pc' = [pc EXCEPT ![r] = "insert"]
  /\ UNCHANGED <<eventExists, records, filled, attempt, reply, lost, published>>

\* Mutant of Insert: REPLACE INTO.
InsertReplacing(r) ==
  /\ pc[r] = "insert"
  /\ eventExists
  /\ records' = {x \in records : x.number # number[r]}
                  \cup {[number |-> number[r], by |-> r]}
  /\ pc' = [pc EXCEPT ![r] = "fill"]
  /\ UNCHANGED <<eventExists, filled, number, attempt, reply, lost, published>>

\* CreateIncident, CreateFieldReport, CreateVisit: committed by itself.  Its
\* acknowledgement may be lost with the connection.
Insert(r) ==
  /\ pc[r] = "insert"
  /\ eventExists
  /\ number[r] \notin Taken
  /\ records' = records \cup {[number |-> number[r], by |-> r]}
  /\ \/ pc' = [pc EXCEPT ![r] = "fill"] /\ UNCHANGED reply
     \/ Answer(r, "error")
  /\ UNCHANGED <<eventExists, filled, number, attempt, lost, published>>

\* Mutant of InsertDuplicate: the number is read before the loop, once.
RetrySameNumber(r) ==
  /\ pc[r] = "insert"
  /\ eventExists
  /\ number[r] \in Taken
  /\ lost' = [lost EXCEPT ![r] = @ \cup {number[r]}]
  /\ IF attempt[r] < MaxNumberAllocAttempts
     THEN attempt' = [attempt EXCEPT ![r] = @ + 1] /\ UNCHANGED <<pc, reply>>
     ELSE Answer(r, "conflict") /\ UNCHANGED attempt
  /\ UNCHANGED <<eventExists, records, filled, number, published>>

\* Mutant of InsertDuplicate: INSERT IGNORE.
DuplicateIgnored(r) ==
  /\ pc[r] = "insert"
  /\ eventExists
  /\ number[r] \in Taken
  /\ pc' = [pc EXCEPT ![r] = "fill"]
  /\ UNCHANGED <<eventExists, records, filled, number, attempt, reply, lost, published>>

\* The number is taken: look for another, or give up.
InsertDuplicate(r) ==
  /\ pc[r] = "insert"
  /\ eventExists
  /\ number[r] \in Taken
  /\ lost' = [lost EXCEPT ![r] = @ \cup {number[r]}]
  /\ \/ /\ attempt[r] < MaxNumberAllocAttempts
        /\ attempt' = [attempt EXCEPT ![r] = @ + 1]
        /\ pc' = [pc EXCEPT ![r] = "next"]
        /\ UNCHANGED reply
     \/ /\ attempt[r] = MaxNumberAllocAttempts
        /\ Answer(r, "conflict")
        /\ UNCHANGED attempt
  /\ UNCHANGED <<eventExists, records, filled, number, published>>

\* updateIncident, updateVisit, or the transaction that adds the entries of a new
\* Field Report, with its SSE event.
Fill(r) ==
  /\ pc[r] = "fill"
  /\ eventExists
  /\ filled' = filled \cup {r}
  /\ published' = published \cup {r}
  /\ Answer(r, "created")
  /\ UNCHANGED <<eventExists, records, number, attempt, lost>>

\* It fails, because the body asks for what a new record may not have or because
\* of the database: the empty record stays, and no event tells of it.
FillFails(r) ==
  /\ pc[r] = "fill"
  /\ \E a \in FillFailures : Answer(r, a)
  /\ UNCHANGED <<eventExists, records, filled, number, attempt, lost, published>>

\* Any other database error, the broken foreign key of an event that was deleted
\* meanwhile included, or the end of the server process.
DatabaseError(r) ==
  /\ pc[r] \in {"next", "insert", "fill"}
  /\ Answer(r, "error")
  /\ UNCHANGED <<eventExists, records, filled, number, attempt, lost, published>>

\* deleteEvent takes the event's records with it.
DeleteEvent ==
  /\ eventExists
  /\ eventExists' = FALSE
  /\ records' = {}
  /\ filled' = {}
  /\ UNCHANGED <<pc, number, attempt, reply, lost, published>>

\* Every request is answered; what is left is to stutter.
Finished ==
  /\ \A r \in Requests : pc[r] = "done"
  /\ UNCHANGED vars

Handle(r) ==
  \/ NextNumber(r) \/ Insert(r) \/ InsertDuplicate(r)
  \/ Fill(r) \/ FillFails(r) \/ DatabaseError(r)

Next ==
  \/ \E r \in Requests : Handle(r)
  \/ DeleteEvent
  \/ Finished

Spec == Init /\ [][Next]_vars
-----------------------------------------------------------------------------
TypeOK ==
  /\ eventExists \in BOOLEAN
  /\ records \subseteq Record
  /\ filled \subseteq Requests
  /\ pc \in [Requests -> Steps]
  /\ number \in [Requests -> Nat]
  /\ attempt \in [Requests -> 1 .. MaxNumberAllocAttempts]
  /\ reply \in [Requests -> Replies]
  /\ lost \in [Requests -> SUBSET Nat]
  /\ published \subseteq Requests

\* The numbers of an event run from 1 without a gap, one record each, however
\* many creators race, lose and fail.
NumbersConsecutive ==
  /\ \A x, y \in records : x.number = y.number => x = y
  /\ \A n \in Taken : n = 1 \/ n - 1 \in Taken

\* A creator stores one record at most, under the number it reports; what it is
\* told was created is there, filled.
CreatedOnce ==
  /\ \A x, y \in records : x.by = y.by => x = y
  /\ \A r \in Requests : reply[r] = "created" /\ eventExists =>
       [number |-> number[r], by |-> r] \in records /\ r \in filled

\* A number once given to a record is never given to another, unless the event is
\* gone.
NumbersStay == [][eventExists' => records \subseteq records']_vars

\* A creator is turned away for the concurrency of the others only: it lost
\* MaxNumberAllocAttempts different numbers, each to another request.
ConflictOnlyAfterLosing ==
  \A r \in Requests :
    reply[r] = "conflict" /\ eventExists /\ ~(\E x \in records : x.by = r) =>
      /\ Cardinality(lost[r]) = MaxNumberAllocAttempts
      /\ \A n \in lost[r] : \E x \in records : x.number = n /\ x.by # r
=============================================================================
