---------------------------- MODULE AtomicRecord ----------------------------
(***************************************************************************)
(* What an edit of an Incident, a Field Report or a Visit promises its     *)
(* client: the fields the request names are written over the record as it  *)
(* is at one instant, all together and at most once, and every other field *)
(* keeps the value its last writer gave it.  The record's VERSION moves    *)
(* exactly when a field is written.                                        *)
(*                                                                         *)
(* RecordEdit is the read-merge-write with retries that implements this.   *)
(***************************************************************************)
EXTENDS Integers

CONSTANTS
  Requests,     \* edit requests
  Fields,       \* columns an edit may write
  InitRow,      \* the stored record, a function on Fields
  ValidRows,    \* the rows the handler accepts (see RecordEdit)
  Patches       \* what a request may ask for: functions on subsets of Fields

VARIABLES
  patch,        \* patch[r]: the fields request r writes and their values
  row,          \* the record's columns
  version,      \* the record's VERSION
  exists,       \* FALSE once the record's event was deleted
  committed     \* the requests that took effect

vars == <<patch, row, version, exists, committed>>

\* The stored row with the request's fields written over it.
Merge(p, r) == [f \in Fields |-> IF f \in DOMAIN p THEN p[f] ELSE r[f]]

Init ==
  /\ patch \in [Requests -> Patches]
  /\ row = InitRow
  /\ version = 1
  /\ exists = TRUE
  /\ committed = {}

\* A request takes effect on the record as it is now.  One that names no field
\* asks nothing of the row, and may do so after the record is gone.
Apply(r) ==
  /\ exists \/ DOMAIN patch[r] = {}
  /\ r \notin committed
  /\ Merge(patch[r], row) \in ValidRows
  /\ row' = Merge(patch[r], row)
  /\ version' = IF DOMAIN patch[r] = {} THEN version ELSE version + 1
  /\ committed' = committed \cup {r}
  /\ UNCHANGED <<patch, exists>>

\* The record disappears with its event.
Remove ==
  /\ exists
  /\ exists' = FALSE
  /\ UNCHANGED <<patch, row, version, committed>>

Next == Remove \/ \E r \in Requests : Apply(r)

Spec == Init /\ [][Next]_vars
=============================================================================
