-------------------------- MODULE EventAdminProofs --------------------------
(***************************************************************************)
(* Proofs about EventAdmin and EventReads, for any number of requests,     *)
(* Events, rules, entries, readers and importers.                          *)
(***************************************************************************)
EXTENDS EventReads, FiniteSetTheorems, WellFoundedInduction, TLAPS

Shaped(row) == row = [group |-> row.group, parent |-> row.parent, placed |-> row.placed]

\* As much of the types as the steps rely on.
RangesInv ==
  /\ nextEvent \in Nat /\ nextEntry \in Nat
  /\ \A e \in DOMAIN events : e \in Ids /\ e < nextEvent /\ Shaped(events[e])
  /\ \A r \in Requests : Shaped(merged[r])
  /\ DOMAIN access = Ids
  /\ \A x \in joins : x.id \in Nat /\ x.id < nextEntry
  /\ body \in [Requests -> Bodies]
  /\ pc \in [Requests -> Steps]
  /\ DOMAIN target = Requests /\ DOMAIN merged = Requests /\ DOMAIN snapshot = Requests

\* A handler at a statement that names an Event has one, and editEvents is run for
\* nothing but edits.
TargetInv ==
  \A r \in Requests :
    /\ pc[r] \in {"create", "fetch", "parent", "update"} => body[r].kind = "edit"
    /\ pc[r] \in {"fetch", "parent", "update", "find", "list", "delete", "append"}
         => target[r] \in Ids

\* The row about to be written was checked as a whole, though the Event it was
\* read from may have changed: writing it keeps the groups roots.
MergedInv ==
  \A r \in Requests :
    /\ pc[r] \in {"parent", "update"} => merged[r].parent # target[r]
    /\ pc[r] = "parent" => /\ Merge(body[r], merged[r]).group = merged[r].group
                           /\ Merge(body[r], merged[r]).parent = merged[r].parent
    /\ pc[r] = "update" /\ merged[r].group => merged[r].parent = NoEvent

\* An entry belongs to one record, and what a deletion has listed stays its own:
\* entries appended since have higher numbers.
SnapshotInv ==
  /\ \A x, y \in joins : x.id = y.id => x.event = y.event
  /\ \A r \in Requests : pc[r] = "delete" =>
       /\ \A n \in snapshot[r] : n \in Nat /\ n < nextEntry
       /\ \A x \in joins : x.id \in snapshot[r] => x.event = target[r]

GroupsInv == RangesInv /\ TargetInv /\ MergedInv /\ GroupsAreRoots
RowsInv == RangesInv /\ TargetInv /\ SnapshotInv /\ NothingDangles

\* Each step of the module, named: the case split of the proofs below.
LEMMA StepCases ==
  ASSUME [Next]_vars
  PROVE  \/ \E r \in Requests :
              \/ CreateEvent(r) \/ CreateFails(r) \/ FetchEvent(r) \/ FetchParent(r)
              \/ UpdateEvent(r) \/ FindAccessEvent(r) \/ SetAccess(r) \/ AccessDone(r)
              \/ FindEvent(r) \/ ListEntries(r) \/ DeleteRows(r) \/ AppendEntry(r)
              \/ DatabaseError(r)
         \/ UNCHANGED vars
BY DEF Next, Request, Finished

\* What a request asks names an Event that there can be.
LEMMA BodyIds ==
  ASSUME NEW b \in Bodies
  PROVE  /\ b.kind \in {"edit", "access", "delete", "append"}
         /\ b.kind = "edit" => b.id \in {NoEvent} \cup Ids
         /\ b.kind \in {"delete", "append"} => b.id \in Ids
BY BodiesAssumption DEF Body

\* A parent that is asked for is one value.
LEMMA BodyParent ==
  ASSUME NEW b \in Bodies, NEW row, b.parent \notin {{}, {NoEvent}}, b.kind = "edit"
  PROVE  b.parent = {Merge(b, row).parent}
BY BodiesAssumption DEF Body, Maybe, Merge, Over

\* A value that was given is given still when it is merged a second time.
LEMMA MergeIdempotent ==
  ASSUME NEW b, NEW row
  PROVE  /\ Merge(b, Merge(b, row)).group = Merge(b, row).group
         /\ Merge(b, Merge(b, row)).parent = Merge(b, row).parent
BY DEF Merge, Over

\* What Allowed lets pass is a group without a parent or no group at all.
LEMMA AllowedRow ==
  ASSUME NEW b, NEW row, Allowed(b, row)
  PROVE  Merge(b, row).group => Merge(b, row).parent = NoEvent
BY DEF Allowed
-----------------------------------------------------------------------------
\* Ranges and targets

LEMMA InitRanges == Init => RangesInv /\ TargetInv
<1> SUFFICES ASSUME Init PROVE RangesInv /\ TargetInv
    OBVIOUS
<1>1. Cardinality(InitEntries) \in Nat
  BY InitAssumption, FS_CardinalityType
<1>2. /\ Len(InitEvents) \in Nat /\ DOMAIN InitEvents = 1 .. Len(InitEvents)
      /\ 1 .. Len(InitEvents) \subseteq Ids
  BY InitAssumption, MaxEventsAssumption DEF Ids
<1>3. ASSUME NEW r \in Requests
      PROVE  /\ FirstStep(body[r]) \in Steps
             /\ FirstStep(body[r]) \in {"fetch", "parent", "update", "find", "list", "delete", "append"}
                  => body[r].kind # "access" /\ body[r].id \in Ids
             /\ FirstStep(body[r]) \in {"create", "fetch", "parent", "update"}
                  => body[r].kind = "edit"
  <2>1. body[r] \in Bodies
    BY DEF Init
  <2> QED
    BY <2>1, BodyIds DEF FirstStep, Steps, NoEvent
<1>4. RangesInv
  <2>1. \A e \in DOMAIN InitEvents : Shaped(InitEvents[e])
    <3>1. \A e \in DOMAIN InitEvents : InitEvents[e] \in EventRow
      BY <1>2, InitAssumption
    <3> QED
      BY <3>1 DEF EventRow, Shaped
  <2>2. Shaped(Blank)
    BY DEF Shaped, Blank
  <2>3. \A x \in InitEntries : x.id \in Nat /\ x.id < Cardinality(InitEntries) + 1
    BY <1>1, InitAssumption
  <2>4. body \in [Requests -> Bodies] /\ pc \in [Requests -> Steps]
    BY <1>3 DEF Init
  <2>5. DOMAIN InitAccess = Ids
    BY InitAssumption
  <2> QED
    BY <1>1, <1>2, <2>1, <2>2, <2>3, <2>4, <2>5 DEF Init, RangesInv
<1>5. TargetInv
  BY <1>3 DEF Init, TargetInv
<1> QED
  BY <1>4, <1>5

LEMMA NextRanges == RangesInv /\ TargetInv /\ [Next]_vars => RangesInv' /\ TargetInv'
<1> SUFFICES ASSUME RangesInv, TargetInv, [Next]_vars
             PROVE  RangesInv' /\ TargetInv'
    OBVIOUS
<1> USE DEF RangesInv, TargetInv, Steps, Answer, Goto
<1>1. ASSUME NEW r \in Requests, CreateEvent(r)
      PROVE  RangesInv' /\ TargetInv'
  <2>1. DOMAIN events' = DOMAIN events \cup {nextEvent} /\ nextEvent \in Ids
    BY <1>1 DEF CreateEvent
  <2>2. nextEvent' = nextEvent + 1 /\ target' = [target EXCEPT ![r] = nextEvent]
          /\ pc[r] = "create" /\ pc' = [pc EXCEPT ![r] = "fetch"]
    BY <1>1 DEF CreateEvent
  <2>3. \A e \in DOMAIN events' : e \in Ids /\ e < nextEvent' /\ Shaped(events'[e])
    <3>1. Shaped(Blank)
      BY DEF Shaped, Blank
    <3>2. \A e \in DOMAIN events' : Shaped(events'[e])
      BY <1>1, <3>1 DEF CreateEvent
    <3> QED
      BY <2>1, <2>2, <3>2 DEF Ids
  <2>4. UNCHANGED <<access, joins, nextEntry, body, merged, snapshot>>
    BY <1>1 DEF CreateEvent
  <2> QED
    BY <2>1, <2>2, <2>3, <2>4
<1>2. ASSUME NEW r \in Requests, CreateFails(r) \/ AccessDone(r) \/ DatabaseError(r)
      PROVE  RangesInv' /\ TargetInv'
  BY <1>2 DEF CreateFails, AccessDone, DatabaseError, tables, local
<1>3. ASSUME NEW r \in Requests, FetchEvent(r)
      PROVE  RangesInv' /\ TargetInv'
  <2>1. /\ \/ pc' = [pc EXCEPT ![r] = "done"]
           \/ pc' = [pc EXCEPT ![r] = "parent"]
           \/ pc' = [pc EXCEPT ![r] = "update"]
        /\ \/ merged' = merged
           \/ merged' = [merged EXCEPT ![r] = Merge(body[r], events[target[r]])]
        /\ pc[r] = "fetch"
        /\ UNCHANGED <<tables, body, target, snapshot>>
    BY <1>3 DEF FetchEvent
  <2>2. Shaped(Merge(body[r], events[target[r]]))
    BY DEF Shaped, Merge
  <2> QED
    BY <2>1, <2>2 DEF tables
<1>4. ASSUME NEW r \in Requests, FetchParent(r)
      PROVE  RangesInv' /\ TargetInv'
  BY <1>4 DEF FetchParent, tables, local
<1>5. ASSUME NEW r \in Requests, UpdateEvent(r)
      PROVE  RangesInv' /\ TargetInv'
  <2>1. \A e \in DOMAIN events' : e \in DOMAIN events /\ Shaped(events'[e])
    BY <1>5 DEF UpdateEvent
  <2> QED
    BY <1>5, <2>1 DEF UpdateEvent, local
<1>6. ASSUME NEW r \in Requests, FindAccessEvent(r) \/ SetAccess(r)
      PROVE  RangesInv' /\ TargetInv'
  BY <1>6 DEF FindAccessEvent, SetAccess, Advance, tables
<1>7. ASSUME NEW r \in Requests, FindEvent(r) \/ ListEntries(r)
      PROVE  RangesInv' /\ TargetInv'
  BY <1>7 DEF FindEvent, ListEntries, tables, local
<1>8. ASSUME NEW r \in Requests, DeleteRows(r)
      PROVE  RangesInv' /\ TargetInv'
  <2>1. \A e \in DOMAIN events' : e \in DOMAIN events /\ Shaped(events'[e])
    BY <1>8 DEF DeleteRows, Detached, Shaped
  <2> QED
    BY <1>8, <2>1 DEF DeleteRows, local
<1>9. ASSUME NEW r \in Requests, AppendEntry(r)
      PROVE  RangesInv' /\ TargetInv'
  BY <1>9 DEF AppendEntry, local
<1>10. CASE UNCHANGED vars
  BY <1>10 DEF vars, tables, local
<1> QED
  BY <1>1, <1>2, <1>3, <1>4, <1>5, <1>6, <1>7, <1>8, <1>9, <1>10, StepCases
-----------------------------------------------------------------------------
\* Groups

LEMMA InitGroups == Init => GroupsInv
<1> SUFFICES ASSUME Init PROVE GroupsInv
    OBVIOUS
<1>1. GroupsAreRoots
  BY InitAssumption DEF Init, GroupsAreRoots
<1>2. MergedInv
  <2> SUFFICES ASSUME NEW r \in Requests
               PROVE  pc[r] \notin {"parent", "update"}
      BY DEF MergedInv
  <2> QED
    BY DEF Init, FirstStep
<1> QED
  BY <1>1, <1>2, InitRanges DEF GroupsInv

\* What UpdateEvent is going to write, once FetchEvent or FetchParent let it.
LEMMA NextMerged == GroupsInv /\ [Next]_vars => MergedInv'
<1> SUFFICES ASSUME GroupsInv, [Next]_vars
             PROVE  MergedInv'
    OBVIOUS
<1> USE DEF GroupsInv, RangesInv, MergedInv
<1>1. ASSUME NEW r \in Requests, FetchEvent(r)
      PROVE  MergedInv'
  <2> DEFINE e == target[r]
             row == Merge(body[r], events[e])
  <2>1. body' = body /\ target' = target /\ pc[r] = "fetch" /\ e \in Ids
    BY <1>1 DEF FetchEvent, TargetInv
  <2>2. CASE pc' = [pc EXCEPT ![r] = "done"]
    <3>1. \A q \in Requests \ {r} : merged'[q] = merged[q]
      BY <1>1 DEF FetchEvent
    <3> QED
      BY <2>1, <2>2, <3>1
  <2>3. CASE pc' # [pc EXCEPT ![r] = "done"]
    <3>1. /\ e \in DOMAIN events
          /\ merged' = [merged EXCEPT ![r] = row]
          /\ body[r].parent # {e}
      BY <1>1, <2>3 DEF FetchEvent, Answer
    <3>2. row.parent # e
      <4>1. body[r] \in Bodies
        OBVIOUS
      <4>2. CASE body[r].parent = {}
        BY <4>2, <3>1 DEF Merge, Over, GroupsAreRoots
      <4>3. CASE body[r].parent = {NoEvent}
        BY <4>3, <2>1 DEF Merge, Over, NoEvent, Ids
      <4>4. CASE body[r].parent \notin {{}, {NoEvent}}
        BY <4>4, <3>1, <2>1, BodyParent DEF TargetInv
      <4> QED
        BY <4>2, <4>3, <4>4
    <3>3. \/ pc' = [pc EXCEPT ![r] = "parent"]
          \/ pc' = [pc EXCEPT ![r] = "update"] /\ Allowed(body[r], events[e])
      BY <1>1, <2>3, <3>1 DEF FetchEvent, Answer, Goto
    <3> QED
      BY <2>1, <3>1, <3>2, <3>3, MergeIdempotent, AllowedRow
  <2> QED
    BY <2>2, <2>3
<1>2. ASSUME NEW r \in Requests, FetchParent(r)
      PROVE  MergedInv'
  <2>1. /\ pc[r] = "parent"
        /\ body' = body /\ target' = target /\ merged' = merged
        /\ \/ pc' = [pc EXCEPT ![r] = "done"]
           \/ pc' = [pc EXCEPT ![r] = "update"] /\ Allowed(body[r], merged[r])
    BY <1>2 DEF FetchParent, local, Answer, Goto
  <2> QED
    BY <2>1, AllowedRow
<1>3. ASSUME NEW r \in Requests, CreateEvent(r)
      PROVE  MergedInv'
  BY <1>3 DEF CreateEvent, Goto
<1>4. ASSUME NEW r \in Requests, CreateFails(r) \/ AccessDone(r) \/ DatabaseError(r)
      PROVE  MergedInv'
  BY <1>4 DEF CreateFails, AccessDone, DatabaseError, local, Answer
<1>5. ASSUME NEW r \in Requests, UpdateEvent(r) \/ DeleteRows(r) \/ AppendEntry(r)
      PROVE  MergedInv'
  BY <1>5 DEF UpdateEvent, DeleteRows, AppendEntry, local, Answer
<1>6. ASSUME NEW r \in Requests, FindAccessEvent(r) \/ SetAccess(r)
      PROVE  MergedInv'
  <2>1. /\ pc[r] = "access" /\ merged' = merged /\ body' = body
        /\ pc' = pc \/ pc' = [pc EXCEPT ![r] = "done"]
        /\ \A q \in Requests \ {r} : target'[q] = target[q]
    BY <1>6 DEF FindAccessEvent, SetAccess, Advance, Answer
  <2> QED
    BY <2>1
<1>7. ASSUME NEW r \in Requests, FindEvent(r) \/ ListEntries(r)
      PROVE  MergedInv'
  BY <1>7 DEF FindEvent, ListEntries, local, Answer, Goto
<1>8. CASE UNCHANGED vars
  BY <1>8 DEF vars, local
<1> QED
  BY <1>1, <1>2, <1>3, <1>4, <1>5, <1>6, <1>7, <1>8, StepCases

LEMMA NextGroupsAreRoots == GroupsInv /\ [Next]_vars => GroupsAreRoots'
<1> SUFFICES ASSUME GroupsInv, [Next]_vars
             PROVE  GroupsAreRoots'
    OBVIOUS
<1> USE DEF GroupsInv, RangesInv, GroupsAreRoots
<1>1. ASSUME NEW r \in Requests, CreateEvent(r)
      PROVE  GroupsAreRoots'
  BY <1>1 DEF CreateEvent, Blank, NoEvent, Ids
<1>2. ASSUME NEW r \in Requests, UpdateEvent(r)
      PROVE  GroupsAreRoots'
  BY <1>2 DEF UpdateEvent, MergedInv
<1>3. ASSUME NEW r \in Requests, DeleteRows(r)
      PROVE  GroupsAreRoots'
  <2> SUFFICES ASSUME NEW x \in DOMAIN events'
               PROVE  /\ events'[x].parent # x
                      /\ events'[x].group => events'[x].parent = NoEvent
      OBVIOUS
  <2>1. x \in DOMAIN events /\ events'[x] = Detached(target[r])[x]
    BY <1>3 DEF DeleteRows
  <2>2. \/ events'[x] = [events[x] EXCEPT !.parent = NoEvent]
        \/ events'[x] = events[x]
    BY <2>1 DEF Detached
  <2> QED
    BY <2>1, <2>2 DEF Shaped, NoEvent, Ids
<1>4. CASE events' = events
  BY <1>4
<1>5. ASSUME NEW r \in Requests,
             \/ CreateFails(r) \/ FetchEvent(r) \/ FetchParent(r) \/ FindAccessEvent(r)
             \/ SetAccess(r) \/ AccessDone(r) \/ FindEvent(r) \/ ListEntries(r)
             \/ AppendEntry(r) \/ DatabaseError(r)
      PROVE  events' = events
  BY <1>5 DEF CreateFails, FetchEvent, FetchParent, FindAccessEvent, SetAccess, AccessDone,
              FindEvent, ListEntries, AppendEntry, DatabaseError, tables
<1>6. UNCHANGED vars => events' = events
  BY DEF vars, tables
<1> QED
  BY <1>1, <1>2, <1>3, <1>4, <1>5, <1>6, StepCases

\* However many edits of Events interleave, each with a row it read some time ago, no
\* event group has a parent and no Event is its own.
THEOREM GroupsStayRoots == Spec => []GroupsAreRoots
<1>1. Init => GroupsInv
  BY InitGroups
<1>2. GroupsInv /\ [Next]_vars => GroupsInv'
  BY NextRanges, NextMerged, NextGroupsAreRoots DEF GroupsInv
<1>3. GroupsInv => GroupsAreRoots
  BY DEF GroupsInv
<1> QED
  BY <1>1, <1>2, <1>3, PTL DEF Spec
-----------------------------------------------------------------------------
\* Deletions

LEMMA InitRows == Init => RowsInv
<1> SUFFICES ASSUME Init PROVE RowsInv
    OBVIOUS
<1>1. DOMAIN InitEvents \subseteq Ids
  <2>1. DOMAIN InitEvents = 1 .. Len(InitEvents) /\ Len(InitEvents) \in Nat
    BY InitAssumption
  <2> QED
    BY <2>1, InitAssumption, MaxEventsAssumption DEF Ids
<1>2. NothingDangles
  BY InitAssumption DEF Init, NothingDangles
<1>3. SnapshotInv
  <2>1. \A r \in Requests : pc[r] # "delete"
    BY DEF Init, FirstStep
  <2> QED
    BY <2>1, InitAssumption DEF Init, SnapshotInv
<1> QED
  BY <1>2, <1>3, InitRanges DEF RowsInv

LEMMA NextSnapshot == RowsInv /\ [Next]_vars => SnapshotInv'
<1> SUFFICES ASSUME RowsInv, [Next]_vars
             PROVE  SnapshotInv'
    OBVIOUS
<1> USE DEF RowsInv, RangesInv, SnapshotInv
<1>1. ASSUME NEW r \in Requests, ListEntries(r)
      PROVE  SnapshotInv'
  <2>1. /\ joins' = joins /\ nextEntry' = nextEntry /\ target' = target
        /\ pc' = [pc EXCEPT ![r] = "delete"]
        /\ snapshot' = [snapshot EXCEPT ![r] = EntriesOf(target[r])]
    BY <1>1 DEF ListEntries, tables, Goto
  <2>2. /\ \A n \in EntriesOf(target[r]) : n \in Nat /\ n < nextEntry
        /\ \A x \in joins : x.id \in EntriesOf(target[r]) => x.event = target[r]
    BY DEF EntriesOf
  <2> QED
    BY <2>1, <2>2
<1>2. ASSUME NEW r \in Requests, AppendEntry(r)
      PROVE  SnapshotInv'
  <2>1. /\ target' = target /\ snapshot' = snapshot
        /\ pc' = [pc EXCEPT ![r] = "done"]
        /\ \/ joins' = joins /\ nextEntry' = nextEntry
           \/ /\ joins' = joins \cup {[id |-> nextEntry, event |-> target[r]]}
              /\ nextEntry' = nextEntry + 1
    BY <1>2 DEF AppendEntry, local, Answer
  <2>2. \A x, y \in joins' : x.id = y.id => x.event = y.event
    BY <2>1
  <2>3. ASSUME NEW q \in Requests, pc'[q] = "delete"
        PROVE  /\ \A n \in snapshot'[q] : n \in Nat /\ n < nextEntry'
               /\ \A x \in joins' : x.id \in snapshot'[q] => x.event = target'[q]
    <3>1. pc[q] = "delete" /\ nextEntry \notin snapshot[q]
      BY <2>1, <2>3
    <3> QED
      BY <2>1, <3>1
  <2> QED
    BY <2>2, <2>3
<1>3. ASSUME NEW r \in Requests, DeleteRows(r)
      PROVE  SnapshotInv'
  BY <1>3 DEF DeleteRows, local, Answer
<1>4. ASSUME NEW r \in Requests, FindAccessEvent(r) \/ SetAccess(r)
      PROVE  SnapshotInv'
  <2>1. /\ joins' = joins /\ nextEntry' = nextEntry /\ snapshot' = snapshot
        /\ pc[r] = "access"
        /\ pc' = pc \/ pc' = [pc EXCEPT ![r] = "done"]
        /\ \A q \in Requests \ {r} : target'[q] = target[q]
    BY <1>4 DEF FindAccessEvent, SetAccess, Advance, Answer, tables
  <2> QED
    BY <2>1
<1>5. ASSUME NEW r \in Requests, CreateEvent(r)
      PROVE  SnapshotInv'
  BY <1>5 DEF CreateEvent, Goto
<1>6. ASSUME NEW r \in Requests,
             \/ CreateFails(r) \/ FetchEvent(r) \/ FetchParent(r) \/ UpdateEvent(r)
             \/ AccessDone(r) \/ FindEvent(r) \/ DatabaseError(r)
      PROVE  SnapshotInv'
  <2>1. /\ joins' = joins /\ nextEntry' = nextEntry /\ snapshot' = snapshot /\ target' = target
        /\ \E step \in Steps \ {"delete"} : pc' = [pc EXCEPT ![r] = step]
    BY <1>6 DEF CreateFails, FetchEvent, FetchParent, UpdateEvent, AccessDone, FindEvent,
                DatabaseError, tables, local, Answer, Goto, Steps
  <2> QED
    BY <2>1
<1>7. CASE UNCHANGED vars
  BY <1>7 DEF vars, tables, local
<1> QED
  BY <1>1, <1>2, <1>3, <1>4, <1>5, <1>6, <1>7, StepCases

LEMMA NextNothingDangles == RowsInv /\ [Next]_vars => NothingDangles'
<1> SUFFICES ASSUME RowsInv, [Next]_vars
             PROVE  NothingDangles'
    OBVIOUS
<1> USE DEF RowsInv, RangesInv, NothingDangles
<1>1. ASSUME NEW r \in Requests, CreateEvent(r)
      PROVE  NothingDangles'
  BY <1>1 DEF CreateEvent, Blank
<1>2. ASSUME NEW r \in Requests, UpdateEvent(r)
      PROVE  NothingDangles'
  BY <1>2 DEF UpdateEvent
<1>3. ASSUME NEW r \in Requests, SetAccess(r)
      PROVE  NothingDangles'
  <2>1. events' = events /\ joins' = joins /\ entries' = entries
    BY <1>3 DEF SetAccess
  <2>2. ASSUME NEW e \in Ids \ DOMAIN events
        PROVE  access'[e] = access[e]
    BY <1>3, <2>2 DEF SetAccess
  <2> QED
    BY <2>1, <2>2
<1>4. ASSUME NEW r \in Requests, DeleteRows(r)
      PROVE  NothingDangles'
  <2> DEFINE e == target[r]
  <2>1. /\ pc[r] = "delete" /\ e \in Ids
        /\ joins' = {x \in joins : x.event # e}
        /\ entries' = entries \ snapshot[r]
        /\ access' = [access EXCEPT ![e] = NoRules]
        /\ DOMAIN events' = DOMAIN events \ {e}
        /\ \A x \in DOMAIN events' : events'[x] = Detached(e)[x]
    BY <1>4 DEF DeleteRows, TargetInv
  <2>2. \A x \in DOMAIN events' : events'[x].parent \in {NoEvent} \cup DOMAIN events'
    BY <2>1 DEF Detached, Shaped
  <2>3. \A x \in joins' : x.event \in DOMAIN events' /\ x.id \in entries'
    BY <2>1 DEF SnapshotInv
  <2>4. \A x \in Ids \ DOMAIN events' : access'[x] = NoRules
    BY <2>1
  <2> QED
    BY <2>2, <2>3, <2>4
<1>5. ASSUME NEW r \in Requests, AppendEntry(r)
      PROVE  NothingDangles'
  BY <1>5 DEF AppendEntry
<1>6. CASE UNCHANGED tables
  BY <1>6 DEF tables
<1>7. ASSUME NEW r \in Requests,
             \/ CreateFails(r) \/ FetchEvent(r) \/ FetchParent(r) \/ FindAccessEvent(r)
             \/ AccessDone(r) \/ FindEvent(r) \/ ListEntries(r) \/ DatabaseError(r)
      PROVE  UNCHANGED tables
  BY <1>7 DEF CreateFails, FetchEvent, FetchParent, FindAccessEvent, AccessDone, FindEvent,
              ListEntries, DatabaseError
<1>8. UNCHANGED vars => UNCHANGED tables
  BY DEF vars
<1> QED
  BY <1>1, <1>2, <1>3, <1>4, <1>5, <1>6, <1>7, <1>8, StepCases

\* A deletion leaves nothing that refers to what is gone, neither a child of the Event,
\* nor a record without its entry, nor a rule, though the entries it deletes were listed
\* before it held any lock.
THEOREM DeletionLeavesNothing == Spec => []NothingDangles
<1>1. Init => RowsInv
  BY InitRows
<1>2. RowsInv /\ [Next]_vars => RowsInv'
  BY NextRanges, NextSnapshot, NextNothingDangles DEF RowsInv
<1>3. RowsInv => NothingDangles
  BY DEF RowsInv
<1> QED
  BY <1>1, <1>2, <1>3, PTL DEF Spec
-----------------------------------------------------------------------------
\* What AccessOf computes

\* Induction: where something fails it fails first.
LEMMA LeastOne ==
  ASSUME NEW T \in SUBSET Nat, T # {}
  PROVE  \E x \in T : \A y \in T : x <= y
<1>1. \E x \in T : \A y \in T : ~ (<<y, x>> \in OpToRel(<, Nat))
  BY NatLessThanWellFounded, WFMin
<1>2. \E x \in T : \A y \in T : ~ (y < x)
  BY <1>1 DEF OpToRel
<1>3. PICK x \in T : \A y \in T : ~ (y < x)
  BY <1>2
<1>4. x \in T /\ T \subseteq Nat
  OBVIOUS
<1>5. \A y \in T : x <= y
  BY <1>3, <1>4
<1> QED
  BY <1>4, <1>5

\* The step of AccessOf at the Event e, and its first n steps.
Given(rows, acc, e) ==
  IF rows[e].parent = NoEvent THEN acc ELSE [acc EXCEPT ![e] = @ \cup acc[rows[e].parent]]
Grants(g, n, rules, rows, order) ==
  g = [k \in 0 .. n |-> IF k = 0 THEN rules ELSE Given(rows, g[k - 1], order[k])]

\* The recursion of AccessOf is well founded.
LEMMA GrantsExist ==
  ASSUME NEW rules, NEW rows, NEW order, NEW n \in Nat
  PROVE  \E g : Grants(g, n, rules, rows, order)
<1> DEFINE T == {m \in Nat : ~ \E g : Grants(g, m, rules, rows, order)}
<1> SUFFICES ASSUME T # {}
             PROVE  FALSE
    OBVIOUS
<1>1. PICK m \in T : \A y \in T : m <= y
  BY LeastOne
<1>2. m \in Nat /\ ~ \E g : Grants(g, m, rules, rows, order)
  OBVIOUS
<1>3. CASE m = 0
  <2> DEFINE g == [k \in 0 .. 0 |-> rules]
  <2>1. g = [k \in 0 .. 0 |-> IF k = 0 THEN rules ELSE Given(rows, g[k - 1], order[k])]
    OBVIOUS
  <2> QED
    BY <1>2, <1>3, <2>1 DEF Grants
<1>4. CASE m # 0
  <2>1. m - 1 \in Nat /\ m - 1 \notin T
    BY <1>1, <1>2, <1>4
  <2>2. PICK g : Grants(g, m - 1, rules, rows, order)
    BY <2>1
  <2> DEFINE h == [k \in 0 .. m |-> IF k = m THEN Given(rows, g[m - 1], order[m]) ELSE g[k]]
  <2>3. \A k \in 0 .. m - 1 : h[k] = IF k = 0 THEN rules ELSE Given(rows, g[k - 1], order[k])
    <3>1. \A k \in 0 .. m - 1 : g[k] = IF k = 0 THEN rules ELSE Given(rows, g[k - 1], order[k])
      BY <2>2, Zenon DEF Grants
    <3> QED
      BY <3>1, <1>2
  <2>4. \A k \in 0 .. m : k # 0 => h[k] = Given(rows, h[k - 1], order[k])
    <3> SUFFICES ASSUME NEW k \in 0 .. m, k # 0
                 PROVE  h[k] = Given(rows, h[k - 1], order[k])
        OBVIOUS
    <3>1. h[k - 1] = g[k - 1]
      BY <1>2
    <3>2. CASE k = m
      BY <3>1, <3>2
    <3>3. CASE k # m
      <4>1. k \in 0 .. m - 1
        BY <1>2, <3>3
      <4> QED
        BY <4>1, <3>1, <2>3
    <3> QED
      BY <3>2, <3>3
  <2>5. h[0] = rules
    <3>1. 0 \in 0 .. m - 1
      BY <1>2, <1>4
    <3> QED
      BY <3>1, <2>3
  <2>6. h = [k \in 0 .. m |-> IF k = 0 THEN rules ELSE Given(rows, h[k - 1], order[k])]
    <3>1. h = [k \in 0 .. m |-> h[k]]
      OBVIOUS
    <3> HIDE DEF h
    <3>2. \A k \in 0 .. m : h[k] = IF k = 0 THEN rules ELSE Given(rows, h[k - 1], order[k])
      BY <2>4, <2>5
    <3> QED
      BY <3>1, <3>2, Zenon
  <2> QED
    BY <1>2, <2>6 DEF Grants
<1> QED
  BY <1>3, <1>4

LEMMA AccessOfGrants ==
  ASSUME NEW rules, NEW rows, NEW order, Len(order) \in Nat
  PROVE  \E g : /\ \A k \in 0 .. Len(order) :
                     g[k] = IF k = 0 THEN rules ELSE Given(rows, g[k - 1], order[k])
                /\ AccessOf(rules, rows, order) = g[Len(order)]
<1> DEFINE n == Len(order)
           g == CHOOSE x : Grants(x, n, rules, rows, order)
<1>1. Grants(g, n, rules, rows, order)
  BY GrantsExist
<1>2. AccessOf(rules, rows, order) = g[n]
  BY DEF AccessOf, Grants, Given
<1> HIDE DEF g
<1>3. \A k \in 0 .. n : g[k] = IF k = 0 THEN rules ELSE Given(rows, g[k - 1], order[k])
  BY <1>1, Zenon DEF Grants
<1> QED
  BY <1>2, <1>3

\* Induction up to n.
LEMMA StepByStep ==
  ASSUME NEW n \in Nat, NEW S,
         0 \in S, \A k \in 1 .. n : k - 1 \in S => k \in S
  PROVE  0 .. n \subseteq S
<1> DEFINE T == (0 .. n) \ S
<1> SUFFICES ASSUME T # {}
             PROVE  FALSE
    OBVIOUS
<1>1. PICK k \in T : \A y \in T : k <= y
  <2>1. T \in SUBSET Nat
    OBVIOUS
  <2> HIDE DEF T
  <2> QED
    BY <2>1, LeastOne
<1>2. k \in 1 .. n
  BY <1>1
<1>3. k - 1 \in 0 .. n /\ k - 1 \notin T
  BY <1>1, <1>2
<1> QED
  BY <1>1, <1>2, <1>3

\* An order in which rows are returned comes by each of them.
LEMMA OrderOfAll ==
  ASSUME NEW D \in SUBSET Ids, NEW order \in Orders[D]
  PROVE  /\ Len(order) \in Nat
         /\ \A i \in 1 .. Len(order) : order[i] \in D
         /\ \A e \in D : \E i \in 1 .. Len(order) : order[i] = e
<1>1. IsFiniteSet(D)
  <2>1. IsFiniteSet(Ids)
    BY MaxEventsAssumption, FS_Interval DEF Ids
  <2> QED
    BY <2>1, FS_Subset
<1> DEFINE n == Cardinality(D)
<1>2. n \in Nat
  BY <1>1, FS_CardinalityType
<1>3. order \in [1 .. n -> D] /\ \A i, j \in 1 .. n : i # j => order[i] # order[j]
  BY DEF Orders, SetToSeqs
<1>4. Len(order) = n
  BY <1>2, <1>3
<1>5. order \in Injection(1 .. n, D)
  BY <1>3 DEF Injection, IsInjective
<1>6. order \in Surjection(1 .. n, D)
  <2>1. IsFiniteSet(1 .. n) /\ Cardinality(1 .. n) = n
    BY <1>2, FS_Interval
  <2> QED
    BY <1>1, <1>5, <2>1, FS_Injection
<1>7. \A e \in D : \E i \in 1 .. n : order[i] = e
  BY <1>6 DEF Surjection
<1> QED
  BY <1>2, <1>3, <1>4, <1>7

\* The whole of it: whoever has no parent keeps its rules, the child of one without a
\* parent has those of both.
LEMMA AccessOfRows ==
  ASSUME NEW D \in SUBSET Ids, NEW order \in Orders[D], NEW rules, NEW rows
  PROVE  LET all == AccessOf(rules, rows, order) IN
         /\ DOMAIN all = DOMAIN rules
         /\ \A e \in DOMAIN rules :
              e \notin D \/ rows[e].parent = NoEvent => all[e] = rules[e]
         /\ \A e \in DOMAIN rules \cap D, p \in DOMAIN rules :
              /\ rows[e].parent = p
              /\ p # NoEvent
              /\ p \notin D \/ rows[p].parent = NoEvent
              => all[e] = rules[e] \cup rules[p]
<1> DEFINE all == AccessOf(rules, rows, order)
           n == Len(order)
<1>1. /\ n \in Nat
      /\ \A i \in 1 .. n : order[i] \in D
      /\ \A e \in D : \E i \in 1 .. n : order[i] = e
  BY OrderOfAll
<1>2. PICK g : /\ \A k \in 0 .. n :
                    g[k] = IF k = 0 THEN rules ELSE Given(rows, g[k - 1], order[k])
               /\ all = g[n]
  BY <1>1, AccessOfGrants
<1> HIDE DEF all, n
<1>3. /\ g[0] = rules
      /\ \A k \in 1 .. n : order[k] \in D /\ g[k] = Given(rows, g[k - 1], order[k])
  BY <1>1, <1>2
<1>4. \A k \in 0 .. n : DOMAIN g[k] = DOMAIN rules
  <2> DEFINE S == {k \in 0 .. n : DOMAIN g[k] = DOMAIN rules}
  <2>1. 0 \in S
    BY <1>1, <1>3
  <2>2. ASSUME NEW k \in 1 .. n, k - 1 \in S
        PROVE  k \in S
    <3>1. DOMAIN g[k - 1] = DOMAIN rules /\ g[k] = Given(rows, g[k - 1], order[k])
      BY <1>3, <2>2
    <3>2. DOMAIN g[k] = DOMAIN rules
      BY <3>1 DEF Given
    <3> QED
      BY <1>1, <3>2
  <2> HIDE DEF S
  <2>3. 0 .. n \subseteq S
    BY <1>1, <2>1, <2>2, StepByStep
  <2> USE DEF S
  <2> QED
    BY <2>3
<1>5. ASSUME NEW e \in DOMAIN rules, e \notin D \/ rows[e].parent = NoEvent
      PROVE  \A k \in 0 .. n : g[k][e] = rules[e]
  <2> DEFINE S == {k \in 0 .. n : g[k][e] = rules[e]}
  <2>1. 0 \in S
    BY <1>1, <1>3
  <2>2. ASSUME NEW k \in 1 .. n, k - 1 \in S
        PROVE  k \in S
    <3>1. g[k - 1][e] = rules[e] /\ e \in DOMAIN g[k - 1]
      BY <1>1, <1>4, <2>2
    <3>2. order[k] \in D /\ g[k] = Given(rows, g[k - 1], order[k])
      BY <1>3
    <3>3. g[k][e] = rules[e]
      BY <1>5, <3>1, <3>2 DEF Given
    <3> QED
      BY <1>1, <3>3
  <2> HIDE DEF S
  <2>3. 0 .. n \subseteq S
    BY <1>1, <2>1, <2>2, StepByStep
  <2> USE DEF S
  <2> QED
    BY <2>3
<1>6. ASSUME NEW e \in DOMAIN rules \cap D, NEW p \in DOMAIN rules,
             rows[e].parent = p, p # NoEvent, p \notin D \/ rows[p].parent = NoEvent
      PROVE  all[e] = rules[e] \cup rules[p]
  <2> DEFINE Had(k) == rules[e] \cup (IF \E i \in 1 .. k : order[i] = e THEN rules[p] ELSE {})
             S == {k \in 0 .. n : g[k][e] = Had(k)}
  <2>1. 0 \in S
    <3>1. ~ \E i \in 1 .. 0 : order[i] = e
      OBVIOUS
    <3> QED
      BY <1>1, <1>3, <3>1
  <2>2. ASSUME NEW k \in 1 .. n, k - 1 \in S
        PROVE  k \in S
    <3>1. g[k - 1][e] = Had(k - 1) /\ e \in DOMAIN g[k - 1] /\ g[k - 1][p] = rules[p]
      BY <1>1, <1>4, <1>5, <1>6, <2>2
    <3>2. order[k] \in D /\ g[k] = Given(rows, g[k - 1], order[k])
      BY <1>3
    <3>3. CASE order[k] = e
      <4>1. g[k][e] = Had(k - 1) \cup rules[p]
        BY <1>6, <3>1, <3>2, <3>3 DEF Given
      <4>2. \E i \in 1 .. k : order[i] = e
        BY <1>1, <3>3
      <4> QED
        BY <1>1, <4>1, <4>2
    <3>4. CASE order[k] # e
      <4>1. g[k][e] = Had(k - 1)
        BY <3>1, <3>2, <3>4 DEF Given
      <4>2. (\E i \in 1 .. k : order[i] = e) <=> \E i \in 1 .. k - 1 : order[i] = e
        BY <1>1, <3>4
      <4> QED
        BY <1>1, <4>1, <4>2
    <3> QED
      BY <3>3, <3>4
  <2> HIDE DEF S
  <2>3. 0 .. n \subseteq S
    BY <1>1, <2>1, <2>2, StepByStep
  <2> USE DEF S
  <2>4. g[n][e] = Had(n)
    BY <1>1, <2>3
  <2> QED
    BY <1>1, <1>2, <2>4
<1>7. n \in 0 .. n
  BY <1>1
<1> QED
  BY <1>2, <1>4, <1>5, <1>6, <1>7 DEF all

\* The rules that the list of Events goes by are those of the Event itself and of its
\* parent.
LEMMA ListedAccess ==
  ASSUME RowsInv, GroupsAreRoots, NEW order \in Orders[DOMAIN events], NEW e \in DOMAIN events,
         events[e].parent # NoEvent => events[events[e].parent].parent = NoEvent,
         ~ events[e].group
  PROVE  AccessByEvent(order)[e] = EventAndParentAccess(e)
<1> DEFINE rules == [x \in DOMAIN events |-> RulesOf(x)]
<1>1. DOMAIN events \in SUBSET Ids
  BY DEF RowsInv, RangesInv
<1>2. DOMAIN rules = DOMAIN events /\ \A x \in DOMAIN events : rules[x] = RulesOf(x)
  OBVIOUS
<1>3. AccessByEvent(order) = AccessOf(rules, events, order)
  BY DEF AccessByEvent
<1> HIDE DEF rules
<1>4. CASE events[e].parent = NoEvent
  BY <1>1, <1>2, <1>3, <1>4, AccessOfRows DEF EventAndParentAccess
<1>5. CASE events[e].parent # NoEvent
  <2> DEFINE p == events[e].parent
  <2>1. p \in DOMAIN events /\ events[p].parent = NoEvent
    BY <1>5 DEF RowsInv, NothingDangles
  <2>2. AccessByEvent(order)[e] = rules[e] \cup rules[p]
    BY <1>1, <1>2, <1>3, <1>5, <2>1, AccessOfRows
  <2> QED
    BY <1>2, <1>5, <2>1, <2>2 DEF EventAndParentAccess
<1> QED
  BY <1>4, <1>5

\* The list of all Events, whose rules are put together in a different way and in
\* whichever order the rows are returned, grants everybody in an Event exactly what is
\* granted when that Event alone is asked for, but in the cases that the property names.
THEOREM ListAgreesWithEvent == Spec => []PermissionsAgree
<1>1. Init => RowsInv /\ GroupsInv
  BY InitRows, InitGroups
<1>2. RowsInv /\ [Next]_vars => RowsInv'
  BY NextRanges, NextSnapshot, NextNothingDangles DEF RowsInv
<1>3. GroupsInv /\ [Next]_vars => GroupsInv'
  BY NextRanges, NextMerged, NextGroupsAreRoots DEF GroupsInv
<1>4. ASSUME RowsInv, GroupsInv
      PROVE  PermissionsAgree
  <2> SUFFICES ASSUME NEW order \in Orders[DOMAIN events], NEW e \in DOMAIN events
               PROVE
      \/ events[e].group /\ \A p \in People, now \in Times : EventPermissions(e, p, now) = {}
      \/ events[e].parent # NoEvent /\ events[events[e].parent].parent # NoEvent
      \/ \A p \in People, now \in Times :
           ManyEventPermissions(AccessByEvent(order)[e], p, now) = EventPermissions(e, p, now)
      BY DEF PermissionsAgree
  <2>1. CASE events[e].group
    <3>1. EventAndParentAccess(e) = {}
      BY <1>4, <2>1 DEF GroupsInv, GroupsAreRoots, EventAndParentAccess
    <3>2. ASSUME NEW p \in People, NEW now \in Times
          PROVE  EventPermissions(e, p, now) = {}
      BY <3>1 DEF EventPermissions, ManyEventPermissions
    <3> QED
      BY <2>1, <3>2
  <2>2. CASE ~ events[e].group /\ (events[e].parent # NoEvent
                                     => events[events[e].parent].parent = NoEvent)
    <3>1. AccessByEvent(order)[e] = EventAndParentAccess(e)
      BY <1>4, <2>2, ListedAccess DEF GroupsInv
    <3> QED
      BY <3>1 DEF EventPermissions
  <2> QED
    BY <2>1, <2>2
<1> QED
  BY <1>1, <1>2, <1>3, <1>4, PTL DEF Spec
-----------------------------------------------------------------------------
\* Access rules

\* What a request for access has replaced, and what it has yet to: of each Event the
\* modes in their order, and a request at work on an Event has something left in it.
ReplacedInv(r) ==
  /\ applied[r] \subseteq Asked(body[r])
  /\ todo[r] = Asked(body[r]) \ applied[r]
  /\ body[r].kind = "access" => pc[r] \in {"access", "done"}
  /\ pc[r] = "access" => /\ body[r].kind = "access"
                         /\ reply[r] = "none"
                         /\ target[r] # NoEvent => target[r] \in Ids /\ Left(r) # {}
  /\ body[r].kind = "access" /\ reply[r] = "success" => applied[r] = Asked(body[r])
  /\ \A e \in Ids : \A i, j \in DOMAIN Modes :
       i < j /\ <<e, Modes[j]>> \in applied[r] /\ <<e, Modes[i]>> \in Asked(body[r])
         => <<e, Modes[i]>> \in applied[r]

AccessInv ==
  /\ DOMAIN todo = Requests /\ DOMAIN applied = Requests /\ DOMAIN reply = Requests
  /\ nextEvent > Len(InitEvents)
  /\ \A e \in Ids : DOMAIN access[e] = ModeSet
  /\ \A r \in Requests : ReplacedInv(r)

LEMMA ModesFacts ==
  /\ DOMAIN Modes = 1 .. 4
  /\ \A i, j \in DOMAIN Modes : Modes[i] = Modes[j] => i = j
  /\ \A m \in ModeSet : \E i \in DOMAIN Modes : m = Modes[i]
  /\ \A i \in DOMAIN Modes : Modes[i] \in ModeSet
<1>1. DOMAIN Modes = 1 .. 4
  BY DEF Modes
<1>2. \A i \in 1 .. 4 : i = 1 \/ i = 2 \/ i = 3 \/ i = 4
  OBVIOUS
<1>3. Modes[1] = "read" /\ Modes[2] = "write" /\ Modes[3] = "report" /\ Modes[4] = "write_visits"
  BY DEF Modes
<1>4. \A i, j \in DOMAIN Modes : Modes[i] = Modes[j] => i = j
  BY <1>1, <1>2, <1>3
<1> QED
  BY <1>1, <1>4 DEF ModeSet

LEMMA LeftIsFinite == \A r : Left(r) \subseteq Nat /\ IsFiniteSet(Left(r))
<1> SUFFICES ASSUME NEW r
             PROVE  Left(r) \subseteq Nat /\ IsFiniteSet(Left(r))
    OBVIOUS
<1>1. Left(r) \subseteq 1 .. 4
  BY ModesFacts DEF Left
<1>2. IsFiniteSet(1 .. 4)
  BY FS_Interval, 1 \in Int, 4 \in Int, Zenon
<1>3. IsFiniteSet(Left(r))
  BY <1>1, <1>2, FS_Subset
<1> QED
  BY <1>1, <1>3

\* The current mode is the first that is left.
LEMMA FirstLeft ==
  ASSUME NEW r, Left(r) # {}
  PROVE  \E k \in Left(r) : CurrentMode(r) = Modes[k] /\ \A j \in Left(r) : k <= j
<1>1. Left(r) \subseteq Nat
  BY LeftIsFinite
<1>2. \E k \in Left(r) : \A j \in Left(r) : k <= j
  BY <1>1, LeastOne
<1> QED
  BY <1>2 DEF CurrentMode

LEMMA AskedIsPairs ==
  ASSUME NEW b, NEW p \in Asked(b)
  PROVE  /\ b.kind = "access" /\ p \in Ids \X ModeSet /\ p = <<p[1], p[2]>>
         /\ b.rules[p[1]][p[2]] # {}
BY DEF Asked

LEMMA InitAccessInv == Init => AccessInv
<1> SUFFICES ASSUME Init PROVE AccessInv
    OBVIOUS
<1>1. Len(InitEvents) \in Nat
  BY InitAssumption
<1>2. \A e \in Ids : DOMAIN InitAccess[e] = ModeSet
  BY InitAssumption DEF AccessRows
<1>3. ASSUME NEW r \in Requests
      PROVE  ReplacedInv(r)
  <2>1. body[r] \in Bodies
    BY DEF Init
  <2>2. body[r].kind \in {"edit", "access", "delete", "append"}
    BY <2>1, BodiesAssumption DEF Body
  <2>3. pc[r] = "access" <=> body[r].kind = "access"
    BY <2>2 DEF Init, FirstStep
  <2>4. pc[r] = "access" => target[r] = NoEvent
    BY <2>3 DEF Init
  <2> QED
    BY <2>3, <2>4 DEF Init, ReplacedInv
<1> QED
  BY <1>1, <1>2, <1>3 DEF Init, AccessInv

\* What does not concern a request leaves what it has replaced alone.
LEMMA ReplacedUnchanged ==
  ASSUME NEW r, ReplacedInv(r),
         applied'[r] = applied[r], todo'[r] = todo[r], body'[r] = body[r],
         pc'[r] = pc[r], target'[r] = target[r], reply'[r] = reply[r]
  PROVE  ReplacedInv(r)'
BY DEF ReplacedInv, Left

\* The transaction of one mode.
LEMMA ReplacedOne ==
  ASSUME RangesInv, AccessInv, NEW r \in Requests, SetAccess(r)
  PROVE  ReplacedInv(r)'
<1>1. ReplacedInv(r) /\ pc[r] = "access" /\ target[r] # NoEvent /\ body' = body
  BY DEF AccessInv, SetAccess
<1> DEFINE e == target[r]
           m == CurrentMode(r)
<1>2. e \in Ids /\ Left(r) # {}
  BY <1>1 DEF ReplacedInv
<1>3. PICK k \in Left(r) : m = Modes[k] /\ \A j \in Left(r) : k <= j
  BY <1>2, FirstLeft
<1>4. <<e, m>> \in todo[r] /\ k \in DOMAIN Modes
  BY <1>3 DEF Left
<1>5. CASE UNCHANGED <<todo, target, applied>> /\ Answer(r, "error")
  BY <1>1, <1>5 DEF ReplacedInv, Answer, RangesInv, AccessInv
<1>6. CASE applied' = [applied EXCEPT ![r] = @ \cup {<<e, m>>}] /\ Advance(r)
  <2>1. /\ applied'[r] = applied[r] \cup {<<e, m>>}
        /\ todo'[r] = todo[r] \ {<<e, m>>}
        /\ target'[r] = IF Cardinality(Left(r)) = 1 THEN NoEvent ELSE e
        /\ pc' = pc /\ reply' = reply
    BY <1>6 DEF Advance, AccessInv, RangesInv
  <2>2. applied'[r] \subseteq Asked(body'[r]) /\ todo'[r] = Asked(body'[r]) \ applied'[r]
    BY <1>1, <1>4, <2>1 DEF ReplacedInv
  <2>3. target'[r] # NoEvent => target'[r] \in Ids /\ Left(r)' # {}
    <3> SUFFICES ASSUME target'[r] # NoEvent
                 PROVE  Left(r)' # {}
        BY <1>2, <2>1
    <3>1. IsFiniteSet(Left(r))
      BY LeftIsFinite
    <3>2. Left(r) # {k}
      BY <3>1, <2>1, FS_Singleton
    <3>3. PICK j \in Left(r) : j # k
      BY <1>3, <3>2
    <3>4. Modes[j] # Modes[k] /\ j \in DOMAIN Modes /\ <<e, Modes[j]>> \in todo[r]
      BY <1>4, <3>3, ModesFacts DEF Left
    <3>5. <<e, Modes[j]>> \in todo'[r] /\ target'[r] = e
      BY <1>3, <2>1, <3>4
    <3> QED
      BY <3>4, <3>5 DEF Left
  <2>4. ASSUME NEW x \in Ids, NEW i \in DOMAIN Modes, NEW j \in DOMAIN Modes, i < j,
               <<x, Modes[j]>> \in applied'[r], <<x, Modes[i]>> \in Asked(body[r])
        PROVE  <<x, Modes[i]>> \in applied'[r]
    <3>1. CASE <<x, Modes[j]>> \in applied[r]
      BY <1>1, <2>1, <2>4, <3>1 DEF ReplacedInv
    <3>2. CASE <<x, Modes[j]>> = <<e, m>>
      <4>1. x = e /\ j = k
        BY <1>3, <1>4, <3>2, ModesFacts
      <4>2. i \notin Left(r)
        <5>1. i \in 1 .. 4 /\ k \in 1 .. 4
          BY <1>4, ModesFacts
        <5> QED
          BY <1>3, <2>4, <4>1, <5>1
      <4>3. <<e, Modes[i]>> \notin todo[r]
        BY <4>2 DEF Left
      <4> QED
        BY <1>1, <2>1, <2>4, <4>1, <4>3 DEF ReplacedInv
    <3> QED
      BY <2>1, <2>4, <3>1, <3>2
  <2>5. pc[r]' = "access" /\ reply[r]' = "none" /\ body[r]'.kind = "access"
    BY <1>1, <2>1 DEF ReplacedInv
  <2> QED
    BY <1>1, <2>2, <2>3, <2>4, <2>5 DEF ReplacedInv
<1> QED
  BY <1>5, <1>6 DEF SetAccess

\* An access rule set is what the request asked for, no more and no less.
LEMMA AskedRules ==
  ASSUME NEW r \in Requests, body \in [Requests -> Bodies], NEW p \in Asked(body[r])
  PROVE  body[r].rules[p[1]][p[2]] = {Over(body[r].rules[p[1]][p[2]], {})}
<1>1. body[r] \in Body /\ body[r].kind = "access"
  BY BodiesAssumption, AskedIsPairs
<1>2. body[r] \in [kind : {"access"}, rules : [Ids -> [ModeSet -> Maybe(SUBSET Rules)]]]
  BY <1>1 DEF Body
<1>3. p[1] \in Ids /\ p[2] \in ModeSet /\ body[r].rules[p[1]][p[2]] # {}
  BY AskedIsPairs
<1>4. body[r].rules[p[1]][p[2]] \in Maybe(SUBSET Rules)
  BY <1>2, <1>3
<1>5. PICK v : body[r].rules[p[1]][p[2]] = {v}
  BY <1>3, <1>4 DEF Maybe
<1> QED
  BY <1>5 DEF Over

LEMMA NextAccessInv == RowsInv /\ AccessInv /\ [Next]_vars => AccessInv'
<1> SUFFICES ASSUME RowsInv, AccessInv, [Next]_vars
             PROVE  AccessInv'
    OBVIOUS
<1>0. RangesInv /\ Len(InitEvents) \in Nat
  BY InitAssumption DEF RowsInv
<1>1. ASSUME NEW r \in Requests,
             \/ CreateEvent(r) \/ CreateFails(r) \/ FetchEvent(r) \/ FetchParent(r)
             \/ UpdateEvent(r) \/ FindEvent(r) \/ ListEntries(r) \/ DeleteRows(r)
             \/ AppendEntry(r)
      PROVE  AccessInv'
  <2>1. /\ todo' = todo /\ applied' = applied /\ body' = body
        /\ nextEvent' = nextEvent \/ nextEvent' = nextEvent + 1
        /\ pc[r] \notin {"access", "done"}
        /\ \E step \in Steps \ {"access"} : pc' = [pc EXCEPT ![r] = step]
        /\ target' = target \/ \E t : target' = [target EXCEPT ![r] = t]
        /\ reply' = reply \/ \E a : reply' = [reply EXCEPT ![r] = a]
        /\ access' = access \/ access' = [access EXCEPT ![target[r]] = NoRules]
    BY <1>1 DEF CreateEvent, CreateFails, FetchEvent, FetchParent, UpdateEvent, FindEvent,
         ListEntries, DeleteRows, AppendEntry, tables, local, Answer, Goto, Steps
  <2>2. ReplacedInv(r)'
    BY <1>0, <2>1 DEF ReplacedInv, RangesInv, AccessInv, Steps
  <2>3. ASSUME NEW q \in Requests, q # r
        PROVE  ReplacedInv(q)'
    BY <1>0, <2>1, <2>3, ReplacedUnchanged DEF RangesInv, AccessInv
  <2>4. \A e \in Ids : DOMAIN access'[e] = ModeSet
    BY <1>0, <2>1 DEF RangesInv, AccessInv, NoRules
  <2> QED
    BY <1>0, <2>1, <2>2, <2>3, <2>4 DEF AccessInv, RangesInv
<1>2. ASSUME NEW r \in Requests, SetAccess(r)
      PROVE  AccessInv'
  <2>1. /\ nextEvent' = nextEvent /\ body' = body
        /\ pc' = pc \/ pc' = [pc EXCEPT ![r] = "done"]
        /\ target' = target \/ \E t : target' = [target EXCEPT ![r] = t]
        /\ todo' = todo \/ \E t : todo' = [todo EXCEPT ![r] = t]
        /\ applied' = applied \/ \E t : applied' = [applied EXCEPT ![r] = t]
        /\ reply' = reply \/ \E a : reply' = [reply EXCEPT ![r] = a]
    BY <1>2 DEF SetAccess, Advance, Answer
  <2>2. ReplacedInv(r)'
    BY <1>0, <1>2, ReplacedOne
  <2>3. ASSUME NEW q \in Requests, q # r
        PROVE  ReplacedInv(q)'
    BY <1>0, <2>1, <2>3, ReplacedUnchanged DEF RangesInv, AccessInv
  <2>4. \A e \in Ids : DOMAIN access'[e] = ModeSet
    BY <1>0, <1>2 DEF SetAccess, RangesInv, AccessInv, Replaced
  <2> QED
    BY <2>1, <2>2, <2>3, <2>4 DEF AccessInv
<1>3. ASSUME NEW r \in Requests, FindAccessEvent(r) \/ AccessDone(r) \/ DatabaseError(r)
      PROVE  AccessInv'
  <2>1. /\ nextEvent' = nextEvent /\ body' = body /\ todo' = todo /\ applied' = applied
        /\ access' = access
        /\ pc' = pc \/ pc' = [pc EXCEPT ![r] = "done"]
        /\ target' = target \/ \E t : target' = [target EXCEPT ![r] = t]
        /\ reply' = reply \/ \E a : reply' = [reply EXCEPT ![r] = a]
    BY <1>3 DEF FindAccessEvent, AccessDone, DatabaseError, Answer, tables, local
  <2>2. ReplacedInv(r)'
    <3>1. CASE Answer(r, "error") \/ Answer(r, "notfound")
      BY <1>0, <2>1, <3>1 DEF Answer, ReplacedInv, AccessInv, RangesInv
    <3>2. CASE Answer(r, "success") /\ todo[r] = {}
      BY <1>0, <2>1, <3>2 DEF Answer, ReplacedInv, AccessInv, RangesInv
    <3>3. CASE \E p \in todo[r] : /\ pc[r] = "access" /\ UNCHANGED <<pc, reply>>
                                  /\ target' = [target EXCEPT ![r] = p[1]]
      <4>1. PICK p \in todo[r] : /\ pc[r] = "access" /\ UNCHANGED <<pc, reply>>
                                 /\ target' = [target EXCEPT ![r] = p[1]]
        BY <3>3
      <4>2. p[1] \in Ids /\ p[2] \in ModeSet /\ p = <<p[1], p[2]>>
        BY <4>1, AskedIsPairs DEF AccessInv, ReplacedInv
      <4>3. PICK i \in DOMAIN Modes : p[2] = Modes[i]
        BY <4>2, ModesFacts
      <4>4. target'[r] = p[1]
        BY <1>0, <4>1 DEF RangesInv
      <4>5. i \in Left(r)'
        BY <2>1, <4>1, <4>2, <4>3, <4>4 DEF Left
      <4> QED
        BY <2>1, <4>1, <4>2, <4>4, <4>5 DEF ReplacedInv, AccessInv
    <3> QED
      BY <1>3, <3>1, <3>2, <3>3 DEF FindAccessEvent, AccessDone, DatabaseError
  <2>3. ASSUME NEW q \in Requests, q # r
        PROVE  ReplacedInv(q)'
    BY <1>0, <2>1, <2>3, ReplacedUnchanged DEF RangesInv, AccessInv
  <2> QED
    BY <2>1, <2>2, <2>3 DEF AccessInv
<1>4. CASE UNCHANGED vars
  BY <1>4, ReplacedUnchanged DEF AccessInv, vars, tables, local
<1> QED
  BY <1>1, <1>2, <1>3, <1>4, StepCases

\* The rules of a mode are what was there at first, or all that one request asked for.
RulesInv ==
  \A e \in DOMAIN events, m \in ModeSet :
    \/ access[e][m] = IF e \in DOMAIN InitEvents THEN InitAccess[e][m] ELSE {}
    \/ \E r \in Requests : <<e, m>> \in applied[r] /\ body[r].rules[e][m] = {access[e][m]}

\* Rules that are left alone stay explained.
LEMMA RulesUnchanged ==
  ASSUME RulesInv, body' = body,
         \A q \in Requests : applied[q] \subseteq applied'[q],
         NEW e \in DOMAIN events, NEW m \in ModeSet, access'[e][m] = access[e][m]
  PROVE  \/ access'[e][m] = IF e \in DOMAIN InitEvents THEN InitAccess[e][m] ELSE {}
         \/ \E r \in Requests : <<e, m>> \in applied'[r] /\ body'[r].rules[e][m] = {access'[e][m]}
<1>1. CASE access[e][m] = IF e \in DOMAIN InitEvents THEN InitAccess[e][m] ELSE {}
  BY <1>1
<1>2. CASE \E r \in Requests : <<e, m>> \in applied[r] /\ body[r].rules[e][m] = {access[e][m]}
  BY <1>2
<1> QED
  BY <1>1, <1>2 DEF RulesInv

LEMMA NextRulesInv == RowsInv /\ AccessInv /\ RulesInv /\ [Next]_vars => RulesInv'
<1> SUFFICES ASSUME RowsInv, AccessInv, RulesInv, [Next]_vars
             PROVE  RulesInv'
    OBVIOUS
<1>0. RangesInv /\ DOMAIN InitEvents = 1 .. Len(InitEvents) /\ Len(InitEvents) \in Nat
  BY InitAssumption DEF RowsInv
<1>1. ASSUME NEW r \in Requests, CreateEvent(r)
      PROVE  RulesInv'
  <2>1. /\ DOMAIN events' = DOMAIN events \cup {nextEvent} /\ nextEvent \in Ids
        /\ access' = access /\ body' = body /\ applied' = applied
    BY <1>1 DEF CreateEvent
  <2>2. access[nextEvent] = NoRules /\ nextEvent \notin DOMAIN InitEvents
    <3>1. nextEvent \notin DOMAIN events
      BY <1>0, <2>1 DEF RangesInv, Ids
    <3>2. nextEvent > Len(InitEvents)
      BY DEF AccessInv
    <3> QED
      BY <1>0, <2>1, <3>1, <3>2, MaxEventsAssumption DEF RowsInv, NothingDangles, Ids
  <2>3. ASSUME NEW e \in DOMAIN events', NEW m \in ModeSet, e \notin DOMAIN events
        PROVE  access'[e][m] = IF e \in DOMAIN InitEvents THEN InitAccess[e][m] ELSE {}
    BY <2>1, <2>2, <2>3 DEF NoRules
  <2>4. ASSUME NEW e \in DOMAIN events, NEW m \in ModeSet
        PROVE  \/ access'[e][m] = IF e \in DOMAIN InitEvents THEN InitAccess[e][m] ELSE {}
               \/ \E q \in Requests : <<e, m>> \in applied'[q] /\ body'[q].rules[e][m] = {access'[e][m]}
    BY <2>1, RulesUnchanged
  <2> QED
    BY <2>3, <2>4 DEF RulesInv
<1>2. ASSUME NEW r \in Requests, SetAccess(r)
      PROVE  RulesInv'
  <2> DEFINE e == target[r]
             m == CurrentMode(r)
             new == Over(body[r].rules[e][m], {})
  <2>1. e \in Ids /\ Left(r) # {} /\ events' = events /\ body' = body
    BY <1>2 DEF SetAccess, AccessInv, ReplacedInv
  <2>2. <<e, m>> \in Asked(body[r]) /\ m \in ModeSet
    <3>1. PICK k \in Left(r) : m = Modes[k]
      BY <2>1, FirstLeft
    <3> QED
      BY <3>1, ModesFacts DEF AccessInv, ReplacedInv, Left
  <2>3. body[r].rules[e][m] = {new}
    BY <1>0, <2>2, AskedRules DEF RangesInv
  <2>4. CASE /\ \A x \in Ids : access'[x] = access[x]
             /\ \A q \in Requests : applied[q] \subseteq applied'[q]
    BY <1>0, <2>1, <2>4, RulesUnchanged DEF RulesInv, RangesInv
  <2>5. CASE /\ access' = [access EXCEPT ![e] = Replaced(access[e], m, new)]
             /\ applied' = [applied EXCEPT ![r] = @ \cup {<<e, m>>}]
    <3>1. \A q \in Requests : applied[q] \subseteq applied'[q]
      BY <2>5 DEF AccessInv
    <3>2. <<e, m>> \in applied'[r] /\ access'[e][m] = new
      BY <1>0, <2>1, <2>2, <2>5 DEF AccessInv, RangesInv, Replaced
    <3>3. ASSUME NEW x \in Ids, NEW y \in ModeSet, ~ (x = e /\ y = m)
          PROVE  access'[x][y] = access[x][y]
      BY <1>0, <2>1, <2>5, <3>3 DEF AccessInv, RangesInv, Replaced
    <3>4. ASSUME NEW x \in DOMAIN events, NEW y \in ModeSet, ~ (x = e /\ y = m)
          PROVE  \/ access'[x][y] = IF x \in DOMAIN InitEvents THEN InitAccess[x][y] ELSE {}
                 \/ \E q \in Requests : <<x, y>> \in applied'[q] /\ body'[q].rules[x][y] = {access'[x][y]}
      <4>1. access'[x][y] = access[x][y]
        BY <1>0, <3>3, <3>4 DEF RangesInv
      <4> QED
        BY <2>1, <3>1, <4>1, RulesUnchanged
    <3>5. \E q \in Requests : <<e, m>> \in applied'[q] /\ body'[q].rules[e][m] = {access'[e][m]}
      BY <2>1, <2>3, <3>2
    <3>6. ASSUME NEW x \in DOMAIN events, NEW y \in ModeSet
          PROVE  \/ access'[x][y] = IF x \in DOMAIN InitEvents THEN InitAccess[x][y] ELSE {}
                 \/ \E q \in Requests : <<x, y>> \in applied'[q] /\ body'[q].rules[x][y] = {access'[x][y]}
      <4>1. CASE x = e /\ y = m
        BY <3>5, <4>1
      <4> QED
        BY <3>4, <4>1
    <3> QED
      BY <2>1, <3>6 DEF RulesInv
  <2> QED
    <3>1. \/ access' = access /\ applied' = applied
          \/ /\ access' = [access EXCEPT ![e] = IF e \in DOMAIN events THEN Replaced(@, m, new) ELSE @]
             /\ applied' = [applied EXCEPT ![r] = @ \cup {<<e, m>>}]
      BY <1>2 DEF SetAccess
    <3>2. CASE access' = access /\ applied' = applied
      BY <2>4, <3>2
    <3>3. CASE /\ access' = [access EXCEPT ![e] = IF e \in DOMAIN events THEN Replaced(@, m, new) ELSE @]
               /\ applied' = [applied EXCEPT ![r] = @ \cup {<<e, m>>}]
      <4>1. CASE e \in DOMAIN events
        BY <2>5, <3>3, <4>1
      <4>2. CASE e \notin DOMAIN events
        <5>1. \A x \in Ids : access'[x] = access[x]
          BY <1>0, <3>3, <4>2 DEF RangesInv
        <5>2. \A q \in Requests : applied[q] \subseteq applied'[q]
          BY <3>3 DEF AccessInv
        <5> QED
          BY <2>4, <5>1, <5>2
      <4> QED
        BY <4>1, <4>2
    <3> QED
      BY <3>1, <3>2, <3>3
<1>3. ASSUME NEW r \in Requests, DeleteRows(r)
      PROVE  RulesInv'
  <2>1. /\ DOMAIN events' = DOMAIN events \ {target[r]}
        /\ access' = [access EXCEPT ![target[r]] = NoRules]
        /\ body' = body /\ applied' = applied
    BY <1>3 DEF DeleteRows, local
  <2>2. \A e \in DOMAIN events' : e \in DOMAIN events /\ access'[e] = access[e]
    BY <1>0, <2>1 DEF RangesInv
  <2>3. ASSUME NEW e \in DOMAIN events', NEW m \in ModeSet
        PROVE  \/ access'[e][m] = IF e \in DOMAIN InitEvents THEN InitAccess[e][m] ELSE {}
               \/ \E q \in Requests : <<e, m>> \in applied'[q] /\ body'[q].rules[e][m] = {access'[e][m]}
    BY <2>1, <2>2, RulesUnchanged
  <2> QED
    BY <2>3 DEF RulesInv
<1>4. CASE access' = access /\ body' = body /\ applied' = applied /\ DOMAIN events' = DOMAIN events
  BY <1>4, RulesUnchanged DEF RulesInv
<1>5. ASSUME NEW r \in Requests,
             \/ CreateFails(r) \/ FetchEvent(r) \/ FetchParent(r) \/ UpdateEvent(r)
             \/ FindAccessEvent(r) \/ AccessDone(r) \/ FindEvent(r) \/ ListEntries(r)
             \/ AppendEntry(r) \/ DatabaseError(r)
      PROVE  access' = access /\ body' = body /\ applied' = applied /\ DOMAIN events' = DOMAIN events
  BY <1>5 DEF CreateFails, FetchEvent, FetchParent, UpdateEvent, FindAccessEvent, AccessDone,
       FindEvent, ListEntries, AppendEntry, DatabaseError, tables, local
<1>6. UNCHANGED vars => access' = access /\ body' = body /\ applied' = applied /\ events' = events
  BY DEF vars, tables
<1> QED
  BY <1>1, <1>2, <1>3, <1>4, <1>5, <1>6, StepCases

\* A request for access that was interrupted has replaced the first modes of an Event and
\* none of the later ones, one that succeeded all it asked for; and whoever replaces what
\* at the same time, the rules of a mode are never a mixture.
THEOREM ModesAreReplacedWhole == Spec => []AccessIsWhole
<1>1. Init => RowsInv /\ AccessInv /\ RulesInv
  <2>1. Init => RulesInv
    BY DEF Init, RulesInv
  <2> QED
    BY <2>1, InitRows, InitAccessInv
<1>2. RowsInv /\ AccessInv /\ RulesInv /\ [Next]_vars => (RowsInv /\ AccessInv /\ RulesInv)'
  BY NextRanges, NextSnapshot, NextNothingDangles, NextAccessInv, NextRulesInv DEF RowsInv
<1>3. AccessInv /\ RulesInv => AccessIsWhole
  BY DEF AccessInv, ReplacedInv, RulesInv, AccessIsWhole
<1> QED
  BY <1>1, <1>2, <1>3, PTL DEF Spec
-----------------------------------------------------------------------------
\* Reading and importing while Events are administered

\* EventAdmin's own steps are all that reading and importing leave of it.
LEMMA ReadsStep == [ReadsNext]_allVars => [Next]_vars
BY DEF ReadsNext, Next, allVars, Finishing

LEMMA ReadsStart == ReadsInit => Init
BY DEF ReadsInit

\* EventReads, of which the readers and the importers are left out, is EventAdmin: what
\* holds there holds with them.
THEOREM ReadsKeepEventAdmin == ReadsSpec => Spec
BY ReadsStep, ReadsStart, PTL DEF ReadsSpec, Spec

\* Numbers of Events are not used again.
LEMMA NewEvents ==
  ASSUME RangesInv, [Next]_vars
  PROVE  /\ nextEvent' = nextEvent \/ nextEvent' = nextEvent + 1
         /\ \A e \in DOMAIN events' : e \in DOMAIN events \/ e = nextEvent
<1>1. ASSUME NEW r \in Requests, CreateEvent(r)
      PROVE  /\ nextEvent' = nextEvent + 1
             /\ \A e \in DOMAIN events' : e \in DOMAIN events \/ e = nextEvent
  BY <1>1 DEF CreateEvent
<1>2. ASSUME NEW r \in Requests, UpdateEvent(r) \/ DeleteRows(r)
      PROVE  /\ nextEvent' = nextEvent
             /\ \A e \in DOMAIN events' : e \in DOMAIN events
  BY <1>2 DEF UpdateEvent, DeleteRows
<1>3. ASSUME NEW r \in Requests,
             \/ CreateFails(r) \/ FetchEvent(r) \/ FetchParent(r) \/ FindAccessEvent(r)
             \/ SetAccess(r) \/ AccessDone(r) \/ FindEvent(r) \/ ListEntries(r)
             \/ AppendEntry(r) \/ DatabaseError(r)
      PROVE  nextEvent' = nextEvent /\ events' = events
  BY <1>3 DEF CreateFails, FetchEvent, FetchParent, FindAccessEvent, SetAccess, AccessDone,
       FindEvent, ListEntries, AppendEntry, DatabaseError, tables
<1>4. CASE UNCHANGED vars
  BY <1>4 DEF vars, tables
<1> QED
  BY <1>1, <1>2, <1>3, <1>4, StepCases

There(e, t) == {p \in places : p.event = e /\ p.type = t}

\* The list of importer i, as far as n.
Listed(e, t, i, n) == {[event |-> e, type |-> t, number |-> k, by |-> i] : k \in 0 .. n - 1}

\* How much of its list the only author of the places of a type has stored.
Stored(e, t, i) ==
  There(e, t) = Listed(e, t, i, IF i \in Inserting(e, t) THEN importer[i].number ELSE import(i).count)

\* Where nobody has been yet there is nothing; where only one has, nobody else is at work,
\* and its places are there as far as it has come.
HealInv ==
  \A e \in DOMAIN events, t \in PlaceTypes :
    /\ Authors(e, t) = {} => Inserting(e, t) = {} /\ There(e, t) = {}
    /\ \A i \in Importers : Authors(e, t) = {i} => Inserting(e, t) \subseteq {i} /\ Stored(e, t, i)

ImportersInv ==
  /\ DOMAIN importer = Importers
  /\ \A i \in Importers :
       /\ import(i).event \in Ids
       /\ import(i).count \in Nat
       /\ DOMAIN importer[i] = {"step", "type", "left", "number"}
       /\ importer[i].number \in Nat
       /\ importer[i].left \subseteq PlaceTypes
       /\ importer[i].step \in {"remove", "insert"} => import(i).event < nextEvent
  /\ \A x \in author : x.event \in Nat /\ x.event < nextEvent
  /\ \A p \in places : p.event \in DOMAIN events

PlacesInv == RangesInv /\ TargetInv /\ ImportersInv /\ HealInv

LEMMA InitPlaces == ReadsInit => PlacesInv
<1> SUFFICES ASSUME ReadsInit PROVE PlacesInv
    OBVIOUS
<1>1. RangesInv /\ TargetInv
  BY InitRanges, ReadsStart
<1>2. PICK g \in Scenarios : given = [read |-> g.read, import |-> g.import]
  BY DEF ReadsInit
<1>3. given.import \in [Importers -> Imports]
  BY <1>2, ReadsAssumption
<1>4. \A i \in Importers : import(i) \in Imports
  BY <1>3 DEF import
<1>5. ImportersInv
  <2>1. \A i \in Importers : /\ import(i).event \in Ids /\ import(i).count \in Nat
                             /\ import(i).types \subseteq PlaceTypes
    BY <1>4 DEF Imports
  <2> QED
    BY <2>1 DEF ReadsInit, ImportersInv
<1>6. HealInv
  BY DEF ReadsInit, HealInv, There, Authors, Inserting
<1> QED
  BY <1>1, <1>5, <1>6 DEF PlacesInv

\* Who the authors are after a list has been begun, or broken off.
LEMMA AuthorsAfter ==
  ASSUME NEW e, NEW t, NEW those, author' = Authored(e, t, those)
  PROVE  /\ Authors(e, t)' = those
         /\ \A x, u : ~ (x = e /\ u = t) => Authors(x, u)' = Authors(x, u)
<1> DEFINE new == [event : {e}, type : {t}, by : those]
<1>0. /\ \A x \in new : x.event = e /\ x.type = t /\ x.by \in those
      /\ \A b \in those : [event |-> e, type |-> t, by |-> b] \in new
  OBVIOUS
<1>1. author' = {x \in author : x.event # e \/ x.type # t} \cup new
  BY DEF Authored
<1> HIDE DEF new
<1>2. Authors(e, t)' = those
  <2>1. Authors(e, t)' = {x.by : x \in {y \in author' : y.event = e /\ y.type = t}}
    BY DEF Authors
  <2>2. {y \in author' : y.event = e /\ y.type = t} = new
    BY <1>0, <1>1
  <2>3. \A b \in those : \E x \in new : x.by = b
    BY <1>0
  <2> QED
    BY <1>0, <2>1, <2>2, <2>3
<1>3. ASSUME NEW x, NEW u, ~ (x = e /\ u = t)
      PROVE  Authors(x, u)' = Authors(x, u)
  <2>1. {y \in author' : y.event = x /\ y.type = u} = {y \in author : y.event = x /\ y.type = u}
    BY <1>0, <1>1, <1>3
  <2> QED
    BY <2>1 DEF Authors
<1> QED
  BY <1>2, <1>3

\* One importer's step, as it is seen in the places of the types.
LEMMA ImporterAlone ==
  ASSUME ImportersInv, NEW i \in Importers, NEW state, Now(i, state)
  PROVE  /\ DOMAIN importer' = Importers
         /\ importer'[i] = state
         /\ \A j \in Importers : j # i => importer'[j] = importer[j]
         /\ given' = given => \A e, t : Inserting(e, t)' \ {i} = Inserting(e, t) \ {i}
BY DEF ImportersInv, Now, Inserting, import

\* The places of a type that nobody touched heal as before.
LEMMA HealUnchanged ==
  ASSUME HealInv, NEW e \in DOMAIN events, NEW t \in PlaceTypes, given' = given,
         There(e, t)' = There(e, t), Authors(e, t)' = Authors(e, t),
         Inserting(e, t)' = Inserting(e, t),
         \A i \in Inserting(e, t) : importer'[i].number = importer[i].number
  PROVE  /\ Authors(e, t)' = {} => Inserting(e, t)' = {} /\ There(e, t)' = {}
         /\ \A i \in Importers : Authors(e, t)' = {i} => Inserting(e, t)' \subseteq {i} /\ Stored(e, t, i)'
<1>1. ASSUME NEW i \in Importers, Authors(e, t)' = {i}
      PROVE  Inserting(e, t)' \subseteq {i} /\ Stored(e, t, i)'
  <2>1. Inserting(e, t) \subseteq {i} /\ Stored(e, t, i)
    BY <1>1 DEF HealInv
  <2> QED
    BY <2>1 DEF Stored, Listed, import
<1> QED
  BY <1>1 DEF HealInv

LEMMA RequestKeepsPlaces ==
  ASSUME PlacesInv, [Next]_vars, DeletePlaces, UNCHANGED <<given, importer, author>>
  PROVE  ImportersInv' /\ HealInv'
<1>1. RangesInv' /\ TargetInv'
  BY NextRanges DEF PlacesInv
<1>2. /\ nextEvent' = nextEvent \/ nextEvent' = nextEvent + 1
      /\ \A e \in DOMAIN events' : e \in DOMAIN events \/ e = nextEvent
      /\ nextEvent \in Nat
  BY NewEvents DEF PlacesInv, RangesInv
<1>3. places' = {p \in places : p.event \in DOMAIN events'}
  BY DEF DeletePlaces
<1>4. ImportersInv'
  <2>1. \A i \in Importers : import(i).event < nextEvent => import(i).event < nextEvent'
    BY <1>2 DEF PlacesInv, ImportersInv, Ids
  <2>2. \A x \in author : x.event \in Nat /\ x.event < nextEvent'
    BY <1>2 DEF PlacesInv, ImportersInv
  <2> QED
    BY <1>3, <2>1, <2>2 DEF PlacesInv, ImportersInv, import
<1>5. ASSUME NEW e \in DOMAIN events', NEW t \in PlaceTypes
      PROVE  /\ Authors(e, t)' = {} => Inserting(e, t)' = {} /\ There(e, t)' = {}
             /\ \A i \in Importers : Authors(e, t)' = {i} => Inserting(e, t)' \subseteq {i} /\ Stored(e, t, i)'
  <2>1. Authors(e, t)' = Authors(e, t) /\ Inserting(e, t)' = Inserting(e, t)
    BY DEF Authors, Inserting, import
  <2>2. CASE e \in DOMAIN events
    <3>1. There(e, t)' = There(e, t)
      BY <1>3 DEF There
    <3> QED
      BY <2>1, <2>2, <3>1, HealUnchanged DEF PlacesInv
  <2>3. CASE e = nextEvent
    <3>1. nextEvent \notin DOMAIN events
      BY DEF PlacesInv, RangesInv
    <3>2. There(e, t)' = {}
      BY <1>3, <2>3, <3>1 DEF There, PlacesInv, ImportersInv
    <3>3. Authors(e, t) = {}
      BY <1>2, <2>3 DEF Authors, PlacesInv, ImportersInv
    <3>4. Inserting(e, t) = {}
      BY <1>2, <2>3 DEF Inserting, PlacesInv, ImportersInv
    <3> QED
      BY <2>1, <3>2, <3>3, <3>4
  <2> QED
    BY <1>2, <2>2, <2>3
<1> QED
  BY <1>4, <1>5 DEF HealInv

LEMMA ImportKeepsTypes ==
  ASSUME PlacesInv, NEW i \in Importers, Import(i), UNCHANGED <<vars, given>>
  PROVE  ImportersInv'
<1>0. ImportersInv /\ RangesInv /\ events' = events /\ nextEvent' = nextEvent
  BY DEF PlacesInv, vars, tables
<1>1. ASSUME NEW state, Now(i, state), DOMAIN state = {"step", "type", "left", "number"},
             state.number \in Nat, state.left \subseteq PlaceTypes,
             state.step \in {"remove", "insert"} => import(i).event < nextEvent,
             \A x \in author' : x \in author \/ (x.event \in Nat /\ x.event < nextEvent),
             \A p \in places' : p \in places \/ p.event \in DOMAIN events
      PROVE  ImportersInv'
  BY <1>0, <1>1, ImporterAlone DEF ImportersInv, import
<1>2. /\ DOMAIN importer[i] = {"step", "type", "left", "number"}
      /\ importer[i].number \in Nat /\ importer[i].left \subseteq PlaceTypes
      /\ importer[i].step \in {"remove", "insert"} => import(i).event < nextEvent
      /\ import(i).event \in DOMAIN events => import(i).event < nextEvent
      /\ import(i).event \in Nat
  BY <1>0 DEF ImportersInv, RangesInv, Ids
<1>3. CASE FindPlaced(i)
  BY <1>1, <1>2, <1>3 DEF FindPlaced
<1>4. CASE RemovePlaces(i)
  <2>1. PICK t \in importer[i].left :
          /\ places' \subseteq places
          /\ Now(i, [step |-> "insert", type |-> t, left |-> importer[i].left \ {t}, number |-> 0])
          /\ author' = Authored(import(i).event, t, Inserting(import(i).event, t) \cup {i})
    BY <1>4 DEF RemovePlaces
  <2>2. import(i).event < nextEvent
    BY <1>2, <1>4 DEF RemovePlaces
  <2>3. \A x \in author' : x \in author \/ (x.event \in Nat /\ x.event < nextEvent)
    BY <1>2, <2>1, <2>2 DEF Authored
  <2> DEFINE state == [step |-> "insert", type |-> t, left |-> importer[i].left \ {t}, number |-> 0]
  <2>4. /\ DOMAIN state = {"step", "type", "left", "number"} /\ state.number \in Nat
        /\ state.left \subseteq PlaceTypes
    BY <1>2
  <2>5. Now(i, state)
    BY <2>1
  <2>6. \A p \in places' : p \in places \/ p.event \in DOMAIN events
    BY <2>1
  <2>7. state.step \in {"remove", "insert"} => import(i).event < nextEvent
    BY <2>2
  <2> HIDE DEF state
  <2> QED
    BY ONLY <1>1, <2>3, <2>4, <2>5, <2>6, <2>7, Zenon
<1>5. CASE CreatePlace(i)
  <2>1. importer[i].step = "insert" /\ import(i).event < nextEvent
    BY <1>2, <1>5 DEF CreatePlace
  <2>2. CASE /\ Now(i, [importer[i] EXCEPT !.number = @ + 1])
             /\ author' = author
             /\ \A p \in places' : p \in places \/ p.event \in DOMAIN events
    <3> DEFINE state == [importer[i] EXCEPT !.number = @ + 1]
    <3>1. /\ DOMAIN state = {"step", "type", "left", "number"}
          /\ state.number \in Nat /\ state.left \subseteq PlaceTypes
      BY <1>2
    <3>2. Now(i, state)
      BY <2>2
    <3> HIDE DEF state
    <3> QED
      BY <1>1, <2>1, <2>2, <3>1, <3>2
  <2>3. CASE /\ Now(i, [importer[i] EXCEPT !.step = "done"])
             /\ author' = Broken(import(i).event, importer[i].type)
             /\ places' = places
    <3>1. \A x \in author' : x \in author \/ (x.event \in Nat /\ x.event < nextEvent)
      BY <1>2, <2>1, <2>3 DEF Broken, Authored
    <3> QED
      BY <1>1, <1>2, <2>3, <3>1
  <2> QED
    BY <1>5, <2>2, <2>3 DEF CreatePlace
<1>6. CASE TypeDone(i)
  BY <1>1, <1>2, <1>6 DEF TypeDone
<1>7. CASE ImportFails(i)
  <2>1. \A x \in author' : x \in author \/ (x.event \in Nat /\ x.event < nextEvent)
    BY <1>2, <1>7 DEF ImportFails, Broken, Authored
  <2> QED
    BY <1>1, <1>2, <1>7, <2>1 DEF ImportFails
<1> QED
  BY <1>3, <1>4, <1>5, <1>6, <1>7 DEF Import

\* What the step of importer i does to the places of one type, if that is what it is at.
LEMMA ImportKeepsHealing ==
  ASSUME PlacesInv, NEW i \in Importers, Import(i), UNCHANGED <<vars, given>>
  PROVE  HealInv'
<1>0. /\ ImportersInv /\ HealInv /\ events' = events /\ given' = given
      /\ import(i)' = import(i) /\ import(i).count \in Nat /\ importer[i].number \in Nat
  BY DEF PlacesInv, ImportersInv, vars, tables, import
<1>a. PICK at : at = import(i).event
  OBVIOUS
<1>b. PICK type : type = importer[i].type
  OBVIOUS
<1> DEFINE Heals(e, t) ==
      /\ Authors(e, t) = {} => Inserting(e, t) = {} /\ There(e, t) = {}
      /\ \A j \in Importers : Authors(e, t) = {j} => Inserting(e, t) \subseteq {j} /\ Stored(e, t, j)
<1>1. ASSUME NEW e, NEW t, importer[i].step # "insert" \/ e # import(i).event \/ t # importer[i].type
      PROVE  i \notin Inserting(e, t)
  BY <1>1 DEF Inserting
<1>2. ASSUME NEW e, NEW t, importer'[i].step # "insert" \/ e # import(i).event \/ t # importer'[i].type
      PROVE  i \notin Inserting(e, t)'
  BY <1>0, <1>2 DEF Inserting
<1>3. ASSUME NEW state, Now(i, state)
      PROVE  /\ \A j \in Importers : j # i => importer'[j] = importer[j]
             /\ importer'[i] = state
             /\ \A e, t : Inserting(e, t)' \ {i} = Inserting(e, t) \ {i}
  BY <1>0, <1>3, ImporterAlone
<1>4. ASSUME NEW e \in DOMAIN events, NEW t \in PlaceTypes, NEW state, Now(i, state),
             There(e, t)' = There(e, t), Authors(e, t)' = Authors(e, t),
             i \notin Inserting(e, t), i \notin Inserting(e, t)'
      PROVE  Heals(e, t)'
  <2>1. Inserting(e, t)' = Inserting(e, t)
    BY <1>3, <1>4
  <2>2. \A j \in Inserting(e, t) : importer'[j].number = importer[j].number
    BY <1>3, <1>4 DEF Inserting
  <2> QED
    BY <1>0, <1>4, <2>1, <2>2, HealUnchanged
<1>5. CASE FindPlaced(i)
  <2>1. PICK state : Now(i, state) /\ state.step # "insert"
    BY <1>0, <1>5 DEF FindPlaced, ImportersInv
  <2>2. importer[i].step # "insert" /\ importer'[i].step # "insert"
    BY <1>3, <1>5, <2>1 DEF FindPlaced
  <2>3. ASSUME NEW e, NEW t
        PROVE  There(e, t)' = There(e, t) /\ Authors(e, t)' = Authors(e, t)
    BY <1>5 DEF FindPlaced, There, Authors
  <2>4. \A e \in DOMAIN events, t \in PlaceTypes : Heals(e, t)'
    BY <1>1, <1>2, <1>4, <2>1, <2>2, <2>3
  <2> QED
    BY <1>0, <2>4 DEF HealInv
<1>6. CASE RemovePlaces(i)
  <2>1. PICK t \in importer[i].left :
          /\ places' = places \ Removed(at, t, import(i).count)
          /\ Now(i, [step |-> "insert", type |-> t, left |-> importer[i].left \ {t}, number |-> 0])
          /\ author' = Authored(at, t, Inserting(at, t) \cup {i})
    BY <1>a, <1>6 DEF RemovePlaces
  <2>2. /\ importer[i].step = "remove"
        /\ importer'[i].step = "insert" /\ importer'[i].type = t /\ importer'[i].number = 0
    BY <1>3, <1>6, <2>1 DEF RemovePlaces
  <2>3. ASSUME NEW x \in DOMAIN events, NEW u \in PlaceTypes, ~ (x = at /\ u = t)
        PROVE  Heals(x, u)'
    <3>1. There(x, u)' = There(x, u)
      BY <2>1, <2>3 DEF There, Removed
    <3>2. Authors(x, u)' = Authors(x, u)
      BY <2>1, <2>3, AuthorsAfter
    <3>3. i \notin Inserting(x, u) /\ i \notin Inserting(x, u)'
      BY <1>a, <1>1, <1>2, <2>2, <2>3
    <3> QED
      BY <1>4, <2>1, <3>1, <3>2, <3>3
  <2>4. Heals(at, t)'
    <3>1. There(at, t)' = {}
      BY <2>1 DEF There, Removed
    <3>2. Authors(at, t)' = Inserting(at, t) \cup {i}
      BY <2>1, AuthorsAfter
    <3>3. Inserting(at, t)' \subseteq Inserting(at, t) \cup {i} /\ i \in Inserting(at, t)'
      BY <1>0, <1>a, <1>3, <2>1, <2>2 DEF Inserting
    <3>4. ASSUME NEW j \in Importers, Authors(at, t)' = {j}
          PROVE  Inserting(at, t)' \subseteq {j} /\ Stored(at, t, j)'
      <4>1. j = i /\ Inserting(at, t)' = {i}
        BY <3>2, <3>3, <3>4
      <4>2. Listed(at, t, i, 0) = {}
        BY DEF Listed
      <4> QED
        BY <2>2, <3>1, <4>1, <4>2 DEF Stored, Listed
    <3> QED
      BY <3>2, <3>4
  <2> QED
    <3>1. \A x \in DOMAIN events, u \in PlaceTypes : Heals(x, u)'
      BY <2>3, <2>4
    <3> QED
      BY <1>0, <3>1 DEF HealInv
<1>7. ASSUME NEW state, Now(i, state), state.step # "insert", importer[i].step # "insert",
             places' = places, author' = author
      PROVE  HealInv'
  <2>1. importer'[i].step # "insert"
    BY <1>3, <1>7
  <2>2. ASSUME NEW e, NEW t
        PROVE  There(e, t)' = There(e, t) /\ Authors(e, t)' = Authors(e, t)
    BY <1>7 DEF There, Authors
  <2>3. \A e \in DOMAIN events, t \in PlaceTypes : Heals(e, t)'
    BY <1>1, <1>2, <1>4, <1>7, <2>1, <2>2
  <2> QED
    BY <1>0, <2>3 DEF HealInv
<1>8. ASSUME importer[i].step = "insert", places' = places, author' = Broken(at, type),
             NEW state, Now(i, state), state.step # "insert"
      PROVE  HealInv'
  <2>1. importer'[i].step # "insert"
    BY <1>3, <1>8
  <2>2. ASSUME NEW x \in DOMAIN events, NEW u \in PlaceTypes, ~ (x = at /\ u = type)
        PROVE  Heals(x, u)'
    <3>1. There(x, u)' = There(x, u)
      BY <1>8 DEF There
    <3>2. Authors(x, u)' = Authors(x, u)
      BY <1>8, <2>2, AuthorsAfter DEF Broken
    <3>3. i \notin Inserting(x, u) /\ i \notin Inserting(x, u)'
      BY <1>a, <1>b, <1>1, <1>2, <2>1, <2>2
    <3> QED
      BY <1>4, <1>8, <3>1, <3>2, <3>3
  <2>3. Heals(at, type)'
    <3>1. Authors(at, type)' = {"nobody"}
      BY <1>8, AuthorsAfter DEF Broken
    <3> QED
      BY <3>1, ReadsAssumption
  <2>4. \A x \in DOMAIN events, u \in PlaceTypes : Heals(x, u)'
    BY <2>2, <2>3
  <2> QED
    BY <1>0, <2>4 DEF HealInv
<1>9. CASE CreatePlace(i)
  <2>0. PICK n \in Nat : n = importer[i].number
    BY <1>0
  <2> DEFINE place == [event |-> at, type |-> type, number |-> n, by |-> i]
  <2>1. importer[i].step = "insert" /\ i \in Inserting(at, type)
    BY <1>a, <1>b, <1>9 DEF CreatePlace, Inserting
  <2>2. CASE /\ places' = places \cup {place}
             /\ Now(i, [importer[i] EXCEPT !.number = @ + 1])
             /\ author' = author
    <3>1. importer'[i].step = "insert" /\ importer'[i].type = type /\ importer'[i].number = n + 1
      BY <1>0, <1>b, <1>3, <2>0, <2>1, <2>2 DEF ImportersInv
    <3>2. \A x, u : Authors(x, u)' = Authors(x, u)
      BY <2>2 DEF Authors
    <3>3. ASSUME NEW x \in DOMAIN events, NEW u \in PlaceTypes, ~ (x = at /\ u = type)
          PROVE  Heals(x, u)'
      <4>1. There(x, u)' = There(x, u)
        BY <2>2, <3>3 DEF There
      <4>2. i \notin Inserting(x, u) /\ i \notin Inserting(x, u)'
        BY <1>a, <1>b, <1>1, <1>2, <3>1, <3>3
      <4> QED
        BY <1>4, <2>2, <3>2, <4>1, <4>2
    <3>4. ASSUME at \in DOMAIN events, type \in PlaceTypes
          PROVE  Heals(at, type)'
      <4>1. There(at, type)' = There(at, type) \cup {place}
        BY <2>2 DEF There
      <4>2. Authors(at, type) # {}
        BY <1>0, <2>1, <3>4 DEF HealInv
      <4>3. ASSUME NEW j \in Importers, Authors(at, type) = {j}
            PROVE  Inserting(at, type)' \subseteq {j} /\ Stored(at, type, j)'
        <5>1. Inserting(at, type) \subseteq {j} /\ Stored(at, type, j)
          BY <1>0, <3>4, <4>3 DEF HealInv
        <5>2. j = i /\ i \in Inserting(at, type)' /\ Inserting(at, type)' \subseteq {i}
          BY <1>0, <1>a, <1>3, <2>1, <2>2, <3>1, <5>1 DEF Inserting
        <5>3. There(at, type) = Listed(at, type, i, n)
          BY <2>0, <2>1, <5>1, <5>2 DEF Stored
        <5>4. Listed(at, type, i, n) \cup {place} = Listed(at, type, i, n + 1)
          <6>1. 0 .. n + 1 - 1 = (0 .. n - 1) \cup {n}
            BY <1>0
          <6> QED
            BY <6>1 DEF Listed
        <5> QED
          BY <3>1, <4>1, <5>2, <5>3, <5>4 DEF Stored, Listed
      <4> QED
        BY <3>2, <4>2, <4>3
    <3>5. \A x \in DOMAIN events, u \in PlaceTypes : Heals(x, u)'
      BY <3>3, <3>4
    <3> QED
      BY <1>0, <3>5 DEF HealInv
  <2>3. CASE /\ places' = places /\ author' = Broken(at, type)
             /\ Now(i, [importer[i] EXCEPT !.step = "done"])
    <3> DEFINE state == [importer[i] EXCEPT !.step = "done"]
    <3>1. state.step # "insert" /\ Now(i, state)
      BY <1>0, <2>3 DEF ImportersInv
    <3> HIDE DEF state
    <3> QED
      BY <1>8, <2>1, <2>3, <3>1
  <2> QED
    BY <1>a, <1>b, <1>9, <2>0, <2>2, <2>3 DEF CreatePlace
<1>10. CASE TypeDone(i)
  <2>1. PICK state : /\ Now(i, state) /\ state.step # "insert"
                     /\ importer[i].step = "insert" /\ importer[i].number = import(i).count
                     /\ places' = places /\ author' = author
    BY <1>0, <1>10 DEF TypeDone, ImportersInv
  <2>2. importer'[i].step # "insert" /\ i \in Inserting(at, type)
    BY <1>a, <1>b, <1>3, <2>1 DEF Inserting
  <2>3. ASSUME NEW x, NEW u
        PROVE  There(x, u)' = There(x, u) /\ Authors(x, u)' = Authors(x, u)
    BY <2>1 DEF There, Authors
  <2>4. ASSUME NEW x \in DOMAIN events, NEW u \in PlaceTypes, ~ (x = at /\ u = type)
        PROVE  Heals(x, u)'
    <3>1. i \notin Inserting(x, u) /\ i \notin Inserting(x, u)'
      BY <1>a, <1>b, <1>1, <1>2, <2>2, <2>4
    <3> QED
      BY <1>4, <2>1, <2>3, <3>1
  <2>5. ASSUME at \in DOMAIN events, type \in PlaceTypes
        PROVE  Heals(at, type)'
    <3>1. Authors(at, type) # {}
      BY <1>0, <2>2, <2>5 DEF HealInv
    <3>2. ASSUME NEW j \in Importers, Authors(at, type) = {j}
          PROVE  Inserting(at, type)' \subseteq {j} /\ Stored(at, type, j)'
      <4>1. Inserting(at, type) \subseteq {j} /\ Stored(at, type, j)
        BY <1>0, <2>5, <3>2 DEF HealInv
      <4>2. j = i /\ i \notin Inserting(at, type)' /\ Inserting(at, type)' \subseteq {i}
        BY <1>2, <1>3, <2>1, <2>2, <4>1
      <4>3. There(at, type) = Listed(at, type, i, import(i).count)
        BY <2>1, <2>2, <4>1, <4>2 DEF Stored
      <4> QED
        BY <1>0, <2>3, <4>2, <4>3 DEF Stored, Listed
    <3> QED
      BY <2>3, <3>1, <3>2
  <2>6. \A x \in DOMAIN events, u \in PlaceTypes : Heals(x, u)'
    BY <2>4, <2>5
  <2> QED
    BY <1>0, <2>6 DEF HealInv
<1>11. CASE ImportFails(i)
  <2> DEFINE state == [importer[i] EXCEPT !.step = "done"]
  <2>1. state.step # "insert" /\ Now(i, state) /\ places' = places
    BY <1>0, <1>11 DEF ImportersInv, ImportFails
  <2> HIDE DEF state
  <2>2. IF importer[i].step = "insert" THEN author' = Broken(at, type) ELSE author' = author
    BY <1>a, <1>b, <1>11 DEF ImportFails
  <2> QED
    BY <1>7, <1>8, <2>1, <2>2
<1> QED
  BY <1>5, <1>6, <1>9, <1>10, <1>11 DEF Import

LEMMA NextPlaces == PlacesInv /\ [ReadsNext]_allVars => PlacesInv'
<1> SUFFICES ASSUME PlacesInv, [ReadsNext]_allVars
             PROVE  PlacesInv'
    OBVIOUS
<1>1. [Next]_vars
  BY ReadsStep
<1>2. RangesInv' /\ TargetInv'
  BY <1>1, NextRanges DEF PlacesInv
<1>3. CASE DeletePlaces /\ UNCHANGED <<given, importer, author>>
  BY <1>1, <1>2, <1>3, RequestKeepsPlaces DEF PlacesInv
<1>4. ASSUME NEW i \in Importers, Import(i), UNCHANGED <<vars, given>>
      PROVE  PlacesInv'
  BY <1>2, <1>4, ImportKeepsTypes, ImportKeepsHealing DEF PlacesInv
<1>5. CASE UNCHANGED <<vars, given, places, importer, author>>
  <2>1. DeletePlaces
    <3>1. events' = events /\ places' = places
      BY <1>5 DEF vars, tables
    <3>2. places = {p \in places : p.event \in DOMAIN events}
      BY DEF PlacesInv, ImportersInv
    <3> QED
      BY <3>1, <3>2 DEF DeletePlaces
  <2> QED
    BY <1>3, <1>5, <2>1
<1>6. \/ DeletePlaces /\ UNCHANGED <<given, importer, author>>
      \/ \E i \in Importers : Import(i) /\ UNCHANGED <<vars, given>>
      \/ UNCHANGED <<vars, given, places, importer, author>>
  BY DEF ReadsNext, allVars, readVars, Finishing, Finished
<1> QED
  BY <1>3, <1>4, <1>5, <1>6

\* Whoever replaces the places of a type alone and to the end leaves their list and
\* nothing else, however many replacements were broken off before and whoever deletes
\* Events meanwhile; and a deletion leaves no place behind.
THEOREM ReplacingPlacesHeals == ReadsSpec => []PlacesHeal
<1>1. PlacesInv => PlacesHeal
  <2> SUFFICES ASSUME PlacesInv
               PROVE  PlacesHeal
      OBVIOUS
  <2>1. \A p \in places : p.event \in DOMAIN events
    BY DEF PlacesInv, ImportersInv
  <2>2. ASSUME NEW e \in DOMAIN events, NEW t \in PlaceTypes, Inserting(e, t) = {},
               NEW i \in Importers, Authors(e, t) = {i}
        PROVE  There(e, t) = Listed(e, t, i, import(i).count)
    BY <2>2 DEF PlacesInv, HealInv, Stored
  <2> QED
    BY <2>1, <2>2 DEF PlacesHeal, PlacesInv, HealInv, There, Listed
<1> QED
  BY <1>1, InitPlaces, NextPlaces, PTL DEF ReadsSpec
-----------------------------------------------------------------------------
\* What readers are shown

LEMMA MorePermissions ==
  ASSUME NEW p, NEW now, NEW A, NEW B
  PROVE  /\ ManyEventPermissions({}, p, now) = {}
         /\ ManyEventPermissions(A \cup B, p, now) =
              ManyEventPermissions(A, p, now) \cup ManyEventPermissions(B, p, now)
         /\ A \subseteq B => ManyEventPermissions(A, p, now) \subseteq ManyEventPermissions(B, p, now)
<1>1. \A S : ManyEventPermissions(S, p, now) =
               UNION {RolePermissions(x[1]) : x \in {y \in S : PersonMatches(y[2], p, now)}}
  BY DEF ManyEventPermissions
<1>2. \A S, q : q \in ManyEventPermissions(S, p, now) <=>
                  \E y \in S : PersonMatches(y[2], p, now) /\ q \in RolePermissions(y[1])
  BY <1>1
<1> QED
  BY <1>2

\* All that holds now has been seen by the reader.
SeenNow(v) ==
  /\ MayNow(v) \subseteq seen[v].may
  /\ OpenNow(v) \subseteq seen[v].open
  /\ Groups \subseteq seen[v].groups
  /\ Grandchildren \subseteq seen[v].unsettled

Known(v, right, e) == <<right, e>> \in seen[v].may \/ e \in seen[v].unsettled

\* A right that only a group's own rules gave; as long as the Event is not given another
\* row it stays a group, which is not searched.
KnownOrGroup(v, right, e) ==
  \/ Known(v, right, e)
  \/ e \in seen[v].groups /\ (e \in DOMAIN events => events[e].group)

May(v, rules) == ManyEventPermissions(rules, read(v).person, read(v).now)

\* The rows a reader has got tell of no embargo lifted too early.
RowsSeen(v) ==
  \A e \in DOMAIN view[v].rows :
    ~ Embargoed(view[v].rows[e], read(v).now) => e \in seen[v].open

\* The rules a reader has got gave those rights, to the Event itself and, if it had its
\* present row then, to the child.
RulesSeen(v) ==
  /\ \A e \in DOMAIN view[v].rules : \A right \in May(v, view[v].rules[e]) : KnownOrGroup(v, right, e)
  /\ \A e \in DOMAIN events :
       events[e].parent # NoEvent /\ events[e].parent \in DOMAIN view[v].rules =>
         \A right \in May(v, view[v].rules[events[e].parent]) : Known(v, right, e)

MaySeen(v) == \A e \in DOMAIN view[v].may : \A right \in view[v].may[e] : KnownOrGroup(v, right, e)

ShownAllowed(v) ==
  \A x \in view[v].shown :
    /\ read(v).op \in {"search", "list", "places"}
    /\ read(v).op = "search" => Known(v, x[1], x[2])
    /\ read(v).op = "list" =>
         /\ read(v).admin \/ Known(v, "name", x[2]) \/ x[2] \in seen[v].groups
         /\ x[1] = "map" => read(v).admin \/ x[2] \in seen[v].open
    /\ read(v).op = "places" =>
         /\ read(v).admin \/ <<"places", x[2]>> \in seen[v].may
         /\ x[1] \in {"camp", "art"} => read(v).admin \/ x[2] \in seen[v].open

ReaderInv(v) ==
  LET step == view[v].step
      op == read(v).op IN
  /\ step \in {"permission", "places"} => op = "places" /\ read(v).event \in DOMAIN view[v].rows
  /\ step \in {"rules", "answer"} => op = "list"
  /\ step \in {"groups", "records"} => op = "search"
  /\ step = "parents" => op \in {"list", "search"}
  /\ step \notin {"begin", "done"} => SeenNow(v)
  /\ step \notin {"begin", "done"} /\ op \in {"list", "places"} => RowsSeen(v)
  /\ step = "places" => read(v).admin \/ <<"places", read(v).event>> \in seen[v].may
  /\ step = "parents" => RulesSeen(v)
  /\ step \in {"answer", "groups"} => MaySeen(v)
  /\ step = "records" => \A x \in view[v].shown : Known(v, x[1], x[2])
  /\ step = "done" => ShownAllowed(v)

ViewShape ==
  /\ DOMAIN view = Readers /\ DOMAIN seen = Readers
  /\ \A v \in Readers : /\ DOMAIN view[v] = {"step", "rows", "rules", "may", "shown"}
                        /\ DOMAIN seen[v] = {"may", "open", "groups", "unsettled"}

ReadsInv == RowsInv /\ ViewShape /\ \A v \in Readers : ReaderInv(v)

LEMMA InitReads == ReadsInit => ReadsInv
<1> SUFFICES ASSUME ReadsInit PROVE ReadsInv
    OBVIOUS
<1>1. RowsInv
  BY InitRows, ReadsStart
<1>2. ViewShape
  BY DEF ReadsInit, ViewShape, EmptyView, Never
<1>3. ASSUME NEW v \in Readers
      PROVE  ReaderInv(v)
  <2>1. view[v].step \in {"begin", "done"} /\ view[v].shown = {}
    BY DEF ReadsInit, EmptyView
  <2> QED
    BY <2>1 DEF ReaderInv, ShownAllowed
<1> QED
  BY <1>1, <1>2, <1>3 DEF ReadsInv

\* What a step adds to what a reader has seen.
LEMMA Observed ==
  ASSUME ViewShape, Observe, NEW v \in Readers
  PROVE  /\ DOMAIN seen'[v] = {"may", "open", "groups", "unsettled"}
         /\ seen[v].may \subseteq seen'[v].may /\ seen[v].open \subseteq seen'[v].open
         /\ seen[v].groups \subseteq seen'[v].groups
         /\ seen[v].unsettled \subseteq seen'[v].unsettled
         /\ view[v].step # "done" /\ view'[v].step \notin {"begin", "done"} =>
              /\ MayNow(v) \cup MayNow(v)' \subseteq seen'[v].may
              /\ OpenNow(v) \cup OpenNow(v)' \subseteq seen'[v].open
              /\ Groups \cup Groups' \subseteq seen'[v].groups
              /\ Grandchildren \cup Grandchildren' \cup Changed \subseteq seen'[v].unsettled
<1>1. CASE view[v].step = "done" \/ view'[v].step \in {"begin", "done"}
  <2>1. seen'[v] = seen[v]
    BY <1>1 DEF Observe
  <2> QED
    BY <1>1, <2>1 DEF ViewShape
<1>2. CASE ~ (view[v].step = "done" \/ view'[v].step \in {"begin", "done"})
  <2> DEFINE then == Joined(Joined(seen[v], Joined(Moment(v), [Never EXCEPT !.unsettled = Changed])), Moment(v)')
  <2>1. seen'[v] = then
    BY <1>2 DEF Observe
  <2>2. /\ DOMAIN then = {"may", "open", "groups", "unsettled"}
        /\ then.may = (seen[v].may \cup (MayNow(v) \cup {})) \cup MayNow(v)'
        /\ then.open = (seen[v].open \cup (OpenNow(v) \cup {})) \cup OpenNow(v)'
        /\ then.groups = (seen[v].groups \cup (Groups \cup {})) \cup Groups'
        /\ then.unsettled = (seen[v].unsettled \cup (Grandchildren \cup Changed)) \cup Grandchildren'
    BY DEF ViewShape, Joined, Moment, Never
  <2> QED
    BY <2>1, <2>2
<1> QED
  BY <1>1, <1>2

\* What was known stays known, also while Events are given other rows.
LEMMA KnownStays ==
  ASSUME ViewShape, Observe, NEW v \in Readers, NEW right, NEW e
  PROVE  /\ Known(v, right, e) => Known(v, right, e)'
         /\ /\ view[v].step # "done" /\ view'[v].step \notin {"begin", "done"}
            /\ KnownOrGroup(v, right, e)
            => KnownOrGroup(v, right, e)'
<1>1. Known(v, right, e) => Known(v, right, e)'
  BY Observed DEF Known
<1>2. ASSUME view[v].step # "done", view'[v].step \notin {"begin", "done"},
             e \in seen[v].groups, e \in DOMAIN events => events[e].group
      PROVE  KnownOrGroup(v, right, e)'
  <2>1. e \in seen'[v].groups /\ Changed \subseteq seen'[v].unsettled
    BY <1>2, Observed
  <2>2. CASE e \in DOMAIN events' /\ ~ events'[e].group
    <3>1. e \in Changed
      BY <1>2, <2>2 DEF Changed
    <3> QED
      BY <2>1, <3>1 DEF KnownOrGroup, Known
  <2> QED
    BY <2>1, <2>2 DEF KnownOrGroup
<1> QED
  BY <1>1, <1>2 DEF KnownOrGroup

\* A reader that waits while others go on.
LEMMA ReaderWaits ==
  ASSUME ViewShape, Observe, UNCHANGED given, NEW v \in Readers, ReaderInv(v), view'[v] = view[v]
  PROVE  ReaderInv(v)'
<1>0. read(v)' = read(v) /\ \A rules : May(v, rules)' = May(v, rules)
  BY DEF read, May
<1>1. CASE view[v].step = "begin"
  BY <1>1 DEF ReaderInv
<1>2. CASE view[v].step = "done"
  <2>1. ShownAllowed(v)
    BY <1>2 DEF ReaderInv
  <2>2. ShownAllowed(v)'
    <3>1. \A right, e : Known(v, right, e) => Known(v, right, e)'
      BY KnownStays
    <3>2. /\ seen[v].may \subseteq seen'[v].may /\ seen[v].open \subseteq seen'[v].open
          /\ seen[v].groups \subseteq seen'[v].groups
      BY Observed
    <3> QED
      BY <1>0, <2>1, <3>1, <3>2 DEF ShownAllowed
  <2> QED
    BY <1>2, <2>2 DEF ReaderInv
<1>3. CASE view[v].step \notin {"begin", "done"}
  <2>1. /\ MayNow(v)' \subseteq seen'[v].may /\ OpenNow(v)' \subseteq seen'[v].open
        /\ Groups' \subseteq seen'[v].groups /\ Grandchildren' \subseteq seen'[v].unsettled
        /\ Changed \subseteq seen'[v].unsettled
        /\ seen[v].may \subseteq seen'[v].may /\ seen[v].open \subseteq seen'[v].open
    BY <1>3, Observed
  <2>2. SeenNow(v)'
    BY <2>1 DEF SeenNow
  <2>3. \A right, e : Known(v, right, e) => Known(v, right, e)'
    BY KnownStays
  <2>4. \A right, e : KnownOrGroup(v, right, e) => KnownOrGroup(v, right, e)'
    BY <1>3, KnownStays
  <2>5. RowsSeen(v) => RowsSeen(v)'
    BY <1>0, <2>1 DEF RowsSeen
  <2>6. MaySeen(v) => MaySeen(v)'
    BY <2>4 DEF MaySeen
  <2>7. RulesSeen(v) => RulesSeen(v)'
    <3> SUFFICES ASSUME RulesSeen(v)
                 PROVE  RulesSeen(v)'
        OBVIOUS
    <3>1. \A e \in DOMAIN view'[v].rules : \A right \in May(v, view[v].rules[e])' :
            KnownOrGroup(v, right, e)'
      BY <1>0, <2>4 DEF RulesSeen
    <3>2. ASSUME NEW e \in DOMAIN events', events'[e].parent # NoEvent,
                 events'[e].parent \in DOMAIN view[v].rules,
                 NEW right \in May(v, view[v].rules[events'[e].parent])
          PROVE  Known(v, right, e)'
      <4>1. CASE e \in Changed
        BY <2>1, <4>1 DEF Known
      <4>2. CASE e \in DOMAIN events /\ events'[e] = events[e]
        BY <2>3, <3>2, <4>2 DEF RulesSeen
      <4> QED
        BY <4>1, <4>2 DEF Changed
    <3> QED
      BY <1>0, <3>1, <3>2 DEF RulesSeen
  <2> QED
    BY <1>0, <1>3, <2>1, <2>2, <2>3, <2>5, <2>6, <2>7 DEF ReaderInv
<1> QED
  BY <1>1, <1>2, <1>3

\* The rules of an Event, but of a group, and those of its parent give their rights in it.
LEMMA RulesGive ==
  ASSUME NEW v, read(v).op \in {"list", "search"}
  PROVE  /\ \A e \in DOMAIN events : \A right \in May(v, RulesOf(e)) :
              e \in Groups \/ <<right, e>> \in MayNow(v)
         /\ \A e \in DOMAIN events : events[e].parent # NoEvent =>
              \A right \in May(v, RulesOf(events[e].parent)) : <<right, e>> \in MayNow(v)
<1>1. ASSUME NEW e \in DOMAIN events, NEW right \in EventPermissions(e, read(v).person, read(v).now)
      PROVE  <<right, e>> \in MayNow(v)
  BY <1>1 DEF MayNow
<1>2. ASSUME NEW e \in DOMAIN events, NEW right \in May(v, RulesOf(e)), e \notin Groups
      PROVE  <<right, e>> \in MayNow(v)
  <2>1. RulesOf(e) \subseteq EventAndParentAccess(e)
    BY <1>2 DEF EventAndParentAccess, Groups
  <2>2. right \in EventPermissions(e, read(v).person, read(v).now)
    BY <1>2, <2>1, MorePermissions DEF EventPermissions, May
  <2> QED
    BY <1>1, <2>2
<1>3. ASSUME NEW e \in DOMAIN events, events[e].parent # NoEvent,
             NEW right \in May(v, RulesOf(events[e].parent))
      PROVE  <<right, e>> \in MayNow(v)
  <2>1. RulesOf(events[e].parent) \subseteq EventAndParentAccess(e)
    BY <1>3 DEF EventAndParentAccess
  <2>2. right \in EventPermissions(e, read(v).person, read(v).now)
    BY <1>3, <2>1, MorePermissions DEF EventPermissions, May
  <2> QED
    BY <1>1, <2>2
<1> QED
  BY <1>2, <1>3

\* What the rules grant after the parents were looked up, possibly much later.
LEMMA GrantedWasSeen ==
  ASSUME RowsInv, NEW v, SeenNow(v), RulesSeen(v), NEW order \in Orders[DOMAIN events]
  PROVE  LET rules == [e \in DOMAIN events \cup DOMAIN view[v].rules |->
                         IF e \in DOMAIN view[v].rules THEN view[v].rules[e] ELSE {}]
             byEvent == AccessOf(rules, events, order)
         IN  \A e \in DOMAIN byEvent : \A right \in May(v, byEvent[e]) : KnownOrGroup(v, right, e)
<1> DEFINE rules == [e \in DOMAIN events \cup DOMAIN view[v].rules |->
                       IF e \in DOMAIN view[v].rules THEN view[v].rules[e] ELSE {}]
           byEvent == AccessOf(rules, events, order)
<1>1. DOMAIN events \in SUBSET Ids
  BY DEF RowsInv, RangesInv
<1>2. /\ DOMAIN rules = DOMAIN events \cup DOMAIN view[v].rules
      /\ \A e \in DOMAIN view[v].rules : rules[e] = view[v].rules[e]
      /\ \A e \in DOMAIN rules \ DOMAIN view[v].rules : rules[e] = {}
  OBVIOUS
<1> HIDE DEF rules
<1>3. /\ DOMAIN byEvent = DOMAIN rules
      /\ \A e \in DOMAIN rules :
           e \notin DOMAIN events \/ events[e].parent = NoEvent => byEvent[e] = rules[e]
      /\ \A e \in DOMAIN rules \cap DOMAIN events, p \in DOMAIN rules :
           /\ events[e].parent = p /\ p # NoEvent
           /\ p \notin DOMAIN events \/ events[p].parent = NoEvent
           => byEvent[e] = rules[e] \cup rules[p]
  BY <1>1, AccessOfRows
<1> HIDE DEF byEvent
<1>4. ASSUME NEW e \in DOMAIN rules, NEW right \in May(v, rules[e])
      PROVE  KnownOrGroup(v, right, e)
  <2>1. e \in DOMAIN view[v].rules
    BY <1>2, <1>4, MorePermissions DEF May
  <2> QED
    BY <1>2, <1>4, <2>1 DEF RulesSeen
<1>5. ASSUME NEW e \in DOMAIN byEvent, NEW right \in May(v, byEvent[e])
      PROVE  KnownOrGroup(v, right, e)
  <2>1. CASE e \notin DOMAIN events \/ events[e].parent = NoEvent
    BY <1>3, <1>4, <1>5, <2>1
  <2>2. CASE e \in DOMAIN events /\ events[e].parent # NoEvent
    <3> DEFINE p == events[e].parent
    <3>1. p \in DOMAIN events /\ p \in DOMAIN rules
      BY <1>2, <2>2 DEF RowsInv, NothingDangles
    <3>2. CASE events[p].parent # NoEvent
      <4>1. e \in Grandchildren
        BY <2>2, <3>2 DEF Grandchildren
      <4> QED
        BY <4>1 DEF SeenNow, KnownOrGroup, Known
    <3>3. CASE events[p].parent = NoEvent
      <4>1. byEvent[e] = rules[e] \cup rules[p]
        BY <1>2, <1>3, <2>2, <3>1, <3>3
      <4>2. right \in May(v, rules[e]) \/ right \in May(v, rules[p])
        BY <1>5, <4>1, MorePermissions DEF May
      <4>3. ASSUME right \in May(v, rules[p])
            PROVE  Known(v, right, e)
        <5>1. p \in DOMAIN view[v].rules
          BY <1>2, <3>1, <4>3, MorePermissions DEF May
        <5> QED
          BY <1>2, <2>2, <4>3, <5>1 DEF RulesSeen
      <4> QED
        BY <1>2, <1>4, <2>2, <4>2, <4>3 DEF KnownOrGroup
    <3> QED
      BY <3>2, <3>3
  <2> QED
    BY <2>1, <2>2
<1> QED
  BY <1>5 DEF byEvent, rules

\* Who is answered has been shown what it was allowed to see.
LEMMA RepliedAllowed ==
  ASSUME ViewShape, UNCHANGED given, NEW v \in Readers, NEW what, Replied(v, what),
         seen'[v] = seen[v],
         \A x \in what :
            /\ read(v).op \in {"search", "list", "places"}
            /\ read(v).op = "search" => Known(v, x[1], x[2])
            /\ read(v).op = "list" =>
                 /\ read(v).admin \/ Known(v, "name", x[2]) \/ x[2] \in seen[v].groups
                 /\ x[1] = "map" => read(v).admin \/ x[2] \in seen[v].open
            /\ read(v).op = "places" =>
                 /\ read(v).admin \/ <<"places", x[2]>> \in seen[v].may
                 /\ x[1] \in {"camp", "art"} => read(v).admin \/ x[2] \in seen[v].open
  PROVE  ReaderInv(v)'
<1>1. view'[v] = [EmptyView EXCEPT !.step = "done", !.shown = what]
  BY DEF Replied, See, ViewShape
<1>2. view'[v].step = "done" /\ view'[v].shown = what
  BY <1>1 DEF EmptyView
<1>3. read(v)' = read(v)
  BY DEF read
<1>4. \A right, e : Known(v, right, e)' = Known(v, right, e)
  BY DEF Known
<1>5. ShownAllowed(v)'
  BY <1>2, <1>3, <1>4 DEF ShownAllowed
<1> QED
  BY <1>2, <1>5 DEF ReaderInv

LEMMA ReaderReads ==
  ASSUME RowsInv, ViewShape, NEW v \in Readers, ReaderInv(v), Read(v), Observe,
         UNCHANGED <<vars, given>>
  PROVE  ReaderInv(v)'
<1>0. /\ read(v)' = read(v) /\ events' = events /\ given' = given
      /\ \A rules : May(v, rules)' = May(v, rules)
  BY DEF read, May, vars, tables
<1>1. ASSUME view'[v].step = "done"
      PROVE  seen'[v] = seen[v]
  BY <1>1 DEF Observe
<1>2. ASSUME NEW what, Replied(v, what)
      PROVE  seen'[v] = seen[v]
  <2>1. view'[v].step = "done"
    BY <1>2 DEF Replied, See, ViewShape, EmptyView
  <2> QED
    BY <1>1, <2>1
<1>3. ASSUME view[v].step # "done", view'[v].step \notin {"begin", "done"}
      PROVE  /\ SeenNow(v)'
             /\ MayNow(v) \subseteq seen'[v].may /\ OpenNow(v) \subseteq seen'[v].open
             /\ Groups \subseteq seen'[v].groups
             /\ seen[v].open \subseteq seen'[v].open /\ seen[v].may \subseteq seen'[v].may
             /\ \A right, e : Known(v, right, e) => Known(v, right, e)'
             /\ \A right, e : KnownOrGroup(v, right, e) => KnownOrGroup(v, right, e)'
  BY <1>3, Observed, KnownStays DEF SeenNow
<1>4. ASSUME NEW now, See(v, now)
      PROVE  view'[v] = now
  BY <1>4 DEF See, ViewShape
<1>5. DOMAIN view[v] = {"step", "rows", "rules", "may", "shown"}
  BY DEF ViewShape
<1>6. ASSUME Replied(v, {})
      PROVE  ReaderInv(v)'
  BY <1>0, <1>2, <1>6, RepliedAllowed
<1>7. CASE ReadRows(v)
  <2>1. ASSUME NEW step, step \in {"rules", "permission"},
               See(v, [view[v] EXCEPT !.step = step, !.rows = events]),
               view[v].step = "begin",
               step = "rules" => read(v).op = "list",
               step = "permission" => read(v).op = "places" /\ read(v).event \in DOMAIN events
        PROVE  ReaderInv(v)'
    <3>1. view'[v].step = step /\ view'[v].rows = events
      BY <1>4, <1>5, <2>1
    <3>2. SeenNow(v)' /\ OpenNow(v) \subseteq seen'[v].open
      BY <1>3, <2>1, <3>1
    <3>3. RowsSeen(v)'
      BY <1>0, <2>1, <3>1, <3>2 DEF RowsSeen, OpenNow
    <3> QED
      BY <1>0, <2>1, <3>1, <3>2, <3>3 DEF ReaderInv
  <2> QED
    BY <1>6, <1>7, <2>1 DEF ReadRows
<1>8. CASE CheckPlaces(v)
  <2>1. view[v].step = "permission" /\ read(v).op = "places" /\ read(v).event \in DOMAIN view[v].rows
          /\ RowsSeen(v) /\ SeenNow(v)
    BY <1>8 DEF CheckPlaces, ReaderInv
  <2>2. CASE /\ read(v).event \in DOMAIN events /\ PlacesAllowed(v)
             /\ See(v, [view[v] EXCEPT !.step = "places"])
    <3>1. view'[v].step = "places" /\ view'[v].rows = view[v].rows
      BY <1>4, <1>5, <2>2
    <3>2. SeenNow(v)' /\ MayNow(v) \subseteq seen'[v].may /\ seen[v].open \subseteq seen'[v].open
      BY <1>3, <2>1, <3>1
    <3>3. read(v).admin \/ <<"places", read(v).event>> \in seen'[v].may
      BY <2>1, <2>2, <3>2 DEF PlacesAllowed, MayNow
    <3>4. RowsSeen(v)'
      BY <1>0, <2>1, <3>1, <3>2 DEF RowsSeen
    <3> QED
      BY <1>0, <2>1, <3>1, <3>2, <3>3, <3>4 DEF ReaderInv
  <2> QED
    BY <1>6, <1>8, <2>2 DEF CheckPlaces
<1>9. CASE ReadRules(v)
  <2>1. /\ view[v].step \in {"begin", "rules"} /\ read(v).op \in {"list", "search"}
        /\ read(v).op = "list" => RowsSeen(v)
    BY <1>9 DEF ReadRules, ReaderInv
  <2>2. /\ view'[v].step = "parents" /\ view'[v].rows = view[v].rows
        /\ view'[v].rules = [e \in DOMAIN events |-> RulesOf(e)]
    BY <1>4, <1>5, <1>9 DEF ReadRules
  <2>3. /\ SeenNow(v)' /\ seen[v].open \subseteq seen'[v].open
        /\ MayNow(v) \subseteq seen'[v].may /\ Groups \subseteq seen'[v].groups
    BY <1>3, <2>1, <2>2
  <2>4. RulesSeen(v)'
    <3>1. \A e \in DOMAIN events : \A right \in May(v, RulesOf(e)) : KnownOrGroup(v, right, e)'
      <4> SUFFICES ASSUME NEW e \in DOMAIN events, NEW right \in May(v, RulesOf(e))
                   PROVE  KnownOrGroup(v, right, e)'
          OBVIOUS
      <4>1. CASE e \in Groups
        <5>1. e \in seen'[v].groups /\ events'[e].group
          BY <1>0, <2>3, <4>1 DEF Groups
        <5> QED
          BY <5>1 DEF KnownOrGroup
      <4>2. CASE <<right, e>> \in MayNow(v)
        BY <2>3, <4>2 DEF KnownOrGroup, Known
      <4> QED
        BY <2>1, <4>1, <4>2, RulesGive
    <3>2. \A e \in DOMAIN events : events[e].parent # NoEvent =>
            \A right \in May(v, RulesOf(events[e].parent)) : Known(v, right, e)'
      BY <2>1, <2>3, RulesGive DEF Known
    <3> QED
      BY <1>0, <2>2, <3>1, <3>2 DEF RulesSeen
  <2>5. read(v).op = "list" => RowsSeen(v)'
    BY <1>0, <2>1, <2>2, <2>3 DEF RowsSeen
  <2> QED
    BY <1>0, <2>1, <2>2, <2>3, <2>4, <2>5 DEF ReaderInv
<1>10. CASE ReadParents(v)
  <2>1. /\ view[v].step = "parents" /\ read(v).op \in {"list", "search"} /\ SeenNow(v) /\ RulesSeen(v)
        /\ read(v).op = "list" => RowsSeen(v)
    BY <1>10 DEF ReadParents, ReaderInv
  <2> DEFINE rules == [e \in DOMAIN events \cup DOMAIN view[v].rules |->
                         IF e \in DOMAIN view[v].rules THEN view[v].rules[e] ELSE {}]
             then == IF read(v).op = "search" THEN "groups" ELSE "answer"
  <2>2. PICK order \in Orders[DOMAIN events] :
          See(v, [view[v] EXCEPT !.step = then, !.rules = [e \in {} |-> {}],
                                 !.may = [e \in DOMAIN AccessOf(rules, events, order) |->
                                            May(v, AccessOf(rules, events, order)[e])]])
    BY <1>10 DEF ReadParents, May
  <2> DEFINE byEvent == AccessOf(rules, events, order)
  <2>3. \A e \in DOMAIN byEvent : \A right \in May(v, byEvent[e]) : KnownOrGroup(v, right, e)
    BY <2>1, GrantedWasSeen
  <2>4. /\ view'[v].step = then /\ view'[v].rows = view[v].rows
        /\ view'[v].may = [e \in DOMAIN byEvent |-> May(v, byEvent[e])]
    BY <1>4, <1>5, <2>2
  <2> HIDE DEF byEvent
  <2>5. /\ SeenNow(v)' /\ seen[v].open \subseteq seen'[v].open
        /\ \A right, e : KnownOrGroup(v, right, e) => KnownOrGroup(v, right, e)'
    BY <1>3, <2>1, <2>4
  <2>6. MaySeen(v)'
    BY <2>3, <2>4, <2>5 DEF MaySeen
  <2>7. read(v).op = "list" => RowsSeen(v)'
    BY <1>0, <2>1, <2>4, <2>5 DEF RowsSeen
  <2> QED
    BY <1>0, <2>1, <2>4, <2>5, <2>6, <2>7 DEF ReaderInv
<1>11. CASE ReadGroups(v)
  <2>1. view[v].step = "groups" /\ read(v).op = "search" /\ MaySeen(v)
    BY <1>11 DEF ReadGroups, ReaderInv
  <2>2. view'[v].step = "records" /\ view'[v].shown = Searchable(v)
    BY <1>4, <1>5, <1>11 DEF ReadGroups
  <2>3. ASSUME NEW x \in Searchable(v)
        PROVE  Known(v, x[1], x[2])
    <3>1. /\ x[2] \in DOMAIN events /\ ~ events[x[2]].group /\ x[2] \in DOMAIN view[v].may
          /\ x[1] \in view[v].may[x[2]]
      BY <2>3 DEF Searchable
    <3> QED
      BY <2>1, <3>1 DEF MaySeen, KnownOrGroup
  <2>4. SeenNow(v)' /\ \A right, e : Known(v, right, e) => Known(v, right, e)'
    BY <1>3, <2>1, <2>2
  <2> QED
    BY <1>0, <2>1, <2>2, <2>3, <2>4 DEF ReaderInv
<1>12. CASE FindRecords(v)
  <2> DEFINE what == {x \in view[v].shown : \E j \in joins : j.event = x[2]}
  <2>1. read(v).op = "search" /\ \A x \in what : Known(v, x[1], x[2])
    BY <1>12 DEF FindRecords, ReaderInv
  <2>2. Replied(v, what)
    BY <1>12 DEF FindRecords
  <2> HIDE DEF what
  <2> QED
    BY <1>0, <1>2, <2>1, <2>2, RepliedAllowed
<1>13. CASE AnswerList(v)
  <2> DEFINE rows == view[v].rows
             listed == {e \in DOMAIN rows :
                          /\ rows[e].group => read(v).groups
                          /\ \/ read(v).admin
                             \/ e \in DOMAIN view[v].may /\ "name" \in view[v].may[e]}
             what == ({"name"} \X listed)
                       \cup {<<"map", e>> : e \in {e \in listed : rows[e].placed /\
                                             (read(v).admin \/ ~Embargoed(rows[e], read(v).now))}}
  <2>1. read(v).op = "list" /\ RowsSeen(v) /\ MaySeen(v)
    BY <1>13 DEF AnswerList, ReaderInv
  <2>2. Replied(v, what)
    BY <1>13 DEF AnswerList
  <2>3. ASSUME NEW e \in listed
        PROVE  read(v).admin \/ Known(v, "name", e) \/ e \in seen[v].groups
    BY <2>1 DEF MaySeen, KnownOrGroup
  <2>4. ASSUME NEW x \in what
        PROVE  /\ x[2] \in listed
               /\ x[1] = "map" => read(v).admin \/ x[2] \in seen[v].open
    <3>1. CASE x \in {"name"} \X listed
      BY <3>1
    <3>2. CASE x \in {<<"map", e>> : e \in {e \in listed : rows[e].placed /\
                                       (read(v).admin \/ ~Embargoed(rows[e], read(v).now))}}
      BY <2>1, <3>2 DEF RowsSeen
    <3> QED
      BY <2>4, <3>1, <3>2
  <2> HIDE DEF what, listed
  <2> QED
    BY <1>0, <1>2, <2>1, <2>2, <2>3, <2>4, RepliedAllowed
<1>14. CASE ReadPlaces(v)
  <2> DEFINE e == read(v).event
             there == {p.type : p \in {q \in places : q.event = e}}
             what == {<<t, e>> : t \in {t \in there : read(v).admin \/
                        ~LocationsEmbargoed(view[v].rows[e], t, read(v).now)}} \cup {<<"places", e>>}
  <2>1. /\ read(v).op = "places" /\ RowsSeen(v) /\ e \in DOMAIN view[v].rows
        /\ read(v).admin \/ <<"places", e>> \in seen[v].may
    BY <1>14 DEF ReadPlaces, ReaderInv
  <2>2. Replied(v, what)
    BY <1>14 DEF ReadPlaces
  <2>3. ASSUME NEW x \in what
        PROVE  /\ x[2] = e
               /\ x[1] \in {"camp", "art"} => read(v).admin \/ e \in seen[v].open
    BY <2>1 DEF RowsSeen, LocationsEmbargoed
  <2> HIDE DEF what
  <2> QED
    BY <1>0, <1>2, <2>1, <2>2, <2>3, RepliedAllowed
<1>15. CASE ReadFails(v)
  BY <1>6, <1>15 DEF ReadFails
<1> QED
  BY <1>7, <1>8, <1>9, <1>10, <1>11, <1>12, <1>13, <1>14, <1>15 DEF Read

LEMMA NextReads == ReadsInv /\ [ReadsNext]_allVars => ReadsInv'
<1> SUFFICES ASSUME ReadsInv, [ReadsNext]_allVars
             PROVE  ReadsInv'
    OBVIOUS
<1>0. RowsInv /\ ViewShape /\ \A v \in Readers : ReaderInv(v)
  BY DEF ReadsInv
<1>1. RowsInv'
  BY <1>0, ReadsStep, NextRanges, NextSnapshot, NextNothingDangles DEF RowsInv
<1>2. CASE Observe /\ UNCHANGED <<given, view>>
  <2>1. ViewShape'
    BY <1>0, <1>2, Observed DEF ViewShape, Observe
  <2>2. \A v \in Readers : ReaderInv(v)'
    BY <1>0, <1>2, ReaderWaits
  <2> QED
    BY <1>1, <2>1, <2>2 DEF ReadsInv
<1>3. ASSUME NEW v \in Readers, Read(v), Observe, UNCHANGED <<vars, given>>
      PROVE  ReadsInv'
  <2>0. DOMAIN view[v] = {"step", "rows", "rules", "may", "shown"}
    BY <1>0 DEF ViewShape
  <2>1. ASSUME NEW now, See(v, now)
        PROVE  /\ DOMAIN view' = Readers
               /\ view'[v] = now
               /\ \A u \in Readers : u # v => view'[u] = view[u]
    BY <1>0, <2>1 DEF See, ViewShape
  <2>2. /\ DOMAIN view' = Readers
        /\ DOMAIN view'[v] = {"step", "rows", "rules", "may", "shown"}
        /\ \A u \in Readers : u # v => view'[u] = view[u]
    <3>1. ASSUME NEW what, Replied(v, what)
          PROVE  /\ DOMAIN view' = Readers
                 /\ DOMAIN view'[v] = {"step", "rows", "rules", "may", "shown"}
                 /\ \A u \in Readers : u # v => view'[u] = view[u]
      <4>1. See(v, [EmptyView EXCEPT !.step = "done", !.shown = what])
        BY <3>1 DEF Replied
      <4>2. DOMAIN [EmptyView EXCEPT !.step = "done", !.shown = what]
              = {"step", "rows", "rules", "may", "shown"}
        BY DEF EmptyView
      <4> QED
        BY <2>1, <4>1, <4>2
    <3>2. CASE ReadRows(v)
      BY <1>0, <2>0, <3>1, <3>2 DEF ReadRows, See, ViewShape
    <3>3. CASE CheckPlaces(v)
      BY <1>0, <2>0, <3>1, <3>3 DEF CheckPlaces, See, ViewShape
    <3>4. CASE ReadRules(v)
      BY <1>0, <2>0, <3>4 DEF ReadRules, See, ViewShape
    <3>5. CASE ReadParents(v)
      BY <1>0, <2>0, <3>5 DEF ReadParents, See, ViewShape
    <3>6. CASE ReadGroups(v)
      BY <1>0, <2>0, <3>6 DEF ReadGroups, See, ViewShape
    <3>7. CASE FindRecords(v) \/ AnswerList(v) \/ ReadPlaces(v) \/ ReadFails(v)
      BY <3>1, <3>7 DEF FindRecords, AnswerList, ReadPlaces, ReadFails
    <3> QED
      BY <1>3, <3>2, <3>3, <3>4, <3>5, <3>6, <3>7 DEF Read
  <2>3. ViewShape'
    BY <1>0, <1>3, <2>2, Observed DEF ViewShape, Observe
  <2>4. ASSUME NEW u \in Readers
        PROVE  ReaderInv(u)'
    <3>1. CASE u = v
      BY <1>0, <1>3, <3>1, ReaderReads
    <3>2. CASE u # v
      BY <1>0, <1>3, <2>2, <3>2, ReaderWaits
    <3> QED
      BY <3>1, <3>2
  <2> QED
    BY <1>1, <2>3, <2>4 DEF ReadsInv
<1>4. CASE UNCHANGED <<vars, given, view, seen>>
  <2>1. ViewShape'
    BY <1>0, <1>4 DEF ViewShape
  <2>2. ASSUME NEW v \in Readers
        PROVE  ReaderInv(v)' <=> ReaderInv(v)
    <3>1. /\ events' = events /\ access' = access /\ view' = view /\ seen' = seen /\ given' = given
      BY <1>4 DEF vars, tables
    <3> QED
      BY <3>1 DEF ReaderInv, SeenNow, RowsSeen, RulesSeen, MaySeen, ShownAllowed, KnownOrGroup, Known,
           read, MayNow, OpenNow, Groups, Grandchildren, May, EventPermissions, EventAndParentAccess,
           RulesOf
  <2> QED
    BY <1>0, <1>1, <2>1, <2>2 DEF ReadsInv
<1>5. \/ Observe /\ UNCHANGED <<given, view>>
      \/ \E v \in Readers : Read(v) /\ Observe /\ UNCHANGED <<vars, given>>
      \/ UNCHANGED <<vars, given, view, seen>>
  BY DEF ReadsNext, allVars, readVars, Finishing, Finished
<1> QED
  BY <1>2, <1>3, <1>4, <1>5

\* However rules, rows, groups and records change between the queries of one request,
\* nobody is shown anything of an Event by a right they had at no moment of it, nor a map
\* or a location that was under embargo all the while, but for the exceptions that the
\* property names.
THEOREM ReadersWereAllowed == ReadsSpec => []ReadsWereAllowed
<1>1. ReadsInv => ReadsWereAllowed
  BY DEF ReadsInv, ReaderInv, ShownAllowed, Known, ReadsWereAllowed
<1> QED
  BY <1>1, InitReads, NextReads, PTL DEF ReadsSpec
=============================================================================
