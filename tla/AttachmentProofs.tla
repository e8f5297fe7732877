-------------------------- MODULE AttachmentProofs --------------------------
(***************************************************************************)
(* Proofs about Attachment, for any number of requests and of Incidents:   *)
(* no column is written back, and the pages of the Incidents converge; and *)
(* about LivePages, for any number of changes, pages and restarts: a page  *)
(* that has caught up shows what is stored.                                *)
(***************************************************************************)
EXTENDS Attachment, LivePages, SequenceTheorems, TLAPS

\* What the steps and the answers range over.
ShapeInv ==
  /\ kind \in {"fieldReport", "visit"}
  /\ pc \in [Requests -> Steps]
  /\ reply \in [Requests -> Replies]
  /\ tell \in [Requests -> SUBSET (Pages \cup {"record"})]
  /\ toFetch \subseteq Pages
  /\ DOMAIN page = Pages
  /\ \A r \in Requests : reply[r] # "none" => pc[r] = "done"

\* What was read is the present row unless VERSION moved on since.
ReadInv ==
  /\ version \in Nat
  /\ DOMAIN seen = Requests
  /\ \A r \in Requests : /\ seen[r].version \in Nat /\ seen[r].version <= version
                         /\ seen[r].version = version => seen[r].row = row

\* Who will still make every page fetch: a link that is stored without its entry, or
\* whose event for the record itself is not out yet.
Owes(r) == pc[r] = "entry" \/ (pc[r] = "notify" /\ "record" \in tell[r])

\* The pages an event for the record reaches.
Followed(p) == p \in Incidents \/ (p = "record" /\ kind = "visit")

PageInv ==
  \A p \in Pages : Followed(p) =>
    page[p] = Shown(p) \/ p \in toFetch \/ p \in untold \/ \E r \in Requests : Owes(r)

IInv == ShapeInv /\ ReadInv /\ NoEditReverted /\ PageInv
-----------------------------------------------------------------------------
\* The record's own event is among those of every edit, and reaches every page
\* that follows the record.
LEMMA RecordIsTold ==
  /\ \A r \in Requests : "record" \in Told(r)
  /\ \A r \in Requests : Told(r) \subseteq Pages
  /\ \A p \in Pages : Followed(p) => Hears(p, "record")
<1>1. "record" \notin Incidents
  BY AttachmentAssumption
<1> QED
  BY <1>1 DEF Told, Followed, Hears, Pages

\* Steps that touch neither the row nor what it was read as.
LEMMA ReadStays ==
  ASSUME ReadInv, UNCHANGED <<row, version, seen>>
  PROVE  ReadInv'
BY DEF ReadInv

\* Steps that leave the row, the pages and the events alone: whoever owes still does.
LEMMA PagesStay ==
  ASSUME PageInv, UNCHANGED <<kind, row, page, toFetch, untold>>,
         \A r \in Requests : Owes(r) => Owes(r)'
  PROVE  PageInv'
<1>1. \A p \in Pages : Shown(p)' = Shown(p) /\ (Followed(p)' <=> Followed(p))
  BY DEF Shown, Followed
<1> QED
  BY <1>1 DEF PageInv

\* Who has written the row owes the pages a fetch,
LEMMA WriterOwes ==
  ASSUME NEW r \in Requests, Owes(r)'
  PROVE  PageInv'
BY DEF PageInv

\* or has left them without one.
LEMMA WriterGone ==
  ASSUME Outdated' \subseteq untold'
  PROVE  PageInv'
BY DEF PageInv, Outdated

LEMMA NextShapeInv == ShapeInv /\ [Next]_vars => ShapeInv'
<1> SUFFICES ASSUME ShapeInv, [Next]_vars
             PROVE  ShapeInv'
    OBVIOUS
<1> USE DEF Steps, Replies
<1>1. ASSUME NEW r \in Requests, NEW s \in Steps, NEW a \in Replies,
             pc[r] # "done", kind' = kind, page' = page,
             toFetch' = toFetch \/ toFetch' \subseteq Pages,
             tell' = tell \/ \E t \in SUBSET Pages : tell' = [tell EXCEPT ![r] = t],
             \/ pc' = [pc EXCEPT ![r] = s] /\ reply' = reply
             \/ pc' = [pc EXCEPT ![r] = "done"] /\ reply' = [reply EXCEPT ![r] = a]
             \/ pc' = pc /\ reply' = reply
      PROVE  ShapeInv'
  <2>1. pc' \in [Requests -> Steps] /\ reply' \in [Requests -> Replies]
    BY <1>1 DEF ShapeInv
  <2>2. tell' \in [Requests -> SUBSET (Pages \cup {"record"})]
    BY <1>1 DEF ShapeInv
  <2>3. \A q \in Requests : reply'[q] # "none" => pc'[q] = "done"
    BY <1>1 DEF ShapeInv
  <2> QED
    BY <1>1, <2>1, <2>2, <2>3 DEF ShapeInv
<1>2. ASSUME NEW r \in Requests, Handle(r)
      PROVE  ShapeInv'
  <2>1. CASE Read(r)
    BY <1>1, <2>1 DEF Read
  <2>2. CASE LinkUpdate(r)
    BY <1>1, <2>2 DEF LinkUpdate
  <2>3. CASE LinkEntry(r)
    BY <1>1, <2>3, RecordIsTold DEF LinkEntry
  <2>4. CASE GuardedUpdate(r)
    BY <1>1, <2>4, RecordIsTold DEF GuardedUpdate
  <2>5. CASE GuardedConflict(r)
    BY <1>1, <2>5 DEF GuardedConflict, Answer
  <2>6. CASE NoSuchIncident(r)
    BY <1>1, <2>6 DEF NoSuchIncident, Answer
  <2>7. CASE Notify(r)
    <3>1. PICK e \in tell[r] :
            /\ toFetch' = toFetch \cup {p \in Pages : Hears(p, e)}
            /\ tell' = [tell EXCEPT ![r] = @ \ {e}]
            /\ IF tell[r] = {e} THEN Answer(r, "success") ELSE UNCHANGED <<pc, reply>>
      BY <2>7 DEF Notify
    <3>2. tell[r] \ {e} \in SUBSET Pages
      BY DEF ShapeInv, Pages
    <3>3. tell' = [tell EXCEPT ![r] = tell[r] \ {e}]
      BY <3>1
    <3>4. toFetch' \subseteq Pages /\ pc[r] # "done" /\ kind' = kind /\ page' = page
      BY <2>7, <3>1 DEF ShapeInv, Notify
    <3> QED
      BY <1>1, <3>1, <3>2, <3>3, <3>4 DEF Answer
  <2>8. CASE DatabaseError(r)
    BY <1>1, <2>8 DEF DatabaseError, Answer
  <2>9. CASE AcknowledgementLost(r)
    BY <1>1, <2>9 DEF AcknowledgementLost, Answer
  <2> QED
    BY <1>2, <2>1, <2>2, <2>3, <2>4, <2>5, <2>6, <2>7, <2>8, <2>9 DEF Handle
<1>3. ASSUME NEW p \in Pages, Fetch(p)
      PROVE  ShapeInv'
  BY <1>3 DEF Fetch, ShapeInv
<1>4. CASE UNCHANGED vars
  BY <1>4 DEF vars, ShapeInv
<1> QED
  BY <1>2, <1>3, <1>4 DEF Next, Finished

\* A step moves VERSION on whenever it changes the row, and then writes the request's
\* column over the row as it is: the guard of the one statement, and that the other
\* names a single column, make sure of it.
LEMMA RowSteps ==
  ASSUME ReadInv, Next
  PROVE  \/ UNCHANGED <<row, version, last, seen>>
         \/ /\ UNCHANGED <<row, version, last>>
            /\ \E r \in Requests :
                 seen' = [seen EXCEPT ![r] = [row |-> row, version |-> version]]
         \/ /\ seen' = seen /\ version' = version + 1
            /\ \E r \in Requests : row' = Over(row, patch[r]) /\ last' = Over(last, patch[r])
<1>1. ASSUME NEW r \in Requests, Read(r)
      PROVE  /\ UNCHANGED <<row, version, last>>
             /\ seen' = [seen EXCEPT ![r] = [row |-> row, version |-> version]]
  BY <1>1 DEF Read
<1>2. ASSUME NEW r \in Requests, LinkUpdate(r) \/ GuardedUpdate(r) \/ AcknowledgementLost(r)
      PROVE  /\ seen' = seen /\ version' = version + 1
             /\ row' = Over(row, patch[r]) /\ last' = Over(last, patch[r])
  <2>1. CASE LinkUpdate(r)
    BY <2>1 DEF LinkUpdate
  <2>2. CASE GuardedUpdate(r)
    <3>1. seen[r].row = row
      BY <2>2 DEF GuardedUpdate, ReadInv
    <3> QED
      BY <2>2, <3>1 DEF GuardedUpdate
  <2>3. CASE AcknowledgementLost(r)
    <3>1. Guarded(r) => seen[r].row = row
      BY <2>3 DEF AcknowledgementLost, ReadInv
    <3> QED
      BY <2>3, <3>1 DEF AcknowledgementLost
  <2> QED
    BY <1>2, <2>1, <2>2, <2>3
<1>3. ASSUME NEW r \in Requests,
             \/ LinkEntry(r) \/ GuardedConflict(r) \/ NoSuchIncident(r)
             \/ Notify(r) \/ DatabaseError(r)
      PROVE  UNCHANGED <<row, version, last, seen>>
  BY <1>3 DEF LinkEntry, GuardedConflict, NoSuchIncident, Notify, DatabaseError
<1>4. ASSUME NEW p \in Pages, Fetch(p)
      PROVE  UNCHANGED <<row, version, last, seen>>
  BY <1>4 DEF Fetch
<1>5. Finished => UNCHANGED <<row, version, last, seen>>
  BY DEF Finished, vars
<1> QED
  BY <1>1, <1>2, <1>3, <1>4, <1>5, Zenon DEF Next, Handle

LEMMA NextReadInv == ReadInv /\ NoEditReverted /\ [Next]_vars => ReadInv' /\ NoEditReverted'
<1> SUFFICES ASSUME ReadInv, NoEditReverted, [Next]_vars
             PROVE  ReadInv' /\ NoEditReverted'
    OBVIOUS
<1>1. CASE UNCHANGED <<row, version, last, seen>>
  BY <1>1 DEF ReadInv, NoEditReverted
<1>2. ASSUME UNCHANGED <<row, version, last>>, NEW r \in Requests,
             seen' = [seen EXCEPT ![r] = [row |-> row, version |-> version]]
      PROVE  ReadInv' /\ NoEditReverted'
  BY <1>2 DEF ReadInv, NoEditReverted
<1>3. ASSUME seen' = seen, version' = version + 1, NEW r \in Requests,
             row' = Over(row, patch[r]), last' = Over(last, patch[r])
      PROVE  ReadInv' /\ NoEditReverted'
  <2>1. row' = last'
    BY <1>3 DEF NoEditReverted
  <2>2. \A q \in Requests : seen[q].version \in Nat /\ seen[q].version <= version /\ version \in Nat
    BY DEF ReadInv
  <2>3. \A q \in Requests : seen'[q].version <= version' /\ seen'[q].version # version'
    BY <1>3, <2>2
  <2> QED
    BY <1>3, <2>1, <2>2, <2>3 DEF ReadInv, NoEditReverted
<1>4. UNCHANGED vars => UNCHANGED <<row, version, last, seen>>
  BY DEF vars
<1> QED
  BY <1>1, <1>2, <1>3, <1>4, RowSteps

\* Whoever writes the row owes the pages its event until that is out; then they fetch.
LEMMA NextPageInv == ShapeInv /\ PageInv /\ [Next]_vars => PageInv'
<1> SUFFICES ASSUME ShapeInv, PageInv, [Next]_vars
             PROVE  PageInv'
    OBVIOUS
<1>0. DOMAIN pc = Requests /\ DOMAIN tell = Requests /\ DOMAIN page = Pages
  BY DEF ShapeInv
<1>1. ASSUME NEW r \in Requests, Read(r)
      PROVE  PageInv'
  <2>1. /\ UNCHANGED <<kind, row, page, toFetch, tell, untold>>
        /\ pc[r] = "read" /\ pc' = [pc EXCEPT ![r] = "update"]
    BY <1>1 DEF Read
  <2>2. \A q \in Requests : Owes(q) => Owes(q)'
    BY <1>0, <2>1 DEF Owes
  <2> QED
    BY <2>1, <2>2, PagesStay
<1>2. ASSUME NEW r \in Requests, LinkUpdate(r)
      PROVE  PageInv'
  <2>1. pc'[r] = "entry"
    BY <1>0, <1>2 DEF LinkUpdate
  <2>2. Owes(r)'
    BY <2>1 DEF Owes
  <2> QED
    BY <2>2, WriterOwes
<1>3. ASSUME NEW r \in Requests, LinkEntry(r) \/ GuardedUpdate(r)
      PROVE  PageInv'
  <2>1. pc'[r] = "notify" /\ tell'[r] = Told(r)
    BY <1>0, <1>3 DEF LinkEntry, GuardedUpdate
  <2>2. Owes(r)'
    BY <2>1, RecordIsTold DEF Owes
  <2> QED
    BY <2>2, WriterOwes
<1>4. ASSUME NEW r \in Requests, GuardedConflict(r) \/ NoSuchIncident(r)
      PROVE  PageInv'
  <2>1. /\ UNCHANGED <<kind, row, page, toFetch, tell, untold>> /\ pc[r] = "update"
        /\ pc' = [pc EXCEPT ![r] = "read"] \/ pc' = [pc EXCEPT ![r] = "done"]
    BY <1>4 DEF GuardedConflict, NoSuchIncident, Answer
  <2>2. \A q \in Requests : Owes(q) => Owes(q)'
    BY <1>0, <2>1 DEF Owes
  <2> QED
    BY <2>1, <2>2, PagesStay
<1>5. ASSUME NEW r \in Requests, DatabaseError(r)
      PROVE  PageInv'
  <2>1. /\ UNCHANGED <<kind, row, page, toFetch, tell>> /\ pc[r] \in {"read", "update", "entry"}
        /\ pc' = [pc EXCEPT ![r] = "done"]
        /\ untold' = IF pc[r] = "entry" THEN untold \cup Outdated ELSE untold
    BY <1>5 DEF DatabaseError, Answer
  <2>2. CASE pc[r] = "entry"
    <3>1. Outdated' = Outdated
      BY <2>1 DEF Outdated, Shown
    <3> QED
      BY <2>1, <2>2, <3>1, WriterGone
  <2>3. CASE pc[r] # "entry"
    <3>1. \A q \in Requests : Owes(q) => Owes(q)'
      BY <1>0, <2>1, <2>3 DEF Owes
    <3> QED
      BY <2>1, <2>3, <3>1, PagesStay
  <2> QED
    BY <2>2, <2>3
<1>51. ASSUME NEW r \in Requests, AcknowledgementLost(r)
       PROVE  PageInv'
  BY <1>51, WriterGone DEF AcknowledgementLost
<1>6. ASSUME NEW r \in Requests, Notify(r)
      PROVE  PageInv'
  <2>1. PICK e \in tell[r] :
          /\ toFetch' = toFetch \cup {p \in Pages : Hears(p, e)}
          /\ tell' = [tell EXCEPT ![r] = @ \ {e}]
          /\ IF tell[r] = {e} THEN Answer(r, "success") ELSE UNCHANGED <<pc, reply>>
    BY <1>6 DEF Notify
  <2>2. UNCHANGED <<kind, row, page, untold>> /\ pc[r] = "notify"
    BY <1>6 DEF Notify
  <2>3. CASE e = "record"
    <3>1. \A p \in Pages : Followed(p) => p \in toFetch'
      BY <2>1, <2>3, RecordIsTold
    <3>2. \A p : Followed(p)' <=> Followed(p)
      BY <2>2 DEF Followed
    <3> QED
      BY <3>1, <3>2 DEF PageInv
  <2>4. CASE e # "record" /\ "record" \in tell[r]
    <3>1. tell[r] # {e} /\ UNCHANGED <<pc, reply>>
      BY <2>1, <2>4
    <3>2. "record" \in tell'[r] /\ pc'[r] = "notify"
      BY <1>0, <2>1, <2>2, <2>4, <3>1
    <3>3. Owes(r)'
      BY <3>2 DEF Owes
    <3> QED
      BY <3>3, WriterOwes
  <2>5. CASE "record" \notin tell[r]
    <3>1. ~Owes(r)
      BY <2>2, <2>5 DEF Owes
    <3>2. ASSUME NEW q \in Requests \ {r}
          PROVE  pc'[q] = pc[q] /\ tell'[q] = tell[q]
      BY <1>0, <2>1 DEF Answer
    <3>3. \A q \in Requests : Owes(q) => Owes(q)'
      BY <3>1, <3>2 DEF Owes
    <3>4. \A p : /\ Followed(p)' <=> Followed(p)
                 /\ Shown(p)' = Shown(p)
      BY <2>2 DEF Followed, Shown
    <3> QED
      BY <2>1, <2>2, <3>3, <3>4 DEF PageInv
  <2> QED
    BY <2>3, <2>4, <2>5
<1>7. ASSUME NEW p \in Pages, Fetch(p)
      PROVE  PageInv'
  <2>1. /\ UNCHANGED <<kind, row, pc, tell>> /\ untold' = untold \ {p}
        /\ toFetch' = toFetch \ {p} /\ page' = [page EXCEPT ![p] = Shown(p)]
    BY <1>7 DEF Fetch
  <2>2. \A q \in Requests : Owes(q)' <=> Owes(q)
    BY <2>1 DEF Owes
  <2>3. \A o : /\ Followed(o)' <=> Followed(o)
               /\ Shown(o)' = Shown(o)
    BY <2>1 DEF Followed, Shown
  <2>4. page'[p] = Shown(p)
    BY <1>0, <2>1
  <2>5. \A o \in Pages \ {p} : /\ page'[o] = page[o] /\ (o \in toFetch => o \in toFetch')
                               /\ o \in untold => o \in untold'
    BY <1>0, <2>1
  <2> SUFFICES ASSUME NEW o \in Pages, Followed(o)
               PROVE  page'[o] = Shown(o) \/ o \in toFetch' \/ o \in untold'
                        \/ \E q \in Requests : Owes(q)
      BY <2>2, <2>3 DEF PageInv
  <2>6. CASE o = p
    BY <2>4, <2>6
  <2>7. CASE o # p
    <3>1. page[o] = Shown(o) \/ o \in toFetch \/ o \in untold \/ \E q \in Requests : Owes(q)
      BY DEF PageInv
    <3>2. page'[o] = page[o] /\ (o \in toFetch => o \in toFetch') /\ (o \in untold => o \in untold')
      BY <2>5, <2>7
    <3> QED
      BY <3>1, <3>2
  <2> QED
    BY <2>6, <2>7
<1>8. CASE UNCHANGED vars
  <2>1. UNCHANGED <<kind, row, page, toFetch, untold, pc, tell>>
    BY <1>8 DEF vars
  <2> QED
    BY <2>1, PagesStay DEF Owes
<1> QED
  BY <1>1, <1>2, <1>3, <1>4, <1>5, <1>51, <1>6, <1>7, <1>8, Zenon DEF Next, Handle, Finished

LEMMA InitIInv == Init => IInv
<1> SUFFICES ASSUME Init
             PROVE  IInv
    OBVIOUS
<1>1. ShapeInv
  BY DEF Init, ShapeInv, Steps, Replies
<1>2. ReadInv /\ NoEditReverted
  BY DEF Init, ReadInv, NoEditReverted
<1>3. \A p \in Pages : page[p] = Shown(p)
  BY DEF Init, Shown
<1> QED
  BY <1>1, <1>2, <1>3 DEF IInv, PageInv

LEMMA NextIInv == IInv /\ [Next]_vars => IInv'
BY NextShapeInv, NextReadInv, NextPageInv DEF IInv

\* Neither does a guarded edit take an attachment back that it has not seen, nor the
\* unguarded attachment an edit, however many of both there are at once.
THEOREM NothingIsReverted == Spec => []NoEditReverted
<1>1. IInv => NoEditReverted
  BY DEF IInv
<1> QED
  BY <1>1, InitIInv, NextIInv, PTL DEF Spec

\* When all is answered and fetched, the page of every Incident and of the Visit shows
\* what is stored, whichever order the edits, the events and the fetches came in, unless
\* it missed a change whose request was answered with an error, and has not fetched since.
THEOREM PagesSettle == Spec => []PagesConverge
<1>1. IInv => PagesConverge
  <2> SUFFICES ASSUME IInv, Quiet
               PROVE  /\ \A i \in Incidents : page[i] = Shown(i) \/ i \in untold
                      /\ kind = "visit" => page["record"] = row \/ "record" \in untold
      BY DEF PagesConverge
  <2>1. toFetch = {} /\ \A r \in Requests : ~Owes(r)
    BY DEF Quiet, Owes
  <2>2. \A p \in Pages : Followed(p) => page[p] = Shown(p) \/ p \in untold
    BY <2>1 DEF IInv, PageInv
  <2>3. \A i \in Incidents : i \in Pages /\ Followed(i)
    BY DEF Pages, Followed
  <2>4. kind = "visit" => "record" \in Pages /\ Followed("record") /\ Shown("record") = row
    BY DEF Pages, Followed, Shown
  <2> QED
    BY <2>2, <2>3, <2>4
<1> QED
  BY <1>1, InitIInv, NextIInv, PTL DEF Spec
-----------------------------------------------------------------------------
\* What is published or received in this run of the server was handed out
\* in it, and no two handlers hold the same number.  A handler that has committed has
\* changed a record.
NumbersInv ==
  /\ latest \in Nat /\ latest <= counter
  /\ overtaken \in BOOLEAN
  /\ run \in Nat
  /\ lastSseId \in [id : Int, run : 0 .. run]
  /\ lastSseId.run = run => lastSseId.id <= counter
  /\ \A c \in Changes :
       change[c].step \in {"committed", "numbered"} => change[c].record \in Records
  /\ \A c \in Changes : change[c].step = "numbered" =>
       /\ change[c].id <= counter
       /\ \A d \in Changes : change[d].step = "numbered" /\ change[d].id = change[c].id => d = c

\* The wire: the InitialEvent comes first, and the events after it are in the order
\* of their numbers unless one of them was overtaken.
WireInv ==
  /\ wire \in Seq([type : Records \cup {"initial"}, id : Nat])
  /\ ~connected => wire = <<>>
  /\ \A i \in 1 .. Len(wire) :
       /\ wire[i].id <= counter
       /\ wire[i].type = "initial" => i = 1
       /\ wire[i].type # "initial" =>
            /\ wire[i].id <= latest
            /\ \A c \in Changes : change[c].step = "numbered" => change[c].id # wire[i].id
            /\ \A j \in 1 .. Len(wire) : i < j => wire[i].id < wire[j].id \/ overtaken

\* The browser has not caught up with number n.
Ahead(n) == lastSseId.run # run \/ lastSseId.id < n \/ overtaken

\* Page p shows an old state and nothing is known to p that would change it.
Behind(p) ==
  /\ pageState[p] \in {"loading", "listening"}
  /\ excuse[p] = {}
  /\ asked[p] = 0
  /\ stored[Subject[p]] \notin answers[p]
  /\ shown[p] # stored[Subject[p]]

\* The pages that hear both the events of their record and update_all.
Following(p) == Subject[p] = "incident" \/ (Subject[p] = "fieldReport" /\ p \in Table)

ChangeOf(p, c, step) == change[c].record = Subject[p] /\ change[c].step = step

\* Something is on its way that will make p fetch, or excuse it: a handler that has
\* committed; one with a number the browser has yet to pass; its event; the
\* InitialEvent that shows a gap; or the gap that the next one will show.
Coming(p) ==
  \/ \E c \in Changes : ChangeOf(p, c, "committed")
  \/ \E c \in Changes :
       ChangeOf(p, c, "numbered") /\ (Ahead(change[c].id) \/ change[c].id < latest)
  \/ \E i \in 1 .. Len(wire) : wire[i].type \in {Subject[p], "initial"} /\ Ahead(wire[i].id)
  \/ ~connected /\ Ahead(counter)

FollowInv == \A p \in BrowserPages : Following(p) /\ Behind(p) => Coming(p)

LiveInv == LiveTypeOK /\ NumbersInv /\ WireInv /\ FollowInv

-----------------------------------------------------------------------------
LEMMA LiveStepCases ==
  ASSUME [LiveNext]_liveVars
  PROVE  \/ \E c \in Changes :
              TakeNumber(c) \/ Publish(c) \/ NeverPublish(c) \/ \E k \in Records : Commit(c, k)
         \/ \E p \in BrowserPages :
              \/ Lead(p) \/ Serve(p) \/ Draw(p) \/ Listen(p)
              \/ Open(p) \/ FetchFails(p) \/ Close(p)
         \/ Connect \/ ReceiveInitial \/ ReceiveUpdate \/ Drop \/ Restart
         \/ UNCHANGED liveVars
BY DEF LiveNext, Deliver

LEMMA InitLiveInv == LiveInit => LiveInv
<1> SUFFICES ASSUME LiveInit
             PROVE  LiveInv
    OBVIOUS
<1>1. LiveTypeOK
  <2>1. \A p \in BrowserPages : Subject[p] \in Records
    BY PagesAssumption
  <2>2. \A i \in DOMAIN wire : wire[i].type \in Records \cup {"initial"}
    BY DEF LiveInit
  <2>3. \A p \in BrowserPages : \A v \in answers[p] \cup {shown[p]} : v <= stored[Subject[p]]
    BY <2>1 DEF LiveInit
  <2> QED
    BY <2>2, <2>3 DEF LiveInit, LiveTypeOK, Idle
<1>2. NumbersInv
  <2>1. \A c \in Changes : change[c].step = "idle"
    BY DEF LiveInit, Idle
  <2>2. lastSseId \in [id : Int, run : 0 .. run] /\ lastSseId.id = -1
    BY DEF LiveInit
  <2>3. overtaken \in BOOLEAN /\ latest = 0 /\ counter = 0 /\ run = 0
    BY DEF LiveInit
  <2> QED
    BY <2>1, <2>2, <2>3 DEF NumbersInv
<1>3. WireInv
  BY DEF LiveInit, WireInv
<1>4. FollowInv
  BY DEF LiveInit, FollowInv, Behind
<1> QED
  BY <1>1, <1>2, <1>3, <1>4 DEF LiveInv

LEMMA NextNumbersInv == LiveTypeOK /\ NumbersInv /\ WireInv /\ [LiveNext]_liveVars => NumbersInv'
<1> SUFFICES ASSUME LiveTypeOK, NumbersInv, WireInv, [LiveNext]_liveVars
             PROVE  NumbersInv'
    OBVIOUS
<1> USE DEF NumbersInv, server, browser, pages
<1>0. /\ change = [c \in Changes |-> change[c]] /\ counter \in Nat /\ latest \in Nat
      /\ \A c \in Changes : change[c] = [step |-> change[c].step, record |-> change[c].record,
                                         id |-> change[c].id] /\ change[c].id \in Nat
      /\ lastSseId.id \in Int /\ lastSseId.run \in Nat
  BY DEF LiveTypeOK
<1>1. ASSUME UNCHANGED <<change, counter, latest, overtaken, run, lastSseId>>
      PROVE  NumbersInv'
  BY <1>1
<1>2. ASSUME NEW c \in Changes, TakeNumber(c)
      PROVE  NumbersInv'
  <2>1. change'[c].step = "numbered" /\ change'[c].id = counter + 1
    BY <1>2 DEF TakeNumber, LiveTypeOK
  <2>2. \A d \in Changes : d # c => change'[d] = change[d]
    BY <1>2 DEF TakeNumber, LiveTypeOK
  <2>3. /\ counter' = counter + 1
        /\ UNCHANGED <<latest, overtaken, run, lastSseId>>
    BY <1>2 DEF TakeNumber
  <2>4. /\ change'[c].record \in Records
        /\ \A d \in Changes : change'[d].step = "numbered" => change'[d].id <= counter'
    BY <1>0, <1>2, <2>1, <2>2, <2>3 DEF TakeNumber, LiveTypeOK
  <2>5. ASSUME NEW d \in Changes, change'[d].step = "numbered"
        PROVE  \A e \in Changes :
                 change'[e].step = "numbered" /\ change'[e].id = change'[d].id => e = d
    BY <1>0, <2>1, <2>2, <2>3, <2>5
  <2>6. /\ latest' \in Nat /\ latest' <= counter' /\ overtaken' \in BOOLEAN /\ run' \in Nat
        /\ lastSseId' \in [id : Int, run : 0 .. run']
        /\ lastSseId'.run = run' => lastSseId'.id <= counter'
    BY <1>0, <2>3
  <2>7. \A d \in Changes : change'[d].step \in {"committed", "numbered"} => change'[d].record \in Records
    BY <2>2, <2>4
  <2> QED
    BY <2>4, <2>5, <2>6, <2>7
<1>3. ASSUME NEW c \in Changes, Publish(c)
      PROVE  NumbersInv'
  <2>1. /\ change' = [change EXCEPT ![c] = Done] /\ Done.step = "done"
        /\ \A d \in Changes : change'[d] = change[d] \/ change'[d].step = "done"
    BY <1>0, <1>3 DEF Publish, Done, Idle
  <2>2. /\ UNCHANGED <<counter, run, lastSseId>>
        /\ latest' \in Nat /\ latest' <= counter
        /\ overtaken' \in BOOLEAN
    BY <1>0, <1>3 DEF Publish
  <2> QED
    BY <2>1, <2>2
<1>4. ASSUME NEW c \in Changes, NeverPublish(c) \/ \E k \in Records : Commit(c, k)
      PROVE  NumbersInv'
  <2>1. /\ UNCHANGED <<counter, latest, overtaken, run, lastSseId>>
        /\ \A d \in Changes :
             \/ change'[d] = change[d]
             \/ change'[d].step = "done"
             \/ change'[d].step = "committed" /\ change'[d].record \in Records
    BY <1>0, <1>4 DEF NeverPublish, Commit, Done, Idle
  <2> QED
    BY <2>1
<1>5. CASE Restart
  <2>1. /\ counter' = 0 /\ latest' = 0 /\ overtaken' = FALSE /\ run' = run + 1
        /\ lastSseId' = lastSseId
        /\ \A d \in Changes : change'[d].step \in {"idle", "done"}
    BY <1>0, <1>5 DEF Restart, Done, Idle
  <2>2. lastSseId.run # run' /\ lastSseId \in [id : Int, run : 0 .. run']
    BY <1>0, <2>1
  <2>3. overtaken' \in BOOLEAN
    BY <2>1
  <2> QED
    BY <2>1, <2>2, <2>3
<1>6. CASE ReceiveInitial \/ ReceiveUpdate
  <2>1. /\ UNCHANGED <<change, counter, latest, overtaken, run>>
        /\ wire # <<>>
        /\ lastSseId' = [id |-> Head(wire).id, run |-> run]
    BY <1>6 DEF ReceiveInitial, ReceiveUpdate
  <2>2. Head(wire).id \in Nat /\ Head(wire).id <= counter
    <3> DEFINE Message == [type : Records \cup {"initial"}, id : Nat]
    <3>1. wire \in Seq(Message)
      BY DEF WireInv
    <3> HIDE DEF Message
    <3>2. Head(wire) = wire[1] /\ Head(wire) \in Message /\ 1 \in 1 .. Len(wire)
      BY <2>1, <3>1, HeadTailProperties, LenProperties, EmptySeq
    <3> QED
      BY <3>2 DEF WireInv, Message
  <2> QED
    BY <1>0, <2>1, <2>2
<1>7. ASSUME NEW p \in BrowserPages,
             \/ Lead(p) \/ Serve(p) \/ Draw(p) \/ Listen(p)
             \/ Open(p) \/ FetchFails(p) \/ Close(p)
      PROVE  NumbersInv'
  BY <1>1, <1>7 DEF Lead, Serve, Draw, Listen, Open, FetchFails, Close
<1>8. CASE Connect \/ Drop \/ UNCHANGED liveVars
  BY <1>1, <1>8 DEF Connect, Drop, liveVars
<1> QED
  BY <1>2, <1>3, <1>4, <1>5, <1>6, <1>7, <1>8, LiveStepCases

LEMMA NextWireInv == LiveTypeOK /\ NumbersInv /\ WireInv /\ [LiveNext]_liveVars => WireInv'
<1> SUFFICES ASSUME LiveTypeOK, NumbersInv, WireInv, [LiveNext]_liveVars
             PROVE  WireInv'
    OBVIOUS
<1> USE DEF server, browser, pages
<1> DEFINE Message == [type : Records \cup {"initial"}, id : Nat]
<1>0. /\ counter \in Nat /\ latest \in Nat /\ latest <= counter
      /\ \A c \in Changes : change[c].id \in Nat
      /\ wire \in Seq(Message)
  BY DEF LiveTypeOK, NumbersInv, WireInv
<1>00. \A i \in 1 .. Len(wire) : wire[i] \in Message
  <2> HIDE DEF Message
  <2> QED
    BY <1>0, ElementOfSeq
<1>1. ASSUME UNCHANGED <<wire, connected, counter, latest, overtaken>>,
             \A c \in Changes : change'[c].step = "numbered" => change'[c] = change[c]
      PROVE  WireInv'
  BY <1>1 DEF WireInv
<1>2. ASSUME wire' = <<>>
      PROVE  WireInv'
  BY <1>2 DEF WireInv
<1>3. ASSUME NEW c \in Changes, TakeNumber(c)
      PROVE  WireInv'
  <2>1. /\ UNCHANGED <<wire, connected, latest, overtaken>>
        /\ counter' = counter + 1
    BY <1>3 DEF TakeNumber
  <2>2. ASSUME NEW d \in Changes, change'[d].step = "numbered"
        PROVE  change'[d] = change[d] \/ change'[d].id = counter + 1
    BY <1>3, <2>2 DEF TakeNumber, LiveTypeOK
  <2>3. \A i \in 1 .. Len(wire) : wire[i].id \in Nat
    BY <1>00
  <2>4. ASSUME NEW i \in 1 .. Len(wire), wire[i].type # "initial",
               NEW d \in Changes, change'[d].step = "numbered"
        PROVE  change'[d].id # wire[i].id
    <3>1. CASE change'[d].id = counter + 1
      <4>1. wire[i].id <= counter /\ wire[i].id \in Nat
        BY <2>3 DEF WireInv
      <4> QED
        BY <1>0, <3>1, <4>1
    <3>2. CASE change'[d] = change[d]
      <4>1. change[d].step = "numbered"
        BY <2>4, <3>2
      <4>2. change[d].id # wire[i].id
        BY <2>4, <4>1 DEF WireInv
      <4> QED
        BY <3>2, <4>2
    <3> QED
      BY <2>2, <2>4, <3>1, <3>2
  <2>5. \A i \in 1 .. Len(wire) : wire[i].id <= counter'
    BY <1>0, <2>1, <2>3 DEF WireInv
  <2> QED
    BY <2>1, <2>4, <2>5 DEF WireInv
<1>4. ASSUME NEW c \in Changes, Publish(c)
      PROVE  WireInv'
  <2> DEFINE event == [type |-> change[c].record, id |-> change[c].id]
  <2>1. /\ change[c].step = "numbered"
        /\ change' = [change EXCEPT ![c] = Done]
        /\ latest' = IF change[c].id > latest THEN change[c].id ELSE latest
        /\ overtaken' = (overtaken \/ change[c].id < latest)
        /\ wire' = IF connected THEN Append(wire, event) ELSE wire
        /\ UNCHANGED <<counter, connected>>
    BY <1>4 DEF Publish
  <2>2. \A d \in Changes : change'[d].step = "numbered" => d # c /\ change'[d] = change[d]
    BY <2>1 DEF LiveTypeOK, Done, Idle
  <2>3. latest <= latest' /\ change[c].id <= latest' /\ latest' \in Nat
    <3>1. change[c].id \in Nat
      BY <1>0
    <3>2. latest' = IF change[c].id > latest THEN change[c].id ELSE latest
      BY <2>1
    <3> QED
      BY <1>0, <3>1, <3>2
  <2>7. overtaken => overtaken'
    BY <2>1, Zenon
  <2>4. \A d \in Changes : change'[d].step = "numbered" => change'[d].id # change[c].id
    BY <2>1, <2>2 DEF NumbersInv
  <2>5. CASE ~connected
    BY <1>2, <2>1, <2>5 DEF WireInv
  <2>6. CASE connected
    <3>1. change[c].record \in Records /\ change[c].id \in Nat
      BY <1>0, <2>1 DEF NumbersInv
    <3>2. "initial" \notin Records
      BY PagesAssumption
    <3>3. event \in Message /\ event.type # "initial" /\ event.id = change[c].id
      BY <3>1, <3>2
    <3>4. wire' = Append(wire, event)
      BY <2>1, <2>6
    <3> HIDE DEF event, Message
    <3>5. /\ wire' \in Seq(Message)
          /\ Len(wire') = Len(wire) + 1
          /\ \A i \in 1 .. Len(wire) : wire'[i] = wire[i]
          /\ wire'[Len(wire) + 1] = event
      BY <1>0, <3>3, <3>4, AppendProperties
    <3>6. /\ Len(wire) \in Nat
          /\ \A i \in 1 .. Len(wire) : wire[i].id \in Nat
      BY <1>0, <1>00, LenProperties DEF Message
    <3>7. ASSUME NEW i \in 1 .. Len(wire'), i # Len(wire) + 1
          PROVE  i \in 1 .. Len(wire) /\ wire'[i] = wire[i] /\ wire'[i].id \in Nat
      BY <3>5, <3>6, <3>7
    <3>8. ASSUME NEW i \in 1 .. Len(wire')
          PROVE  /\ wire'[i].id <= counter'
                 /\ wire'[i].type = "initial" => i = 1
      <4>1. CASE i = Len(wire) + 1
        BY <2>1, <3>3, <3>5, <4>1 DEF NumbersInv
      <4>2. CASE i # Len(wire) + 1
        BY <2>1, <3>7, <4>2 DEF WireInv
      <4> QED
        BY <4>1, <4>2
    <3>9. ASSUME NEW i \in 1 .. Len(wire'), wire'[i].type # "initial"
          PROVE  /\ wire'[i].id <= latest'
                 /\ \A d \in Changes : change'[d].step = "numbered" => change'[d].id # wire'[i].id
      <4>1. CASE i = Len(wire) + 1
        BY <2>3, <2>4, <3>3, <3>5, <4>1
      <4>2. CASE i # Len(wire) + 1
        <5>1. wire[i].id <= latest /\ wire[i].id \in Nat /\ wire'[i] = wire[i]
          BY <3>7, <3>9, <4>2 DEF WireInv
        <5>2. \A d \in Changes : change[d].step = "numbered" => change[d].id # wire[i].id
          BY <3>7, <3>9, <4>2 DEF WireInv
        <5>3. wire'[i].id <= latest'
          BY <1>0, <2>3, <5>1
        <5> QED
          BY <2>2, <5>1, <5>2, <5>3
      <4> QED
        BY <4>1, <4>2
    <3>10. ASSUME NEW i \in 1 .. Len(wire'), wire'[i].type # "initial",
                  NEW j \in 1 .. Len(wire'), i < j
           PROVE  wire'[i].id < wire'[j].id \/ overtaken'
      <4>1. i \in 1 .. Len(wire) /\ wire'[i] = wire[i] /\ wire[i].id \in Nat
        BY <3>5, <3>6, <3>7, <3>10
      <4>2. CASE j = Len(wire) + 1
        <5>1. wire[i].id <= latest /\ change[c].id # wire[i].id
          BY <2>1, <3>10, <4>1 DEF WireInv
        <5>2. wire'[j].id = change[c].id
          BY <3>3, <3>5, <4>2
        <5>3. wire[i].id < change[c].id \/ change[c].id < latest
          BY <1>0, <4>1, <5>1
        <5>4. change[c].id < latest => overtaken'
          BY <2>1, Zenon
        <5>5. change[c].id < latest \/ wire'[i].id < wire'[j].id
          BY <4>1, <5>2, <5>3
        <5> QED
          BY <5>4, <5>5, Zenon
      <4>3. CASE j # Len(wire) + 1
        <5>1. j \in 1 .. Len(wire) /\ wire'[j] = wire[j]
          BY <3>7, <4>3
        <5>2. wire[i].id < wire[j].id \/ overtaken
          BY <3>10, <4>1, <5>1 DEF WireInv
        <5> QED
          BY <2>7, <4>1, <5>1, <5>2
      <4> QED
        BY <4>2, <4>3
    <3> QED
      BY <2>1, <2>6, <3>5, <3>8, <3>9, <3>10 DEF WireInv, Message
  <2> QED
    BY <2>5, <2>6
<1>5. CASE ReceiveInitial \/ ReceiveUpdate
  <2>1. /\ wire # <<>> /\ wire' = Tail(wire)
        /\ UNCHANGED <<change, counter, latest, overtaken, connected>>
        /\ connected
    BY <1>5 DEF ReceiveInitial, ReceiveUpdate
  <2> HIDE DEF Message
  <2>2. /\ wire' \in Seq(Message)
        /\ Len(wire') = Len(wire) - 1
        /\ \A i \in 1 .. Len(wire') : wire'[i] = wire[i + 1]
        /\ Len(wire) \in Nat
    BY <1>0, <2>1, HeadTailProperties, LenProperties
  <2>3. \A i \in 1 .. Len(wire') : i + 1 \in 2 .. Len(wire)
    BY <2>2
  <2>4. ASSUME NEW i \in 1 .. Len(wire')
        PROVE  /\ wire'[i].id <= counter'
               /\ wire'[i].type # "initial"
               /\ wire'[i].id <= latest'
               /\ \A c \in Changes : change'[c].step = "numbered" => change'[c].id # wire'[i].id
    BY <2>1, <2>2, <2>3 DEF WireInv
  <2>5. ASSUME NEW i \in 1 .. Len(wire'), NEW j \in 1 .. Len(wire'), i < j
        PROVE  wire'[i].id < wire'[j].id \/ overtaken'
    <3>1. wire[i + 1].type # "initial" /\ i + 1 < j + 1
      <4>1. wire'[i].type # "initial" /\ wire'[i] = wire[i + 1]
        BY <2>2, <2>4
      <4>2. i + 1 < j + 1
        BY <2>2, <2>5
      <4> QED
        BY <4>1, <4>2
    <3> QED
      BY <2>1, <2>2, <2>3, <3>1 DEF WireInv
  <2> QED
    BY <2>1, <2>2, <2>4, <2>5 DEF WireInv, Message
<1>6. CASE Connect
  <2>1. /\ wire' = <<[type |-> "initial", id |-> counter]>>
        /\ connected' /\ counter' = counter
    BY <1>6 DEF Connect
  <2>2. /\ Len(wire') = 1 /\ wire'[1] = [type |-> "initial", id |-> counter]
        /\ wire' \in Seq(Message)
    BY <1>0, <2>1
  <2> QED
    BY <1>0, <2>1, <2>2 DEF WireInv
<1>7. ASSUME NEW c \in Changes, NeverPublish(c) \/ \E k \in Records : Commit(c, k)
      PROVE  WireInv'
  <2>1. /\ UNCHANGED <<wire, connected, counter, latest, overtaken>>
        /\ \A d \in Changes : change'[d].step = "numbered" => change'[d] = change[d]
    BY <1>7 DEF NeverPublish, Commit, Done, Idle, LiveTypeOK
  <2> QED
    BY <1>1, <2>1
<1>8. ASSUME NEW p \in BrowserPages,
             \/ Lead(p) \/ Serve(p) \/ Draw(p) \/ Listen(p)
             \/ Open(p) \/ FetchFails(p)
      PROVE  WireInv'
  BY <1>1, <1>8 DEF Lead, Serve, Draw, Listen, Open, FetchFails
<1>9. ASSUME NEW p \in BrowserPages, Close(p)
      PROVE  WireInv'
  <2>1. UNCHANGED <<change, counter, latest, overtaken>>
    BY <1>9 DEF Close
  <2>2. wire' = <<>> \/ UNCHANGED <<wire, connected>>
    BY <1>9 DEF Close
  <2> QED
    BY <1>1, <1>2, <2>1, <2>2
<1>10. CASE Drop \/ Restart
  BY <1>2, <1>10 DEF Drop, Restart
<1>11. CASE UNCHANGED liveVars
  BY <1>1, <1>11 DEF liveVars
<1> QED
  BY <1>3, <1>4, <1>5, <1>6, <1>7, <1>8, <1>9, <1>10, <1>11, LiveStepCases

LEMMA NextLiveTypeOK == LiveTypeOK /\ NumbersInv /\ WireInv /\ [LiveNext]_liveVars => LiveTypeOK'
<1> SUFFICES ASSUME LiveTypeOK, NumbersInv, WireInv, WireInv', [LiveNext]_liveVars
             PROVE  LiveTypeOK'
    BY NextWireInv
<1> USE DEF LiveTypeOK, Excuses, server, browser, pages
<1>0. /\ \A p \in BrowserPages : Subject[p] \in Records
      /\ \A i \in DOMAIN wire' : wire'[i].type \in Records \cup {"initial"}
  <2> DEFINE Message == [type : Records \cup {"initial"}, id : Nat]
  <2>1. wire' \in Seq(Message)
    BY DEF WireInv
  <2> HIDE DEF Message
  <2>2. \A i \in DOMAIN wire' : wire'[i] \in Message
    BY <2>1, LenProperties, ElementOfSeq
  <2> QED
    BY <2>2, PagesAssumption DEF Message
<1>1. ASSUME NEW c \in Changes, NEW k \in Records, Commit(c, k)
      PROVE  LiveTypeOK'
  <2>1. /\ stored' \in [Records -> Nat]
        /\ \A j \in Records : stored[j] <= stored'[j]
    BY <1>1 DEF Commit
  <2>2. \A p \in BrowserPages : \A v \in answers'[p] \cup {shown'[p]} : v <= stored'[Subject[p]]
    BY <1>0, <1>1, <2>1 DEF Commit
  <2> QED
    BY <1>0, <1>1, <2>1, <2>2 DEF Commit
<1>2. ASSUME NEW c \in Changes, NeverPublish(c)
      PROVE  LiveTypeOK'
  BY <1>0, <1>2 DEF NeverPublish, Excuse, Done, Idle
<1>3. ASSUME NEW c \in Changes, TakeNumber(c)
      PROVE  LiveTypeOK'
  <2>1. change' \in [Changes -> [step : {"idle", "committed", "numbered", "done"},
                                record : Records \cup {"none"}, id : Nat]]
    BY <1>3 DEF TakeNumber
  <2>2. counter' \in Nat /\ UNCHANGED <<stored, connected, leader, pages>>
    BY <1>3 DEF TakeNumber
  <2> QED
    BY <1>0, <2>1, <2>2
<1>4. ASSUME NEW c \in Changes, Publish(c)
      PROVE  LiveTypeOK'
  BY <1>0, <1>4 DEF Publish, Done, Idle
<1>5. CASE Restart
  BY <1>0, <1>5 DEF Restart, Done, Idle
<1>6. CASE Connect
  BY <1>0, <1>6 DEF Connect
<1>7. CASE Drop
  BY <1>0, <1>7 DEF Drop
<1>8. CASE ReceiveInitial
  <2>1. /\ UNCHANGED <<stored, change, counter, leader, connected, pageState, shown, answers>>
        /\ \/ UNCHANGED asked /\ excuse' = [p \in BrowserPages |-> excuse[p]
                          \cup (IF lastSseId.run # run THEN {"renumbered"} ELSE {})
                          \cup (IF overtaken THEN {"overtaken"} ELSE {})]
           \/ Broadcast("update_all")
    BY <1>8 DEF ReceiveInitial
  <2>2. asked' \in [BrowserPages -> Nat] /\ excuse' \in [BrowserPages -> SUBSET Excuses]
    BY <2>1 DEF Broadcast, Excuse
  <2> QED
    BY <1>0, <2>1, <2>2
<1>9. CASE ReceiveUpdate
  BY <1>0, <1>9 DEF ReceiveUpdate, Broadcast, Excuse
<1>10. ASSUME NEW p \in BrowserPages, Lead(p)
       PROVE  LiveTypeOK'
  BY <1>0, <1>10 DEF Lead
<1>11. ASSUME NEW p \in BrowserPages, Serve(p)
       PROVE  LiveTypeOK'
  BY <1>0, <1>11 DEF Serve
<1>12. ASSUME NEW p \in BrowserPages, Draw(p)
       PROVE  LiveTypeOK'
  <2>1. PICK v \in answers[p] :
          /\ shown' = [shown EXCEPT ![p] = v]
          /\ answers' = [answers EXCEPT ![p] = @ \ {v}]
    BY <1>12 DEF Draw
  <2>2. \A q \in BrowserPages : \A w \in answers'[q] \cup {shown'[q]} : w <= stored[Subject[q]]
    BY <2>1
  <2>3. excuse' \in [BrowserPages -> SUBSET Excuses]
    BY <1>12 DEF Draw, Excuse
  <2>4. /\ shown' \in [BrowserPages -> Nat] /\ answers' \in [BrowserPages -> SUBSET Nat]
        /\ UNCHANGED <<stored, change, counter, leader, connected, pageState, asked>>
    BY <1>12, <2>1 DEF Draw
  <2> QED
    BY <1>0, <2>2, <2>3, <2>4
<1>13. ASSUME NEW p \in BrowserPages, Listen(p) \/ Open(p)
       PROVE  LiveTypeOK'
  BY <1>0, <1>13 DEF Listen, Open
<1>14. ASSUME NEW p \in BrowserPages, FetchFails(p)
       PROVE  LiveTypeOK'
  BY <1>0, <1>14 DEF FetchFails, Excuse
<1>15. ASSUME NEW p \in BrowserPages, Close(p)
       PROVE  LiveTypeOK'
  <2>1. /\ pageState' = [pageState EXCEPT ![p] = "closed"]
        /\ asked' = [asked EXCEPT ![p] = 0] /\ answers' = [answers EXCEPT ![p] = {}]
        /\ shown' = [shown EXCEPT ![p] = 0] /\ excuse' = [excuse EXCEPT ![p] = {}]
        /\ UNCHANGED <<stored, change, counter>>
    BY <1>15 DEF Close
  <2>2. \/ leader = p /\ leader' = NoPage /\ connected' = FALSE
        \/ leader # p /\ UNCHANGED <<leader, connected>>
    BY <1>15 DEF Close
  <2>3. /\ shown' \in [BrowserPages -> Nat] /\ answers' \in [BrowserPages -> SUBSET Nat]
        /\ \A q \in BrowserPages : \A v \in answers'[q] \cup {shown'[q]} : v <= stored[Subject[q]]
    BY <1>0, <2>1
  <2>4. /\ leader' \in BrowserPages \cup {NoPage} /\ connected' \in BOOLEAN
        /\ connected' => leader' # NoPage
        /\ leader' # NoPage => pageState'[leader'] = "listening"
    <3>1. CASE leader = p
      BY <2>2, <3>1
    <3>2. CASE leader # p
      BY <2>1, <2>2, <3>2
    <3> QED
      BY <3>1, <3>2
  <2>5. /\ pageState' \in [BrowserPages -> {"new", "loading", "listening", "closed"}]
        /\ asked' \in [BrowserPages -> Nat] /\ excuse' \in [BrowserPages -> SUBSET Excuses]
    BY <2>1
  <2> QED
    BY <1>0, <2>1, <2>3, <2>4, <2>5
<1>16. CASE UNCHANGED liveVars
  BY <1>0, <1>16 DEF liveVars
<1> QED
  BY <1>1, <1>2, <1>3, <1>4, <1>5, <1>6, <1>7, <1>8, <1>9, <1>10, <1>11, <1>12, <1>13, <1>14,
     <1>15, <1>16, LiveStepCases

LEMMA NextFollowInv == LiveInv /\ [LiveNext]_liveVars => FollowInv'
<1> SUFFICES ASSUME LiveInv, [LiveNext]_liveVars,
                    NEW p \in BrowserPages, Following(p), Behind(p)'
             PROVE  Coming(p)'
    BY DEF FollowInv, Following
<1> USE DEF server, browser, pages
<1> DEFINE Message == [type : Records \cup {"initial"}, id : Nat]
<1>0. /\ LiveTypeOK /\ NumbersInv /\ WireInv
      /\ Behind(p) => Coming(p)
  BY DEF LiveInv, FollowInv
<1>1. /\ Subject[p] \in Records /\ Subject[p] \in {"incident", "fieldReport"}
      /\ "initial" \notin Records
  BY PagesAssumption DEF Following
<1>2. /\ wire \in Seq(Message) /\ Len(wire) \in Nat
      /\ \A i \in 1 .. Len(wire) : wire[i] \in Message
  <2> HIDE DEF Message
  <2>1. wire \in Seq(Message)
    BY <1>0 DEF WireInv, Message
  <2> QED
    BY <2>1, LenProperties, ElementOfSeq
<1>3. /\ stored \in [Records -> Nat] /\ shown \in [BrowserPages -> Nat]
      /\ asked \in [BrowserPages -> Nat] /\ answers \in [BrowserPages -> SUBSET Nat]
      /\ excuse \in [BrowserPages -> SUBSET Excuses]
      /\ pageState \in [BrowserPages -> {"new", "loading", "listening", "closed"}]
      /\ connected \in BOOLEAN /\ counter \in Nat /\ latest \in Nat /\ latest <= counter
      /\ overtaken \in BOOLEAN
      /\ lastSseId.id \in Int /\ lastSseId.run \in 0 .. run /\ run \in Nat
      /\ lastSseId.run = run => lastSseId.id <= counter
      /\ \A c \in Changes : change[c].id \in Nat
      /\ \A c \in Changes : change[c].step = "numbered" => change[c].id <= counter
  BY <1>0 DEF LiveTypeOK, NumbersInv
\* What p knows, and what is on its way, stay as they are.
<1>4. ASSUME Behind(p),
             UNCHANGED <<change, wire, connected, counter, latest, overtaken, run, lastSseId>>
      PROVE  Coming(p)'
  BY <1>0, <1>4 DEF Coming, ChangeOf, Ahead
<1>5. ASSUME Behind(p), ~connected', wire' = <<>>,
             UNCHANGED <<change, counter, latest, overtaken, run, lastSseId>>
      PROVE  Coming(p)'
  <2>1. Coming(p)
    BY <1>0, <1>5
  <2>2. CASE \E c \in Changes :
               \/ ChangeOf(p, c, "committed")
               \/ ChangeOf(p, c, "numbered") /\ (Ahead(change[c].id) \/ change[c].id < latest)
    BY <1>5, <2>2 DEF Coming, ChangeOf, Ahead
  <2>3. CASE \E i \in 1 .. Len(wire) : Ahead(wire[i].id)
    <3>1. PICK i \in 1 .. Len(wire) : Ahead(wire[i].id)
      BY <2>3
    <3>2. wire[i].id <= counter /\ wire[i].id \in Nat
      BY <1>0, <1>2 DEF WireInv
    <3>3. Ahead(counter)
      BY <1>3, <3>1, <3>2 DEF Ahead
    <3> QED
      BY <1>5, <3>3 DEF Coming, Ahead
  <2>4. CASE Ahead(counter)
    BY <1>5, <2>4 DEF Coming, Ahead
  <2> QED
    BY <2>1, <2>2, <2>3, <2>4 DEF Coming
<1>6. ASSUME UNCHANGED <<stored, pageState, shown, asked, answers, excuse>>
      PROVE  Behind(p)
  BY <1>6 DEF Behind
<1>7. ASSUME NEW q \in BrowserPages,
             Lead(q) \/ Serve(q) \/ Listen(q) \/ Open(q) \/ FetchFails(q)
      PROVE  Coming(p)'
  <2>1. Behind(p)
    BY <1>3, <1>7 DEF Lead, Serve, Listen, Open, FetchFails, Excuse, Listening, Behind
  <2> QED
    BY <1>4, <1>7, <2>1 DEF Lead, Serve, Listen, Open, FetchFails
<1>8. ASSUME NEW q \in BrowserPages, Draw(q)
      PROVE  Coming(p)'
  <2>1. PICK v \in answers[q] :
          /\ shown' = [shown EXCEPT ![q] = v]
          /\ answers' = [answers EXCEPT ![q] = @ \ {v}]
          /\ IF v < shown[q] THEN Excuse({q}, "reordered") ELSE UNCHANGED excuse
    BY <1>8 DEF Draw
  <2>2. UNCHANGED <<stored, asked, pageState>>
    BY <1>8 DEF Draw
  <2>3. CASE q # p
    BY <1>3, <1>4, <1>8, <2>1, <2>2, <2>3 DEF Draw, Excuse, Behind
  <2>4. CASE q = p
    <3>1. v \in Nat /\ v <= stored[Subject[p]] /\ stored[Subject[p]] \in Nat /\ shown[p] \in Nat
      BY <1>0, <1>1, <1>3, <2>1, <2>4 DEF LiveTypeOK
    <3>2. ~(v < shown[p]) /\ excuse'[p] = excuse[p]
      <4>1. /\ pageState'[p] \in {"loading", "listening"} /\ pageState' = pageState
            /\ excuse'[p] = {}
        BY <2>2 DEF Behind
      <4>2. IF v < shown[p] THEN Excuse({p}, "reordered") ELSE UNCHANGED excuse
        BY <2>1, <2>4
      <4>3. CASE v < shown[p]
        <5>1. Excuse({p}, "reordered")
          BY <4>2, <4>3
        <5>2. "reordered" \in excuse'[p]
          BY <4>1, <5>1 DEF Excuse
        <5> QED
          BY <4>1, <5>2
      <4> QED
        BY <4>2, <4>3
    <3>3. shown'[p] = v /\ answers'[p] = answers[p] \ {v}
      BY <1>3, <2>1, <2>4
    <3>4. Behind(p)
      BY <2>2, <3>1, <3>2, <3>3 DEF Behind
    <3> QED
      BY <1>4, <1>8, <3>4 DEF Draw
  <2> QED
    BY <2>3, <2>4
<1>9. ASSUME NEW q \in BrowserPages, Close(q)
      PROVE  Coming(p)'
  <2>1. q # p /\ Behind(p)
    BY <1>3, <1>9 DEF Close, Behind
  <2>2. UNCHANGED <<change, counter, latest, overtaken, run, lastSseId>>
    BY <1>9 DEF Close
  <2>3. \/ ~connected' /\ wire' = <<>>
        \/ UNCHANGED <<connected, wire>>
    BY <1>9 DEF Close
  <2> QED
    BY <1>4, <1>5, <2>1, <2>2, <2>3
<1>10. CASE Drop
  BY <1>5, <1>6, <1>10 DEF Drop
<1>11. CASE Connect
  <2>1. /\ Behind(p) /\ ~connected
        /\ wire' = <<[type |-> "initial", id |-> counter]>>
        /\ UNCHANGED <<change, counter, latest, overtaken, run, lastSseId>>
    BY <1>6, <1>11 DEF Connect
  <2>2. wire = <<>> /\ Coming(p)
    BY <1>0, <2>1 DEF WireInv
  <2>3. CASE \E c \in Changes :
               \/ ChangeOf(p, c, "committed")
               \/ ChangeOf(p, c, "numbered") /\ (Ahead(change[c].id) \/ change[c].id < latest)
    BY <2>1, <2>3 DEF Coming, ChangeOf, Ahead
  <2>4. CASE Ahead(counter)
    <3>1. 1 \in 1 .. Len(wire') /\ wire'[1].type = "initial" /\ wire'[1].id = counter
      BY <2>1
    <3> QED
      BY <2>1, <2>4, <3>1 DEF Coming, Ahead
  <2> QED
    BY <2>2, <2>3, <2>4 DEF Coming
<1>12. CASE Restart
  <2>1. ~connected' /\ lastSseId' = lastSseId /\ run' = run + 1
    BY <1>12 DEF Restart
  <2>2. lastSseId'.run # run'
    BY <1>3, <2>1
  <2> QED
    BY <2>1, <2>2 DEF Coming, Ahead
<1>13. ASSUME NEW c \in Changes, NEW k \in Records, Commit(c, k)
       PROVE  Coming(p)'
  <2>1. /\ change' = [change EXCEPT ![c] = [step |-> "committed", record |-> k, id |-> 0]]
        /\ stored' = [stored EXCEPT ![k] = @ + 1]
        /\ UNCHANGED <<wire, connected, counter, latest, overtaken, run, lastSseId, pages>>
        /\ change[c].step = "idle"
    BY <1>13 DEF Commit
  <2>2. CASE k = Subject[p]
    BY <1>0, <2>1, <2>2 DEF Coming, ChangeOf, LiveTypeOK
  <2>3. CASE k # Subject[p]
    <3>1. Behind(p)
      BY <1>1, <1>3, <2>1, <2>3 DEF Behind
    <3>2. \A d \in Changes : d # c => change'[d] = change[d]
      BY <1>0, <2>1 DEF LiveTypeOK
    <3> QED
      BY <1>0, <2>1, <3>1, <3>2 DEF Coming, ChangeOf, Ahead
  <2> QED
    BY <2>2, <2>3
<1>14. ASSUME NEW c \in Changes, NeverPublish(c)
       PROVE  Coming(p)'
  <2>1. change[c].record # Subject[p] /\ Behind(p)
    BY <1>3, <1>14 DEF NeverPublish, Excuse, Behind
  <2>2. \A d \in Changes : d # c => change'[d] = change[d]
    BY <1>0, <1>14 DEF NeverPublish, LiveTypeOK
  <2>3. UNCHANGED <<wire, connected, counter, latest, overtaken, run, lastSseId>>
    BY <1>14 DEF NeverPublish
  <2> QED
    BY <1>0, <2>1, <2>2, <2>3 DEF Coming, ChangeOf, Ahead
<1>15. ASSUME NEW c \in Changes, TakeNumber(c)
       PROVE  Coming(p)'
  <2>1. /\ Behind(p) /\ counter' = counter + 1
        /\ UNCHANGED <<wire, connected, latest, overtaken, run, lastSseId>>
        /\ change[c].step = "committed"
    BY <1>6, <1>15 DEF TakeNumber
  <2>2. /\ change'[c] = [step |-> "numbered", record |-> change[c].record, id |-> counter + 1]
        /\ \A d \in Changes : d # c => change'[d] = change[d]
    BY <1>0, <1>15 DEF TakeNumber, LiveTypeOK
  <2>3. Ahead(counter + 1)
    BY <1>3 DEF Ahead
  <2>4. CASE ChangeOf(p, c, "committed")
    <3>1. ChangeOf(p, c, "numbered")' /\ change'[c].id = counter + 1
      BY <2>2, <2>4 DEF ChangeOf
    <3>2. Ahead(change[c].id)'
      BY <2>1, <2>3, <3>1 DEF Ahead
    <3> QED
      BY <3>1, <3>2 DEF Coming
  <2>5. CASE ~ChangeOf(p, c, "committed")
    <3>1. ASSUME Ahead(counter)
          PROVE  Ahead(counter)'
      BY <2>1, <2>3 DEF Ahead
    <3>2. CASE ~connected /\ Ahead(counter)
      BY <2>1, <3>1, <3>2 DEF Coming
    <3>3. CASE ~(~connected /\ Ahead(counter))
      BY <1>0, <2>1, <2>2, <2>5, <3>3 DEF Coming, ChangeOf, Ahead
    <3> QED
      BY <3>2, <3>3
  <2> QED
    BY <2>4, <2>5
<1>16. ASSUME NEW c \in Changes, Publish(c)
       PROVE  Coming(p)'
  <2> DEFINE event == [type |-> change[c].record, id |-> change[c].id]
  <2>1. /\ Behind(p) /\ change[c].step = "numbered"
        /\ UNCHANGED <<connected, counter, run, lastSseId>>
        /\ wire' = IF connected THEN Append(wire, event) ELSE wire
    BY <1>6, <1>16 DEF Publish
  <2>2. \A d \in Changes : d # c => change'[d] = change[d]
    BY <1>0, <1>16 DEF Publish, LiveTypeOK
  <2>3. latest' \in Nat /\ latest <= latest'
    <3>1. latest' = IF change[c].id > latest THEN change[c].id ELSE latest
      BY <1>16 DEF Publish
    <3> QED
      BY <1>3, <3>1
  <2>4. /\ overtaken => overtaken'
        /\ change[c].id < latest => overtaken'
    BY <1>16, Zenon DEF Publish
  <2>5. ASSUME NEW n, Ahead(n)
        PROVE  Ahead(n)'
    BY <2>1, <2>4, <2>5 DEF Ahead
  <2>6. /\ change[c].record \in Records /\ event \in Message
    BY <1>0, <1>3, <2>1 DEF NumbersInv
  <2>7. connected => /\ Len(wire') = Len(wire) + 1
                     /\ \A i \in 1 .. Len(wire) : wire'[i] = wire[i]
                     /\ wire'[Len(wire) + 1] = event
    <3> HIDE DEF event, Message
    <3> QED
      BY <1>2, <2>1, <2>6, AppendProperties
  <2>8. CASE ChangeOf(p, c, "numbered") /\ (Ahead(change[c].id) \/ change[c].id < latest)
    <3>0. PICK n \in Nat : n = change[c].id
      BY <1>3
    <3>1. Ahead(n)'
      <4>1. CASE Ahead(n)
        BY <2>5, <4>1
      <4>2. CASE n < latest
        BY <2>4, <3>0, <4>2 DEF Ahead
      <4> QED
        BY <2>8, <3>0, <4>1, <4>2
    <3>2. CASE connected
      <4>1. /\ Len(wire) + 1 \in 1 .. Len(wire')
            /\ wire'[Len(wire) + 1].type = Subject[p]
            /\ wire'[Len(wire) + 1].id = n
        BY <1>2, <2>7, <2>8, <3>0, <3>2 DEF ChangeOf
      <4> QED
        BY <3>1, <4>1 DEF Coming, Ahead
    <3>3. CASE ~connected
      <4>1. n <= counter
        BY <1>3, <2>1, <3>0
      <4>2. Ahead(counter)'
        BY <1>3, <2>1, <3>1, <4>1 DEF Ahead
      <4> QED
        BY <2>1, <3>3, <4>2 DEF Coming
    <3> QED
      BY <3>2, <3>3
  <2>9. CASE \E d \in Changes \ {c} :
               \/ ChangeOf(p, d, "committed")
               \/ ChangeOf(p, d, "numbered") /\ (Ahead(change[d].id) \/ change[d].id < latest)
    <3>1. PICK d \in Changes \ {c} :
               \/ ChangeOf(p, d, "committed")
               \/ ChangeOf(p, d, "numbered") /\ (Ahead(change[d].id) \/ change[d].id < latest)
      BY <2>9
    <3>2. change'[d] = change[d]
      BY <2>2
    <3>3. Ahead(change[d].id) => Ahead(change[d].id)'
      BY <2>1, <2>4, <3>2 DEF Ahead
    <3>4. change[d].id < latest => change[d].id < latest'
      BY <1>3, <2>3
    <3> QED
      BY <3>1, <3>2, <3>3, <3>4 DEF Coming, ChangeOf
  <2>10. CASE \E i \in 1 .. Len(wire) : wire[i].type \in {Subject[p], "initial"} /\ Ahead(wire[i].id)
    <3>1. PICK i \in 1 .. Len(wire) : wire[i].type \in {Subject[p], "initial"} /\ Ahead(wire[i].id)
      BY <2>10
    <3>2. i \in 1 .. Len(wire') /\ wire'[i] = wire[i]
      BY <1>2, <2>1, <2>7
    <3>3. Ahead(wire[i].id)'
      BY <2>1, <2>4, <3>1, <3>2 DEF Ahead
    <3> QED
      BY <3>1, <3>2, <3>3 DEF Coming
  <2>11. CASE ~connected /\ Ahead(counter)
    BY <2>1, <2>5, <2>11 DEF Coming, Ahead
  <2> QED
    BY <1>0, <2>1, <2>8, <2>9, <2>10, <2>11 DEF Coming, ChangeOf
<1>17. ASSUME connected, wire # <<>>, wire' = Tail(wire),
              lastSseId' = [id |-> Head(wire).id, run |-> run],
              UNCHANGED <<server, connected>>,
              Behind(p), ~(Head(wire).type \in {Subject[p], "initial"} /\ Ahead(Head(wire).id)),
              Head(wire).type = "initial" => ~overtaken /\ lastSseId.run = run
                                               /\ Head(wire).id = lastSseId.id
       PROVE  Coming(p)'
  <2>1. /\ Head(wire) = wire[1] /\ 1 \in 1 .. Len(wire)
        /\ Len(wire') = Len(wire) - 1
        /\ \A i \in 1 .. Len(wire') : wire'[i] = wire[i + 1]
    <3> HIDE DEF Message
    <3> QED
      BY <1>2, <1>17, HeadTailProperties, EmptySeq
  <2>2. Coming(p)
    BY <1>0, <1>17
  <2>3. lastSseId'.run = run' /\ lastSseId'.id = wire[1].id /\ wire[1].id \in Nat
    BY <1>2, <1>17, <2>1
  <2>4. UNCHANGED <<change, latest, overtaken, counter>>
    BY <1>17
  <2>5. CASE \E c \in Changes : ChangeOf(p, c, "committed")
    BY <2>4, <2>5 DEF Coming, ChangeOf
  <2>6. ASSUME NEW c \in Changes, ChangeOf(p, c, "numbered"),
               Ahead(change[c].id) \/ change[c].id < latest
        PROVE  Coming(p)'
    <3>1. ChangeOf(p, c, "numbered")'
      BY <2>4, <2>6 DEF ChangeOf
    <3>2. CASE change[c].id < latest \/ overtaken
      BY <2>4, <3>1, <3>2 DEF Coming, Ahead
    <3>3. CASE ~(change[c].id < latest) /\ ~overtaken
      <4>1. wire[1].id < change[c].id
        <5>1. CASE wire[1].type = "initial"
          BY <1>3, <1>17, <2>1, <2>6, <3>3, <5>1 DEF Ahead
        <5>2. CASE wire[1].type # "initial"
          <6>1. wire[1].id <= latest /\ change[c].id # wire[1].id
            BY <1>0, <2>1, <2>6, <5>2 DEF WireInv, ChangeOf
          <6> QED
            BY <1>3, <2>3, <3>3, <6>1
        <5> QED
          BY <5>1, <5>2
      <4>2. Ahead(change[c].id)'
        BY <2>3, <2>4, <4>1 DEF Ahead
      <4> QED
        BY <3>1, <4>2 DEF Coming
    <3> QED
      BY <3>2, <3>3
  <2>7. ASSUME NEW i \in 1 .. Len(wire), wire[i].type \in {Subject[p], "initial"},
               Ahead(wire[i].id)
        PROVE  Coming(p)'
    <3>1. i # 1
      BY <1>17, <2>1, <2>7
    <3>2. wire[i].type = Subject[p] /\ wire[i].id \in Nat
      BY <1>0, <1>2, <2>7, <3>1 DEF WireInv
    <3>3. wire[1].id < wire[i].id \/ overtaken
      <4>1. CASE wire[1].type = "initial"
        BY <1>17, <2>1, <2>7, <4>1 DEF Ahead
      <4>2. CASE wire[1].type # "initial"
        BY <1>0, <1>2, <2>1, <3>1, <4>2 DEF WireInv
      <4> QED
        BY <4>1, <4>2
    <3>4. i - 1 \in 1 .. Len(wire') /\ wire'[i - 1] = wire[i]
      BY <1>2, <2>1, <3>1
    <3>5. PICK n \in Nat : n = wire[i].id
      BY <3>2
    <3>6. Ahead(n)'
      BY <2>3, <2>4, <3>3, <3>5 DEF Ahead
    <3>7. PICK j \in 1 .. Len(wire') : j = i - 1
      BY <3>4
    <3>8. wire'[j].type = Subject[p] /\ wire'[j].id = n
      BY <3>2, <3>4, <3>5, <3>7
    <3> QED
      BY <3>6, <3>8 DEF Coming, Ahead
  <2> QED
    BY <1>17, <2>2, <2>5, <2>6, <2>7 DEF Coming
\* A page that hears of it fetches, or has its excuse.
<1>18. ASSUME NEW message, HearsMessage(p, message), Broadcast(message), pageState' = pageState
       PROVE  FALSE
  BY <1>3, <1>18 DEF Broadcast, Excuse, Listening, Behind
<1>19. CASE ReceiveInitial
  <2>1. /\ connected /\ wire # <<>> /\ Head(wire).type = "initial"
        /\ wire' = Tail(wire) /\ lastSseId' = [id |-> Head(wire).id, run |-> run]
        /\ UNCHANGED <<server, connected, pageState, stored, shown, answers>>
    BY <1>19 DEF ReceiveInitial
  <2>2. CASE Head(wire).id = lastSseId.id
    <3>1. /\ UNCHANGED asked
          /\ excuse'[p] = excuse[p]
                             \cup (IF lastSseId.run # run THEN {"renumbered"} ELSE {})
                             \cup (IF overtaken THEN {"overtaken"} ELSE {})
      BY <1>19, <2>2 DEF ReceiveInitial
    <3>2. ~overtaken /\ lastSseId.run = run /\ excuse[p] = {}
      BY <3>1 DEF Behind
    <3>3. Behind(p)
      BY <2>1, <3>1, <3>2 DEF Behind
    <3>4. ~Ahead(Head(wire).id)
      BY <1>3, <2>2, <3>2 DEF Ahead
    <3> QED
      BY <1>17, <2>1, <2>2, <3>2, <3>3, <3>4
  <2>3. CASE Head(wire).id # lastSseId.id
    <3>1. Broadcast("update_all")
      BY <1>19, <2>3 DEF ReceiveInitial
    <3>2. HearsMessage(p, "update_all")
      BY <1>1 DEF HearsMessage
    <3> QED
      BY <1>18, <2>1, <3>1, <3>2
  <2> QED
    BY <2>2, <2>3
<1>20. CASE ReceiveUpdate
  <2>1. /\ connected /\ wire # <<>> /\ Head(wire).type # "initial"
        /\ wire' = Tail(wire) /\ lastSseId' = [id |-> Head(wire).id, run |-> run]
        /\ UNCHANGED <<server, connected, pageState, stored, shown, answers>>
        /\ Broadcast(Head(wire).type)
    BY <1>20 DEF ReceiveUpdate
  <2>2. CASE Head(wire).type = Subject[p]
    <3>1. HearsMessage(p, Head(wire).type)
      BY <1>1, <2>2 DEF HearsMessage, Following
    <3> QED
      BY <1>18, <2>1, <3>1
  <2>3. CASE Head(wire).type # Subject[p]
    <3>1. asked'[p] = asked[p] + (IF Listening(p) /\ HearsMessage(p, Head(wire).type) THEN 1 ELSE 0)
      BY <2>1 DEF Broadcast
    <3>2. excuse[p] \subseteq excuse'[p]
      BY <2>1 DEF Broadcast, Excuse
    <3>3. Behind(p)
      BY <1>3, <2>1, <3>1, <3>2 DEF Behind
    <3> QED
      BY <1>17, <2>1, <2>3, <3>3
  <2> QED
    BY <2>2, <2>3
<1>21. CASE UNCHANGED liveVars
  BY <1>4, <1>6, <1>21 DEF liveVars
<1> QED
  BY <1>7, <1>8, <1>9, <1>10, <1>11, <1>12, <1>13, <1>14, <1>15, <1>16, <1>19, <1>20, <1>21,
     LiveStepCases

\* However the connection breaks, moves and comes back, an open page that shows an
\* old state has a reason, or learns of the new one: nothing else keeps the pages of
\* an Incident and the tables from converging.
THEOREM PagesFollow == LiveSpec => []OpenPagesConverge
<1>1. LiveInv /\ [LiveNext]_liveVars => LiveInv'
  BY NextNumbersInv, NextWireInv, NextLiveTypeOK, NextFollowInv DEF LiveInv
<1>2. LiveInv => OpenPagesConverge
  <2> SUFFICES ASSUME LiveInv, NothingUnderWay, NEW p \in BrowserPages, Following(p)
               PROVE  Converged(p)
    BY DEF OpenPagesConverge, Following
  <2>1. Behind(p) => Coming(p)
    BY DEF LiveInv, FollowInv
  <2>2. ~Coming(p)
    BY DEF NothingUnderWay, Coming, ChangeOf
  <2> QED
    BY <2>1, <2>2 DEF NothingUnderWay, Converged, Listening, Behind
<1> QED
  BY InitLiveInv, <1>1, <1>2, PTL DEF LiveSpec
=============================================================================
