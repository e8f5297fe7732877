---------------------------- MODULE ClientEdits ----------------------------
(***************************************************************************)
(* One detail page (of an Incident, a Field Report or a Visit) whose user  *)
(* types, commits and clicks faster than the server answers.               *)
(*                                                                         *)
(* Mutations are handed to a chain that runs one at a time: a request, its *)
(* answer, and a refetch that redraws the page (newMutationChain).  A page *)
(* for a record that does not exist yet creates it with the first of them. *)
(* Attaching Field Reports, Visits and files does not go through the       *)
(* chain, and updates announced by the server make the page refetch and    *)
(* redraw whatever the chain is doing.                                     *)
(*                                                                         *)
(* What people write is abstracted to numbers, in the order in which they  *)
(* set about it.  A field is a control of the form; Members stands for     *)
(* what is attached by resources of its own and is not typed.              *)
(***************************************************************************)
EXTENDS Naturals, Sequences, FiniteSets, SequencesExt

CONSTANTS
  Fields,       \* the controls that can be typed into
  Members,      \* Rangers, types, links and attachments, drawn as a list
  Nothing,      \* no control; or no field, in a request that only creates
  MaxWrites,    \* bound on what people write
  MaxLoads,     \* bound on the refetches under way
  MaxFaults     \* bound on the errors of the network and the server

ASSUME BoundsAssumption == MaxWrites \in Nat /\ MaxLoads \in Nat /\ MaxFaults \in Nat

ASSUME FieldsAssumption == Members \notin Fields /\ Nothing \notin Fields \cup {Members}

Columns == Fields \cup {Members}
Content == [Columns -> 0 .. MaxWrites]
Empty == [c \in Columns |-> 0]
New == 0   \* the number of a record that does not exist yet

\* What a mutation writes, and what its caller does once it has succeeded:
\* nothing, hand another one to the chain, or send one past it.
Mutation ==
  [field : Columns \cup {Nothing}, write : 1 .. MaxWrites, next : {"done", "chain", "free"}]

\* A refetch: whose it is, and what it has read.
Load == [by : {"chain", "other"}, read : BOOLEAN, content : Content]

VARIABLES
  stored,       \* the records this page has created, by number
  incidentNumber,       \* incident.number, and ims.pathIds.incidentNumber
  incident,     \* the record as last loaded
  shown,        \* what the controls show
  typing,       \* uncommittedControl, while it has the focus
  chain,        \* the mutations handed to the chain; the first one is running
  phase,        \* how far that one is
  target,       \* the number it has read
  free,         \* the mutations past the chain that the server has yet to get
  loads,        \* the refetches under way
  news,         \* updates of this record that the page has yet to hear of
  writes,       \* how much people have written
  faults,
  applied,      \* history: own writes that were stored, by record and field
  refused,      \* history: own writes whose request was answered with an error
  typed,        \* history: all that the user has typed, by field
  lostCreates,  \* history: records whose creation was answered with an error
  drawnBy       \* history: what the page was last redrawn by

page == <<incidentNumber, incident, shown, typing>>
work == <<chain, phase, target, free>>
history == <<applied, refused, typed, lostCreates, drawnBy>>
formVars == <<stored, page, work, loads, news, writes, faults, history>>

Phases == {"idle", "post", "answered", "failed", "load", "reload"}

\* The page for a new record, drawn for the first time.
FormInit ==
  /\ stored = <<>>
  /\ incidentNumber = New
  /\ incident = Empty
  /\ shown = Empty
  /\ typing = Nothing
  /\ chain = <<>>
  /\ phase = "idle"
  /\ target = New
  /\ free = {}
  /\ loads = <<>>
  /\ news = 0
  /\ writes = 0
  /\ faults = 0
  /\ applied = {}
  /\ refused = {}
  /\ typed = {}
  /\ lostCreates = 0
  /\ drawnBy = "chain"

Write == writes < MaxWrites /\ writes' = writes + 1
Fault == faults < MaxFaults /\ faults' = faults + 1
-----------------------------------------------------------------------------
\* The user

\* The first keystroke in a control.
Type(f) ==
  /\ typing = Nothing
  /\ Write
  /\ typing' = f
  /\ shown' = [shown EXCEPT ![f] = writes']
  /\ typed' = typed \cup {<<f, writes'>>}
  /\ UNCHANGED <<stored, incidentNumber, incident, work, loads, news, faults, applied, refused,
                 lostCreates, drawnBy>>

\* Leaving the control: "change", where editFromElement reads it, and "focusout".
Commit ==
  /\ typing # Nothing
  /\ chain' = Append(chain, [field |-> typing, write |-> shown[typing], next |-> "done"])
  /\ typing' = Nothing
  /\ UNCHANGED <<stored, incidentNumber, incident, shown, phase, target, free, loads, news, writes,
                 faults, history>>

\* addRanger, addIncidentType and linkIncident ("chain"), attachFile ("free").  A
\* record that does not exist yet is created first.
Click(way) ==
  /\ Write
  /\ IF way = "free" /\ incidentNumber # New
       THEN free' = free \cup {writes'} /\ UNCHANGED chain
       ELSE /\ chain' = Append(chain,
                 IF incidentNumber = New THEN [field |-> Nothing, write |-> writes', next |-> way]
                                 ELSE [field |-> Members, write |-> writes', next |-> "done"])
            /\ UNCHANGED free
  /\ UNCHANGED <<stored, page, phase, target, loads, news, faults, history>>
-----------------------------------------------------------------------------
\* Redrawing

\* Mutant of Drawn: every control is overwritten.
DrawnOverTyping(content) == content

\* setInputValue leaves the control alone that is being typed into.
Drawn(content) == [c \in Columns |-> IF c = typing THEN shown[c] ELSE content[c]]

\* loadIncident once a record exists: a request of its own.
BeginLoad(by) ==
  /\ Len(loads) < MaxLoads
  /\ loads' = Append(loads, [by |-> by, read |-> FALSE, content |-> Empty])

\* The server answers with what is stored by now.
ReadLoad(i) ==
  /\ ~loads[i].read
  /\ loads' =
       [loads EXCEPT ![i] = [by |-> @.by, read |-> TRUE, content |-> stored[incidentNumber]]]
  /\ UNCHANGED <<stored, page, work, news, writes, faults, history>>

\* What is left of the mutation that has run, and what its caller does next.
Finish(ok) ==
  LET m == Head(chain) IN
  /\ chain' = IF ok /\ m.next = "chain"
                THEN Append(Tail(chain), [field |-> Members, write |-> m.write, next |-> "done"])
                ELSE Tail(chain)
  /\ free' = IF ok /\ m.next = "free" THEN free \cup {m.write} ELSE free
  /\ refused' = IF ok THEN refused ELSE refused \cup {m.write}
  /\ phase' = "idle"
  /\ target' = New

\* The chain goes on once its own refetch is drawn, whatever became of that.
AfterDraw(l) ==
  IF l.by = "chain"
    THEN Finish(phase = "load")
    ELSE UNCHANGED <<work, refused>>

\* Mutant of Draw: the page is drawn without waiting for loadIncident.
DrawBeforeLoaded(i) ==
  /\ loads[i].read
  /\ loads' = RemoveAt(loads, i)
  /\ incident' = loads[i].content
  /\ shown' = Drawn(incident)
  /\ drawnBy' = loads[i].by
  /\ AfterDraw(loads[i])
  /\ UNCHANGED <<stored, incidentNumber, typing, news, writes, faults, applied, typed, lostCreates>>

\* The answer of a refetch is drawn.
Draw(i) ==
  /\ loads[i].read
  /\ loads' = RemoveAt(loads, i)
  /\ incident' = loads[i].content
  /\ shown' = Drawn(loads[i].content)
  /\ drawnBy' = loads[i].by
  /\ AfterDraw(loads[i])
  /\ UNCHANGED <<stored, incidentNumber, typing, news, writes, faults, applied, typed, lostCreates>>

\* A refetch fails; the record as loaded before is drawn once more.
LoadFails(i) ==
  /\ Fault
  /\ loads' = RemoveAt(loads, i)
  /\ shown' = Drawn(incident)
  /\ drawnBy' = "failure"
  /\ AfterDraw(loads[i])
  /\ UNCHANGED <<stored, incidentNumber, incident, typing, news, writes, applied, typed,
                 lostCreates>>
-----------------------------------------------------------------------------
\* The chain

\* Mutant of Start: a mutation takes the number that was known when it was handed
\* over, which is none for all but the first on the page for a new record.
StartAsEnqueued ==
  /\ phase = "idle"
  /\ chain # <<>>
  /\ target' = IF Head(chain).next = "done" THEN incidentNumber ELSE New
  /\ phase' = "post"
  /\ UNCHANGED <<stored, page, chain, free, loads, news, writes, faults, history>>

\* The next mutation begins; it asks for the number only now.
Start ==
  /\ phase = "idle"
  /\ chain # <<>>
  /\ target' = incidentNumber
  /\ phase' = "post"
  /\ UNCHANGED <<stored, page, chain, free, loads, news, writes, faults, history>>

\* The records once w is written to field f of record t, which is created if t is New.
Stored(t, f, w) ==
  LET old == IF t = New THEN Empty ELSE stored[t]
      new == [c \in Columns |-> IF c = f THEN w ELSE old[c]]
  IN IF t = New THEN Append(stored, new) ELSE [stored EXCEPT ![t] = new]

\* The server stores it and announces it; a fault may lose the answer.
Reach ==
  LET m == Head(chain)
      t == IF target = New THEN Len(stored) + 1 ELSE target
  IN
  /\ phase = "post"
  /\ stored' = Stored(target, m.field, m.write)
  /\ news' = news + 1
  /\ applied' = IF m.field \in Fields THEN applied \cup {<<t, m.field, m.write>>} ELSE applied
  /\ \/ /\ phase' = "answered"
        /\ UNCHANGED <<faults, lostCreates>>
     \/ /\ phase' = "failed"
        /\ Fault
        /\ lostCreates' = IF target = New THEN lostCreates + 1 ELSE lostCreates
  /\ UNCHANGED <<page, chain, target, free, loads, writes, refused, typed, drawnBy>>

\* The network or the server refuses it.
Refuse ==
  /\ phase = "post"
  /\ Fault
  /\ phase' = "failed"
  /\ UNCHANGED <<stored, page, chain, target, free, loads, news, writes, history>>

\* The number in the answer to a creation is stored, and the page refetches.
Answered ==
  /\ phase = "answered"
  /\ incidentNumber' = IF target = New THEN Len(stored) ELSE incidentNumber
  /\ BeginLoad("chain")
  /\ phase' = "load"
  /\ UNCHANGED <<stored, incident, shown, typing, chain, target, free, news, writes, faults,
                 history>>

\* removeRanger, setRangerRole and addRanger leave the redraw to the announcement.
AnsweredRoster ==
  /\ phase \in {"answered", "failed"}
  /\ Head(chain).field = Members
  /\ Finish(phase = "answered")
  /\ UNCHANGED <<stored, page, loads, news, writes, faults, applied, typed, lostCreates, drawnBy>>

\* loadIncident while there is no record: no request, an empty page is drawn.
DrawNew(by) ==
  /\ incident' = Empty
  /\ shown' = Drawn(Empty)
  /\ drawnBy' = by

\* After an error the page is redrawn as well.
Failed ==
  /\ phase = "failed"
  /\ \/ /\ incidentNumber = New
        /\ DrawNew("chain")
        /\ Finish(FALSE)
        /\ UNCHANGED loads
     \/ /\ incidentNumber # New
        /\ BeginLoad("chain")
        /\ phase' = "reload"
        /\ UNCHANGED <<incident, shown, drawnBy, chain, target, free, refused>>
  /\ UNCHANGED <<stored, incidentNumber, typing, news, writes, faults, applied, typed, lostCreates>>
-----------------------------------------------------------------------------
\* Past the chain

\* A file is stored and announced, and the page refetches.
FreeReach(w) ==
  /\ stored' = Stored(incidentNumber, Members, w)
  /\ news' = news + 1
  /\ free' = free \ {w}
  /\ BeginLoad("other")
  /\ UNCHANGED <<page, chain, phase, target, writes, faults, history>>

\* The upload fails; nothing is redrawn.
FreeFails(w) ==
  /\ Fault
  /\ free' = free \ {w}
  /\ UNCHANGED <<stored, page, chain, phase, target, loads, news, writes, history>>

\* Somebody else edits the record, and that is announced.
OthersWrite(f) ==
  /\ incidentNumber # New
  /\ Write
  /\ stored' = Stored(incidentNumber, f, writes')
  /\ news' = news + 1
  /\ UNCHANGED <<page, work, loads, faults, history>>

\* The page hears that its record has changed.  While its number is not known here,
\* an announcement of it passes the page by.
Hear ==
  /\ news > 0
  /\ news' = news - 1
  /\ IF incidentNumber = New THEN UNCHANGED loads ELSE BeginLoad("other")
  /\ UNCHANGED <<stored, page, work, writes, faults, history>>

\* The page hears that it may have missed something (update_all).
HearAll ==
  /\ Fault
  /\ IF incidentNumber = New
       THEN DrawNew("other") /\ UNCHANGED loads
       ELSE BeginLoad("other") /\ UNCHANGED <<incident, shown, drawnBy>>
  /\ UNCHANGED <<stored, incidentNumber, typing, work, news, writes, applied, refused, typed,
                 lostCreates>>

Quiet == chain = <<>> /\ free = {} /\ loads = <<>>

\* Nothing is left to be done, and nobody may write any more.
FormFinished ==
  /\ writes = MaxWrites
  /\ Quiet /\ typing = Nothing /\ news = 0
  /\ UNCHANGED formVars

FormNext ==
  \/ \E f \in Fields : Type(f) \/ OthersWrite(f)
  \/ Commit
  \/ \E way \in {"chain", "free"} : Click(way)
  \/ \E i \in DOMAIN loads : ReadLoad(i) \/ Draw(i) \/ LoadFails(i)
  \/ Start \/ Reach \/ Refuse \/ Answered \/ AnsweredRoster \/ Failed
  \/ \E w \in free : FreeReach(w) \/ FreeFails(w)
  \/ Hear \/ HearAll
  \/ FormFinished

FormSpec == FormInit /\ [][FormNext]_formVars
-----------------------------------------------------------------------------
\* Properties

\* The chain runs one mutation at a time: a refetch of its own is under way exactly
\* while the first one waits for it, and only what is running has read a number.
FormTypeOK ==
  /\ stored \in Seq(Content)
  /\ incidentNumber \in 0 .. Len(stored)
  /\ incident \in Content /\ shown \in Content
  /\ typing \in Fields \cup {Nothing}
  /\ chain \in Seq(Mutation)
  /\ phase \in Phases
  /\ phase # "idle" => chain # <<>>
  /\ target \in 0 .. incidentNumber
  /\ free \subseteq 1 .. MaxWrites
  /\ loads \in Seq(Load) /\ Len(loads) <= MaxLoads
  /\ Cardinality({i \in DOMAIN loads : loads[i].by = "chain"})
       = (IF phase \in {"load", "reload"} THEN 1 ELSE 0)
  /\ news \in Nat
  /\ writes \in 0 .. MaxWrites
  /\ faults \in 0 .. MaxFaults

\* However fast the user types and clicks on the page for a new record, one record is
\* created: everything after the first edit goes to the record that this one created
\* ("so that future edits don't keep creating new resources", incident.ts:1141).
\* Only an edit whose answer is lost leaves another record behind.
PageCreatesOnce == Len(stored) <= 1 + lostCreates

\* What the user has typed is never lost to a redraw: it is still in its control, or
\* waits in the chain, or is stored, or its request was answered with an error.
NoTypingLost ==
  \A x \in typed :
    \/ typing = x[1] /\ shown[x[1]] = x[2]
    \/ \E i \in DOMAIN chain : chain[i].field = x[1] /\ chain[i].write = x[2]
    \/ \E t \in DOMAIN stored : <<t, x[1], x[2]>> \in applied
    \/ x[2] \in refused

\* Once nothing is under way, a page that was last redrawn by its chain shows, in each
\* control that is not being typed into, the latest of the user's edits that the server
\* has stored, or something written later; the chain never settles on a state that it
\* has moved past itself.  A redraw from outside of the chain may.
SettlesOnOwnWrites ==
  Quiet /\ drawnBy = "chain" =>
    \A x \in applied : x[1] = incidentNumber /\ x[2] # typing => shown[x[2]] >= x[3]
=============================================================================
