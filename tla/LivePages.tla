------------------------------ MODULE LivePages ------------------------------
(***************************************************************************)
(* How a committed change reaches the open pages: EventSourcerer on the    *)
(* server, and the pages of one browser, which share one connection to it. *)
(*                                                                         *)
(* A handler that has committed takes the next event number and publishes  *)
(* the event: two steps, so that events may be published out of order.     *)
(* Nothing is kept for a browser that is not connected.  Whoever connects  *)
(* is first sent the latest number in an InitialEvent; a browser that had  *)
(* last seen another number concludes that it missed something, and has    *)
(* its pages fetch everything.                                             *)
(*                                                                         *)
(* In a browser the page that holds ims_eventsource_lock, the leader, has  *)
(* the connection.  It keeps the latest number in localStorage and passes  *)
(* every event on to all pages through BroadcastChannels.  A page begins   *)
(* to listen after its first fetch.  Each message starts a fetch of its    *)
(* own: two of them may be under way at once, and the answers may come in  *)
(* either order.  A page shows the answer that came last.                  *)
(*                                                                         *)
(* The number counts from 0 again when the server restarts.                *)
(***************************************************************************)
EXTENDS Integers, Sequences, FiniteSets

CONSTANTS
  Changes,      \* the handlers that change a record and tell of it
  Records,      \* the records, each named for its type: "incident",
                \* "fieldReport", "visit"
  BrowserPages, \* the pages of the browser
  Subject,      \* Subject[p]: the record that page p shows, alone or in a table
  Table,        \* the pages that are tables
  NoPage,       \* holder of a free lock
  MaxRestarts,  \* bound on the restarts of the server
  MaxDrops      \* bound on the lost connections

ASSUME PagesAssumption ==
  /\ Records \subseteq {"incident", "fieldReport", "visit"}
  /\ Subject \in [BrowserPages -> Records]
  /\ Table \subseteq BrowserPages
  /\ NoPage \notin BrowserPages
  /\ MaxRestarts \in Nat /\ MaxDrops \in Nat

VARIABLES
  \* the server
  stored,     \* stored[k]: how often record k has been changed
  change,     \* change[c]: the step of handler c, its record and event number
  counter,    \* IdCounter
  \* the browser
  leader,     \* the page that holds the lock
  connected,  \* whether the leader's EventSource is open
  wire,       \* the events sent to it and not received yet
  lastSseId,  \* localStorage: the latest number received, with the server's run
  pageState,  \* pageState[p]: "new", "loading", "listening" or "closed"
  shown,      \* shown[p]: the state of its record that p shows
  asked,      \* asked[p]: how many fetches of p have not reached the server
  answers,    \* answers[p]: the states that are on their way back to p
  \* bounds and history
  run,        \* how often the server has restarted
  drops,      \* how often the connection was lost
  latest,     \* the highest number published in this run of the server
  overtaken,  \* an event of this run was published after one of a higher number
  excuse      \* excuse[p]: what went wrong for p since its latest fetch

server == <<stored, change, counter, run, latest, overtaken>>
browser == <<leader, connected, wire, lastSseId, drops>>
pages == <<pageState, shown, asked, answers, excuse>>
liveVars == <<server, browser, pages>>

Excuses == {"loading", "reordered", "overtaken", "renumbered", "unpublished", "failed"}
-----------------------------------------------------------------------------
Idle == [step |-> "idle", record |-> "none", id |-> 0]
Done == [Idle EXCEPT !.step = "done"]

LiveInit ==
  /\ stored = [k \in Records |-> 0]
  /\ change = [c \in Changes |-> Idle]
  /\ counter = 0
  /\ leader = NoPage
  /\ connected = FALSE
  /\ wire = <<>>
  /\ lastSseId = [id |-> -1, run |-> 0]
  /\ pageState = [p \in BrowserPages |-> "new"]
  /\ shown = [p \in BrowserPages |-> 0]
  /\ asked = [p \in BrowserPages |-> 0]
  /\ answers = [p \in BrowserPages |-> {}]
  /\ run = 0
  /\ drops = 0
  /\ latest = 0
  /\ overtaken = FALSE
  /\ excuse = [p \in BrowserPages |-> {}]

\* The open pages of S get the excuse e.
Excuse(S, e) ==
  excuse' = [p \in BrowserPages |->
    excuse[p]
      \cup (IF p \in S /\ pageState[p] \in {"loading", "listening"} THEN {e} ELSE {})]

-----------------------------------------------------------------------------
\* A change of record k is committed.
Commit(c, k) ==
  /\ change[c].step = "idle"
  /\ stored' = [stored EXCEPT ![k] = @ + 1]
  /\ change' = [change EXCEPT ![c] = [step |-> "committed", record |-> k, id |-> 0]]
  /\ UNCHANGED <<counter, run, latest, overtaken, browser, pages>>

\* The handler is not told of its commit, and answers with an error.
NeverPublish(c) ==
  /\ change[c].step = "committed"
  /\ change' = [change EXCEPT ![c] = Done]
  /\ Excuse({p \in BrowserPages : Subject[p] = change[c].record}, "unpublished")
  /\ UNCHANGED <<stored, counter, run, latest, overtaken, browser, pageState, shown, asked,
                 answers>>

\* es.IdCounter.Add(1)
TakeNumber(c) ==
  /\ change[c].step = "committed"
  /\ counter' = counter + 1
  /\ change' =
       [change EXCEPT ![c] = [step |-> "numbered", record |-> @.record, id |-> counter + 1]]
  /\ UNCHANGED <<stored, run, latest, overtaken, browser, pages>>

\* es.Server.Publish
Publish(c) ==
  /\ change[c].step = "numbered"
  /\ change' = [change EXCEPT ![c] = Done]
  /\ latest' = IF change[c].id > latest THEN change[c].id ELSE latest
  /\ overtaken' = (overtaken \/ change[c].id < latest)
  /\ wire' = IF connected
             THEN Append(wire, [type |-> change[c].record, id |-> change[c].id])
             ELSE wire
  /\ UNCHANGED <<stored, counter, run, leader, connected, lastSseId, drops, pages>>

\* The server restarts: handlers, connections and the counter are gone.
Restart ==
  /\ run < MaxRestarts
  /\ run' = run + 1
  /\ counter' = 0
  /\ latest' = 0
  /\ overtaken' = FALSE
  /\ change' = [c \in Changes |->
       IF change[c].step = "idle" THEN change[c] ELSE Done]
  /\ connected' = FALSE
  /\ wire' = <<>>
  /\ UNCHANGED <<stored, leader, lastSseId, drops, pages>>

-----------------------------------------------------------------------------
\* requestEventSourceLock: the lock is granted to a page that waits for it.
Lead(p) ==
  /\ leader = NoPage
  /\ pageState[p] = "listening"
  /\ leader' = p
  /\ UNCHANGED <<server, connected, wire, lastSseId, drops, pages>>

\* Mutant of Connect: the server replays nothing (ReplayAll is off).
ConnectWithoutReplay ==
  /\ leader # NoPage
  /\ ~connected
  /\ connected' = TRUE
  /\ UNCHANGED <<server, leader, wire, lastSseId, drops, pages>>

\* The EventSource connects.  The server subscribes it and replays the
\* InitialEvent in one step, so that it gets every event published from now on.
Connect ==
  /\ leader # NoPage
  /\ ~connected
  /\ connected' = TRUE
  /\ wire' = <<[type |-> "initial", id |-> counter]>>
  /\ UNCHANGED <<server, leader, lastSseId, drops, pages>>

\* The connection breaks, and what was on it is lost.  The EventSource connects
\* again, or is closed for good and releases the lock.
Drop ==
  /\ connected
  /\ drops < MaxDrops
  /\ drops' = drops + 1
  /\ connected' = FALSE
  /\ wire' = <<>>
  /\ leader' \in {leader, NoPage}
  /\ UNCHANGED <<server, lastSseId, pages>>

\* Whether a listening page takes the message for its own.  Pages of every kind
\* take update_all, which has no message on the Visit channel.  A Field Report's
\* own page compares the number of the Event with its name.
HearsMessage(p, message) ==
  IF message = "update_all" THEN Subject[p] # "visit"
  ELSE Subject[p] = message /\ (Subject[p] = "fieldReport" => p \in Table)

Listening(p) == pageState[p] = "listening"

\* Every page that hears the message starts a fetch; one that is still loading is
\* not there to hear it.
Broadcast(message) ==
  /\ asked' = [p \in BrowserPages |->
       asked[p] + IF Listening(p) /\ HearsMessage(p, message) THEN 1 ELSE 0]
  /\ Excuse({p \in BrowserPages : ~Listening(p) /\ HearsMessage(p, message)}, "loading")

\* Mutant of ReceiveInitial: the missed events are noticed only by a number that
\* has grown.
ReceiveInitialIfGrown ==
  /\ connected /\ wire # <<>> /\ Head(wire).type = "initial"
  /\ wire' = Tail(wire)
  /\ lastSseId' = [id |-> Head(wire).id, run |-> run]
  /\ IF Head(wire).id <= lastSseId.id
     THEN UNCHANGED <<asked, excuse>>
     ELSE Broadcast("update_all")
  /\ UNCHANGED <<server, leader, connected, drops, pageState, shown, answers>>

\* The InitialEvent: the same number as last time means that nothing was missed.
ReceiveInitial ==
  /\ connected /\ wire # <<>> /\ Head(wire).type = "initial"
  /\ wire' = Tail(wire)
  /\ lastSseId' = [id |-> Head(wire).id, run |-> run]
  /\ IF Head(wire).id = lastSseId.id
     THEN /\ excuse' = [p \in BrowserPages |-> excuse[p]
                          \cup (IF lastSseId.run # run THEN {"renumbered"} ELSE {})
                          \cup (IF overtaken THEN {"overtaken"} ELSE {})]
          /\ UNCHANGED asked
     ELSE Broadcast("update_all")
  /\ UNCHANGED <<server, leader, connected, drops, pageState, shown, answers>>

\* An event about a record.
ReceiveUpdate ==
  /\ connected /\ wire # <<>> /\ Head(wire).type # "initial"
  /\ wire' = Tail(wire)
  /\ lastSseId' = [id |-> Head(wire).id, run |-> run]
  /\ Broadcast(Head(wire).type)
  /\ UNCHANGED <<server, leader, connected, drops, pageState, shown, answers>>

-----------------------------------------------------------------------------
\* A page is opened and fetches its record for the first time.
Open(p) ==
  /\ pageState[p] = "new"
  /\ pageState' = [pageState EXCEPT ![p] = "loading"]
  /\ asked' = [asked EXCEPT ![p] = 1]
  /\ UNCHANGED <<server, browser, shown, answers, excuse>>

\* The server answers a fetch with the record as it is.
Serve(p) ==
  /\ asked[p] > 0
  /\ asked' = [asked EXCEPT ![p] = @ - 1]
  /\ answers' = [answers EXCEPT ![p] = @ \cup {stored[Subject[p]]}]
  /\ excuse' = [excuse EXCEPT ![p] = {}]
  /\ UNCHANGED <<server, browser, pageState, shown>>

\* An answer arrives, any of those under way, and is drawn.
Draw(p) ==
  /\ \E v \in answers[p] :
       /\ shown' = [shown EXCEPT ![p] = v]
       /\ answers' = [answers EXCEPT ![p] = @ \ {v}]
       /\ IF v < shown[p] THEN Excuse({p}, "reordered") ELSE UNCHANGED excuse
  /\ UNCHANGED <<server, browser, pageState, asked>>

\* A fetch fails on its way there or back, and the page goes on showing what it
\* did.  (A page whose first fetch fails shows nothing: Close.)
FetchFails(p) ==
  /\ Listening(p)
  /\ asked[p] > 0
  /\ asked' = [asked EXCEPT ![p] = @ - 1]
  /\ Excuse({p}, "failed")
  /\ UNCHANGED <<server, browser, pageState, shown, answers>>

\* The first fetch is drawn: the page starts to listen, and to wait for the lock.
Listen(p) ==
  /\ pageState[p] = "loading"
  /\ asked[p] = 0 /\ answers[p] = {}
  /\ pageState' = [pageState EXCEPT ![p] = "listening"]
  /\ UNCHANGED <<server, browser, shown, asked, answers, excuse>>

\* The user closes the page; the leader's lock and connection go with it.
Close(p) ==
  /\ pageState[p] \in {"loading", "listening"}
  /\ pageState' = [pageState EXCEPT ![p] = "closed"]
  /\ asked' = [asked EXCEPT ![p] = 0]
  /\ answers' = [answers EXCEPT ![p] = {}]
  /\ IF leader = p
     THEN leader' = NoPage /\ connected' = FALSE /\ wire' = <<>>
     ELSE UNCHANGED <<leader, connected, wire>>
  /\ shown' = [shown EXCEPT ![p] = 0]
  /\ excuse' = [excuse EXCEPT ![p] = {}]
  /\ UNCHANGED <<server, lastSseId, drops>>

-----------------------------------------------------------------------------
\* What goes on by itself once it can.
Deliver ==
  \/ \E c \in Changes : TakeNumber(c) \/ Publish(c)
  \/ \E p \in BrowserPages : Lead(p) \/ Serve(p) \/ Draw(p) \/ Listen(p)
  \/ Connect \/ ReceiveInitial \/ ReceiveUpdate

LiveNext ==
  \/ Deliver
  \/ \E c \in Changes : NeverPublish(c) \/ \E k \in Records : Commit(c, k)
  \/ \E p \in BrowserPages : Open(p) \/ FetchFails(p) \/ Close(p)
  \/ Drop \/ Restart

LiveSpec == LiveInit /\ [][LiveNext]_liveVars
-----------------------------------------------------------------------------
LiveTypeOK ==
  /\ stored \in [Records -> Nat]
  /\ change \in [Changes -> [step : {"idle", "committed", "numbered", "done"},
                             record : Records \cup {"none"}, id : Nat]]
  /\ counter \in Nat
  /\ leader \in BrowserPages \cup {NoPage}
  /\ connected \in BOOLEAN
  /\ \A i \in DOMAIN wire : wire[i].type \in Records \cup {"initial"}
  /\ connected => leader # NoPage
  /\ leader # NoPage => pageState[leader] = "listening"
  /\ pageState \in [BrowserPages -> {"new", "loading", "listening", "closed"}]
  /\ shown \in [BrowserPages -> Nat]
  /\ answers \in [BrowserPages -> SUBSET Nat]
  /\ \A p \in BrowserPages : \A v \in answers[p] \cup {shown[p]} : v <= stored[Subject[p]]
  /\ asked \in [BrowserPages -> Nat]
  /\ excuse \in [BrowserPages -> SUBSET Excuses]

\* Nothing is under way, and the browser is connected.
NothingUnderWay ==
  /\ \A c \in Changes : change[c].step \in {"idle", "done"}
  /\ connected /\ wire = <<>>
  /\ \A p \in BrowserPages : asked[p] = 0 /\ answers[p] = {}

Converged(p) == Listening(p) /\ excuse[p] = {} => shown[p] = stored[Subject[p]]

\* However often the connection breaks, the leader changes and events are missed,
\* the pages of an Incident and the tables of Incidents and Field Reports end up
\* showing what is stored.  The exceptions are all that there are: the page was
\* still loading when the event came; the answers to two fetches changed places; a
\* fetch failed; an event was never published; it was published after one of a
\* higher number and missed; or the server restarted and counted up to the very
\* number the browser had seen.
OpenPagesConverge ==
  NothingUnderWay => \A p \in BrowserPages :
    Subject[p] = "incident" \/ (Subject[p] = "fieldReport" /\ p \in Table) => Converged(p)

\* The same of Visits, whose pages have a handler for update_all like the others
\* (sanctuary_visits.ts: "Reloading the whole table to be cautious, as an SSE was
\* missed").
VisitPagesConverge ==
  NothingUnderWay => \A p \in BrowserPages : Subject[p] = "visit" => Converged(p)
=============================================================================
