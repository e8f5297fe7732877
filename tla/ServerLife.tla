----------------------------- MODULE ServerLife -----------------------------
(***************************************************************************)
(* The life of a server process: it brings the schema of the database to   *)
(* the version of its code (MigrateDB), serves requests through the stack  *)
(* of adapters every authenticated route is wrapped in (Adapt), whose two  *)
(* logs are written by a worker each from a bounded queue, and shuts down. *)
(*                                                                         *)
(* A migration is a script of several statements, of which each commits by *)
(* itself: a server that is killed between two of them leaves the database *)
(* in between.  The scripts of single steps end by setting the version;    *)
(* the script for a new database, current.sql, inserts it second, right    *)
(* after it creates the table.  Two servers may start at the same time,    *)
(* with different code, and nothing keeps their migrations apart: what one *)
(* of them has brought further the other may take back.                    *)
(*                                                                         *)
(* The requests modelled are those of one of the servers.                  *)
(***************************************************************************)
EXTENDS Integers, Sequences, FiniteSets

CONSTANTS
  Servers,     \* the server processes
  Main,        \* the one whose requests are modelled
  Requests,    \* its requests
  Code,        \* Code[s]: repoSchemaVersion of server s
  MaxVersion,  \* bound: the highest version there is a script for
  Oldest,      \* the lowest one
  Objects,     \* what scripts shape: tables, columns, keys, and the data they convert
  Schema,      \* Schema[v][o]: the shape of object o in version v, or "absent"
  Script,      \* Script[v]: the changes of schema/v-from-(v-1).sql, in order
  Current,     \* Current[v]: those of current.sql in code of version v
  Scenarios,   \* the version of the database at first, who starts, the routes asked
  QueueMax,    \* workQueueMaxLength
  MaxBoots     \* bound: how often a server is started

Versions == 1 .. MaxVersion
Logs == {"action", "error"}

\* Change c shapes object o.
ShapedBy(c, o) == o \in DOMAIN c.shape

\* The whole script leads from the one schema to the other: each object is left in
\* the last of the shapes the script gives it.
Leads(script, from, to) ==
  \A o \in Objects :
    LET those == {i \in 1 .. Len(script) : ShapedBy(script[i], o)} IN
    IF those = {} THEN to[o] = from[o]
    ELSE \E i \in those : (\A j \in those : j <= i) /\ to[o] = script[i].shape[o]

ASSUME ServerAssumption ==
  /\ Main \in Servers
  /\ "none" \notin Requests
  /\ MaxVersion \in Nat \ {0}
  /\ Code \in [Servers -> Versions]
  /\ Oldest \in Nat \ {0, 1}
  /\ DOMAIN Script = Oldest .. MaxVersion
  /\ \A v \in Oldest .. MaxVersion : Len(Script[v]) \in Nat
  /\ \A v \in Oldest .. MaxVersion : Leads(Script[v], Schema[v - 1], Schema[v])
  /\ \A s \in Servers : /\ Len(Current[Code[s]]) \in Nat
                        /\ Leads(Current[Code[s]], Schema[0], Schema[Code[s]])
  /\ QueueMax \in Nat \ {0}
  /\ MaxBoots \in Nat
  /\ \A g \in Scenarios :
       /\ g.version \in 0 .. MaxVersion
       /\ g.starts \subseteq Servers
       /\ g.ask \in [Requests -> [token : BOOLEAN, logAction : BOOLEAN]]

VARIABLES
  given,    \* the scenario, never changed
  \* the database
  info,     \* SCHEMA_INFO: is it there, and the version in it, 0 for no row
  schema,   \* the shape of each object
  \* the servers
  phase,    \* where server s is in its life
  todo,     \* where it is in its migration
  boots,    \* how often it has been started
  overlapped, \* have two of them ever migrated at the same time?  For the properties
  \* the requests
  step,     \* the next step of request q in the adapters
  outcome,  \* what it came to
  gone,     \* has its client hung up?
  \* the logs
  queue,    \* queue[l]: the channel of log l
  worker,   \* the row its worker has taken, and whether that is written
  dropped,  \* the counter of dropped rows
  late,     \* was one counted when its queue was written out?  For the properties
  fate      \* fate[l][q]: what became of the row of q.  For the properties

database == <<info, schema>>
servers == <<phase, todo, boots, overlapped>>
requests == <<step, outcome, gone>>
logs == <<queue, worker, dropped, late, fate>>
vars == <<given, database, servers, requests, logs>>

Phases == {"off", "check", "run", "serving", "closing", "down"}
Steps == {"new", "authn", "handle", "logAction", "dropAction", "recordErrors", "dropError",
          "done"}
Outcomes == {"none", "success", "unauthorized", "refused", "failed", "cancelled", "panic"}
Fates == {"none", "queued", "taken", "stored", "unwritten", "dropped", "lost"}
Idle == [row |-> "none", written |-> FALSE]

\* Where a migration is: at the n-th statement of the step to version v; or in
\* current.sql, at the table, the version or the n-th of the changes.
At(script, v, n) == [script |-> script, version |-> v, number |-> n]
Nowhere == At("none", 0, 0)

Serving(s) == phase[s] = "serving"

\* Some change of the script of version v shapes object o.
Shapes(v, o) == v \in DOMAIN Script /\ \E i \in 1 .. Len(Script[v]) : ShapedBy(Script[v][i], o)

-----------------------------------------------------------------------------
Init ==
  /\ given \in Scenarios
  /\ info = [table |-> given.version > 0, version |-> given.version]
  /\ schema = [o \in Objects |-> Schema[given.version][o]]
  /\ phase = [s \in Servers |-> "off"]
  /\ todo = [s \in Servers |-> Nowhere]
  /\ boots = [s \in Servers |-> 0]
  /\ overlapped = FALSE
  /\ step = [q \in Requests |-> "new"]
  /\ outcome = [q \in Requests |-> "none"]
  /\ gone = [q \in Requests |-> FALSE]
  /\ queue = [l \in Logs |-> <<>>]
  /\ worker = [l \in Logs |-> Idle]
  /\ dropped = [l \in Logs |-> 0]
  /\ late = [l \in Logs |-> FALSE]
  /\ fate = [l \in Logs |-> [q \in Requests |-> "none"]]

-----------------------------------------------------------------------------
(* Starting: mustStartServer, SqlDB, MigrateDB.                            *)

\* A statement is a change, or it sets the version.  A change needs some objects to be
\* there and others not to be (IF EXISTS needs neither), and gives objects their shapes,
\* whatever these were before.
NoChange == [there |-> {}, absent |-> {}, shape |-> <<>>]
MakeChange(c) == [version |-> 0, change |-> c]
SetVersion(v) == [version |-> v, change |-> NoChange]

Fits(c) == /\ \A o \in c.there : schema[o] # "absent"
           /\ \A o \in c.absent : schema[o] = "absent"
Shaped(c) == [o \in Objects |-> IF ShapedBy(c, o) THEN c.shape[o] ELSE schema[o]]

\* Mutant of Step: the version is set before the changes are made.
StepVersionFirst(v, n) == IF n = 1 THEN SetVersion(v) ELSE MakeChange(Script[v][n - 1])

\* The n-th statement of schema/v-from-(v-1).sql.
Step(v, n) == IF n <= Len(Script[v]) THEN MakeChange(Script[v][n]) ELSE SetVersion(v)

NextStatement(s) ==
  LET at == todo[s] IN
  IF at.script = "version" THEN SetVersion(Code[s])
  ELSE IF at.script = "changes" THEN MakeChange(Current[Code[s]][at.number])
  ELSE Step(at.version, at.number)

Further(s) ==
  LET at == todo[s] IN
  IF at.script = "table" THEN At("version", 0, 0)
  ELSE IF at.script = "version" THEN At("changes", 0, 1)
  ELSE IF at.script = "steps" /\ at.number > Len(Script[at.version]) THEN At("steps", at.version + 1, 1)
  ELSE [at EXCEPT !.number = @ + 1]

Migrated(s) ==
  \/ todo[s].script = "changes" /\ todo[s].number > Len(Current[Code[s]])
  \/ todo[s].script = "steps" /\ todo[s].version > Code[s]

Boot(s) ==
  /\ phase[s] = "off"
  /\ s \in given.starts
  /\ boots[s] < MaxBoots
  /\ phase' = [phase EXCEPT ![s] = "check"]
  /\ boots' = [boots EXCEPT ![s] = @ + 1]
  /\ UNCHANGED <<given, database, todo, overlapped, requests, logs>>

\* A process that ends before it serves may be started again.
Fails(s) ==
  /\ phase' = [phase EXCEPT ![s] = "off"]
  /\ todo' = [todo EXCEPT ![s] = Nowhere]

Done(s) ==
  /\ phase' = [phase EXCEPT ![s] = "serving"]
  /\ todo' = [todo EXCEPT ![s] = Nowhere]

Migrates(s, from) ==
  /\ phase' = [phase EXCEPT ![s] = "run"]
  /\ todo' = [todo EXCEPT ![s] = from]
  /\ overlapped' = (overlapped \/ \E t \in Servers \ {s} : phase[t] = "run")

\* dbSchemaVersion, and what MigrateDB concludes.  No table is version 0; a table
\* without a row is an error.
CheckVersion(s) ==
  /\ phase[s] = "check"
  /\ \/ /\ info.table /\ (info.version = 0 \/ info.version > Code[s])
        /\ Fails(s) /\ UNCHANGED overlapped
     \/ /\ info.table /\ info.version = Code[s]
        /\ Done(s) /\ UNCHANGED overlapped
     \/ /\ info.table /\ info.version \in 1 .. Code[s] - 1
        /\ Migrates(s, At("steps", info.version + 1, 1))
     \/ /\ ~info.table
        /\ Migrates(s, At("table", 0, 0))
  /\ UNCHANGED <<given, database, boots, requests, logs>>

\* There is no script for the step, or the database refuses the statement, because the
\* schema is not as it was when it was written.
Refused(s) ==
  LET at == todo[s] IN
  IF at.script = "table" THEN info.table
  ELSE \/ at.script = "steps" /\ at.version \notin DOMAIN Script
       \/ ~Fits(NextStatement(s).change)

\* runScript, one statement of it.
RunStatement(s) ==
  /\ phase[s] = "run"
  /\ ~Migrated(s)
  /\ \/ /\ Refused(s)
        /\ Fails(s)
        /\ UNCHANGED database
     \/ /\ ~Refused(s)
        /\ todo' = [todo EXCEPT ![s] = Further(s)]
        /\ IF todo[s].script = "table"
           THEN info' = [info EXCEPT !.table = TRUE] /\ UNCHANGED schema
           ELSE LET now == NextStatement(s) IN
                /\ schema' = Shaped(now.change)
                /\ IF now.version > 0 THEN info' = [info EXCEPT !.version = now.version]
                                      ELSE UNCHANGED info
        /\ UNCHANGED phase
  /\ UNCHANGED <<given, boots, overlapped, requests, logs>>

\* The second look at the version: the script must have arrived.
VerifyVersion(s) ==
  /\ phase[s] = "run"
  /\ Migrated(s)
  /\ \/ info.version = Code[s] /\ Done(s)
     \/ info.version # Code[s] /\ Fails(s)
  /\ UNCHANGED <<given, database, boots, overlapped, requests, logs>>

\* The process is killed, or loses the database, while it migrates.  It is gone when the
\* database no longer goes on with the script it was sent.
KilledEarly(s) ==
  /\ phase[s] \in {"check", "run"}
  /\ Fails(s)
  /\ UNCHANGED <<given, database, boots, overlapped, requests, logs>>

-----------------------------------------------------------------------------
(* A request on its way through RecordErrors, RecoverFromPanic,            *)
(* RequireAuthN, LogRequest and the handler, and back.                     *)

Goto(q, s) == step' = [step EXCEPT ![q] = s]
Ends(q, o) == outcome' = [outcome EXCEPT ![q] = o]

Arrive(q) ==
  /\ step[q] = "new"
  /\ Serving(Main)
  /\ Goto(q, "authn")
  /\ UNCHANGED <<given, database, servers, outcome, gone, logs>>

\* RequireAuthN: without a valid token nothing further in is reached, not even
\* the action log.
RequireAuthN(q) ==
  /\ step[q] = "authn"
  /\ IF given.ask[q].token THEN Goto(q, "handle") /\ UNCHANGED outcome
                           ELSE Goto(q, "recordErrors") /\ Ends(q, "unauthorized")
  /\ UNCHANGED <<given, database, servers, gone, logs>>

\* The context of the request ends with its connection.
HangUp(q) ==
  /\ step[q] \in {"authn", "handle", "logAction", "dropAction", "recordErrors"}
  /\ ~gone[q]
  /\ gone' = [gone EXCEPT ![q] = TRUE]
  /\ UNCHANGED <<given, database, servers, step, outcome, logs>>

\* The handler.  It may answer, refuse, fail, fail because a context was
\* cancelled (the request's or one of its own), or panic: a panic passes
\* LogRequest by, and RecoverFromPanic makes it a 500.
Handle(q) ==
  /\ step[q] = "handle"
  /\ \E o \in {"success", "refused", "failed", "cancelled", "panic"} :
       /\ Ends(q, o)
       /\ Goto(q, IF given.ask[q].logAction /\ o # "panic" THEN "logAction" ELSE "recordErrors")
  /\ UNCHANGED <<given, database, servers, gone, logs>>

\* Mutant of Offer: the send waits for room in the channel.
OfferBlocking(l, q, sent, full) ==
  /\ Len(queue[l]) < QueueMax
  /\ queue' = [queue EXCEPT ![l] = Append(@, q)]
  /\ fate' = [fate EXCEPT ![l][q] = "queued"]
  /\ Goto(q, sent)

\* Logger.Log: the select, whose default is taken if the channel is full.
Offer(l, q, sent, full) ==
  \/ /\ Len(queue[l]) < QueueMax
     /\ queue' = [queue EXCEPT ![l] = Append(@, q)]
     /\ fate' = [fate EXCEPT ![l][q] = "queued"]
     /\ Goto(q, sent)
  \/ /\ Len(queue[l]) = QueueMax
     /\ Goto(q, full)
     /\ UNCHANGED <<queue, fate>>

\* dropped.Add(1), a step after the select.
CountDrop(l, q) ==
  /\ dropped' = [dropped EXCEPT ![l] = @ + 1]
  /\ late' = [late EXCEPT ![l] = @ \/ (queue[l] = <<>> /\ worker[l] = Idle)]
  /\ fate' = [fate EXCEPT ![l][q] = "dropped"]

\* LogRequest, after the handler returned.
LogAction(q) ==
  /\ \/ /\ step[q] = "logAction"
        /\ Offer("action", q, "recordErrors", "dropAction")
        /\ UNCHANGED <<dropped, late>>
     \/ /\ step[q] = "dropAction"
        /\ CountDrop("action", q)
        /\ Goto(q, "recordErrors")
        /\ UNCHANGED queue
  /\ UNCHANGED <<given, database, servers, outcome, gone, worker>>

\* Mutant of ServerFault: a failure does not count if the client has hung up.
ServerFaultUnlessGone(q) == outcome[q] \in {"failed", "cancelled", "panic"} /\ ~gone[q]

\* RecordErrors: a 5xx, unless the client had hung up and that is what failed.
ServerFault(q) ==
  /\ outcome[q] \in {"failed", "cancelled", "panic"}
  /\ ~(outcome[q] = "cancelled" /\ gone[q])

RecordErrors(q) ==
  /\ \/ /\ step[q] = "recordErrors"
        /\ \/ ServerFault(q) /\ Offer("error", q, "done", "dropError")
           \/ ~ServerFault(q) /\ Goto(q, "done") /\ UNCHANGED <<queue, fate>>
        /\ UNCHANGED <<dropped, late>>
     \/ /\ step[q] = "dropError"
        /\ CountDrop("error", q)
        /\ Goto(q, "done")
        /\ UNCHANGED queue
  /\ UNCHANGED <<given, database, servers, outcome, gone, worker>>

-----------------------------------------------------------------------------
(* The workers of the logs: startWorker, writeRow.                         *)

Running == Serving(Main) \/ phase[Main] = "closing"

TakeRow(l) ==
  /\ Running
  /\ worker[l] = Idle
  /\ queue[l] # <<>>
  /\ worker' = [worker EXCEPT ![l] = [row |-> Head(queue[l]), written |-> FALSE]]
  /\ queue' = [queue EXCEPT ![l] = Tail(@)]
  /\ fate' = [fate EXCEPT ![l][Head(queue[l])] = "taken"]
  /\ UNCHANGED <<given, database, servers, requests, dropped, late>>

\* The insert has ten seconds; a failure is only reported on the console.
WriteRow(l) ==
  /\ Running
  /\ worker[l] # Idle
  /\ ~worker[l].written
  /\ \E f \in {"stored", "unwritten"} : fate' = [fate EXCEPT ![l][worker[l].row] = f]
  /\ worker' = [worker EXCEPT ![l].written = TRUE]
  /\ UNCHANGED <<given, database, servers, requests, queue, dropped, late>>

\* Mutant of ReportDrops: they are reported only while there is more to write.
ReportDropsWhileBehind(l) ==
  /\ Running
  /\ worker[l].written
  /\ worker' = [worker EXCEPT ![l] = Idle]
  /\ IF queue[l] # <<>>
     THEN dropped' = [dropped EXCEPT ![l] = 0] /\ late' = [late EXCEPT ![l] = FALSE]
     ELSE UNCHANGED <<dropped, late>>
  /\ UNCHANGED <<given, database, servers, requests, queue, fate>>

\* dropped.Swap(0), and a line on the console if that was not zero.
ReportDrops(l) ==
  /\ Running
  /\ worker[l].written
  /\ worker' = [worker EXCEPT ![l] = Idle]
  /\ dropped' = [dropped EXCEPT ![l] = 0]
  /\ late' = [late EXCEPT ![l] = FALSE]
  /\ UNCHANGED <<given, database, servers, requests, queue, fate>>

-----------------------------------------------------------------------------
(* Shutting down: runServerInternal.                                       *)

Signal ==
  /\ Serving(Main)
  /\ phase' = [phase EXCEPT ![Main] = "closing"]
  /\ UNCHANGED <<given, database, todo, boots, overlapped, requests, logs>>

\* Shutdown has waited for the requests, or ten seconds.  Logger.Close does
\* nothing: the rows still queued go down with the process.
Exit ==
  /\ phase[Main] = "closing"
  /\ phase' = [phase EXCEPT ![Main] = "down"]
  /\ queue' = [l \in Logs |-> <<>>]
  /\ worker' = [l \in Logs |-> Idle]
  /\ fate' = [l \in Logs |-> [q \in Requests |->
       IF fate[l][q] \in {"queued", "taken"} THEN "lost" ELSE fate[l][q]]]
  /\ UNCHANGED <<given, database, todo, boots, overlapped, requests, dropped, late>>

Starting(s) == Boot(s) \/ CheckVersion(s) \/ RunStatement(s) \/ VerifyVersion(s)
               \/ KilledEarly(s)

\* The process must be there for a request to go on.
Serve(q) ==
  /\ Running
  /\ RequireAuthN(q) \/ Handle(q) \/ LogAction(q) \/ RecordErrors(q)

Work(l) == TakeRow(l) \/ WriteRow(l) \/ ReportDrops(l)

Finished ==
  /\ phase[Main] \in {"off", "down"}
  /\ \A s \in Servers :
       /\ phase[s] \notin {"check", "run"}
       /\ phase[s] = "off" => boots[s] = MaxBoots \/ s \notin given.starts
  /\ UNCHANGED vars

Next ==
  \/ \E s \in Servers : Starting(s)
  \/ \E q \in Requests : Arrive(q) \/ (Running /\ HangUp(q)) \/ Serve(q)
  \/ \E l \in Logs : Work(l)
  \/ Signal \/ Exit
  \/ Finished

Spec == Init /\ [][Next]_vars

\* The goroutine of a request is scheduled again and again.  Nothing of the kind is
\* assumed of the workers, which wait for the database.
FairSpec == Spec /\ \A q \in Requests : WF_vars(Serve(q))

-----------------------------------------------------------------------------
(* Properties.                                                             *)

TypeOK ==
  /\ info \in [table : BOOLEAN, version : 0 .. MaxVersion]
  /\ DOMAIN schema = Objects
  /\ todo \in [Servers -> [script : {"none", "table", "version", "changes", "steps"},
                           version : 0 .. MaxVersion + 1, number : Nat]]
  /\ overlapped \in BOOLEAN
  /\ phase \in [Servers -> Phases]
  /\ boots \in [Servers -> 0 .. MaxBoots]
  /\ outcome \in [Requests -> Outcomes]
  /\ gone \in [Requests -> BOOLEAN]
  /\ queue \in [Logs -> Seq(Requests)]
  /\ worker \in [Logs -> [row : Requests \cup {"none"}, written : BOOLEAN]]
  /\ \A l \in Logs : Len(queue[l]) <= QueueMax /\ dropped[l] \in Nat
  /\ step \in [Requests -> Steps]
  /\ late \in [Logs -> BOOLEAN]
  /\ fate \in [Logs -> [Requests -> Fates]]

\* A server was started whose code is of version v, or newer.
Begun(v) == \E s \in Servers : boots[s] > 0 /\ Code[s] >= v

\* The schema is that of version v, but for what newer scripts shape if there is newer
\* code to run them.
WholeSchema(v) ==
  \A o \in Objects :
    schema[o] # Schema[v][o] => \E w \in v + 1 .. MaxVersion : Begun(w) /\ Shapes(w, o)

\* No object is shaped twice in the scripts that lead on from the version given.  The
\* repository's are so from version 29 on.
ShapedOnce ==
  \A v, w \in DOMAIN Script :
    v > given.version /\ w > given.version =>
      \A i \in 1 .. Len(Script[v]), j \in 1 .. Len(Script[w]) :
        <<v, i>> # <<w, j>> =>
          ~ \E o \in Objects : ShapedBy(Script[v][i], o) /\ ShapedBy(Script[w][j], o)

\* The version stored vouches for the schema, and no server serves less than the schema
\* of its code, whatever was killed in a migration before and has been begun again.  A
\* server of older code may be left with what newer scripts have made of its schema, no
\* more than that.  Two migrations at the same time can take back each other's changes:
\* they keep this only if no script shapes again what another has shaped.  And in a
\* database that was new, the version is there before the tables are; only a server that
\* is alone, and in its first life, is safe from that.
SchemaIsWhole ==
  /\ given.version > 0 /\ (~overlapped \/ ShapedOnce) =>
       /\ WholeSchema(info.version)
       /\ \A s \in Servers : Serving(s) => WholeSchema(Code[s])
  /\ \A s \in Servers :
       given.version = 0 /\ given.starts = {s} /\ boots[s] = 1 /\ Serving(s)
         => WholeSchema(Code[s])

\* A request never waits for a log: once it has arrived it is answered, although
\* nobody says that the workers ever write a row (the database may hang), unless
\* the process ends.
ServedWithoutWaiting ==
  \A q \in Requests : step[q] = "authn" ~> (step[q] = "done" \/ phase[Main] = "down")

\* A failure of the server has its row in the error log on its way, or it was
\* counted as dropped, although the client hung up meanwhile, and although a panic
\* tore down all the adapters up to RecoverFromPanic; the exception: the hanging up
\* is what made it fail.  And the action log has the requests whose sender is known
\* and which did not panic, no others.
FailuresAreLogged ==
  \A q \in Requests : step[q] = "done" =>
    /\ (fate["error"][q] # "none") =
         \/ outcome[q] \in {"failed", "panic"}
         \/ outcome[q] = "cancelled" /\ ~gone[q]
    /\ (fate["action"][q] # "none") =
         (given.ask[q].token /\ given.ask[q].logAction /\ outcome[q] # "panic")

\* Rows are dropped while the worker has rows to write, and after each of those it
\* reports the drops: it does not rest with some unreported.  The exception: the
\* queue was full at the select, and written out before the drop was counted; it
\* is reported with the next row.
DropsAreReported ==
  \A l \in Logs :
    Running /\ dropped[l] > 0 /\ queue[l] = <<>> /\ worker[l] = Idle => late[l]
=============================================================================
