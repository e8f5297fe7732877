-------------------------- MODULE ServerLifeProofs --------------------------
(***************************************************************************)
(* Proofs about ServerLife, for any servers, versions, scripts, requests   *)
(* and lengths of the queues: what a stored version vouches for, that      *)
(* failures are logged, and that drops are reported.                       *)
(***************************************************************************)
EXTENDS ServerLife, SequenceTheorems, NaturalsInduction, WellFoundedInduction, TLAPS

\* Positions are positions, and who has not been started is off.
PlaceInv ==
  /\ given \in Scenarios
  /\ info \in [table : BOOLEAN, version : Nat]
  /\ schema = [o \in Objects |-> schema[o]]
  /\ phase \in [Servers -> Phases]
  /\ todo \in [Servers -> [script : {"none", "table", "version", "changes", "steps"},
                           version : Nat, number : Nat]]
  /\ boots \in [Servers -> Nat]
  /\ overlapped \in BOOLEAN
  /\ \A s \in Servers :
       /\ s \notin given.starts \/ boots[s] = 0 => phase[s] = "off"
       /\ phase[s] = "run" =>
            /\ todo[s].script # "none"
            /\ todo[s].script \in {"changes", "steps"} => todo[s].number > 0

\* The requests whose row has got into log l, or was counted as dropped.
Logged(l) == {q \in Requests : fate[l][q] # "none"}

RowsInv ==
  /\ given \in Scenarios
  /\ step \in [Requests -> Steps] /\ outcome \in [Requests -> Outcomes]
  /\ gone \in [Requests -> BOOLEAN]
  /\ queue \in [Logs -> Seq(Requests)]
  /\ fate \in [Logs -> [Requests -> Fates]]
  /\ worker \in [Logs -> [row : Requests \cup {"none"}, written : BOOLEAN]]
  /\ \A l \in Logs : /\ queue[l] \in Seq(Logged(l))
                     /\ worker[l].row \in Logged(l) \cup {"none"}

Token(q) == given.ask[q].token
Wanted(q) == Token(q) /\ given.ask[q].logAction /\ outcome[q] # "panic"

\* What is known of a request at each step, and where its rows are.
StepInv ==
  \A q \in Requests :
    /\ step[q] \in {"handle", "logAction", "dropAction"} => Token(q)
    /\ step[q] \in {"logAction", "dropAction"} => given.ask[q].logAction /\ outcome[q] # "panic"
    /\ step[q] \notin {"recordErrors", "dropError", "done"} => q \notin Logged("action")
    /\ step[q] \in {"recordErrors", "dropError", "done"} => (q \in Logged("action") <=> Wanted(q))
    /\ step[q] # "done" => q \notin Logged("error")
    /\ step[q] = "dropError" => ServerFault(q)
    /\ step[q] = "done" => (q \in Logged("error") <=> ServerFault(q))

LogInv == RowsInv /\ StepInv

DropInv ==
  /\ phase \in [Servers -> Phases]
  /\ dropped \in [Logs -> Nat] /\ late \in [Logs -> BOOLEAN]
  /\ \A l \in Logs :
       /\ phase[Main] \in {"off", "check", "run"} => dropped[l] = 0
       /\ Running /\ dropped[l] > 0 /\ queue[l] = <<>> /\ worker[l] = Idle => late[l]
-----------------------------------------------------------------------------
LEMMA StepCases ==
  ASSUME [Next]_vars
  PROVE  \/ \E s \in Servers : \/ Boot(s) \/ CheckVersion(s) \/ RunStatement(s)
                               \/ VerifyVersion(s) \/ KilledEarly(s)
         \/ \E q \in Requests :
              \/ Arrive(q)
              \/ Running /\ HangUp(q)
              \/ Running /\ (RequireAuthN(q) \/ Handle(q) \/ LogAction(q) \/ RecordErrors(q))
         \/ \E l \in Logs : TakeRow(l) \/ WriteRow(l) \/ ReportDrops(l)
         \/ Signal \/ Exit
         \/ UNCHANGED vars
<1>1. ASSUME NEW s \in Servers, Starting(s)
      PROVE  Boot(s) \/ CheckVersion(s) \/ RunStatement(s) \/ VerifyVersion(s) \/ KilledEarly(s)
  BY <1>1 DEF Starting
<1>2. ASSUME NEW q \in Requests, Serve(q)
      PROVE  Running /\ (RequireAuthN(q) \/ Handle(q) \/ LogAction(q) \/ RecordErrors(q))
  BY <1>2 DEF Serve
<1>3. ASSUME NEW l \in Logs, Work(l)
      PROVE  TakeRow(l) \/ WriteRow(l) \/ ReportDrops(l)
  BY <1>3 DEF Work
<1>4. Finished => UNCHANGED vars
  BY DEF Finished
<1>5. Next \/ UNCHANGED vars
  OBVIOUS
<1> QED
  BY <1>1, <1>2, <1>3, <1>4, <1>5, Zenon DEF Next

\* Requests and logs leave the servers and the database as they are.
LEMMA OthersLeaveSchema ==
  ASSUME \/ \E q \in Requests : \/ Arrive(q) \/ HangUp(q) \/ RequireAuthN(q) \/ Handle(q)
                                \/ LogAction(q) \/ RecordErrors(q)
         \/ \E l \in Logs : TakeRow(l) \/ WriteRow(l) \/ ReportDrops(l)
         \/ UNCHANGED vars
  PROVE  UNCHANGED <<given, database, servers>>
<1>1. ASSUME NEW q \in Requests, Arrive(q) \/ HangUp(q) \/ RequireAuthN(q) \/ Handle(q)
      PROVE  UNCHANGED <<given, database, servers>>
  BY <1>1 DEF Arrive, HangUp, RequireAuthN, Handle
<1>2. ASSUME NEW q \in Requests, LogAction(q) \/ RecordErrors(q)
      PROVE  UNCHANGED <<given, database, servers>>
  BY <1>2 DEF LogAction, RecordErrors
<1>3. ASSUME NEW l \in Logs, TakeRow(l) \/ WriteRow(l) \/ ReportDrops(l)
      PROVE  UNCHANGED <<given, database, servers>>
  BY <1>3 DEF TakeRow, WriteRow, ReportDrops
<1>4. UNCHANGED vars => UNCHANGED <<given, database, servers>>
  BY DEF vars
<1> QED
  BY <1>1, <1>2, <1>3, <1>4, Zenon

-----------------------------------------------------------------------------
\* Scripts.

\* After the first n - 1 changes of a script, each object they shape has the last of its
\* shapes.
LastShapes(script, n) ==
  \A o \in Objects, i \in 1 .. Len(script) :
    /\ i < n /\ ShapedBy(script[i], o)
    /\ \A j \in 1 .. Len(script) : i < j /\ j < n => ~ShapedBy(script[j], o)
    => schema[o] = script[i].shape[o]

\* One change more.
LEMMA OneMoreChange ==
  ASSUME NEW script, Len(script) \in Nat, NEW n \in 1 .. Len(script), LastShapes(script, n),
         schema' = Shaped(script[n])
  PROVE  LastShapes(script, n + 1)'
<1> SUFFICES ASSUME NEW o \in Objects, NEW i \in 1 .. Len(script), i < n + 1, ShapedBy(script[i], o),
                    \A j \in 1 .. Len(script) : i < j /\ j < n + 1 => ~ShapedBy(script[j], o)
             PROVE  schema'[o] = script[i].shape[o]
    BY DEF LastShapes
<1>1. schema'[o] = IF ShapedBy(script[n], o) THEN script[n].shape[o] ELSE schema[o]
  BY DEF Shaped
<1>2. CASE i = n
  BY <1>1, <1>2
<1>3. CASE i # n
  <2>1. i < n /\ n < n + 1 /\ ~ShapedBy(script[n], o)
    BY <1>3
  <2>2. \A j \in 1 .. Len(script) : i < j /\ j < n => ~ShapedBy(script[j], o)
    OBVIOUS
  <2>3. schema[o] = script[i].shape[o]
    BY <2>1, <2>2 DEF LastShapes
  <2> QED
    BY <1>1, <2>1, <2>3
<1> QED
  BY <1>2, <1>3

\* The whole script leads where it should.
LEMMA ScriptRun ==
  ASSUME NEW script, Len(script) \in Nat, NEW from, NEW to, Leads(script, from, to),
         NEW n \in Nat, n > Len(script), LastShapes(script, n),
         \A o \in Objects :
           (\A i \in 1 .. Len(script) : ~ShapedBy(script[i], o)) => schema[o] = from[o]
  PROVE  \A o \in Objects : schema[o] = to[o]
<1> SUFFICES ASSUME NEW o \in Objects
             PROVE  schema[o] = to[o]
    OBVIOUS
<1> DEFINE those == {i \in 1 .. Len(script) : ShapedBy(script[i], o)}
<1>1. CASE those = {}
  <2>1. to[o] = from[o]
    BY <1>1 DEF Leads
  <2> QED
    BY <1>1, <2>1
<1>2. CASE those # {}
  <2>1. PICK i \in those : (\A j \in those : j <= i) /\ to[o] = script[i].shape[o]
    BY <1>2 DEF Leads
  <2>2. i \in 1 .. Len(script) /\ ShapedBy(script[i], o) /\ i < n
    BY <2>1
  <2>3. \A j \in 1 .. Len(script) : i < j /\ j < n => ~ShapedBy(script[j], o)
    BY <2>1, <2>2
  <2> QED
    BY <2>1, <2>2, <2>3 DEF LastShapes
<1> QED
  BY <1>1, <1>2

\* Induction: where something fails it fails first.
LEMMA LeastOne ==
  ASSUME NEW T \in SUBSET Nat, T # {}
  PROVE  \E x \in T : \A y \in T : x <= y
<1>1. \E x \in T : \A y \in T : ~ (<<y, x>> \in OpToRel(<, Nat))
  BY NatLessThanWellFounded, WFMin
<1>2. PICK x \in T : \A y \in T : ~ (y < x)
  BY <1>1 DEF OpToRel
<1>3. x \in T /\ T \subseteq Nat
  OBVIOUS
<1> QED
  BY <1>2, <1>3

LEMMA ScriptFacts ==
  /\ MaxVersion \in Nat /\ Oldest \in Nat /\ Oldest > 1
  /\ DOMAIN Script = Oldest .. MaxVersion
  /\ \A v \in Oldest .. MaxVersion : /\ Len(Script[v]) \in Nat
                                     /\ Leads(Script[v], Schema[v - 1], Schema[v])
BY ServerAssumption

\* What a script does not shape is in its version as in the one before.
LEMMA NotShaped ==
  ASSUME NEW v \in Oldest .. MaxVersion, NEW o \in Objects, ~Shapes(v, o)
  PROVE  Schema[v][o] = Schema[v - 1][o]
<1>1. v \in DOMAIN Script /\ Leads(Script[v], Schema[v - 1], Schema[v])
  BY ScriptFacts
<1>2. {i \in 1 .. Len(Script[v]) : ShapedBy(Script[v][i], o)} = {}
  BY <1>1 DEF Shapes
<1> QED
  BY <1>1, <1>2 DEF Leads

\* And so for several versions.
LEMMA NeverShaped ==
  ASSUME NEW u \in Nat, u + 1 >= Oldest, NEW v \in u .. MaxVersion, NEW o \in Objects,
         \A w \in u + 1 .. v : ~Shapes(w, o)
  PROVE  Schema[v][o] = Schema[u][o]
<1> DEFINE T == {k \in Nat : u + k <= v /\ Schema[u + k][o] # Schema[u][o]}
<1>0. v \in Nat /\ MaxVersion \in Nat /\ Oldest \in Nat
  BY ScriptFacts
<1>1. T = {}
  <2> SUFFICES ASSUME T # {}
               PROVE  FALSE
      OBVIOUS
  <2>1. PICK k \in T : \A y \in T : k <= y
    BY LeastOne
  <2>2. k # 0
    BY <2>1
  <2>3. k - 1 \in Nat /\ u + (k - 1) <= v /\ k - 1 \notin T
    BY <1>0, <2>1, <2>2
  <2>4. Schema[u + (k - 1)][o] = Schema[u][o]
    BY <2>3
  <2>5. u + k \in Oldest .. MaxVersion /\ (u + k) - 1 = u + (k - 1) /\ u + k \in u + 1 .. v
    BY <1>0, <2>1, <2>2
  <2>6. Schema[u + k][o] = Schema[(u + k) - 1][o]
    BY <2>5, NotShaped
  <2> QED
    BY <2>1, <2>4, <2>5, <2>6
<1>2. v - u \in Nat /\ u + (v - u) = v
  BY <1>0
<1>3. v - u \notin T
  BY <1>1
<1> QED
  BY <1>2, <1>3

\* A database that was there: who migrates it is on the way from its version to that of
\* its own code, and a version beyond the first is one that somebody's code has.  Without
\* a script for the first step nobody takes one.
StepsInv ==
  given.version > 0 =>
    /\ info.table /\ info.version >= given.version /\ info.version <= MaxVersion
    /\ info.version > given.version => given.version + 1 >= Oldest /\ Begun(info.version)
    /\ \A s \in Servers :
         /\ phase[s] = "run" =>
              /\ todo[s].script = "steps"
              /\ todo[s].version > given.version /\ todo[s].version <= Code[s] + 1
              /\ todo[s].version > given.version + 1 \/ todo[s].number > 1
                   => given.version + 1 >= Oldest
         /\ Serving(s) => /\ Code[s] >= given.version
                          /\ Code[s] > given.version => given.version + 1 >= Oldest

\* As long as there was one migration at a time: it works on the version after the one
\* stored, and only what the script of that version shapes is not as in the one stored.
SingleInv ==
  given.version > 0 /\ ~overlapped =>
    /\ \A s, t \in Servers : phase[s] = "run" /\ phase[t] = "run" => s = t
    /\ \A s \in Servers :
         /\ phase[s] = "run" =>
              /\ todo[s].version = info.version + 1
              /\ todo[s].version \in DOMAIN Script =>
                   LastShapes(Script[todo[s].version], todo[s].number)
         /\ Serving(s) => Code[s] <= info.version
    /\ \A o \in Objects :
         schema[o] # Schema[info.version][o] =>
           /\ info.version + 1 \in DOMAIN Script
           /\ Shapes(info.version + 1, o) /\ Begun(info.version + 1)

\* The i-th change of the script of version w has been made, and stands.
Made(w, i) ==
  \A o \in Objects : ShapedBy(Script[w][i], o) => schema[o] = Script[w][i].shape[o]

MadeUpTo(v, n) ==
  \A w \in DOMAIN Script : w > given.version =>
    \A i \in 1 .. Len(Script[w]) : w < v \/ (w = v /\ i < n) => Made(w, i)

\* If no object is shaped twice: what comes before where a server is has been made, up
\* to the version stored and to that of whoever serves, whoever made it.
OnceInv ==
  given.version > 0 /\ ShapedOnce =>
    /\ MadeUpTo(info.version + 1, 1)
    /\ \A s \in Servers :
         /\ phase[s] = "run" => MadeUpTo(todo[s].version, todo[s].number)
         /\ Serving(s) => MadeUpTo(Code[s] + 1, 1)
    /\ \A o \in Objects :
         schema[o] # Schema[given.version][o] =>
           \E w \in DOMAIN Script : w > given.version /\ Shapes(w, o) /\ Begun(w)

As(v) == \A o \in Objects : schema[o] = Schema[v][o]

\* A new database, and one server in its first life.
NewInv ==
  \A s \in Servers : given.version = 0 /\ given.starts = {s} =>
    /\ boots[s] = 0 \/ (boots[s] = 1 /\ phase[s] = "check") => ~info.table /\ As(0)
    /\ boots[s] = 1 /\ phase[s] = "run" =>
         /\ todo[s].script # "steps"
         /\ todo[s].script \in {"table", "version"} => As(0)
         /\ todo[s].script = "changes" =>
              /\ LastShapes(Current[Code[s]], todo[s].number)
              /\ \A o \in Objects :
                   (\A i \in 1 .. Len(Current[Code[s]]) : ~ShapedBy(Current[Code[s]][i], o))
                     => schema[o] = Schema[0][o]
    /\ boots[s] = 1 /\ Serving(s) => As(Code[s])

SchemaInv == PlaceInv /\ StepsInv /\ SingleInv /\ OnceInv /\ NewInv

-----------------------------------------------------------------------------
\* Starting servers.

LEMMA RunCases ==
  ASSUME NEW s \in Servers, RunStatement(s), PlaceInv
  PROVE  /\ phase[s] = "run" /\ ~Migrated(s) /\ UNCHANGED <<given, boots, overlapped>>
         /\ \/ /\ phase' = [phase EXCEPT ![s] = "off"]
               /\ todo' = [todo EXCEPT ![s] = Nowhere]
               /\ UNCHANGED <<info, schema>>
            \/ /\ phase' = phase
               /\ todo' = [todo EXCEPT ![s] = Further(s)]
               /\ \/ /\ todo[s].script = "table"
                     /\ ~info.table /\ info' = [info EXCEPT !.table = TRUE] /\ schema' = schema
                  \/ /\ todo[s].script = "version"
                     /\ info' = [info EXCEPT !.version = Code[s]] /\ schema' = schema
                  \/ /\ todo[s].script = "changes"
                     /\ todo[s].number \in 1 .. Len(Current[Code[s]])
                     /\ info' = info /\ schema' = Shaped(Current[Code[s]][todo[s].number])
                  \/ /\ todo[s].script = "steps"
                     /\ todo[s].version \in DOMAIN Script
                     /\ \/ /\ todo[s].number \in 1 .. Len(Script[todo[s].version])
                           /\ info' = info
                           /\ schema' = Shaped(Script[todo[s].version][todo[s].number])
                        \/ /\ todo[s].number > Len(Script[todo[s].version])
                           /\ info' = [info EXCEPT !.version = todo[s].version]
                           /\ schema' = schema
<1>1. /\ phase[s] = "run" /\ ~Migrated(s) /\ UNCHANGED <<given, boots, overlapped>>
  BY DEF RunStatement
<1>2. /\ todo[s].script \in {"table", "version", "changes", "steps"}
      /\ todo[s].number \in Nat /\ todo[s].version \in Nat
      /\ todo[s].script \in {"changes", "steps"} => todo[s].number > 0
      /\ Code[s] \in Nat /\ Code[s] > 0 /\ Len(Current[Code[s]]) \in Nat
  BY <1>1, ServerAssumption DEF PlaceInv, Versions
<1>3. Shaped(NoChange) = schema
  <2>1. \A o : ~ShapedBy(NoChange, o)
    BY DEF ShapedBy, NoChange
  <2> QED
    BY <2>1 DEF Shaped, PlaceInv
<1>4. CASE Refused(s) /\ Fails(s) /\ UNCHANGED database
  BY <1>1, <1>4 DEF Fails, database
<1>5. CASE /\ ~Refused(s) /\ todo' = [todo EXCEPT ![s] = Further(s)] /\ UNCHANGED phase
           /\ IF todo[s].script = "table"
              THEN info' = [info EXCEPT !.table = TRUE] /\ UNCHANGED schema
              ELSE /\ schema' = Shaped(NextStatement(s).change)
                   /\ IF NextStatement(s).version > 0
                      THEN info' = [info EXCEPT !.version = NextStatement(s).version]
                      ELSE UNCHANGED info
  <2>1. CASE todo[s].script = "table"
    BY <1>1, <1>5, <2>1 DEF Refused
  <2>2. CASE todo[s].script = "version"
    <3>1. NextStatement(s) = SetVersion(Code[s])
      BY <2>2 DEF NextStatement
    <3>2. NextStatement(s).version = Code[s] /\ NextStatement(s).change = NoChange
      BY <3>1 DEF SetVersion
    <3>3. schema' = schema /\ info' = [info EXCEPT !.version = Code[s]]
      BY <1>2, <1>3, <1>5, <2>2, <3>2
    <3> QED
      BY <1>1, <1>5, <2>2, <3>3
  <2>3. CASE todo[s].script = "changes"
    <3>1. NextStatement(s) = MakeChange(Current[Code[s]][todo[s].number])
      BY <2>3 DEF NextStatement
    <3>2. NextStatement(s).version = 0 /\ NextStatement(s).change = Current[Code[s]][todo[s].number]
      BY <3>1 DEF MakeChange
    <3>3. todo[s].number \in 1 .. Len(Current[Code[s]])
      BY <1>1, <1>2, <2>3 DEF Migrated
    <3> QED
      BY <1>1, <1>5, <2>3, <3>2, <3>3
  <2>4. CASE todo[s].script = "steps"
    <3>0. todo[s].version \in DOMAIN Script /\ Len(Script[todo[s].version]) \in Nat
      BY <1>5, <2>4, ScriptFacts DEF Refused
    <3>1. NextStatement(s) = Step(todo[s].version, todo[s].number)
      BY <2>4 DEF NextStatement
    <3>2. CASE todo[s].number <= Len(Script[todo[s].version])
      <4>1. NextStatement(s) = MakeChange(Script[todo[s].version][todo[s].number])
        BY <3>1, <3>2 DEF Step
      <4>2. /\ NextStatement(s).version = 0
            /\ NextStatement(s).change = Script[todo[s].version][todo[s].number]
        BY <4>1 DEF MakeChange
      <4>3. todo[s].number \in 1 .. Len(Script[todo[s].version])
        BY <1>2, <2>4, <3>0, <3>2
      <4> QED
        BY <1>1, <1>5, <2>4, <3>0, <4>2, <4>3
    <3>3. CASE todo[s].number > Len(Script[todo[s].version])
      <4>1. NextStatement(s) = SetVersion(todo[s].version)
        BY <1>2, <3>0, <3>1, <3>3 DEF Step
      <4>2. NextStatement(s).version = todo[s].version /\ NextStatement(s).change = NoChange
        BY <4>1 DEF SetVersion
      <4>3. todo[s].version > 0
        BY <3>0, ScriptFacts
      <4>4. schema' = schema /\ info' = [info EXCEPT !.version = todo[s].version]
        BY <1>3, <1>5, <2>4, <4>2, <4>3
      <4> QED
        BY <1>1, <1>5, <2>4, <3>0, <3>3, <4>4
    <3> QED
      BY <1>2, <3>0, <3>2, <3>3
  <2> QED
    BY <1>2, <2>1, <2>2, <2>3, <2>4
<1> QED
  BY <1>4, <1>5 DEF RunStatement

\* A check of the version: the server fails, serves, or begins a migration.
LEMMA CheckCases ==
  ASSUME NEW s \in Servers, CheckVersion(s)
  PROVE  /\ phase[s] = "check" /\ UNCHANGED <<given, info, schema, boots>>
         /\ \/ /\ phase' = [phase EXCEPT ![s] = "off"] /\ todo' = [todo EXCEPT ![s] = Nowhere]
               /\ overlapped' = overlapped
            \/ /\ info.table /\ info.version = Code[s]
               /\ phase' = [phase EXCEPT ![s] = "serving"] /\ todo' = [todo EXCEPT ![s] = Nowhere]
               /\ overlapped' = overlapped
            \/ /\ info.table /\ info.version \in 1 .. Code[s] - 1
               /\ phase' = [phase EXCEPT ![s] = "run"]
               /\ todo' = [todo EXCEPT ![s] = At("steps", info.version + 1, 1)]
               /\ overlapped' = (overlapped \/ \E t \in Servers \ {s} : phase[t] = "run")
            \/ /\ ~info.table
               /\ phase' = [phase EXCEPT ![s] = "run"]
               /\ todo' = [todo EXCEPT ![s] = At("table", 0, 0)]
               /\ overlapped' = (overlapped \/ \E t \in Servers \ {s} : phase[t] = "run")
BY DEF CheckVersion, Fails, Done, Migrates, database

LEMMA VerifyCases ==
  ASSUME NEW s \in Servers, VerifyVersion(s) \/ KilledEarly(s)
  PROVE  /\ phase[s] \in {"check", "run"} /\ UNCHANGED <<given, info, schema, boots, overlapped>>
         /\ todo' = [todo EXCEPT ![s] = Nowhere]
         /\ \/ phase' = [phase EXCEPT ![s] = "off"]
            \/ /\ phase[s] = "run" /\ Migrated(s) /\ info.version = Code[s]
               /\ phase' = [phase EXCEPT ![s] = "serving"]
BY DEF VerifyVersion, KilledEarly, Fails, Done, database

\* The steps of one server, and what others leave alone.
LEMMA ServerCases ==
  ASSUME [Next]_vars, PlaceInv
  PROVE  \/ \E s \in Servers : Boot(s) \/ CheckVersion(s) \/ RunStatement(s)
                               \/ VerifyVersion(s) \/ KilledEarly(s)
         \/ /\ UNCHANGED <<given, info, schema, todo, boots, overlapped>>
            /\ phase[Main] \in {"serving", "closing"}
            /\ phase' = [phase EXCEPT ![Main] = "closing"] \/ phase' = [phase EXCEPT ![Main] = "down"]
         \/ UNCHANGED <<given, info, schema, phase, todo, boots, overlapped>>
<1>1. Signal \/ Exit =>
         /\ UNCHANGED <<given, info, schema, todo, boots, overlapped>>
         /\ phase[Main] \in {"serving", "closing"}
         /\ phase' = [phase EXCEPT ![Main] = "closing"] \/ phase' = [phase EXCEPT ![Main] = "down"]
  BY DEF Signal, Exit, Serving, database
<1>2. UNCHANGED <<given, database, servers>>
        => UNCHANGED <<given, info, schema, phase, todo, boots, overlapped>>
  BY DEF database, servers
<1> QED
  BY <1>1, <1>2, StepCases, OthersLeaveSchema

Position == [script : {"none", "table", "version", "changes", "steps"}, version : Nat, number : Nat]

LEMMA NextPlaceInv == PlaceInv /\ [Next]_vars => PlaceInv'
<1> SUFFICES ASSUME PlaceInv, [Next]_vars
             PROVE  PlaceInv'
    OBVIOUS
<1>0. /\ Code \in [Servers -> Nat] /\ Main \in Servers
      /\ Nowhere \in Position /\ Nowhere.script = "none"
  BY ServerAssumption DEF Versions, Nowhere, At, Position
<1>01. /\ todo \in [Servers -> Position] /\ phase \in [Servers -> Phases]
       /\ boots \in [Servers -> Nat] /\ info \in [table : BOOLEAN, version : Nat]
       /\ schema = [o \in Objects |-> schema[o]] /\ overlapped \in BOOLEAN
  BY DEF PlaceInv, Position
<1>1. ASSUME NEW s \in Servers, Boot(s)
      PROVE  PlaceInv'
  <2>1. /\ UNCHANGED <<given, info, schema, todo, overlapped>> /\ s \in given.starts
        /\ phase' = [phase EXCEPT ![s] = "check"]
        /\ boots' = [boots EXCEPT ![s] = @ + 1]
    BY <1>1 DEF Boot, database
  <2>2. boots' \in [Servers -> Nat] /\ phase' \in [Servers -> Phases] /\ boots'[s] # 0
    BY <1>01, <2>1 DEF Phases
  <2> QED
    BY <2>1, <2>2 DEF PlaceInv
\* Another place for s.
<1>2. ASSUME NEW s \in Servers, phase[s] \in {"check", "run"}, UNCHANGED <<given, boots>>,
             info' \in [table : BOOLEAN, version : Nat], overlapped' \in BOOLEAN,
             schema' = [o \in Objects |-> schema'[o]],
             NEW x \in Phases, NEW at \in Position,
             phase' = [phase EXCEPT ![s] = x], todo' = [todo EXCEPT ![s] = at],
             x = "run" => /\ at.script # "none"
                          /\ at.script \in {"changes", "steps"} => at.number > 0
      PROVE  PlaceInv'
  <2>1. todo' \in [Servers -> Position] /\ phase' \in [Servers -> Phases]
    BY <1>01, <1>2
  <2>2. \A t \in Servers : /\ t # s => phase'[t] = phase[t] /\ todo'[t] = todo[t]
                           /\ t = s => phase'[t] = x /\ todo'[t] = at
    BY <1>01, <1>2
  <2>3. \A t \in Servers :
          /\ t \notin given'.starts \/ boots'[t] = 0 => phase'[t] = "off"
          /\ phase'[t] = "run" => /\ todo'[t].script # "none"
                                  /\ todo'[t].script \in {"changes", "steps"} => todo'[t].number > 0
    BY <1>2, <2>2 DEF PlaceInv
  <2> QED
    BY <1>01, <1>2, <2>1, <2>3 DEF PlaceInv, Position
<1>3. ASSUME NEW s \in Servers, CheckVersion(s)
      PROVE  PlaceInv'
  <2>1. /\ phase[s] = "check" /\ UNCHANGED <<given, info, schema, boots>> /\ overlapped' \in BOOLEAN
        /\ \/ phase' = [phase EXCEPT ![s] = "off"] /\ todo' = [todo EXCEPT ![s] = Nowhere]
           \/ phase' = [phase EXCEPT ![s] = "serving"] /\ todo' = [todo EXCEPT ![s] = Nowhere]
           \/ /\ phase' = [phase EXCEPT ![s] = "run"]
              /\ todo' = [todo EXCEPT ![s] = At("steps", info.version + 1, 1)]
           \/ /\ phase' = [phase EXCEPT ![s] = "run"]
              /\ todo' = [todo EXCEPT ![s] = At("table", 0, 0)]
    BY <1>01, <1>3, CheckCases
  <2>2. /\ At("steps", info.version + 1, 1) \in Position /\ At("table", 0, 0) \in Position
        /\ At("steps", info.version + 1, 1).script = "steps" /\ At("table", 0, 0).script = "table"
        /\ At("steps", info.version + 1, 1).number = 1
    BY <1>01 DEF At, Position
  <2>3. {"off", "serving", "run"} \subseteq Phases
    BY DEF Phases
  <2> QED
    BY <1>0, <1>01, <1>2, <2>1, <2>2, <2>3
<1>4. ASSUME NEW s \in Servers, VerifyVersion(s) \/ KilledEarly(s)
      PROVE  PlaceInv'
  <2>1. {"off", "serving", "run"} \subseteq Phases
    BY DEF Phases
  <2> QED
    BY <1>0, <1>01, <1>2, <1>4, <2>1, VerifyCases
<1>5. ASSUME NEW s \in Servers, RunStatement(s)
      PROVE  PlaceInv'
  <2>1. phase[s] = "run" /\ UNCHANGED <<given, boots, overlapped>>
    BY <1>5, RunCases
  <2>2. CASE /\ phase' = [phase EXCEPT ![s] = "off"] /\ todo' = [todo EXCEPT ![s] = Nowhere]
             /\ UNCHANGED <<info, schema>>
    BY <1>0, <1>01, <1>2, <2>1, <2>2 DEF Phases
  <2>3. CASE /\ phase' = phase /\ todo' = [todo EXCEPT ![s] = Further(s)]
    <3>1. phase' = [phase EXCEPT ![s] = "run"] /\ "run" \in Phases
      BY <1>01, <2>1, <2>3 DEF Phases
    <3>2. /\ schema' = schema \/ \E c : schema' = Shaped(c)
          /\ \/ info' = info
             \/ info' = [info EXCEPT !.table = TRUE]
             \/ info' = [info EXCEPT !.version = Code[s]]
             \/ info' = [info EXCEPT !.version = todo[s].version]
      BY <1>5, <2>3, RunCases
    <3>3. schema' = [o \in Objects |-> schema'[o]]
      BY <1>01, <3>2 DEF Shaped
    <3>4. todo[s] \in Position /\ Code[s] \in Nat
      BY <1>0, <1>01
    <3>5. info' \in [table : BOOLEAN, version : Nat]
      BY <1>01, <3>2, <3>4 DEF Position
    <3>6. /\ todo[s].script # "none"
          /\ todo[s].script \in {"changes", "steps"} => todo[s].number > 0
      BY <2>1 DEF PlaceInv
    <3>7. /\ Further(s) \in Position /\ Further(s).script # "none"
          /\ Further(s).script \in {"changes", "steps"} => Further(s).number > 0
      BY <3>4, <3>6 DEF Further, At, Position
    <3> QED
      BY <1>01, <1>2, <2>1, <2>3, <3>1, <3>3, <3>5, <3>7
  <2> QED
    BY <1>5, <2>2, <2>3, RunCases
<1>6. CASE /\ UNCHANGED <<given, info, schema, todo, boots, overlapped>>
           /\ phase[Main] \in {"serving", "closing"}
           /\ phase' = [phase EXCEPT ![Main] = "closing"] \/ phase' = [phase EXCEPT ![Main] = "down"]
  <2>1. phase' \in [Servers -> Phases]
    BY <1>01, <1>6 DEF Phases
  <2> QED
    BY <1>0, <1>01, <1>6, <2>1 DEF PlaceInv
<1>7. CASE UNCHANGED <<given, info, schema, phase, todo, boots, overlapped>>
  BY <1>7 DEF PlaceInv
<1>8. (\E s \in Servers : Boot(s) \/ CheckVersion(s) \/ RunStatement(s)
                         \/ VerifyVersion(s) \/ KilledEarly(s)) => PlaceInv'
  BY <1>1, <1>3, <1>4, <1>5
<1> QED
  BY <1>6, <1>7, <1>8, ServerCases

-----------------------------------------------------------------------------
\* What one step does, server by server.

Others(s) ==
  \A t \in Servers \ {s} : phase'[t] = phase[t] /\ todo'[t] = todo[t] /\ boots'[t] = boots[t]

\* It is started,
Starts(s) ==
  /\ phase[s] = "off" /\ phase'[s] = "check" /\ boots'[s] = boots[s] + 1
  /\ UNCHANGED <<info, schema, overlapped>>

\* goes down or stays as it is,
Rests(s) ==
  /\ boots'[s] = boots[s] /\ UNCHANGED <<info, schema, overlapped>>
  /\ \/ phase'[s] = phase[s] /\ todo'[s] = todo[s]
     \/ phase'[s] \in {"off", "closing", "down"}

\* finds the version to be its own,
Serves(s) ==
  /\ boots'[s] = boots[s] /\ UNCHANGED <<info, schema, overlapped>>
  /\ phase'[s] = "serving" /\ info.version = Code[s]
  /\ \/ phase[s] = "check" /\ info.table
     \/ phase[s] = "run" /\ Migrated(s)

\* begins to migrate,
Begins(s) ==
  /\ boots'[s] = boots[s] /\ UNCHANGED <<info, schema>>
  /\ overlapped' = (overlapped \/ \E t \in Servers \ {s} : phase[t] = "run")
  /\ phase[s] = "check" /\ phase'[s] = "run"
  /\ \/ /\ info.table /\ info.version \in 1 .. Code[s] - 1
        /\ todo'[s] = At("steps", info.version + 1, 1)
     \/ /\ ~info.table
        /\ todo'[s] = At("table", 0, 0)

\* or goes on with it.
GoesOn(s) ==
  /\ boots'[s] = boots[s] /\ UNCHANGED overlapped
  /\ phase[s] = "run" /\ phase'[s] = "run" /\ ~Migrated(s) /\ todo'[s] = Further(s)
  /\ \/ /\ todo[s].script = "table"
        /\ ~info.table /\ info' = [info EXCEPT !.table = TRUE] /\ schema' = schema
     \/ /\ todo[s].script = "version"
        /\ info' = [info EXCEPT !.version = Code[s]] /\ schema' = schema
     \/ /\ todo[s].script = "changes"
        /\ todo[s].number \in 1 .. Len(Current[Code[s]])
        /\ info' = info /\ schema' = Shaped(Current[Code[s]][todo[s].number])
     \/ /\ todo[s].script = "steps"
        /\ todo[s].version \in DOMAIN Script
        /\ \/ /\ todo[s].number \in 1 .. Len(Script[todo[s].version])
              /\ info' = info
              /\ schema' = Shaped(Script[todo[s].version][todo[s].number])
           \/ /\ todo[s].number > Len(Script[todo[s].version])
              /\ info' = [info EXCEPT !.version = todo[s].version]
              /\ schema' = schema

LEMMA OneServer ==
  ASSUME [Next]_vars, PlaceInv
  PROVE  /\ given' = given
         /\ \E s \in Servers : /\ Others(s)
                               /\ Starts(s) \/ Rests(s) \/ Serves(s) \/ Begins(s) \/ GoesOn(s)
<1>0. /\ phase \in [Servers -> Phases] /\ boots \in [Servers -> Nat] /\ Main \in Servers
      /\ DOMAIN todo = Servers
  BY ServerAssumption DEF PlaceInv
<1>1. ASSUME NEW s \in Servers, Boot(s)
      PROVE  given' = given /\ Others(s) /\ Starts(s)
  BY <1>0, <1>1 DEF Boot, Others, Starts, database
\* Another place for s.
<1>2. ASSUME NEW s \in Servers, NEW x, NEW at, boots' = boots,
             phase' = [phase EXCEPT ![s] = x], todo' = [todo EXCEPT ![s] = at]
      PROVE  Others(s) /\ phase'[s] = x /\ todo'[s] = at /\ boots'[s] = boots[s]
  BY <1>0, <1>2 DEF Others
<1>3. ASSUME NEW s \in Servers, CheckVersion(s)
      PROVE  given' = given /\ Others(s) /\ (Rests(s) \/ Serves(s) \/ Begins(s))
  <2>0. phase[s] = "check" /\ info' = info /\ schema' = schema
    BY <1>3, CheckCases
  <2>1. given' = given /\ boots' = boots
    BY <1>3, CheckCases
  <2>2. CASE /\ phase' = [phase EXCEPT ![s] = "off"] /\ todo' = [todo EXCEPT ![s] = Nowhere]
             /\ overlapped' = overlapped
    BY <1>2, <1>3, <2>1, <2>2, CheckCases DEF Rests
  <2>3. CASE /\ info.table /\ info.version = Code[s]
             /\ phase' = [phase EXCEPT ![s] = "serving"] /\ todo' = [todo EXCEPT ![s] = Nowhere]
             /\ overlapped' = overlapped
    BY <1>2, <1>3, <2>1, <2>3, CheckCases DEF Serves
  <2>4. CASE /\ info.table /\ info.version \in 1 .. Code[s] - 1
             /\ phase' = [phase EXCEPT ![s] = "run"]
             /\ todo' = [todo EXCEPT ![s] = At("steps", info.version + 1, 1)]
             /\ overlapped' = (overlapped \/ \E t \in Servers \ {s} : phase[t] = "run")
    <3>1. /\ Others(s) /\ phase'[s] = "run" /\ boots'[s] = boots[s]
          /\ todo'[s] = At("steps", info.version + 1, 1)
      BY <1>2, <2>1, <2>4
    <3>2. Begins(s)
      BY <2>0, <2>4, <3>1 DEF Begins
    <3> QED
      BY <2>1, <3>1, <3>2
  <2>5. CASE /\ ~info.table
             /\ phase' = [phase EXCEPT ![s] = "run"]
             /\ todo' = [todo EXCEPT ![s] = At("table", 0, 0)]
             /\ overlapped' = (overlapped \/ \E t \in Servers \ {s} : phase[t] = "run")
    <3>1. /\ Others(s) /\ phase'[s] = "run" /\ boots'[s] = boots[s]
          /\ todo'[s] = At("table", 0, 0)
      BY <1>2, <2>1, <2>5
    <3>2. Begins(s)
      BY <2>0, <2>5, <3>1 DEF Begins
    <3> QED
      BY <2>1, <3>1, <3>2
  <2> QED
    BY <1>3, <2>1, <2>2, <2>3, <2>4, <2>5, CheckCases
<1>4. ASSUME NEW s \in Servers, VerifyVersion(s) \/ KilledEarly(s)
      PROVE  given' = given /\ Others(s) /\ (Rests(s) \/ Serves(s))
  BY <1>2, <1>4, VerifyCases DEF Rests, Serves
<1>5. ASSUME NEW s \in Servers, RunStatement(s)
      PROVE  given' = given /\ Others(s) /\ (Rests(s) \/ GoesOn(s))
  <2>1. /\ phase[s] = "run" /\ ~Migrated(s)
        /\ given' = given /\ boots' = boots /\ overlapped' = overlapped
    BY <1>5, RunCases
  <2>2. CASE /\ phase' = [phase EXCEPT ![s] = "off"] /\ todo' = [todo EXCEPT ![s] = Nowhere]
             /\ UNCHANGED <<info, schema>>
    BY <1>2, <2>1, <2>2 DEF Rests
  <2>3. CASE ~ (/\ phase' = [phase EXCEPT ![s] = "off"] /\ todo' = [todo EXCEPT ![s] = Nowhere]
                /\ UNCHANGED <<info, schema>>)
    <3>1. phase' = phase /\ todo' = [todo EXCEPT ![s] = Further(s)]
      BY <1>5, <2>3, RunCases
    <3>2. phase' = [phase EXCEPT ![s] = "run"]
      BY <1>0, <2>1, <3>1
    <3>3. Others(s) /\ phase'[s] = "run" /\ todo'[s] = Further(s) /\ boots'[s] = boots[s]
      BY <1>2, <2>1, <3>1, <3>2
    <3>4. \/ /\ todo[s].script = "table"
             /\ ~info.table /\ info' = [info EXCEPT !.table = TRUE] /\ schema' = schema
          \/ /\ todo[s].script = "version"
             /\ info' = [info EXCEPT !.version = Code[s]] /\ schema' = schema
          \/ /\ todo[s].script = "changes"
             /\ todo[s].number \in 1 .. Len(Current[Code[s]])
             /\ info' = info /\ schema' = Shaped(Current[Code[s]][todo[s].number])
          \/ /\ todo[s].script = "steps"
             /\ todo[s].version \in DOMAIN Script
             /\ \/ /\ todo[s].number \in 1 .. Len(Script[todo[s].version])
                   /\ info' = info
                   /\ schema' = Shaped(Script[todo[s].version][todo[s].number])
                \/ /\ todo[s].number > Len(Script[todo[s].version])
                   /\ info' = [info EXCEPT !.version = todo[s].version]
                   /\ schema' = schema
      BY <1>5, <2>3, RunCases
    <3> QED
      BY <2>1, <3>3, <3>4 DEF GoesOn
  <2> QED
    BY <2>2, <2>3
<1>6. CASE /\ UNCHANGED <<given, info, schema, todo, boots, overlapped>>
           /\ phase[Main] \in {"serving", "closing"}
           /\ phase' = [phase EXCEPT ![Main] = "closing"] \/ phase' = [phase EXCEPT ![Main] = "down"]
  <2>1. Others(Main) /\ Rests(Main)
    BY <1>0, <1>6 DEF Others, Rests
  <2> QED
    BY <1>0, <1>6, <2>1
<1>7. CASE UNCHANGED <<given, info, schema, phase, todo, boots, overlapped>>
  <2>1. Others(Main) /\ Rests(Main)
    BY <1>7 DEF Others, Rests
  <2> QED
    BY <1>0, <1>7, <2>1
<1>8. (\E s \in Servers : Boot(s) \/ CheckVersion(s) \/ RunStatement(s)
                         \/ VerifyVersion(s) \/ KilledEarly(s))
        => /\ given' = given
           /\ \E s \in Servers : /\ Others(s)
                                 /\ Starts(s) \/ Rests(s) \/ Serves(s) \/ Begins(s) \/ GoesOn(s)
  BY <1>1, <1>3, <1>4, <1>5
<1> QED
  BY <1>6, <1>7, <1>8, ServerCases

LEMMA CodeFacts ==
  \A s \in Servers : /\ Code[s] \in Nat /\ Code[s] > 0 /\ Code[s] <= MaxVersion
                     /\ Len(Current[Code[s]]) \in Nat
                     /\ Leads(Current[Code[s]], Schema[0], Schema[Code[s]])
BY ServerAssumption DEF Versions

\* Who has been started has been started.
LEMMA BegunStays ==
  ASSUME [Next]_vars, PlaceInv, NEW v, Begun(v)
  PROVE  Begun(v)'
<1>1. PICK s \in Servers : boots[s] > 0 /\ Code[s] >= v
  BY DEF Begun
<1>2. PICK t \in Servers : /\ Others(t)
                           /\ Starts(t) \/ Rests(t) \/ Serves(t) \/ Begins(t) \/ GoesOn(t)
  BY OneServer
<1>3. boots'[s] = boots[s] \/ boots'[s] = boots[s] + 1
  BY <1>2 DEF Others, Starts, Rests, Serves, Begins, GoesOn
<1>4. boots'[s] > 0
  BY <1>1, <1>3 DEF PlaceInv
<1> QED
  BY <1>1, <1>4 DEF Begun

LEMMA BegunBefore ==
  ASSUME NEW v \in Nat, Begun(v), NEW w \in Nat, w <= v
  PROVE  Begun(w)
BY CodeFacts DEF Begun

LEMMA NextStepsInv == PlaceInv /\ StepsInv /\ [Next]_vars => StepsInv'
<1> SUFFICES ASSUME PlaceInv, StepsInv, [Next]_vars, given.version > 0
             PROVE  StepsInv'
    BY OneServer DEF StepsInv
<1> DEFINE g == given.version
           Fine(s) == /\ phase[s] = "run" =>
                           /\ todo[s].script = "steps"
                           /\ todo[s].version > g /\ todo[s].version <= Code[s] + 1
                           /\ todo[s].version > g + 1 \/ todo[s].number > 1 => g + 1 >= Oldest
                      /\ Serving(s) => Code[s] >= g /\ (Code[s] > g => g + 1 >= Oldest)
           Stored == /\ info.table /\ info.version >= g /\ info.version <= MaxVersion
                     /\ info.version > g => g + 1 >= Oldest /\ Begun(info.version)
<1>0. /\ g \in Nat /\ MaxVersion \in Nat /\ Oldest \in Nat
      /\ info \in [table : BOOLEAN, version : Nat]
      /\ \A s \in Servers : /\ todo[s].version \in Nat /\ todo[s].number \in Nat
                            /\ Code[s] \in Nat /\ Code[s] <= MaxVersion
                            /\ phase[s] = "run" => boots[s] > 0
  <2>1. g \in Nat
    BY ServerAssumption DEF PlaceInv
  <2> QED
    BY <2>1, ScriptFacts, CodeFacts DEF PlaceInv
<1>1. Stored /\ (\A t \in Servers : Fine(t)) /\ given' = given
  BY OneServer DEF StepsInv
<1>2. PICK s \in Servers : /\ Others(s)
                           /\ Starts(s) \/ Rests(s) \/ Serves(s) \/ Begins(s) \/ GoesOn(s)
  BY OneServer
<1>3. \A t \in Servers \ {s} : Fine(t)'
  BY <1>1, <1>2 DEF Others, Serving
<1>4. ASSUME info' = info
      PROVE  Stored'
  BY <1>0, <1>1, <1>4, BegunStays
<1>5. CASE Starts(s)
  BY <1>1, <1>3, <1>4, <1>5 DEF Starts, StepsInv, Serving
<1>6. CASE Rests(s)
  <2>1. Fine(s)'
    BY <1>1, <1>6 DEF Rests, Serving
  <2> QED
    BY <1>1, <1>3, <1>4, <1>6, <2>1 DEF Rests, StepsInv
<1>7. CASE Serves(s)
  <2>1. Fine(s)'
    BY <1>0, <1>1, <1>7 DEF Serves, Serving
  <2> QED
    BY <1>1, <1>3, <1>4, <1>7, <2>1 DEF Serves, StepsInv
<1>8. CASE Begins(s)
  <2>1. /\ info.version \in 1 .. Code[s] - 1 /\ phase'[s] = "run" /\ info' = info
        /\ todo'[s] = At("steps", info.version + 1, 1)
    BY <1>1, <1>8 DEF Begins
  <2>2. todo'[s].script = "steps" /\ todo'[s].version = info.version + 1 /\ todo'[s].number = 1
    BY <2>1 DEF At
  <2>3. Fine(s)'
    BY <1>0, <1>1, <2>1, <2>2 DEF Serving
  <2> QED
    BY <1>1, <1>3, <1>4, <2>1, <2>3 DEF StepsInv
<1>9. CASE GoesOn(s)
  <2> DEFINE v == todo[s].version
             n == todo[s].number
  <2>1. /\ phase[s] = "run" /\ phase'[s] = "run" /\ ~Migrated(s) /\ todo'[s] = Further(s)
        /\ todo[s].script = "steps" /\ v \in DOMAIN Script
        /\ info' = info \/ info' = [info EXCEPT !.version = v]
    BY <1>1, <1>9 DEF GoesOn
  <2>2. /\ v > g /\ v <= Code[s] /\ v \in Oldest .. MaxVersion
    BY <1>0, <1>1, <2>1, ScriptFacts DEF Migrated
  <2>3. g + 1 >= Oldest
    BY <1>0, <1>1, <2>1, <2>2
  <2>4. /\ todo'[s].script = "steps"
        /\ todo'[s].version = v \/ todo'[s].version = v + 1
    <3>1. CASE n > Len(Script[v])
      <4>1. Further(s) = At("steps", v + 1, 1)
        BY <2>1, <3>1 DEF Further
      <4> QED
        BY <2>1, <4>1 DEF At
    <3>2. CASE ~(n > Len(Script[v]))
      <4>1. Further(s) = [todo[s] EXCEPT !.number = @ + 1]
        BY <2>1, <3>2 DEF Further
      <4>2. todo[s] \in [script : {"none", "table", "version", "changes", "steps"},
                         version : Nat, number : Nat]
        BY DEF PlaceInv
      <4> QED
        BY <2>1, <4>1, <4>2
    <3> QED
      BY <3>1, <3>2
  <2>5. Fine(s)'
    BY <1>0, <1>1, <2>1, <2>2, <2>3, <2>4 DEF Serving
  <2>6. Stored'
    <3>1. CASE info' = info
      BY <1>4, <3>1
    <3>2. CASE info' = [info EXCEPT !.version = v]
      <4>1. PICK u \in Nat : u = v
        BY <1>0
      <4>2. Begun(u)'
        BY <1>0, <2>1, <2>2, <4>1, BegunStays DEF Begun
      <4>3. info'.version = u /\ info'.table
        BY <1>0, <1>1, <3>2, <4>1
      <4> QED
        BY <1>0, <1>1, <2>2, <2>3, <4>1, <4>2, <4>3
    <3> QED
      BY <2>1, <3>1, <3>2
  <2> QED
    BY <1>1, <1>3, <2>5, <2>6 DEF StepsInv
<1> QED
  BY <1>2, <1>5, <1>6, <1>7, <1>8, <1>9

\* The next statement of a step: a change of its script, or the version.
LEMMA StepsGoOn ==
  ASSUME PlaceInv, NEW s \in Servers, GoesOn(s), todo[s].script = "steps"
  PROVE  LET v == todo[s].version
             n == todo[s].number IN
         /\ v \in Oldest .. MaxVersion /\ n \in Nat /\ n > 0 /\ v <= Code[s]
         /\ todo'[s].script = "steps"
         /\ \/ /\ n \in 1 .. Len(Script[v]) /\ info' = info /\ schema' = Shaped(Script[v][n])
               /\ todo'[s].version = v /\ todo'[s].number = n + 1
            \/ /\ n > Len(Script[v])
               /\ info'.version = v /\ info'.table = info.table /\ schema' = schema
               /\ todo'[s].version = v + 1 /\ todo'[s].number = 1
<1> DEFINE v == todo[s].version
           n == todo[s].number
<1>1. /\ todo[s] \in [script : {"none", "table", "version", "changes", "steps"},
                      version : Nat, number : Nat]
      /\ info \in [table : BOOLEAN, version : Nat]
      /\ phase[s] = "run" /\ n > 0
  BY DEF PlaceInv, GoesOn
<1>2. v \in Oldest .. MaxVersion /\ Len(Script[v]) \in Nat /\ ~Migrated(s)
  BY ScriptFacts DEF GoesOn
<1>3. v <= Code[s]
  BY <1>1, <1>2, CodeFacts DEF Migrated
<1>4. CASE n \in 1 .. Len(Script[v])
  <2>1. todo'[s] = [todo[s] EXCEPT !.number = @ + 1]
    BY <1>2, <1>4 DEF GoesOn, Further
  <2>2. todo'[s].script = "steps" /\ todo'[s].version = v /\ todo'[s].number = n + 1
    BY <1>1, <2>1
  <2>3. info' = info /\ schema' = Shaped(Script[v][n])
    BY <1>2, <1>4 DEF GoesOn
  <2> QED
    BY <1>1, <1>2, <1>3, <1>4, <2>2, <2>3
<1>5. CASE n > Len(Script[v])
  <2>1. todo'[s] = At("steps", v + 1, 1)
    BY <1>5 DEF GoesOn, Further
  <2>2. todo'[s].script = "steps" /\ todo'[s].version = v + 1 /\ todo'[s].number = 1
    BY <2>1 DEF At
  <2>3. info' = [info EXCEPT !.version = v] /\ schema' = schema
    BY <1>2, <1>5 DEF GoesOn
  <2>4. info'.version = v /\ info'.table = info.table
    BY <1>1, <2>3
  <2> QED
    BY <1>1, <1>2, <1>3, <1>5, <2>2, <2>3, <2>4
<1> QED
  BY <1>1, <1>2, <1>4, <1>5

LEMMA NextSingleInv == PlaceInv /\ StepsInv /\ SingleInv /\ [Next]_vars => SingleInv'
<1> SUFFICES ASSUME PlaceInv, StepsInv, SingleInv, [Next]_vars, given'.version > 0, ~overlapped'
             PROVE  SingleInv'
    BY DEF SingleInv
<1> DEFINE Fine(s) == /\ phase[s] = "run" =>
                           /\ todo[s].version = info.version + 1
                           /\ todo[s].version \in DOMAIN Script =>
                                LastShapes(Script[todo[s].version], todo[s].number)
                      /\ Serving(s) => Code[s] <= info.version
           Alone == \A s, t \in Servers : phase[s] = "run" /\ phase[t] = "run" => s = t
           AsStored == \A o \in Objects :
                         schema[o] # Schema[info.version][o] =>
                           /\ info.version + 1 \in DOMAIN Script
                           /\ Shapes(info.version + 1, o) /\ Begun(info.version + 1)
<1>1. PICK s \in Servers : /\ Others(s)
                           /\ Starts(s) \/ Rests(s) \/ Serves(s) \/ Begins(s) \/ GoesOn(s)
  BY OneServer
<1>2. given' = given /\ given.version > 0 /\ ~overlapped
  <2>1. given' = given
    BY OneServer
  <2>2. overlapped => overlapped'
    BY <1>1 DEF Starts, Rests, Serves, Begins, GoesOn
  <2> QED
    BY <2>1, <2>2
<1>3. Alone /\ AsStored /\ \A t \in Servers : Fine(t)
  BY <1>2 DEF SingleInv
<1>4. /\ info \in [table : BOOLEAN, version : Nat]
      /\ \A t \in Servers : Code[t] \in Nat /\ todo[t].version \in Nat /\ todo[t].number \in Nat
  BY CodeFacts DEF PlaceInv
<1>5. ASSUME UNCHANGED <<info, schema>>
      PROVE  /\ AsStored'
             /\ \A t \in Servers \ {s} : Fine(t)'
  <2>1. AsStored'
    BY <1>3, <1>5, BegunStays
  <2>2. \A t \in Servers \ {s} : Fine(t)'
    BY <1>1, <1>3, <1>5 DEF Others, Serving, LastShapes
  <2> QED
    BY <2>1, <2>2
<1>6. ASSUME phase'[s] # "run"
      PROVE  Alone'
  BY <1>1, <1>3, <1>6 DEF Others
<1>7. CASE Starts(s)
  <2>1. UNCHANGED <<info, schema>> /\ phase'[s] # "run" /\ Fine(s)'
    BY <1>7 DEF Starts, Serving
  <2> QED
    BY <1>5, <1>6, <2>1 DEF SingleInv
<1>8. CASE Rests(s)
  <2>1. UNCHANGED <<info, schema>>
    BY <1>8 DEF Rests
  <2>2. Fine(s)'
    BY <1>3, <1>8 DEF Rests, Serving, LastShapes
  <2>3. Alone'
    BY <1>1, <1>3, <1>6, <1>8 DEF Rests, Others
  <2> QED
    BY <1>5, <2>1, <2>2, <2>3 DEF SingleInv
<1>9. CASE Serves(s)
  <2>1. UNCHANGED <<info, schema>> /\ phase'[s] # "run" /\ Fine(s)'
    BY <1>4, <1>9 DEF Serves, Serving
  <2> QED
    BY <1>5, <1>6, <2>1 DEF SingleInv
<1>10. CASE Begins(s)
  <2>1. /\ UNCHANGED <<info, schema>> /\ phase'[s] = "run"
        /\ \A t \in Servers \ {s} : phase[t] # "run"
        /\ todo'[s] = At("steps", info.version + 1, 1)
    BY <1>2, <1>10 DEF Begins, StepsInv
  <2>2. todo'[s].version = info.version + 1 /\ todo'[s].number = 1
    BY <2>1 DEF At
  <2>3. \A script : LastShapes(script, 1)'
    BY DEF LastShapes
  <2>4. Fine(s)'
    BY <2>1, <2>2, <2>3 DEF Serving
  <2>5. Alone'
    BY <1>1, <2>1 DEF Others
  <2> QED
    BY <1>5, <2>1, <2>4, <2>5 DEF SingleInv
<1>11. CASE GoesOn(s)
  <2>1. phase[s] = "run" /\ phase'[s] = "run" /\ todo[s].script = "steps"
    BY <1>2, <1>11 DEF GoesOn, StepsInv
  <2>2. Alone' /\ \A t \in Servers \ {s} : phase'[t] = phase[t] /\ phase[t] # "run"
    BY <1>1, <1>3, <2>1 DEF Others
  <2>3. PICK v \in Nat, n \in Nat : v = todo[s].version /\ n = todo[s].number
    BY <1>4
  <2>4. /\ v \in Oldest .. MaxVersion /\ n > 0 /\ v <= Code[s] /\ v = info.version + 1
        /\ Len(Script[v]) \in Nat /\ v \in DOMAIN Script
        /\ Leads(Script[v], Schema[v - 1], Schema[v])
        /\ LastShapes(Script[v], n)
    BY <1>3, <1>11, <2>1, <2>3, StepsGoOn, ScriptFacts
  <2>5. Begun(v)'
    <3>1. boots[s] > 0 /\ Code[s] >= v
      BY <1>4, <2>1, <2>4 DEF PlaceInv
    <3> QED
      BY <3>1, BegunStays DEF Begun
  <2>6. v - 1 = info.version /\ v \in Nat
    BY <1>4, <2>4
  <2>7. CASE /\ n \in 1 .. Len(Script[v]) /\ info' = info /\ schema' = Shaped(Script[v][n])
             /\ todo'[s].version = v /\ todo'[s].number = n + 1
    <3>1. LastShapes(Script[v], n + 1)'
      BY <2>4, <2>7, OneMoreChange
    <3>2. Fine(s)'
      BY <2>1, <2>4, <2>7, <3>1 DEF Serving, LastShapes
    <3>3. AsStored'
      <4> SUFFICES ASSUME NEW o \in Objects, schema'[o] # Schema[info.version][o]
                   PROVE  Shapes(v, o)
          BY <2>4, <2>5, <2>7
      <4>1. CASE ShapedBy(Script[v][n], o)
        BY <2>4, <2>7, <4>1 DEF Shapes
      <4>2. CASE ~ShapedBy(Script[v][n], o)
        <5>1. schema'[o] = schema[o]
          BY <2>7, <4>2 DEF Shaped
        <5> QED
          BY <1>3, <2>4, <5>1
      <4> QED
        BY <4>1, <4>2
    <3>4. \A t \in Servers \ {s} : Fine(t)'
      BY <1>3, <2>2, <2>7 DEF Serving
    <3> QED
      BY <2>2, <3>2, <3>3, <3>4 DEF SingleInv
  <2>8. CASE /\ n > Len(Script[v])
             /\ info'.version = v /\ info'.table = info.table /\ schema' = schema
             /\ todo'[s].version = v + 1 /\ todo'[s].number = 1
    <3>1. \A o \in Objects :
            (\A i \in 1 .. Len(Script[v]) : ~ShapedBy(Script[v][i], o))
              => schema[o] = Schema[v - 1][o]
      BY <1>3, <2>4, <2>6 DEF Shapes
    <3>2. \A o \in Objects : schema[o] = Schema[v][o]
      BY <2>4, <2>8, <3>1, ScriptRun
    <3>3. AsStored'
      BY <2>8, <3>2
    <3>4. \A script : LastShapes(script, 1)'
      BY DEF LastShapes
    <3>5. Fine(s)'
      BY <2>1, <2>8, <3>4 DEF Serving
    <3>6. \A t \in Servers \ {s} : Fine(t)'
      BY <1>3, <1>4, <2>2, <2>4, <2>8 DEF Serving
    <3> QED
      BY <2>2, <3>3, <3>5, <3>6 DEF SingleInv
  <2> QED
    BY <1>11, <2>1, <2>3, <2>7, <2>8, StepsGoOn
<1> QED
  BY <1>1, <1>7, <1>8, <1>9, <1>10, <1>11

LEMMA NextOnceInv == PlaceInv /\ StepsInv /\ OnceInv /\ [Next]_vars => OnceInv'
<1> SUFFICES ASSUME PlaceInv, StepsInv, OnceInv, [Next]_vars, given.version > 0, ShapedOnce
             PROVE  OnceInv'
    BY OneServer DEF OnceInv, ShapedOnce
<1> DEFINE g == given.version
           Fine(s) == /\ phase[s] = "run" => MadeUpTo(todo[s].version, todo[s].number)
                      /\ Serving(s) => MadeUpTo(Code[s] + 1, 1)
           AsGiven == \A o \in Objects :
                        schema[o] # Schema[g][o] =>
                          \E w \in DOMAIN Script : w > g /\ Shapes(w, o) /\ Begun(w)
<1>1. PICK s \in Servers : /\ Others(s)
                           /\ Starts(s) \/ Rests(s) \/ Serves(s) \/ Begins(s) \/ GoesOn(s)
  BY OneServer
<1>2. given' = given /\ g \in Nat
  BY OneServer, ServerAssumption DEF PlaceInv
<1>3. MadeUpTo(info.version + 1, 1) /\ AsGiven /\ \A t \in Servers : Fine(t)
  BY DEF OnceInv
<1>4. /\ info \in [table : BOOLEAN, version : Nat]
      /\ \A t \in Servers : Code[t] \in Nat /\ todo[t].version \in Nat /\ todo[t].number \in Nat
      /\ DOMAIN Script = Oldest .. MaxVersion /\ Oldest \in Nat /\ MaxVersion \in Nat
      /\ \A w \in DOMAIN Script : w \in Nat /\ Len(Script[w]) \in Nat
  BY CodeFacts, ScriptFacts DEF PlaceInv
\* A change made stands.
<1>5. ASSUME NEW w \in DOMAIN Script, w > g, NEW i \in 1 .. Len(Script[w]), Made(w, i)
      PROVE  Made(w, i)'
  <2>1. CASE schema' = schema
    BY <1>5, <2>1 DEF Made
  <2>2. CASE schema' # schema
    <3>1. GoesOn(s) /\ phase[s] = "run" /\ todo[s].script = "steps"
      BY <1>1, <2>2 DEF Starts, Rests, Serves, Begins, GoesOn, StepsInv
    <3>2. PICK v \in DOMAIN Script, n \in Nat :
            /\ v = todo[s].version /\ n = todo[s].number /\ n \in 1 .. Len(Script[v])
            /\ schema' = Shaped(Script[v][n])
      BY <1>4, <2>2, <3>1, StepsGoOn
    <3>3. v > g
      BY <3>1, <3>2 DEF StepsInv
    <3>4. CASE v = w /\ n = i
      BY <3>2, <3>4 DEF Made, Shaped
    <3>5. CASE ~ (v = w /\ n = i)
      <4>1. \A o \in Objects : ~ (ShapedBy(Script[v][n], o) /\ ShapedBy(Script[w][i], o))
        <5>1. <<v, n>> # <<w, i>>
          BY <3>5
        <5>2. \A j \in 1 .. Len(Script[v]), k \in 1 .. Len(Script[w]) :
                <<v, j>> # <<w, k>> =>
                  ~ \E o \in Objects : ShapedBy(Script[v][j], o) /\ ShapedBy(Script[w][k], o)
          BY <1>5, <3>3 DEF ShapedOnce
        <5> QED
          BY <1>5, <3>2, <5>1, <5>2
      <4> QED
        BY <1>5, <3>2, <4>1 DEF Made, Shaped
    <3> QED
      BY <3>4, <3>5
  <2> QED
    BY <2>1, <2>2
<1>6. ASSUME NEW v \in Nat, NEW n \in Nat, MadeUpTo(v, n)
      PROVE  MadeUpTo(v, n)'
  BY <1>2, <1>5, <1>6 DEF MadeUpTo
\* What is not as it was has been shaped by somebody.
<1>7. AsGiven'
  <2> SUFFICES ASSUME NEW o \in Objects, schema'[o] # Schema[g][o]
               PROVE  \E w \in DOMAIN Script : w > g /\ Shapes(w, o) /\ Begun(w)'
      BY <1>2
  <2>1. CASE schema'[o] = schema[o]
    <3>1. PICK w \in DOMAIN Script : w > g /\ Shapes(w, o) /\ Begun(w)
      BY <1>3, <2>1
    <3>2. Begun(w)'
      BY <3>1, BegunStays
    <3> QED
      BY <3>1, <3>2
  <2>2. CASE schema'[o] # schema[o]
    <3>1. GoesOn(s) /\ phase[s] = "run" /\ todo[s].script = "steps" /\ schema' # schema
      BY <1>1, <2>2 DEF Starts, Rests, Serves, Begins, GoesOn, StepsInv
    <3>2. PICK v \in DOMAIN Script, n \in Nat :
            /\ v = todo[s].version /\ n = todo[s].number /\ n \in 1 .. Len(Script[v])
            /\ schema' = Shaped(Script[v][n])
      BY <1>4, <3>1, StepsGoOn
    <3>3. v > g /\ v <= Code[s] /\ boots[s] > 0
      BY <3>1, <3>2, StepsGoOn DEF StepsInv, PlaceInv
    <3>4. Shapes(v, o)
      BY <2>2, <3>2 DEF Shaped, Shapes
    <3>5. Begun(v)'
      BY <1>4, <3>3, BegunStays DEF Begun
    <3> QED
      BY <3>3, <3>4, <3>5
  <2> QED
    BY <2>1, <2>2
<1>8. ASSUME info' = info
      PROVE  MadeUpTo(info.version + 1, 1)'
  <2>1. PICK u \in Nat : u = info.version + 1
    BY <1>4
  <2>2. MadeUpTo(u, 1)'
    BY <1>3, <1>6, <2>1
  <2> QED
    BY <1>8, <2>1, <2>2
<1>9. ASSUME NEW t \in Servers, todo'[t] = todo[t], phase'[t] = phase[t]
      PROVE  Fine(t)'
  <2>1. PICK v \in Nat, n \in Nat, c \in Nat :
          v = todo[t].version /\ n = todo[t].number /\ c = Code[t] + 1
    BY <1>4
  <2>2. phase[t] = "run" => MadeUpTo(v, n)'
    BY <1>3, <1>6, <2>1
  <2>3. Serving(t) => MadeUpTo(c, 1)'
    BY <1>3, <1>6, <2>1
  <2> QED
    BY <1>9, <2>1, <2>2, <2>3 DEF Serving
<1>10. \A t \in Servers \ {s} : Fine(t)'
  BY <1>1, <1>9 DEF Others
<1>11. CASE Starts(s)
  BY <1>7, <1>8, <1>10, <1>11 DEF Starts, Serving, OnceInv
<1>12. CASE Rests(s)
  <2>1. Fine(s)'
    BY <1>9, <1>12 DEF Rests, Serving
  <2> QED
    BY <1>2, <1>7, <1>8, <1>10, <1>12, <2>1 DEF Rests, OnceInv
<1>13. CASE Serves(s)
  <2>1. phase'[s] = "serving" /\ info' = info /\ info.version = Code[s]
    BY <1>13 DEF Serves
  <2>2. Fine(s)'
    BY <1>8, <2>1 DEF Serving
  <2> QED
    BY <1>2, <1>7, <1>8, <1>10, <2>1, <2>2 DEF OnceInv
<1>14. CASE Begins(s)
  <2>1. phase'[s] = "run" /\ info' = info /\ todo'[s] = At("steps", info.version + 1, 1)
    BY <1>14 DEF Begins, StepsInv
  <2>2. todo'[s].version = info.version + 1 /\ todo'[s].number = 1
    BY <2>1 DEF At
  <2>3. Fine(s)'
    BY <1>8, <2>1, <2>2 DEF Serving
  <2> QED
    BY <1>2, <1>7, <1>8, <1>10, <2>1, <2>3 DEF OnceInv
<1>15. CASE GoesOn(s)
  <2>1. phase[s] = "run" /\ phase'[s] = "run" /\ todo[s].script = "steps"
    BY <1>15 DEF GoesOn, StepsInv
  <2>2. PICK v \in Nat, n \in Nat : v = todo[s].version /\ n = todo[s].number
    BY <1>4
  <2>3. v \in DOMAIN Script /\ n > 0 /\ MadeUpTo(v, n) /\ MadeUpTo(v, n)'
    BY <1>3, <1>4, <1>6, <1>15, <2>1, <2>2, StepsGoOn
  <2>4. CASE /\ n \in 1 .. Len(Script[v]) /\ info' = info /\ schema' = Shaped(Script[v][n])
             /\ todo'[s].version = v /\ todo'[s].number = n + 1
    <3>1. Made(v, n)'
      BY <2>4 DEF Made, Shaped
    <3>2. MadeUpTo(v, n + 1)'
      <4> SUFFICES ASSUME NEW w \in DOMAIN Script, w > g, NEW i \in 1 .. Len(Script[w]),
                          w < v \/ (w = v /\ i < n + 1)
                   PROVE  Made(w, i)'
          BY <1>2 DEF MadeUpTo
      <4>1. CASE w = v /\ i = n
        BY <3>1, <4>1
      <4>2. CASE ~ (w = v /\ i = n)
        <5>1. i \in Nat /\ (w < v \/ (w = v /\ i < n))
          BY <1>4, <2>4, <4>2
        <5> QED
          BY <1>2, <2>3, <5>1 DEF MadeUpTo
      <4> QED
        BY <4>1, <4>2
    <3>3. Fine(s)'
      BY <2>1, <2>4, <3>2 DEF Serving
    <3> QED
      BY <1>2, <1>7, <1>8, <1>10, <2>4, <3>3 DEF OnceInv
  <2>5. CASE /\ n > Len(Script[v])
             /\ info'.version = v /\ info'.table = info.table /\ schema' = schema
             /\ todo'[s].version = v + 1 /\ todo'[s].number = 1
    <3>1. MadeUpTo(v + 1, 1)'
      <4> SUFFICES ASSUME NEW w \in DOMAIN Script, w > g, NEW i \in 1 .. Len(Script[w]),
                          w < v + 1 \/ (w = v + 1 /\ i < 1)
                   PROVE  Made(w, i)'
          BY <1>2 DEF MadeUpTo
      <4>1. i \in Nat /\ (w < v \/ (w = v /\ i < n))
        BY <1>4, <2>5
      <4> QED
        BY <1>2, <2>3, <4>1 DEF MadeUpTo
    <3>2. Fine(s)'
      BY <2>1, <2>5, <3>1 DEF Serving
    <3> QED
      BY <1>2, <1>7, <1>10, <2>5, <3>1, <3>2 DEF OnceInv
  <2> QED
    BY <1>15, <2>1, <2>2, <2>4, <2>5, StepsGoOn
<1> QED
  BY <1>1, <1>11, <1>12, <1>13, <1>14, <1>15

LEMMA NextNewInv == PlaceInv /\ NewInv /\ [Next]_vars => NewInv'
<1> SUFFICES ASSUME PlaceInv, NewInv, [Next]_vars, NEW s \in Servers,
                    given.version = 0, given.starts = {s}
             PROVE  /\ boots'[s] = 0 \/ (boots'[s] = 1 /\ phase'[s] = "check")
                         => ~info'.table /\ As(0)'
                    /\ boots'[s] = 1 /\ phase'[s] = "run" =>
                         /\ todo'[s].script # "steps"
                         /\ todo'[s].script \in {"table", "version"} => As(0)'
                         /\ todo'[s].script = "changes" =>
                              /\ LastShapes(Current[Code[s]], todo[s].number)'
                              /\ \A o \in Objects :
                                   (\A i \in 1 .. Len(Current[Code[s]]) :
                                      ~ShapedBy(Current[Code[s]][i], o))
                                     => schema'[o] = Schema[0][o]
                    /\ boots'[s] = 1 /\ Serving(s)' => As(Code[s])'
    BY OneServer DEF NewInv
<1> DEFINE c == Code[s]
           script == Current[c]
           Rest == \A o \in Objects :
                     (\A i \in 1 .. Len(script) : ~ShapedBy(script[i], o))
                       => schema[o] = Schema[0][o]
<1>1. PICK t \in Servers : /\ Others(t)
                           /\ Starts(t) \/ Rests(t) \/ Serves(t) \/ Begins(t) \/ GoesOn(t)
  BY OneServer
<1>2. /\ info \in [table : BOOLEAN, version : Nat]
      /\ todo[s] \in [script : {"none", "table", "version", "changes", "steps"},
                      version : Nat, number : Nat]
      /\ boots[s] \in Nat /\ Len(script) \in Nat /\ Leads(script, Schema[0], Schema[c])
  BY CodeFacts DEF PlaceInv
<1>3. /\ boots[s] = 0 \/ (boots[s] = 1 /\ phase[s] = "check") => ~info.table /\ As(0)
      /\ boots[s] = 1 /\ phase[s] = "run" =>
           /\ todo[s].script # "steps"
           /\ todo[s].script \in {"table", "version"} => As(0)
           /\ todo[s].script = "changes" => LastShapes(script, todo[s].number) /\ Rest
      /\ boots[s] = 1 /\ Serving(s) => As(c)
      /\ boots[s] = 0 => phase[s] = "off"
  BY DEF NewInv, PlaceInv
\* Another server does nothing.
<1>4. CASE t # s
  <2>1. phase[t] = "off" /\ given' = given /\ t \notin given'.starts
    BY <1>4, OneServer DEF PlaceInv
  <2>2. phase'[t] = "off"
    BY <2>1, NextPlaceInv DEF PlaceInv
  <2>3. UNCHANGED <<info, schema>>
    BY <1>1, <2>1, <2>2 DEF Starts, Rests, Serves, Begins, GoesOn
  <2>4. phase'[s] = phase[s] /\ todo'[s] = todo[s] /\ boots'[s] = boots[s]
    BY <1>1, <1>4 DEF Others
  <2> QED
    BY <1>3, <2>3, <2>4 DEF As, LastShapes, Serving
<1>5. CASE t = s
  <2>1. CASE Starts(s)
    BY <1>2, <1>3, <2>1 DEF Starts, As, Serving
  <2>2. CASE Rests(s)
    BY <1>3, <2>2 DEF Rests, As, LastShapes, Serving
  <2>3. CASE Serves(s)
    <3>1. UNCHANGED <<info, schema>> /\ boots'[s] = boots[s] /\ phase'[s] = "serving"
      BY <2>3 DEF Serves
    <3> SUFFICES ASSUME boots[s] = 1
                 PROVE  As(c)
        BY <1>3, <3>1 DEF As, Serving, Serves
    <3>2. phase[s] = "run" /\ todo[s].script = "changes" /\ todo[s].number > Len(script)
      BY <1>3, <2>3 DEF Serves, Migrated
    <3>3. LastShapes(script, todo[s].number) /\ Rest
      BY <1>3, <3>2
    <3>4. PICK n \in Nat : n = todo[s].number
      BY <1>2
    <3> QED
      BY <1>2, <3>2, <3>3, <3>4, ScriptRun DEF As
  <2>4. CASE Begins(s)
    <3>1. UNCHANGED <<info, schema>> /\ boots'[s] = boots[s] /\ phase'[s] = "run" /\ phase[s] = "check"
      BY <2>4 DEF Begins
    <3> SUFFICES ASSUME boots[s] = 1
                 PROVE  todo'[s].script = "table" /\ As(0)
        BY <1>3, <3>1 DEF As, Serving
    <3>2. ~info.table /\ As(0)
      BY <1>3, <3>1
    <3> QED
      BY <2>4, <3>2 DEF Begins, At
  <2>5. CASE GoesOn(s)
    <3>1. phase[s] = "run" /\ boots'[s] = boots[s] /\ phase'[s] = "run" /\ todo'[s] = Further(s)
      BY <2>5 DEF GoesOn
    <3>2. CASE boots[s] # 1
      BY <1>3, <3>1, <3>2 DEF Serving
    <3>3. CASE boots[s] = 1 /\ todo[s].script = "table"
      <4>1. todo'[s].script = "version" /\ schema' = schema
        BY <2>5, <3>1, <3>3 DEF GoesOn, Further, At
      <4>2. As(0)'
        BY <1>3, <3>1, <3>3, <4>1 DEF As
      <4> QED
        BY <3>1, <3>3, <4>1, <4>2 DEF Serving
    <3>4. CASE boots[s] = 1 /\ todo[s].script = "version"
      <4>1. todo'[s].script = "changes" /\ todo'[s].number = 1 /\ schema' = schema
        BY <2>5, <3>1, <3>4 DEF GoesOn, Further, At
      <4>2. LastShapes(script, todo[s].number)'
        BY <4>1 DEF LastShapes
      <4>3. Rest'
        BY <1>3, <3>1, <3>4, <4>1 DEF As
      <4> QED
        BY <3>1, <3>4, <4>1, <4>2, <4>3 DEF Serving
    <3>5. CASE boots[s] = 1 /\ todo[s].script = "changes"
      <4>1. PICK n \in Nat : n = todo[s].number
        BY <1>2
      <4>2. n \in 1 .. Len(script) /\ schema' = Shaped(script[n])
        BY <2>5, <3>5, <4>1 DEF GoesOn
      <4>3. Further(s) = [todo[s] EXCEPT !.number = @ + 1]
        BY <3>5 DEF Further
      <4>4. todo'[s].script = "changes" /\ todo'[s].number = n + 1
        BY <1>2, <3>1, <3>5, <4>1, <4>3
      <4>5. LastShapes(script, n + 1)'
        BY <1>2, <1>3, <3>1, <3>5, <4>1, <4>2, OneMoreChange
      <4>6. LastShapes(script, todo[s].number)'
        BY <4>4, <4>5
      <4>7. Rest'
        BY <1>3, <3>1, <3>5, <4>2 DEF Shaped
      <4> QED
        BY <3>1, <3>5, <4>4, <4>6, <4>7 DEF Serving
    <3> QED
      BY <1>2, <1>3, <3>1, <3>2, <3>3, <3>4, <3>5, CodeFacts DEF PlaceInv
  <2> QED
    BY <1>1, <1>5, <2>1, <2>2, <2>3, <2>4, <2>5
<1> QED
  BY <1>4, <1>5

LEMMA InitSchemaInv == Init => SchemaInv
<1> SUFFICES ASSUME Init
             PROVE  SchemaInv
    OBVIOUS
<1>1. /\ given \in Scenarios /\ given.version \in 0 .. MaxVersion /\ MaxVersion \in Nat
  BY ServerAssumption DEF Init
<1>2. /\ info = [table |-> given.version > 0, version |-> given.version]
      /\ schema = [o \in Objects |-> Schema[given.version][o]]
      /\ phase = [s \in Servers |-> "off"] /\ todo = [s \in Servers |-> Nowhere]
      /\ boots = [s \in Servers |-> 0] /\ overlapped = FALSE
  BY DEF Init
<1>3. /\ info.version = given.version /\ (given.version > 0 <=> info.table)
      /\ \A s \in Servers : phase[s] = "off" /\ boots[s] = 0 /\ ~Serving(s)
      /\ As(given.version)
  BY <1>2 DEF As, Serving
<1>4. PlaceInv
  <2>1. todo \in [Servers -> [script : {"none", "table", "version", "changes", "steps"},
                              version : Nat, number : Nat]]
    BY <1>2 DEF Nowhere, At
  <2>2. info \in [table : BOOLEAN, version : Nat] /\ phase \in [Servers -> Phases]
        /\ boots \in [Servers -> Nat]
    BY <1>1, <1>2 DEF Phases
  <2> QED
    BY <1>1, <1>2, <1>3, <2>1, <2>2 DEF PlaceInv
<1>5. StepsInv
  BY <1>1, <1>3 DEF StepsInv
<1>6. SingleInv
  BY <1>3 DEF SingleInv, As
<1>7. OnceInv
  <2>1. MadeUpTo(info.version + 1, 1)
    BY <1>1, <1>3, ScriptFacts DEF MadeUpTo
  <2> QED
    BY <1>3, <2>1 DEF OnceInv, As
<1>8. NewInv
  BY <1>3 DEF NewInv
<1> QED
  BY <1>4, <1>5, <1>6, <1>7, <1>8 DEF SchemaInv

\* One migration at a time: the version stored vouches for the schema, and so do those
\* before it.
LEMMA SingleIsWhole ==
  ASSUME PlaceInv, StepsInv, SingleInv, given.version > 0, ~overlapped,
         NEW v \in Nat, v >= given.version, v <= info.version,
         v > given.version => given.version + 1 >= Oldest
  PROVE  WholeSchema(v)
<1>1. /\ given.version \in Nat /\ info.version \in Nat /\ info.version <= MaxVersion
      /\ MaxVersion \in Nat /\ Oldest \in Nat /\ DOMAIN Script = Oldest .. MaxVersion
  BY ServerAssumption DEF PlaceInv, StepsInv
<1> SUFFICES ASSUME NEW o \in Objects, schema[o] # Schema[v][o]
             PROVE  \E w \in v + 1 .. MaxVersion : Begun(w) /\ Shapes(w, o)
    BY DEF WholeSchema
<1>2. CASE schema[o] # Schema[info.version][o]
  <2>1. /\ info.version + 1 \in Oldest .. MaxVersion
        /\ Shapes(info.version + 1, o) /\ Begun(info.version + 1)
    BY <1>1, <1>2 DEF SingleInv
  <2> QED
    BY <1>1, <2>1
<1>3. CASE schema[o] = Schema[info.version][o]
  <2>1. v # info.version /\ info.version > given.version
    BY <1>1, <1>3
  <2>2. v + 1 >= Oldest /\ Begun(info.version)
    BY <1>1, <2>1 DEF StepsInv
  <2>3. PICK w \in v + 1 .. info.version : Shapes(w, o)
    BY <1>1, <1>3, <2>2, NeverShaped
  <2>4. Begun(w)
    BY <1>1, <2>2, <2>3, BegunBefore
  <2> QED
    BY <1>1, <2>3, <2>4
<1> QED
  BY <1>2, <1>3

\* If no object is shaped twice: a schema all of whose changes have been made is that
\* of its version, but for newer scripts.
LEMMA OnceIsWhole ==
  ASSUME PlaceInv, OnceInv, given.version > 0, ShapedOnce,
         NEW v \in Nat, v >= given.version, v <= MaxVersion, MadeUpTo(v + 1, 1),
         v > given.version => given.version + 1 >= Oldest
  PROVE  WholeSchema(v)
<1> DEFINE g == given.version
<1>1. /\ g \in Nat /\ MaxVersion \in Nat /\ Oldest \in Nat /\ DOMAIN Script = Oldest .. MaxVersion
      /\ \A w \in Oldest .. MaxVersion : Len(Script[w]) \in Nat
  BY ServerAssumption DEF PlaceInv
<1> SUFFICES ASSUME NEW o \in Objects, schema[o] # Schema[v][o]
             PROVE  \E w \in v + 1 .. MaxVersion : Begun(w) /\ Shapes(w, o)
    BY DEF WholeSchema
\* No script up to version v shapes the object:
<1>2. \A w \in g + 1 .. v : ~Shapes(w, o)
  <2> SUFFICES ASSUME NEW w \in g + 1 .. v, Shapes(w, o)
               PROVE  FALSE
      OBVIOUS
  <2>1. PICK i \in 1 .. Len(Script[w]) : ShapedBy(Script[w][i], o)
    BY DEF Shapes
  <2>2. w \in Oldest .. MaxVersion /\ w > g /\ w < v + 1 /\ w \in Nat
    BY <1>1
  <2>3. schema[o] = Script[w][i].shape[o]
    BY <1>1, <2>1, <2>2 DEF MadeUpTo, Made
  <2>4. \A u \in DOMAIN Script : u > g =>
          \A j \in 1 .. Len(Script[u]) : ShapedBy(Script[u][j], o) => <<u, j>> = <<w, i>>
    <3> SUFFICES ASSUME NEW u \in DOMAIN Script, u > g, NEW j \in 1 .. Len(Script[u]),
                        ShapedBy(Script[u][j], o), <<u, j>> # <<w, i>>
                 PROVE  FALSE
        OBVIOUS
    <3>1. \A k \in 1 .. Len(Script[u]), l \in 1 .. Len(Script[w]) :
            <<u, k>> # <<w, l>> =>
              ~ \E x \in Objects : ShapedBy(Script[u][k], x) /\ ShapedBy(Script[w][l], x)
      BY <1>1, <2>2 DEF ShapedOnce
    <3> QED
      BY <2>1, <3>1
  <2>5. Schema[w][o] = Script[w][i].shape[o]
    <3>1. {j \in 1 .. Len(Script[w]) : ShapedBy(Script[w][j], o)} = {i}
      BY <1>1, <2>1, <2>2, <2>4
    <3>2. Leads(Script[w], Schema[w - 1], Schema[w])
      BY <2>2, ScriptFacts
    <3> QED
      BY <3>1, <3>2 DEF Leads
  <2>6. \A u \in w + 1 .. v : ~Shapes(u, o)
    <3> SUFFICES ASSUME NEW u \in w + 1 .. v, Shapes(u, o)
                 PROVE  FALSE
        OBVIOUS
    <3>1. u > g /\ u # w
      BY <1>1, <2>2
    <3>2. PICK j \in 1 .. Len(Script[u]) : ShapedBy(Script[u][j], o)
      BY DEF Shapes
    <3> QED
      BY <2>4, <3>1, <3>2 DEF Shapes
  <2>7. Schema[v][o] = Schema[w][o]
    BY <1>1, <2>2, <2>6, NeverShaped
  <2> QED
    BY <2>3, <2>5, <2>7
<1>3. Schema[v][o] = Schema[g][o]
  <2>1. CASE v = g
    BY <2>1
  <2>2. CASE v # g
    <3>1. PICK u \in Nat : u = g
      BY <1>1
    <3>2. u + 1 >= Oldest /\ v \in u .. MaxVersion
      BY <1>1, <2>2, <3>1
    <3>3. \A w \in u + 1 .. v : ~Shapes(w, o)
      BY <1>2, <3>1
    <3>4. Schema[v][o] = Schema[u][o]
      BY <3>2, <3>3, NeverShaped
    <3> QED
      BY <3>1, <3>4
  <2> QED
    BY <2>1, <2>2
\* it is a script after it.
<1>4. PICK w \in DOMAIN Script : w > g /\ Shapes(w, o) /\ Begun(w)
  BY <1>3 DEF OnceInv
<1>5. w \in v + 1 .. MaxVersion
  BY <1>1, <1>2, <1>4
<1> QED
  BY <1>4, <1>5

LEMMA SchemaInvSuffices == SchemaInv => SchemaIsWhole
<1> SUFFICES ASSUME SchemaInv
             PROVE  SchemaIsWhole
    OBVIOUS
<1>0. PlaceInv /\ StepsInv /\ SingleInv /\ OnceInv /\ NewInv
  BY DEF SchemaInv
<1>1. ASSUME given.version > 0, ~overlapped \/ ShapedOnce
      PROVE  WholeSchema(info.version) /\ \A s \in Servers : Serving(s) => WholeSchema(Code[s])
  <2>1. /\ info.version \in Nat /\ given.version \in Nat
        /\ info.version >= given.version /\ info.version <= MaxVersion
        /\ info.version > given.version => given.version + 1 >= Oldest
    BY <1>0, <1>1, ServerAssumption DEF PlaceInv, StepsInv
  <2>2. WholeSchema(info.version)
    <3>1. CASE ~overlapped
      BY <1>0, <1>1, <2>1, <3>1, SingleIsWhole
    <3>2. CASE ShapedOnce
      BY <1>0, <1>1, <2>1, <3>2, OnceIsWhole DEF OnceInv
    <3> QED
      BY <1>1, <3>1, <3>2
  <2>3. ASSUME NEW s \in Servers, Serving(s)
        PROVE  WholeSchema(Code[s])
    <3>0. /\ Code[s] \in Nat /\ Code[s] <= MaxVersion /\ Code[s] >= given.version
          /\ Code[s] > given.version => given.version + 1 >= Oldest
      BY <1>0, <1>1, <2>3, CodeFacts DEF StepsInv
    <3>1. CASE ~overlapped
      <4>1. Code[s] <= info.version
        BY <1>0, <1>1, <2>3, <3>1 DEF SingleInv
      <4> QED
        BY <1>0, <1>1, <3>0, <3>1, <4>1, SingleIsWhole
    <3>2. CASE ShapedOnce
      <4>1. MadeUpTo(Code[s] + 1, 1)
        BY <1>0, <1>1, <2>3, <3>2 DEF OnceInv
      <4> QED
        BY <1>0, <1>1, <3>0, <3>2, <4>1, OnceIsWhole
    <3> QED
      BY <1>1, <3>1, <3>2
  <2> QED
    BY <2>2, <2>3
<1>2. ASSUME NEW s \in Servers, given.version = 0, given.starts = {s}, boots[s] = 1, Serving(s)
      PROVE  WholeSchema(Code[s])
  <2>1. As(Code[s])
    BY <1>0, <1>2 DEF NewInv
  <2> QED
    BY <2>1 DEF As, WholeSchema
<1> QED
  BY <1>1, <1>2 DEF SchemaIsWhole

\* A server that serves finds the schema of its code, and the version stored vouches for
\* the schema, but for what newer scripts have made of it: MigrateDB and runScript, of any
\* number of servers that are killed and started again, if their migrations have never
\* overlapped or no object is shaped twice in the scripts they may run; and in a new
\* database if the server is alone and was not killed before.
THEOREM SchemaStaysWhole == Spec => []SchemaIsWhole
<1>1. Init => SchemaInv
  BY InitSchemaInv
<1>2. SchemaInv /\ [Next]_vars => SchemaInv'
  BY NextPlaceInv, NextStepsInv, NextSingleInv, NextOnceInv, NextNewInv DEF SchemaInv
<1>3. SchemaInv => SchemaIsWhole
  BY SchemaInvSuffices
<1> QED
  BY <1>1, <1>2, <1>3, PTL DEF Spec


-----------------------------------------------------------------------------
\* The logs.

\* A row that gets a fate is logged; no other request is by that.
LEMMA FateSet ==
  ASSUME fate \in [Logs -> [Requests -> Fates]], NEW l \in Logs, NEW r,
         NEW f \in Fates \ {"none"}, fate' = [fate EXCEPT ![l][r] = f]
  PROVE  /\ fate' \in [Logs -> [Requests -> Fates]]
         /\ \A m \in Logs, q \in Requests :
              q \in Logged(m)' <=> q \in Logged(m) \/ (m = l /\ q = r)
<1>1. \A m \in Logs \ {l} : fate'[m] = fate[m]
  OBVIOUS
<1>2. fate'[l] = [fate[l] EXCEPT ![r] = f]
  OBVIOUS
<1>3. fate'[l] \in [Requests -> Fates]
  BY <1>2
<1>4. fate' \in [Logs -> [Requests -> Fates]]
  BY <1>1, <1>3
<1>5. \A q \in Requests : fate'[l][q] # "none" <=> fate[l][q] # "none" \/ q = r
  BY <1>2
<1> QED
  BY <1>1, <1>4, <1>5 DEF Logged

\* The select of Logger.Log: the row is sent, or the queue is full.
LEMMA OfferCases ==
  ASSUME RowsInv, NEW l \in Logs, NEW q \in Requests, NEW sent, NEW full,
         Offer(l, q, sent, full)
  PROVE  \/ /\ step' = [step EXCEPT ![q] = sent]
            /\ queue' = [queue EXCEPT ![l] = Append(@, q)]
            /\ fate' = [fate EXCEPT ![l][q] = "queued"]
         \/ /\ step' = [step EXCEPT ![q] = full]
            /\ queue' = queue /\ fate' = fate
BY DEF Offer, Goto

LEMMA DropCases ==
  ASSUME NEW l, NEW q, CountDrop(l, q)
  PROVE  /\ dropped' = [dropped EXCEPT ![l] = @ + 1]
         /\ late' = [late EXCEPT ![l] = @ \/ (queue[l] = <<>> /\ worker[l] = Idle)]
         /\ fate' = [fate EXCEPT ![l][q] = "dropped"]
BY DEF CountDrop

\* The rows queued and taken stay those of logged requests if none is forgotten.
LEMMA RowsStay ==
  ASSUME RowsInv, NEW l \in Logs, Logged(l) \subseteq Logged(l)'
  PROVE  /\ queue[l] \in Seq(Logged(l)')
         /\ worker[l].row \in Logged(l)' \cup {"none"}
BY DEF RowsInv

\* RecoverFromPanic, LogRequest and RecordErrors in one lemma: what a step of a
\* request does to the rows.
LEMMA RequestRows ==
  ASSUME RowsInv, NEW q \in Requests, NEW l \in Logs, given' = given, worker' = worker,
         outcome' \in [Requests -> Outcomes], gone' \in [Requests -> BOOLEAN],
         step' \in [Requests -> Steps],
         \/ queue' = queue /\ fate' = fate
         \/ queue' = queue /\ fate' = [fate EXCEPT ![l][q] = "dropped"]
         \/ /\ queue' = [queue EXCEPT ![l] = Append(@, q)]
            /\ fate' = [fate EXCEPT ![l][q] = "queued"]
  PROVE  RowsInv'
<1>1. CASE queue' = queue /\ fate' = fate
  <2>1. \A m : Logged(m)' = Logged(m)
    BY <1>1 DEF Logged
  <2>2. \A m \in Logs : /\ queue[m] \in Seq(Logged(m)')
                        /\ worker[m].row \in Logged(m)' \cup {"none"}
    BY <2>1, RowsStay
  <2> QED
    BY <1>1, <2>2 DEF RowsInv
<1>2. ASSUME NEW f \in {"dropped", "queued"}, fate' = [fate EXCEPT ![l][q] = f]
      PROVE  /\ fate' \in [Logs -> [Requests -> Fates]]
             /\ \A m \in Logs : Logged(m) \subseteq Logged(m)'
             /\ q \in Logged(l)'
  <2>1. f \in Fates \ {"none"}
    BY DEF Fates
  <2>2. fate \in [Logs -> [Requests -> Fates]]
    BY DEF RowsInv
  <2>3. /\ fate' \in [Logs -> [Requests -> Fates]]
        /\ \A m \in Logs, p \in Requests :
             p \in Logged(m)' <=> p \in Logged(m) \/ (m = l /\ p = q)
    BY <1>2, <2>1, <2>2, FateSet
  <2> QED
    BY <2>3 DEF Logged
<1>3. CASE queue' = queue /\ fate' = [fate EXCEPT ![l][q] = "dropped"]
  <2>1. \A m \in Logs : Logged(m) \subseteq Logged(m)'
    BY <1>2, <1>3
  <2>2. \A m \in Logs : /\ queue[m] \in Seq(Logged(m)')
                        /\ worker[m].row \in Logged(m)' \cup {"none"}
    BY <2>1, RowsStay
  <2>3. fate' \in [Logs -> [Requests -> Fates]]
    BY <1>2, <1>3
  <2> QED
    BY <1>3, <2>2, <2>3 DEF RowsInv
<1>4. CASE /\ queue' = [queue EXCEPT ![l] = Append(@, q)]
           /\ fate' = [fate EXCEPT ![l][q] = "queued"]
  <2>1. q \in Logged(l)' /\ \A m \in Logs : Logged(m) \subseteq Logged(m)'
    BY <1>2, <1>4
  <2>2. \A m \in Logs : /\ queue[m] \in Seq(Logged(m)')
                        /\ worker[m].row \in Logged(m)' \cup {"none"}
    BY <2>1, RowsStay
  <2>3. Append(queue[l], q) \in Seq(Requests) /\ Append(queue[l], q) \in Seq(Logged(l)')
    BY <2>1, <2>2 DEF RowsInv
  <2>4. queue' \in [Logs -> Seq(Requests)]
    BY <1>4, <2>3 DEF RowsInv
  <2>5. \A m \in Logs : queue'[m] \in Seq(Logged(m)')
    BY <1>4, <2>2, <2>3 DEF RowsInv
  <2>6. fate' \in [Logs -> [Requests -> Fates]]
    BY <1>2, <1>4
  <2> QED
    BY <1>4, <2>2, <2>4, <2>5, <2>6 DEF RowsInv
<1> QED
  BY <1>1, <1>3, <1>4

LEMMA NextRowsInv == RowsInv /\ [Next]_vars => RowsInv'
<1> SUFFICES ASSUME RowsInv, [Next]_vars
             PROVE  RowsInv'
    OBVIOUS
<1>0. /\ step \in [Requests -> Steps] /\ outcome \in [Requests -> Outcomes]
      /\ gone \in [Requests -> BOOLEAN] /\ "none" \notin Requests
  BY ServerAssumption DEF RowsInv
<1>1. CASE UNCHANGED <<given, requests, logs>>
  BY <1>1 DEF requests, logs, RowsInv, Logged
<1>2. ASSUME NEW q \in Requests, Arrive(q) \/ RequireAuthN(q) \/ HangUp(q) \/ Handle(q)
      PROVE  RowsInv'
  <2>1. UNCHANGED <<given, worker, queue, fate>>
    BY <1>2 DEF Arrive, RequireAuthN, HangUp, Handle, logs
  <2>2. /\ step' = step \/ \E s \in Steps : step' = [step EXCEPT ![q] = s]
        /\ outcome' = outcome \/ \E o \in Outcomes : outcome' = [outcome EXCEPT ![q] = o]
        /\ gone' = gone \/ gone' = [gone EXCEPT ![q] = TRUE]
    BY <1>2 DEF Arrive, RequireAuthN, HangUp, Handle, Goto, Ends, Steps, Outcomes
  <2>3. /\ step' \in [Requests -> Steps] /\ outcome' \in [Requests -> Outcomes]
        /\ gone' \in [Requests -> BOOLEAN]
    BY <1>0, <2>2
  <2> QED
    BY <2>1, <2>3, RequestRows DEF Logs
<1>3. ASSUME NEW q \in Requests, LogAction(q)
      PROVE  RowsInv'
  <2>1. /\ UNCHANGED <<given, worker, outcome, gone>>
        /\ "recordErrors" \in Steps /\ "dropAction" \in Steps
    BY <1>3 DEF LogAction, Steps
  <2>2. CASE Offer("action", q, "recordErrors", "dropAction")
    BY <1>0, <2>1, <2>2, OfferCases, RequestRows DEF Logs
  <2>3. CASE CountDrop("action", q) /\ Goto(q, "recordErrors") /\ UNCHANGED queue
    BY <1>0, <2>1, <2>3, DropCases, RequestRows DEF Logs, Goto
  <2> QED
    BY <1>3, <2>2, <2>3 DEF LogAction
<1>4. ASSUME NEW q \in Requests, RecordErrors(q)
      PROVE  RowsInv'
  <2>1. /\ UNCHANGED <<given, worker, outcome, gone>>
        /\ "done" \in Steps /\ "dropError" \in Steps
    BY <1>4 DEF RecordErrors, Steps
  <2>2. CASE Offer("error", q, "done", "dropError")
    BY <1>0, <2>1, <2>2, OfferCases, RequestRows DEF Logs
  <2>3. CASE Goto(q, "done") /\ UNCHANGED <<queue, fate>>
    BY <1>0, <2>1, <2>3, RequestRows DEF Logs, Goto
  <2>4. CASE CountDrop("error", q) /\ Goto(q, "done") /\ UNCHANGED queue
    BY <1>0, <2>1, <2>4, DropCases, RequestRows DEF Logs, Goto
  <2> QED
    BY <1>4, <2>2, <2>3, <2>4 DEF RecordErrors
<1>5. ASSUME NEW l \in Logs, TakeRow(l)
      PROVE  RowsInv'
  <2>1. /\ UNCHANGED <<given, step, outcome, gone>> /\ queue[l] # <<>>
        /\ worker' = [worker EXCEPT ![l] = [row |-> Head(queue[l]), written |-> FALSE]]
        /\ queue' = [queue EXCEPT ![l] = Tail(@)]
        /\ fate' = [fate EXCEPT ![l][Head(queue[l])] = "taken"]
    BY <1>5 DEF TakeRow, requests
  <2>2. /\ Head(queue[l]) \in Logged(l) /\ Tail(queue[l]) \in Seq(Logged(l))
        /\ Head(queue[l]) \in Requests /\ Tail(queue[l]) \in Seq(Requests)
    BY <2>1 DEF RowsInv
  <2>3. /\ fate' \in [Logs -> [Requests -> Fates]]
        /\ \A m \in Logs, q \in Requests :
             q \in Logged(m)' <=> q \in Logged(m) \/ (m = l /\ q = Head(queue[l]))
    BY <2>1, FateSet DEF RowsInv, Fates
  <2>4. \A m \in Logs : Logged(m)' = Logged(m)
    BY <2>2, <2>3 DEF Logged
  <2>5. queue' \in [Logs -> Seq(Requests)] /\ \A m \in Logs : queue'[m] \in Seq(Logged(m))
    BY <2>1, <2>2 DEF RowsInv
  <2>6. /\ worker' \in [Logs -> [row : Requests \cup {"none"}, written : BOOLEAN]]
        /\ \A m \in Logs : worker'[m].row \in Logged(m) \cup {"none"}
    BY <2>1, <2>2 DEF RowsInv
  <2> QED
    BY <2>1, <2>3, <2>4, <2>5, <2>6 DEF RowsInv
<1>6. ASSUME NEW l \in Logs, WriteRow(l)
      PROVE  RowsInv'
  <2>1. /\ UNCHANGED <<given, step, outcome, gone, queue>>
        /\ worker' = [worker EXCEPT ![l].written = TRUE]
        /\ \E f \in {"stored", "unwritten"} : fate' = [fate EXCEPT ![l][worker[l].row] = f]
    BY <1>6 DEF WriteRow, requests
  <2>2. /\ fate' \in [Logs -> [Requests -> Fates]]
        /\ \A m \in Logs, q \in Requests :
             q \in Logged(m)' <=> q \in Logged(m) \/ (m = l /\ q = worker[l].row)
    <3>1. PICK f \in {"stored", "unwritten"} : fate' = [fate EXCEPT ![l][worker[l].row] = f]
      BY <2>1
    <3>2. f \in Fates \ {"none"}
      BY DEF Fates
    <3> QED
      BY <3>1, <3>2, FateSet DEF RowsInv
  <2>3. \A m \in Logs : Logged(m)' = Logged(m)
    <3>1. ASSUME NEW m \in Logs, NEW q \in Requests
          PROVE  q \in Logged(m)' <=> q \in Logged(m)
      <4>1. worker[m].row \in Logged(m) \cup {"none"}
        BY DEF RowsInv
      <4>2. q = worker[m].row => q \in Logged(m)
        BY <1>0, <4>1
      <4> QED
        BY <2>2, <4>2
    <3>2. \A m \in Logs : Logged(m) \subseteq Requests /\ Logged(m)' \subseteq Requests
      BY DEF Logged
    <3> QED
      BY <3>1, <3>2
  <2>4. /\ worker' \in [Logs -> [row : Requests \cup {"none"}, written : BOOLEAN]]
        /\ \A m \in Logs : worker'[m].row = worker[m].row
    <3>1. worker \in [Logs -> [row : Requests \cup {"none"}, written : BOOLEAN]]
      BY DEF RowsInv
    <3>2. worker[l] \in [row : Requests \cup {"none"}, written : BOOLEAN]
      BY <3>1
    <3>3. worker' = [worker EXCEPT ![l] = [worker[l] EXCEPT !.written = TRUE]]
      BY <2>1, <3>1
    <3>4. /\ [worker[l] EXCEPT !.written = TRUE] \in [row : Requests \cup {"none"}, written : BOOLEAN]
          /\ [worker[l] EXCEPT !.written = TRUE].row = worker[l].row
      BY <3>2
    <3> QED
      BY <3>1, <3>3, <3>4
  <2> QED
    BY <2>1, <2>2, <2>3, <2>4 DEF RowsInv
<1>7. ASSUME NEW l \in Logs, ReportDrops(l)
      PROVE  RowsInv'
  <2>1. /\ UNCHANGED <<given, step, outcome, gone, queue, fate>>
        /\ worker' = [worker EXCEPT ![l] = Idle]
    BY <1>7 DEF ReportDrops, requests
  <2>2. /\ worker' \in [Logs -> [row : Requests \cup {"none"}, written : BOOLEAN]]
        /\ \A m \in Logs : worker'[m].row \in Logged(m) \cup {"none"}
    BY <2>1 DEF RowsInv, Idle
  <2> QED
    BY <2>1, <2>2 DEF RowsInv, Logged
<1>8. CASE Exit
  <2>1. /\ UNCHANGED <<given, step, outcome, gone>>
        /\ queue' = [l \in Logs |-> <<>>] /\ worker' = [l \in Logs |-> Idle]
        /\ fate' = [l \in Logs |-> [q \in Requests |->
             IF fate[l][q] \in {"queued", "taken"} THEN "lost" ELSE fate[l][q]]]
    BY <1>8 DEF Exit, requests
  <2>2. fate' \in [Logs -> [Requests -> Fates]]
    BY <2>1 DEF RowsInv, Fates
  <2>3. worker' \in [Logs -> [row : Requests \cup {"none"}, written : BOOLEAN]]
    BY <2>1 DEF Idle
  <2>4. \A m \in Logs : worker'[m].row = "none" /\ queue'[m] = <<>>
    BY <2>1 DEF Idle
  <2> QED
    BY <2>1, <2>2, <2>3, <2>4 DEF RowsInv
<1>9. ASSUME NEW s \in Servers, \/ Boot(s) \/ CheckVersion(s) \/ RunStatement(s)
                                \/ VerifyVersion(s) \/ KilledEarly(s)
      PROVE  UNCHANGED <<given, requests, logs>>
  BY <1>9 DEF Boot, CheckVersion, RunStatement, VerifyVersion, KilledEarly
<1>10. Signal \/ UNCHANGED vars => UNCHANGED <<given, requests, logs>>
  BY DEF Signal, vars
<1> QED
  BY <1>1, <1>2, <1>3, <1>4, <1>5, <1>6, <1>7, <1>8, <1>9, <1>10, StepCases, Zenon

\* What StepInv says of one request.
Placed(q) ==
  /\ step[q] \in {"handle", "logAction", "dropAction"} => Token(q)
  /\ step[q] \in {"logAction", "dropAction"} => given.ask[q].logAction /\ outcome[q] # "panic"
  /\ step[q] \notin {"recordErrors", "dropError", "done"} => q \notin Logged("action")
  /\ step[q] \in {"recordErrors", "dropError", "done"} => (q \in Logged("action") <=> Wanted(q))
  /\ step[q] # "done" => q \notin Logged("error")
  /\ step[q] = "dropError" => ServerFault(q)
  /\ step[q] = "done" => (q \in Logged("error") <=> ServerFault(q))

\* A request is where it was if nothing of its own has changed.
LEMMA PlacedStays ==
  ASSUME NEW q \in Requests, Placed(q), given' = given,
         step'[q] = step[q], outcome'[q] = outcome[q], gone'[q] = gone[q],
         \A l \in Logs : q \in Logged(l)' <=> q \in Logged(l)
  PROVE  Placed(q)'
<1>1. (ServerFault(q)' <=> ServerFault(q)) /\ (Wanted(q)' <=> Wanted(q)) /\ (Token(q)' <=> Token(q))
  BY DEF ServerFault, Wanted, Token
<1>2. /\ q \in Logged("action")' <=> q \in Logged("action")
      /\ q \in Logged("error")' <=> q \in Logged("error")
  BY DEF Logs
<1> QED
  BY <1>1, <1>2 DEF Placed

LEMMA NextStepInv == RowsInv /\ StepInv /\ [Next]_vars => StepInv'
<1> SUFFICES ASSUME RowsInv, StepInv, [Next]_vars
             PROVE  StepInv'
    OBVIOUS
<1>0. /\ DOMAIN step = Requests /\ DOMAIN outcome = Requests /\ DOMAIN gone = Requests
      /\ fate \in [Logs -> [Requests -> Fates]] /\ "none" \notin Requests
      /\ "action" \in Logs /\ "error" \in Logs
  BY ServerAssumption DEF RowsInv, Logs
<1>1. \A q \in Requests : Placed(q)
  BY DEF StepInv, Placed
<1>2. (\A q \in Requests : Placed(q)') => StepInv'
  BY DEF StepInv, Placed
\* The steps that change neither the requests nor whether they are logged.
<1>3. ASSUME given' = given, UNCHANGED requests,
             \A l \in Logs, q \in Requests : q \in Logged(l)' <=> q \in Logged(l)
      PROVE  StepInv'
  BY <1>1, <1>2, <1>3, PlacedStays DEF requests
\* The steps of one request.
<1>4. ASSUME NEW q \in Requests, given' = given, Placed(q)',
             \A p \in Requests \ {q} :
               /\ step'[p] = step[p] /\ outcome'[p] = outcome[p] /\ gone'[p] = gone[p]
               /\ \A l \in Logs : p \in Logged(l)' <=> p \in Logged(l)
      PROVE  StepInv'
  <2>1. ASSUME NEW p \in Requests \ {q}
        PROVE  Placed(p)'
    BY <1>1, <1>4, PlacedStays
  <2> QED
    BY <1>2, <1>4, <2>1
<1>5. ASSUME NEW q \in Requests, Arrive(q) \/ RequireAuthN(q) \/ HangUp(q) \/ Handle(q)
      PROVE  StepInv'
  <2>1. given' = given /\ fate' = fate
    BY <1>5 DEF Arrive, RequireAuthN, HangUp, Handle, logs
  <2>2. \A l : Logged(l)' = Logged(l)
    BY <2>1 DEF Logged
  <2>3. \A p \in Requests \ {q} :
          step'[p] = step[p] /\ outcome'[p] = outcome[p] /\ gone'[p] = gone[p]
    <3>1. /\ step' = step \/ \E x : step' = [step EXCEPT ![q] = x]
          /\ outcome' = outcome \/ \E x : outcome' = [outcome EXCEPT ![q] = x]
          /\ gone' = gone \/ gone' = [gone EXCEPT ![q] = TRUE]
      BY <1>5 DEF Arrive, RequireAuthN, HangUp, Handle, Goto, Ends
    <3> QED
      BY <1>0, <3>1
  <2>4. (Token(q)' <=> Token(q)) /\ given'.ask[q] = given.ask[q]
    BY <2>1 DEF Token
  <2>5. ASSUME Arrive(q)
        PROVE  Placed(q)'
    BY <1>0, <1>1, <2>2, <2>4, <2>5 DEF Arrive, Goto, Placed
  <2>6. ASSUME RequireAuthN(q)
        PROVE  Placed(q)'
    <3>1. /\ step[q] = "authn"
          /\ \/ Token(q) /\ step'[q] = "handle"
             \/ ~Token(q) /\ step'[q] = "recordErrors"
      BY <1>0, <2>6 DEF RequireAuthN, Goto, Token
    <3> QED
      BY <1>1, <2>2, <2>4, <3>1 DEF Placed, Wanted
  <2>7. ASSUME HangUp(q)
        PROVE  Placed(q)'
    <3>1. /\ step[q] \in {"authn", "handle", "logAction", "dropAction", "recordErrors"}
          /\ step' = step /\ outcome' = outcome
      BY <2>7 DEF HangUp
    <3>2. Wanted(q)' <=> Wanted(q)
      BY <2>4, <3>1 DEF Wanted
    <3> QED
      BY <1>1, <2>2, <2>4, <3>1, <3>2 DEF Placed
  <2>8. ASSUME Handle(q)
        PROVE  Placed(q)'
    <3>1. /\ step[q] = "handle"
          /\ \/ /\ step'[q] = "logAction" /\ given.ask[q].logAction /\ outcome'[q] # "panic"
             \/ /\ step'[q] = "recordErrors" /\ ~(given.ask[q].logAction /\ outcome'[q] # "panic")
      <4>1. PICK o \in {"success", "refused", "failed", "cancelled", "panic"} :
              /\ step[q] = "handle"
              /\ Ends(q, o)
              /\ Goto(q, IF given.ask[q].logAction /\ o # "panic" THEN "logAction"
                                                                  ELSE "recordErrors")
        BY <2>8 DEF Handle
      <4> QED
        BY <1>0, <4>1 DEF Ends, Goto
    <3> QED
      BY <1>1, <2>2, <2>4, <3>1 DEF Placed, Wanted
  <2> QED
    BY <1>4, <1>5, <2>1, <2>2, <2>3, <2>5, <2>6, <2>7, <2>8
<1>6. ASSUME NEW q \in Requests, LogAction(q)
      PROVE  StepInv'
  <2>1. /\ given' = given /\ outcome' = outcome /\ gone' = gone
        /\ step[q] \in {"logAction", "dropAction"}
    BY <1>6 DEF LogAction
  <2>2. /\ Wanted(q) /\ (Wanted(q)' <=> Wanted(q)) /\ (Token(q)' <=> Token(q))
        /\ q \notin Logged("error")
    BY <1>1, <2>1 DEF Placed, Wanted, Token
  <2>3. CASE /\ step' = [step EXCEPT ![q] = "recordErrors"]
             /\ \E f \in {"queued", "dropped"} : fate' = [fate EXCEPT !["action"][q] = f]
    <3>1. \A m \in Logs, p \in Requests :
            p \in Logged(m)' <=> p \in Logged(m) \/ (m = "action" /\ p = q)
      <4>1. PICK f \in {"queued", "dropped"} : fate' = [fate EXCEPT !["action"][q] = f]
        BY <2>3
      <4>2. f \in Fates \ {"none"}
        BY DEF Fates
      <4> QED
        BY <1>0, <4>1, <4>2, FateSet
    <3>2. Placed(q)'
      BY <1>0, <2>2, <2>3, <3>1 DEF Placed
    <3> QED
      BY <1>4, <2>1, <2>3, <3>1, <3>2
  <2>4. CASE /\ step' = [step EXCEPT ![q] = "dropAction"] /\ fate' = fate
    <3>1. \A m : Logged(m)' = Logged(m)
      BY <2>4 DEF Logged
    <3>2. Placed(q)'
      BY <1>0, <1>1, <2>1, <2>2, <2>4, <3>1 DEF Placed
    <3> QED
      BY <1>4, <2>1, <2>4, <3>1, <3>2
  <2> QED
    <3>1. CASE Offer("action", q, "recordErrors", "dropAction")
      BY <1>0, <2>3, <2>4, <3>1, OfferCases
    <3>2. CASE CountDrop("action", q) /\ Goto(q, "recordErrors")
      BY <2>3, <3>2, DropCases DEF Goto
    <3> QED
      BY <1>6, <3>1, <3>2 DEF LogAction
<1>7. ASSUME NEW q \in Requests, RecordErrors(q)
      PROVE  StepInv'
  <2>1. /\ given' = given /\ outcome' = outcome /\ gone' = gone
        /\ step[q] \in {"recordErrors", "dropError"}
    BY <1>7 DEF RecordErrors
  <2>2. /\ (Wanted(q)' <=> Wanted(q)) /\ (ServerFault(q)' <=> ServerFault(q))
        /\ (q \in Logged("action") <=> Wanted(q)) /\ q \notin Logged("error")
    BY <1>1, <2>1 DEF Placed, Wanted, Token, ServerFault
  <2>3. CASE /\ ServerFault(q) /\ step' = [step EXCEPT ![q] = "done"]
             /\ \E f \in {"queued", "dropped"} : fate' = [fate EXCEPT !["error"][q] = f]
    <3>1. \A m \in Logs, p \in Requests :
            p \in Logged(m)' <=> p \in Logged(m) \/ (m = "error" /\ p = q)
      <4>1. PICK f \in {"queued", "dropped"} : fate' = [fate EXCEPT !["error"][q] = f]
        BY <2>3
      <4>2. f \in Fates \ {"none"}
        BY DEF Fates
      <4> QED
        BY <1>0, <4>1, <4>2, FateSet
    <3>2. Placed(q)'
      BY <1>0, <2>2, <2>3, <3>1 DEF Placed
    <3> QED
      BY <1>4, <2>1, <2>3, <3>1, <3>2
  <2>4. CASE /\ fate' = fate
             /\ \/ ~ServerFault(q) /\ step' = [step EXCEPT ![q] = "done"]
                \/ ServerFault(q) /\ step' = [step EXCEPT ![q] = "dropError"]
    <3>1. \A m : Logged(m)' = Logged(m)
      BY <2>4 DEF Logged
    <3>2. Placed(q)'
      BY <1>0, <2>2, <2>4, <3>1 DEF Placed
    <3>3. \A p \in Requests \ {q} : step'[p] = step[p]
      BY <1>0, <2>4
    <3> QED
      BY <1>4, <2>1, <3>1, <3>2, <3>3
  <2> QED
    <3>1. CASE ServerFault(q) /\ Offer("error", q, "done", "dropError")
      BY <1>0, <2>3, <2>4, <3>1, OfferCases
    <3>2. CASE ~ServerFault(q) /\ Goto(q, "done") /\ UNCHANGED <<queue, fate>>
      BY <2>4, <3>2 DEF Goto
    <3>3. CASE step[q] = "dropError" /\ CountDrop("error", q) /\ Goto(q, "done")
      <4>1. ServerFault(q)
        BY <1>1, <3>3 DEF Placed
      <4> QED
        BY <2>3, <3>3, <4>1, DropCases DEF Goto
    <3> QED
      BY <1>7, <3>1, <3>2, <3>3 DEF RecordErrors
<1>8. ASSUME NEW l \in Logs, TakeRow(l)
      PROVE  StepInv'
  <2>1. /\ given' = given /\ UNCHANGED requests /\ queue[l] # <<>>
        /\ fate' = [fate EXCEPT ![l][Head(queue[l])] = "taken"]
    BY <1>8 DEF TakeRow
  <2>2. Head(queue[l]) \in Logged(l)
    BY <2>1 DEF RowsInv
  <2>3. "taken" \in Fates \ {"none"}
    BY DEF Fates
  <2>4. \A m \in Logs, q \in Requests :
          q \in Logged(m)' <=> q \in Logged(m) \/ (m = l /\ q = Head(queue[l]))
    BY <1>0, <2>1, <2>3, FateSet
  <2>5. \A m \in Logs, q \in Requests : q \in Logged(m)' <=> q \in Logged(m)
    BY <2>2, <2>4
  <2> QED
    BY <1>3, <2>1, <2>5
<1>9. ASSUME NEW l \in Logs, WriteRow(l)
      PROVE  StepInv'
  <2>1. PICK f \in {"stored", "unwritten"} :
          /\ given' = given /\ UNCHANGED requests
          /\ fate' = [fate EXCEPT ![l][worker[l].row] = f]
    BY <1>9 DEF WriteRow
  <2>2. worker[l].row \in Logged(l) \cup {"none"}
    BY DEF RowsInv
  <2>3. f \in Fates \ {"none"}
    BY DEF Fates
  <2>4. \A m \in Logs, q \in Requests :
          q \in Logged(m)' <=> q \in Logged(m) \/ (m = l /\ q = worker[l].row)
    BY <1>0, <2>1, <2>3, FateSet
  <2> QED
    BY <1>0, <1>3, <2>1, <2>2, <2>4
<1>10. ASSUME NEW l \in Logs, ReportDrops(l)
       PROVE  StepInv'
  <2>1. given' = given /\ UNCHANGED requests /\ fate' = fate
    BY <1>10 DEF ReportDrops
  <2> QED
    BY <1>3, <2>1 DEF Logged
<1>11. CASE Exit
  <2>1. /\ given' = given /\ UNCHANGED requests
        /\ fate' = [l \in Logs |-> [q \in Requests |->
             IF fate[l][q] \in {"queued", "taken"} THEN "lost" ELSE fate[l][q]]]
    BY <1>11 DEF Exit
  <2>2. \A l \in Logs, q \in Requests : fate'[l][q] # "none" <=> fate[l][q] # "none"
    BY <2>1
  <2> QED
    BY <1>3, <2>1, <2>2 DEF Logged
<1>12. CASE UNCHANGED <<given, requests, logs>>
  BY <1>3, <1>12 DEF logs, Logged
<1>13. ASSUME NEW s \in Servers, \/ Boot(s) \/ CheckVersion(s) \/ RunStatement(s)
                                 \/ VerifyVersion(s) \/ KilledEarly(s)
       PROVE  UNCHANGED <<given, requests, logs>>
  BY <1>13 DEF Boot, CheckVersion, RunStatement, VerifyVersion, KilledEarly
<1>14. Signal \/ UNCHANGED vars => UNCHANGED <<given, requests, logs>>
  BY DEF Signal, vars
<1> QED
  BY <1>5, <1>6, <1>7, <1>8, <1>9, <1>10, <1>11, <1>12, <1>13, <1>14, StepCases, Zenon

\* What a step of a server that starts does to Main, if Main is past that.
LEMMA StartingSteps ==
  ASSUME NEW s \in Servers, phase \in [Servers -> Phases],
         Boot(s) \/ CheckVersion(s) \/ RunStatement(s) \/ VerifyVersion(s) \/ KilledEarly(s)
  PROVE  /\ UNCHANGED <<given, requests, logs>>
         /\ phase[s] \in {"off", "check", "run"}
         /\ phase' \in [Servers -> Phases]
         /\ \A t \in Servers \ {s} : phase'[t] = phase[t]
<1>1. UNCHANGED <<given, requests, logs>> /\ phase[s] \in {"off", "check", "run"}
  BY DEF Boot, CheckVersion, RunStatement, VerifyVersion, KilledEarly
<1>2. phase' = phase \/ \E x \in Phases : phase' = [phase EXCEPT ![s] = x]
  <2>1. CASE Boot(s) \/ RunStatement(s)
    BY <2>1 DEF Boot, RunStatement, Fails, Phases
  <2>2. CASE CheckVersion(s)
    BY <2>2 DEF CheckVersion, Fails, Done, Migrates, Phases
  <2>3. CASE VerifyVersion(s) \/ KilledEarly(s)
    BY <2>3 DEF VerifyVersion, KilledEarly, Fails, Done, Phases
  <2> QED
    BY <2>1, <2>2, <2>3
<1> QED
  BY <1>1, <1>2

LEMMA NextDropInv == RowsInv /\ DropInv /\ [Next]_vars => DropInv'
<1> SUFFICES ASSUME RowsInv, DropInv, [Next]_vars
             PROVE  DropInv'
    OBVIOUS
<1>0. /\ Main \in Servers /\ "none" \notin Requests
      /\ DOMAIN worker = Logs /\ DOMAIN queue = Logs
      /\ phase \in [Servers -> Phases] /\ dropped \in [Logs -> Nat] /\ late \in [Logs -> BOOLEAN]
  BY ServerAssumption DEF RowsInv, DropInv
\* A request that fails to send, or that is sent, while Main runs.
<1>1. ASSUME NEW q \in Requests, NEW l \in Logs, Running, phase' = phase, worker' = worker,
             \/ queue' = queue /\ UNCHANGED <<dropped, late>>
             \/ queue' = [queue EXCEPT ![l] = Append(@, q)] /\ UNCHANGED <<dropped, late>>
             \/ /\ queue' = queue
                /\ dropped' = [dropped EXCEPT ![l] = @ + 1]
                /\ late' = [late EXCEPT ![l] = @ \/ (queue[l] = <<>> /\ worker[l] = Idle)]
      PROVE  DropInv'
  <2>1. phase[Main] \notin {"off", "check", "run"}
    BY <1>1 DEF Running, Serving
  <2>2. CASE queue' = queue /\ UNCHANGED <<dropped, late>>
    BY <1>1, <2>2 DEF DropInv, Running, Serving
  <2>3. CASE queue' = [queue EXCEPT ![l] = Append(@, q)] /\ UNCHANGED <<dropped, late>>
    <3>1. queue'[l] # <<>> /\ \A m \in Logs \ {l} : queue'[m] = queue[m]
      <4>1. queue[l] \in Seq(Requests)
        BY DEF RowsInv
      <4>2. Len(Append(queue[l], q)) = Len(queue[l]) + 1 /\ Len(queue[l]) \in Nat
        BY <4>1
      <4>3. Append(queue[l], q) # <<>>
        BY <4>2
      <4> QED
        BY <1>0, <2>3, <4>3
    <3> QED
      BY <1>1, <2>3, <3>1 DEF DropInv, Running, Serving
  <2>4. CASE /\ queue' = queue
             /\ dropped' = [dropped EXCEPT ![l] = @ + 1]
             /\ late' = [late EXCEPT ![l] = @ \/ (queue[l] = <<>> /\ worker[l] = Idle)]
    <3>1. dropped' \in [Logs -> Nat] /\ late' \in [Logs -> BOOLEAN]
      BY <1>0, <2>4
    <3>2. queue'[l] = <<>> /\ worker'[l] = Idle => late'[l]
      BY <1>0, <1>1, <2>4
    <3>3. \A m \in Logs \ {l} : dropped'[m] = dropped[m] /\ late'[m] = late[m]
      BY <1>0, <2>4
    <3> QED
      BY <1>0, <1>1, <2>1, <2>4, <3>1, <3>2, <3>3 DEF DropInv, Running, Serving
  <2> QED
    BY <1>1, <2>2, <2>3, <2>4
<1>2. ASSUME NEW q \in Requests,
             Arrive(q) \/ (Running /\ (RequireAuthN(q) \/ HangUp(q) \/ Handle(q)))
      PROVE  DropInv'
  <2>1. UNCHANGED <<phase, logs>>
    BY <1>2 DEF Arrive, RequireAuthN, HangUp, Handle, servers
  <2> QED
    BY <2>1 DEF DropInv, logs, Running, Serving
<1>3. ASSUME NEW q \in Requests, Running, LogAction(q)
      PROVE  DropInv'
  <2>1. phase' = phase /\ worker' = worker
    BY <1>3 DEF LogAction, servers
  <2>2. CASE Offer("action", q, "recordErrors", "dropAction") /\ UNCHANGED <<dropped, late>>
    BY <1>1, <1>3, <2>1, <2>2, OfferCases DEF Logs
  <2>3. CASE CountDrop("action", q) /\ queue' = queue
    BY <1>1, <1>3, <2>1, <2>3, DropCases DEF Logs
  <2> QED
    BY <1>3, <2>2, <2>3 DEF LogAction
<1>4. ASSUME NEW q \in Requests, Running, RecordErrors(q)
      PROVE  DropInv'
  <2>1. phase' = phase /\ worker' = worker
    BY <1>4 DEF RecordErrors, servers
  <2>2. CASE Offer("error", q, "done", "dropError") /\ UNCHANGED <<dropped, late>>
    BY <1>1, <1>4, <2>1, <2>2, OfferCases DEF Logs
  <2>3. CASE UNCHANGED <<queue, dropped, late>>
    BY <1>1, <1>4, <2>1, <2>3 DEF Logs
  <2>4. CASE CountDrop("error", q) /\ queue' = queue
    BY <1>1, <1>4, <2>1, <2>4, DropCases DEF Logs
  <2> QED
    BY <1>4, <2>2, <2>3, <2>4 DEF RecordErrors
<1>5. ASSUME NEW l \in Logs, TakeRow(l)
      PROVE  DropInv'
  <2>1. /\ Running /\ UNCHANGED <<phase, dropped, late>> /\ queue[l] # <<>>
        /\ worker' = [worker EXCEPT ![l] = [row |-> Head(queue[l]), written |-> FALSE]]
        /\ queue' = [queue EXCEPT ![l] = Tail(@)]
    BY <1>5 DEF TakeRow, servers
  <2>2. Head(queue[l]) \in Requests
    BY <2>1 DEF RowsInv
  <2>3. worker'[l].row # "none"
    BY <1>0, <2>1, <2>2
  <2>4. worker'[l] # Idle
    BY <2>3 DEF Idle
  <2>5. \A m \in Logs \ {l} : worker'[m] = worker[m] /\ queue'[m] = queue[m]
    BY <1>0, <2>1
  <2> QED
    BY <2>1, <2>4, <2>5 DEF DropInv, Running, Serving
<1>6. ASSUME NEW l \in Logs, WriteRow(l)
      PROVE  DropInv'
  <2>1. /\ Running /\ UNCHANGED <<phase, queue, dropped, late>>
        /\ worker' = [worker EXCEPT ![l].written = TRUE]
    BY <1>6 DEF WriteRow, servers
  <2>2. worker[l] \in [row : Requests \cup {"none"}, written : BOOLEAN]
    BY DEF RowsInv
  <2>3. worker'[l] = [worker[l] EXCEPT !.written = TRUE]
    BY <1>0, <2>1
  <2>4. worker'[l].written
    BY <2>2, <2>3
  <2>5. worker'[l] # Idle
    BY <2>4 DEF Idle
  <2>6. \A m \in Logs \ {l} : worker'[m] = worker[m]
    BY <1>0, <2>1
  <2> QED
    BY <2>1, <2>5, <2>6 DEF DropInv, Running, Serving
<1>7. ASSUME NEW l \in Logs, ReportDrops(l)
      PROVE  DropInv'
  <2>1. /\ Running /\ UNCHANGED <<phase, queue>>
        /\ worker' = [worker EXCEPT ![l] = Idle]
        /\ dropped' = [dropped EXCEPT ![l] = 0] /\ late' = [late EXCEPT ![l] = FALSE]
    BY <1>7 DEF ReportDrops, servers
  <2>2. /\ dropped' \in [Logs -> Nat] /\ late' \in [Logs -> BOOLEAN] /\ dropped'[l] = 0
    BY <1>0, <2>1
  <2>3. \A m \in Logs \ {l} :
          worker'[m] = worker[m] /\ dropped'[m] = dropped[m] /\ late'[m] = late[m]
    BY <1>0, <2>1
  <2> QED
    BY <2>1, <2>2, <2>3 DEF DropInv, Running, Serving
<1>8. ASSUME NEW s \in Servers, \/ Boot(s) \/ CheckVersion(s) \/ RunStatement(s)
                                \/ VerifyVersion(s) \/ KilledEarly(s)
      PROVE  DropInv'
  <2>1. /\ UNCHANGED <<queue, worker, dropped, late>>
        /\ phase[s] \in {"off", "check", "run"} /\ phase' \in [Servers -> Phases]
        /\ \A t \in Servers \ {s} : phase'[t] = phase[t]
    BY <1>0, <1>8, StartingSteps DEF logs
  <2>2. phase'[Main] = phase[Main] \/ \A l \in Logs : dropped[l] = 0
    BY <1>0, <2>1 DEF DropInv
  <2> QED
    BY <2>1, <2>2 DEF DropInv, Running, Serving
<1>9. CASE Signal
  <2>1. /\ Serving(Main) /\ UNCHANGED <<queue, worker, dropped, late>>
        /\ phase' = [phase EXCEPT ![Main] = "closing"]
    BY <1>9 DEF Signal, logs
  <2>2. phase' \in [Servers -> Phases] /\ phase'[Main] = "closing"
    BY <1>0, <2>1 DEF Phases
  <2> QED
    BY <2>1, <2>2 DEF DropInv, Running, Serving
<1>10. CASE Exit
  <2>1. UNCHANGED <<dropped, late>> /\ phase' = [phase EXCEPT ![Main] = "down"]
    BY <1>10 DEF Exit
  <2>2. phase' \in [Servers -> Phases] /\ phase'[Main] = "down"
    BY <1>0, <2>1 DEF Phases
  <2> QED
    BY <2>1, <2>2 DEF DropInv, Running, Serving
<1>11. CASE UNCHANGED vars
  BY <1>11 DEF vars, servers, logs, DropInv, Running, Serving
<1> QED
  BY <1>2, <1>3, <1>4, <1>5, <1>6, <1>7, <1>8, <1>9, <1>10, <1>11, StepCases, Zenon

LEMMA InitLogInv == Init => RowsInv /\ StepInv /\ DropInv
<1> SUFFICES ASSUME Init
             PROVE  RowsInv /\ StepInv /\ DropInv
    OBVIOUS
<1>1. /\ given \in Scenarios
      /\ step = [q \in Requests |-> "new"] /\ outcome = [q \in Requests |-> "none"]
      /\ gone = [q \in Requests |-> FALSE]
      /\ queue = [l \in Logs |-> <<>>] /\ worker = [l \in Logs |-> Idle]
      /\ fate = [l \in Logs |-> [q \in Requests |-> "none"]]
  BY DEF Init
<1>2. RowsInv
  <2>1. step \in [Requests -> Steps] /\ outcome \in [Requests -> Outcomes]
    BY <1>1 DEF Steps, Outcomes
  <2>2. fate \in [Logs -> [Requests -> Fates]]
    BY <1>1 DEF Fates
  <2>3. /\ worker \in [Logs -> [row : Requests \cup {"none"}, written : BOOLEAN]]
        /\ \A l \in Logs : worker[l].row = "none"
    BY <1>1 DEF Idle
  <2> QED
    BY <1>1, <2>1, <2>2, <2>3 DEF RowsInv
<1>3. \A q \in Requests, l \in Logs : step[q] = "new" /\ q \notin Logged(l)
  BY <1>1 DEF Logged
<1>4. StepInv
  BY <1>3 DEF StepInv, Logs
<1>5. DropInv
  <2>1. phase \in [Servers -> Phases]
    BY DEF Init, Phases
  <2>2. dropped = [l \in Logs |-> 0] /\ late = [l \in Logs |-> FALSE]
    BY DEF Init
  <2> QED
    BY <2>1, <2>2 DEF DropInv
<1> QED
  BY <1>2, <1>4, <1>5

\* Every failure of the server is on its way to the error log or counted as dropped,
\* and every request of a known sender that did not panic to the action log: however
\* requests, hang-ups, full queues and the two steps of a drop interleave.
THEOREM FailuresReachTheLog == Spec => []FailuresAreLogged
<1>1. Init => LogInv
  BY InitLogInv DEF LogInv
<1>2. LogInv /\ [Next]_vars => LogInv'
  BY NextRowsInv, NextStepInv DEF LogInv
<1>3. LogInv => FailuresAreLogged
  <2> SUFFICES ASSUME LogInv, NEW q \in Requests, step[q] = "done"
               PROVE  /\ (fate["error"][q] # "none") =
                           \/ outcome[q] \in {"failed", "panic"}
                           \/ outcome[q] = "cancelled" /\ ~gone[q]
                      /\ (fate["action"][q] # "none") =
                           (given.ask[q].token /\ given.ask[q].logAction /\ outcome[q] # "panic")
      BY DEF FailuresAreLogged
  <2>1. /\ q \in Logged("error") <=> ServerFault(q)
        /\ q \in Logged("action") <=> Wanted(q)
    BY DEF LogInv, StepInv
  <2>2. /\ q \in Logged("error") <=> fate["error"][q] # "none"
        /\ q \in Logged("action") <=> fate["action"][q] # "none"
    BY DEF Logged
  <2>3. ServerFault(q) <=> \/ outcome[q] \in {"failed", "panic"}
                           \/ outcome[q] = "cancelled" /\ ~gone[q]
    BY DEF ServerFault
  <2>4. /\ given.ask \in [Requests -> [token : BOOLEAN, logAction : BOOLEAN]]
        /\ gone[q] \in BOOLEAN
    BY ServerAssumption DEF LogInv, RowsInv
  <2>5. given.ask[q].token \in BOOLEAN /\ given.ask[q].logAction \in BOOLEAN
    BY <2>4
  <2> QED
    BY <2>1, <2>2, <2>3, <2>4, <2>5 DEF Wanted, Token
<1> QED
  BY <1>1, <1>2, <1>3, PTL DEF Spec

\* A worker does not rest with drops unreported, except for the one that was counted
\* after its queue had been written out.
THEOREM DropsGetReported == Spec => []DropsAreReported
<1>1. Init => RowsInv /\ DropInv
  BY InitLogInv
<1>2. RowsInv /\ DropInv /\ [Next]_vars => RowsInv' /\ DropInv'
  BY NextRowsInv, NextDropInv
<1>3. DropInv => DropsAreReported
  BY DEF DropInv, DropsAreReported
<1> QED
  BY <1>1, <1>2, <1>3, PTL DEF Spec
=============================================================================
