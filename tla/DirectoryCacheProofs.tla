------------------------ MODULE DirectoryCacheProofs ------------------------
(***************************************************************************)
(* Proofs about DirectoryCache, for any number of people and               *)
(* administrators, any statements, and any durations.                      *)
(***************************************************************************)
EXTENDS DirectoryCache, SequenceTheorems, TLAPS

\* Whoever fetches holds the mutex of the cache it fetches for.
MutexInv ==
  \A p \in Readers : pc[p] \in {"fetch", "store"} => writeMu[at[p]] = p

\* The caches that a flush comes to before d.
Before(d) ==
  CASE d = "users"     -> {}
    [] d = "positions" -> {"users"}
    [] OTHER           -> {"users", "positions"}

\* The statements that cache c has to know of: those acknowledged, and those of an
\* administrator whose flush is past c.
Due(c) ==
  Acked \cup UNION {StatementsOf(a) : a \in {b \in Admins : pc[b] = "flush" /\ c \in Before(at[b])}}

\* What is cached and valid knows of them, and so does what is about to be cached:
\* who fetched before the flush has stored before it, because Invalidate waits.
FreshInv ==
  \A c \in Caches : \A n \in Due(c) :
    /\ StillValid(cache[c]) => n <= cache[c].from
    /\ \A p \in Readers : pc[p] = "store" /\ at[p] = c => n <= fetched[p]

NeedInv == \A p \in Readers : need[p] \subseteq Acked

\* A token that does not know of an acknowledged statement was made before that.
TokenInv ==
  /\ \A p \in Readers : token[p].expires <= clock + AccessTokenDuration
  /\ \A p \in Readers, x \in ackedAt :
       token[p].from < x.statement => token[p].expires <= x.time + AccessTokenDuration

\* What does not know of a statement was fetched before that, and a token made from
\* it while it was valid.
AgeInv ==
  \A n \in DOMAIN written :
    /\ \A c \in Caches : cache[c].from < n => cache[c].time <= written[n].time
    /\ \A p \in Readers : pc[p] = "store" /\ fetched[p] < n => clock <= written[n].time
    /\ \A p \in Readers :
         token[p].from < n => token[p].expires <= written[n].time + Ttl + AccessTokenDuration

IInv == TypeOK /\ MutexInv /\ FreshInv /\ NeedInv

\* Each step of the module, named: the case split of the proofs below.
LEMMA StepCases ==
  ASSUME [Next]_vars
  PROVE  \/ \E p \in Readers : \/ Login(p) \/ Request(p) \/ Load(p) \/ Lock(p)
                               \/ Fetch(p) \/ Store(p) \/ FetchFails(p)
         \/ \E a \in Admins : Write(a) \/ BeginFlush(a) \/ WriteFails(a) \/ Invalidate(a)
         \/ Tick
         \/ UNCHANGED vars
BY DEF Next, Get

\* A Get that returns ends there, or a Get of the teams follows.
LEMMA ReturnCases ==
  ASSUME NEW p \in Readers, NEW n, Return(p, n)
  PROVE  /\ got' = [got EXCEPT ![p] = n]
         /\ \/ token' = token
            \/ token' = [token EXCEPT ![p] = [from |-> n, expires |-> clock + AccessTokenDuration]]
         /\ \/ /\ pc' = [pc EXCEPT ![p] = "idle"]
               /\ at' = at
               /\ need' = [need EXCEPT ![p] = {}]
            \/ /\ pc' = [pc EXCEPT ![p] = "load"]
               /\ at' = [at EXCEPT ![p] = "teams"]
               /\ need' = [need EXCEPT ![p] = Acked]
BY DEF Return, BeginGet, EndGet, Goto

\* A step of a Get finds the cache empty or out of date, or returns what is valid.
LEMMA LookCases ==
  ASSUME NEW p \in Readers, Load(p) \/ Lock(p)
  PROVE  /\ pc[p] \in {"load", "lock"}
         /\ UNCHANGED <<stored, written, cache, clock, fetched, ackedAt>>
         /\ \/ /\ StillValid(cache[at[p]])
               /\ Return(p, cache[at[p]].from)
               /\ writeMu' = writeMu
            \/ /\ pc' = [pc EXCEPT ![p] = "lock"]
               /\ UNCHANGED <<writeMu, got, token, at, need>>
            \/ /\ pc' = [pc EXCEPT ![p] = "fetch"]
               /\ writeMu[at[p]] = Nobody
               /\ writeMu' = [writeMu EXCEPT ![at[p]] = p]
               /\ UNCHANGED <<got, token, at, need>>
BY DEF Load, Lock, Goto, directory

\* The caches are flushed in the order users, positions, teams.
LEMMA FlushCases ==
  ASSUME NEW a \in Admins, Invalidate(a), at[a] \in Caches
  PROVE  /\ pc[a] = "flush"
         /\ writeMu[at[a]] = Nobody
         /\ cache' = [cache EXCEPT ![at[a]] = Emptied]
         /\ UNCHANGED <<stored, written, writeMu, clock, fetched, token, got, need>>
         /\ \/ /\ at[a] = "teams"
               /\ pc' = [pc EXCEPT ![a] = "done"]
               /\ ackedAt' = ackedAt \cup {[statement |-> n, time |-> clock] : n \in StatementsOf(a)}
               /\ at' = at
            \/ /\ at[a] = "users" /\ at' = [at EXCEPT ![a] = "positions"]
               /\ UNCHANGED <<pc, ackedAt>>
            \/ /\ at[a] = "positions" /\ at' = [at EXCEPT ![a] = "teams"]
               /\ UNCHANGED <<pc, ackedAt>>
BY DEF Invalidate, NextFlush, FlushOrder, Caches, Goto, directory
-----------------------------------------------------------------------------
\* Types

LEMMA StatementsBound ==
  ASSUME TypeOK, NEW a
  PROVE  StatementsOf(a) \subseteq 1 .. stored
BY DEF TypeOK, StatementsOf

LEMMA AckedBound ==
  ASSUME TypeOK
  PROVE  Acked \subseteq 1 .. stored
BY DEF TypeOK, Acked

\* A function stays in its set when one of its values is replaced.
LEMMA ExceptType ==
  ASSUME NEW D, NEW R, NEW f \in [D -> R], NEW x, NEW v \in R
  PROVE  [f EXCEPT ![x] = v] \in [D -> R]
OBVIOUS

\* What a Get returns leaves its person with values of their types.
LEMMA ReturnTypes ==
  ASSUME TypeOK, NEW p \in Readers, NEW n \in 0 .. stored, Return(p, n)
  PROVE  /\ got' \in [Readers -> {Nothing} \cup 0 .. stored]
         /\ token' \in [Readers -> [from : 0 .. stored, expires : 0 .. clock + AccessTokenDuration]]
         /\ need' \in [Readers -> SUBSET (1 .. stored)]
         /\ at' \in [Procs -> Caches]
         /\ pc' \in [Procs -> {"idle", "load", "lock", "fetch", "store", "write", "flush", "done"}]
<1>0. /\ got' = [got EXCEPT ![p] = n]
      /\ \/ token' = token
         \/ token' = [token EXCEPT ![p] = [from |-> n, expires |-> clock + AccessTokenDuration]]
      /\ \/ /\ pc' = [pc EXCEPT ![p] = "idle"]
            /\ at' = at
            /\ need' = [need EXCEPT ![p] = {}]
         \/ /\ pc' = [pc EXCEPT ![p] = "load"]
            /\ at' = [at EXCEPT ![p] = "teams"]
            /\ need' = [need EXCEPT ![p] = Acked]
  BY ReturnCases
<1>1. Acked \subseteq 1 .. stored
  BY AckedBound
<1> USE DurationsAssumption DEF TypeOK
<1>2. [from |-> n, expires |-> clock + AccessTokenDuration]
        \in [from : 0 .. stored, expires : 0 .. clock + AccessTokenDuration]
  OBVIOUS
<1>3. token' \in [Readers -> [from : 0 .. stored, expires : 0 .. clock + AccessTokenDuration]]
  BY <1>0, <1>2
<1>4. need' \in [Readers -> SUBSET (1 .. stored)]
  <2>1. need \in [Readers -> SUBSET (1 .. stored)]
    OBVIOUS
  <2>2. {} \in SUBSET (1 .. stored) /\ Acked \in SUBSET (1 .. stored)
    BY <1>1
  <2>3. /\ [need EXCEPT ![p] = {}] \in [Readers -> SUBSET (1 .. stored)]
        /\ [need EXCEPT ![p] = Acked] \in [Readers -> SUBSET (1 .. stored)]
    BY <2>1, <2>2, ExceptType, Zenon
  <2> QED
    BY <1>0, <2>3, Zenon
<1>5. got' \in [Readers -> {Nothing} \cup 0 .. stored]
  BY <1>0
<1>6. /\ at' \in [Procs -> Caches]
      /\ pc' \in [Procs -> {"idle", "load", "lock", "fetch", "store", "write", "flush", "done"}]
  BY <1>0 DEF Procs, Caches
<1> QED
  BY <1>3, <1>4, <1>5, <1>6

LEMMA InitIInv == Init => IInv
<1> SUFFICES ASSUME Init PROVE IInv
    OBVIOUS
<1>1. TypeOK
  BY DurationsAssumption, ProcsAssumption DEF Init, TypeOK, Emptied, Caches, Procs, Nothing
<1>2. \A c \in Caches : Due(c) = {}
  BY DEF Init, Due, Acked, StatementsOf, Procs
<1> QED
  BY <1>1, <1>2 DEF Init, IInv, MutexInv, FreshInv, NeedInv, Procs

\* A sequence of what happened so far is one of what happened until later.
LEMMA LaterSeq ==
  ASSUME NEW s, NEW t \in Int, NEW u \in Int, t <= u, s \in Seq([by : Admins, time : 0 .. t])
  PROVE  s \in Seq([by : Admins, time : 0 .. u])
<1>1. [by : Admins, time : 0 .. t] \subseteq [by : Admins, time : 0 .. u]
  OBVIOUS
<1> QED
  BY <1>1, SeqMonotonic, Zenon

LEMMA NextTypeOK == TypeOK /\ [Next]_vars => TypeOK'
<1> SUFFICES ASSUME TypeOK, [Next]_vars
             PROVE  TypeOK'
    OBVIOUS
<1> USE DurationsAssumption DEF TypeOK, Goto, directory, history
<1>1. ASSUME NEW p \in Readers, Login(p) \/ Request(p)
      PROVE  TypeOK'
  BY <1>1, AckedBound DEF Login, Request, BeginGet, Caches, Procs
<1>2. ASSUME NEW p \in Readers, Load(p) \/ Lock(p)
      PROVE  TypeOK'
  <2>0. p \in Procs /\ at[p] \in Caches /\ cache[at[p]].from \in 0 .. stored
    BY DEF Procs
  <2>1. CASE Return(p, cache[at[p]].from) /\ writeMu' = writeMu
    BY <1>2, <2>0, <2>1, LookCases, ReturnTypes
  <2>2. CASE pc' = [pc EXCEPT ![p] = "lock"] /\ UNCHANGED <<writeMu, got, token, at, need>>
    BY <1>2, <2>0, <2>2, LookCases
  <2>3. CASE /\ pc' = [pc EXCEPT ![p] = "fetch"]
             /\ writeMu' = [writeMu EXCEPT ![at[p]] = p]
             /\ UNCHANGED <<got, token, at, need>>
    BY <1>2, <2>0, <2>3, LookCases
  <2> QED
    BY <1>2, <2>1, <2>2, <2>3, LookCases
<1>3. ASSUME NEW p \in Readers, Fetch(p)
      PROVE  TypeOK'
  <2>1. /\ UNCHANGED <<stored, written, cache, writeMu, clock, at, token, got, ackedAt, need>>
        /\ pc' = [pc EXCEPT ![p] = "store"]
        /\ fetched' = [fetched EXCEPT ![p] = stored]
    BY <1>3 DEF Fetch
  <2>2. fetched' \in [Readers -> 0 .. stored]
    BY <2>1
  <2>3. pc' \in [Procs -> {"idle", "load", "lock", "fetch", "store", "write", "flush", "done"}]
    BY <2>1
  <2> QED
    BY <2>1, <2>2, <2>3
<1>4. ASSUME NEW p \in Readers, Store(p)
      PROVE  TypeOK'
  <2>1. /\ p \in Procs /\ at[p] \in Caches
        /\ fetched[p] \in 0 .. stored
        /\ [from |-> fetched[p], time |-> clock] \in [from : 0 .. stored, time : {-Ttl} \cup 0 .. clock]
    BY DEF Procs
  <2>2. /\ UNCHANGED <<stored, written, clock, ackedAt>> /\ Return(p, fetched[p])
        /\ cache' = [cache EXCEPT ![at[p]] = [from |-> fetched[p], time |-> clock]]
        /\ fetched' = [fetched EXCEPT ![p] = 0]
        /\ writeMu' = [writeMu EXCEPT ![at[p]] = Nobody]
    BY <1>4 DEF Store
  <2>3. cache' \in [Caches -> [from : 0 .. stored, time : {-Ttl} \cup 0 .. clock]]
    BY <2>1, <2>2
  <2>4. /\ fetched' \in [Readers -> 0 .. stored]
        /\ writeMu' \in [Caches -> Readers \cup {Nobody}]
    BY <2>1, <2>2
  <2>5. /\ got' \in [Readers -> {Nothing} \cup 0 .. stored]
        /\ token' \in [Readers -> [from : 0 .. stored, expires : 0 .. clock + AccessTokenDuration]]
        /\ need' \in [Readers -> SUBSET (1 .. stored)]
        /\ at' \in [Procs -> Caches]
        /\ pc' \in [Procs -> {"idle", "load", "lock", "fetch", "store", "write", "flush", "done"}]
    BY <2>1, <2>2, ReturnTypes
  <2> QED
    BY <2>2, <2>3, <2>4, <2>5
<1>5. ASSUME NEW p \in Readers, FetchFails(p)
      PROVE  TypeOK'
  <2>1. /\ UNCHANGED <<stored, written, cache, clock, token, ackedAt>>
        /\ writeMu' = [writeMu EXCEPT ![at[p]] = Nobody]
        /\ fetched' = [fetched EXCEPT ![p] = 0]
        /\ got' = [got EXCEPT ![p] = Nothing]
        /\ \/ need' = [need EXCEPT ![p] = {}] \/ need' = [need EXCEPT ![p] = Acked]
        /\ \/ pc' = [pc EXCEPT ![p] = "idle"] \/ pc' = [pc EXCEPT ![p] = "load"]
        /\ \/ at' = at \/ at' = [at EXCEPT ![p] = "teams"]
    BY <1>5 DEF FetchFails, BeginGet, EndGet
  <2>2. Acked \subseteq 1 .. stored
    BY AckedBound
  <2>3. need' \in [Readers -> SUBSET (1 .. stored)]
    <3>1. need \in [Readers -> SUBSET (1 .. stored)]
      OBVIOUS
    <3>2. {} \in SUBSET (1 .. stored) /\ Acked \in SUBSET (1 .. stored)
      BY <2>2
    <3>3. /\ [need EXCEPT ![p] = {}] \in [Readers -> SUBSET (1 .. stored)]
          /\ [need EXCEPT ![p] = Acked] \in [Readers -> SUBSET (1 .. stored)]
      BY <3>1, <3>2, ExceptType, Zenon
    <3> QED
      BY <2>1, <3>3, Zenon
  <2>4. fetched' \in [Readers -> 0 .. stored] /\ writeMu' \in [Caches -> Readers \cup {Nobody}]
    <3>1. fetched' = [fetched EXCEPT ![p] = 0] /\ writeMu' = [writeMu EXCEPT ![at[p]] = Nobody]
      BY <2>1
    <3>2. fetched' \in [Readers -> 0 .. stored]
      BY <3>1
    <3>3. writeMu' \in [Caches -> Readers \cup {Nobody}]
      BY <3>1
    <3> QED
      BY <3>2, <3>3
  <2>6. got' \in [Readers -> {Nothing} \cup 0 .. stored]
    BY <2>1
  <2>5. at' \in [Procs -> Caches]
    BY <2>1 DEF Caches
  <2>7. pc' \in [Procs -> {"idle", "load", "lock", "fetch", "store", "write", "flush", "done"}]
    BY <2>1
  <2> QED
    BY <2>1, <2>3, <2>4, <2>5, <2>6, <2>7
<1>6. ASSUME NEW a \in Admins, Write(a)
      PROVE  TypeOK'
  <2>1. [by |-> a, time |-> clock] \in [by : Admins, time : 0 .. clock]
    OBVIOUS
  <2>2. written' \in Seq([by : Admins, time : 0 .. clock]) /\ Len(written') = stored + 1
    BY <1>6, <2>1 DEF Write
  <2>3. 0 .. stored \subseteq 0 .. stored + 1 /\ 1 .. stored \subseteq 1 .. stored + 1
    OBVIOUS
  <2> QED
    BY <1>6, <2>2, <2>3 DEF Write, Procs
<1>7. ASSUME NEW a \in Admins, BeginFlush(a) \/ WriteFails(a)
      PROVE  TypeOK'
  BY <1>7 DEF BeginFlush, WriteFails, FlushOrder, Caches, Procs
<1>8. ASSUME NEW a \in Admins, Invalidate(a)
      PROVE  TypeOK'
  <2>1. Emptied \in [from : 0 .. stored, time : {-Ttl} \cup 0 .. clock]
    BY DEF Emptied
  <2>2. a \in Procs /\ at[a] \in Caches
    BY DEF Procs
  <2>3. /\ cache' = [cache EXCEPT ![at[a]] = Emptied]
        /\ UNCHANGED <<stored, written, writeMu, clock, fetched, token, got, need>>
        /\ \/ ackedAt' = ackedAt
           \/ ackedAt' = ackedAt \cup {[statement |-> n, time |-> clock] : n \in StatementsOf(a)}
        /\ pc' = pc \/ pc' = [pc EXCEPT ![a] = "done"]
        /\ at' = at \/ at' = [at EXCEPT ![a] = "positions"] \/ at' = [at EXCEPT ![a] = "teams"]
    BY <1>8, <2>2, FlushCases
  <2>4. StatementsOf(a) \subseteq 1 .. stored
    BY StatementsBound
  <2>5. ackedAt' \subseteq [statement : 1 .. stored, time : 0 .. clock]
    BY <2>3, <2>4
  <2>6. cache' \in [Caches -> [from : 0 .. stored, time : {-Ttl} \cup 0 .. clock]]
    BY <2>1, <2>2, <2>3
  <2>7. /\ at' \in [Procs -> Caches]
        /\ pc' \in [Procs -> {"idle", "load", "lock", "fetch", "store", "write", "flush", "done"}]
    BY <2>2, <2>3 DEF Caches
  <2> QED
    BY <2>3, <2>5, <2>6, <2>7
<1>9. CASE Tick
  <2>1. /\ clock' = clock + 1 /\ clock' \in 0 .. MaxClock
        /\ UNCHANGED <<stored, written, cache, writeMu, pc, at, fetched, token, got, need, ackedAt>>
    BY <1>9 DEF Tick
  <2>2. 0 .. clock \subseteq 0 .. clock'
    BY <2>1
  <2>4. written' \in Seq([by : Admins, time : 0 .. clock'])
    <3>1. clock \in Int /\ clock' \in Int /\ clock <= clock' /\ written' = written
      BY <2>1
    <3>2. written \in Seq([by : Admins, time : 0 .. clock])
      OBVIOUS
    <3>3. written \in Seq([by : Admins, time : 0 .. clock'])
      BY <3>1, <3>2, LaterSeq, Zenon
    <3> QED
      BY <3>1, <3>3
  <2>5. cache' \in [Caches -> [from : 0 .. stored, time : {-Ttl} \cup 0 .. clock']]
    BY <2>1, <2>2
  <2>6. token' \in [Readers -> [from : 0 .. stored, expires : 0 .. clock' + AccessTokenDuration]]
    <3>1. 0 .. clock + AccessTokenDuration \subseteq 0 .. clock' + AccessTokenDuration
      BY <2>1
    <3> QED
      BY <2>1, <3>1
  <2>7. ackedAt' \subseteq [statement : 1 .. stored, time : 0 .. clock']
    BY <2>1, <2>2
  <2> QED
    BY <2>1, <2>4, <2>5, <2>6, <2>7
<1>10. CASE UNCHANGED vars
  BY <1>10 DEF vars
<1> QED
  BY <1>1, <1>2, <1>3, <1>4, <1>5, <1>6, <1>7, <1>8, <1>9, <1>10, StepCases
-----------------------------------------------------------------------------
\* The caches

\* What a step of reader p does to the mutexes: it takes one that is free, returns
\* the one it holds, or leaves them alone.
LEMMA NextMutexInv == TypeOK /\ MutexInv /\ [Next]_vars => MutexInv'
<1> SUFFICES ASSUME TypeOK, MutexInv, [Next]_vars
             PROVE  MutexInv'
    OBVIOUS
<1>0. /\ DOMAIN pc = Procs /\ at \in [Procs -> Caches]
      /\ DOMAIN writeMu = Caches
      /\ Readers \subseteq Procs /\ Admins \subseteq Procs
  BY DEF TypeOK, Procs
<1> USE DEF MutexInv
<1>1. ASSUME NEW p \in Readers, Login(p) \/ Request(p)
      PROVE  MutexInv'
  BY <1>0, <1>1 DEF Login, Request, BeginGet, Goto
<1>2. ASSUME NEW p \in Readers, Load(p) \/ Lock(p)
      PROVE  MutexInv'
  <2>1. CASE Return(p, cache[at[p]].from) /\ writeMu' = writeMu
    BY <1>0, <2>1, ReturnCases
  <2>2. CASE pc' = [pc EXCEPT ![p] = "lock"] /\ UNCHANGED <<writeMu, got, token, at, need>>
    BY <1>0, <2>2
  <2>3. CASE /\ pc' = [pc EXCEPT ![p] = "fetch"]
             /\ writeMu[at[p]] = Nobody
             /\ writeMu' = [writeMu EXCEPT ![at[p]] = p]
             /\ UNCHANGED <<got, token, at, need>>
    BY <1>0, <2>3, ProcsAssumption
  <2> QED
    BY <1>2, <2>1, <2>2, <2>3, LookCases
<1>3. ASSUME NEW p \in Readers, Fetch(p)
      PROVE  MutexInv'
  BY <1>0, <1>3 DEF Fetch, Goto
<1>4. ASSUME NEW p \in Readers, Store(p) \/ FetchFails(p)
      PROVE  MutexInv'
  <2>1. /\ pc[p] = "store"
        /\ writeMu' = [writeMu EXCEPT ![at[p]] = Nobody]
        /\ \A q \in Readers \ {p} : pc'[q] = pc[q] /\ at'[q] = at[q]
        /\ pc'[p] \in {"idle", "load"}
    BY <1>0, <1>4, ReturnCases DEF Store, FetchFails, BeginGet, EndGet, Goto
  <2> QED
    BY <1>0, <2>1, ProcsAssumption
<1>5. ASSUME NEW a \in Admins, Write(a) \/ BeginFlush(a) \/ WriteFails(a) \/ Invalidate(a)
      PROVE  MutexInv'
  <2>1. /\ writeMu' = writeMu
        /\ \A q \in Readers : pc'[q] = pc[q] /\ at'[q] = at[q]
    BY <1>0, <1>5, FlushCases, ProcsAssumption DEF Write, BeginFlush, WriteFails, Goto
  <2> QED
    BY <2>1
<1>6. CASE Tick \/ UNCHANGED vars
  BY <1>6 DEF Tick, vars
<1> QED
  BY <1>1, <1>2, <1>3, <1>4, <1>5, <1>6, StepCases

LEMMA DueBound ==
  ASSUME TypeOK, NEW c
  PROVE  Due(c) \subseteq 1 .. stored
BY AckedBound, StatementsBound DEF Due

\* As long as administrators do nothing, the same statements are due.
LEMMA DueSame ==
  ASSUME UNCHANGED <<written, ackedAt>>, \A a \in Admins : pc'[a] = pc[a] /\ at'[a] = at[a], NEW c
  PROVE  Due(c)' = Due(c)
BY DEF Due, Acked, StatementsOf

\* Steps that neither store nor fetch, nor flush, and after which no more is due.
LEMMA FreshKept ==
  ASSUME TypeOK, FreshInv, UNCHANGED <<cache, fetched, clock>>,
         \A p \in Readers : pc'[p] = "store" => pc[p] = "store" /\ at'[p] = at[p],
         \A c \in Caches : Due(c)' \subseteq Due(c)
  PROVE  FreshInv'
BY DEF FreshInv, StillValid

LEMMA NextFreshInv == TypeOK /\ MutexInv /\ FreshInv /\ [Next]_vars => FreshInv'
<1> SUFFICES ASSUME TypeOK, MutexInv, FreshInv, [Next]_vars
             PROVE  FreshInv'
    OBVIOUS
<1>0. /\ DOMAIN pc = Procs /\ at \in [Procs -> Caches]
      /\ Readers \subseteq Procs /\ Admins \subseteq Procs
      /\ \A p \in Readers : p \notin Admins /\ p # Nobody
  BY ProcsAssumption DEF TypeOK, Procs
<1>1. ASSUME NEW p \in Readers,
             \/ Login(p) \/ Request(p) \/ Load(p) \/ Lock(p)
      PROVE  FreshInv'
  <2>1. /\ UNCHANGED <<cache, fetched, clock, written, ackedAt>>
        /\ \A q \in Procs \ {p} : pc'[q] = pc[q] /\ at'[q] = at[q]
        /\ pc'[p] # "store"
    BY <1>0, <1>1, LookCases, ReturnCases DEF Login, Request, BeginGet, Goto, directory
  <2> QED
    BY <1>0, <2>1, DueSame, FreshKept
<1>2. ASSUME NEW p \in Readers, Fetch(p)
      PROVE  FreshInv'
  <2>1. /\ UNCHANGED <<cache, clock, written, ackedAt, at>>
        /\ pc' = [pc EXCEPT ![p] = "store"]
        /\ fetched' = [fetched EXCEPT ![p] = stored]
    BY <1>2 DEF Fetch, Goto, directory, history
  <2>2. \A c \in Caches : Due(c)' = Due(c) /\ \A n \in Due(c) : n <= stored
    BY <1>0, <2>1, DueSame, DueBound
  <2> QED
    BY <1>0, <2>1, <2>2 DEF FreshInv, StillValid, TypeOK
<1>3. ASSUME NEW p \in Readers, Store(p)
      PROVE  FreshInv'
  <2>1. /\ UNCHANGED <<clock, written, ackedAt>> /\ pc[p] = "store"
        /\ cache' = [cache EXCEPT ![at[p]] = [from |-> fetched[p], time |-> clock]]
        /\ fetched' = [fetched EXCEPT ![p] = 0]
        /\ \A q \in Procs \ {p} : pc'[q] = pc[q] /\ at'[q] = at[q]
        /\ pc'[p] # "store"
    BY <1>0, <1>3, ReturnCases DEF Store, directory
  <2>2. \A c \in Caches : Due(c)' = Due(c)
    BY <1>0, <2>1, DueSame
  <2> QED
    BY <1>0, <2>1, <2>2 DEF FreshInv, StillValid, TypeOK
<1>4. ASSUME NEW p \in Readers, FetchFails(p)
      PROVE  FreshInv'
  <2>1. /\ UNCHANGED <<cache, clock, written, ackedAt>>
        /\ fetched' = [fetched EXCEPT ![p] = 0]
        /\ \A q \in Procs \ {p} : pc'[q] = pc[q] /\ at'[q] = at[q]
        /\ pc'[p] # "store"
    BY <1>0, <1>4 DEF FetchFails, BeginGet, EndGet, Goto, directory
  <2>2. \A c \in Caches : Due(c)' = Due(c)
    BY <1>0, <2>1, DueSame
  <2> QED
    BY <1>0, <2>1, <2>2 DEF FreshInv, StillValid, TypeOK
<1>5. ASSUME NEW a \in Admins, Write(a) \/ BeginFlush(a) \/ WriteFails(a)
      PROVE  FreshInv'
  <2>1. /\ UNCHANGED <<cache, fetched, clock, ackedAt>>
        /\ \A q \in Procs \ {a} : pc'[q] = pc[q] /\ at'[q] = at[q]
        /\ pc'[a] = "flush" => at'[a] = "users"
    BY <1>0, <1>5 DEF Write, BeginFlush, WriteFails, FlushOrder, Goto, directory, history
  <2>2. ASSUME NEW b \in Admins \ {a}
        PROVE  StatementsOf(b)' = StatementsOf(b)
    BY <1>5, <2>2 DEF Write, BeginFlush, WriteFails, StatementsOf, directory, TypeOK
  <2>3. ASSUME NEW c \in Caches, NEW n \in Due(c)'
        PROVE  n \in Due(c)
    <3>1. Acked' = Acked
      BY <2>1 DEF Acked
    <3>2. ASSUME NEW b \in Admins, pc'[b] = "flush", c \in Before(at'[b]), n \in StatementsOf(b)'
          PROVE  n \in Due(c)
      <4>1. b # a
        BY <2>1, <3>2 DEF Before
      <4> QED
        BY <1>0, <2>1, <2>2, <3>2, <4>1 DEF Due
    <3> QED
      BY <2>3, <3>1, <3>2 DEF Due
  <2>4. \A q \in Readers : pc'[q] = pc[q] /\ at'[q] = at[q]
    BY <1>0, <2>1
  <2> QED
    BY <2>1, <2>3, <2>4, FreshKept
<1>6. ASSUME NEW a \in Admins, Invalidate(a)
      PROVE  FreshInv'
  <2>1. /\ pc[a] = "flush" /\ writeMu[at[a]] = Nobody
        /\ cache' = [cache EXCEPT ![at[a]] = Emptied]
        /\ UNCHANGED <<stored, written, writeMu, clock, fetched, token, got, need>>
        /\ \A q \in Procs \ {a} : pc'[q] = pc[q] /\ at'[q] = at[q]
        /\ \/ /\ at[a] = "teams" /\ pc'[a] = "done"
              /\ ackedAt' = ackedAt \cup {[statement |-> n, time |-> clock] : n \in StatementsOf(a)}
           \/ /\ at[a] \in {"users", "positions"} /\ ackedAt' = ackedAt
              /\ at'[a] = IF at[a] = "users" THEN "positions" ELSE "teams"
    BY <1>0, <1>6, FlushCases
  <2>2. ASSUME NEW b \in Admins
        PROVE  StatementsOf(b)' = StatementsOf(b)
    BY <2>1 DEF StatementsOf
  <2>3. ASSUME NEW c \in Caches \ {at[a]}, NEW n \in Due(c)'
        PROVE  n \in Due(c)
    <3>1. ASSUME n \in Acked', n \notin Acked
          PROVE  n \in Due(c)
      <4>1. at[a] = "teams" /\ n \in StatementsOf(a)
        BY <2>1, <3>1 DEF Acked
      <4>2. c \in Before(at[a])
        BY <2>3, <4>1 DEF Before, Caches
      <4> QED
        BY <2>1, <4>1, <4>2 DEF Due
    <3>2. ASSUME NEW b \in Admins, pc'[b] = "flush", c \in Before(at'[b]), n \in StatementsOf(b)'
          PROVE  n \in Due(c)
      <4>1. pc[b] = "flush" /\ c \in Before(at[b])
        BY <1>0, <2>1, <2>3, <3>2 DEF Before, Caches
      <4> QED
        BY <2>2, <3>2, <4>1 DEF Due
    <3> QED
      BY <2>3, <3>1, <3>2 DEF Due
  <2>4. ~StillValid(Emptied)
    BY DurationsAssumption DEF StillValid, Emptied, TypeOK
  <2>5. \A p \in Readers : pc'[p] = pc[p] /\ at'[p] = at[p] /\ ~(pc[p] = "store" /\ at[p] = at[a])
    BY <1>0, <2>1 DEF MutexInv
  <2>6. at[a] \in Caches /\ cache'[at[a]] = Emptied /\ \A c \in Caches \ {at[a]} : cache'[c] = cache[c]
    BY <1>0, <2>1 DEF TypeOK
  <2> QED
    BY <2>1, <2>3, <2>4, <2>5, <2>6 DEF FreshInv, StillValid
<1>7. CASE Tick
  <2>1. clock' = clock + 1 /\ UNCHANGED <<cache, fetched, pc, at, written, ackedAt>>
    BY <1>7 DEF Tick, directory, history
  <2>2. \A c \in Caches : Due(c)' = Due(c)
    BY <2>1, DueSame
  <2>3. clock \in Int /\ Ttl \in Int /\ \A c \in Caches : cache[c].time \in Int
    BY DurationsAssumption DEF TypeOK
  <2>4. \A c \in Caches : clock' < cache'[c].time + Ttl => clock < cache[c].time + Ttl
    BY <2>1, <2>3
  <2> QED
    BY <2>1, <2>2, <2>4 DEF FreshInv, StillValid
<1>8. CASE UNCHANGED vars
  BY <1>8, DueSame, FreshKept DEF vars, directory, history
<1> QED
  BY <1>1, <1>2, <1>3, <1>4, <1>5, <1>6, <1>7, <1>8, StepCases

LEMMA NextNeedInv == TypeOK /\ NeedInv /\ [Next]_vars => NeedInv'
<1> SUFFICES ASSUME TypeOK, NeedInv, [Next]_vars
             PROVE  NeedInv'
    OBVIOUS
<1>0. DOMAIN need = Readers
  BY DEF TypeOK
<1> USE DEF NeedInv
<1>1. ASSUME NEW p \in Readers,
             \/ Login(p) \/ Request(p) \/ Load(p) \/ Lock(p)
             \/ Fetch(p) \/ Store(p) \/ FetchFails(p)
      PROVE  NeedInv'
  <2>1. /\ ackedAt' = ackedAt
        /\ need' \in {need, [need EXCEPT ![p] = {}], [need EXCEPT ![p] = Acked]}
    BY <1>1, LookCases, ReturnCases
       DEF Login, Request, Fetch, Store, FetchFails, BeginGet, EndGet, history
  <2> QED
    BY <1>0, <2>1 DEF Acked
<1>2. ASSUME NEW a \in Admins, Write(a) \/ BeginFlush(a) \/ WriteFails(a) \/ Invalidate(a)
      PROVE  NeedInv'
  <2>1. at[a] \in Caches
    BY DEF TypeOK, Procs
  <2>2. need' = need /\ ackedAt \subseteq ackedAt'
    BY <1>2, <2>1, FlushCases DEF Write, BeginFlush, WriteFails, history
  <2> QED
    BY <2>2 DEF Acked
<1>3. CASE Tick \/ UNCHANGED vars
  BY <1>3 DEF Tick, vars, history, Acked
<1> QED
  BY <1>1, <1>2, <1>3, StepCases

LEMMA NextIInv == IInv /\ [Next]_vars => IInv'
BY NextTypeOK, NextMutexInv, NextFreshInv, NextNeedInv DEF IInv

\* What a Get returns has seen all that is acknowledged by then.
LEMMA ReturnsAcked ==
  ASSUME IInv, NEW p \in Readers, NEW n,
         \/ StillValid(cache[at[p]]) /\ n = cache[at[p]].from
         \/ pc[p] = "store" /\ n = fetched[p]
  PROVE  \A k \in Acked : k <= n
<1>1. at[p] \in Caches
  BY DEF IInv, TypeOK, Procs
<1> QED
  BY <1>1 DEF IInv, FreshInv, Due

LEMMA GetIsFresh ==
  ASSUME IInv, [Next]_vars, NEW p \in Readers, GetEnds(p)
  PROVE  got'[p] = Nothing \/ \A n \in need[p] : n <= got'[p]
<1>0. /\ DOMAIN pc = Procs /\ DOMAIN at = Procs /\ DOMAIN got = Readers
      /\ Readers \subseteq Procs /\ Admins \subseteq Procs
      /\ p \notin Admins /\ need[p] \subseteq Acked
      /\ \A a \in Admins : at[a] \in Caches
  BY ProcsAssumption DEF IInv, TypeOK, NeedInv, Procs
<1>1. CASE Load(p) \/ Lock(p)
  <2>1. StillValid(cache[at[p]]) /\ Return(p, cache[at[p]].from)
    BY <1>0, <1>1, LookCases DEF GetEnds
  <2>2. got' = [got EXCEPT ![p] = cache[at[p]].from]
    BY <2>1, ReturnCases
  <2> QED
    BY <1>0, <2>1, <2>2, ReturnsAcked
<1>2. CASE Store(p)
  <2>1. pc[p] = "store" /\ Return(p, fetched[p])
    BY <1>2 DEF Store
  <2>2. got' = [got EXCEPT ![p] = fetched[p]]
    BY <2>1, ReturnCases
  <2> QED
    BY <1>0, <2>1, <2>2, ReturnsAcked
<1>3. CASE FetchFails(p)
  BY <1>0, <1>3 DEF FetchFails
<1>4. CASE Login(p) \/ Request(p) \/ Fetch(p)
  BY <1>4 DEF Login, Request, Fetch, GetEnds
<1>5. ASSUME NEW q \in Readers \ {p},
             \/ Login(q) \/ Request(q) \/ Load(q) \/ Lock(q)
             \/ Fetch(q) \/ Store(q) \/ FetchFails(q)
      PROVE  pc'[p] = pc[p] /\ at'[p] = at[p]
  BY <1>0, <1>5, LookCases, ReturnCases
     DEF Login, Request, Fetch, Store, FetchFails, BeginGet, EndGet, Goto
<1>6. ASSUME NEW a \in Admins, Write(a) \/ BeginFlush(a) \/ WriteFails(a) \/ Invalidate(a)
      PROVE  pc'[p] = pc[p] /\ at'[p] = at[p]
  BY <1>0, <1>6, FlushCases DEF Write, BeginFlush, WriteFails, Goto
<1>7. CASE Tick \/ UNCHANGED vars
  BY <1>7 DEF Tick, vars, GetEnds
<1>8. ~(pc'[p] = pc[p] /\ at'[p] = at[p])
  BY DEF GetEnds
<1> QED
  BY <1>1, <1>2, <1>3, <1>4, <1>5, <1>6, <1>7, <1>8, StepCases
-----------------------------------------------------------------------------
\* The tokens

LEMMA NextTokenInv == IInv /\ TokenInv /\ [Next]_vars => TokenInv'
<1> SUFFICES ASSUME IInv, TokenInv, [Next]_vars
             PROVE  TokenInv'
    OBVIOUS
<1>0. /\ clock \in Int /\ AccessTokenDuration \in Int
      /\ DOMAIN token = Readers
      /\ \A p \in Readers : token[p].expires \in Int /\ token[p].from \in Int
      /\ \A p \in Readers : fetched[p] \in Int
      /\ \A c \in Caches : cache[c].from \in Int
      /\ \A p \in Procs : at[p] \in Caches
      /\ \A x \in ackedAt : x.statement \in Int /\ x.time \in Int
  BY DurationsAssumption DEF IInv, TypeOK
<1> USE DEF TokenInv
<1>1. ASSUME NEW p \in Readers, Load(p) \/ Lock(p) \/ Store(p)
      PROVE  TokenInv'
  <2>1. PICK n \in Int :
          /\ \/ token' = token
             \/ token' = [token EXCEPT ![p] = [from |-> n, expires |-> clock + AccessTokenDuration]]
          /\ \A k \in Acked : k <= n
    <3>1. CASE Load(p) \/ Lock(p)
      <4>1. CASE token' = token
        <5>1. cache[at[p]].from \in Int
          BY <1>0 DEF Procs
        <5>2. \E n \in Int : \A k \in Acked : k <= n
          <6>1. stored \in Int /\ \A k \in Acked : k <= stored
            BY AckedBound DEF IInv, TypeOK
          <6> QED
            BY <6>1
        <5> QED
          BY <4>1, <5>2
      <4>2. CASE token' # token
        <5>1. StillValid(cache[at[p]]) /\ Return(p, cache[at[p]].from)
          BY <3>1, <4>2, LookCases
        <5>2. cache[at[p]].from \in Int
          BY <1>0 DEF Procs
        <5> QED
          BY <5>1, <5>2, ReturnCases, ReturnsAcked
      <4> QED
        BY <4>1, <4>2
    <3>2. CASE Store(p)
      <4>1. pc[p] = "store" /\ Return(p, fetched[p])
        BY <3>2 DEF Store
      <4> QED
        BY <1>0, <4>1, ReturnCases, ReturnsAcked
    <3> QED
      BY <1>1, <3>1, <3>2
  <2>2. clock' = clock /\ ackedAt' = ackedAt
    BY <1>1, LookCases DEF Store
  <2>3. \A x \in ackedAt : x.statement \in Acked
    BY DEF Acked
  <2> QED
    BY <1>0, <2>1, <2>2, <2>3
<1>2. ASSUME NEW p \in Readers, Login(p) \/ Request(p) \/ Fetch(p) \/ FetchFails(p)
      PROVE  TokenInv'
  BY <1>2 DEF Login, Request, Fetch, FetchFails, history
<1>3. ASSUME NEW a \in Admins, Write(a) \/ BeginFlush(a) \/ WriteFails(a)
      PROVE  TokenInv'
  BY <1>3 DEF Write, BeginFlush, WriteFails, history
<1>4. ASSUME NEW a \in Admins, Invalidate(a)
      PROVE  TokenInv'
  <2>1. /\ token' = token /\ clock' = clock
        /\ \A x \in ackedAt' : x \in ackedAt \/ x.time = clock
    BY <1>0, <1>4, FlushCases DEF Procs
  <2> QED
    BY <1>0, <2>1
<1>5. CASE Tick
  <2>1. token' = token /\ clock' = clock + 1 /\ ackedAt' = ackedAt
    BY <1>5 DEF Tick, history
  <2> QED
    BY <1>0, <2>1
<1>6. CASE UNCHANGED vars
  BY <1>6 DEF vars, history
<1> QED
  BY <1>1, <1>2, <1>3, <1>4, <1>5, <1>6, StepCases

LEMMA TokensBound ==
  ASSUME IInv, TokenInv
  PROVE  TokensForget
<1>1. /\ clock \in Int /\ AccessTokenDuration \in Int
      /\ \A p \in Readers : token[p].expires \in Int
      /\ \A x \in ackedAt : x.time \in Int
  BY DurationsAssumption DEF IInv, TypeOK
<1> QED
  BY <1>1 DEF TokenInv, TokensForget

\* The statements so far are records, each with a time that has come.
LEMMA WrittenTypes ==
  ASSUME TypeOK
  PROVE  /\ DOMAIN written = 1 .. stored
         /\ \A n \in DOMAIN written : n \in Int /\ written[n].time \in 0 .. clock
<1>1. written \in Seq([by : Admins, time : 0 .. clock]) /\ Len(written) = stored
  BY DEF TypeOK
<1>2. DOMAIN written = 1 .. Len(written)
  BY <1>1
<1>3. \A n \in 1 .. Len(written) : written[n] \in [by : Admins, time : 0 .. clock]
  BY <1>1, ElementOfSeq
<1> QED
  BY <1>1, <1>2, <1>3

\* Numbers are numbers.
LEMMA NumberTypes ==
  ASSUME TypeOK
  PROVE  /\ clock \in Nat /\ AccessTokenDuration \in Nat /\ Ttl \in Nat /\ stored \in Nat
         /\ token \in [Readers -> [from : Int, expires : Int]]
         /\ cache \in [Caches -> [from : Int, time : Int]]
         /\ fetched \in [Readers -> Int]
         /\ \A c \in Caches : cache[c].time <= clock
         /\ \A p \in Readers : token[p].expires <= clock + AccessTokenDuration
<1>1. /\ clock \in Nat /\ AccessTokenDuration \in Nat /\ Ttl \in Nat /\ stored \in Nat
  BY DurationsAssumption DEF TypeOK
<1>2. \A t \in {-Ttl} \cup 0 .. clock : t \in Int /\ t <= clock
  BY <1>1
<1>3. /\ cache \in [Caches -> [from : 0 .. stored, time : {-Ttl} \cup 0 .. clock]]
      /\ token \in [Readers -> [from : 0 .. stored, expires : 0 .. clock + AccessTokenDuration]]
      /\ fetched \in [Readers -> 0 .. stored]
  BY DEF TypeOK
<1>4. [from : 0 .. stored, time : {-Ttl} \cup 0 .. clock] \subseteq [from : Int, time : Int]
  BY <1>1
<1>5. [from : 0 .. stored, expires : 0 .. clock + AccessTokenDuration] \subseteq [from : Int, expires : Int]
  BY <1>1
<1>6. cache \in [Caches -> [from : Int, time : Int]] /\ \A c \in Caches : cache[c].time <= clock
  BY <1>2, <1>3, <1>4
<1>7. /\ token \in [Readers -> [from : Int, expires : Int]]
      /\ \A p \in Readers : token[p].expires <= clock + AccessTokenDuration
  BY <1>1, <1>3, <1>5
<1>8. fetched \in [Readers -> Int]
  BY <1>3
<1> QED
  BY <1>1, <1>6, <1>7, <1>8

\* A Get that returns data as of n, fetched no longer than Ttl ago: the token that
\* it makes is not older than that.
LEMMA NextAgeInv == IInv /\ AgeInv /\ [Next]_vars => AgeInv'
<1> SUFFICES ASSUME IInv, AgeInv, [Next]_vars
             PROVE  AgeInv'
    OBVIOUS
<1>0. /\ clock \in Nat /\ AccessTokenDuration \in Nat /\ Ttl \in Nat /\ stored \in Nat
      /\ token \in [Readers -> [from : Int, expires : Int]]
      /\ cache \in [Caches -> [from : Int, time : Int]]
      /\ fetched \in [Readers -> Int]
      /\ DOMAIN pc = Procs /\ at \in [Procs -> Caches]
      /\ Readers \subseteq Procs
      /\ DOMAIN written = 1 .. stored
      /\ \A n \in DOMAIN written : n \in Int /\ written[n].time \in 0 .. clock
  <2>1. DOMAIN pc = Procs /\ at \in [Procs -> Caches] /\ Readers \subseteq Procs
    BY DEF IInv, TypeOK, Procs
  <2> QED
    BY <2>1, NumberTypes, WrittenTypes DEF IInv
<1>00. /\ \A c \in Caches : cache[c].time <= clock
       /\ \A p \in Readers : token[p].expires <= clock + AccessTokenDuration
  BY NumberTypes DEF IInv
<1>000. clock \in Int /\ Ttl \in Int /\ Ttl >= 0 /\ AccessTokenDuration \in Int
  BY <1>0
<1>1. ASSUME NEW p \in Readers, Load(p) \/ Lock(p)
      PROVE  AgeInv'
  <2>1. /\ UNCHANGED <<written, cache, clock, fetched>>
        /\ \A q \in Readers : pc'[q] = "store" => pc[q] = "store"
    <3>1. /\ UNCHANGED <<written, cache, clock, fetched>>
          /\ \/ Return(p, cache[at[p]].from)
             \/ pc' = [pc EXCEPT ![p] = "lock"]
             \/ pc' = [pc EXCEPT ![p] = "fetch"]
      BY <1>1, LookCases
    <3>2. \/ pc' = [pc EXCEPT ![p] = "idle"] \/ pc' = [pc EXCEPT ![p] = "load"]
          \/ pc' = [pc EXCEPT ![p] = "lock"] \/ pc' = [pc EXCEPT ![p] = "fetch"]
      BY <3>1, ReturnCases
    <3>3. DOMAIN pc = Procs /\ Readers \subseteq Procs
      BY <1>0
    <3> QED
      BY <3>1, <3>2, <3>3
  <2>2. ASSUME NEW n \in DOMAIN written, NEW q \in Readers, token'[q].from < n
        PROVE  token'[q].expires <= written[n].time + Ttl + AccessTokenDuration
    <3>1. CASE token'[q] = token[q]
      BY <2>2, <3>1 DEF AgeInv
    <3>2. CASE token'[q] # token[q]
      <4>1. StillValid(cache[at[p]]) /\ Return(p, cache[at[p]].from)
        BY <1>1, <3>2, LookCases
      <4>2. token' = [token EXCEPT ![p] = [from |-> cache[at[p]].from, expires |-> clock + AccessTokenDuration]]
        BY <3>2, <4>1, ReturnCases
      <4>3. q = p
        BY <1>0, <3>2, <4>2
      <4>4. token'[q].from = cache[at[p]].from /\ token'[q].expires = clock + AccessTokenDuration
        BY <1>0, <4>2, <4>3
      <4>5. at[p] \in Caches
        BY <1>0
      <4>6. cache[at[p]].time <= written[n].time
        BY <2>2, <4>4, <4>5 DEF AgeInv
      <4>7. clock < cache[at[p]].time + Ttl
        BY <4>1 DEF StillValid
      <4>8. cache[at[p]].time \in Int /\ written[n].time \in Int
        BY <1>0, <4>5
      <4>9. clock + AccessTokenDuration <= written[n].time + Ttl + AccessTokenDuration
        BY <1>000, <4>6, <4>7, <4>8
      <4> QED
        BY <4>4, <4>9
    <3> QED
      BY <3>1, <3>2
  <2> QED
    BY <2>1, <2>2 DEF AgeInv
<1>2. ASSUME NEW p \in Readers, Store(p)
      PROVE  AgeInv'
  <2>1. /\ UNCHANGED <<written, clock>> /\ pc[p] = "store" /\ at[p] \in Caches
        /\ cache' = [cache EXCEPT ![at[p]] = [from |-> fetched[p], time |-> clock]]
        /\ fetched' = [fetched EXCEPT ![p] = 0]
        /\ \/ token' = token
           \/ token' = [token EXCEPT ![p] = [from |-> fetched[p], expires |-> clock + AccessTokenDuration]]
        /\ \A q \in Readers : pc'[q] = "store" => q # p /\ pc[q] = "store"
    <3>1. /\ UNCHANGED <<written, clock>> /\ pc[p] = "store" /\ Return(p, fetched[p])
          /\ cache' = [cache EXCEPT ![at[p]] = [from |-> fetched[p], time |-> clock]]
          /\ fetched' = [fetched EXCEPT ![p] = 0]
      BY <1>2 DEF Store, directory
    <3>2. /\ \/ token' = token
             \/ token' = [token EXCEPT ![p] = [from |-> fetched[p], expires |-> clock + AccessTokenDuration]]
          /\ \/ pc' = [pc EXCEPT ![p] = "idle"] \/ pc' = [pc EXCEPT ![p] = "load"]
      BY <3>1, ReturnCases
    <3>3. DOMAIN pc = Procs /\ Readers \subseteq Procs /\ at[p] \in Caches
      BY <1>0
    <3>4. \A q \in Readers : pc'[q] = "store" => q # p /\ pc[q] = "store"
      BY <3>2, <3>3
    <3> QED
      BY <3>1, <3>2, <3>3, <3>4
  <2>2. ASSUME NEW n \in DOMAIN written, fetched[p] < n
        PROVE  clock <= written[n].time
    BY <2>1, <2>2 DEF AgeInv
  <2>3. ASSUME NEW n \in DOMAIN written, NEW c \in Caches, cache'[c].from < n
        PROVE  cache'[c].time <= written[n].time
    BY <1>0, <2>1, <2>2, <2>3 DEF AgeInv
  <2>4. ASSUME NEW n \in DOMAIN written, NEW q \in Readers, token'[q].from < n
        PROVE  token'[q].expires <= written[n].time + Ttl + AccessTokenDuration
    <3>1. CASE token'[q] = token[q]
      BY <2>4, <3>1 DEF AgeInv
    <3>2. CASE token'[q] # token[q]
      <4>0. token' = [token EXCEPT ![p] = [from |-> fetched[p], expires |-> clock + AccessTokenDuration]]
        BY <2>1, <3>2
      <4>00. DOMAIN token = Readers
        BY <1>0
      <4>000. q = p
        BY <3>2, <4>0, <4>00
      <4>1. token'[q].from = fetched[p] /\ token'[q].expires = clock + AccessTokenDuration
        BY <4>0, <4>00, <4>000
      <4>2. clock <= written[n].time
        BY <2>2, <2>4, <4>1
      <4>3. written[n].time \in Int
        BY <1>0
      <4>4. clock + AccessTokenDuration <= written[n].time + Ttl + AccessTokenDuration
        BY <1>000, <4>2, <4>3
      <4> QED
        BY <4>1, <4>4
    <3> QED
      BY <3>1, <3>2
  <2>5. \A n \in DOMAIN written, q \in Readers :
          pc'[q] = "store" /\ fetched'[q] < n => clock <= written[n].time
    BY <1>0, <2>1 DEF AgeInv
  <2> QED
    BY <2>1, <2>3, <2>4, <2>5 DEF AgeInv
<1>3. ASSUME NEW p \in Readers, Fetch(p)
      PROVE  AgeInv'
  <2>1. /\ UNCHANGED <<written, clock, cache, token>>
        /\ pc' = [pc EXCEPT ![p] = "store"]
        /\ fetched' = [fetched EXCEPT ![p] = stored]
    BY <1>3 DEF Fetch, Goto, directory
  <2>2. \A n \in DOMAIN written : n <= stored
    BY <1>0
  <2>3. \A q \in Readers : pc'[q] = "store" =>
          \/ q = p /\ fetched'[q] = stored
          \/ q # p /\ pc[q] = "store" /\ fetched'[q] = fetched[q]
    BY <1>0, <2>1
  <2>4. \A n \in DOMAIN written : ~(stored < n)
    BY <1>0, <2>2
  <2>5. ASSUME NEW n \in DOMAIN written, NEW q \in Readers, pc'[q] = "store", fetched'[q] < n
        PROVE  clock <= written[n].time
    BY <2>3, <2>4, <2>5 DEF AgeInv
  <2> QED
    BY <2>1, <2>5 DEF AgeInv
<1>4. ASSUME NEW p \in Readers, Login(p) \/ Request(p) \/ FetchFails(p)
      PROVE  AgeInv'
  <2>1. /\ UNCHANGED <<written, clock, cache, token>>
        /\ \A q \in Readers : pc'[q] = "store" => pc[q] = "store" /\ fetched'[q] = fetched[q]
    BY <1>0, <1>4 DEF Login, Request, FetchFails, BeginGet, EndGet, Goto, directory
  <2> QED
    BY <2>1 DEF AgeInv
<1>5. ASSUME NEW a \in Admins, Write(a)
      PROVE  AgeInv'
  <2>1. /\ UNCHANGED <<clock, cache, token, fetched>>
        /\ \A q \in Readers : pc'[q] = "store" => pc[q] = "store"
    BY <1>0, <1>5 DEF Write, Goto, history
  <2>2. ASSUME NEW n \in DOMAIN written'
        PROVE  (n \in DOMAIN written /\ written'[n] = written[n]) \/ written'[n].time = clock
    BY <1>0, <1>5, <2>2 DEF Write, IInv, TypeOK
  <2>3. ASSUME NEW n \in DOMAIN written', written'[n].time = clock
        PROVE  /\ \A c \in Caches : cache[c].time <= written'[n].time
               /\ \A p \in Readers : token[p].expires <= written'[n].time + Ttl + AccessTokenDuration
    BY <1>0, <1>00, <2>3
  <2> QED
    BY <1>0, <2>1, <2>2, <2>3 DEF AgeInv
<1>6. ASSUME NEW a \in Admins, BeginFlush(a) \/ WriteFails(a)
      PROVE  AgeInv'
  <2>1. /\ UNCHANGED <<written, clock, cache, token, fetched>>
        /\ \A q \in Readers : pc'[q] = "store" => pc[q] = "store"
    BY <1>0, <1>6 DEF BeginFlush, WriteFails, Goto, directory
  <2> QED
    BY <2>1 DEF AgeInv
<1>7. ASSUME NEW a \in Admins, Invalidate(a)
      PROVE  AgeInv'
  <2>1. /\ UNCHANGED <<written, clock, token, fetched>>
        /\ cache' = [cache EXCEPT ![at[a]] = Emptied]
        /\ \A q \in Readers : pc'[q] = "store" => pc[q] = "store"
    BY <1>0, <1>7, FlushCases DEF Procs
  <2>2. \A n \in DOMAIN written : Emptied.time <= written[n].time
    BY <1>0 DEF Emptied
  <2> QED
    BY <1>0, <2>1, <2>2 DEF AgeInv
<1>8. CASE Tick
  <2>1. /\ UNCHANGED <<written, cache, token>>
        /\ \A q \in Readers : pc'[q] # "store"
    BY <1>0, <1>8 DEF Tick, directory
  <2> QED
    BY <2>1 DEF AgeInv
<1>9. CASE UNCHANGED vars
  BY <1>9 DEF vars, directory, AgeInv
<1> QED
  BY <1>1, <1>2, <1>3, <1>4, <1>5, <1>6, <1>7, <1>8, <1>9, StepCases

LEMMA AgeBounds ==
  ASSUME IInv, AgeInv
  PROVE  TokensForgetEventually
<1>1. /\ clock \in Int /\ AccessTokenDuration \in Int /\ Ttl \in Int
      /\ \A p \in Readers : token[p].expires \in Int
      /\ \A n \in DOMAIN written : n \in Int /\ written[n].time \in Int
  BY NumberTypes, WrittenTypes DEF IInv
<1> QED
  BY <1>1 DEF AgeInv, TokensForgetEventually
-----------------------------------------------------------------------------
\* The values of the caches, the tokens and the history keep to their types: no
\* one's knowledge is of a statement that was never made, whoever made how many.
THEOREM TypeCorrect == Spec => []TypeOK
<1>1. IInv /\ [Next]_vars => IInv'
  BY NextIInv
<1>2. IInv => TypeOK
  BY DEF IInv
<1> QED
  BY InitIInv, <1>1, <1>2, PTL DEF Spec

\* "The next read fetches fresh data" (directory.go:86), for any number of readers
\* and administrators: a Get that begins after a flush was answered returns data that
\* has seen what was written before it.  It rests on Invalidate taking the mutex
\* that a fetch holds: without it FreshInv is not inductive, because who fetched
\* before the statement would store after the flush.
THEOREM FlushIsFresh == Spec => FreshAfterFlush
<1>1. IInv /\ [Next]_vars => IInv'
  BY NextIInv
<1>2. IInv /\ [Next]_vars
        => [\A p \in Readers : GetEnds(p) => got'[p] = Nothing \/ \A n \in need[p] : n <= got'[p]]_vars
  BY GetIsFresh
<1> QED
  BY InitIInv, <1>1, <1>2, PTL DEF Spec, FreshAfterFlush

\* A token that does not know of an acknowledged change of the directory is not
\* accepted for longer than AccessTokenLifetime after the acknowledgement (auth.go:325
\* makes the claims of a refreshed token anew).
THEOREM TokensForgetInTime == Spec => []TokensForget
<1>1. IInv /\ TokenInv /\ [Next]_vars => (IInv /\ TokenInv)'
  BY NextIInv, NextTokenInv
<1>2. Init => IInv /\ TokenInv
  <2>1. Init => TokenInv
    BY DurationsAssumption DEF Init, TokenInv
  <2> QED
    BY <2>1, InitIInv
<1>3. IInv /\ TokenInv => TokensForget
  BY TokensBound
<1> QED
  BY <1>1, <1>2, <1>3, PTL DEF Spec

\* Without any acknowledgement, a change is known to every token within
\* InMemoryCacheTTL and AccessTokenLifetime of the statement that made it.
THEOREM TokensForgetByThemselves == Spec => []TokensForgetEventually
<1>1. IInv /\ AgeInv /\ [Next]_vars => (IInv /\ AgeInv)'
  BY NextIInv, NextAgeInv
<1>2. Init => IInv /\ AgeInv
  <2>1. Init => AgeInv
    BY DEF Init, AgeInv
  <2> QED
    BY <2>1, InitIInv
<1>3. IInv /\ AgeInv => TokensForgetEventually
  BY AgeBounds
<1> QED
  BY <1>1, <1>2, <1>3, PTL DEF Spec
=============================================================================
