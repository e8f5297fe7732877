--------------------------- MODULE DirectoryCache ---------------------------
(***************************************************************************)
(* The directory of people as the server sees it: three in-memory caches   *)
(* with a time to live over the DIRECTORY tables (cache.InMemory, held by  *)
(* UserStore), administrators who write to those tables and then flush the *)
(* caches, and people who log in, carry what the directory said of them in *)
(* an access token, and make requests that look titles up.                 *)
(*                                                                         *)
(* What the directory says is abstracted to how many of the administrators'*)
(* statements it has seen: data fetched after the n-th and before the next *)
(* is "as of" n.  A fetch is several statements, and is as of the first.   *)
(*                                                                         *)
(* Time passes between handlers and not within one: a tick is longer than  *)
(* any of them takes.                                                      *)
(***************************************************************************)
EXTENDS Integers, Sequences, FiniteSets

CONSTANTS
  Readers,              \* people, each with one browser
  Admins,               \* requests to administer the directory
  MaxStatements,        \* bound on the statements of one such request
  Ttl,                  \* InMemoryCacheTTL, in ticks
  AccessTokenDuration,  \* AccessTokenLifetime, in ticks
  MaxClock,             \* bound on time
  Nobody                \* not a process: nobody holds the mutex

Procs == Readers \cup Admins
Caches == {"users", "positions", "teams"}
FlushOrder == <<"users", "positions", "teams">>
Nothing == -1  \* what a Get that fails returns

ASSUME DurationsAssumption ==
  /\ Ttl \in Nat \ {0}
  /\ AccessTokenDuration \in Nat \ {0}
  /\ MaxClock \in Nat
  /\ MaxStatements \in Nat \ {0}

ASSUME ProcsAssumption == Nobody \notin Procs /\ Readers \cap Admins = {}

VARIABLES
  stored,       \* how many statements the DIRECTORY tables have seen
  cache,        \* cache[c]: dataPtr, what it points at and when that was made
  writeMu,      \* writeMu[c]: who holds the mutex of cache c
  clock,
  pc,           \* where a handler is
  at,           \* at[p]: the cache p is at work on
  fetched,      \* fetched[p]: what p's fetch is as of
  token,        \* token[p]: what its claims are as of, and when it expires
  got,          \* got[p]: what p's latest Get returned is as of, or Nothing
  need,         \* history: the statements acknowledged when that Get began
  written,      \* history: who executed the n-th statement, and when
  ackedAt       \* history: the statements acknowledged, each with its time

directory == <<stored, written>>
history == <<need, ackedAt>>
vars == <<directory, cache, writeMu, clock, pc, at, fetched, token, got, history>>

\* emptyVal: a time long ago, so that stillValid is false.
Emptied == [from |-> 0, time |-> -Ttl]
StillValid(d) == clock < d.time + Ttl

Init ==
  /\ stored = 0
  /\ cache = [c \in Caches |-> Emptied]
  /\ writeMu = [c \in Caches |-> Nobody]
  /\ clock = 0
  /\ pc = [p \in Procs |-> "idle"]
  /\ at = [p \in Procs |-> "users"]
  /\ fetched = [p \in Readers |-> 0]
  /\ token = [p \in Readers |-> [from |-> 0, expires |-> 0]]
  /\ got = [p \in Readers |-> 0]
  /\ need = [p \in Readers |-> {}]
  /\ written = <<>>
  /\ ackedAt = {}

Acked == {x.statement : x \in ackedAt}

Goto(p, step) == pc' = [pc EXCEPT ![p] = step]

\* A Get of cache c begins.
BeginGet(p, c) ==
  /\ at' = [at EXCEPT ![p] = c]
  /\ need' = [need EXCEPT ![p] = Acked]
  /\ Goto(p, "load")

\* The last Get of a request ends.
EndGet(p) ==
  /\ need' = [need EXCEPT ![p] = {}]
  /\ Goto(p, "idle")
  /\ UNCHANGED at

\* postAuth and refreshAccessToken need the users; a new token is asked for at
\* any time.
Login(p) ==
  /\ pc[p] = "idle"
  /\ BeginGet(p, "users")
  /\ UNCHANGED <<directory, cache, writeMu, clock, fetched, token, got, ackedAt>>

\* EventPermissions, in any handler: the positions and then the teams.
Request(p) ==
  /\ pc[p] = "idle"
  /\ clock < token[p].expires
  /\ BeginGet(p, "positions")
  /\ UNCHANGED <<directory, cache, writeMu, clock, fetched, token, got, ackedAt>>

\* Mutant of Return: a refresh copies the claims of the token it replaces.
ReturnKeepingClaims(p, n) ==
  /\ got' = [got EXCEPT ![p] = n]
  /\ CASE at[p] = "users" ->
            /\ token' = [token EXCEPT ![p].from = IF token[p].expires = 0 THEN n ELSE @,
                                       ![p].expires = clock + AccessTokenDuration]
            /\ EndGet(p)
       [] at[p] = "positions" -> BeginGet(p, "teams") /\ UNCHANGED token
       [] OTHER -> EndGet(p) /\ UNCHANGED token

\* Get returns data as of n.  The users make a token, or show that none is due;
\* the positions are followed by the teams.
Return(p, n) ==
  /\ got' = [got EXCEPT ![p] = n]
  /\ CASE at[p] = "users" ->
            /\ \/ token' = [token EXCEPT ![p] = [from |-> n, expires |-> clock + AccessTokenDuration]]
               \/ UNCHANGED token
            /\ EndGet(p)
       [] at[p] = "positions" -> BeginGet(p, "teams") /\ UNCHANGED token
       [] OTHER -> EndGet(p) /\ UNCHANGED token

\* Mutant of Load: a hit prolongs the life of what is cached.
LoadProlonging(p) ==
  /\ pc[p] = "load"
  /\ IF StillValid(cache[at[p]])
       THEN /\ cache' = [cache EXCEPT ![at[p]].time = clock]
            /\ Return(p, cache[at[p]].from)
       ELSE Goto(p, "lock") /\ UNCHANGED <<cache, got, token, at, need>>
  /\ UNCHANGED <<directory, writeMu, clock, fetched, ackedAt>>

\* The first look at dataPtr, without the mutex.
Load(p) ==
  /\ pc[p] = "load"
  /\ IF StillValid(cache[at[p]])
       THEN Return(p, cache[at[p]].from)
       ELSE Goto(p, "lock") /\ UNCHANGED <<got, token, at, need>>
  /\ UNCHANGED <<directory, cache, writeMu, clock, fetched, ackedAt>>

\* writeMu.Lock, and the second look.
Lock(p) ==
  /\ pc[p] = "lock"
  /\ writeMu[at[p]] = Nobody
  /\ IF StillValid(cache[at[p]])
       THEN Return(p, cache[at[p]].from) /\ UNCHANGED writeMu
       ELSE /\ writeMu' = [writeMu EXCEPT ![at[p]] = p]
            /\ Goto(p, "fetch")
            /\ UNCHANGED <<got, token, at, need>>
  /\ UNCHANGED <<directory, cache, clock, fetched, ackedAt>>

\* The refresher's first statement.
Fetch(p) ==
  /\ pc[p] = "fetch"
  /\ fetched' = [fetched EXCEPT ![p] = stored]
  /\ Goto(p, "store")
  /\ UNCHANGED <<directory, cache, writeMu, clock, at, token, got, history>>

\* dataPtr.Store after the last one, and Unlock.
Store(p) ==
  /\ pc[p] = "store"
  /\ fetched' = [fetched EXCEPT ![p] = 0]
  /\ cache' = [cache EXCEPT ![at[p]] = [from |-> fetched[p], time |-> clock]]
  /\ writeMu' = [writeMu EXCEPT ![at[p]] = Nobody]
  /\ Return(p, fetched[p])
  /\ UNCHANGED <<directory, clock, ackedAt>>

\* The database refuses: the cache stays as it is.  The teams are asked for even
\* if the positions have failed, and the request gets an error after that.
FetchFails(p) ==
  /\ pc[p] = "store"
  /\ writeMu' = [writeMu EXCEPT ![at[p]] = Nobody]
  /\ fetched' = [fetched EXCEPT ![p] = 0]
  /\ got' = [got EXCEPT ![p] = Nothing]
  /\ IF at[p] = "positions" THEN BeginGet(p, "teams") ELSE EndGet(p)
  /\ UNCHANGED <<directory, cache, clock, token, ackedAt>>
-----------------------------------------------------------------------------
\* The statements that a has executed.
StatementsOf(a) == {n \in DOMAIN written : written[n].by = a}

\* editDirectoryPerson, editDirectoryGroup and the others: each statement commits
\* by itself.
Write(a) ==
  /\ pc[a] \in {"idle", "write"}
  /\ Cardinality(StatementsOf(a)) < MaxStatements
  /\ stored' = stored + 1
  /\ written' = Append(written, [by |-> a, time |-> clock])
  /\ Goto(a, "write")
  /\ UNCHANGED <<cache, writeMu, clock, at, fetched, token, got, history>>

\* The handler is done with its statements and calls Flush.
BeginFlush(a) ==
  /\ pc[a] = "write"
  /\ at' = [at EXCEPT ![a] = FlushOrder[1]]
  /\ Goto(a, "flush")
  /\ UNCHANGED <<directory, cache, writeMu, clock, fetched, token, got, history>>

\* A statement fails: the administrator gets an error, and nothing is flushed.
WriteFails(a) ==
  /\ pc[a] = "write"
  /\ Goto(a, "done")
  /\ UNCHANGED <<directory, cache, writeMu, clock, at, fetched, token, got, history>>

\* On to the next cache, or back to the caller, who answers.
NextFlush(a) ==
  IF at[a] = FlushOrder[3]
    THEN /\ Goto(a, "done")
         /\ ackedAt' = ackedAt \cup {[statement |-> n, time |-> clock] : n \in StatementsOf(a)}
         /\ UNCHANGED at
    ELSE /\ at' = [at EXCEPT ![a] = IF @ = FlushOrder[1] THEN FlushOrder[2] ELSE FlushOrder[3]]
         /\ UNCHANGED <<pc, ackedAt>>

\* Mutant of Invalidate: the pointer is stored without the mutex, as it is atomic.
InvalidateUnlocked(a) ==
  /\ pc[a] = "flush"
  /\ cache' = [cache EXCEPT ![at[a]] = Emptied]
  /\ NextFlush(a)
  /\ UNCHANGED <<directory, writeMu, clock, fetched, token, got, need>>

\* Invalidate waits for the mutex, and so for a fetch under way.
Invalidate(a) ==
  /\ pc[a] = "flush"
  /\ writeMu[at[a]] = Nobody
  /\ cache' = [cache EXCEPT ![at[a]] = Emptied]
  /\ NextFlush(a)
  /\ UNCHANGED <<directory, writeMu, clock, fetched, token, got, need>>

Tick ==
  /\ clock < MaxClock
  /\ \A p \in Procs : pc[p] \in {"idle", "done"}
  /\ clock' = clock + 1
  /\ UNCHANGED <<directory, cache, writeMu, pc, at, fetched, token, got, history>>

Get(p) == Load(p) \/ Lock(p) \/ Fetch(p) \/ Store(p) \/ FetchFails(p)

Next ==
  \/ \E p \in Readers : Login(p) \/ Request(p) \/ Get(p)
  \/ \E a \in Admins : Write(a) \/ BeginFlush(a) \/ WriteFails(a) \/ Invalidate(a)
  \/ Tick

Spec == Init /\ [][Next]_vars
-----------------------------------------------------------------------------
TypeOK ==
  /\ stored \in Nat
  /\ cache \in [Caches -> [from : 0 .. stored, time : {-Ttl} \cup 0 .. clock]]
  /\ writeMu \in [Caches -> Readers \cup {Nobody}]
  /\ clock \in 0 .. MaxClock
  /\ pc \in [Procs -> {"idle", "load", "lock", "fetch", "store", "write", "flush", "done"}]
  /\ at \in [Procs -> Caches]
  /\ fetched \in [Readers -> 0 .. stored]
  /\ token \in [Readers -> [from : 0 .. stored, expires : 0 .. clock + AccessTokenDuration]]
  /\ got \in [Readers -> {Nothing} \cup 0 .. stored]
  /\ need \in [Readers -> SUBSET (1 .. stored)]
  /\ written \in Seq([by : Admins, time : 0 .. clock]) /\ Len(written) = stored
  /\ ackedAt \subseteq [statement : 1 .. stored, time : 0 .. clock]

\* p's Get of one cache returns in this step.
GetEnds(p) == pc[p] \in {"load", "lock", "store"} /\ (pc'[p] = "idle" \/ at'[p] # at[p])

\* "Flush invalidates all cached directory data, so that the next read fetches
\* fresh data from the Source" (directory.go:86): a Get that begins after an
\* administrator was told of success returns data that has seen what they wrote,
\* whatever fetch was under way when the cache was emptied.
FreshAfterFlush ==
  [][\A p \in Readers : GetEnds(p) => got'[p] = Nothing \/ \A n \in need[p] : n <= got'[p]]_vars

\* A token outlives what it claims by its own life and no more: once a change of
\* the directory was acknowledged, no token that does not know of it is valid for
\* longer than AccessTokenDuration, even though refreshes keep coming (auth.go:325).
TokensForget ==
  \A p \in Readers, x \in ackedAt :
    clock < token[p].expires /\ token[p].from < x.statement
      => clock < x.time + AccessTokenDuration

\* A change that was stored and not acknowledged, because a later statement of the
\* same request failed or somebody else made it, takes the life of the cache as
\* well, and no longer.
TokensForgetEventually ==
  \A p \in Readers : \A n \in DOMAIN written :
    clock < token[p].expires /\ token[p].from < n
      => clock < written[n].time + Ttl + AccessTokenDuration
=============================================================================
