---------------------------- MODULE RecordReads ----------------------------
(***************************************************************************)
(* Reading a record while RecordParts changes it: the page of one record   *)
(* (getIncident, getFieldReport, getVisit), the list of an event's records *)
(* (getIncidents, getFieldReports, getVisits) and an attached file         *)
(* (get*Attachment).  A read is several queries without a transaction,     *)
(* each of which sees what is committed when it runs.  A page and a file   *)
(* read the row, then the entries, then the roster; the list of Field      *)
(* Reports reads the entries before the rows; the other lists run their    *)
(* three queries concurrently.                                             *)
(***************************************************************************)
EXTENDS RecordParts

CONSTANT Readers  \* the reads under way; a scenario's read[v] says who reads what

Reads == [op : {"none"}]
         \cup [op : {"page"}, user : Users]
         \cup [op : {"list"}, user : Users, system : BOOLEAN]
         \cup [op : {"file"}, user : Users, id : Nat]

ASSUME ReadsAssumption == \A s \in Scenarios : s.read \in [Readers -> Reads]

VARIABLE view  \* what each reader has got so far

Parts == {"row", "entries", "roster"}
EmptyView == [step |-> "begin", got |-> {}, version |-> 0, ids |-> {}, rows |-> {}, answer |-> "none"]

read(v) == given.read[v]
readVars == <<vars, view>>

ReadInit ==
  /\ Init
  /\ view = [v \in Readers |-> IF read(v).op = "none" THEN [EmptyView EXCEPT !.step = "done"]
                                                      ELSE EmptyView]

MayRead(u) ==
  IF kind = "fieldReport" THEN Grants[u] \cap {"readAll", "readOwn"} # {}
                          ELSE "readAll" \in Grants[u]

\* limitedAccess of the readers: only the Field Reports one is an author of.
ReadLimited(u) == kind = "fieldReport" /\ "readAll" \notin Grants[u]

\* The entries a query returns: exclude_system_entries leaves the generated out.
Generated(e) == e.says.what \in {"edit", "roster", "strike"}
Returned(v) ==
  IF read(v).op = "list" /\ ~read(v).system
  THEN {e.id : e \in {f \in entry : f.id \in attached /\ ~Generated(f)}}
  ELSE attached

\* The parts a reader asks for, and those it may ask for next.
Wanted(v) == IF kind = "fieldReport" \/ read(v).op = "file" THEN {"row", "entries"} ELSE Parts

\* Mutant of MayAsk: the queries of a page run concurrently too.
MayAskAnything(v) == Wanted(v) \ view[v].got

MayAsk(v) ==
  LET left == Wanted(v) \ view[v].got
      first(order) == {p \in left : \A q \in left : order[p] <= order[q]}
  IN  IF read(v).op # "list" THEN first([row |-> 1, entries |-> 2, roster |-> 3])
      ELSE IF kind = "fieldReport" THEN first([entries |-> 1, row |-> 2, roster |-> 3])
      ELSE left

See(v, seen) == view' = [view EXCEPT ![v] = seen]
Reply(v, a) == view' = [view EXCEPT ![v].step = "done", ![v].answer = a]

\* getEventPermissions, before anything is read.
BeginRead(v) ==
  /\ view[v].step = "begin"
  /\ \/ given.exists /\ ~exists /\ Reply(v, "notfound")
     \/ ~(given.exists /\ ~exists) /\ ~MayRead(read(v).user) /\ Reply(v, "forbidden")
     \/ /\ ~(given.exists /\ ~exists) /\ MayRead(read(v).user)
        /\ See(v, [view[v] EXCEPT !.step = "read"])

\* The row of the record.  A list without the row is a list without the record.
ReadRow(v) ==
  /\ view[v].step = "read"
  /\ "row" \in MayAsk(v)
  /\ \/ exists /\ See(v, [view[v] EXCEPT !.got = @ \cup {"row"}, !.version = version])
     \/ ~exists /\ Reply(v, IF read(v).op = "list" THEN "absent" ELSE "notfound")

ReadEntries(v) ==
  /\ view[v].step = "read"
  /\ "entries" \in MayAsk(v)
  /\ See(v, [view[v] EXCEPT !.got = @ \cup {"entries"}, !.ids = Returned(v)])

ReadRoster(v) ==
  /\ view[v].step = "read"
  /\ "roster" \in MayAsk(v)
  /\ See(v, [view[v] EXCEPT !.got = @ \cup {"roster"}, !.rows = roster])

\* Mutant of Assemble: the list is not filtered by authorship.
AssembleUnfiltered(v) ==
  /\ view[v].step = "read"
  /\ view[v].got = Wanted(v)
  /\ LET hidden == /\ ReadLimited(read(v).user) /\ read(v).op # "list"
                   /\ ~ContainsAuthor(read(v).user, view[v].ids)
     IN  \/ hidden /\ Reply(v, IF read(v).op = "list" THEN "absent" ELSE "forbidden")
         \/ ~hidden /\ read(v).op = "file" /\ See(v, [view[v] EXCEPT !.step = "open"])
         \/ ~hidden /\ read(v).op # "file" /\ Reply(v, "shown")

\* All is read: the authorship of those with limited access, and the answer.
Assemble(v) ==
  /\ view[v].step = "read"
  /\ view[v].got = Wanted(v)
  /\ LET hidden == ReadLimited(read(v).user) /\ ~ContainsAuthor(read(v).user, view[v].ids) IN
     \/ hidden /\ Reply(v, IF read(v).op = "list" THEN "absent" ELSE "forbidden")
     \/ ~hidden /\ read(v).op = "file" /\ See(v, [view[v] EXCEPT !.step = "open"])
     \/ ~hidden /\ read(v).op # "file" /\ Reply(v, "shown")

\* The uploads whose entry the reader asks for and has been shown.
Named(v) == {e \in entry : e.id = read(v).id /\ e.id \in view[v].ids /\ e.says.what = "file"}

\* retrieveFile, by the name in the entry; it opens whatever the store has.
OpenFile(v) ==
  /\ view[v].step = "open"
  /\ \/ /\ \A e \in Named(v) : file[e.by] = "none"
        /\ Reply(v, "nofile")
     \/ \E e \in Named(v) : /\ file[e.by] # "none"
                            /\ Reply(v, IF file[e.by] = "whole" THEN "shown" ELSE "part")

ReadFails(v) ==
  /\ view[v].step # "done"
  /\ Reply(v, "error")

Read(v) ==
  \/ BeginRead(v) \/ ReadRow(v) \/ ReadEntries(v) \/ ReadRoster(v) \/ Assemble(v)
  \/ OpenFile(v) \/ ReadFails(v)

\* A server that stops breaks off what it was answering.
CrashRead ==
  /\ Crash
  /\ view' = [v \in Readers |-> IF view[v].step = "begin" THEN view[v]
                                ELSE [view[v] EXCEPT !.step = "done"]]

ReadFinished == (\A v \in Readers : view[v].step = "done") /\ Finished /\ UNCHANGED view

ReadNext ==
  \/ Step /\ UNCHANGED view
  \/ (\E v \in Readers : Read(v)) /\ UNCHANGED vars
  \/ CrashRead
  \/ ReadFinished

ReadSpec == ReadInit /\ [][ReadNext]_readVars

-----------------------------------------------------------------------------
(* Properties.                                                             *)

ViewTypeOK ==
  view \in [Readers -> [step : {"begin", "read", "open", "done"}, got : SUBSET Parts,
                        version : 0..MaxVersion, ids : SUBSET (1..nextEntry),
                        rows : SUBSET Rows,
                        answer : {"none", "forbidden", "notfound", "absent", "nofile", "part",
                                  "shown", "error"}]]

\* A page explains itself, although its queries share no snapshot, because of
\* the order they run in.  The version shown is the base of the next edit, so
\* every edit up to it is in the log shown: nobody overwrites what they were not
\* shown.  And the roster shown is not older than the log shown: what it says of
\* a Ranger is said by the newest entry shown about them, or by a later one.
PageExplainsItself ==
  \A v \in Readers : view[v].answer = "shown" /\ read(v).op = "page" /\ exists =>
    /\ \A e \in entry : e.says.what = "edit" /\ e.says.version <= view[v].version
                          => e.id \in view[v].ids
    /\ kind # "fieldReport" =>
       \A g \in Rangers :
         LET about == {e \in entry : e.says.what = "roster" /\ e.says.ranger = g}
             shown == {row.role : row \in {w \in view[v].rows : w.ranger = g}}
             newest == {e \in about : e.id \in view[v].ids}
         IN  newest # {} =>
               \E e \in about :
                 /\ \A f \in newest : f.id <= e.id
                 /\ shown = (IF e.says.on THEN {e.says.role} ELSE {})

\* Nobody who may only read their own Field Reports is shown one, in a list, on
\* a page or by a file of it, that they are not an author of; nor, if they may
\* only write their own, can they add to it.
OutsidersStayOut ==
  /\ OutsidersWriteNothing
  /\ \A v \in Readers :
       view[v].answer \in {"shown", "part"} /\ ReadLimited(read(v).user) =>
         ContainsAuthor(read(v).user, view[v].ids)

\* Whoever is shown the entry of an upload gets the whole file (retrieveFile),
\* since no entry is stored before its file is.
FilesAreServed ==
  /\ UploadsAreWhole
  /\ \A v \in Readers : read(v).op = "file" =>
       /\ view[v].answer # "part"
       /\ view[v].answer = "nofile" => Named(v) = {}
=============================================================================
