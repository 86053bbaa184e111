---------------------------- MODULE DatabaseCopy ----------------------------
(***************************************************************************)
(* `dbdock copydb`: one PostgreSQL database is copied over another, by a   *)
(* driver that sends the statements itself (--driver), or by pg_dump piped *)
(* into pg_restore.  src/cli/commands/{driver-copy,copydb}.ts.             *)
(*                                                                         *)
(* The application goes on writing to the source.  The driver reads each   *)
(* table in a snapshot of its own and writes it in batches; a batch whose  *)
(* answer is lost is sent again.  The servers, pg_dump and pg_restore are  *)
(* external.                                                               *)
(***************************************************************************)
EXTENDS Integers, Sequences, FiniteSets, SequencesExt

CONSTANTS
    Names,        \* the tables, in the order of their names
    Refs,         \* foreign keys: pairs of a table and the table it refers to
    Keyed,        \* tables with a primary key or a unique constraint
    Typed,        \* tables with a column of the enumerated type
    MaxId,        \* bound: rows ever in a table
    BatchSize,    \* DEFAULT_BATCH_SIZE, less for wide tables
    MaxRetries,   \* MAX_RETRIES
    Modes,        \* "full", "schema", "data"; "tools", "tools schema", "tools data" for pg_dump
    MaxWrites,    \* bound: rows the application writes
    MaxFailures   \* bound: failed statements and tools

Tables == ToSet(Names)
Ids == 1..MaxId

\* What the catalogue says of a table: the tables it refers to, whether a key keeps its
\* rows apart, and whether it has a column of the enumerated type.
getForeignKeys(t) == {u \in Tables : <<t, u>> \in Refs}
getPrimaryKey(t) == t \in Keyed
getEnums(t) == t \in Typed

ASSUME NamesAssumption == Names \in Seq(Tables)
ASSUME RefsAssumption == Refs \subseteq Tables \X Tables /\ Keyed \cup Typed \subseteq Tables
ASSUME SizesAssumption == BatchSize \in Nat \ {0} /\ MaxRetries \in Nat
ASSUME BoundsAssumption == MaxId \in Nat \ {0} /\ MaxWrites \in Nat /\ MaxFailures \in Nat
ASSUME ModesAssumption == 
    Modes \subseteq {"full", "schema", "data", "tools", "tools schema", "tools data"}

VARIABLES
    source,    \* the rows of each table of the source
    there,     \* the tables that exist in the target
    rows,      \* the rows of each table of the target
    doubled,   \* those of them that are there twice
    typed,     \* tables of the target that still have their enumerated column
    fks,       \* foreign keys of the target
    next,      \* the next id the target hands out in each table
    pc, mode, chosen,
    todo,      \* the tables the present loop has before it, in the order of the sort
    cursor,    \* the rows of the snapshot that are not fetched yet
    batch,     \* the rows on their way to the target
    tries,     \* how often they have been sent
    failed,    \* the tables whose copy was given up
    seen,      \* history: what the snapshot of each table held
    unset,     \* history: tables whose sequence, or a foreign key, was refused
    quiet,     \* history: the application has not written since the start
    dump,      \* pg_dump: running, ended, broken with a message, or silent
    errors,    \* pg_restore has passed over an error
    restored,  \* its exit code, Running while it has none
    writes, failures

target == <<there, rows, doubled, typed, fks, next>>
reading == <<cursor, batch, tries, seen>>
driver == <<todo, reading, failed, unset>>
tools == <<dump, errors, restored>>
vars == <<source, target, pc, mode, chosen, driver, tools, quiet, writes, failures>>

\* A row has an id and refers to rows of other tables.
Row == [id : Ids, refs : SUBSET (Tables \X Ids)]
IdsOf(rs) == {r.id : r \in rs}
Running == -1
Killed == 2        \* any code but 0 and 1, or none
Unread == [t \in {} |-> {}]

\* Every reference of rs along a foreign key in K is to a row that db has.
Resolved(t, rs, db, K) ==
    \A r \in rs : \A ref \in r.refs : <<t, ref[1]>> \in K => ref[2] \in IdsOf(db[ref[1]])

TypeOK ==
    /\ source \in [Tables -> SUBSET Row]
    /\ there \subseteq Tables
    /\ rows \in [Tables -> SUBSET Row]
    /\ \A t \in Tables : doubled[t] \subseteq rows[t] /\ (t \notin there => rows[t] = {})
    /\ typed \subseteq there \cap Typed
    /\ fks \subseteq Refs \cap (there \X there)
    /\ next \in [Tables -> 1..MaxId + 1]
    /\ pc \in {"idle", "drop", "types", "create", "truncate", "tables", "fetch", "insert",
               "sequences", "keys", "pipe", "copied", "failed"}
    /\ mode \in Modes
    /\ chosen \subseteq Tables
    /\ todo \subseteq chosen
    /\ cursor \in SUBSET Row /\ batch \in SUBSET Row
    /\ tries \in 0..MaxRetries
    /\ failed \subseteq chosen
    /\ \A t \in DOMAIN seen : t \in chosen /\ seen[t] \in SUBSET Row
    /\ unset \subseteq chosen
    /\ quiet \in BOOLEAN /\ errors \in BOOLEAN
    /\ dump \in {"running", "ended", "broken", "silent"}
    /\ restored \in {Running, 0, 1, Killed}
    /\ writes \in 0..MaxWrites /\ failures \in 0..MaxFailures

\* One row in every table, which refers to those of the others.
First(t) == [id |-> 1, refs |-> {<<u, 1>> : u \in getForeignKeys(t)}]

\* The target is new, or holds an older copy with all its constraints.
Init ==
    /\ source = [t \in Tables |-> {First(t)}]
    /\ there \in {{}, Tables}
    /\ rows = [t \in Tables |-> IF t \in there THEN {First(t)} ELSE {}]
    /\ doubled = [t \in Tables |-> {}]
    /\ typed = there \cap Typed
    /\ fks = Refs \cap (there \X there)
    /\ next = [t \in Tables |-> IF t \in there THEN 2 ELSE 1]
    /\ pc = "idle" /\ mode \in Modes /\ chosen = {}
    /\ todo = {} /\ cursor = {} /\ batch = {} /\ tries = 0
    /\ failed = {} /\ seen = Unread /\ unset = {}
    /\ dump = "running" /\ errors = FALSE /\ restored = Running
    /\ quiet = TRUE
    /\ writes = 0 /\ failures = 0

-----------------------------------------------------------------------------
(* The application: it keeps the source's own foreign keys.                *)

MayHold(t, rs) == \A u \in Tables : Resolved(u, IF u = t THEN rs ELSE source[u],
                                             [source EXCEPT ![t] = rs], Refs)

Write(t) ==
    /\ writes < MaxWrites
    /\ writes' = writes + 1
    /\ \/ \E r \in Row : /\ r.id \notin IdsOf(source[t])
                         /\ {ref[1] : ref \in r.refs} = getForeignKeys(t)
                         /\ MayHold(t, source[t] \cup {r})
                         /\ source' = [source EXCEPT ![t] = @ \cup {r}]
       \/ \E r \in source[t] : /\ MayHold(t, source[t] \ {r})
                               /\ source' = [source EXCEPT ![t] = @ \ {r}]
    /\ quiet' = (quiet /\ pc = "idle")
    /\ UNCHANGED <<target, pc, mode, chosen, driver, tools, failures>>

-----------------------------------------------------------------------------
(* Order.  A table comes after those it refers to, itself and cycles       *)
(* excepted.                                                               *)

\* The first of ts in the order of the names.
FirstOf(ts) ==
    Names[CHOOSE i \in DOMAIN Names :
             Names[i] \in ts /\ \A j \in DOMAIN Names : Names[j] \in ts => i <= j]

\* The tables to go to from v, a state of the search: those the innermost table on the
\* way refers to, or all, that are neither on the way nor sorted.
Ways(v) ==
    (IF v.visiting = <<>> THEN Tables ELSE getForeignKeys(Last(v.visiting)))
        \ (ToSet(v.visiting) \cup ToSet(v.sorted))

\* A table is entered, or left and sorted.
Step(v) ==
    IF Ways(v) # {} THEN [v EXCEPT !.visiting = Append(@, FirstOf(Ways(v)))]
    ELSE IF v.visiting # <<>>
    THEN [visiting |-> Front(v.visiting), sorted |-> Append(v.sorted, Last(v.visiting))]
    ELSE v

visit[n \in 0..2 * Len(Names)] ==
    IF n = 0 THEN [visiting |-> <<>>, sorted |-> <<>>] ELSE Step(visit[n - 1])

\* Slip: the order of the names.
NameOrder == Names

topologicalSort == visit[2 * Len(Names)].sorted

Rank(t) == CHOOSE i \in DOMAIN topologicalSort : topologicalSort[i] = t

\* The table a loop has come to, and the first of a loop in reverse.
table == CHOOSE t \in todo : \A u \in todo : Rank(t) <= Rank(u)
lastTable == CHOOSE t \in todo : \A u \in todo : Rank(u) <= Rank(t)

-----------------------------------------------------------------------------
(* The driver: the schema.                                                 *)

outside == <<source, mode, quiet, writes>>

Wanted == Refs \cap (chosen \X chosen)

\* What is asked of the target next, and what the tables of a loop are.
Goes(to, tables) == pc' = to /\ todo' = tables

\* An error ends the command; nothing is taken back.
StatementFails ==
    /\ pc \in {"drop", "types", "create", "truncate"}
    /\ failures < MaxFailures
    /\ failures' = failures + 1
    /\ pc' = "failed"
    /\ UNCHANGED <<outside, target, chosen, driver, tools>>

Start(tables) ==
    /\ pc = "idle" /\ mode \in {"full", "schema", "data"}
    /\ tables # {}
    /\ chosen' = tables
    /\ Goes(IF mode = "data" THEN "truncate" ELSE "drop", tables)
    /\ UNCHANGED <<outside, target, reading, failed, unset, tools, failures>>

\* DROP TABLE IF EXISTS ... CASCADE takes the foreign keys of others along.
Drop(t) ==
    /\ there' = there \ {t}
    /\ rows' = [rows EXCEPT ![t] = {}]
    /\ doubled' = [doubled EXCEPT ![t] = {}]
    /\ typed' = typed \ {t}
    /\ fks' = {k \in fks : t \notin {k[1], k[2]}}
    /\ UNCHANGED next

DropTable ==
    /\ pc = "drop"
    /\ IF todo = {}
       THEN Goes("types", {}) /\ UNCHANGED target
       ELSE Goes("drop", todo \ {lastTable}) /\ Drop(lastTable)
    /\ UNCHANGED <<outside, chosen, reading, failed, unset, tools, failures>>

\* DROP TYPE ... CASCADE takes the columns of tables that were not dropped.
ReplaceTypes ==
    /\ pc = "types"
    /\ typed' = IF \E t \in chosen : getEnums(t) THEN {} ELSE typed
    /\ Goes("create", chosen)
    /\ UNCHANGED <<outside, there, rows, doubled, fks, next, chosen, reading, failed, unset,
                   tools, failures>>

\* CREATE TABLE fails if it is there, a sequence starts at one.
Create(t) ==
    /\ there' = there \cup {t}
    /\ typed' = typed \cup {u \in {t} : getEnums(u)}
    /\ next' = [next EXCEPT ![t] = 1]
    /\ UNCHANGED <<rows, doubled, fks>>

CreateTable ==
    /\ pc = "create"
    /\ IF todo # {}
       THEN Goes("create", todo \ {table}) /\ Create(table)
       ELSE Goes(IF mode = "schema" THEN "keys" ELSE "tables", chosen) /\ UNCHANGED target
    /\ UNCHANGED <<outside, chosen, reading, failed, unset, tools, failures>>

\* The tables from which a foreign key of the target leads to one of ts.
Cascade(ts) ==
    {t \in there : \A S \in SUBSET Tables :
        ts \subseteq S /\ (\A k \in fks : k[2] \in S => k[1] \in S) => t \in S}

\* TRUNCATE ... CASCADE; all its tables have to be there.
Truncate ==
    /\ pc = "truncate"
    /\ IF chosen \subseteq there
       THEN /\ rows' = [t \in Tables |-> IF t \in Cascade(chosen) THEN {} ELSE rows[t]]
            /\ doubled' = [t \in Tables |-> doubled[t] \cap rows'[t]]
            /\ Goes("tables", chosen)
       ELSE Goes("failed", {}) /\ UNCHANGED <<rows, doubled>>
    /\ UNCHANGED <<outside, there, typed, fks, next, chosen, reading, failed, unset, tools,
                   failures>>

-----------------------------------------------------------------------------
(* The driver: the rows of a table, in batches from one snapshot.          *)

OpenCursor ==
    /\ pc = "tables"
    /\ IF todo = {}
       THEN Goes("sequences", chosen) /\ UNCHANGED <<cursor, seen>>
       ELSE /\ pc' = "fetch"
            /\ cursor' = source[table]
            /\ seen' = [t \in DOMAIN seen \cup {table} |->
                            IF t = table THEN source[t] ELSE seen[t]]
            /\ UNCHANGED todo
    /\ UNCHANGED <<outside, target, chosen, batch, tries, failed, unset, tools, failures>>

\* The next table; the spinner says which one failed.
TableEnds(given) ==
    /\ Goes("tables", todo \ {table})
    /\ failed' = failed \cup given
    /\ cursor' = {} /\ batch' = {} /\ tries' = 0
    /\ UNCHANGED <<seen, unset>>

Fetch ==
    /\ pc = "fetch"
    /\ IF cursor = {}
       THEN TableEnds({})
       ELSE \E rs \in SUBSET cursor :
               /\ \/ Cardinality(rs) = BatchSize
                  \/ rs = cursor /\ Cardinality(rs) < BatchSize
               /\ batch' = rs /\ cursor' = cursor \ rs
               /\ pc' = "insert"
               /\ UNCHANGED <<todo, tries, failed, seen, unset>>
    /\ UNCHANGED <<outside, target, chosen, tools, failures>>

\* Slip: a batch that is sent again lands again.
LandsAgain(t, rs) ==
    /\ doubled' = [doubled EXCEPT ![t] = @ \cup (rs \cap rows[t])]
    /\ rows' = [rows EXCEPT ![t] = @ \cup rs]
    /\ UNCHANGED <<there, typed, fks, next>>

\* ON CONFLICT DO NOTHING: of a keyed table only new rows land.
Lands(t, rs) ==
    LET new == {r \in rs : getPrimaryKey(t) => r.id \notin IdsOf(rows[t])}
    IN  /\ doubled' = [doubled EXCEPT ![t] = @ \cup (new \cap rows[t])]
        /\ rows' = [rows EXCEPT ![t] = @ \cup new]
        /\ UNCHANGED <<there, typed, fks, next>>

\* The target's own foreign keys hold at the end of the statement.
Accepted(t, rs) ==
    t \in there /\ Resolved(t, rs, [rows EXCEPT ![t] = @ \cup rs], fks)

Insert ==
    /\ pc = "insert"
    /\ Accepted(table, batch)
    /\ Lands(table, batch)
    /\ IF Cardinality(batch) < BatchSize
       THEN TableEnds({})
       ELSE /\ pc' = "fetch" /\ batch' = {} /\ tries' = 0
            /\ UNCHANGED <<todo, cursor, failed, seen, unset>>
    /\ UNCHANGED <<outside, chosen, tools, failures>>

\* The connection is lost before the batch lands or before its answer is back.
InsertLost ==
    /\ pc = "insert"
    /\ failures < MaxFailures
    /\ failures' = failures + 1
    /\ \/ Accepted(table, batch) /\ Lands(table, batch)
       \/ UNCHANGED target
    /\ IF tries = MaxRetries
       THEN TableEnds({table})
       ELSE tries' = tries + 1 /\ UNCHANGED <<pc, todo, cursor, batch, seen, failed, unset>>
    /\ UNCHANGED <<outside, chosen, tools>>

\* A violated constraint is not retried.
InsertRefused ==
    /\ pc = "insert"
    /\ ~Accepted(table, batch)
    /\ TableEnds({table})
    /\ UNCHANGED <<outside, target, chosen, tools, failures>>

\* BEGIN, DECLARE, FETCH, CLOSE or COMMIT fail on the source.
ReadFails ==
    /\ pc = "fetch"
    /\ failures < MaxFailures
    /\ failures' = failures + 1
    /\ TableEnds({table})
    /\ UNCHANGED <<outside, target, chosen, tools>>

-----------------------------------------------------------------------------
(* The driver: sequences and foreign keys, each error passed over.         *)

\* Slip: the ids are taken to be without gaps.
Counted(rs) == Cardinality(rs)

Largest(rs) == CHOOSE i \in IdsOf(rs) : \A j \in IdsOf(rs) : j <= i

\* Slip: the loop over the foreign keys gets the tables that are left.
ResetSequenceLast ==
    /\ pc = "sequences"
    /\ IF todo = {}
       THEN Goes(IF mode = "data" THEN "copied" ELSE "keys", todo) /\ UNCHANGED next
       ELSE /\ Goes("sequences", todo \ {table})
            /\ next' = IF rows[table] = {} THEN next
                       ELSE [next EXCEPT ![table] = Largest(rows[table]) + 1]
    /\ UNCHANGED <<outside, there, rows, doubled, typed, fks, chosen, reading, failed, unset,
                   tools, failures>>

ResetSequence ==
    /\ pc = "sequences"
    /\ IF todo = {}
       THEN /\ Goes(IF mode = "data" THEN "copied" ELSE "keys", chosen)
            /\ UNCHANGED <<next, unset, failures>>
       ELSE /\ Goes("sequences", todo \ {table})
            /\ \/ /\ next' = IF rows[table] = {} THEN next
                             ELSE [next EXCEPT ![table] = Largest(rows[table]) + 1]
                  /\ UNCHANGED <<unset, failures>>
               \/ /\ failures < MaxFailures
                  /\ failures' = failures + 1
                  /\ unset' = unset \cup {table}
                  /\ UNCHANGED next
    /\ UNCHANGED <<outside, there, rows, doubled, typed, fks, chosen, reading, failed, tools>>

\* ALTER TABLE ... ADD CONSTRAINT, for those between chosen tables.
AddKeys ==
    /\ pc = "keys"
    /\ IF todo = {}
       THEN Goes("copied", {}) /\ UNCHANGED <<fks, unset, failures>>
       ELSE LET t == table
                own == {k \in Wanted : k[1] = t /\ Resolved(t, rows[t], rows, {k})}
            IN  /\ Goes("keys", todo \ {table})
                /\ \/ fks' = fks \cup own /\ UNCHANGED <<unset, failures>>
                   \/ /\ failures < MaxFailures
                      /\ failures' = failures + 1
                      /\ unset' = unset \cup {t}
                      /\ UNCHANGED fks
    /\ UNCHANGED <<outside, there, rows, doubled, typed, next, chosen, reading, failed, tools>>

-----------------------------------------------------------------------------
(* pg_dump | pg_restore: one snapshot, an archive that may be cut off.     *)

Spawn ==
    /\ pc = "idle" /\ mode \in {"tools", "tools schema", "tools data"}
    /\ chosen' = Tables
    /\ Goes("pipe", IF mode = "tools schema" THEN {} ELSE Tables)
    /\ seen' = source
    /\ UNCHANGED <<outside, target, cursor, batch, tries, failed, unset, tools, failures>>

\* One of the two cannot be started, which its 'error' tells.
SpawnError ==
    /\ pc = "pipe" /\ dump = "running" /\ restored = Running
    /\ failures < MaxFailures
    /\ failures' = failures + 1
    /\ pc' = "failed"
    /\ UNCHANGED <<outside, target, chosen, driver, tools>>

\* --clean --if-exists: the schema is replaced before the first rows come.
Replaced == mode = "tools data" \/ (there = Tables /\ fks = {})

Clean ==
    /\ pc = "pipe" /\ restored = Running
    /\ dump = "running" /\ ~Replaced
    /\ there' = Tables /\ typed' = Typed /\ fks' = {}
    /\ rows' = [t \in Tables |-> {}] /\ doubled' = rows'
    /\ next' = [t \in Tables |-> 1]
    /\ UNCHANGED <<outside, pc, chosen, driver, tools, failures>>

\* One COPY: all of the rows, or an error and none.
Load ==
    /\ pc = "pipe" /\ restored = Running
    /\ dump = "running" /\ Replaced /\ todo # {}
    /\ LET t == table
           fits == /\ Accepted(t, seen[t])
                   /\ getPrimaryKey(t) => IdsOf(rows[t]) \cap IdsOf(seen[t]) = {}
       IN  IF fits THEN Lands(t, seen[t]) /\ UNCHANGED errors
                   ELSE errors' = TRUE /\ UNCHANGED target
    /\ todo' = todo \ {table}
    /\ UNCHANGED <<outside, pc, chosen, reading, failed, unset, dump, restored, failures>>

\* Once nobody reads it, pg_dump waits.
DumpEnds ==
    /\ pc = "pipe" /\ dump = "running"
    /\ \/ /\ Replaced /\ todo = {} /\ restored = Running
          /\ dump' = "ended" /\ UNCHANGED failures
       \/ /\ failures < MaxFailures
          /\ failures' = failures + 1
          /\ dump' \in {"broken", "silent"}
    /\ UNCHANGED <<outside, target, pc, chosen, driver, errors, restored>>

\* Sequences and keys come last; an archive without its end is an error.
RestoreEnds ==
    /\ pc = "pipe" /\ restored = Running
    /\ dump # "running"
    /\ IF dump = "ended"
       THEN /\ restored' = IF errors THEN 1 ELSE 0
            /\ next' = [t \in Tables |-> IF mode = "tools schema" \/ seen[t] = {} THEN next[t]
                                         ELSE Largest(seen[t]) + 1]
            /\ fks' = IF mode = "tools data" THEN fks
                      ELSE {k \in Refs : Resolved(k[1], rows[k[1]], rows, {k})}
       ELSE restored' = 1 /\ UNCHANGED <<next, fks>>
    /\ UNCHANGED <<outside, there, rows, doubled, typed, pc, chosen, driver, dump, errors,
                   failures>>

\* It gives up, or is killed, while pg_dump goes on: a connection, a server, a disk.
RestoreDies ==
    /\ pc = "pipe" /\ restored = Running
    /\ failures < MaxFailures
    /\ failures' = failures + 1
    /\ restored' \in {1, Killed}
    /\ UNCHANGED <<outside, target, pc, chosen, driver, dump, errors>>

\* What pg_dump still sends into a closed pipe is an error that nobody listens for.
PipeBreaks ==
    /\ pc = "pipe" /\ restored # Running /\ dump = "running"
    /\ pc' = "failed"
    /\ UNCHANGED <<outside, target, chosen, driver, tools, failures>>

\* 'close' of pg_dump: a code with a message stops pg_restore.
DumpClosed ==
    /\ pc = "pipe" /\ dump = "broken"
    /\ pc' = "failed"
    /\ UNCHANGED <<outside, target, chosen, driver, tools, failures>>

\* Slip: both have to have ended.
BothClosed ==
    /\ pc = "pipe" /\ restored # Running /\ dump # "running"
    /\ pc' = IF restored \in {0, 1} THEN "copied" ELSE "failed"
    /\ UNCHANGED <<outside, target, chosen, driver, tools, failures>>

\* 'close' of pg_restore: 0 and 1 are success.
RestoreClosed ==
    /\ pc = "pipe" /\ restored # Running
    /\ pc' = IF restored \in {0, 1} THEN "copied" ELSE "failed"
    /\ UNCHANGED <<outside, target, chosen, driver, tools, failures>>

-----------------------------------------------------------------------------
Driver ==
    \/ \E tables \in SUBSET Tables : Start(tables)
    \/ DropTable \/ ReplaceTypes \/ CreateTable \/ Truncate
    \/ OpenCursor \/ Fetch \/ Insert \/ InsertLost \/ InsertRefused \/ ReadFails
    \/ ResetSequence \/ AddKeys \/ StatementFails

Tools ==
    \/ Spawn \/ SpawnError \/ Clean \/ Load \/ DumpEnds \/ RestoreEnds \/ RestoreDies
    \/ DumpClosed \/ RestoreClosed

Finished ==
    pc \in {"copied", "failed"} /\ UNCHANGED vars

Next == (\E t \in Tables : Write(t)) \/ Driver \/ Tools \/ PipeBreaks \/ Finished

Spec == Init /\ [][Next]_vars

\* Nothing but answers is waited for, and every query has a timeout; whether a closed pipe
\* is written to is chance.
FairSpec == Spec /\ WF_vars(Driver \/ Tools)

-----------------------------------------------------------------------------
(* Properties.                                                             *)

Current == IF pc \in {"fetch", "insert"} THEN {table} ELSE {}
Complete == (DOMAIN seen \cap chosen) \ (failed \cup Current)

\* A table the driver reports as copied holds what the source held at one
\* moment, whatever the application wrote meanwhile and however often a batch was
\* sent; a key keeps its rows from being there twice (driver-copy.ts:517-592).
CopiedRight ==
    mode \in {"full", "data"} =>
        \A t \in Complete : rows[t] = seen[t] /\ (getPrimaryKey(t) => doubled[t] = {})

\* When the copy says it succeeded, the ids the target hands out next are above
\* those of all rows, also those of tables that were copied in part
\* (driver-copy.ts:594-636, 929-957).
FreshIds ==
    pc = "copied" /\ mode \in {"full", "data"} =>
        \A t \in chosen \ unset : \A i \in IdsOf(rows[t]) : i < next[t]

\* A foreign key between two chosen tables is only missing after a full copy when
\* a table failed or the application wrote meanwhile: each table has a snapshot
\* of its own (driver-copy.ts:539-545, 814-832, 960-988).
KeysComplete ==
    pc = "copied" /\ mode = "full" /\ failed \cup unset = {} /\ quiet => Wanted \subseteq fks

\* The tables whose rows wait for rows of t itself, along foreign keys.
Behind(t) == {u \in Tables : \A S \in SUBSET Tables :
    t \in S /\ (\A k \in Refs : k[2] \in S => k[1] \in S) => u \in S}

\* Tables that refer, by themselves or through others, to themselves.
Cyclic == {t \in Tables : \E u \in getForeignKeys(t) : u \in Behind(t)}

\* Rows alone are copied into a schema whose foreign keys hold: with every table
\* chosen and nobody writing, the order has all accepted, but for the tables
\* behind one on a cycle: its rows come as the snapshot has them, and a batch
\* without the row referred to is refused (driver-copy.ts:381-410, 556-575, 930).
DataAccepted ==
    pc = "copied" /\ mode = "data" /\ chosen = Tables /\ quiet /\ failures = 0
        => failed \subseteq UNION {Behind(t) : t \in Cyclic}

\* Whoever starts a copy is told how it ended, whichever of pg_dump and pg_restore fails
\* or dies first, with a message or in silence, while the other goes on, and however many
\* statements of the driver fail (driver-copy.ts:489-515, 547-580, copydb.ts:342-440).
Ends == <>(pc \in {"copied", "failed"})
=============================================================================
