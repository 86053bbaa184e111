-------------------------- MODULE MongoToPostgres --------------------------
(***************************************************************************)
(* `dbdock migrate` from MongoDB to PostgreSQL: a plan is drawn up from a  *)
(* sample of the documents, tables are made after it, documents are read   *)
(* in batches and written as rows, nested objects and array elements as    *)
(* rows of child tables.  src/migration, src/cli/commands/cross-migrate.ts.*)
(*                                                                         *)
(* There is no transaction: each INSERT stands on its own, and when one of *)
(* a batch is refused its documents are written again one by one.  The     *)
(* application goes on writing documents; the plan may be older than they. *)
(***************************************************************************)
EXTENDS Integers, Sequences, FiniteSets, SequencesExt, FiniteSetsExt

CONSTANTS
    Collections,   \* in the order MongoDB lists them
    Refers,        \* the collection that the name of a reference stands for
    Shapes,        \* what the documents of each collection may look like
    MaxId,         \* bound: documents ever in a collection
    Initial,       \* the shapes of those that are there at first, in the order of their ids
    SampleSize,    \* SAMPLE_SIZE
    BatchSize,     \* options.batchSize
    MaxRows,       \* rows in a statement: MAX_PARAMS over the columns
    MaxWrites,     \* bound: documents the application writes
    Modes,         \* what is asked of a run: dry, and incremental
    MaxRuns,       \* bound: runs with the same plan
    MaxFailures    \* bound: failures of a server or of the connection

Types == {"int", "string"}

\* The fields of a document; `list`: the array is there, be it empty.
Shape == [value : Types \cup {"none"}, ref : 0..MaxId,
          nested : Types \cup {"none", "empty", "scalar"},
          list : BOOLEAN, items : Seq(Types \cup {"null", "empty", "object"})]
Cols == ToSet(Collections)
Ids == 1..MaxId

ASSUME CollectionsAssumption == Collections \in Seq(Cols) /\ IsInjective(Collections)
ASSUME ShapesAssumption ==
    \A c \in Cols : \A s \in Shapes[c] : s \in Shape /\ (s.list \/ s.items = <<>>)
ASSUME RefersAssumption == \A c \in Cols : Refers[c] \in Cols \cup {"none"}
ASSUME InitialAssumption == \A c \in Cols : Initial[c] \in Seq(Shapes[c]) /\ Len(Initial[c]) <= MaxId
ASSUME ModesAssumption == Modes \subseteq BOOLEAN \X BOOLEAN
ASSUME SizesAssumption == {SampleSize, BatchSize, MaxRows} \subseteq Nat \ {0}
ASSUME BoundsAssumption == {MaxId, MaxWrites, MaxRuns, MaxFailures} \subseteq Nat

VARIABLES
    docs,       \* documents of each collection: id, shape, written since the analysis
    plan,       \* the mapping of each collection analysed so far
    rows,       \* rows of the tables, by schema
    kids,       \* rows of the child tables, by schema: how often each is there
    keys,       \* foreign keys, by schema
    log,        \* _migration_errors, by schema
    pc, dry, incremental,
    left,       \* collections still to be analysed or migrated
    due,        \* ids of the documents the cursor has to return
    fetched,    \* ids of those it has returned
    batch,      \* documents on their way
    pending,    \* the rows they become that are still to be written
    errors,     \* documents given up, in this run
    connected,  \* the connection to PostgreSQL
    result,     \* what the command said last
    arrived,    \* history: rows of the documents, read in this run and not given up
    alone,      \* history: documents that were written one by one
    runs, writes, failures

target == <<rows, kids, keys, log>>
reading == <<due, fetched, batch, pending>>
outcome == <<errors, result, arrived, alone>>
vars == <<docs, plan, target, pc, dry, incremental, left, reading, outcome, connected,
          runs, writes, failures>>

Schemas == {"public", "_dbdock_dryrun"}
schema == IF dry THEN "_dbdock_dryrun" ELSE "public"
Empty == [k \in {} |-> 0]

\* A child row: its table, its parent's id and its place in the document.
Indexes == {0} \cup UNION {DOMAIN s.items : s \in UNION {Shapes[c] : c \in Cols}}
Kid == Cols \X {"nested", "items"} \X Ids \X Indexes
Mapping == [value : Types \cup {"no"}, valueNeeded : BOOLEAN,
            ref : BOOLEAN, refNeeded : BOOLEAN,
            nested : {"no", "text", "jsonb", "table"}, nestedNeeded : BOOLEAN,
            part : Types, partNeeded : BOOLEAN,
            items : {"no", "child_table", "array_column", "junction"},
            element : Types, elementNeeded : BOOLEAN]

TypeOK ==
    /\ \A c \in Cols : \A d \in docs[c] :
          d.id \in Ids /\ d.shape \in Shapes[c] /\ d.new \in BOOLEAN
    /\ DOMAIN plan \subseteq Cols /\ \A c \in DOMAIN plan : plan[c] \in Mapping
    /\ \A s \in Schemas :
          /\ rows[s] \subseteq Cols \X Ids \X (0..MaxId)
          /\ DOMAIN kids[s] \subseteq Kid /\ \A k \in DOMAIN kids[s] : kids[s][k] \in 1..2 * MaxRuns
          /\ keys[s] \subseteq Cols \X {"ref", "nested", "items"}
          /\ log[s] \subseteq Cols \X Ids
    /\ pc \in {"analyse", "planned", "create", "open", "read", "flush", "alone", "keys",
               "errors", "close", "ended"}
    /\ dry \in BOOLEAN /\ incremental \in BOOLEAN /\ connected \in BOOLEAN
    /\ left \in Seq(Cols)
    /\ due \subseteq Ids /\ fetched \subseteq Ids
    /\ \A p \in pending : p.table \in {"rows", "nested", "items"} /\ p.fits \in BOOLEAN
    /\ errors \subseteq Cols \X Ids
    /\ arrived \subseteq Cols \X {"rows", "nested", "items"} \X Ids \X Indexes
    /\ \A a \in arrived : <<a[1], a[3]>> \notin errors
    /\ alone \subseteq Cols \X Ids
    /\ result \in {"none", "success", "issues", "failed"}
    /\ runs \in 0..MaxRuns /\ writes \in 0..MaxWrites /\ failures \in 0..MaxFailures

Init ==
    /\ docs = [c \in Cols |-> {[id |-> i, shape |-> Initial[c][i], new |-> FALSE] :
                                  i \in DOMAIN Initial[c]}]
    /\ plan = Empty
    /\ rows = [s \in Schemas |-> {}] /\ kids = [s \in Schemas |-> Empty]
    /\ keys = [s \in Schemas |-> {}] /\ log = [s \in Schemas |-> {}]
    /\ pc = "analyse" /\ dry = FALSE /\ incremental = FALSE
    /\ left = Collections
    /\ due = {} /\ fetched = {} /\ batch = {} /\ pending = {}
    /\ errors = {} /\ arrived = {} /\ alone = {}
    /\ connected = TRUE /\ result = "none"
    /\ runs = 0 /\ writes = 0 /\ failures = 0

-----------------------------------------------------------------------------
(* The application.                                                        *)

\* A new document, or another shape for one that is there.
Write(c) ==
    /\ writes < MaxWrites
    /\ writes' = writes + 1
    /\ \E i \in Ids, s \in Shapes[c] :
          docs' = [docs EXCEPT ![c] = {d \in @ : d.id # i}
                                      \cup {[id |-> i, shape |-> s, new |-> TRUE]}]
    /\ UNCHANGED <<plan, target, pc, dry, incremental, left, reading, outcome, connected,
                   runs, failures>>

-----------------------------------------------------------------------------
(* The analysis and the plan.                                              *)

\* frequency = 100: counted once per occurrence, over the documents sampled.
Always(n, sample) == n >= Cardinality(sample)

Occurs(sample, elements) ==
    FoldSet(LAMBDA d, n : n + Len(SelectSeq(d.shape.items, LAMBDA e : e \in elements)), 0, sample)

\* resolveMajorityType; a tie goes to the type that was met first.
Majority(count) == {t \in Types : \A u \in Types : count[u] <= count[t]}

\* handleNestedObject, or a plain column when no sampled document has an object.
NestedStrategy(sample) ==
    LET has(kinds) == {d \in sample : d.shape.nested \in kinds}
    IN  IF has(Types \cup {"empty"}) # {}
        THEN IF 2 * Cardinality(has(Types)) > Cardinality(sample) THEN "table" ELSE "jsonb"
        ELSE IF has({"scalar"}) # {} THEN "text" ELSE "no"

\* handleArray, for a field that is an array in some sampled document: one whose
\* arrays are all empty gets a junction table.
ItemsStrategy(sample) ==
    IF \A d \in sample : ~d.shape.list THEN "no"
    ELSE IF Occurs(sample, {"object"}) > 0 THEN "child_table"
    ELSE IF Occurs(sample, Types) > 0 /\ Occurs(sample, {"empty"}) = 0 THEN "array_column"
    ELSE "junction"

\* mapCollection and processField, over what buildFieldInfos found.
Mappings(sample) ==
    LET has(f, kinds) == Cardinality({d \in sample : d.shape[f] \in kinds})
        values == [t \in Types |-> has("value", {t})]
        parts == [t \in Types |-> has("nested", {t})]
        elements == {t \in Types : Occurs(sample, {t}) > 0}
        items == ItemsStrategy(sample)
    IN  {[value |-> IF has("value", Types) = 0 THEN "no" ELSE v,
          valueNeeded |-> Always(has("value", Types), sample),
          ref |-> has("ref", Ids) > 0,
          refNeeded |-> Always(has("ref", Ids), sample),
          nested |-> NestedStrategy(sample),
          nestedNeeded |-> Always(has("nested", Types \cup {"empty", "scalar"}), sample),
          part |-> p,
          partNeeded |-> Always(has("nested", Types), sample),
          items |-> items,
          element |-> e,
          elementNeeded |-> IF items = "child_table"
                            THEN Always(Occurs(sample, {"object"}), sample) ELSE TRUE] :
            v \in Majority(values), p \in Majority(parts),
            e \in IF elements = {} THEN {"string"} ELSE elements}

\* Everything is sampled, or SAMPLE_SIZE documents at random.
Samples(c) ==
    IF Cardinality(docs[c]) <= SampleSize THEN {docs[c]} ELSE kSubset(SampleSize, docs[c])

AnalyseCollection ==
    /\ pc = "analyse"
    /\ IF left = <<>>
       THEN pc' = "planned" /\ UNCHANGED <<plan, left>>
       ELSE /\ \E sample \in Samples(Head(left)) : \E m \in Mappings(sample) :
                  plan' = [c \in DOMAIN plan \cup {Head(left)} |->
                              IF c = Head(left) THEN m ELSE plan[c]]
            /\ left' = Tail(left)
            /\ UNCHANGED pc
    /\ UNCHANGED <<docs, target, dry, incremental, reading, outcome, connected, runs, writes,
                   failures>>

-----------------------------------------------------------------------------
(* What PostgreSQL takes.                                                  *)

Stored(value, type) == value = "string" => type = "string"

\* A document's row: buildDocumentRow against createTable.
RowFits(m, s) ==
    /\ m.value # "no" => IF s.value = "none" THEN ~m.valueNeeded ELSE Stored(s.value, m.value)
    /\ m.ref /\ m.refNeeded => s.ref # 0
    /\ m.nested \in {"text", "jsonb"} /\ m.nestedNeeded => s.nested # "none"

\* The row of a nested object: buildNestedRow.
PartFits(m, s) == IF s.nested \in Types THEN Stored(s.nested, m.part) ELSE ~m.partNeeded

\* The row of an array element: buildArrayRow.
ElementFits(m, e) ==
    CASE m.items = "child_table" -> ~m.elementNeeded \/ e = "object"
      [] m.items = "array_column" ->
            e # "null" /\ (e \in {"string", "object", "empty"} => m.element = "string")
      [] m.items = "junction" -> e \notin {"null", "string"}

Pending(table, d, index, fits) ==
    [table |-> table, id |-> d.id, ref |-> d.shape.ref, index |-> index, fits |-> fits]

\* The rows a document becomes: its own, that of its object, those of its elements.
OwnRow(c, d) == {Pending("rows", d, 0, RowFits(plan[c], d.shape))}
NestedRow(c, d) ==
    {Pending("nested", d, 0, PartFits(plan[c], d.shape)) :
        n \in {d.shape.nested} \cap (Types \cup {"empty"})}
ItemRows(c, d) ==
    {Pending("items", d, i, ElementFits(plan[c], d.shape.items[i])) : i \in DOMAIN d.shape.items}

\* processBatch, insertDocument.
RowsFor(c, ds) ==
    UNION {OwnRow(c, d)
           \cup (IF plan[c].nested = "table" THEN NestedRow(c, d) ELSE {})
           \cup (IF plan[c].items # "no" THEN ItemRows(c, d) ELSE {}) : d \in ds}

-----------------------------------------------------------------------------
(* A run.                                                                  *)

outside == <<docs, plan, writes>>
settings == <<dry, incremental, runs>>

\* The process ends, by itself or on an error that nothing catches.
Exit(said) ==
    /\ pc' = "ended" /\ result' = said
    /\ left' = <<>> /\ due' = {} /\ fetched' = {} /\ batch' = {} /\ pending' = {}

\* A server refuses a statement, or the connection to PostgreSQL is gone for good.
Fails(mayBreak) ==
    \/ ~connected /\ UNCHANGED <<connected, failures>>
    \/ /\ failures < MaxFailures
       /\ failures' = failures + 1
       /\ connected' \in {connected, connected /\ ~mayBreak}

Answers == connected /\ UNCHANGED <<connected, failures>>

Start ==
    /\ pc \in {"planned", "ended"}
    /\ runs < MaxRuns
    /\ runs' = runs + 1
    /\ \E m \in Modes : dry' = m[1] /\ incremental' = m[2]
    /\ pc' = "create"
    /\ left' = Collections /\ connected' = TRUE
    /\ errors' = {} /\ arrived' = {} /\ result' = "none"
    /\ UNCHANGED <<outside, target, reading, alone, failures>>

\* Slip: a dry run makes its tables where the others are.
PublicTables ==
    /\ pc = "create"
    /\ Answers
    /\ IF dry
       THEN /\ rows' = [rows EXCEPT !["public"] = {}] /\ kids' = [kids EXCEPT !["public"] = Empty]
            /\ keys' = [keys EXCEPT !["public"] = {}] /\ log' = [log EXCEPT !["public"] = {}]
       ELSE UNCHANGED target
    /\ pc' = "open"
    /\ UNCHANGED <<outside, settings, left, reading, outcome>>

\* A dry run gets a new schema; else the tables are made when they are missing.
CreateAllTables ==
    /\ pc = "create"
    /\ Answers
    /\ IF dry
       THEN /\ rows' = [rows EXCEPT ![schema] = {}] /\ kids' = [kids EXCEPT ![schema] = Empty]
            /\ keys' = [keys EXCEPT ![schema] = {}] /\ log' = [log EXCEPT ![schema] = {}]
       ELSE UNCHANGED target
    /\ pc' = "open"
    /\ UNCHANGED <<outside, settings, left, reading, outcome>>

\* MongoDB or PostgreSQL fail where nothing catches it.
RunFails ==
    /\ pc \in {"create", "open", "read"} \/ (pc = "close" /\ dry)
    /\ pc \in {"create", "close"} => Fails(TRUE)
    /\ pc \in {"open", "read"} => /\ failures < MaxFailures
                                  /\ failures' = failures + 1 /\ UNCHANGED connected
    /\ Exit("failed")
    /\ UNCHANGED <<outside, settings, target, errors, arrived, alone>>

Asked(c) == {d \in docs[c] : incremental => d.new}

OpenCollection ==
    /\ pc = "open"
    /\ IF left = <<>>
       THEN pc' = "keys" /\ UNCHANGED <<due, fetched>>
       ELSE /\ pc' = "read"
            /\ due' = {d.id : d \in Asked(Head(left))} /\ fetched' = {}
    /\ UNCHANGED <<outside, settings, target, left, batch, pending, outcome, connected, failures>>

\* The cursor returns each document once, as it is now; what was written since may
\* be among them.
ReadBatch ==
    /\ pc = "read"
    /\ LET c == Head(left)
           some == {d \in Asked(c) : d.id \notin fetched}
           wait == {d \in some : d.id \in due}
       IN  \/ \E ds \in SUBSET some :
                 /\ ds # {}
                 /\ Cardinality(ds) = BatchSize \/ (Cardinality(ds) < BatchSize /\ wait \subseteq ds)
                 /\ batch' = ds /\ fetched' = fetched \cup {d.id : d \in ds}
                 /\ pending' = RowsFor(c, ds)
                 /\ pc' = "flush"
                 /\ UNCHANGED left
           \/ /\ wait = {}
              /\ pc' = "open" /\ left' = Tail(left)
              /\ UNCHANGED <<fetched, batch, pending>>
    /\ UNCHANGED <<outside, settings, target, due, outcome, connected, failures>>

\* INSERT ... ON CONFLICT DO NOTHING of a document's row changes nothing when its id is
\* there; a child row has an id of its own and is always new.
Land(c, ps) ==
    LET own == {p \in ps : p.table = "rows"}
        there == {<<r[1], r[2]>> : r \in rows[schema]}
        kid(p) == <<c, p.table, p.id, p.index>>
        new == {kid(p) : p \in ps \ own}
    IN  /\ rows' = [rows EXCEPT ![schema] =
                       @ \cup {<<c, p.id, p.ref>> : p \in {q \in own : <<c, q.id>> \notin there}}]
        /\ kids' = [kids EXCEPT ![schema] =
                       [k \in DOMAIN @ \cup new |->
                           (IF k \in DOMAIN @ THEN @[k] ELSE 0) + (IF k \in new THEN 1 ELSE 0)]]
        /\ UNCHANGED <<keys, log>>

\* A statement is taken when every row fits and finds the row it refers to.
Accepted(c, ps) ==
    \A p \in ps :
        /\ p.fits
        /\ p.table = "rows" /\ p.ref # 0 /\ <<c, "ref">> \in keys[schema]
              => \/ \E r \in rows[schema] : r[1] = Refers[c] /\ r[2] = p.ref
                 \/ Refers[c] = c /\ \E q \in ps : q.id = p.ref
        /\ <<c, p.table>> \in keys[schema] =>
              \E r \in rows[schema] : r[1] = c /\ r[2] = p.id

\* Slip: the elements go first.
ElementsFirst(p) == CASE p.table = "items" -> 1 [] p.table = "rows" -> 2 [] p.table = "nested" -> 3

\* The tables of a document, parents before children.
Turn(p) == CASE p.table = "rows" -> 1 [] p.table = "nested" -> 2 [] p.table = "items" -> 3

\* A batch is written table by table, alone a document is written with all its rows.
Place(p) == IF pc = "alone" THEN <<p.id, Turn(p), p.index>> ELSE <<Turn(p), p.id, p.index>>
Before(p, q) ==
    \E n \in 1..3 : Place(p)[n] < Place(q)[n] /\ \A m \in 1..n - 1 : Place(p)[m] = Place(q)[m]
Ahead(p) == {q \in pending : Before(q, p)}

\* The rows of one statement: those of one table, and no more than it has parameters for.
Chunk ==
    IF pc = "alone" THEN {p \in pending : Ahead(p) = {}}
    ELSE {p \in pending : Cardinality(Ahead(p)) < MaxRows /\ \A q \in Ahead(p) : q.table = p.table}

\* Slip: the last row of a statement is the first of the next.
RestOverlaps ==
    pending \ {p \in Chunk : Cardinality(Chunk) = 1 \/ \E q \in Chunk : Before(p, q)}

Rest == pending \ Chunk

Keep(c, ds) ==
    arrived' = arrived \cup {<<c, p.table, p.id, p.index>> : p \in RowsFor(c, ds)}

\* flushPendingTable: the next statement of the batch.
Flush ==
    /\ pc = "flush"
    /\ Accepted(Head(left), Chunk)
    /\ Answers
    /\ Land(Head(left), Chunk)
    /\ pending' = Rest
    /\ IF pending' = {} THEN pc' = "read" /\ Keep(Head(left), batch)
                        ELSE UNCHANGED <<pc, arrived>>
    /\ UNCHANGED <<outside, settings, left, due, fetched, batch, errors, result, alone>>

\* Slip: the documents of a refused batch are dropped.
BatchDropped ==
    /\ pc = "flush"
    /\ (Accepted(Head(left), Chunk) => Fails(TRUE))
    /\ (~Accepted(Head(left), Chunk) => UNCHANGED <<connected, failures>>)
    /\ pc' = "read" /\ pending' = {}
    /\ Keep(Head(left), batch)
    /\ UNCHANGED <<outside, settings, target, left, due, fetched, batch, errors, result, alone>>

Refused ==
    IF Accepted(Head(left), Chunk) THEN Fails(TRUE) ELSE UNCHANGED <<connected, failures>>

\* Any error: what has landed stays, and every document is written by itself.
FlushFails ==
    /\ pc = "flush"
    /\ Refused
    /\ pc' = "alone"
    /\ pending' = RowsFor(Head(left), batch)
    /\ alone' = alone \cup {<<Head(left), d.id>> : d \in batch}
    /\ UNCHANGED <<outside, settings, target, left, due, fetched, batch, errors, result, arrived>>

\* insertDocument: the next statement of a document.
InsertAlone ==
    /\ pc = "alone"
    /\ Accepted(Head(left), Chunk)
    /\ Answers
    /\ Land(Head(left), Chunk)
    /\ pending' = Rest
    /\ \E p \in Chunk :
          IF \A q \in pending' : q.id # p.id
          THEN Keep(Head(left), {d \in batch : d.id = p.id}) ELSE UNCHANGED arrived
    /\ pc' = IF pending' = {} THEN "read" ELSE pc
    /\ UNCHANGED <<outside, settings, left, due, fetched, batch, errors, result, alone>>

\* Slip: the document is tried until it is taken.
AloneRetried ==
    /\ pc = "alone"
    /\ Refused
    /\ UNCHANGED <<outside, settings, target, left, pc, reading, outcome>>

\* The document is given up; what it has become so far stays.
AloneFails ==
    /\ pc = "alone"
    /\ Refused
    /\ \E p \in Chunk :
          /\ errors' = errors \cup {<<Head(left), p.id>>}
          /\ pending' = {q \in pending : q.id # p.id}
    /\ pc' = IF pending' = {} THEN "read" ELSE pc
    /\ UNCHANGED <<outside, settings, target, left, due, fetched, batch, result, arrived, alone>>

\* Every row has what its foreign key refers to.
Holds(k) ==
    IF k[2] = "ref"
    THEN \A r \in rows[schema] : r[1] = k[1] /\ r[3] # 0 =>
            \E q \in rows[schema] : q[1] = Refers[k[1]] /\ q[2] = r[3]
    ELSE \A kid \in DOMAIN kids[schema] : kid[1] = k[1] /\ kid[2] = k[2] =>
            \E q \in rows[schema] : q[1] = kid[1] /\ q[2] = kid[3]

\* The collections whose reference has the name of another.
detectReferences == {c \in Cols : Refers[c] # "none"}

Wanted ==
    {k \in Cols \X {"ref", "nested", "items"} :
        CASE k[2] = "ref" -> plan[k[1]].ref /\ k[1] \in detectReferences
          [] k[2] = "nested" -> plan[k[1]].nested = "table"
          [] k[2] = "items" -> plan[k[1]].items # "no"}

\* addForeignKeys: what is refused is passed over.
AddForeignKeys ==
    /\ pc = "keys"
    /\ LET valid == {k \in Wanted : Holds(k)}
       IN  \/ /\ Answers
              /\ keys' = [keys EXCEPT ![schema] = @ \cup valid]
           \/ /\ Fails(TRUE)
              /\ \E lost \in SUBSET valid :
                    /\ connected /\ connected' => Cardinality(lost) = 1
                    /\ ~connected => lost = valid
                    /\ keys' = [keys EXCEPT ![schema] = @ \cup (valid \ lost)]
    /\ pc' = "errors"
    /\ UNCHANGED <<outside, settings, rows, kids, log, left, reading, outcome>>

\* writeErrors: best effort.
WriteErrors ==
    /\ pc = "errors"
    /\ \/ /\ Answers
          /\ log' = [log EXCEPT ![schema] = @ \cup errors]
       \/ /\ Fails(TRUE)
          /\ \E lost \in SUBSET errors :
                /\ connected /\ connected' => Cardinality(lost) <= 1
                /\ ~connected => lost = errors
                /\ log' = [log EXCEPT ![schema] = @ \cup (errors \ lost)]
    /\ pc' = "close"
    /\ UNCHANGED <<outside, settings, rows, kids, keys, left, reading, outcome>>

\* A dry run's schema is dropped, and the result is told.
Close ==
    /\ pc = "close"
    /\ IF dry
       THEN /\ Answers
            /\ rows' = [rows EXCEPT ![schema] = {}] /\ kids' = [kids EXCEPT ![schema] = Empty]
            /\ keys' = [keys EXCEPT ![schema] = {}] /\ log' = [log EXCEPT ![schema] = {}]
       ELSE UNCHANGED <<target, connected, failures>>
    /\ Exit(IF errors = {} THEN "success" ELSE "issues")
    /\ UNCHANGED <<outside, settings, errors, arrived, alone>>

-----------------------------------------------------------------------------
Run ==
    \/ AnalyseCollection \/ CreateAllTables \/ RunFails \/ OpenCollection \/ ReadBatch
    \/ Flush \/ FlushFails \/ InsertAlone \/ AloneFails
    \/ AddForeignKeys \/ WriteErrors \/ Close

Finished == pc \in {"planned", "ended"} /\ runs = MaxRuns /\ UNCHANGED vars

Next == (\E c \in Cols : Write(c)) \/ Start \/ Run \/ Finished

Spec == Init /\ [][Next]_vars

\* The command goes on by itself; only the application and the user do as they like.
FairSpec == Spec /\ WF_vars(Run)

-----------------------------------------------------------------------------
(* Properties.                                                             *)

\* Although no transaction holds them together, a row of a child table has its
\* parent's row, in every moment of every run (mongo-to-postgres.engine.ts:565-573,
\* 609-656).
KidsHaveParents ==
    \A s \in Schemas : \A k \in DOMAIN kids[s] :
        \E r \in rows[s] : r[1] = k[1] /\ r[2] = k[3]

\* Where a statement of the run has written, the row or the element is.
Written(a) ==
    IF a[2] = "rows" THEN \E r \in rows["public"] : r[1] = a[1] /\ r[2] = a[3]
    ELSE a \in DOMAIN kids["public"]

\* A document that was in the source when its collection was opened is in the target with
\* everything it became under the plan, or among the errors, whether its batch was taken
\* or refused; and success means that nothing was given up
\* (mongo-to-postgres.engine.ts:82-91, 285-318, 503-607).
Accounted ==
    pc = "ended" /\ result \in {"success", "issues"} =>
        /\ result = "success" => errors = {}
        /\ schema = "public" => \A a \in arrived : Written(a)
        /\ \A c \in Cols : \A d \in docs[c] :
              ~d.new /\ ~incremental => <<c, d.id>> \in errors \/ <<c, "rows", d.id, 0>> \in arrived

\* After one run a child row is there twice only if its document was in a batch that
\* was refused and written again (mongo-to-postgres.engine.ts:565-607).
TwiceOnlyAfterRefusal ==
    runs = 1 => \A s \in Schemas : \A k \in DOMAIN kids[s] :
        kids[s][k] > 1 => <<k[1], k[3]>> \in alone

\* A dry run changes nothing but its own schema (mongo-to-postgres.engine.ts:30-50, 71-73).
DryRunApart ==
    [][dry' => /\ rows'["public"] = rows["public"] /\ kids'["public"] = kids["public"]
               /\ keys'["public"] = keys["public"] /\ log'["public"] = log["public"]]_vars

\* A run comes to an end, whatever the servers refuse
\* (mongo-to-postgres.engine.ts:293-318).
RunEnds == (pc = "create") ~> (pc = "ended")
=============================================================================
