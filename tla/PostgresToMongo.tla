-------------------------- MODULE PostgresToMongo --------------------------
(***************************************************************************)
(* `dbdock migrate` from PostgreSQL to MongoDB: tables without foreign     *)
(* keys become collections, the others are embedded in the documents of    *)
(* the tables they refer to.  src/migration/mappers/postgres-to-mongo.ts,  *)
(* src/migration/engines/postgres-to-mongo.engine.ts.                      *)
(*                                                                         *)
(* A table is read page by page, each page and each document's embedded    *)
(* rows with a query of its own, while the application goes on writing.    *)
(***************************************************************************)
EXTENDS Integers, Sequences, FiniteSets, SequencesExt, FiniteSetsExt

CONSTANTS
    Tables,        \* in the order of their names
    Plural,        \* pluralize of each name
    Designs,       \* the schemas
    Contents,      \* the rows each design starts with
    MaxId,         \* bound: rows ever in a table
    BatchSize,     \* options.batchSize
    MaxWrites,     \* bound: rows the application writes
    MaxRuns,       \* bound: runs with the same plan
    MaxFailures    \* bound: failures of a server

Names == ToSet(Tables)
Ids == 1..MaxId
NoRow == 0

\* A foreign key: whether its column is in some UNIQUE constraint, alone or with others,
\* and whether no two rows have the same value in it.
Key == [to : Names, unique : BOOLEAN, alone : BOOLEAN]

\* A table: its columns that are in no key, whether it has three columns at most and 1000
\* rows at least, and what its first column is: its primary key, some other column than
\* its key "id", or whatever there is when the primary key has several columns.
Table == [keys : Seq(Key), plain : Nat, narrow : BOOLEAN, large : BOOLEAN,
          first : {"key", "other", "part"}]

\* The first column of a row, and the last one of its key, in a table of that kind.
Sound(first, r) ==
    /\ {r.first, r.key} \subseteq Ids
    /\ first = "key" => r.first = r.id
    /\ first # "part" => r.key = r.id

ASSUME TablesAssumption == Tables \in Seq(Names) /\ IsInjective(Tables)
ASSUME DesignsAssumption ==
    \A d \in Designs : \A t \in Names :
        d[t] \in Table /\ \A k \in DOMAIN d[t].keys : d[d[t].keys[k].to].first # "part"
ASSUME ContentsAssumption ==
    \A d \in Designs : \A t \in Names : \A r \in Contents[d][t] :
        /\ r.id \in Ids /\ r.new \in BOOLEAN /\ r.refs \in [DOMAIN d[t].keys -> {NoRow} \cup Ids]
        /\ Sound(d[t].first, r)
        /\ \A q \in Contents[d][t] : q.id = r.id => q = r
        /\ \A k \in DOMAIN d[t].keys : r.refs[k] # NoRow =>
              /\ \E p \in Contents[d][d[t].keys[k].to] : p.id = r.refs[k]
              /\ d[t].keys[k].alone => \A q \in Contents[d][t] : q.refs[k] = r.refs[k] => q = r
ASSUME BoundsAssumption == BatchSize \in Nat \ {0} /\ {MaxId, MaxWrites, MaxRuns, MaxFailures} \subseteq Nat

VARIABLES
    design,     \* the schema of the source
    rows,       \* its rows: id, first column, last of the key, references, version, created since
    documents,  \* the target: collection, _id, the row it is of, version, embedded rows
    pc, dry, incremental,
    left,       \* mappings still to be worked on
    total, offset,
    page,       \* the rows fetched and not built yet
    built,      \* documents of the page
    errors,     \* rows given up in this run
    result,     \* what the command said last
    read,       \* history: rows fetched in this run
    due,        \* history: rows there when their table was counted
    shifted,    \* history: the application has deleted a row, or put one before others, in the run
    quiet,      \* history: it has not written during the run
    runs, writes, failures

loop == <<left, total, offset, page, built>>
outcome == <<errors, result, read, due>>
vars == <<design, rows, documents, pc, dry, incremental, loop, outcome, shifted, quiet,
          runs, writes, failures>>

Version == 0..MaxWrites
Row == [id : Ids, first : Ids, key : Ids, refs : Seq({NoRow} \cup Ids), v : Version, new : BOOLEAN]
Document == [of : Names, key : Ids, id : Ids, v : Version, parts : SUBSET (Names \X Ids)]
IdsOf(rs) == {r.id : r \in rs}

TypeOK ==
    /\ design \in Designs
    /\ \A t \in Names : rows[t] \subseteq Row
    /\ documents \subseteq Document
    /\ \A a, b \in documents : a.of = b.of /\ a.key = b.key => a = b
    /\ pc \in {"planned", "clear", "count", "fetch", "build", "insert", "report", "ended"}
    /\ dry \in BOOLEAN /\ incremental \in BOOLEAN /\ shifted \in BOOLEAN /\ quiet \in BOOLEAN
    /\ left \in Seq(Names)
    /\ total \in 0..MaxId /\ offset \in 0..MaxId + BatchSize
    /\ page \subseteq Row /\ Cardinality(page) <= BatchSize
    /\ built \subseteq Document /\ Cardinality(built) <= BatchSize
    /\ {errors, read, due} \subseteq SUBSET (Names \X Ids)
    /\ result \in {"none", "success", "issues", "failed"}
    /\ runs \in 0..MaxRuns /\ writes \in 0..MaxWrites /\ failures \in 0..MaxFailures

-----------------------------------------------------------------------------
(* The plan: which tables become collections, and what is embedded where.  *)

KeysOf(t) == design[t].keys
ForeignKeys == UNION {{t} \X DOMAIN KeysOf(t) : t \in Names}

\* detectJunctionTables: two foreign keys and little else.
Junctions == {t \in Names : Len(KeysOf(t)) = 2 /\ design[t].plain <= 2}

\* generatePostgresToMongoPlan: whatever else refers to a table.
Children == {t \in Names \ Junctions : KeysOf(t) # <<>>}

\* The members of S in a sequence, in their order there.
Kept(s, S) ==
    LET on == {i \in DOMAIN s : s[i] \in S}
    IN  [n \in 1..Cardinality(on) |->
            s[CHOOSE i \in on : Cardinality({j \in on : j <= i}) = n]]

\* The tables that get a document mapping.
Mapped == Kept(Tables, Names \ (Junctions \cup Children))

\* Of a junction table, the other side as seen from t; none when both are t.
Others(j, t) == {k \in DOMAIN KeysOf(j) : KeysOf(j)[k].to # t}
OtherSide(j, t) == KeysOf(j)[Min(Others(j, t))].to

\* handleManyToMany: a bare junction to a narrow table becomes a list of values.
Linked(t) ==
    {OtherSide(j, t) : j \in {i \in Junctions :
        /\ t \in {k.to : k \in ToSet(KeysOf(i))}
        /\ Others(i, t) # {}
        /\ design[i].plain = 0 /\ design[OtherSide(i, t)].narrow}}

\* The key of u along which its rows are found from t.
Along(u, t) == Min({k \in DOMAIN KeysOf(u) : KeysOf(u)[k].to = t})

\* Slip: unique children are forgotten.
EmbeddedMany(t) ==
    {e \in ForeignKeys :
        LET u == e[1] IN
        /\ KeysOf(u)[e[2]].to = t
        /\ u \notin Junctions /\ ~KeysOf(u)[e[2]].unique /\ ~design[u].large}

\* mapTableToDocument: a table and the key along which it is embedded in t.
Embedded(t) ==
    {e \in ForeignKeys :
        LET u == e[1] IN
        IF u \in Junctions
        THEN /\ t \in {k.to : k \in ToSet(KeysOf(u))}
             /\ Others(u, t) # {} /\ e[2] = Along(u, t)
             /\ ~(design[u].plain = 0 /\ design[OtherSide(u, t)].narrow)
        ELSE /\ KeysOf(u)[e[2]].to = t
             /\ KeysOf(u)[e[2]].unique \/ ~design[u].large}

\* The field of t's documents that the rows of u go into, as a list or as one document.
Field(u, t) == IF u \in Junctions /\ Others(u, t) # {} THEN Plural[OtherSide(u, t)] ELSE u
IsArray(e) == e[1] \in Junctions \/ ~KeysOf(e[1])[e[2]].unique

\* The order of the relationships, and of the embeddings.
Rank(u) == CHOOSE i \in DOMAIN Tables : Tables[i] = u
Before(e, f) == Rank(e[1]) < Rank(f[1]) \/ (e[1] = f[1] /\ e[2] < f[2])

-----------------------------------------------------------------------------
Init ==
    /\ design \in Designs
    /\ rows = [t \in Names |->
                  {[id |-> r.id, first |-> r.first, key |-> r.key, refs |-> r.refs, v |-> 0,
                    new |-> r.new] : r \in Contents[design][t]}]
    /\ documents = {}
    /\ pc = "planned" /\ dry = FALSE /\ incremental = FALSE
    /\ left = <<>> /\ total = 0 /\ offset = 0 /\ page = {} /\ built = {}
    /\ errors = {} /\ result = "none" /\ read = {} /\ due = {}
    /\ shifted = FALSE /\ quiet = TRUE
    /\ runs = 0 /\ writes = 0 /\ failures = 0

-----------------------------------------------------------------------------
(* The application keeps the foreign keys of the source.                   *)

Referred(t, i) ==
    \E u \in Names : \E r \in rows[u] : \E k \in DOMAIN KeysOf(u) :
        KeysOf(u)[k].to = t /\ r.refs[k] = i

\* The rows that can be inserted.
Fresh(t) ==
    {x \in [id : Ids, first : Ids, key : Ids, refs : [DOMAIN KeysOf(t) -> {NoRow} \cup Ids],
            v : {0}, new : {TRUE}] :
        /\ Sound(design[t].first, x)
        /\ \A r \in rows[t] : r.id # x.id
        /\ \A k \in DOMAIN KeysOf(t) : x.refs[k] # NoRow =>
              /\ \E p \in rows[KeysOf(t)[k].to] : p.id = x.refs[k]
              /\ KeysOf(t)[k].alone => \A r \in rows[t] : r.refs[k] # x.refs[k]}

Write(t) ==
    /\ writes < MaxWrites
    /\ writes' = writes + 1
    /\ \/ \E x \in Fresh(t) :
             /\ rows' = [rows EXCEPT ![t] = @ \cup {x}]
             /\ shifted' = (shifted \/ \E r \in rows[t] : x.first <= r.first)
       \/ \E r \in rows[t] : \E f \in Ids :
             /\ Sound(design[t].first, [r EXCEPT !.first = f])
             /\ rows' = [rows EXCEPT ![t] = (@ \ {r}) \cup {[r EXCEPT !.first = f, !.v = writes']}]
             /\ shifted' = (shifted \/ f # r.first)
       \/ \E r \in rows[t] :
             /\ ~Referred(t, r.id)
             /\ rows' = [rows EXCEPT ![t] = @ \ {r}]
             /\ shifted' = TRUE
    /\ quiet' = FALSE
    /\ UNCHANGED <<design, documents, pc, dry, incremental, loop, outcome, runs, failures>>

-----------------------------------------------------------------------------
(* A run.                                                                  *)

outside == <<design, rows, shifted, quiet, writes>>
settings == <<dry, incremental, runs>>

Exit(said) ==
    /\ pc' = "ended" /\ result' = said
    /\ left' = <<>> /\ page' = {} /\ built' = {} /\ total' = 0 /\ offset' = 0

\* The mapping was accepted, or comes from a file.
Start ==
    /\ pc \in {"planned", "ended"}
    /\ runs < MaxRuns
    /\ runs' = runs + 1
    /\ dry' \in BOOLEAN /\ incremental' \in BOOLEAN
    /\ pc' = "clear"
    /\ left' = Mapped
    /\ errors' = {} /\ result' = "none" /\ read' = {} /\ due' = {}
    /\ shifted' = FALSE /\ quiet' = TRUE
    /\ UNCHANGED <<design, rows, writes, documents, total, offset, page, built, failures>>

\* A query of the engine itself fails, and ends the run.
RunFails ==
    /\ pc \in {"clear", "count", "fetch"} \/ (pc = "report" /\ errors # {})
    /\ failures < MaxFailures
    /\ failures' = failures + 1
    /\ Exit("failed")
    /\ UNCHANGED <<outside, settings, documents, errors, read, due>>

\* Slip: the collection is kept.
KeepCollection ==
    /\ pc = "clear"
    /\ IF left = <<>>
       THEN pc' = "report"
       ELSE pc' = "count"
    /\ UNCHANGED <<outside, settings, documents, loop, outcome, failures>>

\* deleteMany({}), whether it is a dry run or not.
ClearCollection ==
    /\ pc = "clear"
    /\ IF left = <<>>
       THEN pc' = "report" /\ UNCHANGED documents
       ELSE /\ pc' = "count"
            /\ documents' = IF incremental THEN documents
                            ELSE {d \in documents : d.of # Head(left)}
    /\ UNCHANGED <<outside, settings, loop, outcome, failures>>

\* buildIncrementalWhere asks when a row was created, if it knows that.
Asked(t) == {r \in rows[t] : incremental => r.new}

CountRows ==
    /\ pc = "count"
    /\ total' = Cardinality(Asked(Head(left))) /\ offset' = 0
    /\ due' = due \cup {<<Head(left), i>> : i \in IdsOf(Asked(Head(left)))}
    /\ pc' = "fetch"
    /\ UNCHANGED <<outside, settings, documents, left, page, built, errors, result, read, failures>>

\* Slip: the loop goes on by what it got.
ByRows(fetched) == Cardinality(fetched)

\* Slip: the next page begins after the row that follows.
SkipsOne(fetched) == BatchSize + 1

Advance(fetched) == BatchSize

\* ORDER BY 1 LIMIT n: n rows, of those with equal first columns any.
Leading(n, all) ==
    {rs \in SUBSET all :
        /\ Cardinality(rs) = n \/ (rs = all /\ Cardinality(all) < n)
        /\ \A q \in rs : \A r \in all \ rs : q.first <= r.first}

\* LIMIT ... OFFSET ...
FetchPage ==
    /\ pc = "fetch"
    /\ IF offset >= total
       THEN /\ pc' = "clear" /\ left' = Tail(left)
            /\ UNCHANGED <<offset, page, read>>
       ELSE /\ \E passed \in Leading(offset, Asked(Head(left))) :
                 \E through \in Leading(offset + BatchSize, Asked(Head(left))) :
                    passed \subseteq through /\ page' = through \ passed
            /\ read' = read \cup {<<Head(left), i>> : i \in IdsOf(page')}
            /\ offset' = offset + Advance(page')
            /\ pc' = "build"
            /\ UNCHANGED left
    /\ built' = {}
    /\ UNCHANGED <<outside, settings, documents, total, errors, result, due, failures>>

\* The rows that an embedding finds for row i; it leaves its field alone when it finds
\* none and is no list.
Found(e, i) == {r \in rows[e[1]] : r.refs[e[2]] = i}
Assigns(e, i) == IsArray(e) \/ Found(e, i) # {}

\* The embeddings whose rows are still in their field when the document of t for row i is
\* built: a later one with the same field overwrites it, and the values of a bare junction
\* come last.
Shown(t, i) ==
    {e \in Embedded(t) :
        /\ Assigns(e, i)
        /\ \A f \in Embedded(t) :
              Before(e, f) /\ Field(f[1], t) = Field(e[1], t) => ~Assigns(f, i)
        /\ \A o \in Linked(t) : Plural[o] # Field(e[1], t)}

\* The rows that such a document may hold besides its own: of a list all that are found,
\* otherwise any one of them.
Parts(t, i) ==
    {ps \in SUBSET UNION {{e[1]} \X IdsOf(Found(e, i)) : e \in Shown(t, i)} :
        \A e \in Shown(t, i) :
            LET in == {p[2] : p \in {q \in ps : q[1] = e[1]}}
            IN  IF IsArray(e) THEN in = IdsOf(Found(e, i)) ELSE \E x \in Ids : in = {x}}

\* buildDocument; when one of its queries fails the row is an error.
BuildDocument ==
    /\ pc = "build"
    /\ IF page = {}
       THEN /\ pc' = IF built = {} THEN "fetch" ELSE "insert"
            /\ UNCHANGED <<page, built, errors, failures>>
       ELSE /\ \E r \in page :
                  /\ \A q \in page : r.first <= q.first
                  /\ page' = page \ {r}
                  /\ \/ /\ \E ps \in Parts(Head(left), r.id) :
                              built' = built \cup {[of |-> Head(left), key |-> r.key, id |-> r.id,
                                                   v |-> r.v, parts |-> ps]}
                        /\ UNCHANGED <<errors, failures>>
                     \/ /\ failures < MaxFailures
                        /\ failures' = failures + 1
                        /\ errors' = errors \cup {<<Head(left), r.id>>}
                        /\ UNCHANGED built
            /\ UNCHANGED pc
    /\ UNCHANGED <<outside, settings, documents, left, total, offset, result, read, due>>

SameId(a, b) == a.of = b.of /\ a.key = b.key
Replaced(ds) == {d \in documents : \A b \in ds : ~SameId(d, b)} \cup ds
Taken == {b \in built : \E d \in documents : SameId(d, b)}

\* Of several documents with one _id, one.
OneOfEach(bs) ==
    {ds \in SUBSET bs : /\ \A b \in bs : \E d \in ds : SameId(d, b)
                       /\ \A a, b \in ds : SameId(a, b) => a = b}

\* replaceOne with upsert, one after the other; insertMany, where an _id that is there
\* makes an error of the batch though its other documents land.
InsertBatch ==
    /\ pc = "insert"
    /\ \/ /\ incremental
          /\ \E ds \in OneOfEach(built) : documents' = Replaced(ds)
          /\ UNCHANGED errors
       \/ /\ ~incremental
          /\ \E ds \in OneOfEach(built \ Taken) :
                /\ documents' = documents \cup ds
                /\ errors' = IF ds = built THEN errors
                             ELSE errors \cup {<<b.of, b.id>> : b \in built}
    /\ pc' = "fetch" /\ built' = {}
    /\ UNCHANGED <<outside, settings, left, total, offset, page, result, read, due, failures>>

\* The connection is lost: any of them may have landed.
InsertFails ==
    /\ pc = "insert"
    /\ failures < MaxFailures
    /\ failures' = failures + 1
    /\ \E bs \in SUBSET built :
          \/ incremental /\ \E ds \in OneOfEach(bs) : documents' = Replaced(ds)
          \/ ~incremental /\ \E ds \in OneOfEach(bs \ Taken) : documents' = documents \cup ds
    /\ errors' = errors \cup {<<b.of, b.id>> : b \in built}
    /\ pc' = "fetch" /\ built' = {}
    /\ UNCHANGED <<outside, settings, left, total, offset, page, result, read, due>>

\* The errors are written, and the result is told.
Report ==
    /\ pc = "report"
    /\ Exit(IF errors = {} THEN "success" ELSE "issues")
    /\ UNCHANGED <<outside, settings, documents, errors, read, due, failures>>

-----------------------------------------------------------------------------
Run == RunFails \/ ClearCollection \/ CountRows \/ FetchPage \/ BuildDocument
       \/ InsertBatch \/ InsertFails \/ Report

Finished == pc \in {"planned", "ended"} /\ runs = MaxRuns /\ UNCHANGED vars

Next == (\E t \in Names : Write(t)) \/ Start \/ Run \/ Finished

Spec == Init /\ [][Next]_vars

\* The command goes on by itself.
FairSpec == Spec /\ WF_vars(Run)

-----------------------------------------------------------------------------
(* Properties.                                                             *)

Done == pc = "ended" /\ result \in {"success", "issues"}
There(t, i) == \E d \in documents : (d.of = t /\ d.id = i) \/ <<t, i>> \in d.parts

\* The tables that are read in the order of a key.
Ordered == {t \in Names : design[t].first = "key"}

\* No key that comes after e, and no bare junction, writes to its field of p's documents.
LastToWrite(e, p) ==
    /\ \A f \in ForeignKeys :
          KeysOf(f[1])[f[2]].to = p /\ Field(f[1], p) = Field(e[1], p) => f = e \/ Before(f, e)
    /\ \A o \in Linked(p) : Plural[o] # Field(e[1], p)

\* The rows for which the plan has a place that nothing takes from them: those of tables
\* without keys, and those that refer to one of them from a table that is not too large.
\* Not those two keys away, of a table that refers to itself or of a bare junction; not
\* those that share a value which is unique only together with others; not those whose
\* field is written again, by a second key, a second junction or a table of that name.
HasPlace(t, r) ==
    \/ t \in ToSet(Mapped) \cap Ordered
    \/ \E k \in DOMAIN KeysOf(t) :
          /\ KeysOf(t)[k].to \in ToSet(Mapped) \cap Ordered /\ r.refs[k] # NoRow
          /\ IF t \in Junctions
             THEN k = Along(t, KeysOf(t)[k].to) /\ KeysOf(t)[1].to # KeysOf(t)[2].to
                  /\ ~(design[t].plain = 0 /\ design[OtherSide(t, KeysOf(t)[k].to)].narrow)
             ELSE IF KeysOf(t)[k].unique THEN KeysOf(t)[k].alone ELSE ~design[t].large
          /\ LastToWrite(<<t, k>>, KeysOf(t)[k].to)

\* After a full run that reports success, and during which nobody wrote, every row with
\* such a place is in a document (postgres-to-mongo.mapper.ts:35-56, 155-262;
\* postgres-to-mongo.engine.ts:104-152, 185-217).
PlacesFilled ==
    Done /\ result = "success" /\ quiet /\ ~incremental /\ ~dry =>
        \A t \in Names : \A r \in rows[t] : HasPlace(t, r) => There(t, r.id)

\* Of a table whose first column is its key, the rows that were there when it was counted
\* are in the target or among the errors, whatever is inserted at the end or updated
\* meanwhile; only a deletion, or a row before the others, moves one out of its page
\* (postgres-to-mongo.engine.ts:95-106, 150).
PagesComplete ==
    Done /\ ~shifted /\ ~dry =>
        \A d \in due : d[1] \in Ordered => d \in read /\ (d \in errors \/ There(d[1], d[2]))

\* What is in a collection after a full run is of a row that was read in that run
\* (postgres-to-mongo.engine.ts:86-88).
NoLeftovers ==
    Done /\ ~incremental /\ ~dry => \A d \in documents : <<d.of, d.id>> \in read

\* "Dry Run (no changes to target)" (cross-migrate.ts:78).
DryRunChangesNothing == [][dry => UNCHANGED documents]_vars

\* A run comes to an end, also when the table gets shorter under it
\* (postgres-to-mongo.engine.ts:104-152).
RunEnds == (pc = "clear") ~> (pc = "ended")
=============================================================================
