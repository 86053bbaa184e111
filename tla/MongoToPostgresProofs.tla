----------------------- MODULE MongoToPostgresProofs -----------------------
(***************************************************************************)
(* The invariants of MongoToPostgres and DryRunApart as theorems, for any  *)
(* collections, shapes, plans, batches, failures and sequences of runs.    *)
(***************************************************************************)
EXTENDS MongoToPostgres, FiniteSetTheorems, SequenceTheorems, TLAPS

\* The target has its two schemas, whatever is in them.
TargetShape ==
    /\ DOMAIN rows = Schemas /\ DOMAIN kids = Schemas
    /\ DOMAIN keys = Schemas /\ DOMAIN log = Schemas

\* What a step leaves alone when it belongs to a dry run.
Untouched ==
    dry' => /\ rows'["public"] = rows["public"] /\ kids'["public"] = kids["public"]
            /\ keys'["public"] = keys["public"] /\ log'["public"] = log["public"]

LEMMA ShapeInit == Init => TargetShape
BY DEF Init, TargetShape

LEMMA NothingWritten == TargetShape /\ UNCHANGED target => TargetShape' /\ Untouched
BY DEF TargetShape, Untouched, target

\* Rows go to the schema of the run.
LEMMA Landing ==
    ASSUME TargetShape, UNCHANGED dry, NEW c, NEW ps, Land(c, ps)
    PROVE  TargetShape' /\ Untouched
<1>1. /\ DOMAIN rows' = DOMAIN rows /\ \A s \in Schemas \ {schema} : rows'[s] = rows[s]
      /\ DOMAIN kids' = DOMAIN kids /\ \A s \in Schemas \ {schema} : kids'[s] = kids[s]
      /\ UNCHANGED <<keys, log>>
  BY DEF Land, TargetShape
<1> QED
  BY <1>1 DEF TargetShape, Untouched, schema, Schemas

\* No step of a run writes to another schema than its own.
LEMMA StepsApart ==
    ASSUME TargetShape, [Next]_vars
    PROVE  TargetShape' /\ Untouched
<1>1. CASE \E c \in Cols : Write(c)
  BY <1>1, NothingWritten DEF Write
<1>2. CASE Start
  BY <1>2, NothingWritten DEF Start
<1>3. CASE AnalyseCollection \/ RunFails \/ OpenCollection \/ ReadBatch
  BY <1>3, NothingWritten DEF AnalyseCollection, RunFails, OpenCollection, ReadBatch
<1>4. CASE CreateAllTables
  BY <1>4 DEF CreateAllTables, TargetShape, Untouched, schema, Schemas, target, settings
<1>5. CASE Flush \/ InsertAlone
  BY <1>5, Landing DEF Flush, InsertAlone, settings
<1>6. CASE FlushFails \/ AloneFails
  BY <1>6, NothingWritten DEF FlushFails, AloneFails
<1>7. CASE AddForeignKeys
  BY <1>7 DEF AddForeignKeys, TargetShape, Untouched, schema, Schemas, settings
<1>8. CASE WriteErrors
  BY <1>8 DEF WriteErrors, TargetShape, Untouched, schema, Schemas, settings
<1>9. CASE Close
  BY <1>9 DEF Close, TargetShape, Untouched, schema, Schemas, target, settings
<1>10. CASE UNCHANGED vars
  BY <1>10, NothingWritten DEF vars
<1> QED
  BY <1>1, <1>2, <1>3, <1>4, <1>5, <1>6, <1>7, <1>8, <1>9, <1>10 DEF Next, Run, Finished

\* A dry run changes nothing but its own schema, whatever is refused, repeated or given
\* up, and whatever runs came before (mongo-to-postgres.engine.ts:30-50, 71-73).
THEOREM DryRunsStayApart == Spec => DryRunApart
<1>1. Init => TargetShape
  BY ShapeInit
<1>2. TargetShape /\ [Next]_vars => TargetShape'
  BY StepsApart
<1>3. TargetShape /\ [Next]_vars
      => [dry' => /\ rows'["public"] = rows["public"] /\ kids'["public"] = kids["public"]
                  /\ keys'["public"] = keys["public"] /\ log'["public"] = log["public"]]_vars
  BY StepsApart DEF Untouched
<1> QED
  BY <1>1, <1>2, <1>3, PTL DEF Spec, DryRunApart

(***************************************************************************)
(* The rows of a batch.                                                    *)
(***************************************************************************)

\* The rest of a sequence without repetitions holds all but its head.
LEMMA HeadOrTail ==
    ASSUME NEW T, NEW s \in Seq(T), IsInjective(s), s # <<>>
    PROVE  /\ Head(s) \in T /\ Tail(s) \in Seq(T) /\ IsInjective(Tail(s))
           /\ ToSet(s) = {Head(s)} \cup ToSet(Tail(s))
           /\ Head(s) \notin ToSet(Tail(s))
<1> DEFINE n == Len(s)
<1>1. n \in Nat /\ n > 0 /\ DOMAIN s = 1..n /\ Head(s) = s[1]
  OBVIOUS
<1>2. /\ Head(s) \in T /\ Tail(s) \in Seq(T) /\ Len(Tail(s)) = n - 1
      /\ \A i \in 1..(n - 1) : Tail(s)[i] = s[i + 1]
  BY HeadTailProperties
<1>3. DOMAIN Tail(s) = 1..(n - 1)
  BY <1>1, <1>2
<1> HIDE DEF n
<1>4. \A i, j \in 1..n : s[i] = s[j] => i = j
  BY <1>1 DEF IsInjective
<1>5. IsInjective(Tail(s))
  <2> SUFFICES ASSUME NEW i \in 1..(n - 1), NEW j \in 1..(n - 1), Tail(s)[i] = Tail(s)[j]
               PROVE  i = j
    BY <1>3 DEF IsInjective
  <2>1. s[i + 1] = s[j + 1] /\ i + 1 \in 1..n /\ j + 1 \in 1..n
    BY <1>1, <1>2
  <2> QED
    BY <2>1, <1>4
<1>6. \A i \in 1..n : s[i] = s[1] \/ (i - 1 \in 1..(n - 1) /\ s[i] = Tail(s)[i - 1])
  <2> TAKE i \in 1..n
  <2>1. CASE i = 1
    BY <2>1
  <2>2. CASE i # 1
    <3>1. i - 1 \in 1..(n - 1) /\ (i - 1) + 1 = i
      BY <2>2, <1>1
    <3> QED
      BY <3>1, <1>2
  <2> QED
    BY <2>1, <2>2
<1>7. ToSet(s) = {Head(s)} \cup ToSet(Tail(s))
  <2>1. ToSet(s) \subseteq {Head(s)} \cup ToSet(Tail(s))
    BY <1>1, <1>3, <1>6 DEF ToSet
  <2>2. Head(s) \in ToSet(s)
    BY <1>1 DEF ToSet
  <2>3. \A i \in 1..(n - 1) : Tail(s)[i] = s[i + 1] /\ i + 1 \in 1..n
    BY <1>1, <1>2
  <2>4. ToSet(Tail(s)) \subseteq ToSet(s)
    BY <2>3, <1>1, <1>3 DEF ToSet
  <2> QED
    BY <2>1, <2>2, <2>4
<1>8. Head(s) \notin ToSet(Tail(s))
  <2> SUFFICES ASSUME NEW i \in 1..(n - 1), Tail(s)[i] = s[1]
               PROVE  FALSE
    BY <1>1, <1>3 DEF ToSet
  <2>1. s[i + 1] = s[1] /\ i + 1 \in 1..n /\ 1 \in 1..n /\ i + 1 # 1
    BY <1>1, <1>2
  <2> QED
    BY <2>1, <1>4
<1> QED
  BY <1>2, <1>5, <1>7, <1>8

LEMMA EmptySet == ASSUME NEW s, s = <<>> PROVE ToSet(s) = {}
BY DEF ToSet

\* A row is that of a document, of its object or of one of its elements.
LEMMA RowOfDocument ==
    ASSUME NEW c, NEW d, NEW p \in RowsFor(c, {d})
    PROVE  \/ p = Pending("rows", d, 0, RowFits(plan[c], d.shape))
           \/ p = Pending("nested", d, 0, PartFits(plan[c], d.shape))
           \/ \E i \in DOMAIN d.shape.items :
                 p = Pending("items", d, i, ElementFits(plan[c], d.shape.items[i]))
<1>1. p \in OwnRow(c, d) \/ p \in NestedRow(c, d) \/ p \in ItemRows(c, d)
  BY DEF RowsFor
<1> QED
  BY <1>1 DEF OwnRow, NestedRow, ItemRows

LEMMA PendingFields ==
    ASSUME NEW t, NEW d, NEW i, NEW f
    PROVE  /\ Pending(t, d, i, f).table = t /\ Pending(t, d, i, f).id = d.id
           /\ Pending(t, d, i, f).index = i
BY DEF Pending

LEMMA RowsByDocument ==
    ASSUME NEW c, NEW ds
    PROVE  /\ \A d \in ds : RowsFor(c, {d}) \subseteq RowsFor(c, ds)
           /\ \A p \in RowsFor(c, ds) : \E d \in ds : p \in RowsFor(c, {d})
<1> DEFINE of(d) == OwnRow(c, d)
                    \cup (IF plan[c].nested = "table" THEN NestedRow(c, d) ELSE {})
                    \cup (IF plan[c].items # "no" THEN ItemRows(c, d) ELSE {})
<1>1. RowsFor(c, ds) = UNION {of(d) : d \in ds} /\ \A d : RowsFor(c, {d}) = UNION {of(e) : e \in {d}}
  BY DEF RowsFor
<1> HIDE DEF of
<1>2. \A d : RowsFor(c, {d}) = of(d)
  BY <1>1
<1> QED
  BY <1>1, <1>2

LEMMA RowFields ==
    ASSUME NEW c, NEW d, NEW p \in RowsFor(c, {d})
    PROVE  p.id = d.id /\ p.table \in {"rows", "nested", "items"}
<1>1. CASE p = Pending("rows", d, 0, RowFits(plan[c], d.shape))
  BY <1>1, PendingFields
<1>2. CASE p = Pending("nested", d, 0, PartFits(plan[c], d.shape))
  BY <1>2, PendingFields
<1>3. ASSUME NEW i, p = Pending("items", d, i, ElementFits(plan[c], d.shape.items[i]))
      PROVE  p.id = d.id /\ p.table = "items"
  BY <1>3, PendingFields
<1> QED
  BY <1>1, <1>2, <1>3, RowOfDocument

LEMMA OwnRowOf ==
    ASSUME NEW c, NEW d
    PROVE  \E p \in RowsFor(c, {d}) : p.table = "rows" /\ p.id = d.id /\ p.index = 0
<1> DEFINE p == Pending("rows", d, 0, RowFits(plan[c], d.shape))
<1>1. p \in RowsFor(c, {d})
  BY DEF RowsFor, OwnRow
<1>2. p.table = "rows" /\ p.id = d.id /\ p.index = 0
  BY PendingFields
<1> QED
  BY <1>1, <1>2

\* A document has one row for each place in it.
LEMMA RowsDiffer ==
    ASSUME NEW c, NEW d, NEW p \in RowsFor(c, {d}), NEW q \in RowsFor(c, {d}),
           p.table = q.table, p.index = q.index
    PROVE  p = q
<1>1. CASE p = Pending("rows", d, 0, RowFits(plan[c], d.shape))
  <2>1. p.table = "rows"
    BY <1>1, PendingFields
  <2> QED
    BY <1>1, <2>1, RowOfDocument, PendingFields
<1>2. CASE p = Pending("nested", d, 0, PartFits(plan[c], d.shape))
  <2>1. p.table = "nested"
    BY <1>2, PendingFields
  <2> QED
    BY <1>2, <2>1, RowOfDocument, PendingFields
<1>3. ASSUME NEW i \in DOMAIN d.shape.items,
             p = Pending("items", d, i, ElementFits(plan[c], d.shape.items[i]))
      PROVE  p = q
  <2>1. p.table = "items" /\ p.index = i
    BY <1>3, PendingFields
  <2>2. PICK j \in DOMAIN d.shape.items :
            q = Pending("items", d, j, ElementFits(plan[c], d.shape.items[j]))
    <3>1. ASSUME NEW f, q = Pending("rows", d, 0, f) \/ q = Pending("nested", d, 0, f)
          PROVE  FALSE
      <4>1. q.table = "rows" \/ q.table = "nested"
        BY <3>1, PendingFields
      <4> QED
        BY <2>1, <4>1
    <3> QED
      BY <3>1, RowOfDocument
  <2>3. q.index = j
    BY <2>2, PendingFields
  <2> QED
    BY <1>3, <2>1, <2>2, <2>3
<1> QED
  BY <1>1, <1>2, <1>3, RowOfDocument

LEMMA RowsStay ==
    ASSUME UNCHANGED plan, NEW c, NEW ds
    PROVE  RowsFor(c, ds)' = RowsFor(c, ds)
BY DEF RowsFor, OwnRow, NestedRow, ItemRows

(***************************************************************************)
(* The position of a run.                                                  *)
(***************************************************************************)

Different(ds) == \A d, e \in ds : d.id = e.id => d = e

InBatch == pc \in {"flush", "alone"}

\* What is left, what is on its way, and that no two documents have one id.
Stage ==
    /\ pc \in {"analyse", "planned", "create", "open", "read", "flush", "alone", "keys",
               "errors", "close", "ended"}
    /\ left \in Seq(Cols) /\ IsInjective(left)
    /\ pc = "read" \/ InBatch => left # <<>>
    /\ pc \in {"planned", "keys", "errors", "close", "ended"} => left = <<>>
    /\ docs \in [Cols -> SUBSET [id : Ids, shape : UNION {Shapes[c] : c \in Cols}, new : BOOLEAN]]
    /\ \A c \in Cols : Different(docs[c])
    /\ Different(batch) /\ \A d \in batch : d.id \in Ids
    /\ IF InBatch THEN pending \subseteq RowsFor(Head(left), batch) ELSE pending = {}
    /\ runs \in Nat /\ (runs = 0 => pc \in {"analyse", "planned"})

LEMMA CollectionsOnce ==
    Collections \in Seq(Cols) /\ IsInjective(Collections) /\ ToSet(Collections) = Cols
BY CollectionsAssumption DEF Cols

LEMMA StageInit == Init => Stage
<1> SUFFICES ASSUME Init PROVE Stage
  OBVIOUS
<1> DEFINE doc(c, i) == [id |-> i, shape |-> Initial[c][i], new |-> FALSE]
           Doc == [id : Ids, shape : UNION {Shapes[c] : c \in Cols}, new : BOOLEAN]
<1>1. /\ docs = [c \in Cols |-> {doc(c, i) : i \in DOMAIN Initial[c]}]
      /\ pc = "analyse" /\ left = Collections /\ batch = {} /\ pending = {} /\ runs = 0
  BY DEF Init
<1>2. ASSUME NEW c \in Cols, NEW i \in DOMAIN Initial[c] PROVE doc(c, i) \in Doc /\ doc(c, i).id = i
  <2>1. Initial[c] \in Seq(Shapes[c]) /\ Len(Initial[c]) <= MaxId
    BY InitialAssumption
  <2>2. i \in 1..Len(Initial[c]) /\ Initial[c][i] \in Shapes[c] /\ Len(Initial[c]) \in Nat
    BY <2>1
  <2>3. i \in Ids
    BY <2>1, <2>2, BoundsAssumption DEF Ids
  <2> QED
    BY <2>2, <2>3
<1> HIDE DEF doc
<1>3. docs \in [Cols -> SUBSET Doc]
  BY <1>1, <1>2
<1>4. ASSUME NEW c \in Cols PROVE Different(docs[c])
  BY <1>1, <1>2 DEF Different
<1> QED
  BY <1>1, <1>3, <1>4, CollectionsOnce DEF Stage, InBatch, Different

\* What the steps of a run leave alone.
LEMMA RunsOutside == Run => UNCHANGED <<docs, writes, runs>> /\ (pc # "analyse" => UNCHANGED plan)
BY DEF Run, AnalyseCollection, CreateAllTables, RunFails, OpenCollection, ReadBatch, Flush, FlushFails,
       InsertAlone, AloneFails, AddForeignKeys, WriteErrors, Close, outside, settings

LEMMA StageStep ==
    ASSUME Stage, [Next]_vars
    PROVE  Stage'
<1> DEFINE h == Head(left)
           Fine(s) == s \in Seq(Cols) /\ IsInjective(s)
           Doc == [id : Ids, shape : UNION {Shapes[c] : c \in Cols}, new : BOOLEAN]
<1>1. Fine(left) /\ Fine(<<>>) /\ Fine(Collections) /\ (left # <<>> => Fine(Tail(left)))
  BY HeadOrTail, CollectionsOnce DEF Stage, IsInjective
<1>2. docs \in [Cols -> SUBSET Doc] /\ \A c \in Cols : Different(docs[c])
  BY DEF Stage
<1> HIDE DEF Fine
<1>3. CASE UNCHANGED vars
  <2>1. RowsFor(h, batch)' = RowsFor(h, batch)
    BY <1>3 DEF vars, reading, RowsFor, OwnRow, NestedRow, ItemRows
  <2>2. Different(batch)' = Different(batch) /\ InBatch' = InBatch
    BY <1>3 DEF vars, reading, Different, InBatch
  <2>3. \A c : Different(docs[c])' = Different(docs[c])
    BY <1>3 DEF vars, Different
  <2> QED
    BY <1>3, <2>1, <2>2, <2>3 DEF Stage, vars, reading
<1>4. ASSUME NEW c \in Cols, Write(c) PROVE Stage'
  <2>1. UNCHANGED <<plan, pc, left, batch, pending, runs>>
    BY <1>4 DEF Write, reading
  <2>2. PICK i \in Ids, s \in Shapes[c] :
            docs' = [docs EXCEPT ![c] = {d \in @ : d.id # i} \cup {[id |-> i, shape |-> s, new |-> TRUE]}]
    BY <1>4 DEF Write
  <2> DEFINE x == [id |-> i, shape |-> s, new |-> TRUE]
  <2>3. x \in Doc /\ x.id = i
    OBVIOUS
  <2> HIDE DEF x
  <2>4. docs' = [docs EXCEPT ![c] = {d \in @ : d.id # i} \cup {x}]
    BY <2>2 DEF x
  <2>5. docs'[c] = {d \in docs[c] : d.id # i} \cup {x} /\ \A e \in Cols \ {c} : docs'[e] = docs[e]
    BY <1>2, <2>4
  <2>6. docs' \in [Cols -> SUBSET Doc]
    BY <1>2, <2>3, <2>4
  <2>7. \A e \in Cols : Different(docs'[e])
    BY <1>2, <2>3, <2>5 DEF Different
  <2>8. RowsFor(h, batch)' = RowsFor(h, batch)
    BY <2>1 DEF RowsFor, OwnRow, NestedRow, ItemRows
  <2>9. Different(batch)' = Different(batch) /\ InBatch' = InBatch
    BY <2>1 DEF Different, InBatch
  <2>10. \A e : Different(docs[e])' = Different(docs'[e])
    BY DEF Different
  <2> QED
    BY <2>1, <2>6, <2>7, <2>8, <2>9, <2>10 DEF Stage
<1>5. CASE Start
  <2>1. /\ pc' = "create" /\ left' = Collections /\ UNCHANGED <<docs, batch, pending>> /\ pending = {}
        /\ runs' = runs + 1
    BY <1>5 DEF Start, outside, reading, Stage, InBatch
  <2>2. Different(batch)' = Different(batch) /\ ~InBatch'
    BY <2>1 DEF Different, InBatch
  <2>3. \A e : Different(docs[e])' = Different(docs[e])
    BY <2>1 DEF Different
  <2> QED
    BY <1>1, <2>1, <2>2, <2>3 DEF Stage, Fine
<1>6. ASSUME Run PROVE Stage'
  <2>1. UNCHANGED <<docs, runs>>
    BY <1>6, RunsOutside
  <2>2. \A e : Different(docs[e])' = Different(docs[e])
    BY <2>1 DEF Different
  <2>3. Different({})
    BY DEF Different
  <2>4. runs = 0 => pc \in {"analyse", "planned"}
    BY DEF Stage
  \* Between batches.
  <2>5. ASSUME /\ pending' = {} /\ Fine(left') /\ batch' \in {batch, {}}
               /\ \/ pc' = "analyse" /\ pc = "analyse"
                  \/ pc' = "planned" /\ pc = "analyse" /\ left' = <<>>
                  \/ pc' = "open" /\ pc \notin {"analyse", "planned"}
                  \/ pc' = "read" /\ pc \notin {"analyse", "planned"} /\ left' # <<>>
                  \/ /\ pc' \in {"keys", "errors", "close", "ended"} /\ left' = <<>>
                     /\ pc \notin {"analyse", "planned"}
        PROVE  Stage'
    <3>1. ~InBatch'
      BY <2>5 DEF InBatch
    <3>2. Different(batch)' /\ \A d \in batch' : d.id \in Ids
      <4>1. Different(batch') = Different(batch)'
        BY DEF Different
      <4> QED
        BY <2>3, <2>5, <4>1 DEF Stage
    <3> QED
      BY <1>2, <2>1, <2>2, <2>4, <2>5, <3>1, <3>2 DEF Stage, Fine
  \* Within a batch.
  <2>6. ASSUME /\ pc' \in {"flush", "alone"} /\ UNCHANGED left /\ left # <<>> /\ UNCHANGED plan
               /\ pending' \subseteq RowsFor(h, batch') /\ pc \notin {"analyse", "planned"}
               /\ Different(batch') /\ \A d \in batch' : d.id \in Ids
        PROVE  Stage'
    <3>1. InBatch'
      BY <2>6 DEF InBatch
    <3>2. RowsFor(h, batch)' = RowsFor(h, batch')
      <4>1. Head(left') = h
        BY <2>6
      <4> QED
        BY <2>6, <4>1 DEF RowsFor, OwnRow, NestedRow, ItemRows
    <3>3. Different(batch)' = Different(batch')
      BY DEF Different
    <3> QED
      BY <1>1, <1>2, <2>1, <2>2, <2>4, <2>6, <3>1, <3>2, <3>3 DEF Stage, Fine
  <2>7. CASE AnalyseCollection
    <3>1. /\ pc = "analyse" /\ UNCHANGED <<batch, pending>> /\ pending = {}
      BY <2>7 DEF AnalyseCollection, reading, Stage, InBatch
    <3>2. CASE left = <<>>
      BY <1>1, <2>5, <2>7, <3>1, <3>2 DEF AnalyseCollection
    <3>3. CASE left # <<>>
      BY <1>1, <2>5, <2>7, <3>1, <3>3 DEF AnalyseCollection
    <3> QED
      BY <3>2, <3>3
  <2>8. CASE CreateAllTables
    <3>1. pc = "create" /\ pc' = "open" /\ UNCHANGED <<left, batch, pending>> /\ pending = {}
      BY <2>8 DEF CreateAllTables, reading, Stage, InBatch
    <3> QED
      BY <1>1, <2>5, <3>1
  <2>9. CASE RunFails
    <3>1. pc' = "ended" /\ left' = <<>> /\ batch' = {} /\ pending' = {} /\ pc \notin {"analyse", "planned"}
      BY <2>9 DEF RunFails, Exit
    <3> QED
      BY <1>1, <2>5, <3>1
  <2>10. CASE OpenCollection
    <3>1. pc = "open" /\ UNCHANGED <<left, batch, pending>> /\ pending = {}
      BY <2>10 DEF OpenCollection, Stage, InBatch
    <3>2. pc' = IF left = <<>> THEN "keys" ELSE "read"
      BY <2>10 DEF OpenCollection
    <3> QED
      BY <1>1, <2>5, <3>1, <3>2
  <2>11. CASE ReadBatch
    <3>1. pc = "read" /\ left # <<>> /\ pending = {} /\ h \in Cols /\ UNCHANGED plan
      BY <2>11, HeadOrTail DEF ReadBatch, Stage, InBatch, outside
    <3>2. CASE pc' = "open" /\ left' = Tail(left) /\ UNCHANGED <<batch, pending>>
      BY <1>1, <2>5, <3>1, <3>2
    <3>3. ASSUME NEW ds \in SUBSET {d \in Asked(h) : d.id \notin fetched},
                 batch' = ds, pending' = RowsFor(h, ds), pc' = "flush", UNCHANGED left
          PROVE  Stage'
      <4>1. ds \subseteq docs[h]
        BY DEF Asked
      <4>2. Different(ds) /\ \A d \in ds : d.id \in Ids
        BY <1>2, <3>1, <4>1 DEF Different
      <4> QED
        BY <2>6, <3>1, <3>3, <4>2
    <3> QED
      BY <2>11, <3>2, <3>3 DEF ReadBatch
  <2>12. CASE Flush \/ InsertAlone \/ AloneFails
    <3>1. /\ InBatch /\ UNCHANGED <<left, batch, plan>> /\ pending' \subseteq pending /\ left # <<>>
          /\ pc' = (IF pending' = {} THEN "read" ELSE pc)
      BY <2>12 DEF Flush, InsertAlone, AloneFails, Rest, outside, Stage, InBatch
    <3>2. CASE pending' = {}
      BY <1>1, <2>5, <3>1, <3>2 DEF InBatch
    <3>3. CASE pending' # {}
      BY <2>6, <3>1, <3>3 DEF InBatch, Stage
    <3> QED
      BY <3>2, <3>3
  <2>13. CASE FlushFails
    <3>1. /\ pc = "flush" /\ pc' = "alone" /\ UNCHANGED <<left, batch, plan>> /\ left # <<>>
          /\ pending' = RowsFor(h, batch)
      BY <2>13 DEF FlushFails, outside, Stage, InBatch
    <3> QED
      BY <2>6, <3>1 DEF Stage
  <2>14. CASE AddForeignKeys \/ WriteErrors
    <3>1. /\ pc \in {"keys", "errors"} /\ pc' \in {"errors", "close"} /\ UNCHANGED <<left, batch, pending>>
          /\ pending = {} /\ left = <<>>
      BY <2>14 DEF AddForeignKeys, WriteErrors, reading, Stage, InBatch
    <3> QED
      BY <1>1, <2>5, <3>1
  <2>15. CASE Close
    <3>1. pc = "close" /\ pc' = "ended" /\ left' = <<>> /\ batch' = {} /\ pending' = {}
      BY <2>15 DEF Close, Exit
    <3> QED
      BY <1>1, <2>5, <3>1
  <2> QED
    BY <1>6, <2>7, <2>8, <2>9, <2>10, <2>11, <2>12, <2>13, <2>14, <2>15 DEF Run
<1> QED
  BY <1>3, <1>4, <1>5, <1>6 DEF Next, Finished

(***************************************************************************)
(* Parents before children.                                                *)
(***************************************************************************)

KidOf(c, p) == <<c, p.table, p.id, p.index>>
KidsOf(c, ps) == {KidOf(c, p) : p \in {q \in ps : q.table # "rows"}}
HasRow(s, c, i) == \E r \in rows[s] : r[1] = c /\ r[2] = i

\* A statement adds the rows it has, and takes none away.
LEMMA LandingRows ==
    ASSUME TargetShape, UNCHANGED dry, NEW c, NEW ps, Land(c, ps)
    PROVE  /\ schema \in Schemas /\ schema' = schema
           /\ \A s \in Schemas : \A e, i : HasRow(s, e, i) => HasRow(s, e, i)'
           /\ \A p \in ps : p.table = "rows" => HasRow(schema, c, p.id)'
           /\ DOMAIN kids'[schema] = DOMAIN kids[schema] \cup KidsOf(c, ps)
           /\ \A k \in DOMAIN kids'[schema] :
                 kids'[schema][k] = (IF k \in DOMAIN kids[schema] THEN kids[schema][k] ELSE 0)
                                    + (IF k \in KidsOf(c, ps) THEN 1 ELSE 0)
           /\ \A s \in Schemas \ {schema} : kids'[s] = kids[s]
<1> DEFINE own == {p \in ps : p.table = "rows"}
           there == {<<r[1], r[2]>> : r \in rows[schema]}
           new == {KidOf(c, p) : p \in ps \ own}
<1>1. /\ rows' = [rows EXCEPT ![schema] =
                     @ \cup {<<c, p.id, p.ref>> : p \in {q \in own : <<c, q.id>> \notin there}}]
      /\ kids' = [kids EXCEPT ![schema] =
                     [k \in DOMAIN @ \cup new |->
                         (IF k \in DOMAIN @ THEN @[k] ELSE 0) + (IF k \in new THEN 1 ELSE 0)]]
  BY DEF Land, KidOf
<1>2. schema \in Schemas /\ schema' = schema
  BY DEF schema, Schemas
<1>3. new = KidsOf(c, ps)
  BY DEF KidsOf
<1> HIDE DEF new
<1>4. rows'[schema] = rows[schema] \cup {<<c, p.id, p.ref>> : p \in {q \in own : <<c, q.id>> \notin there}}
  BY <1>1, <1>2 DEF TargetShape
<1>5. \A s \in Schemas : rows[s] \subseteq rows'[s]
  BY <1>1, <1>2, <1>4 DEF TargetShape
<1>6. \A s \in Schemas : \A e, i : HasRow(s, e, i) => HasRow(s, e, i)'
  BY <1>5 DEF HasRow
<1>7. ASSUME NEW p \in ps, p.table = "rows" PROVE \E r \in rows'[schema] : r[1] = c /\ r[2] = p.id
  <2>1. CASE <<c, p.id>> \in there
    <3>1. PICK r \in rows[schema] : <<r[1], r[2]>> = <<c, p.id>>
      BY <2>1
    <3> QED
      BY <1>2, <1>5, <3>1
  <2>2. CASE <<c, p.id>> \notin there
    <3>1. <<c, p.id, p.ref>> \in rows'[schema]
      BY <1>4, <1>7, <2>2
    <3> QED
      BY <3>1
  <2> QED
    BY <2>1, <2>2
<1>8. kids'[schema] = [k \in DOMAIN kids[schema] \cup new |->
                          (IF k \in DOMAIN kids[schema] THEN kids[schema][k] ELSE 0)
                          + (IF k \in new THEN 1 ELSE 0)]
  BY <1>1, <1>2 DEF TargetShape
<1>9. \A s \in Schemas \ {schema} : kids'[s] = kids[s]
  BY <1>1 DEF TargetShape
<1>10. \A p \in ps : p.table = "rows" => HasRow(schema, c, p.id)'
  BY <1>2, <1>7 DEF HasRow
<1> QED
  BY <1>2, <1>3, <1>6, <1>8, <1>9, <1>10

\* In a statement with child rows, no parent is still to be written.
LEMMA ParentsGoFirst ==
    ASSUME Stage, InBatch, NEW p \in Chunk, p.table # "rows"
    PROVE  \A q \in pending : ~(q.table = "rows" /\ q.id = p.id)
<1> SUFFICES ASSUME NEW q \in pending, q.table = "rows", q.id = p.id PROVE FALSE
  OBVIOUS
<1>1. p \in pending
  BY DEF Chunk
<1>2. p.table \in {"nested", "items"}
  <2>1. p \in RowsFor(Head(left), batch)
    BY <1>1 DEF Stage
  <2>2. PICK d \in batch : p \in RowsFor(Head(left), {d})
    BY <2>1, RowsByDocument
  <2> QED
    BY <2>2, RowFields
<1>3. Turn(q) = 1 /\ Turn(p) \in {2, 3}
  BY <1>2 DEF Turn
<1>4. Before(q, p)
  <2>1. CASE pc = "alone"
    <3>1. Place(q) = <<q.id, Turn(q), q.index>> /\ Place(p) = <<p.id, Turn(p), p.index>>
      BY <2>1 DEF Place
    <3>2. Place(q)[2] < Place(p)[2] /\ Place(q)[1] = Place(p)[1]
      BY <1>3, <3>1
    <3>3. \A m \in 1..2 - 1 : m = 1
      OBVIOUS
    <3> HIDE DEF Place
    <3> QED
      BY <3>2, <3>3 DEF Before
  <2>2. CASE pc # "alone"
    <3>1. Place(q) = <<Turn(q), q.id, q.index>> /\ Place(p) = <<Turn(p), p.id, p.index>>
      BY <2>2 DEF Place
    <3>2. Place(q)[1] < Place(p)[1]
      BY <1>3, <3>1
    <3>3. \A m \in 1..1 - 1 : FALSE
      OBVIOUS
    <3> QED
      BY <3>2, <3>3 DEF Before
  <2> QED
    BY <2>1, <2>2
<1>5. q \in Ahead(p)
  BY <1>4 DEF Ahead
<1> QED
  BY <1>2, <1>5 DEF Chunk

\* Child rows have their parent's row, and those on their way have it or it goes before.
Parents ==
    /\ \A s \in Schemas : \A k \in DOMAIN kids[s] : HasRow(s, k[1], k[3])
    /\ \A p \in pending : p.table # "rows" =>
          \/ \E q \in pending : q.table = "rows" /\ q.id = p.id
          \/ HasRow(schema, Head(left), p.id)

\* The rows of documents come with the parents.
LEMMA RowsHaveParents ==
    ASSUME NEW c, NEW ds, NEW p \in RowsFor(c, ds)
    PROVE  \E q \in RowsFor(c, ds) : q.table = "rows" /\ q.id = p.id
<1>1. PICK d \in ds : p \in RowsFor(c, {d})
  BY RowsByDocument
<1>2. PICK q \in RowsFor(c, {d}) : q.table = "rows" /\ q.id = d.id
  BY OwnRowOf
<1>3. p.id = d.id /\ q \in RowsFor(c, ds)
  BY <1>1, RowFields, RowsByDocument
<1> QED
  BY <1>2, <1>3

LEMMA ParentsInit == Init => Parents
BY DEF Init, Parents, Empty

LEMMA ParentsStep ==
    ASSUME TargetShape, Stage, Parents, [Next]_vars
    PROVE  Parents'
<1> DEFINE h == Head(left)
<1>1. ASSUME UNCHANGED <<rows, kids>>, pending' = {} PROVE Parents'
  BY <1>1 DEF Parents, HasRow
<1>2. ASSUME UNCHANGED <<rows, kids, dry, left>>,
             \A p \in pending' : \/ p \in pending /\ \A q \in pending : q.id = p.id => q \in pending'
                                 \/ \E q \in pending' : q.table = "rows" /\ q.id = p.id
      PROVE  Parents'
  <2>1. schema' = schema
    BY <1>2 DEF schema
  <2>2. \A s, c, i : HasRow(s, c, i)' = HasRow(s, c, i)
    BY <1>2 DEF HasRow
  <2>3. \A i : HasRow(schema, h, i)' = HasRow(schema, h, i)
    BY <1>2, <2>1 DEF HasRow
  <2>4. \A s \in Schemas : \A k \in DOMAIN kids'[s] : HasRow(s, k[1], k[3])'
    BY <1>2, <2>2 DEF Parents
  <2>5. \A p \in pending' : p.table # "rows" =>
            \/ \E q \in pending' : q.table = "rows" /\ q.id = p.id
            \/ HasRow(schema, h, p.id)'
    BY <1>2, <2>3 DEF Parents
  <2> QED
    BY <2>4, <2>5 DEF Parents
<1>3. CASE UNCHANGED vars \/ \E c \in Cols : Write(c)
  <2>1. UNCHANGED <<rows, kids, dry, left, pending>>
    BY <1>3 DEF Write, vars, target, reading
  <2> QED
    BY <1>2, <2>1
<1>4. CASE Start
  BY <1>1, <1>4 DEF Start, Stage, InBatch, target, reading
<1>5. CASE AnalyseCollection
  BY <1>1, <1>5 DEF AnalyseCollection, Stage, InBatch, target, reading
<1>6. CASE RunFails
  BY <1>1, <1>6 DEF RunFails, Exit, target
<1>7. CASE OpenCollection
  BY <1>1, <1>7 DEF OpenCollection, Stage, InBatch, target
<1>8. CASE AddForeignKeys \/ WriteErrors
  BY <1>1, <1>8 DEF AddForeignKeys, WriteErrors, Stage, InBatch, reading
<1>9. CASE CreateAllTables \/ Close
  <2>1. pending' = {} /\ UNCHANGED dry
    BY <1>9 DEF CreateAllTables, Close, Exit, Stage, InBatch, reading, settings
  <2>2. \/ UNCHANGED <<rows, kids>>
        \/ rows' = [rows EXCEPT ![schema] = {}] /\ kids' = [kids EXCEPT ![schema] = Empty]
    BY <1>9 DEF CreateAllTables, Close, target
  <2>3. ASSUME rows' = [rows EXCEPT ![schema] = {}], kids' = [kids EXCEPT ![schema] = Empty],
               NEW s \in Schemas, NEW k \in DOMAIN kids'[s]
        PROVE  \E r \in rows'[s] : r[1] = k[1] /\ r[2] = k[3]
    BY <2>3 DEF TargetShape, Empty, Parents, HasRow
  <2> QED
    BY <1>1, <2>1, <2>2, <2>3 DEF Parents, HasRow
<1>10. CASE ReadBatch
  <2>1. pending = {} /\ UNCHANGED <<rows, kids, dry>>
    BY <1>10 DEF ReadBatch, Stage, InBatch, target, settings
  <2>2. CASE UNCHANGED pending
    BY <1>1, <2>1, <2>2
  <2>3. ASSUME NEW ds, pending' = RowsFor(h, ds), UNCHANGED left PROVE Parents'
    BY <1>2, <2>1, <2>3, RowsHaveParents
  <2> QED
    BY <1>10, <2>2, <2>3 DEF ReadBatch
<1>11. CASE FlushFails
  <2>1. pending' = RowsFor(h, batch) /\ UNCHANGED <<rows, kids, dry, left>>
    BY <1>11 DEF FlushFails, target, settings
  <2> QED
    BY <1>2, <2>1, RowsHaveParents
<1>12. CASE AloneFails
  <2>1. PICK p : pending' = {q \in pending : q.id # p.id}
    BY <1>12 DEF AloneFails
  <2>2. UNCHANGED <<rows, kids, dry, left>>
    BY <1>12 DEF AloneFails, target, settings
  <2> QED
    BY <1>2, <2>1, <2>2
<1>13. CASE Flush \/ InsertAlone
  <2>1. InBatch /\ Land(h, Chunk) /\ pending' = pending \ Chunk /\ UNCHANGED <<dry, left>>
    BY <1>13 DEF Flush, InsertAlone, Rest, InBatch, settings
  <2>2. /\ schema \in Schemas /\ schema' = schema
        /\ \A s \in Schemas : \A c, i : HasRow(s, c, i) => HasRow(s, c, i)'
        /\ \A p \in Chunk : p.table = "rows" => HasRow(schema, h, p.id)'
        /\ DOMAIN kids'[schema] = DOMAIN kids[schema] \cup KidsOf(h, Chunk)
        /\ \A s \in Schemas \ {schema} : kids'[s] = kids[s]
    BY <2>1, LandingRows
  <2>3. ASSUME NEW i, HasRow(schema, h, i) PROVE HasRow(schema, h, i)'
    <3>1. HasRow(schema, h, i)' <=> \E r \in rows'[schema] : r[1] = h /\ r[2] = i
      BY <2>1, <2>2 DEF HasRow
    <3>2. HasRow(schema, h, i) => \E r \in rows'[schema] : r[1] = h /\ r[2] = i
      BY <2>2 DEF HasRow
    <3> QED
      BY <2>3, <3>1, <3>2
  <2>4. ASSUME NEW p \in Chunk, p.table # "rows" PROVE HasRow(schema, h, p.id)
    <3>1. p \in pending
      BY DEF Chunk
    <3> QED
      BY <2>1, <2>4, <3>1, ParentsGoFirst DEF Parents
  <2>5. ASSUME NEW s \in Schemas, NEW k \in DOMAIN kids'[s] PROVE HasRow(s, k[1], k[3])'
    <3>1. CASE k \in DOMAIN kids[s]
      BY <2>2, <3>1 DEF Parents
    <3>2. CASE k \notin DOMAIN kids[s]
      <4>1. s = schema /\ k \in KidsOf(h, Chunk)
        BY <2>2, <2>5, <3>2
      <4>2. PICK p \in Chunk : p.table # "rows" /\ k = KidOf(h, p)
        BY <4>1 DEF KidsOf
      <4>3. k[1] = h /\ k[3] = p.id
        BY <4>2 DEF KidOf
      <4>4. HasRow(schema, h, p.id)
        BY <2>4, <4>2
      <4> QED
        BY <2>2, <4>1, <4>3, <4>4
    <3> QED
      BY <3>1, <3>2
  <2>6. ASSUME NEW p \in pending', p.table # "rows"
        PROVE  (\E q \in pending' : q.table = "rows" /\ q.id = p.id) \/ HasRow(schema, h, p.id)'
    <3>1. p \in pending
      BY <2>1
    <3>2. CASE HasRow(schema, h, p.id)
      BY <2>3, <3>2
    <3>3. CASE \E q \in pending : q.table = "rows" /\ q.id = p.id
      <4>1. PICK q \in pending : q.table = "rows" /\ q.id = p.id
        BY <3>3
      <4>2. q \in Chunk => HasRow(schema, h, q.id)'
        BY <2>2, <4>1
      <4>3. q \in Chunk => HasRow(schema, h, p.id)'
        BY <4>1, <4>2
      <4> QED
        BY <2>1, <4>1, <4>3
    <3> QED
      BY <2>6, <3>1, <3>2, <3>3 DEF Parents
  <2>7. h' = h
    BY <2>1
  <2> HIDE DEF h
  <2> QED
    BY <2>5, <2>6, <2>7 DEF Parents, h
<1> QED
  BY <1>3, <1>4, <1>5, <1>6, <1>7, <1>8, <1>9, <1>10, <1>11, <1>12, <1>13 DEF Next, Run, Finished

\* A row of a child table has its parent's row, in every moment of every run, although no
\* transaction holds them together (mongo-to-postgres.engine.ts:565-573, 609-656).
THEOREM NoOrphans == Spec => []KidsHaveParents
<1> DEFINE Inv == TargetShape /\ Stage /\ Parents
<1>1. Init => Inv
  BY ShapeInit, StageInit, ParentsInit
<1>2. Inv /\ [Next]_vars => Inv'
  BY StepsApart, StageStep, ParentsStep
<1>3. Inv => KidsHaveParents
  BY DEF Parents, KidsHaveParents, HasRow
<1> QED
  BY <1>1, <1>2, <1>3, PTL DEF Spec

(***************************************************************************)
(* Written twice.                                                          *)
(***************************************************************************)

\* The rows on their way are those of documents of the batch, one for each place.
LEMMA PendingRows ==
    ASSUME Stage, InBatch
    PROVE  /\ \A p \in pending : \E d \in batch : p \in RowsFor(Head(left), {d}) /\ p.id = d.id
           /\ \A p, q \in pending :
                 p.table = q.table /\ p.id = q.id /\ p.index = q.index => p = q
<1>1. ASSUME NEW p \in pending
      PROVE  \E d \in batch : p \in RowsFor(Head(left), {d}) /\ p.id = d.id
  <2>1. p \in RowsFor(Head(left), batch)
    BY DEF Stage
  <2>2. PICK d \in batch : p \in RowsFor(Head(left), {d})
    BY <2>1, RowsByDocument
  <2>3. p.id = d.id
    BY <2>2, RowFields
  <2> QED
    BY <2>2, <2>3
<1>2. ASSUME NEW p \in pending, NEW q \in pending, p.table = q.table, p.id = q.id, p.index = q.index
      PROVE  p = q
  <2>1. PICK d \in batch : p \in RowsFor(Head(left), {d}) /\ p.id = d.id
    BY <1>1
  <2>2. PICK e \in batch : q \in RowsFor(Head(left), {e}) /\ q.id = e.id
    BY <1>1
  <2>3. d = e
    BY <1>2, <2>1, <2>2 DEF Stage, Different
  <2> QED
    BY <1>2, <2>1, <2>2, <2>3, RowsDiffer
<1> QED
  BY <1>1, <1>2

\* In the first run, what is there of the collection under way is of documents that
\* were fetched, and what is on its way is not there unless its batch was refused.
OnlyOnce ==
    /\ runs = 0 => \A s \in Schemas : DOMAIN kids[s] = {}
    /\ InBatch => \A d \in batch : d.id \in fetched
    /\ runs = 1 =>
         /\ \A s \in Schemas : \A k \in DOMAIN kids[s] :
               /\ kids[s][k] \in Nat /\ (kids[s][k] > 1 => <<k[1], k[3]>> \in alone)
               /\ k[1] \in ToSet(left) =>
                     (pc = "read" \/ InBatch) /\ k[1] = Head(left) /\ k[3] \in fetched
         /\ \A p \in pending : p.table # "rows" =>
               \/ <<Head(left), p.id>> \in alone
               \/ \A s \in Schemas : KidOf(Head(left), p) \notin DOMAIN kids[s]

LEMMA OnlyOnceInit == Init => OnlyOnce
BY DEF Init, OnlyOnce, InBatch, Empty

LEMMA OnlyOnceStep ==
    ASSUME TargetShape, Stage, OnlyOnce, [Next]_vars
    PROVE  OnlyOnce'
<1> DEFINE h == Head(left)
           Counted(k, n) == n \in Nat /\ (n > 1 => <<k[1], k[3]>> \in alone')
           Reached(k) == k[1] \in ToSet(left') =>
                            (pc' = "read" \/ InBatch') /\ k[1] = Head(left') /\ k[3] \in fetched'
\* Outside the batches nothing is on its way.
<1>1. ASSUME UNCHANGED <<kids, alone, runs>>, pending' = {}, ~InBatch',
             \A k : (k[1] \in ToSet(left) =>
                        (pc = "read" \/ InBatch) /\ k[1] = h /\ k[3] \in fetched) => Reached(k)
      PROVE  OnlyOnce'
  <2>1. runs' = 1 => \A s \in Schemas : \A k \in DOMAIN kids'[s] : Counted(k, kids'[s][k]) /\ Reached(k)
    BY <1>1 DEF OnlyOnce
  <2> QED
    BY <1>1, <2>1 DEF OnlyOnce
<1>2. left # <<>> => ToSet(left) = {h} \cup ToSet(Tail(left)) /\ h \notin ToSet(Tail(left))
  BY HeadOrTail DEF Stage
<1>3. CASE UNCHANGED vars \/ \E c \in Cols : Write(c)
  <2>1. UNCHANGED <<kids, alone, runs, pending, batch, fetched, left, pc>>
    BY <1>3 DEF Write, vars, target, reading, outcome
  <2>2. InBatch' = InBatch /\ \A p : KidOf(h, p)' = KidOf(h, p)
    BY <2>1 DEF InBatch, KidOf
  <2> QED
    BY <2>1, <2>2 DEF OnlyOnce, KidOf
<1>4. CASE Start
  <2>1. /\ UNCHANGED <<kids, alone, pending>> /\ pending = {} /\ runs' = runs + 1 /\ runs \in Nat
        /\ pc' = "create"
    BY <1>4 DEF Start, Stage, InBatch, target, reading
  <2>2. runs' # 0 /\ (runs' = 1 => runs = 0) /\ ~InBatch'
    BY <2>1 DEF InBatch
  <2> QED
    BY <2>1, <2>2 DEF OnlyOnce
<1>5. CASE AnalyseCollection
  <2>1. /\ pc = "analyse" /\ UNCHANGED <<kids, alone, runs, pending>> /\ pending = {}
        /\ pc' \in {"analyse", "planned"} /\ left' \in {left, Tail(left)} /\ (left = <<>> => left' = <<>>)
    BY <1>5 DEF AnalyseCollection, Stage, InBatch, target, reading, outcome
  <2>2. ToSet(left') \subseteq ToSet(left) /\ ~InBatch /\ ~InBatch'
    BY <1>2, <2>1 DEF InBatch
  <2> QED
    BY <1>1, <2>1, <2>2
<1>6. CASE CreateAllTables
  <2>1. /\ pc = "create" /\ pc' = "open" /\ UNCHANGED <<alone, runs, pending, left>> /\ pending = {}
    BY <1>6 DEF CreateAllTables, Stage, InBatch, reading, settings, outcome
  <2>2. UNCHANGED kids \/ kids' = [kids EXCEPT ![schema] = Empty]
    BY <1>6 DEF CreateAllTables, target
  <2>3. ~InBatch /\ ~InBatch' /\ \A k : Reached(k) <=> k[1] \notin ToSet(left)
    BY <2>1 DEF InBatch
  <2>4. ASSUME kids' = [kids EXCEPT ![schema] = Empty], NEW s \in Schemas
        PROVE  DOMAIN kids'[s] = {} \/ kids'[s] = kids[s]
    BY <2>4 DEF TargetShape, Empty
  <2>5. \A s \in Schemas : DOMAIN kids'[s] = {} \/ kids'[s] = kids[s]
    BY <2>2, <2>4
  <2>6. runs' = 1 => \A s \in Schemas : \A k \in DOMAIN kids'[s] : Counted(k, kids'[s][k]) /\ Reached(k)
    BY <2>1, <2>3, <2>5 DEF OnlyOnce
  <2>7. runs' = 0 => \A s \in Schemas : DOMAIN kids'[s] = {}
    BY <2>1, <2>5 DEF OnlyOnce
  <2> QED
    BY <2>1, <2>3, <2>6, <2>7 DEF OnlyOnce
<1>7. CASE RunFails
  <2>1. UNCHANGED <<kids, alone, runs>> /\ pending' = {} /\ pc' = "ended" /\ left' = <<>>
    BY <1>7 DEF RunFails, Exit, target, settings
  <2>2. ToSet(left') = {} /\ ~InBatch'
    BY <2>1, EmptySet DEF InBatch
  <2> QED
    BY <1>1, <2>1, <2>2
<1>8. CASE Close
  <2>1. UNCHANGED <<alone, runs>> /\ pending' = {} /\ pc' = "ended" /\ left' = <<>>
    BY <1>8 DEF Close, Exit, settings
  <2>2. UNCHANGED kids \/ kids' = [kids EXCEPT ![schema] = Empty]
    BY <1>8 DEF Close, target
  <2>3. ToSet(left') = {} /\ ~InBatch'
    BY <2>1, EmptySet DEF InBatch
  <2>4. ASSUME kids' = [kids EXCEPT ![schema] = Empty], NEW s \in Schemas
        PROVE  DOMAIN kids'[s] = {} \/ kids'[s] = kids[s]
    BY <2>4 DEF TargetShape, Empty
  <2>5. \A s \in Schemas : DOMAIN kids'[s] = {} \/ kids'[s] = kids[s]
    BY <2>2, <2>4
  <2>6. runs' = 1 => \A s \in Schemas : \A k \in DOMAIN kids'[s] : Counted(k, kids'[s][k]) /\ Reached(k)
    BY <2>1, <2>3, <2>5 DEF OnlyOnce
  <2>7. runs' = 0 => \A s \in Schemas : DOMAIN kids'[s] = {}
    BY <2>1, <2>5 DEF OnlyOnce
  <2> QED
    BY <2>1, <2>3, <2>6, <2>7 DEF OnlyOnce
<1>9. CASE OpenCollection
  <2>1. /\ pc = "open" /\ UNCHANGED <<kids, alone, runs, pending, left>> /\ pending = {}
        /\ pc' \in {"keys", "read"}
    BY <1>9 DEF OpenCollection, Stage, InBatch, target, settings, outcome
  <2>2. ~InBatch /\ ~InBatch'
    BY <2>1 DEF InBatch
  <2> QED
    BY <1>1, <2>1, <2>2
<1>10. CASE AddForeignKeys \/ WriteErrors
  <2>1. /\ UNCHANGED <<kids, alone, runs, pending, left>> /\ pending = {} /\ left = <<>>
        /\ pc' \in {"errors", "close"}
    BY <1>10 DEF AddForeignKeys, WriteErrors, Stage, InBatch, reading, settings, outcome
  <2>2. ToSet(left') = {} /\ ~InBatch'
    BY <2>1, EmptySet DEF InBatch
  <2> QED
    BY <1>1, <2>1, <2>2
<1>11. CASE ReadBatch
  <2>1. /\ pc = "read" /\ pending = {} /\ left # <<>> /\ UNCHANGED <<kids, alone, runs>>
        /\ runs # 0
    BY <1>11 DEF ReadBatch, Stage, InBatch, target, settings, outcome
  <2>2. CASE pc' = "open" /\ left' = Tail(left) /\ UNCHANGED <<fetched, batch, pending>>
    <3>1. ~InBatch /\ ~InBatch'
      BY <2>1, <2>2 DEF InBatch
    <3>2. \A k : k[1] \in ToSet(left') => k[1] \in ToSet(left) /\ k[1] # h
      BY <1>2, <2>1, <2>2
    <3> QED
      BY <1>1, <2>1, <2>2, <3>1, <3>2
  <2>3. ASSUME NEW ds \in SUBSET {d \in Asked(h) : d.id \notin fetched},
               batch' = ds, fetched' = fetched \cup {d.id : d \in ds},
               pending' = RowsFor(h, ds), pc' = "flush", UNCHANGED left
        PROVE  OnlyOnce'
    <3>1. InBatch' /\ \A d \in batch' : d.id \in fetched'
      BY <2>3 DEF InBatch
    <3>2. runs' = 1 => \A s \in Schemas : \A k \in DOMAIN kids'[s] : Counted(k, kids'[s][k]) /\ Reached(k)
      BY <2>1, <2>3, <3>1 DEF OnlyOnce
    <3>3. ASSUME runs' = 1, NEW p \in pending', NEW s \in Schemas, KidOf(h, p) \in DOMAIN kids[s]
          PROVE  FALSE
      <4>1. PICK d \in ds : p \in RowsFor(h, {d})
        BY <2>3, <3>3, RowsByDocument
      <4>2. p.id \notin fetched
        BY <4>1, RowFields
      <4>3. KidOf(h, p)[1] = h /\ KidOf(h, p)[3] = p.id
        BY DEF KidOf
      <4>4. h \in ToSet(left) /\ runs = 1
        BY <1>2, <2>1, <3>3
      <4> QED
        BY <3>3, <4>2, <4>3, <4>4 DEF OnlyOnce
    <3>4. runs' = 1 => \A p \in pending' : \A s \in Schemas : KidOf(h', p) \notin DOMAIN kids'[s]
      BY <2>1, <2>3, <3>3
    <3>5. \A p : KidOf(h', p) = KidOf(h, p)'
      BY DEF KidOf
    <3> QED
      BY <2>1, <3>1, <3>2, <3>4, <3>5 DEF OnlyOnce, KidOf
  <2> QED
    BY <1>11, <2>2, <2>3 DEF ReadBatch
<1>12. CASE FlushFails
  <2>1. /\ pc = "flush" /\ pc' = "alone" /\ left # <<>>
        /\ UNCHANGED <<kids, runs, left, batch, fetched>>
        /\ pending' = RowsFor(h, batch) /\ alone' = alone \cup {<<h, d.id>> : d \in batch}
    BY <1>12 DEF FlushFails, Stage, InBatch, target, settings
  <2>2. InBatch /\ InBatch'
    BY <2>1 DEF InBatch
  <2>3. \A p \in pending' : <<h, p.id>> \in alone'
    <3> SUFFICES ASSUME NEW p \in pending' PROVE <<h, p.id>> \in alone'
      OBVIOUS
    <3>1. PICK d \in batch : p \in RowsFor(h, {d})
      BY <2>1, RowsByDocument
    <3>2. p.id = d.id
      BY <3>1, RowFields
    <3> QED
      BY <2>1, <3>2
  <2>4. runs' = 1 => \A s \in Schemas : \A k \in DOMAIN kids'[s] : Counted(k, kids'[s][k]) /\ Reached(k)
    BY <2>1, <2>2 DEF OnlyOnce
  <2>5. h' = h
    BY <2>1
  <2> HIDE DEF h
  <2> QED
    BY <2>1, <2>2, <2>3, <2>4, <2>5 DEF OnlyOnce, h
<1>13. CASE AloneFails
  <2>1. /\ pc = "alone" /\ left # <<>> /\ UNCHANGED <<kids, runs, alone, left, batch, fetched>>
        /\ pending' \subseteq pending /\ pc' \in {"read", "alone"}
    BY <1>13 DEF AloneFails, Stage, InBatch, target, settings
  <2>2. InBatch
    BY <2>1 DEF InBatch
  <2>3. runs' = 1 => \A s \in Schemas : \A k \in DOMAIN kids'[s] : Counted(k, kids'[s][k]) /\ Reached(k)
    BY <2>1, <2>2 DEF OnlyOnce, InBatch
  <2>4. h' = h /\ \A p : KidOf(h, p)' = KidOf(h, p)
    BY <2>1 DEF KidOf
  <2> HIDE DEF h
  <2> QED
    BY <2>1, <2>2, <2>3, <2>4 DEF OnlyOnce, h
<1>14. CASE Flush \/ InsertAlone
  <2>1. /\ InBatch /\ left # <<>> /\ Land(h, Chunk) /\ pending' = pending \ Chunk
        /\ UNCHANGED <<dry, runs, alone, left, batch, fetched>> /\ pc' \in {"read", pc}
        /\ runs # 0
    BY <1>14 DEF Flush, InsertAlone, Rest, Stage, InBatch, settings
  <2>2. /\ schema \in Schemas
        /\ DOMAIN kids'[schema] = DOMAIN kids[schema] \cup KidsOf(h, Chunk)
        /\ \A k \in DOMAIN kids'[schema] :
              kids'[schema][k] = (IF k \in DOMAIN kids[schema] THEN kids[schema][k] ELSE 0)
                                 + (IF k \in KidsOf(h, Chunk) THEN 1 ELSE 0)
        /\ \A s \in Schemas \ {schema} : kids'[s] = kids[s]
    BY <2>1, LandingRows
  <2>3. pc' = "read" \/ InBatch'
    BY <2>1 DEF InBatch
  <2>4. ASSUME runs = 1, NEW k \in KidsOf(h, Chunk)
        PROVE  /\ k[1] = h /\ k[3] \in fetched
               /\ <<k[1], k[3]>> \in alone \/ \A s \in Schemas : k \notin DOMAIN kids[s]
    <3>1. PICK p \in Chunk : p.table # "rows" /\ k = KidOf(h, p)
      BY DEF KidsOf
    <3>2. p \in pending /\ k[1] = h /\ k[3] = p.id
      BY <3>1 DEF Chunk, KidOf
    <3>3. PICK d \in batch : p.id = d.id
      BY <2>1, <3>2, PendingRows
    <3> QED
      BY <2>1, <2>4, <3>1, <3>2, <3>3 DEF OnlyOnce
  <2>5. ASSUME runs = 1, NEW s \in Schemas, NEW k \in DOMAIN kids'[s]
        PROVE  Counted(k, kids'[s][k]) /\ Reached(k)
    <3>1. CASE s # schema \/ k \notin KidsOf(h, Chunk)
      <4>1. k \in DOMAIN kids[s]
        BY <2>2, <2>5, <3>1
      <4>2. kids[s][k] \in Nat
        BY <2>5, <4>1 DEF OnlyOnce
      <4>3. kids'[s][k] = kids[s][k]
        BY <2>2, <2>5, <3>1, <4>1, <4>2
      <4> QED
        BY <2>1, <2>3, <2>5, <4>1, <4>2, <4>3 DEF OnlyOnce
    <3>2. CASE s = schema /\ k \in KidsOf(h, Chunk)
      <4>1. Reached(k)
        BY <2>1, <2>3, <2>4, <2>5, <3>2
      <4>2. CASE k \in DOMAIN kids[s]
        <5>1. <<k[1], k[3]>> \in alone /\ kids[s][k] \in Nat
          BY <2>4, <2>5, <3>2, <4>2 DEF OnlyOnce
        <5>2. kids'[s][k] = kids[s][k] + 1
          BY <2>2, <2>5, <3>2, <4>2
        <5> QED
          BY <2>1, <4>1, <5>1, <5>2
      <4>3. CASE k \notin DOMAIN kids[s]
        <5>1. kids'[s][k] = 0 + 1
          BY <2>2, <2>5, <3>2, <4>3
        <5> QED
          BY <4>1, <5>1
      <4> QED
        BY <4>2, <4>3
    <3> QED
      BY <3>1, <3>2
  <2>6. ASSUME runs = 1, NEW p \in pending', p.table # "rows", <<h, p.id>> \notin alone,
               NEW s \in Schemas, KidOf(h, p) \in DOMAIN kids'[s]
        PROVE  FALSE
    <3>1. p \in pending /\ p \notin Chunk
      BY <2>1
    <3>2. KidOf(h, p) \notin DOMAIN kids[s]
      BY <2>6, <3>1 DEF OnlyOnce
    <3>3. KidOf(h, p) \in KidsOf(h, Chunk)
      BY <2>2, <2>6, <3>2
    <3>4. PICK q \in Chunk : KidOf(h, p) = KidOf(h, q)
      BY <3>3 DEF KidsOf
    <3>5. q \in pending /\ p.table = q.table /\ p.id = q.id /\ p.index = q.index
      BY <3>4 DEF KidOf, Chunk
    <3> QED
      BY <2>1, <3>1, <3>5, PendingRows
  <2>7. h' = h /\ \A p : KidOf(h, p)' = KidOf(h, p)
    BY <2>1 DEF KidOf
  <2>8. /\ InBatch' => \A d \in batch' : d.id \in fetched'
        /\ runs' # 0
    BY <2>1 DEF OnlyOnce
  <2>9. runs' = 1 => \A s \in Schemas : \A k \in DOMAIN kids'[s] : Counted(k, kids'[s][k]) /\ Reached(k)
    BY <2>1, <2>5
  <2>10. runs' = 1 => \A p \in pending' : p.table # "rows" =>
             \/ <<h, p.id>> \in alone'
             \/ \A s \in Schemas : KidOf(h, p) \notin DOMAIN kids'[s]
    BY <2>1, <2>6
  <2> HIDE DEF h
  <2> QED
    BY <2>7, <2>8, <2>9, <2>10 DEF OnlyOnce, h
<1> QED
  BY <1>3, <1>4, <1>5, <1>6, <1>7, <1>8, <1>9, <1>10, <1>11, <1>12, <1>13, <1>14 DEF Next, Run, Finished

\* After one run a child row is there twice only if its document was in a batch that was
\* refused and written again (mongo-to-postgres.engine.ts:565-607).
THEOREM TwiceMeansRefused == Spec => []TwiceOnlyAfterRefusal
<1> DEFINE Inv == TargetShape /\ Stage /\ OnlyOnce
<1>1. Init => Inv
  BY ShapeInit, StageInit, OnlyOnceInit
<1>2. Inv /\ [Next]_vars => Inv'
  BY StepsApart, StageStep, OnlyOnceStep
<1>3. Inv => TwiceOnlyAfterRefusal
  BY DEF OnlyOnce, TwiceOnlyAfterRefusal
<1> QED
  BY <1>1, <1>2, <1>3, PTL DEF Spec

(***************************************************************************)
(* Nothing is lost.                                                        *)
(***************************************************************************)

Settled(c, i) == <<c, i>> \in errors \/ <<c, "rows", i, 0>> \in arrived
Going == pc \notin {"analyse", "planned", "ended"} \/ (pc = "ended" /\ result \in {"success", "issues"})

\* The documents of a finished collection have arrived or were given up; of the one under
\* way, those that were there when it was opened are to be returned, and those returned
\* have arrived, were given up or are on their way.
Arrivals ==
    /\ pc = "ended" /\ result = "success" => errors = {}
    /\ Going /\ ~incremental =>
          \A c \in Cols \ ToSet(left) : \A d \in docs[c] : ~d.new => Settled(c, d.id)
    /\ pc = "read" \/ InBatch =>
         /\ ~incremental => \A d \in docs[Head(left)] : ~d.new => d.id \in due
         /\ \A i \in fetched :
               \/ Settled(Head(left), i)
               \/ pc = "flush" /\ \E d \in batch : d.id = i
               \/ pc = "alone" /\ \E p \in pending : p.id = i

\* Alone, a statement is of one document.
LEMMA OneDocumentAlone ==
    ASSUME Stage, pc = "alone", NEW p \in Chunk, NEW q \in Chunk
    PROVE  p.id = q.id
<1>1. p \in pending /\ q \in pending /\ Ahead(p) = {} /\ Ahead(q) = {}
  BY DEF Chunk
<1>2. InBatch
  BY DEF InBatch
<1>3. ASSUME NEW x \in pending PROVE x.id \in Int
  <2>1. PICK d \in batch : x.id = d.id
    BY <1>2, <1>3, PendingRows
  <2>2. d.id \in Ids
    BY DEF Stage
  <2> QED
    BY <2>1, <2>2, BoundsAssumption DEF Ids
<1>4. Place(p) = <<p.id, Turn(p), p.index>> /\ Place(q) = <<q.id, Turn(q), q.index>>
  BY DEF Place
<1>5. (p.id < q.id => Before(p, q)) /\ (q.id < p.id => Before(q, p))
  <2>1. Place(p)[1] = p.id /\ Place(q)[1] = q.id /\ \A m \in 1..1 - 1 : FALSE
    BY <1>4
  <2> QED
    BY <2>1 DEF Before
<1> QED
  BY <1>1, <1>3, <1>5 DEF Ahead

\* The own row of each document is kept with the rest.
LEMMA KeepArrives ==
    ASSUME NEW c, NEW ds, Keep(c, ds), NEW d \in ds
    PROVE  <<c, "rows", d.id, 0>> \in arrived'
<1>1. PICK p \in RowsFor(c, {d}) : p.table = "rows" /\ p.id = d.id /\ p.index = 0
  BY OwnRowOf
<1>2. p \in RowsFor(c, ds)
  BY RowsByDocument
<1> QED
  BY <1>1, <1>2 DEF Keep

LEMMA ArrivalsInit == Init => Arrivals
BY DEF Init, Arrivals, Going, InBatch

LEMMA ArrivalsStep ==
    ASSUME Stage, Arrivals, [Next]_vars
    PROVE  Arrivals'
<1> DEFINE h == Head(left)
\* The documents that count are among those of before.
<1>0. ASSUME ~Start PROVE \A c \in Cols : \A d \in docs'[c] : ~d.new => d \in docs[c]
  <2>1. ASSUME NEW e \in Cols, Write(e), NEW c \in Cols, NEW d \in docs'[c], ~d.new PROVE d \in docs[c]
    <3>1. PICK i \in Ids, s \in Shapes[e] :
              docs' = [docs EXCEPT ![e] = {x \in @ : x.id # i} \cup {[id |-> i, shape |-> s, new |-> TRUE]}]
      BY <2>1 DEF Write
    <3> DEFINE x == [id |-> i, shape |-> s, new |-> TRUE]
    <3>2. x.new = TRUE
      OBVIOUS
    <3>3. docs' = [docs EXCEPT ![e] = {y \in @ : y.id # i} \cup {x}]
      BY <3>1
    <3> HIDE DEF x
    <3>4. docs'[c] \subseteq docs[c] \cup {x}
      BY <3>3 DEF Stage
    <3> QED
      BY <2>1, <3>2, <3>4
  <2>2. CASE UNCHANGED docs
    BY <2>2
  <2> QED
    BY <1>0, <2>1, <2>2, RunsOutside DEF Next, Finished, vars
<1>1. left # <<>> => ToSet(left) = {h} \cup ToSet(Tail(left)) /\ h \in Cols /\ h \notin ToSet(Tail(left))
  BY HeadOrTail DEF Stage
\* Outside a collection.
<1>2. ASSUME ~Start, errors \subseteq errors', arrived \subseteq arrived', UNCHANGED incremental,
             ToSet(left') = ToSet(left), Going' => Going,
             pc' = "ended" /\ result' = "success" => errors' = {},
             ~InBatch', pc' # "read"
      PROVE  Arrivals'
  <2>1. \A c, i : Settled(c, i) => Settled(c, i)'
    BY <1>2 DEF Settled
  <2> QED
    BY <1>0, <1>2, <2>1 DEF Arrivals
\* Within one.
<1>3. ASSUME ~Start, UNCHANGED <<incremental, left, due>>, errors \subseteq errors', arrived \subseteq arrived',
             pc = "read" \/ InBatch, pc' = "read" \/ InBatch',
             \A i \in fetched' : \/ Settled(h, i)'
                                 \/ pc' = "flush" /\ \E d \in batch' : d.id = i
                                 \/ pc' = "alone" /\ \E p \in pending' : p.id = i
      PROVE  Arrivals'
  <2>1. \A c, i : Settled(c, i) => Settled(c, i)'
    BY <1>3 DEF Settled
  <2>2. Going /\ left # <<>> /\ pc' # "ended"
    BY <1>3 DEF Going, InBatch, Stage
  <2>3. h' = h /\ h \in Cols
    BY <1>1, <1>3, <2>2
  <2>4. Going' /\ ~incremental' =>
            \A c \in Cols \ ToSet(left') : \A d \in docs'[c] : ~d.new => Settled(c, d.id)'
    BY <1>0, <1>3, <2>1, <2>2 DEF Arrivals
  <2>5. ~incremental' => \A d \in docs'[h] : ~d.new => d.id \in due'
    BY <1>0, <1>3, <2>3 DEF Arrivals
  <2>6. \A i \in fetched' : \/ Settled(h, i)'
                            \/ pc' = "flush" /\ \E d \in batch' : d.id = i
                            \/ pc' = "alone" /\ \E p \in pending' : p.id = i
    BY <1>3, <2>3
  <2> DEFINE Got(c, i) == <<c, i>> \in errors' \/ <<c, "rows", i, 0>> \in arrived'
  <2>7. /\ \A i \in fetched' : \/ Got(h', i)
                               \/ pc' = "flush" /\ \E d \in batch' : d.id = i
                               \/ pc' = "alone" /\ \E p \in pending' : p.id = i
        /\ Going' /\ ~incremental' =>
              \A c \in Cols \ ToSet(left') : \A d \in docs'[c] : ~d.new => Got(c, d.id)
    BY <2>4, <2>6 DEF Settled
  <2> HIDE DEF h
  <2> QED
    BY <2>2, <2>3, <2>5, <2>7 DEF Arrivals, Settled, h
<1>4. CASE Start
  <2>1. pc' = "create" /\ left' = Collections
    BY <1>4 DEF Start
  <2>2. ToSet(left') = Cols
    BY <2>1, CollectionsOnce
  <2> QED
    BY <2>1, <2>2 DEF Arrivals, InBatch
<1>5. CASE UNCHANGED vars \/ \E c \in Cols : Write(c)
  <2>1. /\ UNCHANGED <<pc, incremental, left, due, fetched, batch, pending, errors, arrived, result>>
        /\ ~Start
    <3>1. UNCHANGED runs
      BY <1>5 DEF Write, vars
    <3> QED
      BY <1>5, <3>1 DEF Write, vars, reading, outcome, Start, Stage
  <2>2. InBatch' = InBatch /\ Going' = Going /\ \A i : Settled(h, i)' = Settled(h, i)
    BY <2>1 DEF InBatch, Going, Settled
  <2>3. CASE pc = "read" \/ InBatch
    BY <1>3, <2>1, <2>2, <2>3 DEF Arrivals
  <2>4. CASE ~(pc = "read" \/ InBatch)
    BY <1>2, <2>1, <2>2, <2>4 DEF Arrivals
  <2> QED
    BY <2>3, <2>4
<1>6. ASSUME Run PROVE ~Start
  <2>1. UNCHANGED runs /\ runs \in Nat
    BY <1>6, RunsOutside DEF Stage
  <2> QED
    BY <2>1 DEF Start
<1>7. CASE AnalyseCollection
  <2>1. pc = "analyse" /\ pc' \in {"analyse", "planned"}
    BY <1>7 DEF AnalyseCollection
  <2> QED
    BY <2>1 DEF Arrivals, Going, InBatch
<1>8. CASE CreateAllTables
  <2>1. /\ pc = "create" /\ pc' = "open" /\ UNCHANGED <<left, incremental, errors, arrived>> /\ Run
    BY <1>8 DEF CreateAllTables, settings, outcome, Run
  <2> QED
    BY <1>2, <1>6, <2>1 DEF Going, InBatch
<1>9. CASE RunFails
  <2>1. pc' = "ended" /\ result' = "failed"
    BY <1>9 DEF RunFails, Exit
  <2> QED
    BY <2>1 DEF Arrivals, Going, InBatch
<1>10. CASE OpenCollection
  <2>1. pc = "open" /\ UNCHANGED <<left, incremental, errors, arrived, docs>> /\ Run /\ Going
    BY <1>10 DEF OpenCollection, settings, outcome, outside, Run, Going
  <2>2. CASE left = <<>>
    <3>1. pc' = "keys"
      BY <1>10, <2>2 DEF OpenCollection
    <3> QED
      BY <1>2, <1>6, <2>1, <3>1 DEF InBatch
  <2>3. CASE left # <<>>
    <3>1. pc' = "read" /\ due' = {d.id : d \in Asked(h)} /\ fetched' = {}
      BY <1>10, <2>3 DEF OpenCollection
    <3>2. ~incremental => \A d \in docs[h] : d.id \in due'
      BY <3>1 DEF Asked
    <3>3. \A c, i : Settled(c, i)' = Settled(c, i)
      BY <2>1 DEF Settled
    <3> QED
      BY <2>1, <3>1, <3>2, <3>3 DEF Arrivals
  <2> QED
    BY <2>2, <2>3
<1>11. CASE ReadBatch
  <2>1. /\ pc = "read" /\ left # <<>> /\ h \in Cols /\ Run /\ Going
        /\ UNCHANGED <<incremental, errors, arrived, docs, due>>
    BY <1>1, <1>11 DEF ReadBatch, settings, outcome, outside, Run, Going, Stage
  <2>2. \A c, i : Settled(c, i)' = Settled(c, i)
    BY <2>1 DEF Settled
  <2>3. CASE /\ {d \in {e \in Asked(h) : e.id \notin fetched} : d.id \in due} = {}
             /\ pc' = "open" /\ left' = Tail(left)
    <3>1. ASSUME ~incremental, NEW d \in docs[h], ~d.new PROVE Settled(h, d.id)
      <4>1. d \in Asked(h) /\ d.id \in due
        BY <2>1, <3>1 DEF Asked, Arrivals
      <4>2. d.id \in fetched
        BY <2>3, <4>1
      <4> QED
        BY <2>1, <4>2 DEF Arrivals
    <3>2. \A c \in Cols \ ToSet(left') : c = h \/ c \in Cols \ ToSet(left)
      BY <1>1, <2>1, <2>3
    <3> QED
      BY <2>1, <2>2, <2>3, <3>1, <3>2 DEF Arrivals, InBatch
  <2>4. ASSUME NEW ds \in SUBSET {d \in Asked(h) : d.id \notin fetched},
               batch' = ds, fetched' = fetched \cup {d.id : d \in ds}, pc' = "flush", UNCHANGED left
        PROVE  Arrivals'
    <3>1. \A i \in fetched' : Settled(h, i)' \/ \E d \in batch' : d.id = i
      BY <2>1, <2>2, <2>4 DEF Arrivals
    <3>2. InBatch'
      BY <2>4 DEF InBatch
    <3> QED
      BY <1>3, <1>6, <2>1, <2>4, <3>1, <3>2
  <2> QED
    BY <1>11, <2>3, <2>4 DEF ReadBatch
<1>12. CASE Flush
  <2>1. /\ pc = "flush" /\ Run /\ InBatch
        /\ UNCHANGED <<incremental, errors, left, due, fetched, batch>>
    BY <1>12 DEF Flush, Run, InBatch, settings
  <2>2. CASE pending' = {}
    <3>1. pc' = "read" /\ Keep(h, batch)
      BY <1>12, <2>2 DEF Flush
    <3>2. arrived \subseteq arrived'
      BY <3>1 DEF Keep
    <3>3. \A i \in fetched : Settled(h, i) \/ \E d \in batch : d.id = i
      BY <2>1 DEF Arrivals
    <3>4. \A i \in fetched' : Settled(h, i)'
      <4> SUFFICES ASSUME NEW i \in fetched PROVE <<h, i>> \in errors' \/ <<h, "rows", i, 0>> \in arrived'
        BY <2>1 DEF Settled
      <4> QED
        BY <2>1, <3>1, <3>2, <3>3, KeepArrives DEF Settled
    <3> QED
      BY <1>3, <1>6, <2>1, <3>1, <3>2, <3>4
  <2>3. CASE pending' # {}
    <3>1. UNCHANGED <<pc, arrived>>
      BY <1>12, <2>3 DEF Flush
    <3>2. \A i : Settled(h, i)' = Settled(h, i)
      BY <2>1, <3>1 DEF Settled
    <3>3. InBatch'
      BY <2>1, <3>1 DEF InBatch
    <3> QED
      BY <1>3, <1>6, <2>1, <3>1, <3>2, <3>3 DEF Arrivals
  <2> QED
    BY <2>2, <2>3
<1>13. CASE FlushFails
  <2>1. /\ pc = "flush" /\ pc' = "alone" /\ Run /\ InBatch /\ InBatch'
        /\ UNCHANGED <<incremental, errors, left, due, fetched, batch, arrived>>
        /\ pending' = RowsFor(h, batch)
    BY <1>13 DEF FlushFails, Run, InBatch, settings
  <2>2. \A i : Settled(h, i)' = Settled(h, i)
    BY <2>1 DEF Settled
  <2>3. ASSUME NEW d \in batch PROVE \E p \in pending' : p.id = d.id
    <3>1. PICK p \in RowsFor(h, {d}) : p.id = d.id
      BY OwnRowOf
    <3>2. p \in RowsFor(h, batch)
      BY RowsByDocument
    <3> QED
      BY <2>1, <3>1, <3>2
  <2> QED
    BY <1>3, <1>6, <2>1, <2>2, <2>3 DEF Arrivals
<1>14. CASE InsertAlone
  <2>1. /\ pc = "alone" /\ Run /\ InBatch /\ pc' \in {"read", "alone"} /\ (pending' # {} => pc' = "alone")
        /\ UNCHANGED <<incremental, errors, left, due, fetched, batch>>
        /\ pending' = pending \ Chunk
    BY <1>14 DEF InsertAlone, Rest, Run, InBatch, settings
  <2>2. PICK p \in Chunk :
            IF \A q \in pending' : q.id # p.id
            THEN Keep(h, {d \in batch : d.id = p.id}) ELSE UNCHANGED arrived
    BY <1>14 DEF InsertAlone
  <2>3. arrived \subseteq arrived'
    BY <2>2 DEF Keep
  <2>4. PICK d \in batch : p.id = d.id
    <3>1. p \in pending
      BY DEF Chunk
    <3> QED
      BY <2>1, <3>1, PendingRows
  <2>5. (\E q \in pending' : q.id = p.id) \/ <<h, "rows", p.id, 0>> \in arrived'
    <3>1. CASE \A q \in pending' : q.id # p.id
      <4>1. Keep(h, {e \in batch : e.id = p.id}) /\ d \in {e \in batch : e.id = p.id}
        BY <2>2, <2>4, <3>1
      <4>2. <<h, "rows", d.id, 0>> \in arrived'
        BY <4>1, KeepArrives
      <4> QED
        BY <2>4, <4>2
    <3> QED
      BY <3>1
  <2>6. ASSUME NEW i \in fetched'
        PROVE  Settled(h, i)' \/ (pc' = "alone" /\ \E q \in pending' : q.id = i)
    <3>1. Settled(h, i) \/ \E q \in pending : q.id = i
      BY <2>1 DEF Arrivals
    <3>2. CASE Settled(h, i)
      BY <2>1, <2>3, <3>2 DEF Settled
    <3>3. ASSUME NEW q \in pending, q.id = i, q \in Chunk
          PROVE  Settled(h, i)' \/ \E r \in pending' : r.id = i
      <4>1. p.id = i
        BY <2>1, <3>3, OneDocumentAlone
      <4> QED
        BY <2>1, <2>5, <4>1 DEF Settled
    <3> QED
      BY <2>1, <3>1, <3>2, <3>3
  <2>7. pc' = "read" \/ InBatch'
    BY <2>1 DEF InBatch
  <2> QED
    BY <1>3, <1>6, <2>1, <2>3, <2>6, <2>7
<1>15. CASE AloneFails
  <2>1. /\ pc = "alone" /\ Run /\ InBatch /\ pc' \in {"read", "alone"} /\ (pending' # {} => pc' = "alone")
        /\ UNCHANGED <<incremental, arrived, left, due, fetched, batch>>
    BY <1>15 DEF AloneFails, Run, InBatch, settings
  <2>2. PICK p \in Chunk : /\ errors' = errors \cup {<<h, p.id>>}
                           /\ pending' = {q \in pending : q.id # p.id}
    BY <1>15 DEF AloneFails
  <2>3. ASSUME NEW i \in fetched'
        PROVE  Settled(h, i)' \/ (pc' = "alone" /\ \E q \in pending' : q.id = i)
    <3>1. Settled(h, i) \/ \E q \in pending : q.id = i
      BY <2>1 DEF Arrivals
    <3> QED
      BY <2>1, <2>2, <3>1 DEF Settled
  <2>4. pc' = "read" \/ InBatch'
    BY <2>1 DEF InBatch
  <2> QED
    BY <1>3, <1>6, <2>1, <2>2, <2>3, <2>4
<1>16. CASE AddForeignKeys \/ WriteErrors
  <2>1. /\ pc \in {"keys", "errors"} /\ pc' \in {"errors", "close"} /\ Run
        /\ UNCHANGED <<left, incremental, errors, arrived>>
    BY <1>16 DEF AddForeignKeys, WriteErrors, settings, outcome, Run
  <2> QED
    BY <1>2, <1>6, <2>1 DEF Going, InBatch
<1>17. CASE Close
  <2>1. /\ pc = "close" /\ pc' = "ended" /\ Run /\ UNCHANGED <<incremental, errors, arrived>>
        /\ left = <<>> /\ left' = <<>> /\ result' = (IF errors = {} THEN "success" ELSE "issues")
    BY <1>17 DEF Close, Exit, settings, Run, Stage
  <2> QED
    BY <1>2, <1>6, <2>1 DEF Going, InBatch
<1> QED
  BY <1>4, <1>5, <1>7, <1>8, <1>9, <1>10, <1>11, <1>12, <1>13, <1>14, <1>15, <1>16, <1>17
  DEF Next, Run, Finished

\* Outside a dry run, what has arrived is written; of a batch on its way, a row is still
\* to be written, or is written, or its document has been dealt with alone.
PublicKept ==
    schema = "public" =>
        /\ \A a \in arrived : Written(a)
        /\ InBatch => \A p \in RowsFor(Head(left), batch) :
              \/ p \in pending \/ Written(KidOf(Head(left), p))
              \/ pc = "alone" /\ \A q \in pending : q.id # p.id

\* No step takes away what was written outside a dry run.
LEMMA WrittenStays ==
    ASSUME TargetShape, [Next]_vars, NEW a, Written(a)
    PROVE  Written(a)'
<1>1. CASE rows'["public"] = rows["public"] /\ kids'["public"] = kids["public"]
  BY <1>1 DEF Written
<1>2. CASE Start \/ \E c \in Cols : Write(c)
  BY <1>1, <1>2 DEF Start, Write, target
<1>3. CASE AnalyseCollection \/ RunFails \/ OpenCollection \/ ReadBatch
  BY <1>1, <1>3 DEF AnalyseCollection, RunFails, OpenCollection, ReadBatch, target
<1>4. CASE FlushFails \/ AloneFails \/ AddForeignKeys \/ WriteErrors \/ UNCHANGED vars
  BY <1>1, <1>4 DEF FlushFails, AloneFails, AddForeignKeys, WriteErrors, target, vars
<1>5. CASE CreateAllTables
  BY <1>1, <1>5 DEF CreateAllTables, TargetShape, Schemas, schema, target
<1>6. CASE Close
  BY <1>1, <1>6 DEF Close, TargetShape, Schemas, schema, target
<1>7. CASE Flush \/ InsertAlone
  <2> DEFINE h == Head(left)
  <2>1. Land(h, Chunk) /\ UNCHANGED dry
    BY <1>7 DEF Flush, InsertAlone, settings
  <2> HIDE DEF h
  <2>2. /\ \A e, i : HasRow("public", e, i) => HasRow("public", e, i)'
        /\ DOMAIN kids["public"] \subseteq DOMAIN kids'["public"]
    <3>1. /\ \A e, i : HasRow("public", e, i) => HasRow("public", e, i)'
          /\ DOMAIN kids[schema] \subseteq DOMAIN kids'[schema]
          /\ \A s \in Schemas \ {schema} : kids'[s] = kids[s]
      BY <2>1, LandingRows DEF Schemas
    <3> QED
      BY <3>1 DEF Schemas
  <2> QED
    BY <2>2 DEF Written, HasRow
<1> QED
  BY <1>2, <1>3, <1>4, <1>5, <1>6, <1>7 DEF Next, Run, Finished

\* A statement writes the rows it has.
LEMMA StatementWrites ==
    ASSUME TargetShape, UNCHANGED dry, schema = "public", NEW c, NEW ps, Land(c, ps), NEW p \in ps
    PROVE  Written(KidOf(c, p))'
<1>1. /\ p.table = "rows" => HasRow("public", c, p.id)'
      /\ DOMAIN kids'["public"] = DOMAIN kids["public"] \cup KidsOf(c, ps)
  BY LandingRows
<1>2. p.table # "rows" => KidOf(c, p) \in KidsOf(c, ps)
  BY DEF KidsOf
<1>3. KidOf(c, p)[1] = c /\ KidOf(c, p)[2] = p.table /\ KidOf(c, p)[3] = p.id
  BY DEF KidOf
<1>4. \A k : k = KidOf(c, p) => IF k[2] = "rows" THEN \E r \in rows'["public"] : r[1] = k[1] /\ r[2] = k[3]
                                ELSE k \in DOMAIN kids'["public"]
  BY <1>1, <1>2, <1>3 DEF HasRow
<1> QED
  BY <1>4 DEF Written, KidOf

LEMMA PublicInit == Init => PublicKept
BY DEF Init, PublicKept, InBatch

LEMMA PublicStep ==
    ASSUME TargetShape, Stage, PublicKept, [Next]_vars
    PROVE  PublicKept'
<1> DEFINE h == Head(left)
           R == RowsFor(h, batch)
           Dealt(p) == pc = "alone" /\ \A q \in pending : q.id # p.id
\* Outside a batch.
<1>1. ASSUME UNCHANGED <<dry, arrived>>, ~InBatch' PROVE PublicKept'
  <2>1. \A a : Written(a) => Written(a)'
    BY WrittenStays
  <2> QED
    BY <1>1, <2>1 DEF PublicKept, schema
\* Within one.
<1>2. ASSUME UNCHANGED <<dry, left, batch, plan>>,
             schema = "public" => \A a \in arrived' : Written(a)',
             schema = "public" /\ InBatch' =>
                 \A p \in R : p \in pending' \/ Written(KidOf(h, p))' \/ Dealt(p)'
      PROVE  PublicKept'
  <2>1. R' = R /\ h' = h /\ schema' = schema
    BY <1>2 DEF RowsFor, OwnRow, NestedRow, ItemRows, schema
  <2> HIDE DEF h, R
  <2> QED
    BY <1>2, <2>1 DEF PublicKept, h, R
<1>3. CASE Start
  BY <1>3 DEF Start, PublicKept, InBatch
<1>4. CASE UNCHANGED vars \/ \E c \in Cols : Write(c)
  <2>1. UNCHANGED <<plan, pc, dry, left, batch, pending, arrived>>
    BY <1>4 DEF Write, vars, reading, outcome
  <2>2. InBatch' = InBatch /\ \A p : Dealt(p)' = Dealt(p)
    BY <2>1 DEF InBatch
  <2>3. (\A a : Written(a) => Written(a)') /\ (\A p : Written(KidOf(h, p)) => Written(KidOf(h, p))')
    <3>1. \A a : Written(a) => Written(a)'
      BY WrittenStays
    <3> QED
      BY <2>1, <3>1 DEF KidOf, Written
  <2> HIDE DEF R, Dealt
  <2> QED
    BY <1>2, <2>1, <2>2, <2>3 DEF PublicKept, R, Dealt
<1>5. CASE AnalyseCollection
  BY <1>1, <1>5 DEF AnalyseCollection, InBatch, outcome
<1>6. CASE CreateAllTables \/ RunFails \/ OpenCollection
  BY <1>1, <1>6 DEF CreateAllTables, RunFails, Exit, OpenCollection, InBatch, settings, outcome
<1>7. CASE AddForeignKeys \/ WriteErrors \/ Close
  BY <1>1, <1>7 DEF AddForeignKeys, WriteErrors, Close, Exit, InBatch, settings, outcome
<1>8. CASE ReadBatch
  <2>1. UNCHANGED <<dry, arrived, plan>> /\ pc' \in {"open", "flush"}
    BY <1>8 DEF ReadBatch, outside, settings, outcome
  <2>2. CASE pc' = "open"
    BY <1>1, <2>1, <2>2 DEF InBatch
  <2>3. CASE pc' = "flush"
    <3>1. PICK ds : batch' = ds /\ pending' = RowsFor(h, ds) /\ UNCHANGED left
      BY <1>8, <2>3 DEF ReadBatch
    <3>2. RowsFor(h, batch)' = pending'
      BY <2>1, <3>1 DEF RowsFor, OwnRow, NestedRow, ItemRows
    <3>3. \A a : Written(a) => Written(a)'
      BY WrittenStays
    <3> QED
      BY <2>1, <3>2, <3>3 DEF PublicKept, schema
  <2> QED
    BY <2>1, <2>2, <2>3
<1>9. CASE FlushFails
  <2>1. UNCHANGED <<dry, left, batch, plan, arrived>> /\ pending' = R
    BY <1>9 DEF FlushFails, settings, outside
  <2>2. \A a : Written(a) => Written(a)'
    BY WrittenStays
  <2> QED
    BY <1>2, <2>1, <2>2 DEF PublicKept
<1>10. CASE AloneFails
  <2>1. UNCHANGED <<dry, left, batch, plan, arrived>> /\ InBatch /\ pc' \in {"read", "alone"}
    BY <1>10 DEF AloneFails, settings, outside, InBatch
  <2>2. PICK p \in Chunk : pending' = {q \in pending : q.id # p.id}
    BY <1>10 DEF AloneFails
  <2>3. (\A a : Written(a) => Written(a)') /\ (\A q : Written(KidOf(h, q)) => Written(KidOf(h, q))')
    <3>1. \A a : Written(a) => Written(a)'
      BY WrittenStays
    <3> QED
      BY <2>1, <3>1 DEF KidOf, Written
  <2>4. ASSUME schema = "public", InBatch', NEW r \in R
        PROVE  r \in pending' \/ Written(KidOf(h, r))' \/ Dealt(r)'
    <3>1. r \in pending \/ Written(KidOf(h, r)) \/ \A q \in pending : q.id # r.id
      BY <2>1, <2>4 DEF PublicKept
    <3>2. pc' = "alone"
      BY <2>1, <2>4 DEF InBatch
    <3> QED
      BY <2>2, <2>3, <3>1, <3>2
  <2> HIDE DEF R, Dealt
  <2> QED
    BY <1>2, <2>1, <2>3, <2>4 DEF PublicKept
<1>11. CASE Flush
  <2>1. /\ UNCHANGED <<dry, left, batch, plan>> /\ pc = "flush" /\ Land(h, Chunk)
        /\ pending' = pending \ Chunk
    BY <1>11 DEF Flush, Rest, settings, outside
  <2>2. (\A a : Written(a) => Written(a)') /\ (\A q : Written(KidOf(h, q)) => Written(KidOf(h, q))')
    <3>1. \A a : Written(a) => Written(a)'
      BY WrittenStays
    <3> QED
      BY <2>1, <3>1 DEF KidOf, Written
  <2>3. ASSUME schema = "public", NEW r \in R PROVE r \in pending' \/ Written(KidOf(h, r))'
    <3>1. r \in pending \/ Written(KidOf(h, r))
      BY <2>1, <2>3 DEF PublicKept, InBatch
    <3>2. CASE r \in Chunk
      <4>1. \A c, ps : UNCHANGED dry /\ schema = "public" /\ Land(c, ps) =>
                \A p \in ps : Written(KidOf(c, p))'
        BY StatementWrites
      <4>2. \A c : Land(c, Chunk) => Written(KidOf(c, r))'
        BY <2>1, <2>3, <3>2, <4>1
      <4> QED
        BY <2>1, <4>2 DEF KidOf, Written
    <3> QED
      BY <2>1, <2>2, <3>1, <3>2
  <2>4. ASSUME schema = "public", NEW a \in arrived' PROVE Written(a)'
    <3>1. CASE a \in arrived
      BY <2>2, <2>4, <3>1 DEF PublicKept
    <3>2. CASE a \notin arrived
      <4>1. pending' = {} /\ Keep(h, batch)
        BY <1>11, <2>4, <3>2 DEF Flush
      <4>2. PICK r \in R : a = <<h, r.table, r.id, r.index>>
        BY <2>4, <3>2, <4>1 DEF Keep
      <4>3. Written(KidOf(h, r))'
        BY <2>3, <2>4, <4>1
      <4> QED
        BY <2>1, <4>2, <4>3 DEF KidOf, Written
    <3> QED
      BY <3>1, <3>2
  <2> HIDE DEF R, Dealt
  <2> QED
    BY <1>2, <2>1, <2>3, <2>4
<1>12. CASE InsertAlone
  <2>1. /\ UNCHANGED <<dry, left, batch, plan>> /\ pc = "alone" /\ Land(h, Chunk)
        /\ pending' = pending \ Chunk /\ pc' \in {"read", "alone"}
    BY <1>12 DEF InsertAlone, Rest, settings, outside
  <2>2. (\A a : Written(a) => Written(a)') /\ (\A q : Written(KidOf(h, q)) => Written(KidOf(h, q))')
    <3>1. \A a : Written(a) => Written(a)'
      BY WrittenStays
    <3> QED
      BY <2>1, <3>1 DEF KidOf, Written
  <2>3. ASSUME schema = "public", NEW r \in R
        PROVE  r \in pending' \/ Written(KidOf(h, r))' \/ \A q \in pending : q.id # r.id
    <3>1. r \in pending \/ Written(KidOf(h, r)) \/ \A q \in pending : q.id # r.id
      BY <2>1, <2>3 DEF PublicKept, InBatch
    <3>2. CASE r \in Chunk
      <4>1. \A c, ps : UNCHANGED dry /\ schema = "public" /\ Land(c, ps) =>
                \A p \in ps : Written(KidOf(c, p))'
        BY StatementWrites
      <4>2. \A c : Land(c, Chunk) => Written(KidOf(c, r))'
        BY <2>1, <2>3, <3>2, <4>1
      <4> QED
        BY <2>1, <4>2 DEF KidOf, Written
    <3> QED
      BY <2>1, <2>2, <3>1, <3>2
  <2>4. ASSUME schema = "public", NEW a \in arrived' PROVE Written(a)'
    <3>1. CASE a \in arrived
      BY <2>2, <2>4, <3>1 DEF PublicKept
    <3>2. CASE a \notin arrived
      <4>1. PICK p \in Chunk : /\ \A q \in pending' : q.id # p.id
                               /\ Keep(h, {d \in batch : d.id = p.id})
        BY <1>12, <2>4, <3>2 DEF InsertAlone
      <4>2. PICK r \in RowsFor(h, {d \in batch : d.id = p.id}) : a = <<h, r.table, r.id, r.index>>
        BY <2>4, <3>2, <4>1 DEF Keep
      <4>3. PICK d \in {e \in batch : e.id = p.id} : r \in RowsFor(h, {d})
        BY <4>2, RowsByDocument
      <4>4. r \in R /\ r.id = p.id
        BY <4>3, RowsByDocument, RowFields
      <4>5. p \in pending
        BY DEF Chunk
      <4>6. Written(KidOf(h, r))'
        BY <2>3, <2>4, <4>1, <4>4, <4>5
      <4> QED
        BY <2>1, <4>2, <4>6 DEF KidOf, Written
    <3> QED
      BY <3>1, <3>2
  <2>5. ASSUME schema = "public", InBatch', NEW r \in R
        PROVE  r \in pending' \/ Written(KidOf(h, r))' \/ Dealt(r)'
    BY <2>1, <2>3, <2>5 DEF InBatch
  <2> HIDE DEF R, Dealt
  <2> QED
    BY <1>2, <2>1, <2>4, <2>5
<1> QED
  BY <1>3, <1>4, <1>5, <1>6, <1>7, <1>8, <1>9, <1>10, <1>11, <1>12 DEF Next, Run, Finished

\* A document that was in the source when its collection was opened is in the target with
\* everything it became, or among the errors: in whatever order documents come and are
\* refused, and whatever the application writes (mongo-to-postgres.engine.ts:82-91,
\* 285-318, 503-607).
THEOREM NothingLost == Spec => []Accounted
<1> DEFINE Inv == TargetShape /\ Stage /\ Arrivals /\ PublicKept
<1>1. Init => Inv
  BY ShapeInit, StageInit, ArrivalsInit, PublicInit
<1>2. Inv /\ [Next]_vars => Inv'
  BY StepsApart, StageStep, ArrivalsStep, PublicStep
<1>3. Inv => Accounted
  <2> SUFFICES ASSUME Inv, pc = "ended", result \in {"success", "issues"}
               PROVE  /\ result = "success" => errors = {}
                      /\ schema = "public" => \A a \in arrived : Written(a)
                      /\ \A c \in Cols : \A d \in docs[c] :
                            ~d.new /\ ~incremental => Settled(c, d.id)
    BY DEF Accounted, Settled
  <2>1. Going /\ left = <<>> /\ ToSet(left) = {}
    BY EmptySet DEF Going, Stage
  <2> QED
    BY <2>1 DEF Arrivals, PublicKept
<1> QED
  BY <1>1, <1>2, <1>3, PTL DEF Spec

(***************************************************************************)
(* Types.                                                                  *)
(***************************************************************************)

\* The documents are of their collection's shapes, and every collection that has been
\* analysed has a mapping.
Planned ==
    /\ \A c \in Cols : \A d \in docs[c] : d.shape \in Shapes[c]
    /\ DOMAIN plan \subseteq Cols /\ \A c \in DOMAIN plan : plan[c] \in Mapping
    /\ IF pc = "analyse" THEN Cols \subseteq DOMAIN plan \cup ToSet(left) ELSE DOMAIN plan = Cols
    /\ InBatch => \A d \in batch : d.shape \in Shapes[Head(left)]

\* Whatever the sample, a field gets a mapping.
LEMMA MappingTypes == ASSUME NEW sample, NEW m \in Mappings(sample) PROVE m \in Mapping
<1> DEFINE has(f, kinds) == Cardinality({d \in sample : d.shape[f] \in kinds})
           values == [t \in Types |-> has("value", {t})]
           parts == [t \in Types |-> has("nested", {t})]
           elements == {t \in Types : Occurs(sample, {t}) > 0}
           items == ItemsStrategy(sample)
           drawn(v, p, e) ==
              [value |-> IF has("value", Types) = 0 THEN "no" ELSE v,
               valueNeeded |-> Always(has("value", Types), sample),
               ref |-> has("ref", Ids) > 0,
               refNeeded |-> Always(has("ref", Ids), sample),
               nested |-> NestedStrategy(sample),
               nestedNeeded |-> Always(has("nested", Types \cup {"empty", "scalar"}), sample),
               part |-> p,
               partNeeded |-> Always(has("nested", Types), sample),
               items |-> items,
               element |-> e,
               elementNeeded |-> IF items = "child_table"
                                 THEN Always(Occurs(sample, {"object"}), sample) ELSE TRUE]
           kinds == IF elements = {} THEN {"string"} ELSE elements
<1>1. PICK v \in Majority(values), p \in Majority(parts), e \in kinds : m = drawn(v, p, e)
  <2>1. Mappings(sample) = {drawn(v, p, e) : v \in Majority(values), p \in Majority(parts), e \in kinds}
    BY DEF Mappings
  <2> HIDE DEF drawn, kinds, values, parts
  <2> QED
    BY <2>1
<1>2. v \in Types /\ p \in Types /\ e \in Types
  BY DEF Majority, Types
<1>3. \A n : Always(n, sample) \in BOOLEAN
  BY DEF Always
<1>4. (has("ref", Ids) > 0) \in BOOLEAN
  OBVIOUS
<1>5. items \in {"no", "child_table", "array_column", "junction"}
  BY DEF ItemsStrategy
<1>6. NestedStrategy(sample) \in {"no", "text", "jsonb", "table"}
  BY DEF NestedStrategy
<1> HIDE DEF has, values, parts, elements, items
<1>7. (IF items = "child_table" THEN Always(Occurs(sample, {"object"}), sample) ELSE TRUE) \in BOOLEAN
  BY <1>3
<1> QED
  BY <1>1, <1>2, <1>3, <1>4, <1>5, <1>6, <1>7 DEF Mapping

LEMMA PlannedInit == Init => Planned
<1> SUFFICES ASSUME Init PROVE Planned
  OBVIOUS
<1>1. ASSUME NEW c \in Cols, NEW d \in docs[c] PROVE d.shape \in Shapes[c]
  <2>1. PICK i \in DOMAIN Initial[c] : d = [id |-> i, shape |-> Initial[c][i], new |-> FALSE]
    BY DEF Init
  <2>2. Initial[c] \in Seq(Shapes[c])
    BY InitialAssumption
  <2> QED
    BY <2>1, <2>2
<1>2. DOMAIN plan = {} /\ pc = "analyse" /\ ToSet(left) = Cols
  BY CollectionsOnce DEF Init, Empty
<1> QED
  BY <1>1, <1>2 DEF Planned, InBatch

LEMMA PlannedStep ==
    ASSUME Stage, Planned, [Next]_vars
    PROVE  Planned'
<1> DEFINE h == Head(left)
           Shaped(ds, c) == \A d \in ds : d.shape \in Shapes[c]
           Drawn(pl) == DOMAIN pl \subseteq Cols /\ \A c \in DOMAIN pl : pl[c] \in Mapping
<1>0. (\A c \in Cols : Shaped(docs[c], c)) /\ Drawn(plan) /\ (InBatch => Shaped(batch, h))
  BY DEF Planned
<1> HIDE DEF Shaped, Drawn
<1>1. CASE UNCHANGED vars
  BY <1>1 DEF Planned, InBatch, vars, reading
<1>2. ASSUME NEW c \in Cols, Write(c) PROVE Planned'
  <2>1. PICK i \in Ids, s \in Shapes[c] :
            docs' = [docs EXCEPT ![c] = {d \in @ : d.id # i} \cup {[id |-> i, shape |-> s, new |-> TRUE]}]
    BY <1>2 DEF Write
  <2>2. \A e \in Cols : \A d \in docs'[e] : d.shape \in Shapes[e]
    BY <1>0, <2>1 DEF Stage, Shaped
  <2>3. UNCHANGED <<plan, pc, left, batch>>
    BY <1>2 DEF Write, reading
  <2> QED
    BY <2>2, <2>3 DEF Planned, InBatch
<1>3. CASE AnalyseCollection
  <2>1. pc = "analyse" /\ UNCHANGED <<docs, batch>> /\ pc' \in {"analyse", "planned"}
    BY <1>3 DEF AnalyseCollection, reading
  <2>2. CASE left = <<>>
    <3>1. pc' = "planned" /\ UNCHANGED plan /\ ToSet(left) = {}
      BY <1>3, <2>2, EmptySet DEF AnalyseCollection
    <3> QED
      BY <2>1, <3>1 DEF Planned, InBatch
  <2>3. CASE left # <<>>
    <3>1. ToSet(left) = {h} \cup ToSet(Tail(left)) /\ h \in Cols
      BY <2>3, HeadOrTail DEF Stage
    <3>2. left' = Tail(left) /\ pc' = "analyse"
      BY <1>3, <2>1, <2>3 DEF AnalyseCollection
    <3>3. PICK sample \in Samples(h) : \E m \in Mappings(sample) :
              plan' = [c \in DOMAIN plan \cup {h} |-> IF c = h THEN m ELSE plan[c]]
      BY <1>3, <2>3 DEF AnalyseCollection
    <3>4. PICK m \in Mappings(sample) : plan' = [c \in DOMAIN plan \cup {h} |-> IF c = h THEN m ELSE plan[c]]
      BY <3>3
    <3>5. m \in Mapping
      BY MappingTypes
    <3>6. DOMAIN plan' = DOMAIN plan \cup {h} /\ Drawn(plan')
      BY <1>0, <3>1, <3>4, <3>5 DEF Drawn
    <3>7. Cols \subseteq DOMAIN plan' \cup ToSet(left')
      BY <2>1, <3>1, <3>2, <3>6 DEF Planned
    <3> QED
      BY <1>0, <2>1, <3>2, <3>6, <3>7 DEF Planned, InBatch, Shaped, Drawn
  <2> QED
    BY <2>2, <2>3
<1>4. CASE ReadBatch
  <2>1. pc = "read" /\ UNCHANGED <<docs, plan>> /\ pc' \in {"open", "flush"} /\ h \in Cols
    <3>1. left # <<>> /\ pc = "read"
      BY <1>4 DEF ReadBatch, Stage
    <3> QED
      BY <1>4, <3>1, HeadOrTail DEF ReadBatch, Stage, outside
  <2>2. CASE pc' = "open"
    BY <2>1, <2>2 DEF Planned, InBatch
  <2>3. CASE pc' = "flush"
    <3>1. batch' \subseteq Asked(h) /\ UNCHANGED left
      BY <1>4, <2>3 DEF ReadBatch
    <3>2. \A d \in batch' : d.shape \in Shapes[h]
      BY <1>0, <2>1, <3>1 DEF Asked, Shaped
    <3> QED
      BY <2>1, <2>3, <3>1, <3>2 DEF Planned, InBatch
  <2> QED
    BY <2>1, <2>2, <2>3
<1>5. CASE Flush \/ FlushFails \/ InsertAlone \/ AloneFails
  <2>1. UNCHANGED <<docs, plan, left, batch>> /\ pc \in {"flush", "alone"} /\ pc' \in {"read", "flush", "alone"}
    BY <1>5 DEF Flush, FlushFails, InsertAlone, AloneFails, outside
  <2> QED
    BY <2>1 DEF Planned, InBatch
<1>6. CASE Start \/ CreateAllTables \/ RunFails \/ OpenCollection \/ AddForeignKeys \/ WriteErrors \/ Close
  <2>1. UNCHANGED <<docs, plan>> /\ pc # "analyse" /\ pc' \notin {"analyse", "flush", "alone"}
    BY <1>6 DEF Start, CreateAllTables, RunFails, OpenCollection, AddForeignKeys, WriteErrors, Close, Exit,
                outside
  <2> QED
    BY <2>1 DEF Planned, InBatch
<1> QED
  BY <1>1, <1>2, <1>3, <1>4, <1>5, <1>6 DEF Next, Run, Finished

\* The rows of a document, under any mapping.
LEMMA RowTypes ==
    ASSUME NEW c \in Cols, plan[c] \in Mapping, NEW d, d.id \in Ids, d.shape \in Shapes[c],
           NEW p \in RowsFor(c, {d})
    PROVE  /\ p.table \in {"rows", "nested", "items"} /\ p.id = d.id
           /\ p.ref \in 0..MaxId /\ p.index \in Indexes /\ p.fits \in BOOLEAN
<1> DEFINE m == plan[c]
<1>1. /\ d.shape \in Shape /\ d.shape \in UNION {Shapes[e] : e \in Cols}
  BY ShapesAssumption
<1>2. d.shape.ref \in 0..MaxId
  BY <1>1 DEF Shape
<1>3. 0 \in Indexes /\ DOMAIN d.shape.items \subseteq Indexes
  BY <1>1 DEF Indexes
<1>4. ASSUME NEW t, NEW i, NEW f
      PROVE  /\ Pending(t, d, i, f).table = t /\ Pending(t, d, i, f).id = d.id
             /\ Pending(t, d, i, f).ref = d.shape.ref /\ Pending(t, d, i, f).index = i
             /\ Pending(t, d, i, f).fits = f
  BY DEF Pending
<1>5. RowFits(m, d.shape) \in BOOLEAN /\ PartFits(m, d.shape) \in BOOLEAN
  <2>1. RowFits(m, d.shape) \in BOOLEAN
    BY DEF RowFits
  <2>2. \A v, t : Stored(v, t) \in BOOLEAN
    BY DEF Stored
  <2>3. (~m.partNeeded) \in BOOLEAN
    OBVIOUS
  <2>4. PartFits(m, d.shape) \in BOOLEAN
    BY <2>2, <2>3 DEF PartFits
  <2> QED
    BY <2>1, <2>4
<1>6. m.items # "no" => \A e : ElementFits(m, e) \in BOOLEAN
  <2>1. m.items # "no" => m.items \in {"child_table", "array_column", "junction"}
    BY DEF Mapping
  <2> QED
    BY <2>1 DEF ElementFits
<1> HIDE DEF m
<1>7. \/ p \in OwnRow(c, d) \/ p \in NestedRow(c, d)
      \/ m.items # "no" /\ p \in ItemRows(c, d)
  BY DEF RowsFor, m
<1>8. CASE p \in OwnRow(c, d)
  BY <1>2, <1>3, <1>4, <1>5, <1>8 DEF OwnRow, m
<1>9. CASE p \in NestedRow(c, d)
  BY <1>2, <1>3, <1>4, <1>5, <1>9 DEF NestedRow, m
<1>10. CASE m.items # "no" /\ p \in ItemRows(c, d)
  <2>1. PICK i \in DOMAIN d.shape.items :
            p = Pending("items", d, i, ElementFits(plan[c], d.shape.items[i]))
    BY <1>10 DEF ItemRows
  <2>2. ElementFits(plan[c], d.shape.items[i]) \in BOOLEAN
    BY <1>6, <1>10 DEF m
  <2> QED
    BY <1>2, <1>3, <1>4, <2>1, <2>2
<1> QED
  BY <1>7, <1>8, <1>9, <1>10

\* What is on its way in a batch.
LEMMA PendingTypes ==
    ASSUME Stage, Planned, NEW p \in pending
    PROVE  /\ InBatch /\ Head(left) \in Cols /\ (\E d \in batch : d.id = p.id)
           /\ p.table \in {"rows", "nested", "items"} /\ p.id \in Ids
           /\ p.ref \in 0..MaxId /\ p.index \in Indexes /\ p.fits \in BOOLEAN
<1>1. InBatch /\ p \in RowsFor(Head(left), batch)
  BY DEF Stage
<1>2. Head(left) \in Cols
  BY <1>1, HeadOrTail DEF Stage
<1>3. plan[Head(left)] \in Mapping
  BY <1>1, <1>2 DEF Planned, InBatch
<1>4. PICK d \in batch : p \in RowsFor(Head(left), {d})
  BY <1>1, RowsByDocument
<1>5. d.id \in Ids /\ d.shape \in Shapes[Head(left)]
  BY <1>1 DEF Stage, Planned
<1>6. /\ p.table \in {"rows", "nested", "items"} /\ p.id = d.id
      /\ p.ref \in 0..MaxId /\ p.index \in Indexes /\ p.fits \in BOOLEAN
  BY <1>2, <1>3, <1>4, <1>5, RowTypes
<1> QED
  BY <1>1, <1>2, <1>5, <1>6

\* In each run a child row is written once with its batch and once with its document at
\* most; what is still to come in a run has not been written by it.
TwicePerRun ==
    \A s \in Schemas :
        /\ \A k \in DOMAIN kids[s] :
              /\ kids[s][k] \in 1..2 * runs
              /\ k[1] \in ToSet(left) =>
                    \/ kids[s][k] <= 2 * runs - 2
                    \/ (pc = "read" \/ InBatch) /\ k[1] = Head(left) /\ k[3] \in fetched
              /\ pc = "flush" /\ k[1] = Head(left) /\ (\E d \in batch : d.id = k[3]) =>
                    kids[s][k] <= 2 * runs - 1
        /\ \A p \in pending : KidOf(Head(left), p) \in DOMAIN kids[s] =>
              kids[s][KidOf(Head(left), p)] <= 2 * runs - (IF pc = "flush" THEN 2 ELSE 1)

LEMMA TwiceInit == Init => TwicePerRun
BY DEF Init, TwicePerRun, Empty

\* A step that writes no child row.
LEMMA NothingTwice ==
    ASSUME TwicePerRun, Stage, runs' \in {runs, runs + 1}, pending' = {}, pc' # "flush",
           \A s \in Schemas : DOMAIN kids'[s] = {} \/ kids'[s] = kids[s],
           \/ runs' = runs + 1
           \/ \A k : (k[1] \in ToSet(left') =>
                        /\ k[1] \in ToSet(left)
                        /\ (pc = "read" \/ InBatch) /\ k[1] = Head(left) /\ k[3] \in fetched =>
                              (pc' = "read" \/ InBatch') /\ k[1] = Head(left') /\ k[3] \in fetched')
    PROVE  TwicePerRun'
<1>1. runs \in Nat
  BY DEF Stage
<1> SUFFICES ASSUME NEW s \in Schemas, NEW k \in DOMAIN kids'[s]
             PROVE  /\ kids'[s][k] \in 1..2 * runs'
                    /\ k[1] \in ToSet(left') =>
                          \/ kids'[s][k] <= 2 * runs' - 2
                          \/ (pc' = "read" \/ InBatch') /\ k[1] = Head(left') /\ k[3] \in fetched'
  BY DEF TwicePerRun, Schemas
<1>2. kids'[s] = kids[s]
  OBVIOUS
<1>3. /\ kids[s][k] \in 1..2 * runs
      /\ k[1] \in ToSet(left) =>
            \/ kids[s][k] <= 2 * runs - 2
            \/ (pc = "read" \/ InBatch) /\ k[1] = Head(left) /\ k[3] \in fetched
  BY <1>2 DEF TwicePerRun
<1>4. CASE runs' = runs + 1
  <2>1. kids'[s][k] = kids[s][k] /\ 2 * runs' = 2 * runs + 2
    BY <1>1, <1>2, <1>4
  <2> QED
    BY <1>1, <1>3, <2>1
<1>5. CASE runs' = runs
  <2>1. kids'[s][k] = kids[s][k] /\ 2 * runs' = 2 * runs
    BY <1>2, <1>5
  <2>2. runs' # runs + 1
    BY <1>1, <1>5
  <2> QED
    BY <1>3, <2>1, <2>2
<1> QED
  BY <1>4, <1>5

LEMMA TwiceStep ==
    ASSUME TargetShape, Stage, OnlyOnce, TwicePerRun, [Next]_vars
    PROVE  TwicePerRun'
<1> DEFINE h == Head(left)
           most == 2 * runs
           InReach(k) == (pc = "read" \/ InBatch) /\ k[1] = h /\ k[3] \in fetched
           Same(s) == DOMAIN kids'[s] = {} \/ kids'[s] = kids[s]
<1>0. /\ runs \in Nat /\ most \in Nat
      /\ \A s \in Schemas : \A k \in DOMAIN kids[s] :
            /\ kids[s][k] \in 1..most
            /\ k[1] \in ToSet(left) => kids[s][k] <= most - 2 \/ InReach(k)
  BY DEF Stage, TwicePerRun
<1>1. left # <<>> => ToSet(left) = {h} \cup ToSet(Tail(left)) /\ h \notin ToSet(Tail(left))
  BY HeadOrTail DEF Stage
<1>2. ASSUME UNCHANGED kids PROVE \A s \in Schemas : Same(s)
  BY <1>2
<1>3. ASSUME kids' = [kids EXCEPT ![schema] = Empty] PROVE \A s \in Schemas : Same(s)
  BY <1>3 DEF TargetShape, Empty
<1>4. CASE UNCHANGED vars \/ \E c \in Cols : Write(c)
  <2>1. UNCHANGED <<kids, runs, pending, batch, fetched, left, pc>>
    BY <1>4 DEF Write, vars, target, reading
  <2>2. InBatch' = InBatch /\ \A p : KidOf(h, p)' = KidOf(h, p)
    BY <2>1 DEF InBatch, KidOf
  <2> QED
    BY <2>1, <2>2 DEF TwicePerRun, KidOf
<1>5. CASE Start
  <2>1. UNCHANGED <<kids, pending>> /\ pending = {} /\ runs' = runs + 1 /\ pc' = "create"
    BY <1>5 DEF Start, Stage, InBatch, target, reading
  <2> QED
    BY <1>2, <2>1, NothingTwice
<1>6. CASE AnalyseCollection
  <2>1. /\ pc = "analyse" /\ UNCHANGED <<kids, runs, pending>> /\ pending = {}
        /\ pc' \in {"analyse", "planned"} /\ left' \in {left, Tail(left)} /\ (left = <<>> => left' = <<>>)
    BY <1>6 DEF AnalyseCollection, Stage, InBatch, target, reading
  <2>2. ToSet(left') \subseteq ToSet(left) /\ ~InBatch
    BY <1>1, <2>1 DEF InBatch
  <2> QED
    BY <1>2, <2>1, <2>2, NothingTwice
<1>7. CASE CreateAllTables \/ OpenCollection \/ AddForeignKeys \/ WriteErrors
  <2>1. /\ pc \in {"create", "open", "keys", "errors"} /\ pc' \in {"open", "read", "keys", "errors", "close"}
        /\ UNCHANGED <<runs, pending, left>> /\ pending = {}
    BY <1>7 DEF CreateAllTables, OpenCollection, AddForeignKeys, WriteErrors, Stage, InBatch, reading, settings
  <2>2. UNCHANGED kids \/ kids' = [kids EXCEPT ![schema] = Empty]
    BY <1>7 DEF CreateAllTables, OpenCollection, AddForeignKeys, WriteErrors, target
  <2>3. ~InBatch /\ pc # "read"
    BY <2>1 DEF InBatch
  <2> QED
    BY <1>2, <1>3, <2>1, <2>2, <2>3, NothingTwice
<1>8. CASE RunFails \/ Close
  <2>1. UNCHANGED runs /\ pending' = {} /\ pc' = "ended" /\ left' = <<>>
    BY <1>8 DEF RunFails, Close, Exit, settings
  <2>2. UNCHANGED kids \/ kids' = [kids EXCEPT ![schema] = Empty]
    BY <1>8 DEF RunFails, Close, target
  <2>3. ToSet(left') = {}
    BY <2>1, EmptySet
  <2> QED
    BY <1>2, <1>3, <2>1, <2>2, <2>3, NothingTwice
<1>9. CASE ReadBatch
  <2>1. pc = "read" /\ pending = {} /\ left # <<>> /\ UNCHANGED <<kids, runs>> /\ ~InBatch
    BY <1>9 DEF ReadBatch, Stage, InBatch, target, settings
  <2>2. CASE pc' = "open" /\ left' = Tail(left) /\ UNCHANGED <<fetched, batch, pending>>
    <3>1. \A k : k[1] \in ToSet(left') => k[1] \in ToSet(left) /\ k[1] # h
      BY <1>1, <2>1, <2>2
    <3> QED
      BY <1>2, <2>1, <2>2, <3>1, NothingTwice
  <2>3. ASSUME NEW ds \in SUBSET {d \in Asked(h) : d.id \notin fetched},
               batch' = ds, fetched' = fetched \cup {d.id : d \in ds},
               pending' = RowsFor(h, ds), pc' = "flush", UNCHANGED left
        PROVE  TwicePerRun'
    <3>1. h' = h /\ InBatch' /\ h \in ToSet(left)
      BY <1>1, <2>1, <2>3 DEF InBatch
    <3>2. ASSUME NEW s \in Schemas, NEW k \in DOMAIN kids[s], k[1] = h, k[3] \notin fetched
          PROVE  kids[s][k] <= most - 2
      BY <1>0, <3>1, <3>2
    <3>3. ASSUME NEW s \in Schemas, NEW k \in DOMAIN kids[s], k[1] = h, \E d \in ds : d.id = k[3]
          PROVE  kids[s][k] <= most - 1
      <4>1. kids[s][k] <= most - 2
        BY <2>3, <3>2, <3>3
      <4> QED
        BY <1>0, <4>1
    <3>4. ASSUME NEW s \in Schemas, NEW p \in pending', KidOf(h, p) \in DOMAIN kids[s]
          PROVE  kids[s][KidOf(h, p)] <= most - 2
      <4>1. PICK d \in ds : p \in RowsFor(h, {d})
        BY <2>3, RowsByDocument
      <4>2. p.id \notin fetched
        BY <4>1, RowFields
      <4>3. KidOf(h, p)[1] = h /\ KidOf(h, p)[3] = p.id
        BY DEF KidOf
      <4> QED
        BY <3>2, <3>4, <4>2, <4>3
    <3>5. \A p : KidOf(h', p) = KidOf(h, p)'
      BY <3>1 DEF KidOf
    <3>6. \A s \in Schemas : \A k \in DOMAIN kids'[s] :
            /\ kids'[s][k] \in 1..2 * runs'
            /\ k[1] \in ToSet(left') =>
                  \/ kids'[s][k] <= 2 * runs' - 2
                  \/ (pc' = "read" \/ InBatch') /\ k[1] = h' /\ k[3] \in fetched'
            /\ pc' = "flush" /\ k[1] = h' /\ (\E d \in batch' : d.id = k[3]) => kids'[s][k] <= 2 * runs' - 1
      BY <1>0, <2>1, <2>3, <3>1, <3>3
    <3>7. \A s \in Schemas : \A p \in pending' : KidOf(h', p) \in DOMAIN kids'[s] =>
              kids'[s][KidOf(h', p)] <= 2 * runs' - (IF pc' = "flush" THEN 2 ELSE 1)
      BY <2>1, <2>3, <3>1, <3>4
    <3> HIDE DEF h, most, InReach
    <3> QED
      BY <3>6, <3>7 DEF TwicePerRun, KidOf, h
  <2> QED
    BY <1>9, <2>2, <2>3 DEF ReadBatch
<1>10. CASE FlushFails
  <2>1. /\ pc = "flush" /\ pc' = "alone" /\ left # <<>>
        /\ UNCHANGED <<kids, runs, left, batch, fetched>> /\ pending' = RowsFor(h, batch)
    BY <1>10 DEF FlushFails, Stage, InBatch, target, settings
  <2>2. InBatch /\ InBatch' /\ h' = h
    BY <2>1 DEF InBatch
  <2>3. ASSUME NEW s \in Schemas, NEW p \in pending', KidOf(h, p) \in DOMAIN kids[s]
        PROVE  kids[s][KidOf(h, p)] <= most - 1
    <3>1. PICK d \in batch : p \in RowsFor(h, {d})
      BY <2>1, RowsByDocument
    <3>2. p.id = d.id
      BY <3>1, RowFields
    <3>3. KidOf(h, p)[1] = h /\ KidOf(h, p)[3] = p.id
      BY DEF KidOf
    <3> QED
      BY <2>1, <2>3, <3>2, <3>3 DEF TwicePerRun
  <2>4. \A s \in Schemas : \A k \in DOMAIN kids'[s] :
          /\ kids'[s][k] \in 1..2 * runs'
          /\ k[1] \in ToSet(left') =>
                \/ kids'[s][k] <= 2 * runs' - 2
                \/ (pc' = "read" \/ InBatch') /\ k[1] = h' /\ k[3] \in fetched'
    BY <1>0, <2>1, <2>2
  <2>5. \A s \in Schemas : \A p \in pending' : KidOf(h', p) \in DOMAIN kids'[s] =>
            kids'[s][KidOf(h', p)] <= 2 * runs' - (IF pc' = "flush" THEN 2 ELSE 1)
    BY <2>1, <2>2, <2>3
  <2> HIDE DEF h, most, InReach
  <2> QED
    BY <2>1, <2>4, <2>5 DEF TwicePerRun, KidOf, h
<1>11. CASE AloneFails
  <2>1. /\ pc = "alone" /\ left # <<>> /\ UNCHANGED <<kids, runs, left, batch, fetched>>
        /\ pending' \subseteq pending /\ pc' \in {"read", "alone"}
    BY <1>11 DEF AloneFails, Stage, InBatch, target, settings
  <2>2. InBatch /\ (pc' = "read" \/ InBatch') /\ h' = h
    BY <2>1 DEF InBatch
  <2>3. \A s \in Schemas : \A k \in DOMAIN kids'[s] :
          /\ kids'[s][k] \in 1..2 * runs'
          /\ k[1] \in ToSet(left') =>
                \/ kids'[s][k] <= 2 * runs' - 2
                \/ (pc' = "read" \/ InBatch') /\ k[1] = h' /\ k[3] \in fetched'
    BY <1>0, <2>1, <2>2
  <2>4. \A s \in Schemas : \A p \in pending : KidOf(h, p) \in DOMAIN kids[s] =>
            kids[s][KidOf(h, p)] <= most - 1
    BY <2>1 DEF TwicePerRun
  <2>5. \A s \in Schemas : \A p \in pending' : KidOf(h', p) \in DOMAIN kids'[s] =>
            kids'[s][KidOf(h', p)] <= 2 * runs' - (IF pc' = "flush" THEN 2 ELSE 1)
    BY <2>1, <2>2, <2>4
  <2> HIDE DEF h, most, InReach
  <2> QED
    BY <2>1, <2>3, <2>5 DEF TwicePerRun, KidOf, h
<1>12. CASE Flush \/ InsertAlone
  <2>1. /\ InBatch /\ left # <<>> /\ Land(h, Chunk) /\ pending' = pending \ Chunk
        /\ UNCHANGED <<dry, runs, left, batch, fetched>> /\ pc' \in {"read", pc}
        /\ runs # 0
    BY <1>12 DEF Flush, InsertAlone, Rest, Stage, InBatch, settings
  <2>2. /\ schema \in Schemas
        /\ DOMAIN kids'[schema] = DOMAIN kids[schema] \cup KidsOf(h, Chunk)
        /\ \A k \in DOMAIN kids'[schema] :
              kids'[schema][k] = (IF k \in DOMAIN kids[schema] THEN kids[schema][k] ELSE 0)
                                 + (IF k \in KidsOf(h, Chunk) THEN 1 ELSE 0)
        /\ \A s \in Schemas \ {schema} : kids'[s] = kids[s]
    BY <2>1, LandingRows
  <2>3. (pc' = "read" \/ InBatch') /\ h' = h
    BY <2>1 DEF InBatch
  <2>4. ASSUME NEW k \in KidsOf(h, Chunk)
        PROVE  /\ k[1] = h /\ k[3] \in fetched
               /\ \A s \in Schemas : k \in DOMAIN kids[s] =>
                     kids[s][k] <= most - (IF pc = "flush" THEN 2 ELSE 1)
    <3>1. PICK p \in Chunk : p.table # "rows" /\ k = KidOf(h, p)
      BY DEF KidsOf
    <3>2. p \in pending /\ k[1] = h /\ k[3] = p.id
      BY <3>1 DEF Chunk, KidOf
    <3>3. PICK d \in batch : p.id = d.id
      BY <2>1, <3>2, PendingRows
    <3>4. k[3] \in fetched
      BY <2>1, <3>2, <3>3 DEF OnlyOnce
    <3>5. \A s \in Schemas : k \in DOMAIN kids[s] => kids[s][k] <= most - (IF pc = "flush" THEN 2 ELSE 1)
      BY <3>1, <3>2 DEF TwicePerRun
    <3> QED
      BY <3>2, <3>4, <3>5
  <2>5. most >= 2
    BY <1>0, <2>1
  <2>6. ASSUME NEW s \in Schemas, NEW k \in DOMAIN kids'[s], s = schema, k \in KidsOf(h, Chunk)
        PROVE  /\ kids'[s][k] \in 1..most
               /\ pc' = "flush" => kids'[s][k] <= most - 1
    <3>1. CASE k \in DOMAIN kids[s]
      <4>1. kids[s][k] \in 1..most /\ kids[s][k] <= most - (IF pc = "flush" THEN 2 ELSE 1)
        BY <1>0, <2>4, <2>6, <3>1
      <4>2. kids'[s][k] = kids[s][k] + 1
        BY <2>2, <2>6, <3>1
      <4>3. pc' = "flush" => pc = "flush"
        BY <2>1
      <4> QED
        BY <1>0, <4>1, <4>2, <4>3
    <3>2. CASE k \notin DOMAIN kids[s]
      <4>1. kids'[s][k] = 0 + 1
        BY <2>2, <2>6, <3>2
      <4> QED
        BY <1>0, <2>5, <4>1
    <3> QED
      BY <3>1, <3>2
  <2>7. ASSUME NEW s \in Schemas, NEW k \in DOMAIN kids'[s], s # schema \/ k \notin KidsOf(h, Chunk)
        PROVE  k \in DOMAIN kids[s] /\ kids'[s][k] = kids[s][k]
    <3>1. CASE s # schema
      BY <2>2, <3>1
    <3>2. CASE s = schema /\ k \notin KidsOf(h, Chunk)
      <4>1. k \in DOMAIN kids[s]
        BY <2>2, <3>2
      <4>2. kids'[s][k] = kids[s][k] + 0 /\ kids[s][k] \in Nat
        BY <1>0, <2>2, <3>2, <4>1
      <4> QED
        BY <4>1, <4>2
    <3> QED
      BY <2>7, <3>1, <3>2
  <2>8. ASSUME NEW s \in Schemas, NEW k \in DOMAIN kids'[s]
        PROVE  /\ kids'[s][k] \in 1..most
               /\ k[1] \in ToSet(left) => kids'[s][k] <= most - 2 \/ (k[1] = h /\ k[3] \in fetched)
               /\ pc' = "flush" /\ k[1] = h /\ (\E d \in batch : d.id = k[3]) => kids'[s][k] <= most - 1
    <3>1. CASE s = schema /\ k \in KidsOf(h, Chunk)
      BY <2>4, <2>6, <3>1
    <3>2. CASE s # schema \/ k \notin KidsOf(h, Chunk)
      <4>1. k \in DOMAIN kids[s] /\ kids'[s][k] = kids[s][k]
        BY <2>7, <3>2
      <4>2. pc' = "flush" => pc = "flush"
        BY <2>1
      <4>3. pc' = "flush" /\ k[1] = h /\ (\E d \in batch : d.id = k[3]) => kids[s][k] <= most - 1
        BY <4>1, <4>2 DEF TwicePerRun
      <4> QED
        BY <1>0, <4>1, <4>3
    <3> QED
      BY <3>1, <3>2
  <2>9. ASSUME NEW s \in Schemas, NEW p \in pending', KidOf(h, p) \in DOMAIN kids'[s]
        PROVE  kids'[s][KidOf(h, p)] <= most - (IF pc' = "flush" THEN 2 ELSE 1)
    <3>1. p \in pending /\ p \notin Chunk /\ pc' = pc
      <4>1. p \in pending /\ p \notin Chunk
        BY <2>1
      <4>2. pending' # {}
        OBVIOUS
      <4>3. pc' = pc
        BY <1>12, <4>2 DEF Flush, InsertAlone
      <4> QED
        BY <4>1, <4>3
    <3>2. KidOf(h, p) \notin KidsOf(h, Chunk)
      <4> SUFFICES ASSUME KidOf(h, p) \in KidsOf(h, Chunk) PROVE FALSE
        OBVIOUS
      <4>1. PICK q \in Chunk : KidOf(h, p) = KidOf(h, q)
        BY DEF KidsOf
      <4>2. q \in pending /\ p.table = q.table /\ p.id = q.id /\ p.index = q.index
        BY <4>1 DEF KidOf, Chunk
      <4> QED
        BY <2>1, <3>1, <4>2, PendingRows
    <3>3. KidOf(h, p) \in DOMAIN kids[s] /\ kids'[s][KidOf(h, p)] = kids[s][KidOf(h, p)]
      BY <2>7, <2>9, <3>2
    <3>4. kids[s][KidOf(h, p)] <= most - (IF pc = "flush" THEN 2 ELSE 1)
      BY <3>1, <3>3 DEF TwicePerRun
    <3> QED
      BY <3>1, <3>3, <3>4
  <2>10. \A s \in Schemas : \A k \in DOMAIN kids'[s] :
          /\ kids'[s][k] \in 1..2 * runs'
          /\ k[1] \in ToSet(left') =>
                \/ kids'[s][k] <= 2 * runs' - 2
                \/ (pc' = "read" \/ InBatch') /\ k[1] = h' /\ k[3] \in fetched'
          /\ pc' = "flush" /\ k[1] = h' /\ (\E d \in batch' : d.id = k[3]) => kids'[s][k] <= 2 * runs' - 1
    BY <2>1, <2>3, <2>8
  <2>11. \A s \in Schemas : \A p \in pending' : KidOf(h', p) \in DOMAIN kids'[s] =>
            kids'[s][KidOf(h', p)] <= 2 * runs' - (IF pc' = "flush" THEN 2 ELSE 1)
    BY <2>1, <2>3, <2>9
  <2> HIDE DEF h, most, InReach
  <2> QED
    BY <2>10, <2>11 DEF TwicePerRun, KidOf, h
<1> QED
  BY <1>4, <1>5, <1>6, <1>7, <1>8, <1>9, <1>10, <1>11, <1>12 DEF Next, Run, Finished

\* What a step counts as arrived belongs to the documents it has finished.
LEMMA KeepTypes ==
    ASSUME Stage, Planned, InBatch, NEW ds \in SUBSET batch, Keep(Head(left), ds),
           NEW a \in arrived', a \notin arrived
    PROVE  /\ a[1] = Head(left) /\ \E d \in ds : a[3] = d.id
           /\ a \in Cols \X {"rows", "nested", "items"} \X Ids \X Indexes
<1> DEFINE h == Head(left)
<1>1. h \in Cols /\ plan[h] \in Mapping
  <2>1. h \in Cols
    BY HeadOrTail DEF Stage
  <2> QED
    BY <2>1 DEF Planned, InBatch
<1>2. PICK p \in RowsFor(h, ds) : a = <<h, p.table, p.id, p.index>>
  BY DEF Keep
<1>3. PICK d \in ds : p \in RowsFor(h, {d})
  BY RowsByDocument
<1>4. d.id \in Ids /\ d.shape \in Shapes[h]
  BY DEF Stage, Planned
<1>5. p.table \in {"rows", "nested", "items"} /\ p.id = d.id /\ p.index \in Indexes
  BY <1>1, <1>3, <1>4, RowTypes
<1> QED
  BY <1>1, <1>2, <1>4, <1>5

\* A document of the run has arrived or was given up.
Met(c, i) == <<c, i>> \in errors \/ \E a \in arrived : a[1] = c /\ a[3] = i

\* No document meets both fates: what is on its way has met none, since the cursor returns
\* it once.
OneFate ==
    /\ \A a \in arrived : <<a[1], a[3]>> \notin errors
    /\ \A c \in ToSet(left) : \A i : Met(c, i) =>
          (pc = "read" \/ InBatch) /\ c = Head(left) /\ i \in fetched
    /\ pc = "flush" => \A d \in batch : ~Met(Head(left), d.id)
    /\ pc = "alone" => \A p \in pending : ~Met(Head(left), p.id)

LEMMA FateInit == Init => OneFate
BY DEF Init, OneFate, Met

LEMMA FateStep ==
    ASSUME Stage, Planned, OnlyOnce, OneFate, [Next]_vars
    PROVE  OneFate'
<1> DEFINE h == Head(left)
<1>1. left # <<>> => ToSet(left) = {h} \cup ToSet(Tail(left)) /\ h \notin ToSet(Tail(left))
  BY HeadOrTail DEF Stage
<1>2. \A c, i : UNCHANGED <<errors, arrived>> => Met(c, i)' = Met(c, i)
  BY DEF Met
\* Between the batches.
<1>3. ASSUME UNCHANGED <<errors, arrived>>, pc' \notin {"flush", "alone"},
             \A c \in ToSet(left') :
                /\ c \in ToSet(left)
                /\ (pc = "read" \/ InBatch) /\ c = h => (pc' = "read" \/ InBatch') /\ c = Head(left'),
             (pc = "read" \/ InBatch) /\ left' # <<>> /\ Head(left') = h => fetched \subseteq fetched'
      PROVE  OneFate'
  <2>1. ASSUME NEW c \in ToSet(left'), NEW i, Met(c, i)
        PROVE  (pc' = "read" \/ InBatch') /\ c = Head(left') /\ i \in fetched'
    <3>1. c \in ToSet(left)
      BY <1>3
    <3>2. (pc = "read" \/ InBatch) /\ c = h /\ i \in fetched
      BY <2>1, <3>1 DEF OneFate
    <3>3. (pc' = "read" \/ InBatch') /\ c = Head(left')
      BY <1>3, <3>2
    <3>4. left' # <<>>
      BY EmptySet
    <3> QED
      BY <1>3, <3>2, <3>3, <3>4
  <2>2. \A a \in arrived' : <<a[1], a[3]>> \notin errors'
    BY <1>3 DEF OneFate
  <2>3. \A c \in ToSet(left') : \A i : Met(c, i)' => (pc' = "read" \/ InBatch') /\ c = Head(left') /\ i \in fetched'
    BY <1>2, <1>3, <2>1
  <2> QED
    BY <1>3, <2>2, <2>3 DEF OneFate
<1>4. CASE UNCHANGED vars \/ \E c \in Cols : Write(c)
  <2>1. UNCHANGED <<errors, arrived, pending, batch, fetched, left, pc>>
    BY <1>4 DEF Write, vars, reading, outcome
  <2> QED
    BY <2>1 DEF OneFate, Met, InBatch
<1>5. CASE Start
  <2>1. errors' = {} /\ arrived' = {} /\ pc' = "create"
    BY <1>5 DEF Start
  <2> QED
    BY <2>1 DEF OneFate, Met
<1>6. CASE AnalyseCollection
  <2>1. /\ pc = "analyse" /\ UNCHANGED <<errors, arrived>>
        /\ pc' \in {"analyse", "planned"} /\ left' \in {left, Tail(left)} /\ (left = <<>> => left' = <<>>)
    BY <1>6 DEF AnalyseCollection, outcome
  <2>2. ToSet(left') \subseteq ToSet(left) /\ ~InBatch
    BY <1>1, <2>1 DEF InBatch
  <2> QED
    BY <1>3, <2>1, <2>2
<1>7. CASE CreateAllTables \/ OpenCollection \/ AddForeignKeys \/ WriteErrors
  <2>1. /\ pc \in {"create", "open", "keys", "errors"} /\ pc' \in {"open", "read", "keys", "errors", "close"}
        /\ UNCHANGED <<errors, arrived, left>>
    BY <1>7 DEF CreateAllTables, OpenCollection, AddForeignKeys, WriteErrors, outcome
  <2>2. ~InBatch /\ pc # "read"
    BY <2>1 DEF InBatch
  <2> QED
    BY <1>3, <2>1, <2>2
<1>8. CASE RunFails \/ Close
  <2>1. UNCHANGED <<errors, arrived>> /\ pc' = "ended" /\ left' = <<>>
    BY <1>8 DEF RunFails, Close, Exit
  <2>2. ToSet(left') = {}
    BY <2>1, EmptySet
  <2> QED
    BY <1>3, <2>1, <2>2
<1>9. CASE ReadBatch
  <2>1. pc = "read" /\ left # <<>> /\ UNCHANGED <<errors, arrived>> /\ ~InBatch
    BY <1>9 DEF ReadBatch, Stage, InBatch, outcome
  <2>2. CASE pc' = "open" /\ left' = Tail(left)
    <3>1. \A c \in ToSet(left') : c \in ToSet(left) /\ c # h
      BY <1>1, <2>1, <2>2
    <3>2. \A c \in ToSet(left') : ~Met(c, c) /\ \A i : ~Met(c, i)
      BY <3>1 DEF OneFate
    <3>3. \A a \in arrived' : <<a[1], a[3]>> \notin errors'
      BY <2>1 DEF OneFate
    <3> QED
      BY <1>2, <2>1, <2>2, <3>2, <3>3 DEF OneFate
  <2>3. ASSUME NEW ds \in SUBSET {d \in Asked(h) : d.id \notin fetched},
               batch' = ds, fetched' = fetched \cup {d.id : d \in ds}, pc' = "flush", UNCHANGED left
        PROVE  OneFate'
    <3>1. h' = h /\ InBatch' /\ h \in ToSet(left)
      BY <1>1, <2>1, <2>3 DEF InBatch
    <3>2. \A i : Met(h, i) => i \in fetched
      BY <3>1 DEF OneFate
    <3>3. \A d \in batch' : ~Met(h, d.id)
      BY <2>3, <3>2
    <3>4. \A c \in ToSet(left') : \A i : Met(c, i) => c = h /\ i \in fetched'
      BY <2>3 DEF OneFate
    <3>5. \A a \in arrived' : <<a[1], a[3]>> \notin errors'
      BY <2>1 DEF OneFate
    <3>6. \A c, i : Met(c, i)' = Met(c, i)
      BY <1>2, <2>1
    <3> HIDE DEF h
    <3> QED
      BY <2>3, <3>1, <3>3, <3>4, <3>5, <3>6 DEF OneFate, h
  <2> QED
    BY <1>9, <2>2, <2>3 DEF ReadBatch
<1>10. CASE FlushFails
  <2>1. /\ pc = "flush" /\ pc' = "alone" /\ left # <<>>
        /\ UNCHANGED <<errors, arrived, left, batch, fetched>> /\ pending' = RowsFor(h, batch)
    BY <1>10 DEF FlushFails, Stage, InBatch
  <2>2. ASSUME NEW p \in pending' PROVE ~Met(h, p.id)
    <3>1. PICK d \in batch : p \in RowsFor(h, {d})
      BY <2>1, RowsByDocument
    <3>2. p.id = d.id
      BY <3>1, RowFields
    <3> QED
      BY <2>1, <3>2 DEF OneFate
  <2>3. h' = h /\ InBatch /\ InBatch' /\ \A c, i : Met(c, i)' = Met(c, i)
    BY <1>2, <2>1 DEF InBatch
  <2>4. \A c \in ToSet(left') : \A i : Met(c, i) => c = h' /\ i \in fetched'
    BY <2>1 DEF OneFate
  <2>5. \A a \in arrived' : <<a[1], a[3]>> \notin errors'
    BY <2>1 DEF OneFate
  <2> HIDE DEF h
  <2> QED
    BY <2>1, <2>2, <2>3, <2>4, <2>5 DEF OneFate, h
<1>11. CASE AloneFails
  <2>1. /\ pc = "alone" /\ left # <<>> /\ UNCHANGED <<arrived, left, batch, fetched>> /\ pc' \in {"read", "alone"}
    BY <1>11 DEF AloneFails, Stage, InBatch
  <2>2. PICK p \in Chunk : /\ errors' = errors \cup {<<h, p.id>>}
                           /\ pending' = {q \in pending : q.id # p.id}
    BY <1>11 DEF AloneFails
  <2>3. InBatch /\ (pc' = "read" \/ InBatch') /\ h' = h /\ h \in ToSet(left)
    BY <1>1, <2>1 DEF InBatch
  <2>4. p \in pending /\ ~Met(h, p.id)
    BY <2>1 DEF Chunk, OneFate
  <2>5. p.id \in fetched
    BY <2>3, <2>4, PendingRows DEF OnlyOnce
  <2>6. \A c, i : Met(c, i)' => Met(c, i) \/ (c = h /\ i = p.id)
    BY <2>1, <2>2 DEF Met
  <2>7. \A c \in ToSet(left') : \A i : Met(c, i)' => c = h' /\ i \in fetched'
    BY <2>1, <2>3, <2>5, <2>6 DEF OneFate
  <2>8. \A q \in pending' : ~Met(h, q.id)'
    BY <2>1, <2>2, <2>6 DEF OneFate
  <2>9. \A a \in arrived' : <<a[1], a[3]>> \notin errors'
    BY <2>1, <2>2, <2>4 DEF OneFate, Met
  <2> HIDE DEF h
  <2> QED
    BY <2>1, <2>3, <2>7, <2>8, <2>9 DEF OneFate, h
<1>12. CASE Flush \/ InsertAlone
  <2>1. /\ InBatch /\ left # <<>> /\ UNCHANGED <<errors, left, batch, fetched>> /\ pc' \in {"read", pc}
        /\ pending' \subseteq pending
    BY <1>12 DEF Flush, InsertAlone, Rest, Stage, InBatch
  <2>2. (pc' = "read" \/ InBatch') /\ h' = h /\ h \in ToSet(left)
    BY <1>1, <2>1 DEF InBatch
  <2>3. \A d \in batch : d.id \in fetched
    BY <2>1 DEF OnlyOnce
  <2>4. CASE UNCHANGED arrived
    <3>1. \A c, i : Met(c, i)' = Met(c, i)
      BY <1>2, <2>1, <2>4
    <3>2. \A c \in ToSet(left') : \A i : Met(c, i)' => c = h' /\ i \in fetched'
      BY <2>1, <2>2, <3>1 DEF OneFate
    <3>3. \A a \in arrived' : <<a[1], a[3]>> \notin errors'
      BY <2>1, <2>4 DEF OneFate
    <3>4. /\ pc' = "flush" => \A d \in batch' : ~Met(h, d.id)'
          /\ pc' = "alone" => \A p \in pending' : ~Met(h, p.id)'
      BY <2>1, <2>2, <3>1 DEF OneFate
    <3> HIDE DEF h
    <3> QED
      BY <2>2, <3>2, <3>3, <3>4 DEF OneFate, h
  <2>5. ASSUME NEW ds \in SUBSET batch, Keep(h, ds),
               \A d \in ds : ~Met(h, d.id),
               pc' # "flush",
               pc' = "alone" => \A d \in ds : \A p \in pending' : p.id # d.id
        PROVE  OneFate'
    <3>1. \A a \in arrived' : a \in arrived \/ (a[1] = h /\ \E d \in ds : a[3] = d.id)
      BY <2>1, <2>5, KeepTypes
    <3>2. \A c, i : Met(c, i)' => Met(c, i) \/ (c = h /\ \E d \in ds : i = d.id)
      BY <2>1, <3>1 DEF Met
    <3>3. \A c \in ToSet(left') : \A i : Met(c, i)' => c = h' /\ i \in fetched'
      BY <2>1, <2>2, <2>3, <3>2 DEF OneFate
    <3>4. \A a \in arrived' : <<a[1], a[3]>> \notin errors'
      BY <2>1, <2>5, <3>1 DEF OneFate, Met
    <3>5. pc' = "alone" => \A p \in pending' : ~Met(h, p.id)'
      BY <2>1, <2>2, <2>5, <3>2 DEF OneFate, InBatch
    <3> HIDE DEF h
    <3> QED
      BY <2>2, <2>5, <3>3, <3>4, <3>5 DEF OneFate, h
  <2>6. CASE Flush /\ ~UNCHANGED arrived
    <3>1. pc = "flush" /\ pc' = "read" /\ Keep(h, batch)
      BY <2>6 DEF Flush
    <3> QED
      BY <2>5, <3>1 DEF OneFate
  <2>7. CASE InsertAlone /\ ~UNCHANGED arrived
    <3>1. PICK p \in Chunk : /\ \A q \in pending' : q.id # p.id
                             /\ Keep(h, {d \in batch : d.id = p.id})
      BY <2>7 DEF InsertAlone
    <3>2. pc = "alone" /\ pc' \in {"read", "alone"} /\ p \in pending
      BY <2>1, <2>7 DEF InsertAlone, Chunk
    <3>3. ~Met(h, p.id)
      BY <3>2 DEF OneFate
    <3>4. \A d \in {e \in batch : e.id = p.id} : ~Met(h, d.id) /\ \A q \in pending' : q.id # d.id
      BY <3>1, <3>3
    <3> QED
      BY <2>5, <3>1, <3>2, <3>4
  <2> QED
    BY <1>12, <2>4, <2>6, <2>7
<1> QED
  BY <1>4, <1>5, <1>6, <1>7, <1>8, <1>9, <1>10, <1>11, <1>12 DEF Next, Run, Finished

\* The tables hold rows of documents of the collections, with places their shapes have.
TargetTypes ==
    \A s \in Schemas :
        /\ rows[s] \subseteq Cols \X Ids \X (0..MaxId)
        /\ DOMAIN kids[s] \subseteq Kid
        /\ keys[s] \subseteq Cols \X {"ref", "nested", "items"}
        /\ log[s] \subseteq Cols \X Ids

\* What a run has been asked and what it has met so far.
ReportTypes ==
    /\ due \subseteq Ids /\ fetched \subseteq Ids
    /\ errors \subseteq Cols \X Ids /\ alone \subseteq Cols \X Ids
    /\ arrived \subseteq Cols \X {"rows", "nested", "items"} \X Ids \X Indexes
    /\ result \in {"none", "success", "issues", "failed"}

CounterTypes ==
    /\ dry \in BOOLEAN /\ incremental \in BOOLEAN /\ connected \in BOOLEAN
    /\ runs \in 0..MaxRuns /\ writes \in 0..MaxWrites /\ failures \in 0..MaxFailures

LEMMA TypesInit == Init => TargetTypes /\ ReportTypes /\ CounterTypes
<1> SUFFICES ASSUME Init PROVE TargetTypes /\ ReportTypes /\ CounterTypes
  OBVIOUS
<1>1. \A s \in Schemas : rows[s] = {} /\ DOMAIN kids[s] = {} /\ keys[s] = {} /\ log[s] = {}
  <2>1. DOMAIN Empty = {}
    BY DEF Empty
  <2> HIDE DEF Empty
  <2> QED
    BY <2>1 DEF Init
<1>2. TargetTypes
  BY <1>1 DEF TargetTypes
<1>3. ReportTypes
  BY DEF Init, ReportTypes
<1>4. CounterTypes
  <2>1. dry \in BOOLEAN /\ incremental \in BOOLEAN /\ connected \in BOOLEAN
    BY DEF Init
  <2>2. runs = 0 /\ writes = 0 /\ failures = 0
    BY DEF Init
  <2> QED
    BY <2>1, <2>2, BoundsAssumption DEF CounterTypes
<1> QED
  BY <1>2, <1>3, <1>4

\* A server that fails does so within the bound.
LEMMA FailureTypes ==
    ASSUME connected \in BOOLEAN, failures \in 0..MaxFailures, NEW b \in BOOLEAN, Answers \/ Fails(b)
    PROVE  connected' \in BOOLEAN /\ failures' \in 0..MaxFailures
<1>1. CASE UNCHANGED <<connected, failures>>
  BY <1>1
<1>2. CASE failures < MaxFailures /\ failures' = failures + 1 /\ connected' \in {connected, connected /\ ~b}
  <2>1. failures' \in 0..MaxFailures
    BY <1>2, BoundsAssumption
  <2>2. connected' \in BOOLEAN
    BY <1>2
  <2> QED
    BY <2>1, <2>2
<1> QED
  BY <1>1, <1>2 DEF Answers, Fails

LEMMA CounterStep ==
    ASSUME CounterTypes, [Next]_vars
    PROVE  CounterTypes'
<1>1. CASE UNCHANGED vars \/ \E c \in Cols : Write(c)
  <2>1. UNCHANGED <<dry, incremental, connected, runs, failures>>
    BY <1>1 DEF Write, vars
  <2>2. UNCHANGED writes \/ (writes < MaxWrites /\ writes' = writes + 1)
    BY <1>1 DEF Write, vars
  <2> QED
    BY <2>1, <2>2, BoundsAssumption DEF CounterTypes
<1>2. CASE Start
  <2>1. dry' \in BOOLEAN /\ incremental' \in BOOLEAN
    BY <1>2, ModesAssumption DEF Start
  <2>2. runs < MaxRuns /\ runs' = runs + 1 /\ connected' = TRUE /\ UNCHANGED <<writes, failures>>
    BY <1>2 DEF Start, outside
  <2> QED
    BY <2>1, <2>2, BoundsAssumption DEF CounterTypes
<1>3. CASE Run
  <2>1. UNCHANGED <<dry, incremental, runs, writes>>
    BY <1>3 DEF Run, AnalyseCollection, CreateAllTables, RunFails, OpenCollection, ReadBatch, Flush, FlushFails,
           InsertAlone, AloneFails, AddForeignKeys, WriteErrors, Close, outside, settings
  <2>2. \/ UNCHANGED <<connected, failures>> \/ Answers \/ Fails(TRUE)
        \/ failures < MaxFailures /\ failures' = failures + 1 /\ UNCHANGED connected
    BY <1>3 DEF Run, AnalyseCollection, CreateAllTables, RunFails, OpenCollection, ReadBatch, Flush, FlushFails,
           InsertAlone, AloneFails, AddForeignKeys, WriteErrors, Close, Refused
  <2>3. connected' \in BOOLEAN /\ failures' \in 0..MaxFailures
    <3>1. connected \in BOOLEAN /\ failures \in 0..MaxFailures
      BY DEF CounterTypes
    <3>2. CASE Answers \/ Fails(TRUE)
      BY <3>1, <3>2, FailureTypes
    <3>3. CASE \/ UNCHANGED <<connected, failures>>
               \/ failures < MaxFailures /\ failures' = failures + 1 /\ UNCHANGED connected
      BY <3>1, <3>3, BoundsAssumption
    <3> QED
      BY <2>2, <3>2, <3>3
  <2> QED
    BY <2>1, <2>3 DEF CounterTypes
<1> QED
  BY <1>1, <1>2, <1>3 DEF Next, Finished

\* The rows of a statement are those of documents of the collection under way.
LEMMA LandingTypes ==
    ASSUME TargetShape, Stage, Planned, InBatch, TargetTypes, UNCHANGED dry, Land(Head(left), Chunk)
    PROVE  TargetTypes'
<1> DEFINE h == Head(left)
<1>1. /\ schema \in Schemas
      /\ DOMAIN kids'[schema] = DOMAIN kids[schema] \cup KidsOf(h, Chunk)
      /\ \A s \in Schemas \ {schema} : kids'[s] = kids[s]
  BY LandingRows
<1>2. \A p \in Chunk : /\ h \in Cols /\ p.table \in {"rows", "nested", "items"} /\ p.id \in Ids
                       /\ p.ref \in 0..MaxId /\ p.index \in Indexes
  BY PendingTypes DEF Chunk
<1>3. KidsOf(h, Chunk) \subseteq Kid
  BY <1>2 DEF KidsOf, KidOf, Kid
<1>4. \A p \in Chunk : <<h, p.id, p.ref>> \in Cols \X Ids \X (0..MaxId)
  BY <1>2
<1>5. UNCHANGED <<keys, log>> /\ \A s \in Schemas : rows'[s] \subseteq rows[s] \cup {<<h, p.id, p.ref>> : p \in Chunk}
  BY <1>1 DEF Land, TargetShape
<1> HIDE DEF h
<1>6. \A s \in Schemas : DOMAIN kids'[s] \subseteq Kid
  BY <1>1, <1>3 DEF TargetTypes
<1> QED
  BY <1>4, <1>5, <1>6 DEF TargetTypes

LEMMA TargetTypesStep ==
    ASSUME TargetShape, Stage, Planned, TargetTypes, ReportTypes, [Next]_vars
    PROVE  TargetTypes'
<1>1. CASE UNCHANGED target
  BY <1>1 DEF TargetTypes, target
<1>2. CASE Flush \/ InsertAlone
  BY <1>2, LandingTypes DEF Flush, InsertAlone, InBatch, settings
<1>3. CASE CreateAllTables \/ Close
  <2>1. UNCHANGED target
        \/ /\ rows' = [rows EXCEPT ![schema] = {}] /\ kids' = [kids EXCEPT ![schema] = Empty]
           /\ keys' = [keys EXCEPT ![schema] = {}] /\ log' = [log EXCEPT ![schema] = {}]
    BY <1>3 DEF CreateAllTables, Close
  <2>2. DOMAIN Empty = {}
    BY DEF Empty
  <2> HIDE DEF Empty
  <2> QED
    BY <1>1, <2>1, <2>2 DEF TargetTypes, TargetShape
<1>4. CASE AddForeignKeys
  <2>1. UNCHANGED <<rows, kids, log>> /\ \A s \in Schemas : keys'[s] \subseteq keys[s] \cup Wanted
    BY <1>4 DEF AddForeignKeys, TargetShape
  <2>2. Wanted \subseteq Cols \X {"ref", "nested", "items"}
    BY DEF Wanted
  <2> QED
    BY <2>1, <2>2 DEF TargetTypes
<1>5. CASE WriteErrors
  <2>1. UNCHANGED <<rows, kids, keys>> /\ \A s \in Schemas : log'[s] \subseteq log[s] \cup errors
    BY <1>5 DEF WriteErrors, TargetShape
  <2> QED
    BY <2>1 DEF TargetTypes, ReportTypes
<1> QED
  BY <1>1, <1>2, <1>3, <1>4, <1>5 DEF Next, Run, Finished, Write, Start, AnalyseCollection, RunFails,
     OpenCollection, ReadBatch, FlushFails, AloneFails, vars

LEMMA ReportTypesStep ==
    ASSUME TargetShape, Stage, Planned, ReportTypes, [Next]_vars
    PROVE  ReportTypes'
<1> DEFINE h == Head(left)
           Place4 == Cols \X {"rows", "nested", "items"} \X Ids \X Indexes
<1>1. CASE UNCHANGED <<reading, outcome>>
  BY <1>1 DEF ReportTypes, reading, outcome
<1>2. CASE Start
  BY <1>2 DEF Start, ReportTypes, reading
<1>3. CASE RunFails \/ Close
  <2>1. UNCHANGED <<errors, arrived, alone>> /\ due' = {} /\ fetched' = {}
        /\ result' \in {"success", "issues", "failed"}
    BY <1>3 DEF RunFails, Close, Exit
  <2> QED
    BY <2>1 DEF ReportTypes
<1>4. CASE OpenCollection \/ ReadBatch
  <2>1. left # <<>> => \A d \in Asked(h) : d.id \in Ids
    BY HeadOrTail DEF Stage, Asked
  <2>2. pc = "read" => left # <<>>
    BY DEF Stage
  <2>3. due' \subseteq Ids /\ fetched' \subseteq Ids /\ UNCHANGED outcome
    <3>1. CASE OpenCollection
      BY <2>1, <3>1 DEF OpenCollection, ReportTypes
    <3>2. CASE ReadBatch
      BY <2>1, <2>2, <3>2 DEF ReadBatch, ReportTypes
    <3> QED
      BY <1>4, <3>1, <3>2
  <2> QED
    BY <2>3 DEF ReportTypes, outcome
<1>5. CASE FlushFails
  <2>1. h \in Cols /\ \A d \in batch : d.id \in Ids
    BY <1>5, HeadOrTail DEF FlushFails, Stage, InBatch
  <2>2. alone' = alone \cup {<<h, d.id>> : d \in batch} /\ UNCHANGED <<due, fetched, errors, result, arrived>>
    BY <1>5 DEF FlushFails
  <2> QED
    BY <2>1, <2>2 DEF ReportTypes
<1>6. CASE AloneFails
  <2>1. PICK p \in Chunk : errors' = errors \cup {<<h, p.id>>}
    BY <1>6 DEF AloneFails
  <2>2. h \in Cols /\ p.id \in Ids
    BY PendingTypes DEF Chunk
  <2>3. UNCHANGED <<due, fetched, alone, result, arrived>>
    BY <1>6 DEF AloneFails
  <2> QED
    BY <2>1, <2>2, <2>3 DEF ReportTypes
<1>7. CASE Flush \/ InsertAlone
  <2>1. UNCHANGED <<due, fetched, errors, result, alone>> /\ InBatch
    BY <1>7 DEF Flush, InsertAlone, InBatch
  <2>2. UNCHANGED arrived \/ \E ds \in SUBSET batch : Keep(h, ds)
    BY <1>7 DEF Flush, InsertAlone
  <2>3. arrived' \subseteq Place4
    BY <2>1, <2>2, KeepTypes DEF ReportTypes
  <2> QED
    BY <2>1, <2>3 DEF ReportTypes
<1> QED
  BY <1>1, <1>2, <1>3, <1>4, <1>5, <1>6, <1>7 DEF Next, Run, Finished, Write, AnalyseCollection,
     CreateAllTables, AddForeignKeys, WriteErrors, vars

\* Documents, rows, keys and errors are of their collections, whatever the sample was and
\* whatever the application writes; a run puts a child row into a table at most twice,
\* and a document either arrives or is given up (mongodb.analyzer.ts:70-92,
\* mongo-to-postgres.mapper.ts:22-130, mongo-to-postgres.engine.ts:285-318, 503-607).
THEOREM TypeCorrect == Spec => []TypeOK
<1> DEFINE Inv == /\ TargetShape /\ Stage /\ OnlyOnce /\ Planned /\ TwicePerRun /\ OneFate
                  /\ TargetTypes /\ ReportTypes /\ CounterTypes
<1>1. Init => Inv
  BY ShapeInit, StageInit, OnlyOnceInit, PlannedInit, TwiceInit, FateInit, TypesInit
<1>2. Inv /\ [Next]_vars => Inv'
  BY StepsApart, StageStep, OnlyOnceStep, PlannedStep, TwiceStep, FateStep, TargetTypesStep,
     ReportTypesStep, CounterStep
<1>3. Inv => TypeOK
  <2> SUFFICES ASSUME Inv PROVE TypeOK
    OBVIOUS
  <2>1. \A c \in Cols : \A d \in docs[c] : d.id \in Ids /\ d.shape \in Shapes[c] /\ d.new \in BOOLEAN
    BY DEF Stage, Planned
  <2>2. DOMAIN plan \subseteq Cols /\ \A c \in DOMAIN plan : plan[c] \in Mapping
    BY DEF Planned
  <2>3. \A s \in Schemas : \A k \in DOMAIN kids[s] : kids[s][k] \in 1..2 * MaxRuns
    <3>1. runs \in 0..MaxRuns /\ MaxRuns \in Nat
      BY BoundsAssumption DEF CounterTypes
    <3>2. \A n \in 1..2 * runs : n \in 1..2 * MaxRuns
      BY <3>1
    <3> QED
      BY <3>2 DEF TwicePerRun
  <2>4. \A p \in pending : p.table \in {"rows", "nested", "items"} /\ p.fits \in BOOLEAN
    BY PendingTypes
  <2>5. left \in Seq(Cols) /\ \A a \in arrived : <<a[1], a[3]>> \notin errors
    BY DEF Stage, OneFate
  <2> QED
    BY <2>1, <2>2, <2>3, <2>4, <2>5 DEF TypeOK, TargetTypes, ReportTypes, CounterTypes, Stage
<1> QED
  BY <1>1, <1>2, <1>3, PTL DEF Spec
=============================================================================
