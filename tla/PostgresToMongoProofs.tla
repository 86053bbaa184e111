----------------------- MODULE PostgresToMongoProofs -----------------------
(***************************************************************************)
(* The invariants of PostgresToMongo as theorems, for any schema without   *)
(* two tables of one name whose foreign keys have one column each, any     *)
(* contents that keep them, pages of any size, and any number of writes,   *)
(* failures and runs.                                                      *)
(***************************************************************************)
EXTENDS PostgresToMongo, FiniteSetTheorems, SequenceTheorems, TLAPS

USE DEF NoRow

(***************************************************************************)
(* Sequences and counting.                                                 *)
(***************************************************************************)

\* The rest of a sequence without repetitions holds all but its head.
LEMMA HeadOrTail ==
    ASSUME NEW T, NEW s \in Seq(T), IsInjective(s), s # <<>>
    PROVE  /\ Head(s) \in T /\ Tail(s) \in Seq(T) /\ IsInjective(Tail(s))
           /\ ToSet(s) = {Head(s)} \cup ToSet(Tail(s))
           /\ Head(s) \notin ToSet(Tail(s))
<1> DEFINE n == Len(s)
<1>1. n \in Nat /\ n > 0 /\ DOMAIN s = 1..n /\ Head(s) = s[1]
  OBVIOUS
<1>2. /\ Head(s) \in T /\ Tail(s) \in Seq(T) /\ Len(Tail(s)) = n - 1
      /\ \A i \in 1..(n - 1) : Tail(s)[i] = s[i + 1]
  BY HeadTailProperties
<1>3. DOMAIN Tail(s) = 1..(n - 1)
  BY <1>1, <1>2
<1> HIDE DEF n
<1>4. \A i, j \in 1..n : s[i] = s[j] => i = j
  BY <1>1 DEF IsInjective
<1>5. IsInjective(Tail(s))
  <2> SUFFICES ASSUME NEW i \in 1..(n - 1), NEW j \in 1..(n - 1), Tail(s)[i] = Tail(s)[j]
               PROVE  i = j
    BY <1>3 DEF IsInjective
  <2>1. s[i + 1] = s[j + 1] /\ i + 1 \in 1..n /\ j + 1 \in 1..n
    BY <1>1, <1>2
  <2> QED
    BY <2>1, <1>4
<1>6. \A i \in 1..n : s[i] = s[1] \/ (i - 1 \in 1..(n - 1) /\ s[i] = Tail(s)[i - 1])
  <2> TAKE i \in 1..n
  <2>1. CASE i = 1
    BY <2>1
  <2>2. CASE i # 1
    <3>1. i - 1 \in 1..(n - 1) /\ (i - 1) + 1 = i
      BY <2>2, <1>1
    <3> QED
      BY <3>1, <1>2
  <2> QED
    BY <2>1, <2>2
<1>7. ToSet(s) = {Head(s)} \cup ToSet(Tail(s))
  <2>1. ToSet(s) \subseteq {Head(s)} \cup ToSet(Tail(s))
    BY <1>1, <1>3, <1>6 DEF ToSet
  <2>2. Head(s) \in ToSet(s)
    BY <1>1 DEF ToSet
  <2>3. \A i \in 1..(n - 1) : Tail(s)[i] = s[i + 1] /\ i + 1 \in 1..n
    BY <1>1, <1>2
  <2>4. ToSet(Tail(s)) \subseteq ToSet(s)
    BY <2>3, <1>1, <1>3 DEF ToSet
  <2> QED
    BY <2>1, <2>2, <2>4
<1>8. Head(s) \notin ToSet(Tail(s))
  <2> SUFFICES ASSUME NEW i \in 1..(n - 1), Tail(s)[i] = s[1]
               PROVE  FALSE
    BY <1>1, <1>3 DEF ToSet
  <2>1. s[i + 1] = s[1] /\ i + 1 \in 1..n /\ 1 \in 1..n /\ i + 1 # 1
    BY <1>1, <1>2
  <2> QED
    BY <2>1, <1>4
<1> QED
  BY <1>2, <1>5, <1>7, <1>8

LEMMA EmptySet == ASSUME NEW s, s = <<>> PROVE ToSet(s) = {}
BY DEF ToSet

LEMMA Interval ==
    ASSUME NEW n \in Nat
    PROVE  IsFiniteSet(1..n) /\ Cardinality(1..n) = n
<1>1. /\ IsFiniteSet(1..n)
      /\ Cardinality(1..n) = IF 1 > n THEN 0 ELSE n - 1 + 1
  BY FS_Interval
<1> QED
  BY <1>1

\* Numbering the members of a finite set of numbers from below gives each number
\* up to their count to one of them.
LEMMA Numbering ==
    ASSUME NEW on \in SUBSET Nat, IsFiniteSet(on)
    PROVE  /\ Cardinality(on) \in Nat
           /\ \A i \in on : Cardinality({j \in on : j <= i}) \in 1..Cardinality(on)
           /\ \A i, k \in on : i < k =>
                 Cardinality({j \in on : j <= i}) < Cardinality({j \in on : j <= k})
           /\ \A n \in 1..Cardinality(on) : \E i \in on : Cardinality({j \in on : j <= i}) = n
<1> DEFINE N == Cardinality(on)
           upTo(i) == {j \in on : j <= i}
           f == [i \in on |-> Cardinality(upTo(i))]
<1>1. N \in Nat /\ \A j \in on : j \in Nat
  BY FS_CardinalityType
<1>2. \A i \in on : /\ upTo(i) \subseteq on /\ i \in upTo(i) /\ IsFiniteSet(upTo(i))
                    /\ Cardinality(upTo(i)) \in Nat /\ Cardinality(upTo(i)) <= N
  <2> TAKE i \in on
  <2>1. upTo(i) \in SUBSET on /\ i \in upTo(i)
    OBVIOUS
  <2> HIDE DEF upTo
  <2>2. IsFiniteSet(upTo(i)) /\ Cardinality(upTo(i)) <= N
    BY <2>1, FS_Subset
  <2> QED
    BY <2>1, <2>2, FS_CardinalityType
<1>3. \A i \in on : Cardinality(upTo(i)) \in 1..N
  <2> TAKE i \in on
  <2> HIDE DEF upTo
  <2>1. Cardinality(upTo(i)) # 0
    BY <1>2, FS_EmptySet
  <2> QED
    BY <2>1, <1>1, <1>2
<1>4. ASSUME NEW i \in on, NEW k \in on, i < k
      PROVE  Cardinality(upTo(i)) < Cardinality(upTo(k))
  <2>0. i \in Nat /\ k \in Nat /\ \A j \in on : j \in Nat
    BY <1>1
  <2>1. upTo(i) \in SUBSET upTo(k) /\ k \in upTo(k) /\ k \notin upTo(i)
    <3>1. \A j \in on : j <= i => j <= k
      BY <1>4, <2>0
    <3>2. k <= k /\ ~(k <= i)
      BY <1>4, <2>0
    <3> QED
      BY <3>1, <3>2
  <2>2. IsFiniteSet(upTo(k)) /\ Cardinality(upTo(k)) \in Nat /\ Cardinality(upTo(i)) \in Nat
    BY <1>2
  <2> HIDE DEF upTo
  <2>3. Cardinality(upTo(i)) <= Cardinality(upTo(k))
    BY <2>1, <2>2, FS_Subset
  <2>4. Cardinality(upTo(k)) = Cardinality(upTo(i)) => upTo(k) = upTo(i)
    BY <2>1, <2>2, FS_Subset
  <2> QED
    BY <2>1, <2>2, <2>3, <2>4
<1>5. f \in Injection(on, 1..N)
  <2>1. f \in [on -> 1..N]
    BY <1>3
  <2>2. ASSUME NEW i \in on, NEW k \in on, f[i] = f[k] PROVE i = k
    <3>1. f[i] = Cardinality(upTo(i)) /\ f[k] = Cardinality(upTo(k))
      OBVIOUS
    <3>2. Cardinality(upTo(i)) \in Nat /\ Cardinality(upTo(k)) \in Nat /\ i \in Nat /\ k \in Nat
      BY <1>1, <1>2
    <3> HIDE DEF upTo, f
    <3>3. Cardinality(upTo(i)) = Cardinality(upTo(k))
      BY <2>2, <3>1
    <3>4. ~(i < k)
      BY <1>4, <3>2, <3>3
    <3>5. ~(k < i)
      BY <1>4, <3>2, <3>3
    <3> QED
      BY <3>2, <3>4, <3>5
  <2> HIDE DEF f
  <2> QED
    BY <2>1, <2>2 DEF Injection, IsInjective
<1>6. f \in Surjection(on, 1..N)
  <2>1. IsFiniteSet(1..N) /\ Cardinality(1..N) = N
    <3> HIDE DEF N
    <3> QED
      BY <1>1, Interval
  <2> HIDE DEF f
  <2> QED
    BY <2>1, <1>5, FS_Injection
<1>7. \A n \in 1..N : \E i \in on : f[i] = n
  <2> HIDE DEF f
  <2> QED
    BY <1>6 DEF Surjection
<1> QED
  BY <1>1, <1>3, <1>4, <1>7

\* What is kept of a sequence without repetitions.
LEMMA KeptMembers ==
    ASSUME NEW T, NEW s \in Seq(T), IsInjective(s), NEW S
    PROVE  /\ Kept(s, S) \in Seq(T) /\ IsInjective(Kept(s, S))
           /\ ToSet(Kept(s, S)) = ToSet(s) \cap S
<1> DEFINE on == {i \in DOMAIN s : s[i] \in S}
           N == Cardinality(on)
           upTo(i) == {j \in on : j <= i}
           nth(n) == CHOOSE i \in on : Cardinality(upTo(i)) = n
<1>1. on \in SUBSET Nat /\ IsFiniteSet(on)
  <2>1. DOMAIN s = 1..Len(s) /\ Len(s) \in Nat
    OBVIOUS
  <2>2. IsFiniteSet(1..Len(s))
    BY <2>1, Interval
  <2>3. on \in SUBSET (1..Len(s))
    BY <2>1
  <2> HIDE DEF on
  <2>4. IsFiniteSet(on)
    BY <2>2, <2>3, FS_Subset
  <2> QED
    BY <2>1, <2>3, <2>4
<1>2. /\ N \in Nat
      /\ \A i \in on : Cardinality(upTo(i)) \in 1..N
      /\ \A i, k \in on : i < k => Cardinality(upTo(i)) < Cardinality(upTo(k))
      /\ \A n \in 1..N : \E i \in on : Cardinality(upTo(i)) = n
  <2> HIDE DEF on
  <2> QED
    BY <1>1, Numbering
<1>3. Kept(s, S) = [n \in 1..N |-> s[nth(n)]]
  BY DEF Kept
<1>4. \A n \in 1..N : nth(n) \in on /\ Cardinality(upTo(nth(n))) = n
  <2> TAKE n \in 1..N
  <2>1. PICK i \in on : Cardinality(upTo(i)) = n
    BY <1>2
  <2> HIDE DEF on, upTo
  <2> QED
    BY <2>1 DEF nth
<1>5. \A i \in on : nth(Cardinality(upTo(i))) = i
  <2> TAKE i \in on
  <2> DEFINE k == nth(Cardinality(upTo(i)))
  <2>1. k \in on /\ Cardinality(upTo(k)) = Cardinality(upTo(i))
    BY <1>2, <1>4
  <2> HIDE DEF k, on, upTo
  <2>2. k \in Nat /\ i \in Nat /\ Cardinality(upTo(i)) \in Nat
    BY <2>1, <1>1, <1>2
  <2>3. ~(k < i) /\ ~(i < k)
    BY <2>1, <2>2, <1>2
  <2>4. k = i
    BY <2>2, <2>3
  <2> QED
    BY <2>4 DEF k
<1>6. \A i \in on : i \in DOMAIN s /\ s[i] \in S /\ s[i] \in T
  OBVIOUS
<1>7. \A i \in DOMAIN s : s[i] \in S => i \in on
  OBVIOUS
<1> HIDE DEF on, upTo, nth, N
<1>8. \A n \in 1..N : Kept(s, S)[n] = s[nth(n)]
  BY <1>3
<1>9. DOMAIN Kept(s, S) = 1..N
  BY <1>3
<1>10. Kept(s, S) \in Seq(T)
  <2>1. \A n \in 1..N : s[nth(n)] \in T
    BY <1>4, <1>6
  <2>2. Kept(s, S) \in [1..N -> T]
    BY <2>1, <1>3
  <2> QED
    BY <2>2, <1>2
<1>11. IsInjective(Kept(s, S))
  <2> SUFFICES ASSUME NEW m \in 1..N, NEW n \in 1..N, s[nth(m)] = s[nth(n)]
               PROVE  m = n
    BY <1>8, <1>9 DEF IsInjective
  <2>1. nth(m) = nth(n)
    BY <1>4, <1>6 DEF IsInjective
  <2> QED
    BY <2>1, <1>4
<1>12. ToSet(Kept(s, S)) = {s[nth(n)] : n \in 1..N}
  BY <1>8, <1>9 DEF ToSet
<1>13. \A i \in on : \E n \in 1..N : s[nth(n)] = s[i]
  BY <1>2, <1>5
<1> QED
  BY <1>4, <1>6, <1>7, <1>10, <1>11, <1>12, <1>13 DEF ToSet

(***************************************************************************)
(* The source and the position of a run.                                   *)
(***************************************************************************)

\* The source keeps its primary keys, its foreign keys and those that are unique alone.
Source ==
    /\ design \in Designs
    /\ rows \in [Names -> SUBSET Row] /\ writes \in 0..MaxWrites
    /\ \A t \in Names : \A q, r \in rows[t] : q.id = r.id => q = r
    /\ \A t \in Names : \A r \in rows[t] :
          /\ r.refs \in [DOMAIN KeysOf(t) -> {NoRow} \cup Ids]
          /\ \A k \in DOMAIN KeysOf(t) :
                r.refs[k] # NoRow => \E p \in rows[KeysOf(t)[k].to] : p.id = r.refs[k]
    /\ \A t \in Names : \A r \in rows[t] : Sound(design[t].first, r)
    /\ \A t \in Names : \A k \in DOMAIN KeysOf(t) : KeysOf(t)[k].alone =>
          \A q, r \in rows[t] : q.refs[k] = r.refs[k] /\ r.refs[k] # NoRow => q = r

Busy == pc \in {"count", "fetch", "build", "insert"}

\* What is left to do, and what is under way, in each state of a run.
Position ==
    /\ pc \in {"planned", "clear", "count", "fetch", "build", "insert", "report", "ended"}
    /\ left \in Seq(Names) /\ IsInjective(left) /\ ToSet(left) \subseteq ToSet(Mapped)
    /\ Busy => left # <<>>
    /\ pc \in {"planned", "report", "ended"} => left = <<>>
    /\ pc # "build" => page = {}
    /\ pc \notin {"build", "insert"} => built = {}

\* The plan does not change under a run.
LEMMA DesignStays == [Next]_vars => UNCHANGED design
BY DEF Next, Write, Start, Run, RunFails, ClearCollection, CountRows, FetchPage, BuildDocument,
       InsertBatch, InsertFails, Report, Finished, outside, vars

LEMMA PlanStays ==
    ASSUME UNCHANGED design
    PROVE  /\ Mapped' = Mapped /\ Junctions' = Junctions /\ \A t : KeysOf(t)' = KeysOf(t)
           /\ \A t : Embedded(t)' = Embedded(t) /\ Linked(t)' = Linked(t)
           /\ \A u, t : Field(u, t)' = Field(u, t)
           /\ \A e : IsArray(e)' = IsArray(e)
           /\ Ordered' = Ordered
<1>1. \A t : KeysOf(t)' = KeysOf(t)
  BY DEF KeysOf
<1>2. Junctions' = Junctions
  BY <1>1 DEF Junctions
<1>3. Mapped' = Mapped
  BY <1>1, <1>2 DEF Mapped, Children
<1>4. ForeignKeys' = ForeignKeys
  BY <1>1 DEF ForeignKeys
<1>5. \A j, t : Others(j, t)' = Others(j, t)
  BY <1>1 DEF Others
<1>6. \A j, t : OtherSide(j, t)' = OtherSide(j, t)
  BY <1>1, <1>5 DEF OtherSide
<1>7. \A j, t : Along(j, t)' = Along(j, t)
  BY <1>1 DEF Along
<1>8. \A u, t : Field(u, t)' = Field(u, t)
  BY <1>2, <1>5, <1>6 DEF Field
<1>9. \A t : Embedded(t)' = Embedded(t)
  BY <1>1, <1>2, <1>4, <1>5, <1>6, <1>7 DEF Embedded
<1>10. \A t : Linked(t)' = Linked(t)
  BY <1>1, <1>2, <1>5, <1>6 DEF Linked
<1>11. \A e : IsArray(e)' = IsArray(e)
  BY <1>1, <1>2 DEF IsArray
<1>12. Ordered' = Ordered
  BY DEF Ordered
<1> QED
  BY <1>1, <1>2, <1>3, <1>8, <1>9, <1>10, <1>11, <1>12

\* Every mapped table once.
LEMMA MappedTables ==
    /\ Mapped \in Seq(Names) /\ IsInjective(Mapped)
    /\ ToSet(Mapped) = Names \ (Junctions \cup Children)
<1> DEFINE S == Names \ (Junctions \cup Children)
<1>1. Tables \in Seq(Names) /\ IsInjective(Tables) /\ ToSet(Tables) = Names
  BY TablesAssumption DEF Names
<1> HIDE DEF S
<1>2. /\ Kept(Tables, S) \in Seq(Names) /\ IsInjective(Kept(Tables, S))
      /\ ToSet(Kept(Tables, S)) = ToSet(Tables) \cap S
  BY <1>1, KeptMembers
<1> QED
  BY <1>1, <1>2 DEF Mapped, S

LEMMA SchemaTypes ==
    ASSUME Source, NEW t \in Names
    PROVE  KeysOf(t) \in Seq(Key) /\ \A k \in DOMAIN KeysOf(t) : KeysOf(t)[k].to \in Names
<1>1. KeysOf(t) \in Seq(Key)
  BY DesignsAssumption DEF Source, KeysOf, Table
<1>2. \A k \in DOMAIN KeysOf(t) : KeysOf(t)[k] \in Key
  BY <1>1
<1> QED
  BY <1>1, <1>2 DEF Key

LEMMA SourceInit == Init => Source
<1> SUFFICES ASSUME Init PROVE Source
  OBVIOUS
<1> DEFINE held(r) == [id |-> r.id, first |-> r.first, key |-> r.key, refs |-> r.refs, v |-> 0,
                       new |-> r.new]
<1>1. design \in Designs /\ writes = 0 /\ rows = [t \in Names |-> {held(r) : r \in Contents[design][t]}]
  BY DEF Init
<1>2. ASSUME NEW t \in Names
      PROVE  /\ design[t].keys \in Seq(Key)
             /\ \A k \in DOMAIN design[t].keys : design[t].keys[k].to \in Names
  <2>1. design[t].keys \in Seq(Key)
    BY <1>1, DesignsAssumption DEF Table
  <2>2. \A k \in DOMAIN design[t].keys : design[t].keys[k] \in Key
    BY <2>1
  <2> QED
    BY <2>1, <2>2 DEF Key
<1>3. ASSUME NEW t \in Names, NEW r \in Contents[design][t]
      PROVE  /\ held(r) \in Row /\ Sound(design[t].first, held(r))
             /\ held(r).refs \in [DOMAIN KeysOf(t) -> {NoRow} \cup Ids]
             /\ \A k \in DOMAIN KeysOf(t) :
                   r.refs[k] # NoRow => \E p \in Contents[design][KeysOf(t)[k].to] : p.id = r.refs[k]
  <2>1. /\ r.id \in Ids /\ r.new \in BOOLEAN /\ Sound(design[t].first, r)
        /\ r.refs \in [DOMAIN design[t].keys -> {NoRow} \cup Ids]
        /\ \A k \in DOMAIN design[t].keys :
              r.refs[k] # NoRow => \E p \in Contents[design][design[t].keys[k].to] : p.id = r.refs[k]
    BY <1>1, ContentsAssumption
  <2>2. r.refs \in Seq({NoRow} \cup Ids)
    <3>1. DOMAIN design[t].keys = 1..Len(design[t].keys) /\ Len(design[t].keys) \in Nat
      BY <1>2
    <3> QED
      BY <3>1, <2>1
  <2>3. 0 \in Version
    BY BoundsAssumption DEF Version
  <2>4. r.first \in Ids /\ r.key \in Ids /\ Sound(design[t].first, held(r))
    BY <2>1 DEF Sound
  <2> QED
    BY <2>1, <2>2, <2>3, <2>4 DEF Row, KeysOf
<1>4. ASSUME NEW t \in Names, NEW q \in Contents[design][t], NEW r \in Contents[design][t], q.id = r.id
      PROVE  q = r
  BY <1>1, <1>4, ContentsAssumption
<1>5. rows \in [Names -> SUBSET Row]
  BY <1>1, <1>3
<1>6. \A t \in Names : \A q, r \in rows[t] : q.id = r.id => q = r
  BY <1>1, <1>4
<1>7. ASSUME NEW t \in Names, NEW k \in DOMAIN KeysOf(t), NEW i, NEW p \in Contents[design][KeysOf(t)[k].to], p.id = i
      PROVE  \E q \in rows[KeysOf(t)[k].to] : q.id = i
  <2>1. KeysOf(t)[k].to \in Names
    BY <1>2 DEF KeysOf
  <2>2. held(p) \in rows[KeysOf(t)[k].to] /\ held(p).id = i
    BY <1>1, <1>7, <2>1
  <2> QED
    BY <2>2
<1>8. \A t \in Names : \A r \in rows[t] :
          /\ r.refs \in [DOMAIN KeysOf(t) -> {NoRow} \cup Ids]
          /\ \A k \in DOMAIN KeysOf(t) :
                r.refs[k] # NoRow => \E p \in rows[KeysOf(t)[k].to] : p.id = r.refs[k]
  <2> SUFFICES ASSUME NEW t \in Names, NEW q \in rows[t]
               PROVE  /\ q.refs \in [DOMAIN KeysOf(t) -> {NoRow} \cup Ids]
                      /\ \A k \in DOMAIN KeysOf(t) :
                            q.refs[k] # NoRow => \E p \in rows[KeysOf(t)[k].to] : p.id = q.refs[k]
    OBVIOUS
  <2>1. PICK r \in Contents[design][t] : q = held(r)
    BY <1>1
  <2>2. q.refs = r.refs
    BY <2>1
  <2>3. /\ q.refs \in [DOMAIN KeysOf(t) -> {NoRow} \cup Ids]
        /\ \A k \in DOMAIN KeysOf(t) :
              r.refs[k] # NoRow => \E p \in Contents[design][KeysOf(t)[k].to] : p.id = r.refs[k]
    BY <2>1, <1>3
  <2>4. ASSUME NEW k \in DOMAIN KeysOf(t), q.refs[k] # NoRow
        PROVE  \E p \in rows[KeysOf(t)[k].to] : p.id = q.refs[k]
    <3>1. PICK p \in Contents[design][KeysOf(t)[k].to] : p.id = r.refs[k]
      BY <2>2, <2>3, <2>4
    <3>2. \E a \in rows[KeysOf(t)[k].to] : a.id = r.refs[k]
      BY <3>1, <1>7
    <3> QED
      BY <2>2, <3>2
  <2> QED
    BY <2>3, <2>4
<1>9. writes \in 0..MaxWrites
  BY <1>1, BoundsAssumption
<1>10. \A t \in Names : \A r \in rows[t] : Sound(design[t].first, r)
  BY <1>1, <1>3
<1>11. ASSUME NEW t \in Names, NEW k \in DOMAIN KeysOf(t), KeysOf(t)[k].alone,
              NEW q \in Contents[design][t], NEW r \in Contents[design][t],
              q.refs[k] = r.refs[k], r.refs[k] # NoRow
       PROVE  q = r
  BY <1>1, <1>11, ContentsAssumption DEF KeysOf
<1>12. \A r : held(r).refs = r.refs
  OBVIOUS
<1> HIDE DEF held
<1>13. ASSUME NEW t \in Names, NEW k \in DOMAIN KeysOf(t), KeysOf(t)[k].alone,
              NEW q \in rows[t], NEW r \in rows[t],
              q.refs[k] = r.refs[k], r.refs[k] # NoRow
       PROVE  q = r
  <2>1. PICK a \in Contents[design][t] : q = held(a)
    BY <1>1
  <2>2. PICK b \in Contents[design][t] : r = held(b)
    BY <1>1
  <2> QED
    BY <1>11, <1>12, <1>13, <2>1, <2>2
<1>14. \A t \in Names : \A k \in DOMAIN KeysOf(t) : KeysOf(t)[k].alone =>
          \A q, r \in rows[t] : q.refs[k] = r.refs[k] /\ r.refs[k] # NoRow => q = r
  BY <1>13
<1>15. design \in Designs
  BY <1>1
<1> QED
  BY <1>5, <1>6, <1>8, <1>9, <1>10, <1>14, <1>15 DEF Source

LEMMA FreshRows == ASSUME Source, NEW t \in Names, NEW x \in Fresh(t) PROVE x \in Row
<1>1. x \in [id : Ids, first : Ids, key : Ids, refs : [DOMAIN KeysOf(t) -> {NoRow} \cup Ids],
              v : {0}, new : {TRUE}]
  BY DEF Fresh
<1>2. DOMAIN KeysOf(t) = 1..Len(KeysOf(t)) /\ Len(KeysOf(t)) \in Nat
  BY SchemaTypes
<1>3. x.refs \in Seq({NoRow} \cup Ids)
  BY <1>1, <1>2
<1>4. 0 \in Version
  BY BoundsAssumption DEF Version
<1> QED
  BY <1>1, <1>3, <1>4 DEF Row

\* A write keeps the keys: what is referred to is not deleted, and an update keeps
\* the id.
LEMMA SourceStep ==
    ASSUME Source, [Next]_vars
    PROVE  Source'
<1>1. CASE ~ \E t \in Names : Write(t)
  <2>1. UNCHANGED <<design, rows, writes>>
    BY <1>1 DEF Next, Start, Run, RunFails, ClearCollection, CountRows, FetchPage, BuildDocument,
                InsertBatch, InsertFails, Report, Finished, outside, vars
  <2> QED
    BY <2>1 DEF Source, KeysOf
<1>2. ASSUME NEW t \in Names, Write(t) PROVE Source'
  <2>0. UNCHANGED design /\ writes' = writes + 1 /\ writes' \in 0..MaxWrites
    <3>1. writes < MaxWrites /\ writes' = writes + 1 /\ UNCHANGED design
      BY <1>2 DEF Write
    <3>2. writes \in 0..MaxWrites
      BY DEF Source
    <3> QED
      BY <3>1, <3>2, BoundsAssumption
  <2>1. \A u : KeysOf(u)' = KeysOf(u)
    BY <2>0 DEF KeysOf
  <2>2. ASSUME NEW x \in Fresh(t), rows' = [rows EXCEPT ![t] = @ \cup {x}]
        PROVE  Source'
    <3>1. /\ x.refs \in [DOMAIN KeysOf(t) -> {NoRow} \cup Ids] /\ Sound(design[t].first, x)
          /\ \A r \in rows[t] : r.id # x.id
          /\ \A k \in DOMAIN KeysOf(t) : x.refs[k] # NoRow =>
                /\ \E p \in rows[KeysOf(t)[k].to] : p.id = x.refs[k]
                /\ KeysOf(t)[k].alone => \A r \in rows[t] : r.refs[k] # x.refs[k]
      BY DEF Fresh
    <3>2. x \in Row
      BY FreshRows
    <3>5. rows' \in [Names -> SUBSET Row]
      BY <2>2, <3>2 DEF Source
    <3>6. \A u \in Names : rows'[u] = IF u = t THEN rows[u] \cup {x} ELSE rows[u]
      BY <2>2 DEF Source
    <3>8. \A u \in Names : \A r \in rows'[u] : r \in rows[u] \/ (u = t /\ r = x)
      BY <3>6
    <3>7. ASSUME NEW u \in Names, NEW q \in rows'[u], NEW r \in rows'[u], q.id = r.id
          PROVE  q = r
      <4>1. \A a, b \in rows[u] : a.id = b.id => a = b
        BY DEF Source
      <4> QED
        BY <4>1, <3>1, <3>7, <3>8
    <3>9. \A u \in Names : rows[u] \subseteq rows'[u]
      BY <3>6
    <3>10. ASSUME NEW u \in Names, NEW r \in rows'[u]
           PROVE  /\ r.refs \in [DOMAIN KeysOf(u) -> {NoRow} \cup Ids]
                  /\ \A k \in DOMAIN KeysOf(u) :
                        r.refs[k] # NoRow => \E p \in rows[KeysOf(u)[k].to] : p.id = r.refs[k]
                  /\ Sound(design[u].first, r)
      <4>1. CASE r \in rows[u]
        BY <4>1 DEF Source
      <4>2. CASE u = t /\ r = x
        BY <4>2, <3>1
      <4> QED
        BY <4>1, <4>2, <3>8
    <3>11. \A u \in Names : \A k \in DOMAIN KeysOf(u) : KeysOf(u)[k].to \in Names
      BY SchemaTypes
    <3>12. ASSUME NEW u \in Names, NEW k \in DOMAIN KeysOf(u), KeysOf(u)[k].alone,
                  NEW q \in rows'[u], NEW r \in rows'[u], q.refs[k] = r.refs[k], r.refs[k] # NoRow
           PROVE  q = r
      <4>1. \A a, b \in rows[u] : a.refs[k] = b.refs[k] /\ b.refs[k] # NoRow => a = b
        BY <3>12 DEF Source
      <4> QED
        BY <4>1, <3>1, <3>8, <3>12
    <3> QED
      BY <2>0, <2>1, <3>5, <3>7, <3>9, <3>10, <3>11, <3>12 DEF Source
  <2>3. ASSUME NEW r \in rows[t], NEW f \in Ids, Sound(design[t].first, [r EXCEPT !.first = f]),
               rows' = [rows EXCEPT ![t] = (@ \ {r}) \cup {[r EXCEPT !.first = f, !.v = writes']}]
        PROVE  Source'
    <3> DEFINE x == [r EXCEPT !.first = f, !.v = writes']
    <3>1. x \in Row /\ x.id = r.id /\ x.refs = r.refs /\ Sound(design[t].first, x)
      <4>1. r \in Row /\ writes' \in Version
        BY <2>0 DEF Source, Version
      <4>2. LET y == [r EXCEPT !.first = f]
            IN  x.id = y.id /\ x.first = y.first /\ x.key = y.key
        BY <4>1 DEF Row
      <4>3. x \in Row /\ x.id = r.id /\ x.refs = r.refs
        BY <4>1 DEF Row
      <4> QED
        BY <2>3, <4>2, <4>3 DEF Sound
    <3>2. rows' = [rows EXCEPT ![t] = (@ \ {r}) \cup {x}]
      BY <2>3
    <3> HIDE DEF x
    <3>3. rows' \in [Names -> SUBSET Row]
      BY <3>1, <3>2 DEF Source
    <3>4. \A u \in Names : rows'[u] = IF u = t THEN (rows[u] \ {r}) \cup {x} ELSE rows[u]
      BY <3>2 DEF Source
    <3>10. \A u \in Names : \A a \in rows'[u] :
              (a \in rows[u] /\ (u = t => a # r)) \/ (u = t /\ a = x)
      BY <3>4
    <3>5. ASSUME NEW u \in Names, NEW q \in rows'[u], NEW s \in rows'[u], q.id = s.id
          PROVE  q = s
      <4>1. \A a, b \in rows[u] : a.id = b.id => a = b
        BY DEF Source
      <4> QED
        BY <4>1, <3>1, <3>5, <3>10
    <3>6. \A u \in Names : \A q \in rows'[u] : \E s \in rows[u] : s.id = q.id /\ s.refs = q.refs
      BY <3>1, <3>4
    <3>7. \A u \in Names : \A s \in rows[u] : \E q \in rows'[u] : s.id = q.id
      BY <3>1, <3>4
    <3>8. \A u \in Names : \A k \in DOMAIN KeysOf(u) : KeysOf(u)[k].to \in Names
      BY SchemaTypes
    <3>9. ASSUME NEW u \in Names, NEW q \in rows'[u]
          PROVE  /\ q.refs \in [DOMAIN KeysOf(u) -> {NoRow} \cup Ids]
                 /\ \A k \in DOMAIN KeysOf(u) :
                       q.refs[k] # NoRow => \E p \in rows'[KeysOf(u)[k].to] : p.id = q.refs[k]
      <4>1. PICK s \in rows[u] : s.id = q.id /\ s.refs = q.refs
        BY <3>6
      <4>2. /\ s.refs \in [DOMAIN KeysOf(u) -> {NoRow} \cup Ids]
            /\ \A k \in DOMAIN KeysOf(u) :
                  s.refs[k] # NoRow => \E p \in rows[KeysOf(u)[k].to] : p.id = s.refs[k]
        BY DEF Source
      <4> QED
        BY <4>1, <4>2, <3>7, <3>8
    <3>11. \A u \in Names : \A q \in rows'[u] : Sound(design[u].first, q)
      BY <3>1, <3>10 DEF Source
    <3>12. ASSUME NEW u \in Names, NEW k \in DOMAIN KeysOf(u), KeysOf(u)[k].alone,
                  NEW q \in rows'[u], NEW s \in rows'[u], q.refs[k] = s.refs[k], s.refs[k] # NoRow
           PROVE  q = s
      <4>1. \A a, b \in rows[u] : a.refs[k] = b.refs[k] /\ b.refs[k] # NoRow => a = b
        BY <3>12 DEF Source
      <4>2. u = t => r \in rows[u]
        OBVIOUS
      <4> QED
        BY <4>1, <4>2, <3>1, <3>10, <3>12
    <3> QED
      BY <2>0, <2>1, <3>3, <3>5, <3>9, <3>11, <3>12 DEF Source
  <2>4. ASSUME NEW r \in rows[t], ~Referred(t, r.id), rows' = [rows EXCEPT ![t] = @ \ {r}]
        PROVE  Source'
    <3>1. rows' \in [Names -> SUBSET Row]
      BY <2>4 DEF Source
    <3>2. \A u \in Names : rows'[u] = IF u = t THEN rows[u] \ {r} ELSE rows[u]
      BY <2>4 DEF Source
    <3>3. \A u \in Names : rows'[u] \subseteq rows[u]
      BY <3>2
    <3>4. \A u \in Names : \A k \in DOMAIN KeysOf(u) : KeysOf(u)[k].to \in Names
      BY SchemaTypes
    <3>5. ASSUME NEW u \in Names, NEW q \in rows'[u], NEW k \in DOMAIN KeysOf(u), q.refs[k] # NoRow
          PROVE  \E p \in rows'[KeysOf(u)[k].to] : p.id = q.refs[k]
      <4>1. PICK p \in rows[KeysOf(u)[k].to] : p.id = q.refs[k]
        BY <3>3, <3>5 DEF Source
      <4>2. ~(KeysOf(u)[k].to = t /\ q.refs[k] = r.id)
        BY <2>4, <3>3 DEF Referred
      <4>3. p \in rows'[KeysOf(u)[k].to]
        BY <4>1, <4>2, <3>2, <3>4
      <4> QED
        BY <4>1, <4>3
    <3>6. \A u \in Names : \A q \in rows'[u] : q.refs \in [DOMAIN KeysOf(u) -> {NoRow} \cup Ids]
      BY <3>3 DEF Source
    <3>7. \A u \in Names : \A q, s \in rows'[u] : q.id = s.id => q = s
      BY <3>3 DEF Source
    <3>8. \A u \in Names : \A q \in rows'[u] : Sound(design[u].first, q)
      BY <3>3 DEF Source
    <3>9. \A u \in Names : \A k \in DOMAIN KeysOf(u) : KeysOf(u)[k].alone =>
             \A q, s \in rows'[u] : q.refs[k] = s.refs[k] /\ s.refs[k] # NoRow => q = s
      BY <3>3 DEF Source
    <3> QED
      BY <2>0, <2>1, <3>1, <3>5, <3>6, <3>7, <3>8, <3>9 DEF Source
  <2> QED
    BY <1>2, <2>2, <2>3, <2>4 DEF Write
<1> QED
  BY <1>1, <1>2

LEMMA PositionInit == Init => Position
<1> SUFFICES ASSUME Init PROVE Position
  OBVIOUS
<1>1. left = <<>> /\ pc = "planned" /\ page = {} /\ built = {}
  BY DEF Init
<1>2. left \in Seq(Names) /\ IsInjective(left) /\ ToSet(left) = {}
  BY <1>1, EmptySet DEF IsInjective
<1> QED
  BY <1>1, <1>2 DEF Position, Busy

LEMMA PositionStep ==
    ASSUME Position, [Next]_vars
    PROVE  Position'
<1>1. UNCHANGED design /\ ToSet(Mapped') = ToSet(Mapped)
  <2>1. UNCHANGED design
    BY DesignStays
  <2>2. Mapped' = Mapped
    BY <2>1, PlanStays
  <2> QED
    BY <2>1, <2>2
<1> DEFINE Fine(s) == s \in Seq(Names) /\ IsInjective(s) /\ ToSet(s) \subseteq ToSet(Mapped)
<1>2. Fine(<<>>)
  BY EmptySet DEF IsInjective
<1>3. left # <<>> => Fine(Tail(left))
  BY HeadOrTail DEF Position
<1>4. Fine(Mapped)
  BY MappedTables
<1>5. Fine(left)
  BY DEF Position
<1> HIDE DEF Fine
<1>6. CASE UNCHANGED <<pc, loop>>
  BY <1>1, <1>5, <1>6 DEF Position, Busy, Fine, loop
<1>7. CASE Start
  <2>1. left' = Mapped /\ pc' = "clear" /\ UNCHANGED <<page, built>>
    BY <1>7 DEF Start
  <2> QED
    BY <1>1, <1>4, <1>7, <2>1 DEF Position, Busy, Fine, Start
<1>8. CASE RunFails \/ Report
  <2>1. left' = <<>> /\ pc' = "ended" /\ page' = {} /\ built' = {}
    BY <1>8 DEF RunFails, Report, Exit
  <2> QED
    BY <1>1, <1>2, <2>1 DEF Position, Busy, Fine
<1>9. CASE ClearCollection
  <2>1. pc = "clear" /\ pc' = (IF left = <<>> THEN "report" ELSE "count") /\ UNCHANGED loop
    BY <1>9 DEF ClearCollection
  <2> QED
    BY <1>1, <1>5, <2>1 DEF Position, Busy, Fine, loop
<1>10. CASE CountRows
  <2>1. pc = "count" /\ pc' = "fetch" /\ UNCHANGED <<left, page, built>>
    BY <1>10 DEF CountRows
  <2> QED
    BY <1>1, <1>5, <2>1 DEF Position, Busy, Fine
<1>11. CASE FetchPage
  <2>1. pc = "fetch" /\ built' = {}
    BY <1>11 DEF FetchPage
  <2>2. CASE pc' = "clear" /\ left' = Tail(left) /\ UNCHANGED page
    BY <1>1, <1>3, <2>1, <2>2 DEF Position, Busy, Fine
  <2>3. CASE pc' = "build" /\ UNCHANGED left
    BY <1>1, <1>5, <2>1, <2>3 DEF Position, Busy, Fine
  <2> QED
    BY <1>11, <2>2, <2>3 DEF FetchPage
<1>12. CASE BuildDocument
  <2>1. pc = "build" /\ UNCHANGED left
    BY <1>12 DEF BuildDocument
  <2>2. CASE page = {}
    <3>1. pc' = (IF built = {} THEN "fetch" ELSE "insert") /\ UNCHANGED <<page, built>>
      BY <1>12, <2>2 DEF BuildDocument
    <3> QED
      BY <1>1, <1>5, <2>1, <2>2, <3>1 DEF Position, Busy, Fine
  <2>3. CASE page # {}
    <3>1. UNCHANGED pc
      BY <1>12, <2>3 DEF BuildDocument
    <3> QED
      BY <1>1, <1>5, <2>1, <3>1 DEF Position, Busy, Fine
  <2> QED
    BY <2>2, <2>3
<1>13. CASE InsertBatch \/ InsertFails
  <2>1. pc = "insert" /\ pc' = "fetch" /\ built' = {} /\ UNCHANGED <<left, page>>
    BY <1>13 DEF InsertBatch, InsertFails
  <2> QED
    BY <1>1, <1>5, <2>1 DEF Position, Busy, Fine
<1>14. ASSUME NEW t \in Names, Write(t) PROVE UNCHANGED <<pc, loop>>
  BY <1>14 DEF Write
<1> QED
  BY <1>6, <1>7, <1>8, <1>9, <1>10, <1>11, <1>12, <1>13, <1>14 DEF Next, Run, Finished, vars

(***************************************************************************)
(* What is in the target was read in this run.                             *)
(***************************************************************************)

Running == Busy \/ pc \in {"clear", "report"}

\* The tables whose collections hold what an earlier run put there.
Uncleared ==
    IF pc = "clear" THEN ToSet(left) ELSE IF Busy THEN ToSet(Tail(left)) ELSE {}

\* Documents are of mapped tables; in a full run each of a table that has been cleared
\* was read, as was whatever is on its way.
FreshDocuments ==
    /\ \A d \in documents : d.of \in ToSet(Mapped)
    /\ \A r \in page : <<Head(left), r.id>> \in read
    /\ \A b \in built : b.of = Head(left) /\ <<b.of, b.id>> \in read
    /\ (Running \/ Done) /\ ~incremental =>
          \A d \in documents : d.of \in Uncleared \/ <<d.of, d.id>> \in read

\* A document of table t for row r is added to those built.
BuiltOf(t, r) ==
    \E x : /\ built' = built \cup {x}
           /\ x.of = t /\ x.key = r.key /\ x.id = r.id /\ x.parts \in Parts(t, r.id)
           /\ x = [of |-> t, key |-> r.key, id |-> r.id, v |-> r.v, parts |-> x.parts]

\* One row leaves the page, as a document or as an error.
LEMMA BuildsOne ==
    ASSUME BuildDocument, page # {}
    PROVE  \E r \in page :
              /\ page' = page \ {r}
              /\ \/ BuiltOf(Head(left), r) /\ UNCHANGED errors
                 \/ UNCHANGED built /\ errors' = errors \cup {<<Head(left), r.id>>}
<1>1. PICK r \in page :
         /\ page' = page \ {r}
         /\ \/ /\ \E ps \in Parts(Head(left), r.id) :
                     built' = built \cup {[of |-> Head(left), key |-> r.key, id |-> r.id,
                                          v |-> r.v, parts |-> ps]}
               /\ UNCHANGED errors
            \/ UNCHANGED built /\ errors' = errors \cup {<<Head(left), r.id>>}
  BY DEF BuildDocument
<1>2. ASSUME NEW ps \in Parts(Head(left), r.id),
             built' = built \cup {[of |-> Head(left), key |-> r.key, id |-> r.id,
                                  v |-> r.v, parts |-> ps]}
      PROVE  BuiltOf(Head(left), r)
  <2> DEFINE x == [of |-> Head(left), key |-> r.key, id |-> r.id, v |-> r.v, parts |-> ps]
  <2>1. /\ x.of = Head(left) /\ x.key = r.key /\ x.id = r.id /\ x.parts = ps
        /\ x = [of |-> Head(left), key |-> r.key, id |-> r.id, v |-> r.v, parts |-> x.parts]
    OBVIOUS
  <2>2. built' = built \cup {x}
    BY <1>2
  <2> HIDE DEF x
  <2> QED
    BY <1>2, <2>1, <2>2 DEF BuiltOf
<1> QED
  BY <1>1, <1>2

\* Inserting adds nothing but what was built.
LEMMA Inserted ==
    ASSUME InsertBatch \/ InsertFails
    PROVE  documents' \subseteq documents \cup built
BY DEF InsertBatch, InsertFails, Replaced, Taken, OneOfEach

LEMMA FreshInit == Init => FreshDocuments
BY DEF Init, FreshDocuments, Running, Busy, Done

LEMMA FreshStep ==
    ASSUME Position, FreshDocuments, [Next]_vars
    PROVE  FreshDocuments'
<1>1. ToSet(Mapped') = ToSet(Mapped)
  <2>1. Mapped' = Mapped
    BY DesignStays, PlanStays
  <2> QED
    BY <2>1
<1>2. left # <<>> => /\ Head(left) \in ToSet(Mapped) /\ ToSet(left) = {Head(left)} \cup ToSet(Tail(left))
  BY HeadOrTail DEF Position
<1>3. CASE UNCHANGED <<pc, incremental, loop, outcome, documents>>
  BY <1>1, <1>3 DEF FreshDocuments, Running, Busy, Done, Uncleared, loop, outcome
<1>4. CASE Start
  <2>1. /\ left' = Mapped /\ pc' = "clear" /\ UNCHANGED <<page, built, documents>>
        /\ page = {} /\ built = {}
    BY <1>4 DEF Start, Position
  <2>2. Uncleared' = ToSet(Mapped)
    BY <2>1 DEF Uncleared
  <2> QED
    BY <1>1, <2>1, <2>2 DEF FreshDocuments
<1>5. CASE RunFails
  <2>1. pc' = "ended" /\ page' = {} /\ built' = {} /\ result' = "failed" /\ UNCHANGED documents
    BY <1>5 DEF RunFails, Exit
  <2> QED
    BY <1>1, <2>1 DEF FreshDocuments, Running, Busy, Done
<1>6. CASE Report
  <2>1. /\ pc = "report" /\ pc' = "ended" /\ page' = {} /\ built' = {}
        /\ UNCHANGED <<documents, incremental, read>>
    BY <1>6 DEF Report, Exit, settings
  <2>2. Uncleared = {} /\ Running
    BY <2>1 DEF Uncleared, Busy, Running
  <2> QED
    BY <1>1, <2>1, <2>2 DEF FreshDocuments
<1>7. CASE ClearCollection
  <2>1. pc = "clear" /\ UNCHANGED <<left, page, built, read, incremental>> /\ page = {} /\ built = {}
    BY <1>7 DEF ClearCollection, settings, loop, outcome, Position
  <2>2. CASE left = <<>>
    <3>1. pc' = "report" /\ UNCHANGED documents
      BY <1>7, <2>2 DEF ClearCollection
    <3>2. Uncleared = {} /\ Uncleared' = {}
      BY <2>1, <2>2, <3>1, EmptySet DEF Uncleared, Busy
    <3> QED
      BY <1>1, <2>1, <3>1, <3>2 DEF FreshDocuments, Running
  <2>3. CASE left # <<>>
    <3>1. /\ pc' = "count"
          /\ documents' = IF incremental THEN documents ELSE {d \in documents : d.of # Head(left)}
      BY <1>7, <2>3 DEF ClearCollection
    <3>2. Uncleared = ToSet(left) /\ Uncleared' = ToSet(Tail(left))
      BY <2>1, <3>1 DEF Uncleared, Busy
    <3> QED
      BY <1>1, <1>2, <2>1, <2>3, <3>1, <3>2 DEF FreshDocuments, Running
  <2> QED
    BY <2>2, <2>3
<1>8. CASE CountRows
  <2>1. /\ pc = "count" /\ pc' = "fetch" /\ page = {} /\ built = {}
        /\ UNCHANGED <<left, page, built, read, documents, incremental>>
    BY <1>8 DEF CountRows, settings, Position
  <2>2. Uncleared' = Uncleared
    BY <2>1 DEF Uncleared, Busy
  <2> QED
    BY <1>1, <2>1, <2>2 DEF FreshDocuments, Running, Busy
<1>9. CASE FetchPage
  <2>1. /\ pc = "fetch" /\ built' = {} /\ page = {} /\ left # <<>>
        /\ UNCHANGED <<documents, incremental>>
    BY <1>9 DEF FetchPage, settings, Position, Busy
  <2>2. CASE offset >= total
    <3>1. pc' = "clear" /\ left' = Tail(left) /\ UNCHANGED <<page, read>>
      BY <1>9, <2>2 DEF FetchPage
    <3>2. Uncleared' = Uncleared
      BY <2>1, <3>1 DEF Uncleared, Busy
    <3> QED
      BY <1>1, <2>1, <3>1, <3>2 DEF FreshDocuments, Running, Busy
  <2>3. CASE ~(offset >= total)
    <3>1. /\ pc' = "build" /\ UNCHANGED left
          /\ read' = read \cup {<<Head(left), i>> : i \in IdsOf(page')}
      BY <1>9, <2>3 DEF FetchPage
    <3>2. Uncleared' = Uncleared
      BY <2>1, <3>1 DEF Uncleared, Busy
    <3>3. \A r \in page' : <<Head(left), r.id>> \in read'
      BY <3>1 DEF IdsOf
    <3> QED
      BY <1>1, <2>1, <3>1, <3>2, <3>3 DEF FreshDocuments, Running, Busy
  <2> QED
    BY <2>2, <2>3
<1>10. CASE BuildDocument
  <2>1. pc = "build" /\ UNCHANGED <<left, read, documents, incremental>>
    BY <1>10 DEF BuildDocument, settings
  <2>2. pc' \in {"build", "fetch", "insert"}
    BY <1>10 DEF BuildDocument
  <2>3. Uncleared' = Uncleared
    BY <2>1, <2>2 DEF Uncleared, Busy
  <2>4. page' \subseteq page /\ \A b \in built' : b \in built \/ \E r \in page : b.of = Head(left) /\ b.id = r.id
    <3>1. CASE page = {}
      BY <1>10, <3>1 DEF BuildDocument
    <3>2. CASE page # {}
      <4>1. PICK r \in page : page' = page \ {r} /\ (BuiltOf(Head(left), r) \/ UNCHANGED built)
        BY <1>10, <3>2, BuildsOne
      <4> QED
        BY <4>1 DEF BuiltOf
    <3> QED
      BY <3>1, <3>2
  <2> QED
    BY <1>1, <2>1, <2>3, <2>4 DEF FreshDocuments, Running, Busy
<1>11. CASE InsertBatch \/ InsertFails
  <2>1. /\ pc = "insert" /\ pc' = "fetch" /\ built' = {}
        /\ UNCHANGED <<left, page, read, incremental>> /\ left # <<>>
    BY <1>11 DEF InsertBatch, InsertFails, settings, Position, Busy
  <2>2. Uncleared' = Uncleared
    BY <2>1 DEF Uncleared, Busy
  <2> QED
    BY <1>1, <1>2, <1>11, <2>1, <2>2, Inserted DEF FreshDocuments, Running, Busy
<1>12. ASSUME NEW t \in Names, Write(t) PROVE UNCHANGED <<pc, incremental, loop, outcome, documents>>
  BY <1>12 DEF Write
<1> QED
  BY <1>3, <1>4, <1>5, <1>6, <1>7, <1>8, <1>9, <1>10, <1>11, <1>12 DEF Next, Run, Finished, vars

\* Where a primary key has one column, a document's _id is the id of its row.
KeysKept ==
    /\ \A r \in page : design[Head(left)].first # "part" => r.key = r.id
    /\ \A d \in documents \cup built : design[d.of].first # "part" => d.key = d.id

LEMMA KeysInit == Init => KeysKept
BY DEF Init, KeysKept

LEMMA PageFromTable ==
    ASSUME FetchPage
    PROVE  \/ /\ offset >= total /\ pc' = "clear" /\ left' = Tail(left)
              /\ UNCHANGED <<offset, page, read>>
           \/ /\ ~(offset >= total) /\ page' \subseteq Asked(Head(left)) /\ UNCHANGED left
              /\ pc' = "build"
              /\ read' = read \cup {<<Head(left), i>> : i \in IdsOf(page')}
              /\ offset' = offset + BatchSize
BY DEF FetchPage, Leading, Advance

LEMMA KeysStep ==
    ASSUME Source, Position, FreshDocuments, KeysKept, [Next]_vars
    PROVE  KeysKept'
<1>0. UNCHANGED design
  BY DesignStays
<1>1. CASE UNCHANGED <<left, page, built, documents>>
  BY <1>0, <1>1 DEF KeysKept
<1>2. CASE page' = {} /\ (documents \cup built)' \subseteq documents \cup built
  BY <1>0, <1>2 DEF KeysKept
<1>3. CASE Start \/ RunFails \/ Report
  BY <1>2, <1>3 DEF Start, RunFails, Report, Exit, Position
<1>4. CASE ClearCollection \/ CountRows
  BY <1>2, <1>4 DEF ClearCollection, CountRows, Position, loop
<1>5. CASE InsertBatch \/ InsertFails
  BY <1>2, <1>5, Inserted DEF InsertBatch, InsertFails, Position
<1>6. CASE FetchPage
  <2>1. page = {} /\ built' = {} /\ UNCHANGED documents /\ left # <<>>
    BY <1>6 DEF FetchPage, Position, Busy
  <2>2. CASE UNCHANGED page
    BY <1>2, <2>1, <2>2
  <2>3. CASE page' \subseteq Asked(Head(left)) /\ UNCHANGED left
    <3>1. Head(left) \in Names
      BY <2>1, HeadOrTail DEF Position
    <3>2. \A r \in page' : Sound(design[Head(left)].first, r)
      BY <2>3, <3>1 DEF Source, Asked
    <3> QED
      BY <1>0, <2>1, <2>3, <3>2 DEF KeysKept, Sound
  <2> QED
    BY <1>6, <2>2, <2>3, PageFromTable
<1>7. CASE BuildDocument
  <2>1. UNCHANGED <<left, documents>>
    BY <1>7 DEF BuildDocument
  <2>2. CASE page = {}
    BY <1>1, <1>7, <2>1, <2>2 DEF BuildDocument
  <2>3. CASE page # {}
    <3>1. PICK r \in page : page' = page \ {r} /\ (BuiltOf(Head(left), r) \/ UNCHANGED built)
      BY <1>7, <2>3, BuildsOne
    <3>2. \A b \in built' : b \in built \/ (b.of = Head(left) /\ b.key = r.key /\ b.id = r.id)
      BY <3>1 DEF BuiltOf
    <3> QED
      BY <1>0, <2>1, <3>1, <3>2 DEF KeysKept
  <2> QED
    BY <2>2, <2>3
<1>8. ASSUME NEW t \in Names, Write(t) PROVE UNCHANGED <<left, page, built, documents>>
  BY <1>8 DEF Write, loop
<1> QED
  BY <1>1, <1>3, <1>4, <1>5, <1>6, <1>7, <1>8 DEF Next, Run, Finished, vars, loop

\* A full run leaves no document that it did not read: the collection of each mapped
\* table is cleared before its first page (postgres-to-mongo.engine.ts:86-88).
THEOREM NothingLeftOver == Spec => []NoLeftovers
<1>1. Init => Position /\ FreshDocuments
  BY PositionInit, FreshInit
<1>2. Position /\ FreshDocuments /\ [Next]_vars => (Position /\ FreshDocuments)'
  BY PositionStep, FreshStep
<1>3. Position /\ FreshDocuments => NoLeftovers
  BY DEF FreshDocuments, NoLeftovers, Done, Uncleared, Busy
<1> QED
  BY <1>1, <1>2, <1>3, PTL DEF Spec

(***************************************************************************)
(* Every page is read.                                                     *)
(***************************************************************************)

Reading == pc \in {"fetch", "build", "insert"}

\* The tables that are not counted yet.
Uncounted ==
    IF pc \in {"clear", "count"} THEN ToSet(left) ELSE IF Reading THEN ToSet(Tail(left)) ELSE {}

Delivered(d) == d \in errors \/ \E x \in documents : x.of = d[1] /\ x.id = d[2]

\* The rows of the table under way that were there when it was counted, and those that
\* there are now.
DueIds == {i \in Ids : <<Head(left), i>> \in due}
NowIds == IdsOf(Asked(Head(left)))
Place(r, rs) == Cardinality({q \in rs : q.id <= r.id})
PlaceOf(i, is) == Cardinality({j \in is : j <= i})

\* What was read of a table in the order of its key is in the target, given up, or on its
\* way; of what was counted, the rows of the table under way are still the first ones of
\* it, and those before the offset were read.
PagesKept ==
    /\ read \cup due \subseteq Names \X Ids
    /\ Running \/ Done =>
         /\ \A d \in read \cup due : d[1] \notin Uncounted
         /\ \A d \in read : d[1] \in Ordered =>
               \/ Delivered(d)
               \/ d[1] = Head(left) /\ d[2] \in IdsOf(page) \cup IdsOf(built)
         /\ ~shifted =>
              /\ \A d \in due : d[1] \in Ordered => d \in read \/ (Reading /\ d[1] = Head(left))
              /\ Reading /\ Head(left) \in Ordered =>
                            /\ DueIds \subseteq NowIds
                            /\ total = Cardinality(DueIds) /\ offset \in Nat
                            /\ \A j \in NowIds \ DueIds : \A i \in DueIds : i < j
                            /\ \A i \in DueIds :
                                  PlaceOf(i, NowIds) <= offset => <<Head(left), i>> \in read

\* Rows with different ids are as many as their ids.
LEMMA CountById ==
    ASSUME NEW rs, \A r \in rs : r.id \in Ids, \A q, r \in rs : q.id = r.id => q = r
    PROVE  IsFiniteSet(IdsOf(rs)) /\ IsFiniteSet(rs) /\ Cardinality(rs) = Cardinality(IdsOf(rs))
<1> DEFINE f == [r \in rs |-> r.id]
<1>1. IsFiniteSet(Ids)
  BY Interval, BoundsAssumption DEF Ids
<1>2. IdsOf(rs) \in SUBSET Ids
  BY DEF IdsOf
<1>3. IsFiniteSet(IdsOf(rs))
  BY <1>1, <1>2, FS_Subset
<1>4. f \in [rs -> IdsOf(rs)] /\ \A q, r \in rs : f[q] = f[r] => q = r
  BY DEF IdsOf
<1>5. \A i \in IdsOf(rs) : \E r \in rs : f[r] = i
  BY DEF IdsOf
<1> HIDE DEF f
<1>6. f \in Injection(rs, IdsOf(rs)) /\ f \in Surjection(rs, IdsOf(rs))
  BY <1>4, <1>5 DEF Injection, IsInjective, Surjection
<1> QED
  BY <1>3, <1>6, FS_Injection

\* The place of a row is that of its id.
LEMMA PlaceById ==
    ASSUME NEW rs, \A r \in rs : r.id \in Ids, \A q, r \in rs : q.id = r.id => q = r, NEW r \in rs
    PROVE  Place(r, rs) = PlaceOf(r.id, IdsOf(rs)) /\ Place(r, rs) \in Nat \ {0}
<1> DEFINE upTo == {q \in rs : q.id <= r.id}
<1>1. r.id <= r.id /\ r.id \in Ids
  BY DEF Ids
<1>2. r \in upTo
  BY <1>1
<1>3. (\A q \in upTo : q.id \in Ids) /\ \A p, q \in upTo : p.id = q.id => p = q
  OBVIOUS
<1>4. IdsOf(upTo) = {j \in IdsOf(rs) : j <= r.id}
  BY DEF IdsOf
<1>5. Place(r, rs) = Cardinality(upTo) /\ PlaceOf(r.id, IdsOf(rs)) = Cardinality(IdsOf(upTo))
  BY <1>4 DEF Place, PlaceOf
<1> HIDE DEF upTo
<1>6. IsFiniteSet(upTo) /\ Cardinality(upTo) = Cardinality(IdsOf(upTo))
  BY <1>3, CountById
<1>7. Cardinality(upTo) \in Nat /\ Cardinality(upTo) # 0
  BY <1>2, <1>6, FS_CardinalityType, FS_EmptySet
<1> QED
  BY <1>5, <1>6, <1>7

LEMMA AskedRows ==
    ASSUME Source, NEW t \in Names
    PROVE  /\ \A r \in Asked(t) : r.id \in Ids
           /\ \A q, r \in Asked(t) : q.id = r.id => q = r
<1>1. \A r \in Asked(t) : r \in rows[t]
  BY DEF Asked
<1>2. \A r \in rows[t] : r \in Row
  BY DEF Source
<1> QED
  BY <1>1, <1>2 DEF Source, Row

\* The first rows have the first places.
LEMMA FirstPlaces ==
    ASSUME NEW is \in SUBSET Ids, NEW js \in SUBSET is,
           \A j \in is \ js : \A i \in js : i < j, NEW i \in js
    PROVE  PlaceOf(i, is) <= Cardinality(js)
<1>1. IsFiniteSet(Ids)
  BY Interval, BoundsAssumption DEF Ids
<1>2. IsFiniteSet(js)
  BY <1>1, FS_Subset
<1>3. \A j \in is \ js : ~(j <= i)
  BY DEF Ids
<1> DEFINE upTo == {j \in is : j <= i}
<1>4. upTo \in SUBSET js
  BY <1>3
<1>5. PlaceOf(i, is) = Cardinality(upTo)
  BY DEF PlaceOf
<1> HIDE DEF upTo
<1> QED
  BY <1>2, <1>4, <1>5, FS_Subset

\* A write neither takes back nor precedes what was counted, unless it is said to.
LEMMA PlacesUnderWrites ==
    ASSUME Source, Position, PagesKept, Reading, ~shifted', NEW t \in Names, Write(t), Running,
           Head(left) \in Ordered
    PROVE  /\ ~shifted /\ DueIds \subseteq NowIds'
           /\ \A j \in NowIds' \ DueIds : \A i \in DueIds : i < j
           /\ \A i \in DueIds : PlaceOf(i, NowIds') <= offset => PlaceOf(i, NowIds) <= offset
<1> DEFINE h == Head(left)
<1>0. h \in Names /\ UNCHANGED <<left, due, incremental, pc>> /\ h' = h
  BY HeadOrTail DEF Position, Reading, Busy, Write, loop, outcome
<1>1. ~shifted
  BY DEF Write
<1>2. /\ DueIds \subseteq NowIds
      /\ \A j \in NowIds \ DueIds : \A i \in DueIds : i < j
  BY <1>1 DEF PagesKept, Running, Reading, Busy
<1>3. NowIds \subseteq Ids
  BY <1>0, AskedRows DEF NowIds, IdsOf
<1>4. CASE NowIds' = NowIds
  BY <1>1, <1>2, <1>4 DEF PlaceOf
<1>5. ASSUME NEW x \in Ids, NowIds' = NowIds \cup {x}, \A j \in NowIds : j < x
      PROVE  /\ DueIds \subseteq NowIds'
             /\ \A j \in NowIds' \ DueIds : \A i \in DueIds : i < j
             /\ \A i \in DueIds : PlaceOf(i, NowIds') = PlaceOf(i, NowIds)
  <2>1. \A j \in NowIds' \ DueIds : \A i \in DueIds : i < j
    BY <1>2, <1>5
  <2>2. ASSUME NEW i \in DueIds PROVE PlaceOf(i, NowIds') = PlaceOf(i, NowIds)
    <3>1. ~(x <= i)
      <4>1. i < x /\ i \in Ids
        BY <1>2, <1>5, <2>2 DEF DueIds
      <4> QED
        BY <4>1 DEF Ids
    <3>2. {j \in NowIds' : j <= i} = {j \in NowIds : j <= i}
      BY <3>1, <1>5
    <3> QED
      BY <3>2 DEF PlaceOf
  <2> QED
    BY <1>2, <1>5, <2>1, <2>2
<1>6. CASE t # h
  <2>1. rows'[h] = rows[h]
    <3>1. \E rs : rows' = [rows EXCEPT ![t] = rs]
      BY DEF Write
    <3>2. rows \in [Names -> SUBSET Row]
      BY DEF Source
    <3> QED
      BY <1>0, <1>6, <3>1, <3>2
  <2>2. NowIds' = NowIds
    BY <1>0, <2>1 DEF NowIds, Asked
  <2> QED
    BY <1>4, <2>2
<1>7. CASE t = h
  <2>0. /\ design[t].first = "key" /\ ~shifted' /\ \A r \in rows[t] : r.id \in Ids
        /\ \A r \in rows[t] : r.first = r.id
    <3>1. design[t].first = "key"
      BY <1>7 DEF Ordered
    <3>2. \A r \in rows[t] : r \in Row /\ Sound(design[t].first, r)
      BY DEF Source
    <3> QED
      BY <3>1, <3>2 DEF Sound, Row
  <2>1. ASSUME NEW x \in Fresh(t), rows' = [rows EXCEPT ![t] = @ \cup {x}],
               shifted' = (shifted \/ \E r \in rows[t] : x.first <= r.first)
        PROVE  x.id \in Ids /\ NowIds' = NowIds \cup {x.id} /\ \A j \in NowIds : j < x.id
    <3>1. rows'[h] = rows[h] \cup {x} /\ x.id \in Ids /\ x.new = TRUE /\ x.first = x.id
      <4>1. rows'[h] = rows[h] \cup {x}
        BY <1>7, <2>1 DEF Source
      <4>2. x.id \in Ids /\ x.new = TRUE /\ Sound(design[t].first, x)
        BY DEF Fresh
      <4> QED
        BY <2>0, <4>1, <4>2 DEF Sound
    <3>2. Asked(h)' = Asked(h) \cup {x}
      BY <1>0, <3>1 DEF Asked
    <3>3. NowIds' = NowIds \cup {x.id}
      BY <1>0, <3>1, <3>2 DEF NowIds, IdsOf
    <3>4. \A r \in rows[t] : ~(x.first <= r.first)
      BY <1>1, <2>0, <2>1
    <3>5. \A r \in rows[h] : r.id < x.id
      <4>1. \A r \in rows[h] : ~(x.id <= r.id) /\ r.id \in Ids
        BY <1>7, <2>0, <3>1, <3>4
      <4> QED
        BY <3>1, <4>1 DEF Ids
    <3> QED
      BY <3>1, <3>3, <3>5 DEF NowIds, IdsOf, Asked
  <2>2. ASSUME NEW r \in rows[t], NEW f \in Ids,
               rows' = [rows EXCEPT ![t] = (@ \ {r}) \cup {[r EXCEPT !.first = f, !.v = writes']}]
        PROVE  NowIds' = NowIds
    <3> DEFINE x == [r EXCEPT !.first = f, !.v = writes']
    <3>1. x.id = r.id /\ x.new = r.new
      <4>1. r \in Row
        BY DEF Source
      <4> QED
        BY <4>1 DEF Row
    <3>2. rows'[h] = (rows[h] \ {r}) \cup {x}
      BY <1>7, <2>2 DEF Source
    <3> HIDE DEF x
    <3>3. \A q \in Asked(h)' : \E s \in Asked(h) : s.id = q.id
      BY <1>0, <1>7, <3>1, <3>2, r \in rows[h] DEF Asked
    <3>4. \A s \in Asked(h) : \E q \in Asked(h)' : s.id = q.id
      BY <1>0, <1>7, <3>1, <3>2 DEF Asked
    <3>5. IdsOf(Asked(h)') = IdsOf(Asked(h))
      BY <3>3, <3>4 DEF IdsOf
    <3> QED
      BY <1>0, <3>5 DEF NowIds, IdsOf
  <2> QED
    BY <1>1, <1>4, <1>5, <2>1, <2>2 DEF Write
<1> QED
  BY <1>6, <1>7

\* A document is replaced by one of the same row.
LEMMA InsertKeeps ==
    ASSUME InsertBatch \/ InsertFails, KeysKept, NEW d \in documents, d.of \in Ordered
    PROVE  \E x \in documents' : x.of = d.of /\ x.id = d.id
<1>1. PICK ds \in SUBSET built : documents' = Replaced(ds) \/ documents' = documents \cup ds
  BY DEF InsertBatch, InsertFails, OneOfEach
<1>2. ASSUME NEW b \in built, SameId(d, b) PROVE b.of = d.of /\ b.id = d.id
  BY <1>2 DEF SameId, KeysKept, Ordered
<1> QED
  BY <1>1, <1>2 DEF Replaced

\* Whatever was built is there or given up.
LEMMA InsertDelivers ==
    ASSUME InsertBatch \/ InsertFails, KeysKept, NEW b \in built, b.of \in Ordered
    PROVE  <<b.of, b.id>> \in errors' \/ \E x \in documents' : x.of = b.of /\ x.id = b.id
<1>1. CASE InsertFails
  BY <1>1 DEF InsertFails
<1>2. CASE InsertBatch /\ incremental
  <2>1. PICK ds \in OneOfEach(built) : documents' = Replaced(ds)
    BY <1>2 DEF InsertBatch
  <2>2. PICK d \in ds : SameId(d, b) /\ d \in built
    BY <2>1 DEF OneOfEach
  <2>3. d.of = b.of /\ d.id = b.id
    BY <2>2 DEF SameId, KeysKept, Ordered
  <2> QED
    BY <2>1, <2>2, <2>3 DEF Replaced
<1>3. CASE InsertBatch /\ ~incremental
  BY <1>3 DEF InsertBatch
<1> QED
  BY <1>1, <1>2, <1>3

\* Ordered by their ids, the first n rows are those with the first n places.
LEMMA LeadingPlaces ==
    ASSUME NEW rs, \A r \in rs : r.id \in Ids /\ r.first = r.id,
           \A q, r \in rs : q.id = r.id => q = r, NEW n \in Nat, NEW ls \in Leading(n, rs),
           NEW r \in rs
    PROVE  r \in ls <=> Place(r, rs) <= n
<1> DEFINE is == IdsOf(rs)
           js == IdsOf(ls)
<1>1. /\ ls \subseteq rs
      /\ Cardinality(ls) = n \/ (ls = rs /\ Cardinality(rs) < n)
      /\ \A q \in ls : \A s \in rs \ ls : q.id <= s.id
  BY DEF Leading
<1>2. /\ IsFiniteSet(rs) /\ IsFiniteSet(ls) /\ Cardinality(ls) = Cardinality(js)
      /\ Cardinality(ls) \in Nat
  BY <1>1, CountById, FS_CardinalityType
<1>3. Place(r, rs) = PlaceOf(r.id, is) /\ Place(r, rs) \in Nat
  BY PlaceById
<1>4. is \in SUBSET Ids /\ js \in SUBSET is
  BY <1>1 DEF IdsOf
<1>5. ASSUME NEW j \in is \ js, NEW i \in js PROVE i < j
  <2>1. PICK q \in ls : q.id = i
    BY DEF IdsOf
  <2>2. PICK s \in rs : s.id = j
    BY DEF IdsOf
  <2>3. s \notin ls
    BY <1>5, <2>2 DEF IdsOf
  <2>4. i <= j /\ i # j /\ i \in Nat /\ j \in Nat
    BY <1>1, <1>4, <1>5, <2>1, <2>2, <2>3 DEF Ids
  <2> QED
    BY <2>4
<1>6. CASE r \in ls
  <2>1. r.id \in js
    BY <1>6 DEF IdsOf
  <2> HIDE DEF is, js
  <2>2. PlaceOf(r.id, is) <= Cardinality(js)
    BY <1>4, <1>5, <2>1, FirstPlaces
  <2> QED
    BY <1>1, <1>2, <1>3, <1>6, <2>2
<1>7. CASE r \notin ls
  <2> DEFINE upTo == {q \in rs : q.id <= r.id}
  <2>1. Cardinality(ls) = n
    BY <1>1, <1>7
  <2>2. r.id <= r.id
    BY DEF Ids
  <2>3. ls \cup {r} \in SUBSET upTo /\ upTo \in SUBSET rs
    BY <1>1, <1>7, <2>2
  <2>4. Place(r, rs) = Cardinality(upTo)
    BY DEF Place
  <2> HIDE DEF upTo
  <2>5. IsFiniteSet(upTo)
    BY <1>2, <2>3, FS_Subset
  <2>6. Cardinality(ls \cup {r}) = n + 1
    BY <1>2, <1>7, <2>1, FS_AddElement
  <2>7. n + 1 <= Place(r, rs)
    BY <2>3, <2>4, <2>5, <2>6, FS_Subset
  <2> QED
    BY <1>3, <1>7, <2>7
<1> QED
  BY <1>6, <1>7

\* A page of a table in the order of its key are the rows after the offset.
LEMMA PageByPlace ==
    ASSUME Source, Position, FetchPage, ~(offset >= total), offset \in Nat, Head(left) \in Ordered,
           NEW r \in Asked(Head(left)),
           Place(r, Asked(Head(left))) \in offset + 1 .. offset + BatchSize
    PROVE  r \in page'
<1> DEFINE all == Asked(Head(left))
<1>1. PICK passed \in Leading(offset, all) : \E through \in Leading(offset + BatchSize, all) :
         passed \subseteq through /\ page' = through \ passed
  BY DEF FetchPage
<1>2. PICK through \in Leading(offset + BatchSize, all) : page' = through \ passed
  BY <1>1
<1>3. Head(left) \in Names /\ design[Head(left)].first = "key"
  BY DEF Ordered
<1>4. /\ \A q \in all : q.id \in Ids /\ q.first = q.id
      /\ \A q, s \in all : q.id = s.id => q = s
  <2>1. \A q \in all : Sound(design[Head(left)].first, q)
    BY <1>3 DEF Source, Asked
  <2> QED
    BY <1>3, <2>1, AskedRows DEF Sound
<1>5. offset + BatchSize \in Nat /\ BatchSize \in Nat
  BY BoundsAssumption
<1> HIDE DEF all
<1>6. r \in passed <=> Place(r, all) <= offset
  BY <1>1, <1>4, LeadingPlaces DEF all
<1>7. r \in through <=> Place(r, all) <= offset + BatchSize
  BY <1>2, <1>4, <1>5, LeadingPlaces DEF all
<1> QED
  BY <1>2, <1>5, <1>6, <1>7 DEF all

LEMMA PagesInit == Init => PagesKept
BY DEF Init, PagesKept, Running, Busy, Done

LEMMA PagesStep ==
    ASSUME Source, Position, FreshDocuments, KeysKept, PagesKept, [Next]_vars
    PROVE  PagesKept'
<1> DEFINE h == Head(left)
<1>0. Ordered' = Ordered
  BY DesignStays, PlanStays
<1>1. left # <<>> => /\ h \in Names /\ ToSet(left) = {h} \cup ToSet(Tail(left)) /\ h \notin ToSet(Tail(left))
  BY HeadOrTail DEF Position
<1>2. CASE UNCHANGED <<pc, incremental, loop, outcome, documents, rows, shifted>>
  <2>1. /\ Uncounted' = Uncounted /\ NowIds' = NowIds /\ DueIds' = DueIds
        /\ Running' = Running /\ Done' = Done /\ Reading' = Reading
        /\ \A d : Delivered(d)' = Delivered(d)
    BY <1>2 DEF Uncounted, NowIds, Asked, DueIds, Running, Busy, Done, Reading, Delivered, loop, outcome
  <2> QED
    BY <1>0, <1>2, <2>1 DEF PagesKept, PlaceOf, IdsOf, loop, outcome
<1>3. CASE Start
  <2>1. read' = {} /\ due' = {} /\ pc' = "clear"
    BY <1>3 DEF Start
  <2> QED
    BY <1>0, <2>1 DEF PagesKept, Reading
<1>4. CASE RunFails
  <2>1. pc' = "ended" /\ result' = "failed" /\ UNCHANGED <<read, due>>
    BY <1>4 DEF RunFails, Exit
  <2> QED
    BY <1>0, <2>1 DEF PagesKept, Running, Busy, Done
<1>5. CASE Report
  <2>1. pc = "report" /\ pc' = "ended" /\ UNCHANGED <<read, due, documents, errors, shifted>>
    BY <1>5 DEF Report, Exit, outside
  <2>2. page = {} /\ built = {}
    BY <2>1 DEF Position
  <2>3. \A d : Delivered(d)' = Delivered(d)
    BY <2>1 DEF Delivered
  <2>4. Running /\ ~Reading /\ ~Reading' /\ Uncounted' = {}
    BY <2>1 DEF Running, Reading, Uncounted
  <2>5. \A d \in read : d[1] \in Ordered => Delivered(d)
    BY <2>2, <2>4 DEF PagesKept, IdsOf
  <2> QED
    BY <1>0, <2>1, <2>3, <2>4, <2>5 DEF PagesKept
<1>6. CASE ClearCollection
  <2>1. /\ pc = "clear" /\ UNCHANGED <<left, page, built, read, due, errors, shifted>>
        /\ page = {} /\ built = {} /\ Running /\ ~Reading /\ Uncounted = ToSet(left)
    BY <1>6 DEF ClearCollection, outside, loop, outcome, Position, Running, Reading, Uncounted
  <2>2. \A d \in read : d[1] \in Ordered => Delivered(d)
    BY <2>1 DEF PagesKept, IdsOf
  <2>3. CASE left = <<>>
    <3>1. pc' = "report" /\ UNCHANGED documents
      BY <1>6, <2>3 DEF ClearCollection
    <3>2. \A d : Delivered(d)' = Delivered(d)
      BY <2>1, <3>1 DEF Delivered
    <3>3. Uncounted' = {} /\ ~Reading'
      BY <3>1 DEF Uncounted, Reading
    <3> QED
      BY <1>0, <2>1, <2>2, <3>2, <3>3 DEF PagesKept
  <2>4. CASE left # <<>>
    <3>1. /\ pc' = "count"
          /\ documents' = IF incremental THEN documents ELSE {d \in documents : d.of # h}
      BY <1>6, <2>4 DEF ClearCollection
    <3>2. Uncounted' = ToSet(left) /\ ~Reading'
      BY <2>1, <3>1 DEF Uncounted, Reading
    <3>3. \A d \in read : d[1] # h
      BY <1>1, <2>1, <2>4 DEF PagesKept
    <3>4. \A d \in read : d[1] \in Ordered => Delivered(d)'
      BY <2>1, <2>2, <3>1, <3>3 DEF Delivered
    <3> QED
      BY <1>0, <2>1, <3>2, <3>4 DEF PagesKept
  <2> QED
    BY <2>3, <2>4
<1>7. CASE CountRows
  <2>1. /\ pc = "count" /\ pc' = "fetch" /\ left # <<>>
        /\ UNCHANGED <<left, page, built, read, errors, documents, incremental, rows, shifted>>
        /\ total' = Cardinality(Asked(h)) /\ offset' = 0
        /\ due' = due \cup {<<h, i>> : i \in NowIds}
        /\ page = {} /\ built = {} /\ Running /\ ~Reading /\ Reading'
    BY <1>7 DEF CountRows, outside, settings, Position, Running, Reading, Busy, NowIds
  <2>2. Uncounted = ToSet(left) /\ Uncounted' = ToSet(Tail(left))
    BY <2>1 DEF Uncounted, Reading
  <2>3. \A d \in read \cup due : d[1] # h /\ d[1] \notin ToSet(Tail(left))
    BY <1>1, <2>1, <2>2 DEF PagesKept
  <2>4. \A r \in Asked(h) : r.id \in Ids
    BY <1>1, <2>1, AskedRows
  <2>5. NowIds' = NowIds /\ NowIds \subseteq Ids
    BY <2>1, <2>4 DEF NowIds, Asked, IdsOf
  <2>6. DueIds' = NowIds
    <3>1. \A i \in Ids : <<h, i>> \notin due
      <4>1. \A i : <<h, i>>[1] = h
        OBVIOUS
      <4> QED
        BY <2>3, <4>1
    <3>2. \A i \in Ids : <<h, i>> \in due' <=> i \in NowIds
      BY <2>1, <3>1
    <3> QED
      BY <2>1, <2>5, <3>2 DEF DueIds
  <2>7. total' = Cardinality(NowIds)
    BY <1>1, <2>1, AskedRows, CountById DEF NowIds
  <2>8. \A i \in NowIds : PlaceOf(i, NowIds) # 0
    <3> SUFFICES ASSUME NEW r \in Asked(h) PROVE PlaceOf(r.id, NowIds) # 0
      BY DEF NowIds, IdsOf
    <3> QED
      BY <1>1, <2>1, AskedRows, PlaceById DEF NowIds
  <2>9. \A i \in NowIds : PlaceOf(i, NowIds) \in Nat
    <3> SUFFICES ASSUME NEW r \in Asked(h) PROVE PlaceOf(r.id, NowIds) \in Nat
      BY DEF NowIds, IdsOf
    <3> QED
      BY <1>1, <2>1, AskedRows, PlaceById DEF NowIds
  <2>10. \A i \in NowIds : ~(PlaceOf(i, NowIds) <= offset')
    BY <2>1, <2>8, <2>9
  <2>11. \A d : Delivered(d)' = Delivered(d)
    BY <2>1 DEF Delivered
  <2>12. \A d \in due' : d \in due \/ (d[1] = h /\ d \in Names \X Ids)
    BY <1>1, <2>1, <2>5
  <2>13. \A j \in NowIds' \ DueIds' : FALSE
    BY <2>5, <2>6
  <2>14. /\ read' \cup due' \subseteq Names \X Ids
         /\ \A d \in read' \cup due' : d[1] \notin Uncounted'
         /\ \A d \in read' : d[1] \in Ordered => Delivered(d)'
         /\ ~shifted' => \A d \in due' : d[1] \in Ordered => d \in read' \/ d[1] = h'
    BY <1>1, <2>1, <2>2, <2>3, <2>11, <2>12 DEF PagesKept, IdsOf
  <2>15. /\ DueIds' \subseteq NowIds' /\ total' = Cardinality(DueIds') /\ offset' \in Nat
         /\ \A i \in DueIds' : ~(PlaceOf(i, NowIds)' <= offset')
    <3>1. \A i : PlaceOf(i, NowIds)' = PlaceOf(i, NowIds)
      BY <2>5 DEF PlaceOf
    <3> QED
      BY <2>1, <2>5, <2>6, <2>7, <2>10, <3>1
  <2> QED
    BY <1>0, <2>1, <2>13, <2>14, <2>15 DEF PagesKept
<1>8. CASE FetchPage
  <2>1. /\ pc = "fetch" /\ left # <<>> /\ page = {} /\ built = {} /\ built' = {} /\ Running /\ Reading
        /\ UNCHANGED <<due, errors, documents, incremental, rows, shifted, total>>
        /\ Uncounted = ToSet(Tail(left))
    BY <1>8 DEF FetchPage, outside, settings, Position, Running, Reading, Busy, Uncounted
  <2>2. \A d : Delivered(d)' = Delivered(d)
    BY <2>1 DEF Delivered
  <2>3. \A d \in read : d[1] \in Ordered => Delivered(d)
    BY <2>1 DEF PagesKept, IdsOf
  <2>4. \A r \in Asked(h) : r.id \in Ids /\ Place(r, Asked(h)) = PlaceOf(r.id, NowIds) /\ Place(r, Asked(h)) \in Nat
    BY <1>1, <2>1, AskedRows, PlaceById DEF NowIds
  <2>5. CASE offset >= total
    <3>1. pc' = "clear" /\ left' = Tail(left) /\ UNCHANGED <<offset, page, read>>
      BY <1>8, <2>5 DEF FetchPage
    <3>2. Uncounted' = ToSet(Tail(left)) /\ ~Reading'
      BY <3>1 DEF Uncounted, Reading
    <3>3. ASSUME ~shifted, NEW d \in due, d[1] \in Ordered PROVE d \in read
      <4>1. CASE d[1] # h
        BY <2>1, <3>3, <4>1 DEF PagesKept
      <4>2. CASE d[1] = h
        <5>1. d = <<h, d[2]>> /\ d[2] \in Ids
          BY <4>2, <3>3 DEF PagesKept
        <5>2. d[2] \in DueIds
          BY <3>3, <5>1 DEF DueIds
        <5>3. /\ DueIds \in SUBSET NowIds /\ total = Cardinality(DueIds) /\ offset \in Nat
              /\ \A j \in NowIds \ DueIds : \A i \in DueIds : i < j
              /\ \A i \in DueIds : PlaceOf(i, NowIds) <= offset => <<h, i>> \in read
          BY <2>1, <3>3, <4>2 DEF PagesKept
        <5>4. NowIds \in SUBSET Ids
          BY <2>4 DEF NowIds, IdsOf
        <5>5. PlaceOf(d[2], NowIds) <= total
          BY <5>2, <5>3, <5>4, FirstPlaces
        <5>6. PlaceOf(d[2], NowIds) \in Nat /\ total \in Nat
          <6>1. PICK r \in Asked(h) : r.id = d[2]
            BY <5>2, <5>3 DEF NowIds, IdsOf
          <6>2. IsFiniteSet(DueIds)
            BY <5>3, <5>4, Interval, FS_Subset, BoundsAssumption, DueIds \in SUBSET Ids DEF Ids
          <6> QED
            BY <2>4, <5>3, <6>1, <6>2, FS_CardinalityType
        <5>7. PlaceOf(d[2], NowIds) <= offset
          BY <2>5, <5>3, <5>5, <5>6
        <5> QED
          BY <5>1, <5>2, <5>3, <5>7
      <4> QED
        BY <4>1, <4>2
    <3> QED
      BY <1>0, <2>1, <2>2, <2>3, <3>1, <3>2, <3>3 DEF PagesKept
  <2>6. CASE ~(offset >= total)
    <3>1. /\ pc' = "build" /\ UNCHANGED left
          /\ page' \subseteq Asked(h)
          /\ read' = read \cup {<<h, i>> : i \in IdsOf(page')}
          /\ offset' = offset + BatchSize
      BY <1>8, <2>6, PageFromTable
    <3>2. Uncounted' = Uncounted /\ Reading' /\ NowIds' = NowIds /\ DueIds' = DueIds /\ h' = h
      BY <2>1, <3>1 DEF Uncounted, Reading, NowIds, Asked, IdsOf, DueIds
    <3>3. ASSUME NEW d \in read', d \notin read
          PROVE  d = <<h, d[2]>> /\ d[1] = h /\ d[2] \in IdsOf(page') /\ d[2] \in Ids
      <4>1. PICK r \in page' : d = <<h, r.id>>
        BY <3>1, <3>3 DEF IdsOf
      <4>2. r.id \in Ids
        BY <2>4, <3>1
      <4> QED
        BY <4>1, <4>2 DEF IdsOf
    <3>4. read' \subseteq Names \X Ids /\ read \subseteq read'
      <4>1. read \subseteq read' /\ h \in Names
        BY <1>1, <2>1, <3>1
      <4>2. ASSUME NEW d \in read' PROVE d \in Names \X Ids
        <5>1. CASE d \in read
          BY <5>1 DEF PagesKept
        <5>2. CASE d \notin read
          BY <4>1, <5>2, <3>3
        <5> QED
          BY <5>1, <5>2
      <4> QED
        BY <4>1, <4>2
    <3>5. \A d \in read' \cup due : d[1] \notin Uncounted
      BY <1>1, <2>1, <3>3 DEF PagesKept
    <3>6. ASSUME ~shifted, h \in Ordered, NEW i \in DueIds, PlaceOf(i, NowIds) <= offset + BatchSize
          PROVE  <<h, i>> \in read'
      <4>1. /\ DueIds \subseteq NowIds /\ offset \in Nat
            /\ (PlaceOf(i, NowIds) <= offset => <<h, i>> \in read)
        BY <2>1, <3>6 DEF PagesKept
      <4>2. PICK r \in Asked(h) : r.id = i
        BY <4>1 DEF NowIds, IdsOf
      <4>3. Place(r, Asked(h)) = PlaceOf(i, NowIds) /\ Place(r, Asked(h)) \in Nat
        BY <2>4, <4>2
      <4>4. CASE PlaceOf(i, NowIds) <= offset
        BY <4>1, <4>4, <3>4
      <4>5. CASE ~(PlaceOf(i, NowIds) <= offset)
        <5>1. Place(r, Asked(h)) \in offset + 1 .. offset + BatchSize
          BY <4>1, <4>3, <4>5, <3>6, BoundsAssumption
        <5>2. r \in page'
          BY <1>8, <2>6, <3>6, <4>1, <5>1, PageByPlace
        <5> QED
          BY <3>1, <4>2, <5>2 DEF IdsOf
      <4> QED
        BY <4>4, <4>5
    <3>7. ~shifted => \A d \in due : d[1] \in Ordered => d \in read' \/ d[1] = h
      BY <2>1, <3>4 DEF PagesKept
    <3>8. \A i : PlaceOf(i, NowIds)' = PlaceOf(i, NowIds)
      BY <3>2 DEF PlaceOf
    <3>9. \A d \in read' : d[1] \in Ordered => Delivered(d) \/ (d[1] = h /\ d[2] \in IdsOf(page') \cup IdsOf(built'))
      BY <2>3, <3>3
    <3>10. due \subseteq Names \X Ids
      BY DEF PagesKept
    <3>11. ~shifted /\ h \in Ordered => \A i \in DueIds : PlaceOf(i, NowIds) <= offset' => <<h, i>> \in read'
      BY <3>1, <3>6
    <3>12. IdsOf(page)' = IdsOf(page') /\ IdsOf(built)' = IdsOf(built')
      BY DEF IdsOf
    <3>13. ~shifted /\ h \in Ordered =>
                      /\ DueIds \subseteq NowIds /\ total = Cardinality(DueIds) /\ offset' \in Nat
                      /\ \A j \in NowIds \ DueIds : \A i \in DueIds : i < j
      BY <2>1, <3>1, <3>4, BoundsAssumption DEF PagesKept
    <3> QED
      BY <1>0, <2>1, <2>2, <3>2, <3>4, <3>5, <3>7, <3>8, <3>9, <3>10, <3>11, <3>12, <3>13 DEF PagesKept
  <2> QED
    BY <2>5, <2>6
<1>9. CASE BuildDocument
  <2>1. /\ pc = "build" /\ Running /\ Reading
        /\ UNCHANGED <<left, total, offset, read, due, documents, incremental, rows, shifted>>
    BY <1>9 DEF BuildDocument, outside, settings, Running, Busy, Reading
  <2>2. pc' \in {"build", "fetch", "insert"}
    BY <1>9 DEF BuildDocument
  <2>3. /\ Uncounted' = Uncounted /\ Reading' /\ NowIds' = NowIds /\ DueIds' = DueIds /\ h' = h
    BY <2>1, <2>2 DEF Uncounted, Reading, NowIds, Asked, IdsOf, DueIds
  <2>4. ASSUME NEW d \in read, d[1] \in Ordered
        PROVE  Delivered(d)' \/ (d[1] = h /\ d[2] \in IdsOf(page') \cup IdsOf(built'))
    <3>1. Delivered(d) \/ (d[1] = h /\ d[2] \in IdsOf(page) \cup IdsOf(built))
      BY <2>1, <2>4 DEF PagesKept
    <3>2. errors \subseteq errors' /\ built \subseteq built'
      BY <1>9 DEF BuildDocument
    <3>3. Delivered(d) => Delivered(d)'
      BY <2>1, <3>2 DEF Delivered
    <3>4. ASSUME NEW r \in page, r.id = d[2], d[1] = h
          PROVE  r \in page' \/ r.id \in IdsOf(built') \/ d \in errors'
      <4>1. page # {}
        BY <3>4
      <4>2. PICK q \in page : /\ page' = page \ {q}
                              /\ BuiltOf(h, q) \/ errors' = errors \cup {<<h, q.id>>}
        BY <1>9, <4>1, BuildsOne
      <4>3. d = <<d[1], d[2]>>
        BY DEF PagesKept
      <4>4. CASE q # r
        BY <4>2, <4>4
      <4>5. CASE q = r
        <5>1. BuiltOf(h, q) => r.id \in IdsOf(built')
          BY <4>5 DEF BuiltOf, IdsOf
        <5>2. errors' = errors \cup {<<h, q.id>>} => d \in errors'
          BY <3>4, <4>3, <4>5
        <5> QED
          BY <4>2, <5>1, <5>2
      <4> QED
        BY <4>4, <4>5
    <3>5. IdsOf(built) \subseteq IdsOf(built')
      BY <3>2 DEF IdsOf
    <3> QED
      BY <3>1, <3>3, <3>4, <3>5 DEF IdsOf, Delivered
  <2>5. \A i : PlaceOf(i, NowIds)' = PlaceOf(i, NowIds)
    BY <2>3 DEF PlaceOf
  <2>6. IdsOf(page)' = IdsOf(page') /\ IdsOf(built)' = IdsOf(built')
    BY DEF IdsOf
  <2> QED
    BY <1>0, <2>1, <2>3, <2>4, <2>5, <2>6 DEF PagesKept
<1>10. CASE InsertBatch \/ InsertFails
  <2>1. /\ pc = "insert" /\ pc' = "fetch" /\ Running /\ Reading /\ page = {}
        /\ UNCHANGED <<left, total, offset, read, due, incremental, rows, shifted>>
    BY <1>10 DEF InsertBatch, InsertFails, outside, settings, Running, Busy, Reading, Position
  <2>2. /\ Uncounted' = Uncounted /\ Reading' /\ NowIds' = NowIds /\ DueIds' = DueIds /\ h' = h
    BY <2>1 DEF Uncounted, Reading, NowIds, Asked, IdsOf, DueIds
  <2>3. ASSUME NEW d \in read, d[1] \in Ordered PROVE Delivered(d)'
    <3>1. CASE Delivered(d)
      <4>1. errors \subseteq errors'
        BY <1>10 DEF InsertBatch, InsertFails
      <4>2. \A x \in documents : x.of = d[1] => \E y \in documents' : y.of = x.of /\ y.id = x.id
        BY <1>10, <2>3, InsertKeeps
      <4> QED
        BY <3>1, <4>1, <4>2 DEF Delivered
    <3>2. CASE ~Delivered(d)
      <4>1. PICK b \in built : b.id = d[2] /\ d[1] = h
        BY <2>1, <2>3, <3>2 DEF PagesKept, IdsOf
      <4>2. b.of = h /\ d = <<h, b.id>>
        <5>1. b.of = h
          BY DEF FreshDocuments
        <5>2. d \in Names \X Ids
          BY DEF PagesKept
        <5> QED
          BY <4>1, <5>1, <5>2
      <4>3. <<b.of, b.id>> \in errors' \/ \E x \in documents' : x.of = b.of /\ x.id = b.id
        BY <1>10, <2>3, <4>1, <4>2, InsertDelivers
      <4> QED
        BY <4>1, <4>2, <4>3 DEF Delivered
    <3> QED
      BY <3>1, <3>2
  <2>4. \A i : PlaceOf(i, NowIds)' = PlaceOf(i, NowIds)
    BY <2>2 DEF PlaceOf
  <2> QED
    BY <1>0, <2>1, <2>2, <2>3, <2>4 DEF PagesKept
<1>11. ASSUME NEW t \in Names, Write(t) PROVE PagesKept'
  <2>1. UNCHANGED <<pc, incremental, loop, outcome, documents>>
    BY <1>11 DEF Write
  <2>2. /\ Uncounted' = Uncounted /\ DueIds' = DueIds
        /\ Running' = Running /\ Done' = Done /\ Reading' = Reading
        /\ \A d : Delivered(d)' = Delivered(d)
    BY <2>1 DEF Uncounted, DueIds, Running, Busy, Done, Reading, Delivered, loop, outcome
  <2>3. Reading => Running
    BY DEF Reading, Running, Busy
  <2>4. Reading /\ ~shifted' /\ h \in Ordered =>
            /\ ~shifted /\ DueIds \subseteq NowIds'
            /\ \A j \in NowIds' \ DueIds : \A i \in DueIds : i < j
            /\ \A i \in DueIds : PlaceOf(i, NowIds') <= offset => PlaceOf(i, NowIds) <= offset
    BY <1>11, <2>3, PlacesUnderWrites
  <2>5. \A i : PlaceOf(i, NowIds)' = PlaceOf(i, NowIds')
    BY DEF PlaceOf
  <2>6. IdsOf(page)' = IdsOf(page) /\ IdsOf(built)' = IdsOf(built)
    BY <2>1 DEF IdsOf, loop
  <2>7. /\ read' \cup due' \subseteq Names \X Ids
        /\ Running' \/ Done' =>
             /\ \A d \in read' \cup due' : d[1] \notin Uncounted'
             /\ \A d \in read' : d[1] \in Ordered =>
                   \/ Delivered(d)'
                   \/ d[1] = h' /\ d[2] \in IdsOf(page)' \cup IdsOf(built)'
             /\ ~shifted' => \A d \in due' : d[1] \in Ordered =>
                                d \in read' \/ (Reading' /\ d[1] = h')
    <3>1. ASSUME ~shifted' PROVE ~shifted
      BY <1>11, <3>1 DEF Write
    <3> QED
      BY <1>0, <2>1, <2>2, <2>6, <3>1 DEF PagesKept, loop, outcome
  <2>8. Reading' /\ ~shifted' /\ h' \in Ordered =>
            /\ DueIds' \subseteq NowIds' /\ total' = Cardinality(DueIds') /\ offset' \in Nat
            /\ \A j \in NowIds' \ DueIds' : \A i \in DueIds' : i < j
            /\ \A i \in DueIds' : PlaceOf(i, NowIds)' <= offset' => <<h', i>> \in read'
    BY <2>1, <2>2, <2>3, <2>4, <2>5 DEF PagesKept, loop, outcome
  <2> QED
    BY <1>0, <2>7, <2>8 DEF PagesKept
<1> QED
  BY <1>2, <1>3, <1>4, <1>5, <1>6, <1>7, <1>8, <1>9, <1>10, <1>11 DEF Next, Run, Finished, vars

\* No page of a table in the order of its key is missed: whatever was there when it was
\* counted is in the target or among the errors, unless rows were deleted or put before
\* others meanwhile (postgres-to-mongo.engine.ts:95-106, 150).
THEOREM NoPageMissed == Spec => []PagesComplete
<1> DEFINE Inv == Source /\ Position /\ FreshDocuments /\ KeysKept /\ PagesKept
<1>1. Init => Inv
  BY SourceInit, PositionInit, FreshInit, KeysInit, PagesInit
<1>2. Inv /\ [Next]_vars => Inv'
  BY SourceStep, PositionStep, FreshStep, KeysStep, PagesStep
<1>3. Inv => PagesComplete
  <2> SUFFICES ASSUME Inv, Done, ~shifted, NEW d \in due, d[1] \in Ordered
               PROVE  d \in read /\ (d \in errors \/ There(d[1], d[2]))
    BY DEF PagesComplete
  <2>1. page = {} /\ built = {} /\ ~Reading
    BY DEF Done, Position, Reading
  <2>2. d \in read /\ Delivered(d)
    BY <2>1 DEF PagesKept, IdsOf
  <2> QED
    BY <2>2 DEF Delivered, There
<1> QED
  BY <1>1, <1>2, <1>3, PTL DEF Spec

(***************************************************************************)
(* What has a place is there.                                              *)
(***************************************************************************)

\* While nobody writes, the rows of a counted table are the ones that were counted, and
\* a document has the parts that its row has.
QuietRun ==
    /\ quiet => ~shifted
    /\ Done /\ result = "success" => errors = {}
    /\ quiet /\ ~incremental /\ (Running \/ Done) =>
         /\ \A t \in ToSet(Mapped) \ Uncounted : \A r \in rows[t] : <<t, r.id>> \in due
         /\ \A d \in documents : d.of \in Uncleared \/ d.parts \in Parts(d.of, d.id)
         /\ \A b \in built : b.parts \in Parts(b.of, b.id)

LEMMA PartsStay ==
    ASSUME UNCHANGED <<design, rows>>, NEW t, NEW i
    PROVE  Parts(t, i)' = Parts(t, i)
<1>1. \A e : Found(e, i)' = Found(e, i)
  BY DEF Found
<1>2. \A e : Assigns(e, i)' = Assigns(e, i)
  BY <1>1, PlanStays DEF Assigns
<1>3. /\ Embedded(t)' = Embedded(t) /\ Linked(t)' = Linked(t)
      /\ \A u : Field(u, t)' = Field(u, t)
      /\ \A e : IsArray(e)' = IsArray(e)
  BY PlanStays
<1>4. Shown(t, i)' = Shown(t, i)
  BY <1>2, <1>3 DEF Shown
<1>5. \A e : IdsOf(Found(e, i))' = IdsOf(Found(e, i))
  BY <1>1 DEF IdsOf
<1> DEFINE pairs == {{e[1]} \X IdsOf(Found(e, i)) : e \in Shown(t, i)}
           in(e, ps) == {p[2] : p \in {q \in ps : q[1] = e[1]}}
           right(e, ps) == IF IsArray(e) THEN in(e, ps) = IdsOf(Found(e, i))
                           ELSE \E x \in Ids : in(e, ps) = {x}
<1>6. pairs' = pairs
  BY <1>4, <1>5
<1>7. \A e, ps : right(e, ps)' = right(e, ps)
  BY <1>3, <1>5
<1>8. Parts(t, i) = {ps \in SUBSET UNION pairs : \A e \in Shown(t, i) : right(e, ps)}
  BY DEF Parts
<1>9. Parts(t, i)' = {ps \in SUBSET UNION pairs' : \A e \in Shown(t, i)' : right(e, ps)'}
  BY DEF Parts
<1> HIDE DEF pairs, right
<1> QED
  BY <1>4, <1>6, <1>7, <1>8, <1>9

LEMMA QuietInit == Init => QuietRun
BY DEF Init, QuietRun, Running, Busy, Done

LEMMA QuietStep ==
    ASSUME Source, Position, FreshDocuments, QuietRun, [Next]_vars
    PROVE  QuietRun'
<1> DEFINE h == Head(left)
<1>1. left # <<>> => ToSet(left) = {h} \cup ToSet(Tail(left)) /\ h \notin ToSet(Tail(left))
  BY HeadOrTail DEF Position
<1>2. ToSet(Mapped') = ToSet(Mapped)
  <2>1. Mapped' = Mapped
    BY DesignStays, PlanStays
  <2> QED
    BY <2>1
<1>3. CASE UNCHANGED vars
  <2>1. \A t, i : Parts(t, i)' = Parts(t, i)
    BY <1>3, PartsStay DEF vars
  <2>2. Running' = Running /\ Done' = Done /\ Uncounted' = Uncounted /\ Uncleared' = Uncleared
    BY <1>3 DEF Running, Busy, Done, Uncounted, Uncleared, Reading, vars, loop, outcome
  <2> QED
    BY <1>2, <1>3, <2>1, <2>2 DEF QuietRun, vars, loop, outcome
<1>4. ASSUME NEW t \in Names, Write(t) PROVE QuietRun'
  <2>1. quiet' = FALSE /\ UNCHANGED <<pc, outcome>>
    BY <1>4 DEF Write
  <2> QED
    BY <2>1 DEF QuietRun, Done, outcome
<1>5. CASE Start
  <2>1. /\ pc' = "clear" /\ left' = Mapped /\ UNCHANGED <<built, documents>> /\ ~shifted'
        /\ built = {}
    BY <1>5 DEF Start, Position
  <2>2. Uncounted' = ToSet(Mapped) /\ Uncleared' = ToSet(Mapped) /\ ~Done'
    BY <2>1 DEF Uncounted, Uncleared, Done
  <2>3. \A d \in documents : d.of \in ToSet(Mapped)
    BY DEF FreshDocuments
  <2> QED
    BY <1>2, <2>1, <2>2, <2>3 DEF QuietRun

<1>6. ASSUME Run PROVE UNCHANGED <<design, rows, quiet, shifted, incremental>>
  BY <1>6 DEF Run, RunFails, ClearCollection, CountRows, FetchPage, BuildDocument, InsertBatch,
              InsertFails, Report, outside, settings
<1>7. ASSUME Run PROVE \A t, i : Parts(t, i)' = Parts(t, i)
  BY <1>6, <1>7, PartsStay
<1>8. CASE RunFails
  <2>1. pc' = "ended" /\ result' = "failed" /\ UNCHANGED <<quiet, shifted>>
    BY <1>8 DEF RunFails, Exit, outside
  <2> QED
    BY <2>1 DEF QuietRun, Done, Running, Busy
<1>9. CASE Report
  <2>1. /\ pc = "report" /\ pc' = "ended" /\ UNCHANGED <<documents, errors, due>>
        /\ result' = (IF errors = {} THEN "success" ELSE "issues")
        /\ built' = {} /\ left' = <<>>
    BY <1>9 DEF Report, Exit
  <2>2. /\ Running /\ Uncounted = {} /\ Uncounted' = {} /\ Uncleared = {} /\ Uncleared' = {}
    BY <2>1 DEF Running, Uncounted, Uncleared, Reading, Busy
  <2>3. Run
    BY <1>9 DEF Run
  <2> QED
    BY <1>2, <1>6, <1>7, <2>1, <2>2, <2>3 DEF QuietRun
<1>10. CASE ClearCollection
  <2>1. /\ pc = "clear" /\ pc' = (IF left = <<>> THEN "report" ELSE "count")
        /\ UNCHANGED <<left, built, due>> /\ Running
    BY <1>10 DEF ClearCollection, loop, outcome, Running
  <2>2. Run
    BY <1>10 DEF Run
  <2>3. Uncounted' = Uncounted /\ ~Done'
    BY <2>1, EmptySet DEF Uncounted, Reading, Done
  <2>4. CASE incremental
    BY <1>6, <2>2, <2>3, <2>4 DEF QuietRun
  <2>5. CASE ~incremental /\ left = <<>>
    <3>1. UNCHANGED documents /\ Uncleared' = {} /\ Uncleared = {}
      BY <1>10, <2>1, <2>5, EmptySet DEF ClearCollection, Uncleared, Busy
    <3> QED
      BY <1>2, <1>6, <1>7, <2>1, <2>2, <2>3, <3>1 DEF QuietRun
  <2>6. CASE ~incremental /\ left # <<>>
    <3>1. /\ documents' = {d \in documents : d.of # h}
          /\ Uncleared = ToSet(left) /\ Uncleared' = ToSet(Tail(left))
      BY <1>10, <2>1, <2>6 DEF ClearCollection, Uncleared, Busy
    <3>2. \A d \in documents' : d \in documents /\ (d.of \in Uncleared' \/ d.of \notin Uncleared)
      BY <1>1, <2>6, <3>1
    <3> QED
      BY <1>2, <1>6, <1>7, <2>1, <2>2, <2>3, <3>2 DEF QuietRun
  <2> QED
    BY <2>4, <2>5, <2>6
<1>11. CASE CountRows
  <2>1. /\ pc = "count" /\ pc' = "fetch" /\ left # <<>> /\ Running
        /\ UNCHANGED <<left, built, documents>>
        /\ due' = due \cup {<<h, i>> : i \in IdsOf(Asked(h))}
    BY <1>11 DEF CountRows, Position, Running, Busy
  <2>2. Run
    BY <1>11 DEF Run
  <2>3. /\ Uncounted = ToSet(left) /\ Uncounted' = ToSet(Tail(left)) /\ Uncleared' = Uncleared /\ ~Done'
    BY <2>1 DEF Uncounted, Uncleared, Reading, Busy, Done
  <2>4. ~incremental => \A r \in rows[h] : <<h, r.id>> \in due'
    BY <2>1 DEF Asked, IdsOf
  <2>5. \A t : t \notin Uncounted' => t \notin Uncounted \/ t = h
    BY <1>1, <2>1, <2>3
  <2> QED
    BY <1>2, <1>6, <1>7, <2>1, <2>2, <2>3, <2>4, <2>5 DEF QuietRun
<1>12. CASE FetchPage
  <2>1. /\ pc = "fetch" /\ left # <<>> /\ Running /\ built' = {} /\ UNCHANGED <<documents, due>>
    BY <1>12 DEF FetchPage, Position, Running, Busy
  <2>2. Run
    BY <1>12 DEF Run
  <2>3. \/ pc' = "clear" /\ left' = Tail(left)
        \/ pc' = "build" /\ UNCHANGED left
    BY <1>12 DEF FetchPage
  <2>4. Uncounted' = Uncounted /\ Uncleared' = Uncleared /\ ~Done'
    BY <2>1, <2>3 DEF Uncounted, Uncleared, Reading, Busy, Done
  <2> QED
    BY <1>2, <1>6, <1>7, <2>1, <2>2, <2>4 DEF QuietRun
<1>13. CASE BuildDocument
  <2>1. pc = "build" /\ left # <<>> /\ Running /\ UNCHANGED <<left, documents, due>>
    BY <1>13 DEF BuildDocument, Position, Running, Busy
  <2>2. Run
    BY <1>13 DEF Run
  <2>3. pc' \in {"build", "fetch", "insert"}
    BY <1>13 DEF BuildDocument
  <2>4. Uncounted' = Uncounted /\ Uncleared' = Uncleared /\ ~Done'
    BY <2>1, <2>3 DEF Uncounted, Uncleared, Reading, Busy, Done
  <2>5. \A b \in built' : b \in built \/ b.parts \in Parts(b.of, b.id)
    <3>1. CASE page = {}
      BY <1>13, <3>1 DEF BuildDocument
    <3>2. CASE page # {}
      <4>1. PICK r \in page : BuiltOf(h, r) \/ UNCHANGED built
        BY <1>13, <3>2, BuildsOne
      <4> QED
        BY <4>1 DEF BuiltOf
    <3> QED
      BY <3>1, <3>2
  <2> QED
    BY <1>2, <1>6, <1>7, <2>1, <2>2, <2>4, <2>5 DEF QuietRun
<1>14. CASE InsertBatch \/ InsertFails
  <2>1. /\ pc = "insert" /\ pc' = "fetch" /\ left # <<>> /\ Running /\ built' = {}
        /\ UNCHANGED <<left, due>>
    BY <1>14 DEF InsertBatch, InsertFails, Position, Running, Busy
  <2>2. Run
    BY <1>14 DEF Run
  <2>3. Uncounted' = Uncounted /\ Uncleared' = Uncleared /\ ~Done'
    BY <2>1 DEF Uncounted, Uncleared, Reading, Busy, Done
  <2>4. documents' \subseteq documents \cup built
    BY <1>14, Inserted
  <2> QED
    BY <1>2, <1>6, <1>7, <2>1, <2>2, <2>3, <2>4 DEF QuietRun
<1> QED
  BY <1>3, <1>4, <1>5, <1>8, <1>9, <1>10, <1>11, <1>12, <1>13, <1>14 DEF Next, Run, Finished

\* Of two keys at most one comes before the other.
LEMMA BeforeOrder ==
    ASSUME Source, NEW e \in ForeignKeys, NEW f \in ForeignKeys, e = f \/ Before(f, e)
    PROVE  ~Before(e, f)
<1>1. \A u \in Names : Rank(u) \in Nat
  <2> TAKE u \in Names
  <2>1. \E i \in DOMAIN Tables : Tables[i] = u
    BY DEF Names, ToSet
  <2>2. DOMAIN Tables \subseteq Nat
    BY TablesAssumption
  <2> QED
    BY <2>1, <2>2 DEF Rank
<1>2. e[1] \in Names /\ f[1] \in Names /\ e[2] \in Nat /\ f[2] \in Nat
  <2>1. \A u \in Names : DOMAIN KeysOf(u) \subseteq Nat
    BY SchemaTypes
  <2> QED
    BY <2>1 DEF ForeignKeys
<1> QED
  BY <1>1, <1>2 DEF Before

\* What is embedded in u refers to it.
LEMMA EmbeddedRefers ==
    ASSUME Source, NEW u, NEW f \in Embedded(u)
    PROVE  f \in ForeignKeys /\ f[1] \in Names /\ KeysOf(f[1])[f[2]].to = u
<1>1. f \in ForeignKeys /\ f[1] \in Names
  BY DEF Embedded, ForeignKeys
<1>2. CASE f[1] \notin Junctions
  BY <1>1, <1>2 DEF Embedded
<1>3. CASE f[1] \in Junctions
  <2> DEFINE to == {k \in DOMAIN KeysOf(f[1]) : KeysOf(f[1])[k].to = u}
  <2>1. u \in {k.to : k \in ToSet(KeysOf(f[1]))} /\ f[2] = Along(f[1], u)
    BY <1>3 DEF Embedded
  <2>2. DOMAIN KeysOf(f[1]) = 1..2
    <3>1. Len(KeysOf(f[1])) = 2
      BY <1>3 DEF Junctions
    <3> QED
      BY <1>1, <3>1, SchemaTypes
  <2>3. to # {} /\ to \subseteq 1..2
    BY <2>1, <2>2 DEF ToSet
  <2>4. \E x \in to : \A y \in to : x <= y
    BY <2>3
  <2>5. Min(to) \in to
    BY <2>4 DEF Min
  <2> QED
    BY <1>1, <2>1, <2>5 DEF Along
<1> QED
  BY <1>2, <1>3

\* The plan embeds the rows of a table along the keys that HasPlace names, and nothing
\* takes their place in the document.
LEMMA PlaceMeansEmbedded ==
    ASSUME Source, NEW t \in Names, NEW r \in rows[t], HasPlace(t, r),
           t \notin ToSet(Mapped) \cap Ordered
    PROVE  \E u \in ToSet(Mapped) \cap Ordered : \E p \in rows[u] :
              \A ps \in Parts(u, p.id) : <<t, r.id>> \in ps
<1>1. PICK k \in DOMAIN KeysOf(t) :
          /\ KeysOf(t)[k].to \in ToSet(Mapped) \cap Ordered /\ r.refs[k] # NoRow
          /\ IF t \in Junctions
             THEN k = Along(t, KeysOf(t)[k].to) /\ KeysOf(t)[1].to # KeysOf(t)[2].to
                  /\ ~(design[t].plain = 0 /\ design[OtherSide(t, KeysOf(t)[k].to)].narrow)
             ELSE IF KeysOf(t)[k].unique THEN KeysOf(t)[k].alone ELSE ~design[t].large
          /\ LastToWrite(<<t, k>>, KeysOf(t)[k].to)
  BY DEF HasPlace
<1> DEFINE u == KeysOf(t)[k].to
           e == <<t, k>>
<1>2. PICK p \in rows[u] : p.id = r.refs[k]
  BY <1>1 DEF Source
<1>3. e \in ForeignKeys
  BY DEF ForeignKeys
<1>4. e[1] = t /\ e[2] = k
  OBVIOUS
<1>5. e \in Embedded(u)
  <2>1. CASE t \in Junctions
    <3>1. u \in {q.to : q \in ToSet(KeysOf(t))}
      BY DEF ToSet
    <3>2. Others(t, u) # {}
      <4>1. Len(KeysOf(t)) = 2
        BY <2>1 DEF Junctions
      <4>2. DOMAIN KeysOf(t) = 1..2
        BY <4>1, SchemaTypes
      <4>3. 1 \in DOMAIN KeysOf(t) /\ 2 \in DOMAIN KeysOf(t)
        BY <4>2
      <4>4. KeysOf(t)[1].to # u \/ KeysOf(t)[2].to # u
        BY <1>1, <2>1
      <4> HIDE DEF u
      <4> QED
        BY <4>3, <4>4 DEF Others
    <3>3. k = Along(t, u) /\ ~(design[t].plain = 0 /\ design[OtherSide(t, u)].narrow)
      BY <1>1, <2>1
    <3> HIDE DEF e, u
    <3> QED
      BY <1>3, <1>4, <2>1, <3>1, <3>2, <3>3 DEF Embedded
  <2>2. CASE t \notin Junctions
    <3>1. KeysOf(t)[k].unique \/ ~design[t].large
      BY <1>1, <2>2
    <3> HIDE DEF e
    <3> QED
      BY <1>3, <1>4, <2>2, <3>1 DEF Embedded
  <2> QED
    BY <2>1, <2>2
<1>6. u \in ToSet(Mapped) \cap Ordered /\ LastToWrite(e, u)
  BY <1>1
<1>7. r \in Found(e, p.id)
  BY <1>2, <1>4 DEF Found
<1>8. t \notin Junctions /\ KeysOf(t)[k].unique => Found(e, p.id) \subseteq {r}
  <2> SUFFICES ASSUME t \notin Junctions, KeysOf(t)[k].unique, NEW q \in Found(e, p.id)
               PROVE  q = r
    OBVIOUS
  <2>1. KeysOf(t)[k].alone
    BY <1>1
  <2>2. q \in rows[t] /\ q.refs[k] = r.refs[k] /\ r.refs[k] # NoRow
    BY <1>1, <1>2, <1>4 DEF Found
  <2> QED
    BY <2>1, <2>2 DEF Source
<1> HIDE DEF e, u
<1>9. ASSUME NEW f \in Embedded(u), Field(f[1], u) = Field(e[1], u)
      PROVE  f = e \/ Before(f, e)
  BY <1>6, <1>9, EmbeddedRefers DEF LastToWrite
<1>10. Assigns(e, p.id)
  BY <1>7 DEF Assigns
<1>11. e \in Shown(u, p.id)
  <2>1. \A f \in Embedded(u) : Before(e, f) => Field(f[1], u) # Field(e[1], u)
    BY <1>3, <1>9, BeforeOrder, EmbeddedRefers
  <2> QED
    BY <1>5, <1>6, <1>10, <2>1 DEF Shown, LastToWrite
<1>12. ASSUME NEW f \in Shown(u, p.id), f[1] = t PROVE f = e
  BY <1>4, <1>5, <1>9, <1>10, <1>12 DEF Shown
<1>13. ASSUME NEW ps \in Parts(u, p.id) PROVE <<t, r.id>> \in ps
  <2> DEFINE of == {q \in ps : q[1] = t}
             in == {q[2] : q \in of}
  <2>1. /\ ps \subseteq UNION {{f[1]} \X IdsOf(Found(f, p.id)) : f \in Shown(u, p.id)}
        /\ IF IsArray(e) THEN in = IdsOf(Found(e, p.id)) ELSE \E x \in Ids : in = {x}
    BY <1>4, <1>11 DEF Parts
  <2>2. \A q \in of : q = <<t, q[2]>> /\ q[2] \in IdsOf(Found(e, p.id))
    <3> TAKE q \in of
    <3>1. PICK f \in Shown(u, p.id) : q \in {f[1]} \X IdsOf(Found(f, p.id))
      BY <2>1
    <3>2. f = e
      BY <1>12, <3>1
    <3> QED
      BY <1>4, <3>1, <3>2
  <2>3. r.id \in in
    <3>1. CASE IsArray(e)
      BY <1>7, <2>1, <3>1 DEF IdsOf
    <3>2. CASE ~IsArray(e)
      <4>1. IdsOf(Found(e, p.id)) \subseteq {r.id}
        BY <1>4, <1>8, <3>2 DEF IsArray, IdsOf
      <4>2. in # {} /\ \A x \in in : x = r.id
        BY <2>1, <2>2, <3>2, <4>1
      <4> QED
        BY <4>2
    <3> QED
      BY <3>1, <3>2
  <2>4. PICK q \in of : q[2] = r.id
    BY <2>3
  <2> QED
    BY <2>2, <2>4
<1> QED
  BY <1>2, <1>6, <1>13

\* After a full run that reports success while nobody writes, every row for which the plan
\* has a place that nothing takes from it is in a document
\* (postgres-to-mongo.mapper.ts:35-56, 155-262; postgres-to-mongo.engine.ts:104-152, 185-217).
THEOREM EveryPlaceFilled == Spec => []PlacesFilled
<1> DEFINE Inv == Source /\ Position /\ FreshDocuments /\ KeysKept /\ PagesKept /\ QuietRun
<1>1. Init => Inv
  BY SourceInit, PositionInit, FreshInit, KeysInit, PagesInit, QuietInit
<1>2. Inv /\ [Next]_vars => Inv'
  BY SourceStep, PositionStep, FreshStep, KeysStep, PagesStep, QuietStep
<1>3. Inv => PlacesFilled
  <2> SUFFICES ASSUME Inv, Done, result = "success", quiet, ~incremental,
                      NEW t \in Names, NEW r \in rows[t], HasPlace(t, r)
               PROVE  There(t, r.id)
    BY DEF PlacesFilled
  <2>1. /\ page = {} /\ built = {} /\ ~Reading /\ errors = {} /\ ~shifted
        /\ Uncounted = {} /\ Uncleared = {}
    BY DEF Done, Position, Reading, QuietRun, Uncounted, Uncleared, Busy
  <2>2. ASSUME NEW u \in ToSet(Mapped) \cap Ordered, NEW p \in rows[u]
        PROVE  \E x \in documents : x.of = u /\ x.id = p.id /\ x.parts \in Parts(u, p.id)
    <3>1. <<u, p.id>> \in due
      BY <2>1 DEF QuietRun
    <3>2. <<u, p.id>> \in read
      BY <2>1, <3>1 DEF PagesKept
    <3>3. Delivered(<<u, p.id>>)
      BY <2>1, <3>2 DEF PagesKept, IdsOf
    <3>4. PICK x \in documents : x.of = u /\ x.id = p.id
      BY <2>1, <3>3 DEF Delivered
    <3>5. x.parts \in Parts(x.of, x.id)
      BY <2>1 DEF QuietRun
    <3> QED
      BY <3>4, <3>5
  <2>3. CASE t \in ToSet(Mapped) \cap Ordered
    BY <2>2, <2>3 DEF There
  <2>4. CASE t \notin ToSet(Mapped) \cap Ordered
    <3>1. PICK u \in ToSet(Mapped) \cap Ordered :
             \E p \in rows[u] : \A ps \in Parts(u, p.id) : <<t, r.id>> \in ps
      BY <2>4, PlaceMeansEmbedded
    <3> QED
      BY <2>2, <3>1 DEF There
  <2> QED
    BY <2>3, <2>4
<1> QED
  BY <1>1, <1>2, <1>3, PTL DEF Spec

(***************************************************************************)
(* Types.                                                                  *)
(***************************************************************************)

\* What a document holds besides its row are rows of tables of the source.
LEMMA PartTypes ==
    ASSUME Source, NEW t, NEW i, NEW ps \in Parts(t, i)
    PROVE  ps \in SUBSET (Names \X Ids)
<1>1. \A u \in Names : \A r \in rows[u] : r.id \in Ids
  BY DEF Source, Row
<1>2. \A e \in Shown(t, i) : e[1] \in Names
  BY DEF Shown, Embedded, ForeignKeys
<1>3. \A e \in Shown(t, i) : {e[1]} \X IdsOf(Found(e, i)) \subseteq Names \X Ids
  BY <1>1, <1>2 DEF Found, IdsOf
<1>4. ps \subseteq UNION {{e[1]} \X IdsOf(Found(e, i)) : e \in Shown(t, i)}
  BY DEF Parts
<1> QED
  BY <1>3, <1>4

\* A page has no more rows than a batch.
LEMMA PageFits ==
    ASSUME Source, Position, FetchPage, ~(offset >= total), offset \in Nat
    PROVE  IsFiniteSet(page') /\ Cardinality(page') <= BatchSize
<1> DEFINE all == Asked(Head(left))
<1>1. PICK passed \in Leading(offset, all) : \E through \in Leading(offset + BatchSize, all) :
         passed \subseteq through /\ page' = through \ passed
  BY DEF FetchPage
<1>2. PICK through \in Leading(offset + BatchSize, all) :
         passed \subseteq through /\ page' = through \ passed
  BY <1>1
<1>3. IsFiniteSet(all)
  <2>1. Head(left) \in Names
    BY HeadOrTail DEF FetchPage, Position, Busy
  <2> QED
    BY <2>1, AskedRows, CountById
<1>4. BatchSize \in Nat
  BY BoundsAssumption
<1> HIDE DEF all
<1>5. /\ through \in SUBSET all /\ passed \in SUBSET all
      /\ Cardinality(through) = offset + BatchSize
         \/ (through = all /\ Cardinality(all) < offset + BatchSize)
      /\ Cardinality(passed) = offset \/ (passed = all /\ Cardinality(all) < offset)
  BY <1>1, <1>2 DEF Leading
<1>6. /\ IsFiniteSet(through) /\ IsFiniteSet(passed)
      /\ Cardinality(through) \in Nat /\ Cardinality(passed) \in Nat
  BY <1>3, <1>5, FS_Subset, FS_CardinalityType
<1>7. CASE passed = all
  <2>1. page' = {}
    BY <1>2, <1>5, <1>7
  <2> QED
    BY <1>4, <2>1, FS_EmptySet
<1>8. CASE Cardinality(passed) = offset
  <2>1. /\ IsFiniteSet(through \ passed)
        /\ Cardinality(through \ passed) = Cardinality(through) - Cardinality(through \cap passed)
    BY <1>6, FS_Difference
  <2>2. through \cap passed = passed
    BY <1>2
  <2>3. Cardinality(through) <= offset + BatchSize
    BY <1>4, <1>5, <1>6
  <2>4. Cardinality(through \ passed) = Cardinality(through) - offset
    BY <1>8, <2>1, <2>2
  <2> QED
    BY <1>2, <1>4, <1>6, <2>1, <2>3, <2>4
<1> QED
  BY <1>5, <1>7, <1>8

\* A page and the documents made of it so far are of different rows.
OnTheWay ==
    /\ \A q, r \in page : q.id = r.id => q = r
    /\ \A a, b \in built : a.id = b.id => a = b
    /\ \A r \in page : \A b \in built : r.id # b.id
    /\ Cardinality(IdsOf(page) \cup IdsOf(built)) <= BatchSize

LEMMA OnTheWayFits ==
    ASSUME NEW rs, \A r \in rs : r.id \in Ids, \A q, r \in rs : q.id = r.id => q = r,
           NEW ds, \A d \in ds : d.id \in Ids, \A a, b \in ds : a.id = b.id => a = b,
           Cardinality(IdsOf(rs) \cup IdsOf(ds)) <= BatchSize
    PROVE  Cardinality(rs) <= BatchSize /\ Cardinality(ds) <= BatchSize
<1> DEFINE all == IdsOf(rs) \cup IdsOf(ds)
<1>1. /\ IsFiniteSet(IdsOf(rs)) /\ Cardinality(rs) = Cardinality(IdsOf(rs))
      /\ IsFiniteSet(IdsOf(ds)) /\ Cardinality(ds) = Cardinality(IdsOf(ds))
  BY CountById
<1>2. IsFiniteSet(all)
  BY <1>1, FS_Union
<1>3. IdsOf(rs) \in SUBSET all /\ IdsOf(ds) \in SUBSET all
  OBVIOUS
<1>4. /\ Cardinality(all) \in Nat
      /\ Cardinality(IdsOf(rs)) \in Nat /\ Cardinality(IdsOf(ds)) \in Nat
      /\ Cardinality(IdsOf(rs)) <= Cardinality(all) /\ Cardinality(IdsOf(ds)) <= Cardinality(all)
  BY <1>1, <1>2, <1>3, FS_Subset, FS_CardinalityType
<1> QED
  BY <1>1, <1>4, BoundsAssumption

LEMMA TypesInit == Init => TypeOK /\ OnTheWay
<1> SUFFICES ASSUME Init PROVE TypeOK /\ OnTheWay
  OBVIOUS
<1>1. Source /\ Position
  BY SourceInit, PositionInit
<1>2. page = {} /\ built = {} /\ documents = {} /\ read = {} /\ due = {} /\ errors = {}
  BY DEF Init
<1>3. IdsOf(page) \cup IdsOf(built) = {}
  BY <1>2 DEF IdsOf
<1>4. Cardinality({}) = 0
  BY FS_EmptySet
<1>5. 0 <= BatchSize /\ 0 \in 0..MaxId /\ 0 \in 0..MaxId + BatchSize
      /\ 0 \in 0..MaxRuns /\ 0 \in 0..MaxFailures
  BY BoundsAssumption
<1>6. OnTheWay
  BY <1>2, <1>3, <1>4, <1>5 DEF OnTheWay
<1>7. {errors, read, due} \subseteq SUBSET (Names \X Ids)
  BY <1>2
<1>8. /\ design \in Designs /\ writes \in 0..MaxWrites /\ left \in Seq(Names)
      /\ \A t \in Names : rows[t] \subseteq Row
  BY <1>1 DEF Source, Position
<1>9. /\ Cardinality(page) <= BatchSize /\ Cardinality(built) <= BatchSize
      /\ page \subseteq Row /\ built \subseteq Document /\ documents \subseteq Document
  BY <1>2, <1>4, <1>5
<1>10. TypeOK
  BY <1>2, <1>5, <1>7, <1>8, <1>9 DEF Init, TypeOK
<1> QED
  BY <1>6, <1>10

\* What a run carries along besides its documents.
LEMMA SettingTypes ==
    ASSUME TypeOK, [Next]_vars
    PROVE  /\ dry' \in BOOLEAN /\ incremental' \in BOOLEAN
           /\ shifted' \in BOOLEAN /\ quiet' \in BOOLEAN
           /\ result' \in {"none", "success", "issues", "failed"}
           /\ runs' \in 0..MaxRuns /\ failures' \in 0..MaxFailures
<1>0. /\ dry \in BOOLEAN /\ incremental \in BOOLEAN
      /\ shifted \in BOOLEAN /\ quiet \in BOOLEAN
      /\ result \in {"none", "success", "issues", "failed"}
      /\ runs \in 0..MaxRuns /\ failures \in 0..MaxFailures
      /\ MaxRuns \in Nat /\ MaxFailures \in Nat
  BY BoundsAssumption DEF TypeOK
<1> USE <1>0
<1>1. CASE UNCHANGED vars \/ Finished
  BY <1>1 DEF Finished, vars, outcome
<1>2. ASSUME NEW t \in Names, Write(t)
      PROVE  shifted' \in BOOLEAN /\ quiet' \in BOOLEAN
             /\ UNCHANGED <<dry, incremental, result, runs, failures>>
  BY <1>2 DEF Write, outcome
<1>3. CASE Start
  <2>1. runs' \in 0..MaxRuns /\ UNCHANGED failures
    BY <1>3 DEF Start
  <2>2. /\ dry' \in BOOLEAN /\ incremental' \in BOOLEAN
        /\ shifted' = FALSE /\ quiet' = TRUE /\ result' = "none"
    BY <1>3 DEF Start
  <2> QED
    BY <2>1, <2>2
<1>4. CASE RunFails \/ Report
  BY <1>4 DEF RunFails, Report, Exit, outside, settings
<1>5. CASE ClearCollection \/ CountRows \/ FetchPage \/ InsertBatch \/ InsertFails
  BY <1>5 DEF ClearCollection, CountRows, FetchPage, InsertBatch, InsertFails, outside, settings, outcome
<1>6. CASE BuildDocument
  BY <1>6 DEF BuildDocument, outside, settings
<1> QED
  BY <1>1, <1>2, <1>3, <1>4, <1>5, <1>6 DEF Next, Run

\* A table has no more rows than ids, and a page begins before the last of those counted.
LEMMA CounterTypes ==
    ASSUME TypeOK, Source, Position, [Next]_vars
    PROVE  total' \in 0..MaxId /\ offset' \in 0..MaxId + BatchSize
<1>0. /\ total \in 0..MaxId /\ offset \in 0..MaxId + BatchSize
      /\ MaxId \in Nat /\ BatchSize \in Nat
  BY BoundsAssumption DEF TypeOK
<1>1. CASE UNCHANGED <<total, offset>>
  BY <1>0, <1>1
<1>2. CASE CountRows
  <2>1. /\ Head(left) \in Names /\ offset' = 0
        /\ total' = Cardinality(Asked(Head(left)))
    BY <1>2, HeadOrTail DEF CountRows, Position, Busy
  <2>2. /\ IsFiniteSet(IdsOf(Asked(Head(left))))
        /\ Cardinality(Asked(Head(left))) = Cardinality(IdsOf(Asked(Head(left))))
    BY <2>1, AskedRows, CountById
  <2>3. IdsOf(Asked(Head(left))) \in SUBSET Ids
    BY <2>1, AskedRows DEF IdsOf
  <2>4. IsFiniteSet(Ids) /\ Cardinality(Ids) = MaxId
    BY <1>0, Interval DEF Ids
  <2>5. Cardinality(IdsOf(Asked(Head(left)))) \in 0..MaxId
    BY <1>0, <2>2, <2>3, <2>4, FS_Subset, FS_CardinalityType
  <2> QED
    BY <1>0, <2>1, <2>2, <2>5
<1>3. CASE FetchPage
  <2>1. UNCHANGED total
    BY <1>3 DEF FetchPage
  <2>2. UNCHANGED offset \/ (~(offset >= total) /\ offset' = offset + BatchSize)
    BY <1>3 DEF FetchPage, Advance
  <2> QED
    BY <1>0, <2>1, <2>2
<1>4. CASE RunFails \/ Report
  <2>1. total' = 0 /\ offset' = 0
    BY <1>4 DEF RunFails, Report, Exit
  <2> QED
    BY <1>0, <2>1
<1>5. CASE ~ (CountRows \/ FetchPage \/ RunFails \/ Report)
  <2>1. UNCHANGED <<total, offset>>
    BY <1>5 DEF Next, Run, Write, Start, ClearCollection, BuildDocument, InsertBatch, InsertFails,
                Finished, vars, loop
  <2> QED
    BY <1>1, <2>1
<1> QED
  BY <1>1, <1>2, <1>3, <1>4, <1>5

LEMMA OnTheWayStep ==
    ASSUME TypeOK, OnTheWay, Source, Position, [Next]_vars
    PROVE  /\ page' \subseteq Row /\ built' \subseteq Document
           /\ OnTheWay'
<1> DEFINE Empty == page' = {} /\ built' = {}
<1>0. page \subseteq Row /\ built \subseteq Document /\ BatchSize \in Nat
  BY BoundsAssumption DEF TypeOK
<1>1. CASE Empty
  <2>1. IdsOf(page') \cup IdsOf(built') = {}
    BY <1>1 DEF IdsOf
  <2>2. Cardinality({}) = 0
    BY FS_EmptySet
  <2>3. Cardinality(IdsOf(page)' \cup IdsOf(built)') <= BatchSize
    <3>1. IdsOf(page)' = IdsOf(page') /\ IdsOf(built)' = IdsOf(built')
      BY DEF IdsOf
    <3>2. IdsOf(page)' \cup IdsOf(built)' = {}
      BY <2>1, <3>1
    <3>3. Cardinality(IdsOf(page)' \cup IdsOf(built)') = 0
      BY <2>2, <3>2, Zenon
    <3>4. 0 <= BatchSize
      BY <1>0
    <3> QED
      BY <3>3, <3>4
  <2> QED
    BY <1>1, <2>3 DEF OnTheWay
<1>2. CASE UNCHANGED <<page, built>>
  BY <1>0, <1>2 DEF OnTheWay, IdsOf
<1>3. CASE FetchPage
  <2>1. CASE UNCHANGED page
    <3>1. page = {} /\ built' = {}
      BY <1>3 DEF FetchPage, Position
    <3> QED
      BY <1>1, <2>1, <3>1
  <2>2. CASE ~UNCHANGED page
    <3>1. /\ page' \subseteq Asked(Head(left)) /\ built' = {} /\ Head(left) \in Names
          /\ ~(offset >= total)
      BY <1>3, <2>2, HeadOrTail, PageFromTable DEF FetchPage, Position, Busy
    <3>2. page' \subseteq Row
      BY <3>1 DEF Source, Asked
    <3>3. \A q, r \in page' : q.id = r.id => q = r
      BY <3>1, AskedRows
    <3>4. offset \in Nat
      BY <1>0, BoundsAssumption DEF TypeOK
    <3>5. Cardinality(page') <= BatchSize
      BY <1>3, <3>1, <3>4, PageFits
    <3>6. Cardinality(IdsOf(page')) <= BatchSize
      <4>1. \A r \in page' : r.id \in Ids
        BY <3>2 DEF Row
      <4>2. Cardinality(page') = Cardinality(IdsOf(page'))
        BY <3>3, <4>1, CountById
      <4> QED
        BY <3>5, <4>2
    <3>7. IdsOf(page)' \cup IdsOf(built)' = IdsOf(page')
      BY <3>1 DEF IdsOf
    <3>8. Cardinality(IdsOf(page)' \cup IdsOf(built)') <= BatchSize
      BY <3>6, <3>7
    <3> QED
      BY <3>1, <3>2, <3>3, <3>8 DEF OnTheWay
  <2> QED
    BY <2>1, <2>2
<1>4. CASE BuildDocument
  <2>1. CASE page = {}
    BY <1>2, <1>4, <2>1 DEF BuildDocument
  <2>2. CASE page # {}
    <3>1. PICK r \in page : page' = page \ {r} /\ (BuiltOf(Head(left), r) \/ UNCHANGED built)
      BY <1>4, <2>2, BuildsOne
    <3>2. Head(left) \in Names
      BY <1>4, HeadOrTail DEF BuildDocument, Position, Busy
    <3>3. r \in Row
      BY <1>0
    <3>4. BuiltOf(Head(left), r) => \E x \in Document : built' = built \cup {x} /\ x.id = r.id
      <4> SUFFICES ASSUME NEW x, built' = built \cup {x}, x.id = r.id, x.parts \in Parts(Head(left), r.id),
                          x = [of |-> Head(left), key |-> r.key, id |-> r.id, v |-> r.v, parts |-> x.parts]
                   PROVE  x \in Document
        BY DEF BuiltOf
      <4>1. x.parts \in SUBSET (Names \X Ids)
        BY PartTypes
      <4> QED
        BY <3>2, <3>3, <4>1 DEF Document, Row
    <3>5. IdsOf(page') \cup IdsOf(built') \in SUBSET (IdsOf(page) \cup IdsOf(built))
      BY <3>1, <3>4 DEF IdsOf
    <3>6. /\ \A q \in page : q.id \in Ids
          /\ \A b \in built : b.id \in Ids
          /\ \A q, s \in page : q.id = s.id => q = s
          /\ \A a, b \in built : a.id = b.id => a = b
      BY <1>0 DEF Row, Document, OnTheWay
    <3>7. IsFiniteSet(IdsOf(page) \cup IdsOf(built))
      BY <3>6, CountById, FS_Union
    <3>8. Cardinality(IdsOf(page') \cup IdsOf(built')) <= BatchSize
      <4> DEFINE was == IdsOf(page) \cup IdsOf(built)
                 is == IdsOf(page') \cup IdsOf(built')
      <4>1. is \in SUBSET was /\ IsFiniteSet(was)
        BY <3>5, <3>7
      <4>2. Cardinality(was) <= BatchSize
        BY DEF OnTheWay
      <4> HIDE DEF was, is
      <4>3. Cardinality(is) <= Cardinality(was) /\ Cardinality(is) \in Nat /\ Cardinality(was) \in Nat
        BY <4>1, FS_Subset, FS_CardinalityType
      <4> QED
        BY <1>0, <4>2, <4>3 DEF is
    <3>9. IdsOf(page)' = IdsOf(page') /\ IdsOf(built)' = IdsOf(built')
      BY DEF IdsOf
    <3>10. page' \subseteq Row /\ built' \subseteq Document
      BY <1>0, <3>1, <3>4
    <3>11. /\ \A q, s \in page' : q.id = s.id => q = s
           /\ \A a, b \in built' : a.id = b.id => a = b
           /\ \A q \in page' : \A b \in built' : q.id # b.id
      BY <3>1, <3>4 DEF OnTheWay
    <3> QED
      BY <3>8, <3>9, <3>10, <3>11 DEF OnTheWay
  <2> QED
    BY <2>1, <2>2
<1>5. CASE RunFails \/ Report
  BY <1>1, <1>5 DEF RunFails, Report, Exit
<1>6. CASE InsertBatch \/ InsertFails
  <2>1. page = {} /\ built' = {} /\ UNCHANGED page
    BY <1>6 DEF InsertBatch, InsertFails, Position
  <2> QED
    BY <1>1, <2>1
<1>7. CASE ~ (FetchPage \/ BuildDocument \/ RunFails \/ Report \/ InsertBatch \/ InsertFails)
  <2>1. UNCHANGED <<page, built>>
    BY <1>7 DEF Next, Run, Write, Start, ClearCollection, CountRows, Finished, vars, loop
  <2> QED
    BY <1>2, <2>1
<1> QED
  BY <1>3, <1>4, <1>5, <1>6, <1>7

\* There is one document of an _id at most: of those built one is kept, and takes the
\* place of the one that is there.
LEMMA DocumentTypes ==
    ASSUME TypeOK, Position, FreshDocuments, [Next]_vars
    PROVE  /\ documents' \subseteq Document
           /\ \A a, b \in documents' : a.of = b.of /\ a.key = b.key => a = b
           /\ errors' \subseteq Names \X Ids
<1> DEFINE One(ds) == ds \subseteq Document /\ \A a, b \in ds : a.of = b.of /\ a.key = b.key => a = b
<1>0. One(documents) /\ errors \subseteq Names \X Ids /\ built \subseteq Document /\ page \subseteq Row
  BY DEF TypeOK
<1>1. ASSUME NEW bs \in SUBSET built, NEW ds \in OneOfEach(bs) PROVE One(ds) /\ ds \subseteq bs
  BY <1>0 DEF OneOfEach, SameId
<1>2. CASE InsertBatch \/ InsertFails
  <2>1. \/ \E bs \in SUBSET built : \E ds \in OneOfEach(bs) : documents' = Replaced(ds)
        \/ \E bs \in SUBSET built : \E ds \in OneOfEach(bs \ Taken) : documents' = documents \cup ds
    <3>1. built \in SUBSET built
      OBVIOUS
    <3> QED
      BY <1>2, <3>1 DEF InsertBatch, InsertFails
  <2>2. errors' \subseteq errors \cup {<<b.of, b.id>> : b \in built}
    BY <1>2 DEF InsertBatch, InsertFails
  <2>3. ASSUME NEW bs \in SUBSET built, NEW ds \in OneOfEach(bs) PROVE One(Replaced(ds))
    <3>1. One(ds)
      BY <1>1
    <3> QED
      BY <1>0, <3>1 DEF Replaced, SameId
  <2>4. ASSUME NEW bs \in SUBSET built, NEW ds \in OneOfEach(bs \ Taken) PROVE One(documents \cup ds)
    <3>1. One(ds) /\ ds \subseteq bs \ Taken
      BY <1>1
    <3>2. \A b \in ds : \A d \in documents : ~(d.of = b.of /\ d.key = b.key)
      BY <3>1 DEF Taken, SameId
    <3> QED
      BY <1>0, <3>1, <3>2
  <2>5. One(documents')
    BY <2>1, <2>3, <2>4
  <2>6. errors' \subseteq Names \X Ids
    BY <1>0, <2>2 DEF Document
  <2> QED
    BY <2>5, <2>6
<1>3. CASE BuildDocument
  <2>1. Head(left) \in Names /\ UNCHANGED documents
    BY <1>3, HeadOrTail DEF BuildDocument, Position, Busy
  <2>2. UNCHANGED errors \/ \E r \in page : errors' = errors \cup {<<Head(left), r.id>>}
    BY <1>3 DEF BuildDocument
  <2> QED
    BY <1>0, <2>1, <2>2 DEF Row
<1>4. CASE ClearCollection
  <2>1. documents' \subseteq documents /\ UNCHANGED errors
    BY <1>4 DEF ClearCollection, outcome
  <2> QED
    BY <1>0, <2>1
<1>5. CASE ~ (InsertBatch \/ InsertFails \/ BuildDocument \/ ClearCollection)
  <2>1. UNCHANGED documents /\ (UNCHANGED errors \/ errors' = {})
    BY <1>5 DEF Next, Run, Write, Start, RunFails, CountRows, FetchPage, Report, Finished, vars, outcome
  <2> QED
    BY <1>0, <2>1
<1> QED
  BY <1>2, <1>3, <1>4, <1>5

\* Every variable stays in its range: no collection gets two documents of one _id, a page
\* is no larger than a batch, and the offset goes one page beyond the rows at most.
THEOREM TypeCorrect == Spec => []TypeOK
<1> DEFINE Inv == Source /\ Position /\ FreshDocuments /\ KeysKept /\ PagesKept /\ TypeOK /\ OnTheWay
<1>1. Init => Inv
  BY SourceInit, PositionInit, FreshInit, KeysInit, PagesInit, TypesInit
<1>2. Inv /\ [Next]_vars => Inv'
  <2> SUFFICES ASSUME Inv, [Next]_vars PROVE Inv'
    OBVIOUS
  <2>1. Source' /\ Position' /\ FreshDocuments' /\ KeysKept' /\ PagesKept'
    BY SourceStep, PositionStep, FreshStep, KeysStep, PagesStep
  <2>2. page' \subseteq Row /\ built' \subseteq Document /\ OnTheWay'
    BY OnTheWayStep
  <2>3. Cardinality(page') <= BatchSize /\ Cardinality(built') <= BatchSize
    <3>1. \A r \in page' : r.id \in Ids
      BY <2>2 DEF Row
    <3>2. \A b \in built' : b.id \in Ids
      BY <2>2 DEF Document
    <3>3. IdsOf(page)' = IdsOf(page') /\ IdsOf(built)' = IdsOf(built')
      BY DEF IdsOf
    <3>4. /\ \A q, r \in page' : q.id = r.id => q = r
          /\ \A a, b \in built' : a.id = b.id => a = b
          /\ Cardinality(IdsOf(page') \cup IdsOf(built')) <= BatchSize
      BY <2>2, <3>3 DEF OnTheWay
    <3> QED
      BY <3>1, <3>2, <3>4, OnTheWayFits
  <2>4. read' \subseteq Names \X Ids /\ due' \subseteq Names \X Ids
    BY <2>1 DEF PagesKept
  <2>5. {errors, read, due}' \subseteq SUBSET (Names \X Ids)
    BY <2>4, DocumentTypes
  <2>6. /\ design' \in Designs /\ writes' \in 0..MaxWrites /\ left' \in Seq(Names)
        /\ \A t \in Names : rows'[t] \subseteq Row
        /\ pc' \in {"planned", "clear", "count", "fetch", "build", "insert", "report", "ended"}
    BY <2>1 DEF Source, Position
  <2>7. TypeOK'
    BY <2>2, <2>3, <2>5, <2>6, SettingTypes, CounterTypes, DocumentTypes DEF TypeOK
  <2> QED
    BY <2>1, <2>2, <2>7
<1>3. QED
  BY <1>1, <1>2, PTL DEF Spec
=============================================================================
