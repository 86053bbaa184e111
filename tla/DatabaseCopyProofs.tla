------------------------- MODULE DatabaseCopyProofs -------------------------
(***************************************************************************)
(* The invariants of DatabaseCopy as theorems, for any tables and foreign  *)
(* keys, also cyclic ones, any contents, batches, writes and failures.     *)
(***************************************************************************)
EXTENDS DatabaseCopy, FiniteSetTheorems, SequenceTheorems, WellFoundedInduction, TLAPS

(***************************************************************************)
(* Numbers and sequences.                                                  *)
(***************************************************************************)

\* A set of natural numbers has a least one: of the intervals from 0 to its members
\* none is within all others but the shortest.
LEMMA LeastNat ==
    ASSUME NEW T \in SUBSET Nat, T # {}
    PROVE  \E m \in T : \A k \in T : m <= k
<1> DEFINE D == {0..k : k \in T}
           R == StrictSubsetOrdering(Nat)
           F == FiniteSubsetsOf(Nat)
<1>1. IsWellFoundedOn(R, F)
  BY FS_StrictSubsetOrderingWellFounded
<1>2. ASSUME NEW k \in T PROVE IsFiniteSet(0..k)
  BY FS_Interval, k \in Nat
<1>3. D \subseteq F /\ D # {}
  BY <1>2 DEF FiniteSubsetsOf
<1>4. PICK X \in D : \A Y \in D : <<Y, X>> \notin R
  <2> HIDE DEF D, R, F
  <2> QED
    BY <1>1, <1>3, WFMin
<1>5. PICK m \in T : X = 0..m
  OBVIOUS
<1>6. ASSUME NEW k \in T, k < m PROVE FALSE
  <2>1. 0..k \in D
    OBVIOUS
  <2>2. m \in 0..m /\ m \notin 0..k
    BY <1>6, k \in Nat, m \in Nat
  <2>3. 0..k \subseteq 0..m /\ 0..k # 0..m
    BY <2>2, <1>6, k \in Nat, m \in Nat
  <2>4. <<0..k, 0..m>> \in R
    BY <2>3, k \in Nat, m \in Nat DEF StrictSubsetOrdering
  <2> QED
    BY <1>4, <1>5, <2>1, <2>4
<1> QED
  BY <1>6

\* Induction, for a set of numbers.
LEMMA NatSetInduction ==
    ASSUME NEW S, 0 \in S, \A n \in Nat : n \in S => n + 1 \in S
    PROVE  Nat \subseteq S
<1> SUFFICES ASSUME Nat \ S # {} PROVE FALSE
  OBVIOUS
<1>1. PICK m \in Nat \ S : \A k \in Nat \ S : m <= k
  BY LeastNat
<1>2. m # 0 /\ m - 1 \in Nat
  BY <1>1
<1>3. m - 1 \in S
  BY <1>1, <1>2
<1> QED
  BY <1>2, <1>3, <1>1

\* One more at the end of a sequence without repetitions.
LEMMA AppendOne ==
    ASSUME NEW T, NEW s \in Seq(T), IsInjective(s), NEW x \in T, x \notin ToSet(s)
    PROVE  LET a == Append(s, x)
           IN  /\ a \in Seq(T) /\ IsInjective(a) /\ ToSet(a) = ToSet(s) \cup {x}
               /\ Len(a) = Len(s) + 1 /\ a # <<>> /\ a[Len(a)] = x
               /\ \A i \in 1..Len(s) : a[i] = s[i]
<1> DEFINE a == Append(s, x)
           n == Len(s)
<1>1. /\ n \in Nat /\ DOMAIN s = 1..n
      /\ a \in Seq(T) /\ Len(a) = n + 1 /\ DOMAIN a = 1..(n + 1)
      /\ a[n + 1] = x /\ \A i \in 1..n : a[i] = s[i]
  OBVIOUS
<1> HIDE DEF a, n
<1>2. ToSet(a) = ToSet(s) \cup {x}
  <2>1. ToSet(s) = {s[i] : i \in 1..n} /\ ToSet(a) = {a[i] : i \in 1..(n + 1)}
    BY <1>1 DEF ToSet
  <2>2. \A i \in 1..(n + 1) : i \in 1..n \/ i = n + 1
    BY <1>1
  <2>3. \A i \in 1..n : i \in 1..(n + 1)
    BY <1>1
  <2>4. n + 1 \in 1..(n + 1)
    BY <1>1
  <2> QED
    BY <1>1, <2>1, <2>2, <2>3, <2>4
<1>3. IsInjective(a)
  <2> SUFFICES ASSUME NEW i \in 1..(n + 1), NEW j \in 1..(n + 1), a[i] = a[j] PROVE i = j
    BY <1>1 DEF IsInjective
  <2>1. \A k \in 1..n : a[k] = s[k] /\ a[k] # x
    BY <1>1 DEF ToSet
  <2>2. (i \in 1..n \/ i = n + 1) /\ (j \in 1..n \/ j = n + 1)
    BY <1>1
  <2>3. CASE i \in 1..n /\ j \in 1..n
    BY <1>1, <2>1, <2>3 DEF IsInjective
  <2> QED
    BY <1>1, <2>1, <2>2, <2>3
<1>4. a # <<>>
  BY <1>1
<1> QED
  BY <1>1, <1>2, <1>3, <1>4 DEF a, n

\* All but the last of a sequence without repetitions.
LEMMA LastOff ==
    ASSUME NEW T, NEW s \in Seq(T), IsInjective(s), s # <<>>
    PROVE  /\ Len(s) \in Nat \ {0} /\ Last(s) = s[Len(s)] /\ Last(s) \in ToSet(s) /\ Last(s) \in T
           /\ Front(s) \in Seq(T) /\ IsInjective(Front(s))
           /\ ToSet(Front(s)) = ToSet(s) \ {Last(s)} /\ Len(Front(s)) = Len(s) - 1
           /\ \A i \in 1..(Len(s) - 1) : Front(s)[i] = s[i]
<1> DEFINE f == Front(s)
           n == Len(s)
<1>1. n \in Nat \ {0} /\ DOMAIN s = 1..n /\ Last(s) = s[n] /\ n \in 1..n /\ s[n] \in T
  BY DEF Last
<1>2. f \in Seq(T) /\ Len(f) = n - 1 /\ \A i \in 1..(n - 1) : f[i] = s[i]
  <2>1. 1 \in 1..n + 1 /\ n - 1 \in 1 - 1..n
    BY <1>1
  <2> QED
    BY <1>1, <2>1, SubSeqProperties DEF Front
<1>3. DOMAIN f = 1..(n - 1)
  BY <1>1, <1>2
<1> HIDE DEF f, n
<1>4. \A i, j \in 1..n : s[i] = s[j] => i = j
  BY <1>1 DEF IsInjective
<1>5. \A i \in 1..(n - 1) : i \in 1..n /\ i # n
  BY <1>1
<1>6. \A i \in 1..n : i = n \/ i \in 1..(n - 1)
  BY <1>1
<1>7. IsInjective(f)
  <2> SUFFICES ASSUME NEW i \in 1..(n - 1), NEW j \in 1..(n - 1), f[i] = f[j] PROVE i = j
    BY <1>3 DEF IsInjective
  <2> QED
    BY <1>2, <1>4, <1>5
<1>8. ToSet(f) = ToSet(s) \ {s[n]}
  <2>1. ToSet(s) = {s[i] : i \in 1..n} /\ ToSet(f) = {f[i] : i \in 1..(n - 1)}
    BY <1>1, <1>3 DEF ToSet
  <2>2. \A i \in 1..(n - 1) : f[i] = s[i] /\ s[i] # s[n]
    BY <1>1, <1>2, <1>4, <1>5
  <2> QED
    BY <2>1, <2>2, <1>5, <1>6
<1>9. s[n] \in ToSet(s)
  BY <1>1 DEF ToSet
<1> QED
  BY <1>1, <1>2, <1>7, <1>8, <1>9 DEF f, n

(***************************************************************************)
(* The order of the tables.                                                *)
(***************************************************************************)

LEMMA BehindItself == ASSUME NEW t \in Tables PROVE t \in Behind(t)
BY DEF Behind

\* What refers to a table is behind all that the table is behind.
LEMMA BehindNext ==
    ASSUME NEW x, NEW t \in Tables, NEW u \in Behind(x), <<t, u>> \in Refs
    PROVE  t \in Behind(x)
BY DEF Behind

LEMMA BehindThrough ==
    ASSUME NEW t, NEW x \in Behind(t), NEW p, <<t, p>> \in Refs
    PROVE  x \in Behind(p)
BY DEF Behind

LEMMA TablesFinite == IsFiniteSet(Tables) /\ Cardinality(Tables) <= Len(Names)
<1>1. Names \in Seq(Tables) /\ Len(Names) \in Nat /\ DOMAIN Names = 1..Len(Names)
  BY NamesAssumption
<1>2. Names \in [1..Len(Names) -> Tables]
  BY <1>1
<1>3. \A t \in Tables : \E i \in 1..Len(Names) : Names[i] = t
  BY <1>1 DEF Tables, ToSet
<1>4. Names \in Surjection(1..Len(Names), Tables)
  BY <1>2, <1>3 DEF Surjection
<1>5. IsFiniteSet(1..Len(Names)) /\ Cardinality(1..Len(Names)) = Len(Names)
  <2>1. Cardinality(1..Len(Names)) = IF 1 > Len(Names) THEN 0 ELSE Len(Names) - 1 + 1
    BY <1>1, FS_Interval
  <2> QED
    BY <1>1, <2>1, FS_Interval
<1> QED
  BY <1>4, <1>5, FS_Surjection

LEMMA FirstIn == ASSUME NEW ts \in SUBSET Tables, ts # {} PROVE FirstOf(ts) \in ts
<1> DEFINE I == {i \in DOMAIN Names : Names[i] \in ts}
<1>1. I \in SUBSET Nat
  BY NamesAssumption
<1>2. I # {}
  BY DEF Tables, ToSet
<1>3. PICK m \in I : \A i \in I : m <= i
  <2> HIDE DEF I
  <2> QED
    BY <1>1, <1>2, LeastNat
<1> QED
  BY <1>3 DEF FirstOf

Seen(v) == ToSet(v.visiting) \cup ToSet(v.sorted)

\* A state of the search after n steps: each table on the way refers to the next one,
\* what a sorted table refers to comes before it unless it is on a cycle, and each step
\* was the entrance or the exit of a table, or there was nothing left to do.
Search(v, n) ==
    /\ v.visiting \in Seq(Tables) /\ IsInjective(v.visiting)
    /\ v.sorted \in Seq(Tables) /\ IsInjective(v.sorted)
    /\ ToSet(v.visiting) \cap ToSet(v.sorted) = {}
    /\ \A i, j \in 1..Len(v.visiting) : i <= j => v.visiting[i] \in Behind(v.visiting[j])
    /\ \A j \in 1..Len(v.sorted) : \A u \in getForeignKeys(v.sorted[j]) :
           (\E i \in 1..Len(v.sorted) : i < j /\ v.sorted[i] = u) \/ v.sorted[j] \in Cyclic
    /\ \/ Cardinality(Seen(v)) + Cardinality(ToSet(v.sorted)) = n
       \/ ToSet(v.sorted) = Tables

LEMMA Entrance ==
    ASSUME NEW v, NEW n \in Nat, Search(v, n), Ways(v) # {}, NEW w,
           w.visiting = Append(v.visiting, FirstOf(Ways(v))), w.sorted = v.sorted
    PROVE  Search(w, n + 1)
<1> DEFINE x == FirstOf(Ways(v))
           s == v.visiting
           a == w.visiting
<1>1. Ways(v) \subseteq Tables /\ x \in Ways(v) /\ x \in Tables /\ x \notin Seen(v)
  <2>1. Ways(v) \subseteq Tables
    BY DEF Ways, getForeignKeys
  <2>2. x \in Ways(v)
    BY <2>1, FirstIn
  <2> QED
    BY <2>1, <2>2 DEF Ways, Seen
<1>2. s \in Seq(Tables) /\ IsInjective(s) /\ x \notin ToSet(s)
  BY <1>1 DEF Search, Seen
<1> HIDE DEF x
<1>3. /\ a \in Seq(Tables) /\ IsInjective(a) /\ ToSet(a) = ToSet(s) \cup {x}
      /\ Len(a) = Len(s) + 1 /\ a # <<>> /\ a[Len(a)] = x
      /\ \A i \in 1..Len(s) : a[i] = s[i]
  BY <1>1, <1>2, AppendOne DEF x
<1>4. \A i \in 1..Len(s) : s[i] \in Behind(x)
  <2> SUFFICES ASSUME NEW i \in 1..Len(s) PROVE s[i] \in Behind(x)
    OBVIOUS
  <2>1. s # <<>> /\ Len(s) \in 1..Len(s) /\ Last(s) = s[Len(s)] /\ i <= Len(s)
    BY <1>2 DEF Last
  <2>2. <<s[Len(s)], x>> \in Refs
    BY <1>1, <2>1 DEF Ways, getForeignKeys
  <2>3. s[i] \in Behind(s[Len(s)])
    BY <2>1 DEF Search
  <2> QED
    BY <2>2, <2>3, BehindThrough
<1>5. \A i, j \in 1..Len(a) : i <= j => a[i] \in Behind(a[j])
  <2> SUFFICES ASSUME NEW i \in 1..Len(a), NEW j \in 1..Len(a), i <= j
               PROVE  a[i] \in Behind(a[j])
    OBVIOUS
  <2>1. Len(s) \in Nat /\ (i \in 1..Len(s) \/ i = Len(s) + 1) /\ (j \in 1..Len(s) \/ j = Len(s) + 1)
    BY <1>2, <1>3
  <2>2. CASE j \in 1..Len(s)
    <3>1. i \in 1..Len(s)
      BY <2>1, <2>2
    <3> QED
      BY <1>3, <2>2, <3>1 DEF Search
  <2>3. CASE j = Len(s) + 1 /\ i \in 1..Len(s)
    BY <1>3, <1>4, <2>3
  <2>4. CASE j = Len(s) + 1 /\ i = Len(s) + 1
    BY <1>1, <1>3, <2>4, BehindItself
  <2> QED
    BY <2>1, <2>2, <2>3, <2>4
<1>6. \/ Cardinality(Seen(w)) + Cardinality(ToSet(w.sorted)) = n + 1
      \/ ToSet(w.sorted) = Tables
  <2>1. Seen(w) = Seen(v) \cup {x}
    BY <1>3 DEF Seen
  <2>2. Seen(v) \in SUBSET Tables /\ ToSet(v.sorted) \in SUBSET Tables
    BY DEF Search, Seen, ToSet
  <2>3. IsFiniteSet(Seen(v)) /\ IsFiniteSet(ToSet(v.sorted))
    BY <2>2, TablesFinite, FS_Subset
  <2>4. Cardinality(Seen(v)) \in Nat /\ Cardinality(ToSet(v.sorted)) \in Nat
    BY <2>3, FS_CardinalityType
  <2>5. Cardinality(Seen(w)) = Cardinality(Seen(v)) + 1
    BY <1>1, <2>1, <2>3, FS_AddElement
  <2>6. Cardinality(Seen(v)) + Cardinality(ToSet(v.sorted)) = n \/ ToSet(v.sorted) = Tables
    BY DEF Search
  <2> QED
    BY <2>4, <2>5, <2>6
<1>7. ToSet(a) \cap ToSet(w.sorted) = {}
  BY <1>1, <1>3 DEF Search, Seen
<1> QED
  BY <1>3, <1>5, <1>6, <1>7 DEF Search

LEMMA Exit ==
    ASSUME NEW v, NEW n \in Nat, Search(v, n), Ways(v) = {}, v.visiting # <<>>, NEW w,
           w.visiting = Front(v.visiting), w.sorted = Append(v.sorted, Last(v.visiting))
    PROVE  Search(w, n + 1)
<1> DEFINE s == v.visiting
           o == v.sorted
           t == Last(s)
           f == w.visiting
           p == w.sorted
<1>1. s \in Seq(Tables) /\ IsInjective(s) /\ o \in Seq(Tables) /\ IsInjective(o)
  BY DEF Search
<1>2. /\ Len(s) \in Nat \ {0} /\ t = s[Len(s)] /\ t \in ToSet(s) /\ t \in Tables
      /\ f \in Seq(Tables) /\ IsInjective(f)
      /\ ToSet(f) = ToSet(s) \ {t} /\ Len(f) = Len(s) - 1
      /\ \A i \in 1..(Len(s) - 1) : f[i] = s[i]
  <2>1. s # <<>> /\ f = Front(s)
    OBVIOUS
  <2> HIDE DEF s, f
  <2> QED
    BY <1>1, <2>1, LastOff
<1>3. t \notin ToSet(o)
  BY <1>2 DEF Search
<1> HIDE DEF t
<1>4. /\ p \in Seq(Tables) /\ IsInjective(p) /\ ToSet(p) = ToSet(o) \cup {t}
      /\ Len(p) = Len(o) + 1 /\ p[Len(p)] = t /\ \A i \in 1..Len(o) : p[i] = o[i]
  BY <1>1, <1>2, <1>3, AppendOne DEF t
<1>5. ASSUME NEW u \in getForeignKeys(t)
      PROVE  (\E i \in 1..Len(o) : o[i] = u) \/ t \in Cyclic
  <2>1. u \in ToSet(s) \/ u \in ToSet(o)
    BY <1>5 DEF Ways, t
  <2>2. CASE u \in ToSet(o)
    BY <1>1, <2>2 DEF ToSet
  <2>3. CASE u \in ToSet(s)
    <3>1. PICK i \in 1..Len(s) : s[i] = u
      <4>1. DOMAIN s = 1..Len(s)
        BY <1>1
      <4> QED
        BY <4>1, <2>3 DEF ToSet
    <3>2. i <= Len(s) /\ Len(s) \in 1..Len(s)
      BY <1>2
    <3>3. u \in Behind(t)
      BY <1>2, <3>1, <3>2 DEF Search
    <3> QED
      BY <1>2, <1>5, <3>3 DEF Cyclic
  <2> QED
    BY <2>1, <2>2, <2>3
<1>6. ASSUME NEW j \in 1..Len(p), NEW u \in getForeignKeys(p[j])
      PROVE  (\E i \in 1..Len(p) : i < j /\ p[i] = u) \/ p[j] \in Cyclic
  <2>1. Len(o) \in Nat /\ (j \in 1..Len(o) \/ j = Len(o) + 1)
    BY <1>1, <1>4
  <2>2. CASE j \in 1..Len(o)
    <3>1. p[j] = o[j]
      BY <1>4, <2>2
    <3>2. (\E i \in 1..Len(o) : i < j /\ o[i] = u) \/ o[j] \in Cyclic
      BY <1>6, <2>2, <3>1 DEF Search
    <3>3. CASE o[j] \in Cyclic
      BY <3>1, <3>3
    <3>4. ASSUME NEW i \in 1..Len(o), i < j, o[i] = u PROVE i \in 1..Len(p) /\ p[i] = u
      BY <1>4, <2>1, <3>4
    <3> QED
      BY <3>2, <3>3, <3>4
  <2>3. CASE j = Len(o) + 1
    <3>1. p[j] = t
      BY <1>4, <2>3
    <3>2. (\E i \in 1..Len(o) : o[i] = u) \/ t \in Cyclic
      BY <1>5, <1>6, <3>1
    <3>3. ASSUME NEW i \in 1..Len(o), o[i] = u PROVE i \in 1..Len(p) /\ i < j /\ p[i] = u
      BY <1>4, <2>1, <2>3, <3>3
    <3> QED
      BY <3>1, <3>2, <3>3
  <2> QED
    BY <2>1, <2>2, <2>3
<1>7. \A i, j \in 1..Len(f) : i <= j => f[i] \in Behind(f[j])
  <2> SUFFICES ASSUME NEW i \in 1..Len(f), NEW j \in 1..Len(f), i <= j
               PROVE  f[i] \in Behind(f[j])
    OBVIOUS
  <2>1. i \in 1..(Len(s) - 1) /\ j \in 1..(Len(s) - 1) /\ i \in 1..Len(s) /\ j \in 1..Len(s)
    BY <1>2
  <2> QED
    BY <1>2, <2>1 DEF Search
<1>8. \/ Cardinality(Seen(w)) + Cardinality(ToSet(p)) = n + 1
      \/ ToSet(p) = Tables
  <2>1. Seen(w) = Seen(v)
    BY <1>2, <1>4 DEF Seen
  <2>2. Seen(v) \in SUBSET Tables /\ ToSet(o) \in SUBSET Tables
    BY <1>1 DEF Seen, ToSet
  <2>3. IsFiniteSet(Seen(v)) /\ IsFiniteSet(ToSet(o))
    BY <2>2, TablesFinite, FS_Subset
  <2>4. Cardinality(Seen(v)) \in Nat /\ Cardinality(ToSet(o)) \in Nat
    BY <2>3, FS_CardinalityType
  <2>5. Cardinality(ToSet(p)) = Cardinality(ToSet(o)) + 1
    <3>1. ToSet(p) = ToSet(o) \cup {t}
      BY <1>4
    <3> HIDE DEF o, p
    <3> QED
      BY <1>3, <2>3, <3>1, FS_AddElement
  <2>6. Cardinality(Seen(v)) + Cardinality(ToSet(o)) = n
    <3>1. ToSet(o) # Tables
      BY <1>2, <1>3
    <3> QED
      BY <3>1 DEF Search
  <2>7. Cardinality(Seen(w)) = Cardinality(Seen(v))
    BY <2>1
  <2> HIDE DEF s, o, f, p
  <2> QED
    BY <2>4, <2>5, <2>6, <2>7
<1>9. ToSet(f) \cap ToSet(p) = {}
  BY <1>2, <1>4 DEF Search
<1> QED
  BY <1>2, <1>4, <1>6, <1>7, <1>8, <1>9 DEF Search

LEMMA SearchStart ==
    ASSUME NEW v, v.visiting = <<>>, v.sorted = <<>>
    PROVE  Search(v, 0)
<1>1. ToSet(<<>>) = {} /\ <<>> \in Seq(Tables) /\ IsInjective(<<>>) /\ Len(<<>>) = 0
  BY DEF ToSet, IsInjective
<1>2. Cardinality(Seen(v)) = 0 /\ Cardinality(ToSet(v.sorted)) = 0
  BY <1>1, FS_EmptySet DEF Seen
<1> QED
  BY <1>1, <1>2 DEF Search

\* A step is an entrance or an exit, or all is done.
LEMMA SearchStep ==
    ASSUME NEW v, NEW n \in Nat, Search(v, n), DOMAIN v = {"visiting", "sorted"}
    PROVE  Search(Step(v), n + 1) /\ DOMAIN Step(v) = {"visiting", "sorted"}
<1> DEFINE w == Step(v)
<1>1. CASE Ways(v) # {}
  <2>1. w = [v EXCEPT !.visiting = Append(@, FirstOf(Ways(v)))]
    BY <1>1 DEF Step
  <2>2. /\ w.visiting = Append(v.visiting, FirstOf(Ways(v))) /\ w.sorted = v.sorted
        /\ DOMAIN w = DOMAIN v
    BY <2>1
  <2> QED
    BY <1>1, <2>2, Entrance
<1>2. CASE Ways(v) = {} /\ v.visiting # <<>>
  <2>1. w = [visiting |-> Front(v.visiting), sorted |-> Append(v.sorted, Last(v.visiting))]
    BY <1>2 DEF Step
  <2>2. /\ w.visiting = Front(v.visiting) /\ w.sorted = Append(v.sorted, Last(v.visiting))
        /\ DOMAIN w = {"visiting", "sorted"}
    BY <2>1
  <2> QED
    BY <1>2, <2>2, Exit
<1>3. CASE Ways(v) = {} /\ v.visiting = <<>>
  <2>1. w = v
    BY <1>3 DEF Step
  <2>2. ToSet(v.visiting) = {}
    BY <1>3 DEF ToSet
  <2>3. Tables \subseteq ToSet(v.sorted)
    BY <1>3, <2>2 DEF Ways
  <2>4. ToSet(v.sorted) = Tables
    BY <2>3 DEF Search, ToSet
  <2> QED
    BY <2>1, <2>4 DEF Search
<1> QED
  BY <1>1, <1>2, <1>3

\* The states of the search are what their definition says: by induction there are such
\* states, so that CHOOSE finds them.
LEMMA SearchDefined ==
    visit = [n \in 0..2 * Len(Names) |->
                IF n = 0 THEN [visiting |-> <<>>, sorted |-> <<>>] ELSE Step(visit[n - 1])]
<1> DEFINE start == [visiting |-> <<>>, sorted |-> <<>>]
           Good(g, m) == g = [n \in 0..m |-> IF n = 0 THEN start ELSE Step(g[n - 1])]
           S == {m \in Nat : \E g : Good(g, m)}
<1>1. 0 \in S
  <2> DEFINE g == [n \in 0..0 |-> start]
  <2>1. Good(g, 0)
    OBVIOUS
  <2> QED
    BY <2>1
<1>2. ASSUME NEW m \in Nat, m \in S PROVE m + 1 \in S
  <2>1. PICK g : Good(g, m)
    BY <1>2
  <2> DEFINE h == [n \in 0..(m + 1) |-> IF n = m + 1 THEN Step(g[m]) ELSE g[n]]
  <2>2. \A n \in 0..m : h[n] = g[n]
    OBVIOUS
  <2>3. ASSUME NEW n \in 0..(m + 1) PROVE h[n] = IF n = 0 THEN start ELSE Step(h[n - 1])
    <3>1. CASE n = m + 1
      <4>1. h[n] = Step(g[m]) /\ n # 0 /\ n - 1 = m /\ m \in 0..m
        BY <3>1
      <4> HIDE DEF h
      <4> QED
        BY <4>1, <2>2
    <3>2. CASE n # m + 1
      <4>1. n \in 0..m
        BY <3>2
      <4>2. g[n] = IF n = 0 THEN start ELSE Step(g[n - 1])
        BY <2>1, <4>1
      <4>3. n # 0 => n - 1 \in 0..m
        BY <4>1
      <4> HIDE DEF h
      <4> QED
        BY <2>2, <4>1, <4>2, <4>3
    <3> QED
      BY <3>1, <3>2
  <2>4. h = [n \in 0..(m + 1) |-> h[n]]
    OBVIOUS
  <2>5. Good(h, m + 1)
    <3> HIDE DEF h
    <3> QED
      BY <2>3, <2>4
  <2> QED
    <3> HIDE DEF h, Good
    <3> QED
      BY <2>5
<1>3. 2 * Len(Names) \in S
  <2>1. Nat \subseteq S
    <3> HIDE DEF S
    <3> QED
      BY <1>1, <1>2, NatSetInduction
  <2>2. Len(Names) \in Nat
    BY NamesAssumption
  <2> QED
    BY <2>1, <2>2
<1>4. \E g : Good(g, 2 * Len(Names))
  BY <1>3
<1>5. visit = CHOOSE g : Good(g, 2 * Len(Names))
  BY DEF visit
<1> HIDE DEF Good
<1>6. Good(visit, 2 * Len(Names))
  BY <1>4, <1>5
<1> QED
  BY <1>6 DEF Good

\* The search is over after two steps for each table, an entrance and an exit.
LEMMA SearchDone ==
    Search(visit[2 * Len(Names)], 2 * Len(Names)) /\ ToSet(topologicalSort) = Tables
<1> DEFINE N == 2 * Len(Names)
           S == {n \in Nat : n <= N => Search(visit[n], n) /\ DOMAIN visit[n] = {"visiting", "sorted"}}
<1>1. Len(Names) \in Nat /\ N \in Nat
  BY NamesAssumption
<1>2. 0 \in S
  <2>1. visit[0] = [visiting |-> <<>>, sorted |-> <<>>]
    BY <1>1, SearchDefined
  <2>2. visit[0].visiting = <<>> /\ visit[0].sorted = <<>> /\ DOMAIN visit[0] = {"visiting", "sorted"}
    BY <2>1
  <2> QED
    BY <2>2, SearchStart
<1>3. ASSUME NEW n \in Nat, n \in S PROVE n + 1 \in S
  <2> SUFFICES ASSUME n + 1 <= N
               PROVE  Search(visit[n + 1], n + 1) /\ DOMAIN visit[n + 1] = {"visiting", "sorted"}
    OBVIOUS
  <2>1. n <= N /\ n + 1 \in 0..N /\ n + 1 # 0 /\ (n + 1) - 1 = n
    BY <1>1
  <2>2. visit[n + 1] = Step(visit[n])
    <3> HIDE DEF N
    <3>1. visit = [k \in 0..N |-> IF k = 0 THEN [visiting |-> <<>>, sorted |-> <<>>]
                                  ELSE Step(visit[k - 1])]
      BY SearchDefined DEF N
    <3>2. visit[n + 1] = IF n + 1 = 0 THEN [visiting |-> <<>>, sorted |-> <<>>]
                         ELSE Step(visit[(n + 1) - 1])
      BY <2>1, <3>1
    <3> QED
      BY <2>1, <3>2
  <2>3. Search(visit[n], n) /\ DOMAIN visit[n] = {"visiting", "sorted"}
    BY <1>3, <2>1
  <2> QED
    BY <2>2, <2>3, SearchStep
<1>4. Search(visit[N], N)
  <2>1. Nat \subseteq S
    <3> HIDE DEF S
    <3> QED
      BY <1>2, <1>3, NatSetInduction
  <2> QED
    BY <1>1, <2>1
<1> DEFINE v == visit[N]
           o == ToSet(v.sorted)
<1>5. o = Tables
  <2>1. Seen(v) \in SUBSET Tables /\ o \in SUBSET Tables
    BY <1>4 DEF Search, Seen, ToSet
  <2>2. /\ IsFiniteSet(Tables) /\ IsFiniteSet(o)
        /\ Cardinality(Seen(v)) <= Cardinality(Tables) /\ Cardinality(o) <= Cardinality(Tables)
        /\ (Cardinality(Tables) = Cardinality(o) => Tables = o)
    <3> HIDE DEF o, v
    <3> QED
      BY <2>1, TablesFinite, FS_Subset
  <2>3. IsFiniteSet(Seen(v))
    BY <2>1, TablesFinite, FS_Subset
  <2>4. Cardinality(Seen(v)) \in Nat /\ Cardinality(o) \in Nat /\ Cardinality(Tables) \in Nat
    BY <2>2, <2>3, FS_CardinalityType
  <2>5. Cardinality(Seen(v)) + Cardinality(o) = N \/ o = Tables
    BY <1>4 DEF Search
  <2>6. Cardinality(Tables) <= Len(Names)
    BY TablesFinite
  <2> QED
    <3> HIDE DEF o, v
    <3> QED
      BY <1>1, <2>2, <2>4, <2>5, <2>6
<1> QED
  BY <1>4, <1>5 DEF topologicalSort

\* The order has every table at one place, after those it refers to unless it is on a cycle.
LEMMA Sorted ==
    /\ \A t \in Tables : Rank(t) \in Nat /\ topologicalSort[Rank(t)] = t
    /\ \A t \in Tables : \A u \in getForeignKeys(t) : Rank(u) < Rank(t) \/ t \in Cyclic
<1> DEFINE o == topologicalSort
           N == Len(topologicalSort)
<1>1. /\ o \in Seq(Tables) /\ IsInjective(o) /\ ToSet(o) = Tables
      /\ \A j \in 1..N : \A u \in getForeignKeys(o[j]) :
             (\E i \in 1..N : i < j /\ o[i] = u) \/ o[j] \in Cyclic
  BY SearchDone DEF Search, topologicalSort
<1>2. DOMAIN o = 1..N /\ N \in Nat
  BY <1>1
<1>3. \A i, j \in 1..N : o[i] = o[j] => i = j
  BY <1>1, <1>2 DEF IsInjective
<1>4. ASSUME NEW t \in Tables PROVE Rank(t) \in 1..N /\ o[Rank(t)] = t
  <2>1. \E i \in 1..N : o[i] = t
    BY <1>1, <1>2 DEF ToSet
  <2> QED
    BY <1>2, <2>1 DEF Rank
<1>5. ASSUME NEW t \in Tables, NEW u \in getForeignKeys(t), t \notin Cyclic
      PROVE  Rank(u) < Rank(t)
  <2>1. PICK i \in 1..N : i < Rank(t) /\ o[i] = u
    BY <1>1, <1>4, <1>5
  <2>2. u \in Tables
    BY DEF getForeignKeys
  <2>3. i = Rank(u)
    BY <1>3, <1>4, <2>1, <2>2
  <2> QED
    BY <2>1, <2>3
<1> QED
  BY <1>2, <1>4, <1>5

\* The loops take a table that is left, and the tables it refers to are not left.
LEMMA FirstLeft ==
    ASSUME todo \subseteq Tables, todo # {}
    PROVE  /\ table \in todo
           /\ \A u \in todo : Rank(table) <= Rank(u)
<1> DEFINE T == {Rank(u) : u \in todo}
<1>1. T \in SUBSET Nat /\ T # {}
  BY Sorted
<1>2. PICK m \in T : \A k \in T : m <= k
  <2> HIDE DEF T
  <2> QED
    BY <1>1, LeastNat
<1> QED
  BY <1>2 DEF table

LEMMA LastLeft == ASSUME todo \subseteq Tables, todo # {} PROVE lastTable \in todo
<1> DEFINE N == Len(topologicalSort)
           T == {N - Rank(u) : u \in todo}
<1>1. \A t \in Tables : Rank(t) \in 1..N /\ N \in Nat
  <2>1. topologicalSort \in Seq(Tables) /\ ToSet(topologicalSort) = Tables
    BY SearchDone DEF Search, topologicalSort
  <2>2. DOMAIN topologicalSort = 1..N
    BY <2>1
  <2>3. \A t \in Tables : \E i \in 1..N : topologicalSort[i] = t
    BY <2>1, <2>2 DEF ToSet
  <2> QED
    BY <2>1, <2>2, <2>3 DEF Rank
<1>2. T \in SUBSET Nat /\ T # {}
  BY <1>1
<1>3. PICK m \in T : \A k \in T : m <= k
  <2> HIDE DEF T
  <2> QED
    BY <1>2, LeastNat
<1>4. PICK t \in todo : m = N - Rank(t)
  OBVIOUS
<1>5. ASSUME NEW u \in todo PROVE Rank(u) <= Rank(t)
  <2>1. m <= N - Rank(u)
    BY <1>3
  <2>2. Rank(u) \in Nat /\ Rank(t) \in Nat /\ N \in Nat
    BY <1>1
  <2> HIDE DEF N
  <2> QED
    BY <1>4, <2>1, <2>2
<1> QED
  BY <1>5 DEF lastTable

(***************************************************************************)
(* The inductive invariant.                                                *)
(***************************************************************************)

\* The type invariant in parts, and that there is a set of doubled rows for each table.
TargetOK ==
    /\ there \subseteq Tables
    /\ rows \in [Tables -> SUBSET Row] /\ doubled \in [Tables -> SUBSET Row]
    /\ \A t \in Tables : doubled[t] \subseteq rows[t] /\ (t \notin there => rows[t] = {})
    /\ typed \subseteq there \cap Typed
    /\ fks \subseteq Refs \cap (there \X there)
    /\ next \in [Tables -> 1..MaxId + 1]

LoopOK ==
    /\ pc \in {"idle", "drop", "types", "create", "truncate", "tables", "fetch", "insert",
               "sequences", "keys", "pipe", "copied", "failed"}
    /\ chosen \subseteq Tables
    /\ todo \subseteq chosen
    /\ failed \subseteq chosen
    /\ unset \subseteq chosen

ReadingOK ==
    /\ cursor \in SUBSET Row /\ batch \in SUBSET Row
    /\ tries \in 0..MaxRetries
    /\ \A t \in DOMAIN seen : t \in chosen /\ seen[t] \in SUBSET Row

ToolsOK ==
    /\ errors \in BOOLEAN
    /\ dump \in {"running", "ended", "broken", "silent"}
    /\ restored \in {Running, 0, 1, Killed}

OutsideOK ==
    /\ source \in [Tables -> SUBSET Row]
    /\ mode \in Modes
    /\ quiet \in BOOLEAN
    /\ writes \in 0..MaxWrites

Types == TargetOK /\ LoopOK /\ ReadingOK /\ ToolsOK /\ OutsideOK /\ failures \in 0..MaxFailures

Distinct(rs) == \A r, s \in rs : r.id = s.id => r = s

\* The source keeps its keys, and so does what the snapshots held.
SourceKept ==
    /\ \A t \in Tables : Distinct(source[t]) /\ Resolved(t, source[t], source, Refs)
    /\ \A t \in DOMAIN seen : Distinct(seen[t])

Copying == {"fetch", "insert"}
Reading == {"tables"} \cup Copying

\* What each mode comes through.
Course ==
    /\ mode = "schema" => pc \in {"idle", "drop", "types", "create", "keys", "copied", "failed"}
    /\ mode = "full" => pc \notin {"truncate", "pipe"}
    /\ mode = "data" => pc \notin {"drop", "types", "create", "keys", "pipe"}
    /\ mode \in {"tools", "tools schema", "tools data"} => pc \in {"idle", "pipe", "copied", "failed"}
    /\ pc = "pipe" => DOMAIN seen = Tables
    /\ mode \in {"tools", "tools schema"} /\ dump = "ended" => there = Tables

\* Which tables have been opened, and that nothing is fetched or sent between tables.
Opened ==
    /\ pc \in {"idle", "drop", "types", "create", "truncate"}
           => DOMAIN seen = {} /\ failed \cup unset = {}
    /\ pc = "tables" => DOMAIN seen \cap todo = {}
    /\ pc \in Copying => todo # {} /\ DOMAIN seen \cap todo = {table}
    /\ pc \in Reading => chosen \subseteq DOMAIN seen \cup todo /\ unset = {}
    /\ pc \in {"sequences", "keys", "copied"} /\ mode \in {"full", "data"} => chosen \subseteq DOMAIN seen
    /\ pc \notin Copying => cursor = {}
    /\ pc # "insert" => batch = {}

\* Nothing is read or set before the chosen tables are in the target.
Created ==
    /\ pc = "create" => chosen \ todo \subseteq there
    /\ pc \in Reading \cup {"sequences", "keys"} => chosen \subseteq there

\* A chosen table that is not opened yet is empty, once it is dropped or truncated.
Emptied ==
    \A t \in chosen \ DOMAIN seen :
        \/ pc \in {"types", "create"} \cup Reading
        \/ pc = "drop" /\ t \notin todo
        => rows[t] = {} /\ doubled[t] = {}

\* Of the rows of the snapshot those are in the target that are neither to be fetched
\* nor on their way, and of those on their way perhaps some.
Arrived ==
    pc \in Copying =>
        /\ cursor \cup batch \subseteq seen[table] /\ cursor \cap batch = {}
        /\ seen[table] \ (cursor \cup batch) \subseteq rows[table]
        /\ rows[table] \subseteq seen[table] \ cursor
        /\ getPrimaryKey(table) => doubled[table] = {}
        /\ pc = "insert" => Cardinality(batch) = BatchSize \/ cursor = {}

\* The ids a sequence hands out are new as soon as it is set.
Above(t) == \A i \in IdsOf(rows[t]) : i < next[t]
Fresh ==
    /\ pc = "sequences" => \A t \in chosen \ (unset \cup todo) : Above(t)
    /\ pc \in {"keys", "copied"} /\ mode \in {"full", "data"} => \A t \in chosen \ unset : Above(t)

\* What the snapshots held is what the source holds while the application is quiet.
Quiet == quiet /\ pc # "idle" => \A t \in DOMAIN seen : seen[t] = source[t]

KeysAdded ==
    pc \in {"keys", "copied"} /\ mode = "full" /\ failed \cup unset = {} /\ quiet
        => \A k \in Wanted : k \in fks \/ (pc = "keys" /\ k[1] \in todo)

\* In the data mode every failure that is not one of the network's goes back to a cycle.
Excused ==
    mode = "data" /\ chosen = Tables /\ quiet /\ failures = 0
        => failed \subseteq UNION {Behind(t) : t \in Cyclic}

IInv ==
    /\ Types
    /\ SourceKept
    /\ Course /\ Opened
    /\ Created /\ Emptied /\ Arrived /\ CopiedRight
    /\ Fresh
    /\ Quiet /\ KeysAdded /\ Excused

LEMMA TypesAreTypes == Types => TypeOK
BY DEF Types, TargetOK, LoopOK, ReadingOK, ToolsOK, OutsideOK, TypeOK

(***************************************************************************)
(* What the operations do.                                                 *)
(***************************************************************************)

\* The largest of some ids is one of them.
LEMMA LargestIs ==
    ASSUME NEW rs \in SUBSET Row, rs # {}
    PROVE  Largest(rs) \in Ids /\ \A i \in IdsOf(rs) : i <= Largest(rs)
<1> DEFINE T == {MaxId - i : i \in IdsOf(rs)}
<1>1. IdsOf(rs) \subseteq Ids /\ IdsOf(rs) # {}
  BY DEF IdsOf, Row
<1>2. MaxId \in Nat /\ \A i \in IdsOf(rs) : i \in Nat /\ i <= MaxId
  BY <1>1, BoundsAssumption DEF Ids
<1>3. T \in SUBSET Nat /\ T # {}
  BY <1>1, <1>2
<1>4. PICK m \in T : \A k \in T : m <= k
  <2> HIDE DEF T
  <2> QED
    BY <1>3, LeastNat
<1>5. PICK i \in IdsOf(rs) : m = MaxId - i
  OBVIOUS
<1>6. ASSUME NEW j \in IdsOf(rs) PROVE j <= i
  <2>1. m <= MaxId - j
    BY <1>4
  <2> QED
    BY <1>2, <1>5, <2>1
<1>7. Largest(rs) \in IdsOf(rs) /\ \A j \in IdsOf(rs) : j <= Largest(rs)
  BY <1>6 DEF Largest
<1> QED
  BY <1>1, <1>7

\* A loop that is not over has come to one of its tables.
LEMMA TableLeft ==
    ASSUME LoopOK, todo # {}
    PROVE  /\ table \in todo /\ table \in chosen /\ table \in Tables
           /\ \A u \in todo : Rank(table) <= Rank(u)
BY FirstLeft DEF LoopOK

LEMMA LastTableLeft ==
    ASSUME LoopOK, todo # {}
    PROVE  lastTable \in todo /\ lastTable \in Tables
BY LastLeft DEF LoopOK

\* A batch that lands: nothing is lost, and what does not land has its id in the table.
LEMMA Landing ==
    ASSUME TargetOK, NEW t \in there, NEW rs \in SUBSET Row, Lands(t, rs)
    PROVE  /\ TargetOK'
           /\ \A u \in Tables \ {t} : rows'[u] = rows[u] /\ doubled'[u] = doubled[u]
           /\ rows[t] \subseteq rows'[t] /\ rows'[t] \subseteq rows[t] \cup rs
           /\ getPrimaryKey(t) => doubled'[t] = doubled[t]
           /\ \A r \in rs : r \in rows'[t] \/ \E q \in rows[t] : q.id = r.id
           /\ UNCHANGED <<there, typed, fks, next>>
<1> DEFINE new == {r \in rs : getPrimaryKey(t) => r.id \notin IdsOf(rows[t])}
<1>1. /\ doubled' = [doubled EXCEPT ![t] = @ \cup (new \cap rows[t])]
      /\ rows' = [rows EXCEPT ![t] = @ \cup new]
      /\ UNCHANGED <<there, typed, fks, next>>
  BY DEF Lands
<1>2. /\ rows \in [Tables -> SUBSET Row] /\ doubled \in [Tables -> SUBSET Row] /\ t \in Tables
      /\ \A u \in Tables : doubled[u] \subseteq rows[u] /\ (u \notin there => rows[u] = {})
  BY DEF TargetOK
<1>3. new \subseteq rs
  OBVIOUS
<1>4. getPrimaryKey(t) => new \cap rows[t] = {}
  BY DEF IdsOf
<1>5. \A r \in rs : r \in new \/ \E q \in rows[t] : q.id = r.id
  BY DEF IdsOf
<1> HIDE DEF new
<1>6. /\ rows' \in [Tables -> SUBSET Row] /\ doubled' \in [Tables -> SUBSET Row]
      /\ rows'[t] = rows[t] \cup new /\ doubled'[t] = doubled[t] \cup (new \cap rows[t])
      /\ \A u \in Tables \ {t} : rows'[u] = rows[u] /\ doubled'[u] = doubled[u]
  <2>1. rows[t] \cup new \in SUBSET Row /\ doubled[t] \cup (new \cap rows[t]) \in SUBSET Row
    BY <1>2, <1>3
  <2> QED
    BY <1>1, <1>2, <2>1
<1>7. \A u \in Tables : doubled'[u] \subseteq rows'[u] /\ (u \notin there' => rows'[u] = {})
  <2> SUFFICES ASSUME NEW u \in Tables
               PROVE  doubled'[u] \subseteq rows'[u] /\ (u \notin there' => rows'[u] = {})
    OBVIOUS
  <2>1. CASE u = t
    BY <1>1, <1>2, <1>6, <2>1
  <2>2. CASE u # t
    BY <1>1, <1>2, <1>6, <2>2
  <2> QED
    BY <2>1, <2>2
<1>8. TargetOK'
  BY <1>1, <1>6, <1>7 DEF TargetOK
<1> QED
  BY <1>1, <1>3, <1>4, <1>5, <1>6, <1>8

LEMMA TargetSame == ASSUME TargetOK, UNCHANGED target PROVE TargetOK'
BY DEF TargetOK, target

(***************************************************************************)
(* The target.                                                             *)
(***************************************************************************)

LEMMA DropStep == ASSUME Types, DropTable PROVE TargetOK'
<1>1. CASE UNCHANGED target
  BY <1>1, TargetSame DEF Types
<1>2. ASSUME todo # {}, Drop(lastTable) PROVE TargetOK'
  <2> DEFINE t == lastTable
  <2>1. t \in Tables
    BY <1>2, LastTableLeft DEF Types
  <2>2. /\ there' = there \ {t} /\ rows' = [rows EXCEPT ![t] = {}]
        /\ doubled' = [doubled EXCEPT ![t] = {}] /\ typed' = typed \ {t}
        /\ fks' = {k \in fks : t \notin {k[1], k[2]}} /\ next' = next
    BY <1>2 DEF Drop
  <2> HIDE DEF t
  <2>3. fks' \subseteq Refs \cap (there' \X there')
    <3> SUFFICES ASSUME NEW k \in fks, t \notin {k[1], k[2]} PROVE k \in Refs \cap (there' \X there')
      BY <2>2
    <3> QED
      BY <2>2 DEF Types, TargetOK
  <2>4. /\ rows' \in [Tables -> SUBSET Row] /\ doubled' \in [Tables -> SUBSET Row]
        /\ \A u \in Tables : doubled'[u] \subseteq rows'[u] /\ (u \notin there' => rows'[u] = {})
    BY <2>1, <2>2 DEF Types, TargetOK
  <2> QED
    BY <2>2, <2>3, <2>4 DEF Types, TargetOK
<1> QED
  BY <1>1, <1>2 DEF DropTable

LEMMA CreateStep == ASSUME Types, CreateTable PROVE TargetOK'
<1>1. CASE UNCHANGED target
  BY <1>1, TargetSame DEF Types
<1>2. ASSUME todo # {}, Create(table) PROVE TargetOK'
  <2> DEFINE t == table
  <2>1. t \in Tables
    BY <1>2, TableLeft DEF Types
  <2>2. /\ there' = there \cup {t} /\ typed' = typed \cup {u \in {t} : getEnums(u)}
        /\ next' = [next EXCEPT ![t] = 1] /\ UNCHANGED <<rows, doubled, fks>>
    BY <1>2 DEF Create
  <2> HIDE DEF t
  <2>3. next' \in [Tables -> 1..MaxId + 1]
    <3>1. 1 \in 1..MaxId + 1
      BY BoundsAssumption
    <3> QED
      BY <2>1, <2>2, <3>1 DEF Types, TargetOK
  <2>4. typed' \subseteq there' \cap Typed
    BY <2>2 DEF Types, TargetOK, getEnums
  <2>5. fks' \subseteq Refs \cap (there' \X there')
    BY <2>2 DEF Types, TargetOK
  <2> QED
    BY <2>1, <2>2, <2>3, <2>4, <2>5 DEF Types, TargetOK
<1> QED
  BY <1>1, <1>2 DEF CreateTable

LEMMA TruncateStep == ASSUME Types, Truncate PROVE TargetOK'
<1>1. CASE UNCHANGED <<rows, doubled>>
  BY <1>1 DEF Types, TargetOK, Truncate
<1>2. CASE /\ rows' = [t \in Tables |-> IF t \in Cascade(chosen) THEN {} ELSE rows[t]]
           /\ doubled' = [t \in Tables |-> doubled[t] \cap rows'[t]]
  <2>1. ASSUME NEW t \in Tables PROVE rows'[t] \subseteq rows[t] /\ doubled'[t] \subseteq rows'[t]
    BY <1>2
  <2>2. rows' \in [Tables -> SUBSET Row] /\ doubled' \in [Tables -> SUBSET Row]
    <3>1. \A t \in Tables : rows[t] \in SUBSET Row
      BY DEF Types, TargetOK
    <3> QED
      BY <1>2, <3>1
  <2>3. UNCHANGED <<there, typed, fks, next>>
    BY DEF Truncate
  <2>4. \A t \in Tables : t \notin there' => rows'[t] = {}
    BY <2>1, <2>3 DEF Types, TargetOK
  <2> QED
    BY <2>1, <2>2, <2>3, <2>4 DEF Types, TargetOK
<1> QED
  BY <1>1, <1>2 DEF Truncate

LEMMA SequenceStep == ASSUME Types, ResetSequence PROVE TargetOK'
<1>1. UNCHANGED <<there, rows, doubled, typed, fks>>
  BY DEF ResetSequence
<1>2. CASE next' = next
  BY <1>1, <1>2 DEF Types, TargetOK
<1>3. ASSUME todo # {}, rows[table] # {}, next' = [next EXCEPT ![table] = Largest(rows[table]) + 1]
      PROVE  TargetOK'
  <2> DEFINE t == table
  <2>1. t \in Tables
    BY <1>3, TableLeft DEF Types
  <2>2. Largest(rows[t]) \in Ids
    BY <1>3, <2>1, LargestIs DEF Types, TargetOK
  <2>3. Largest(rows[t]) + 1 \in 1..MaxId + 1
    BY <2>2, BoundsAssumption DEF Ids
  <2>4. next' \in [Tables -> 1..MaxId + 1]
    BY <1>3, <2>3 DEF Types, TargetOK
  <2> QED
    BY <1>1, <2>4 DEF Types, TargetOK
<1> QED
  BY <1>2, <1>3 DEF ResetSequence

LEMMA KeysStep == ASSUME Types, Created, AddKeys PROVE TargetOK'
<1>1. UNCHANGED <<there, rows, doubled, typed, next>> /\ chosen \subseteq there
  BY DEF AddKeys, Created
<1>2. fks' \subseteq fks \cup Wanted
  BY DEF AddKeys
<1>3. Wanted \subseteq Refs \cap (there \X there)
  BY <1>1 DEF Wanted
<1> QED
  BY <1>1, <1>2, <1>3 DEF Types, TargetOK

LEMMA CleanStep == ASSUME Types, Clean PROVE TargetOK'
<1>1. /\ there' = Tables /\ typed' = Typed /\ fks' = {}
      /\ rows' = [t \in Tables |-> {}] /\ doubled' = rows' /\ next' = [t \in Tables |-> 1]
  BY DEF Clean
<1>2. Typed \subseteq Tables /\ 1 \in 1..MaxId + 1
  BY RefsAssumption, BoundsAssumption
<1> QED
  BY <1>1, <1>2 DEF TargetOK

LEMMA RestoreEndsStep == ASSUME Types, Course, RestoreEnds PROVE TargetOK'
<1>1. UNCHANGED <<there, rows, doubled, typed>> /\ pc = "pipe"
  BY DEF RestoreEnds
<1>2. CASE UNCHANGED <<next, fks>>
  BY <1>1, <1>2 DEF Types, TargetOK
<1>3. CASE /\ dump = "ended"
           /\ next' = [t \in Tables |-> IF mode = "tools schema" \/ seen[t] = {} THEN next[t] ELSE Largest(seen[t]) + 1]
           /\ fks' = IF mode = "tools data" THEN fks
                      ELSE {k \in Refs : Resolved(k[1], rows[k[1]], rows, {k})}
  <2>1. ASSUME NEW t \in Tables
        PROVE  (IF mode = "tools schema" \/ seen[t] = {} THEN next[t] ELSE Largest(seen[t]) + 1) \in 1..MaxId + 1
    <3>1. seen[t] \in SUBSET Row /\ next[t] \in 1..MaxId + 1
      BY <1>1 DEF Types, TargetOK, ReadingOK, Course
    <3>2. ASSUME seen[t] # {} PROVE Largest(seen[t]) + 1 \in 1..MaxId + 1
      <4>1. Largest(seen[t]) \in Ids
        BY <3>1, <3>2, LargestIs
      <4> QED
        BY <4>1, BoundsAssumption DEF Ids
    <3> QED
      BY <3>1, <3>2
  <2>2. next' \in [Tables -> 1..MaxId + 1]
    BY <1>3, <2>1
  <2>3. mode \in {"tools", "tools schema", "tools data"}
    BY <1>1, ModesAssumption DEF Types, OutsideOK, Course
  <2>4. fks' \subseteq Refs \cap (there \X there)
    <3>1. CASE mode = "tools data"
      BY <1>3, <3>1 DEF Types, TargetOK
    <3>2. CASE mode \in {"tools", "tools schema"}
      <4>1. there = Tables
        BY <1>3, <3>2 DEF Course
      <4> QED
        BY <1>3, <3>2, <4>1, RefsAssumption
    <3> QED
      BY <2>3, <3>1, <3>2
  <2> QED
    BY <1>1, <2>2, <2>4 DEF Types, TargetOK
<1> QED
  BY <1>2, <1>3 DEF RestoreEnds

LEMMA LoadStep == ASSUME Types, Course, Load PROVE TargetOK'
<1>1. CASE UNCHANGED target
  BY <1>1, TargetSame DEF Types
<1>2. ASSUME Accepted(table, seen[table]), Lands(table, seen[table]) PROVE TargetOK'
  <2>1. table \in Tables /\ pc = "pipe"
    BY TableLeft DEF Types, Load
  <2>2. seen[table] \in SUBSET Row
    BY <2>1 DEF Types, ReadingOK, Course
  <2>3. table \in there
    BY <1>2 DEF Accepted
  <2> QED
    BY <1>2, <2>2, <2>3, Landing DEF Types
<1> QED
  BY <1>1, <1>2 DEF Load

LEMMA InsertStep ==
    ASSUME Types, Accepted(table, batch), Lands(table, batch)
    PROVE  TargetOK'
<1>1. table \in there
  BY DEF Accepted
<1> QED
  BY <1>1, Landing DEF Types, ReadingOK

LEMMA TargetStep == ASSUME Types, Course, Created, [Next]_vars PROVE TargetOK'
<1>1. CASE UNCHANGED target
  BY <1>1, TargetSame DEF Types
<1>2. CASE DropTable
  BY <1>2, DropStep
<1>3. CASE ReplaceTypes
  BY <1>3 DEF ReplaceTypes, Types, TargetOK
<1>4. CASE CreateTable
  BY <1>4, CreateStep
<1>5. CASE Truncate
  BY <1>5, TruncateStep
<1>6. CASE Insert
  BY <1>6, InsertStep DEF Insert
<1>7. CASE InsertLost
  BY <1>1, <1>7, InsertStep DEF InsertLost
<1>8. CASE ResetSequence
  BY <1>8, SequenceStep
<1>9. CASE AddKeys
  BY <1>9, KeysStep
<1>10. CASE Clean
  BY <1>10, CleanStep
<1>11. CASE Load
  BY <1>11, LoadStep
<1>12. CASE RestoreEnds
  BY <1>12, RestoreEndsStep
<1>13. CASE \E t \in Tables : Write(t)
  BY <1>1, <1>13 DEF Write
<1>14. CASE \E tables \in SUBSET Tables : Start(tables)
  BY <1>1, <1>14 DEF Start
<1>15. CASE OpenCursor \/ Fetch \/ InsertRefused \/ ReadFails \/ StatementFails
  BY <1>1, <1>15 DEF OpenCursor, Fetch, InsertRefused, ReadFails, StatementFails
<1>16. CASE Spawn \/ DumpEnds \/ DumpClosed \/ RestoreClosed
           \/ SpawnError \/ RestoreDies \/ PipeBreaks
  BY <1>1, <1>16 DEF Spawn, DumpEnds, DumpClosed, RestoreClosed, SpawnError,
         RestoreDies, PipeBreaks
<1>17. CASE UNCHANGED vars
  BY <1>1, <1>17 DEF vars
<1> QED
  BY <1>2, <1>3, <1>4, <1>5, <1>6, <1>7, <1>8, <1>9, <1>10, <1>11, <1>12, <1>13, <1>14, <1>15,
     <1>16, <1>17 DEF Next, Driver, Tools, Finished

(***************************************************************************)
(* The source.                                                             *)
(***************************************************************************)

\* A write keeps one row for each id, and every reference.
LEMMA WriteStep ==
    ASSUME OutsideOK, SourceKept, NEW t \in Tables, Write(t)
    PROVE  OutsideOK' /\ \A u \in Tables : (Distinct(source[u]) /\ Resolved(u, source[u], source, Refs))'
<1>1. PICK rs \in SUBSET Row :
          source' = [source EXCEPT ![t] = rs] /\ MayHold(t, rs) /\ Distinct(rs)
  <2>1. source[t] \in SUBSET Row /\ Distinct(source[t])
    BY DEF OutsideOK, SourceKept
  <2>2. CASE \E r \in Row : /\ r.id \notin IdsOf(source[t])
                            /\ MayHold(t, source[t] \cup {r})
                            /\ source' = [source EXCEPT ![t] = @ \cup {r}]
    <3>1. PICK r \in Row : /\ r.id \notin IdsOf(source[t])
                           /\ MayHold(t, source[t] \cup {r})
                           /\ source' = [source EXCEPT ![t] = @ \cup {r}]
      BY <2>2
    <3>2. \A q \in source[t] : q.id # r.id
      BY <3>1 DEF IdsOf
    <3>3. Distinct(source[t] \cup {r})
      BY <2>1, <3>2 DEF Distinct
    <3> QED
      BY <2>1, <3>1, <3>3
  <2>3. CASE \E r \in source[t] : /\ MayHold(t, source[t] \ {r})
                                  /\ source' = [source EXCEPT ![t] = @ \ {r}]
    <3>1. PICK r \in source[t] : /\ MayHold(t, source[t] \ {r})
                                 /\ source' = [source EXCEPT ![t] = @ \ {r}]
      BY <2>3
    <3>2. Distinct(source[t] \ {r})
      BY <2>1 DEF Distinct
    <3> QED
      BY <2>1, <3>1, <3>2
  <2> QED
    BY <2>2, <2>3 DEF Write
<1>2. source' \in [Tables -> SUBSET Row]
  BY <1>1 DEF OutsideOK
<1>3. ASSUME NEW u \in Tables
      PROVE  Distinct(source'[u]) /\ Resolved(u, source'[u], source', Refs)
  <2>1. source'[u] = IF u = t THEN rs ELSE source[u]
    BY <1>1 DEF OutsideOK
  <2>2. Distinct(source'[u])
    BY <1>1, <2>1 DEF SourceKept
  <2>3. Resolved(u, source'[u], source', Refs)
    BY <1>1, <2>1 DEF MayHold
  <2> QED
    BY <2>2, <2>3
<1>4. mode' = mode /\ quiet' \in BOOLEAN /\ writes' \in 0..MaxWrites
  BY BoundsAssumption DEF Write, OutsideOK
<1>5. OutsideOK'
  BY <1>2, <1>4 DEF OutsideOK
<1> QED
  BY <1>3, <1>5 DEF Distinct, Resolved

\* Nothing else touches the source.
LEMMA OutsideSame == [Next]_vars => (\E t \in Tables : Write(t)) \/ UNCHANGED outside
<1>1. Driver => UNCHANGED outside
  BY DEF Driver, outside, Start, DropTable, ReplaceTypes, CreateTable, Truncate, OpenCursor, Fetch,
         Insert, InsertLost, InsertRefused, ReadFails, ResetSequence, AddKeys, StatementFails
<1>2. Tools \/ PipeBreaks => UNCHANGED outside
  BY DEF Tools, outside, Spawn, Clean, Load, DumpEnds, RestoreEnds, DumpClosed, RestoreClosed, SpawnError,
         RestoreDies, PipeBreaks
<1>3. UNCHANGED vars => UNCHANGED outside
  BY DEF vars, outside
<1> QED
  BY <1>1, <1>2, <1>3 DEF Next, Finished

LEMMA OutsideStep ==
    ASSUME OutsideOK, SourceKept, [Next]_vars
    PROVE  OutsideOK' /\ \A t \in Tables : (Distinct(source[t]) /\ Resolved(t, source[t], source, Refs))'
<1>1. CASE \E t \in Tables : Write(t)
  BY <1>1, WriteStep
<1>2. CASE UNCHANGED outside
  BY <1>2 DEF outside, OutsideOK, SourceKept, Distinct, Resolved
<1> QED
  BY <1>1, <1>2, OutsideSame

(***************************************************************************)
(* The loops.                                                              *)
(***************************************************************************)

\* The tables of a batch or a snapshot, and the end of one.
LEMMA Ending ==
    ASSUME Types, Opened, pc \in Copying, NEW given \in SUBSET {table}, TableEnds(given),
           chosen' = chosen
    PROVE  LoopOK' /\ ReadingOK'
<1>1. table \in chosen
  BY TableLeft DEF Types, Opened
<1>2. /\ pc' = "tables" /\ todo' = todo \ {table} /\ failed' = failed \cup given
      /\ cursor' = {} /\ batch' = {} /\ tries' = 0 /\ seen' = seen /\ unset' = unset
  BY DEF TableEnds, Goes
<1>3. LoopOK'
  BY <1>1, <1>2 DEF Types, LoopOK
<1>4. ReadingOK'
  BY <1>2, SizesAssumption DEF Types, ReadingOK
<1> QED
  BY <1>3, <1>4

LEMMA OpenStep == ASSUME Types, OpenCursor PROVE LoopOK' /\ ReadingOK'
<1>1. chosen' = chosen /\ UNCHANGED <<batch, tries, failed, unset>>
  BY DEF OpenCursor
<1>2. CASE todo = {}
  BY <1>1, <1>2 DEF OpenCursor, Goes, Types, LoopOK, ReadingOK
<1>3. CASE todo # {}
  <2> DEFINE x == table
  <2>1. x \in chosen /\ x \in Tables
    BY <1>3, TableLeft DEF Types
  <2>2. /\ pc' = "fetch" /\ cursor' = source[x] /\ todo' = todo
        /\ seen' = [t \in DOMAIN seen \cup {x} |-> IF t = x THEN source[t] ELSE seen[t]]
    BY <1>3 DEF OpenCursor
  <2> HIDE DEF x
  <2>3. source[x] \in SUBSET Row
    BY <2>1 DEF Types, OutsideOK
  <2>4. DOMAIN seen' = DOMAIN seen \cup {x}
    BY <2>2
  <2>5. \A t \in DOMAIN seen' : t \in chosen' /\ seen'[t] \in SUBSET Row
    BY <1>1, <2>1, <2>2, <2>3 DEF Types, ReadingOK
  <2>6. LoopOK'
    BY <1>1, <2>2 DEF Types, LoopOK
  <2> QED
    BY <1>1, <2>2, <2>3, <2>5, <2>6 DEF Types, ReadingOK
<1> QED
  BY <1>2, <1>3

LEMMA FetchStep == ASSUME Types, Opened, Fetch PROVE LoopOK' /\ ReadingOK'
<1>1. chosen' = chosen /\ pc = "fetch"
  BY DEF Fetch
<1>2. CASE TableEnds({})
  BY <1>1, <1>2, Ending DEF Copying
<1>3. CASE \E rs \in SUBSET cursor :
               /\ batch' = rs /\ cursor' = cursor \ rs /\ pc' = "insert"
               /\ UNCHANGED <<todo, tries, failed, seen, unset>>
  BY <1>1, <1>3 DEF Types, LoopOK, ReadingOK
<1> QED
  BY <1>2, <1>3 DEF Fetch

LEMMA SendStep ==
    ASSUME Types, Opened, Insert \/ InsertLost \/ InsertRefused
    PROVE  LoopOK' /\ ReadingOK'
<1>1. chosen' = chosen /\ pc = "insert"
  BY DEF Insert, InsertLost, InsertRefused
<1>2. CASE TableEnds({}) \/ TableEnds({table})
  BY <1>1, <1>2, Ending DEF Copying
<1>3. CASE /\ pc' = "fetch" /\ batch' = {} /\ tries' = 0
           /\ UNCHANGED <<todo, cursor, failed, seen, unset>>
  BY <1>1, <1>3, SizesAssumption DEF Types, LoopOK, ReadingOK
<1>4. CASE /\ tries # MaxRetries /\ tries' = tries + 1
           /\ UNCHANGED <<pc, todo, cursor, batch, seen, failed, unset>>
  <2>1. tries' \in 0..MaxRetries
    BY <1>4, SizesAssumption DEF Types, ReadingOK
  <2> QED
    BY <1>1, <1>4, <2>1 DEF Types, LoopOK, ReadingOK
<1> QED
  BY <1>2, <1>3, <1>4 DEF Insert, InsertLost, InsertRefused

LEMMA TableByTable ==
    ASSUME Types, DropTable \/ CreateTable \/ ResetSequence \/ AddKeys
    PROVE  LoopOK' /\ ReadingOK'
<1>1. UNCHANGED <<chosen, cursor, batch, tries, seen, failed>>
  BY DEF DropTable, CreateTable, ResetSequence, AddKeys, reading
<1>2. ReadingOK'
  BY <1>1 DEF Types, ReadingOK
<1>3. CASE todo = {}
  BY <1>1, <1>2, <1>3 DEF DropTable, CreateTable, ResetSequence, AddKeys, Goes, Types, LoopOK
<1>4. CASE todo # {}
  <2>1. table \in chosen
    BY <1>4, TableLeft DEF Types
  <2>2. todo' \subseteq todo /\ pc' \in {"drop", "create", "sequences", "keys"}
    BY <1>4 DEF DropTable, CreateTable, ResetSequence, AddKeys, Goes
  <2>3. unset' \subseteq unset \cup {table}
    BY <1>4 DEF DropTable, CreateTable, ResetSequence, AddKeys
  <2> QED
    BY <1>1, <1>2, <2>1, <2>2, <2>3 DEF Types, LoopOK
<1> QED
  BY <1>3, <1>4

LEMMA LoopStep ==
    ASSUME Types, Opened, [Next]_vars
    PROVE  LoopOK' /\ ReadingOK'
<1>1. CASE \E t \in Tables : Write(t)
  BY <1>1 DEF Write, driver, reading, Types, LoopOK, ReadingOK
<1>2. CASE \E tables \in SUBSET Tables : Start(tables)
  <2>1. PICK tables \in SUBSET Tables : Start(tables)
    BY <1>2
  <2>2. /\ chosen' = tables /\ todo' = tables /\ pc' \in {"truncate", "drop"}
        /\ UNCHANGED <<cursor, batch, tries, seen, failed, unset>>
    BY <2>1 DEF Start, Goes, reading
  <2>3. DOMAIN seen = {} /\ failed = {} /\ unset = {}
    BY <2>1 DEF Start, Opened
  <2> QED
    BY <2>2, <2>3 DEF Types, LoopOK, ReadingOK
<1>3. CASE DropTable \/ CreateTable \/ ResetSequence \/ AddKeys
  BY <1>3, TableByTable
<1>4. CASE ReplaceTypes
  BY <1>4 DEF ReplaceTypes, reading, Goes, Types, LoopOK, ReadingOK
<1>5. CASE Truncate
  BY <1>5 DEF Truncate, reading, Goes, Types, LoopOK, ReadingOK
<1>6. CASE OpenCursor
  BY <1>6, OpenStep
<1>7. CASE Fetch
  BY <1>7, FetchStep
<1>8. CASE Insert \/ InsertLost \/ InsertRefused
  BY <1>8, SendStep
<1>9. CASE ReadFails
  BY <1>9, Ending DEF ReadFails, Copying
<1>10. CASE StatementFails
  BY <1>10 DEF StatementFails, driver, reading, Types, LoopOK, ReadingOK
<1>11. CASE Spawn
  <2>1. /\ chosen' = Tables /\ todo' \in {{}, Tables} /\ pc' = "pipe" /\ seen' = source
        /\ UNCHANGED <<cursor, batch, tries, failed, unset>>
    BY <1>11 DEF Spawn, Goes
  <2>2. source \in [Tables -> SUBSET Row]
    BY DEF Types, OutsideOK
  <2> QED
    BY <2>1, <2>2 DEF Types, LoopOK, ReadingOK
<1>12. CASE Load
  BY <1>12 DEF Load, reading, Types, LoopOK, ReadingOK
<1>13. CASE Clean \/ DumpEnds \/ RestoreEnds \/ DumpClosed \/ RestoreClosed
           \/ SpawnError \/ RestoreDies \/ PipeBreaks
  BY <1>13 DEF Clean, DumpEnds, RestoreEnds, DumpClosed, RestoreClosed, SpawnError,
         RestoreDies, PipeBreaks, driver, reading,
               Types, LoopOK, ReadingOK
<1>14. CASE UNCHANGED vars
  BY <1>14 DEF vars, driver, reading, Types, LoopOK, ReadingOK
<1> QED
  BY <1>1, <1>2, <1>3, <1>4, <1>5, <1>6, <1>7, <1>8, <1>9, <1>10, <1>11, <1>12, <1>13, <1>14
     DEF Next, Driver, Tools, Finished

LEMMA TypesStep ==
    ASSUME Types, SourceKept, Course, Opened, Created, [Next]_vars
    PROVE  Types'
<1>1. TargetOK' /\ LoopOK' /\ ReadingOK' /\ OutsideOK'
  BY TargetStep, LoopStep, OutsideStep DEF Types
<1>2. failures' \in 0..MaxFailures
  <2>1. failures' = failures \/ (failures < MaxFailures /\ failures' = failures + 1)
    <3>1. Driver => failures' = failures \/ (failures < MaxFailures /\ failures' = failures + 1)
      BY DEF Driver, Start, DropTable, ReplaceTypes, CreateTable, Truncate, OpenCursor, Fetch,
             Insert, InsertLost, InsertRefused, ReadFails, ResetSequence, AddKeys, StatementFails
    <3>2. Tools \/ PipeBreaks => failures' = failures \/ (failures < MaxFailures /\ failures' = failures + 1)
      BY DEF Tools, Spawn, Clean, Load, DumpEnds, RestoreEnds, DumpClosed, RestoreClosed, SpawnError,
         RestoreDies, PipeBreaks
    <3>3. (\E t \in Tables : Write(t)) \/ UNCHANGED vars => failures' = failures
      BY DEF Write, vars
    <3> QED
      BY <3>1, <3>2, <3>3 DEF Next, Finished
  <2> QED
    BY <2>1, BoundsAssumption DEF Types
<1>3. ToolsOK'
  <2>1. Driver => UNCHANGED tools
    BY DEF Driver, Start, DropTable, ReplaceTypes, CreateTable, Truncate, OpenCursor, Fetch,
           Insert, InsertLost, InsertRefused, ReadFails, ResetSequence, AddKeys, StatementFails
  <2>2. (\E t \in Tables : Write(t)) \/ UNCHANGED vars => UNCHANGED tools
    BY DEF Write, vars, tools
  <2>3. CASE UNCHANGED tools
    BY <2>3 DEF tools, Types, ToolsOK
  <2>4. CASE Tools \/ PipeBreaks
    BY <2>4 DEF tools, Types, ToolsOK, Tools, Spawn, Clean, Load, DumpEnds, RestoreEnds, DumpClosed,
                RestoreClosed, SpawnError,
         RestoreDies, PipeBreaks
  <2> QED
    BY <2>1, <2>2, <2>3, <2>4 DEF Next, Finished
<1> QED
  BY <1>1, <1>2, <1>3 DEF Types

\* The tools come and go without the driver, and the driver without them.
LEMMA CourseStep == ASSUME Types, Course, [Next]_vars PROVE Course'
<1> USE DEF Course
<1>1. CASE (\E t \in Tables : Write(t)) \/ UNCHANGED vars
  BY <1>1 DEF Write, vars, target, driver, reading, tools
<1>2. CASE \E tables \in SUBSET Tables : Start(tables)
  <2>1. /\ mode' = mode /\ pc' = IF mode = "data" THEN "truncate" ELSE "drop"
        /\ mode \in {"full", "schema", "data"} /\ UNCHANGED <<dump, there>>
    BY <1>2 DEF Start, Goes, outside, tools, target
  <2> QED
    BY <2>1
<1>3. CASE DropTable \/ ReplaceTypes \/ CreateTable \/ Truncate \/ StatementFails
  <2>1. /\ mode' = mode /\ dump' = dump
        /\ pc' \in {"drop", "types", "create", "tables", "failed", "keys"}
        /\ pc' = "keys" => mode = "schema"
        /\ pc' = "tables" => mode # "schema"
        /\ pc \in {"drop", "types", "create", "truncate"}
    BY <1>3 DEF DropTable, ReplaceTypes, CreateTable, Truncate, StatementFails, Goes, outside, tools
  <2>2. pc = "truncate" => pc' \in {"tables", "failed"}
    BY <1>3 DEF DropTable, ReplaceTypes, CreateTable, Truncate, StatementFails, Goes
  <2>3. pc = "truncate" => mode = "data"
    BY ModesAssumption DEF Types, OutsideOK
  <2> QED
    BY <2>1, <2>2, <2>3
<1>4. CASE \/ OpenCursor \/ Fetch \/ Insert \/ InsertLost \/ InsertRefused \/ ReadFails
           \/ ResetSequence \/ AddKeys
  <2>1. /\ mode' = mode /\ dump' = dump
        /\ pc \in {"tables", "fetch", "insert", "sequences", "keys"}
        /\ pc' \in {"tables", "fetch", "insert", "sequences", "keys", "copied"}
        /\ pc \in {"tables", "fetch", "insert", "sequences"} /\ pc' = "keys" => mode # "data"
        /\ pc = "keys" => pc' \in {"keys", "copied"}
    BY <1>4 DEF OpenCursor, Fetch, Insert, InsertLost, InsertRefused, ReadFails, ResetSequence,
                AddKeys, TableEnds, Goes, outside, tools
  <2> QED
    BY <2>1
<1>5. CASE Spawn
  <2>1. /\ mode' = mode /\ pc' = "pipe" /\ mode \in {"tools", "tools schema", "tools data"} /\ seen' = source
        /\ UNCHANGED <<dump, there>>
    BY <1>5 DEF Spawn, Goes, outside, tools, target
  <2>2. DOMAIN source = Tables
    BY DEF Types, OutsideOK
  <2> QED
    BY <2>1, <2>2
<1>6. CASE Clean \/ Load
  <2>1. /\ UNCHANGED <<mode, pc, dump, seen>> /\ dump = "running"
    BY <1>6 DEF Clean, Load, driver, reading, outside, tools
  <2> QED
    BY <2>1
<1>7. CASE DumpEnds
  <2>1. UNCHANGED <<mode, pc, there, seen>> /\ (dump' = "ended" => Replaced)
    BY <1>7 DEF DumpEnds, driver, reading, outside, target
  <2> QED
    BY <2>1 DEF Replaced
<1>8. CASE RestoreEnds \/ DumpClosed \/ RestoreClosed
           \/ SpawnError \/ RestoreDies \/ PipeBreaks
  <2>1. UNCHANGED <<mode, dump, there, seen>> /\ pc = "pipe" /\ pc' \in {"pipe", "copied", "failed"}
    BY <1>8 DEF RestoreEnds, DumpClosed, RestoreClosed, SpawnError,
         RestoreDies, PipeBreaks, driver, reading, outside, target, tools
  <2> QED
    BY <2>1
<1> QED
  BY <1>1, <1>2, <1>3, <1>4, <1>5, <1>6, <1>7, <1>8 DEF Next, Driver, Tools, Finished

LEMMA TableSame == todo' = todo => table' = table
BY DEF table

\* A table is opened once, and closed before the next.
LEMMA OpenedStep == ASSUME Types, Course, Opened, [Next]_vars PROVE Opened'
<1> USE DEF Opened, Copying, Reading
<1>1. CASE (\E t \in Tables : Write(t)) \/ UNCHANGED vars
  BY <1>1, TableSame DEF Write, vars, driver, reading
<1>2. CASE \E tables \in SUBSET Tables : Start(tables)
  <2>1. pc = "idle" /\ pc' \in {"truncate", "drop"} /\ UNCHANGED <<cursor, batch, seen, failed, unset>>
    BY <1>2 DEF Start, Goes, reading
  <2> QED
    BY <2>1
<1>3. CASE DropTable \/ ReplaceTypes \/ CreateTable \/ Truncate \/ StatementFails
  <2>1. /\ pc \in {"drop", "types", "create", "truncate"}
        /\ pc' \in {"drop", "types", "create", "tables", "failed", "keys"}
        /\ UNCHANGED <<cursor, batch, seen, failed, unset, chosen, mode>>
        /\ pc' = "tables" => todo' = chosen
        /\ pc' = "keys" => mode = "schema"
    BY <1>3 DEF DropTable, ReplaceTypes, CreateTable, Truncate, StatementFails, Goes, driver,
                reading, outside
  <2> QED
    BY <2>1
<1>4. CASE OpenCursor
  <2>1. pc = "tables" /\ UNCHANGED <<batch, failed, unset, chosen, mode>>
    BY <1>4 DEF OpenCursor, outside
  <2>2. CASE todo = {}
    <3>1. pc' = "sequences" /\ UNCHANGED <<cursor, seen>>
      BY <1>4, <2>2 DEF OpenCursor, Goes
    <3> QED
      BY <2>1, <2>2, <3>1
  <2>3. CASE todo # {}
    <3>1. pc' = "fetch" /\ todo' = todo /\ DOMAIN seen' = DOMAIN seen \cup {table}
      BY <1>4, <2>3 DEF OpenCursor
    <3>2. table \in todo /\ table' = table
      BY <2>3, <3>1, TableLeft, TableSame DEF Types
    <3> HIDE DEF table
    <3> QED
      BY <2>1, <2>3, <3>1, <3>2
  <2> QED
    BY <2>2, <2>3
<1>5. ASSUME pc \in Copying, NEW given \in SUBSET {table}, TableEnds(given), chosen' = chosen, mode' = mode
      PROVE  Opened'
  <2>1. /\ pc' = "tables" /\ todo' = todo \ {table} /\ seen' = seen /\ cursor' = {} /\ batch' = {}
        /\ unset' = unset
    BY <1>5 DEF TableEnds, Goes
  <2>2. table \in DOMAIN seen
    BY <1>5
  <2> QED
    BY <1>5, <2>1, <2>2
<1>6. CASE Fetch
  <2>1. pc = "fetch" /\ UNCHANGED <<chosen, mode>>
    BY <1>6 DEF Fetch, outside
  <2>2. CASE pc' = "insert" /\ UNCHANGED <<todo, seen, unset>>
    BY <2>1, <2>2, TableSame
  <2> QED
    BY <1>5, <1>6, <2>1, <2>2 DEF Fetch
<1>7. CASE Insert \/ InsertLost \/ InsertRefused
  <2>1. pc = "insert" /\ UNCHANGED <<chosen, mode>>
    BY <1>7 DEF Insert, InsertLost, InsertRefused, outside
  <2>2. CASE /\ UNCHANGED <<todo, seen, unset>>
             /\ pc' = "insert" \/ (pc' = "fetch" /\ batch' = {})
    BY <2>1, <2>2, TableSame
  <2>3. CASE TableEnds({}) \/ TableEnds({table})
    BY <1>5, <2>1, <2>3
  <2> QED
    BY <1>7, <2>1, <2>2, <2>3 DEF Insert, InsertLost, InsertRefused
<1>8. CASE ReadFails
  BY <1>5, <1>8 DEF ReadFails, outside
<1>9. CASE ResetSequence \/ AddKeys
  <2>1. /\ pc \in {"sequences", "keys"} /\ pc' \in {"sequences", "keys", "copied"}
        /\ UNCHANGED <<cursor, batch, seen, failed, chosen, mode>>
    BY <1>9 DEF ResetSequence, AddKeys, Goes, reading, outside
  <2> QED
    BY <2>1
<1>10. CASE Spawn
  <2>1. pc = "idle" /\ pc' = "pipe" /\ UNCHANGED <<cursor, batch>>
    BY <1>10 DEF Spawn, Goes
  <2> QED
    BY <2>1
<1>11. CASE Clean \/ Load \/ DumpEnds \/ RestoreEnds \/ DumpClosed \/ RestoreClosed
           \/ SpawnError \/ RestoreDies \/ PipeBreaks
  <2>1. /\ pc = "pipe" /\ pc' \in {"pipe", "copied", "failed"} /\ UNCHANGED <<cursor, batch, mode>>
    BY <1>11 DEF Clean, Load, DumpEnds, RestoreEnds, DumpClosed, RestoreClosed, SpawnError,
         RestoreDies, PipeBreaks, driver, reading, outside
  <2>2. mode \notin {"full", "data"}
    BY <2>1 DEF Course
  <2> QED
    BY <2>1, <2>2
<1> QED
  BY <1>1, <1>2, <1>3, <1>4, <1>6, <1>7, <1>8, <1>9, <1>10, <1>11 DEF Next, Driver, Tools, Finished

\* What the snapshots held is as the source was: a row for each id.
LEMMA SourceKeptStep == ASSUME Types, SourceKept, [Next]_vars PROVE SourceKept'
<1>1. \A t \in Tables : (Distinct(source[t]) /\ Resolved(t, source[t], source, Refs))'
  BY OutsideStep DEF Types
<1>2. CASE seen' = seen
  BY <1>1, <1>2 DEF SourceKept, Distinct
<1>3. CASE OpenCursor
  <2>1. \A t \in DOMAIN seen' : \/ t \in DOMAIN seen /\ seen'[t] = seen[t]
                                \/ t \in Tables /\ seen'[t] = source[t]
    <3>1. CASE todo = {}
      BY <1>3, <3>1 DEF OpenCursor
    <3>2. CASE todo # {}
      <4>1. table \in Tables
        BY <3>2, TableLeft DEF Types
      <4>2. seen' = [t \in DOMAIN seen \cup {table} |-> IF t = table THEN source[t] ELSE seen[t]]
        BY <1>3, <3>2 DEF OpenCursor
      <4> HIDE DEF table
      <4> QED
        BY <4>1, <4>2
    <3> QED
      BY <3>1, <3>2
  <2> QED
    BY <1>1, <2>1 DEF SourceKept, Distinct
<1>4. CASE Spawn
  <2>1. seen' = source /\ source \in [Tables -> SUBSET Row]
    BY <1>4 DEF Spawn, Types, OutsideOK
  <2> QED
    BY <1>1, <2>1 DEF SourceKept, Distinct
<1>5. CASE (\E t \in Tables : Write(t)) \/ UNCHANGED vars
  BY <1>2, <1>5 DEF Write, vars, driver, reading
<1>6. Driver => OpenCursor \/ seen' = seen
  BY DEF Driver, Start, DropTable, ReplaceTypes, CreateTable, Truncate, OpenCursor, Fetch, TableEnds,
         Insert, InsertLost, InsertRefused, ReadFails, ResetSequence, AddKeys, StatementFails,
         driver, reading
<1>7. Tools \/ PipeBreaks => Spawn \/ seen' = seen
  BY DEF Tools, Spawn, Clean, Load, DumpEnds, RestoreEnds, DumpClosed, RestoreClosed, SpawnError,
         RestoreDies, PipeBreaks, driver, reading
<1> QED
  BY <1>2, <1>3, <1>4, <1>5, <1>6, <1>7 DEF Next, Finished

\* Tables are created before they are filled.
LEMMA CreatedStep == ASSUME Types, Created, Opened, Course, [Next]_vars PROVE Created'
<1> USE DEF Created, Reading, Copying
<1>1. CASE (\E t \in Tables : Write(t)) \/ UNCHANGED vars
  BY <1>1 DEF Write, vars, driver, target
<1>2. CASE \E tables \in SUBSET Tables : Start(tables)
  BY <1>2 DEF Start, Goes
<1>3. CASE DropTable \/ ReplaceTypes \/ StatementFails
  <2>1. \/ pc' \in {"drop", "types", "failed"}
        \/ pc' = "create" /\ chosen' = chosen /\ todo' = chosen
    BY <1>3 DEF DropTable, ReplaceTypes, StatementFails, Goes
  <2> QED
    BY <2>1
<1>4. CASE CreateTable
  <2>1. pc = "create" /\ chosen' = chosen
    BY <1>4 DEF CreateTable
  <2>2. CASE todo = {}
    BY <1>4, <2>1, <2>2 DEF CreateTable, Goes, target
  <2>3. CASE todo # {}
    BY <1>4, <2>1, <2>3 DEF CreateTable, Create, Goes
  <2> QED
    BY <2>2, <2>3
<1>5. CASE Truncate
  BY <1>5 DEF Truncate, Goes
<1>6. ASSUME pc \in Reading \cup {"sequences", "keys"}, UNCHANGED <<chosen, there>>,
             pc' \in Reading \cup {"sequences", "keys", "copied"}
      PROVE  Created'
  BY <1>6
<1>7. CASE OpenCursor \/ Fetch \/ InsertRefused \/ ReadFails
  BY <1>6, <1>7 DEF OpenCursor, Fetch, InsertRefused, ReadFails, TableEnds, Goes, target
<1>8. CASE Insert \/ InsertLost
  BY <1>6, <1>8 DEF Insert, InsertLost, TableEnds, Goes, Lands, target
<1>9. CASE ResetSequence \/ AddKeys
  BY <1>6, <1>9 DEF ResetSequence, AddKeys, Goes
<1>10. CASE Tools \/ PipeBreaks
  BY <1>10 DEF Tools, Spawn, Clean, Load, DumpEnds, RestoreEnds, DumpClosed, RestoreClosed, SpawnError,
         RestoreDies, PipeBreaks, Goes
<1> QED
  BY <1>1, <1>2, <1>3, <1>4, <1>5, <1>7, <1>8, <1>9, <1>10 DEF Next, Driver, Finished

(***************************************************************************)
(* The rows.                                                               *)
(***************************************************************************)

\* Tables stay empty until they are opened.
LEMMA EmptiedStep == ASSUME Types, Opened, Emptied, [Next]_vars PROVE Emptied'
<1> USE DEF Emptied, Reading, Copying
<1>1. ASSUME UNCHANGED <<rows, doubled, chosen>>, DOMAIN seen \subseteq DOMAIN seen',
             \/ pc' \notin {"types", "create", "drop"} \cup Reading
             \/ pc' \in {"types", "create"} \cup Reading /\ pc \in {"types", "create"} \cup Reading
             \/ pc = "drop" /\ ((pc' = "drop" /\ todo' = todo) \/ todo = {})
      PROVE  Emptied'
  BY <1>1
<1>2. CASE (\E t \in Tables : Write(t)) \/ UNCHANGED vars
  BY <1>2 DEF Write, vars, driver, reading, target
<1>3. CASE \E tables \in SUBSET Tables : Start(tables)
  BY <1>3 DEF Start, Goes
<1>4. CASE DropTable
  <2>1. pc = "drop" /\ pc' \in {"drop", "types"} /\ UNCHANGED <<chosen, seen>>
    BY <1>4 DEF DropTable, Goes, reading
  <2>2. CASE todo = {}
    BY <1>4, <2>1, <2>2 DEF DropTable, target
  <2>3. CASE todo # {}
    <3> DEFINE x == lastTable
    <3>1. /\ todo' = todo \ {x} /\ rows' = [rows EXCEPT ![x] = {}]
          /\ doubled' = [doubled EXCEPT ![x] = {}]  /\ pc' = "drop"
      BY <1>4, <2>3 DEF DropTable, Drop, Goes
    <3>2. rows \in [Tables -> SUBSET Row] /\ doubled \in [Tables -> SUBSET Row] /\ chosen \subseteq Tables
      BY DEF Types, TargetOK, LoopOK
    <3> HIDE DEF x
    <3> QED
      BY <2>1, <3>1, <3>2
  <2> QED
    BY <2>2, <2>3
<1>5. CASE ReplaceTypes
  BY <1>1, <1>5 DEF ReplaceTypes, Goes, reading
<1>6. CASE CreateTable
  <2>1. UNCHANGED <<rows, doubled, chosen, seen>>
    BY <1>6 DEF CreateTable, Create, target, reading
  <2> QED
    BY <1>1, <1>6, <2>1 DEF CreateTable, Goes
<1>7. CASE StatementFails
  BY <1>7 DEF StatementFails
<1>8. CASE Truncate
  <2>1. CASE chosen \subseteq there
    <3>1. /\ rows' = [t \in Tables |-> IF t \in Cascade(chosen) THEN {} ELSE rows[t]]
          /\ doubled' = [t \in Tables |-> doubled[t] \cap rows'[t]] /\ chosen' = chosen
      BY <1>8, <2>1 DEF Truncate
    <3>2. chosen \subseteq Cascade(chosen) /\ chosen \subseteq Tables
      BY <2>1 DEF Cascade, Types, LoopOK
    <3> QED
      BY <3>1, <3>2
  <2>2. CASE ~(chosen \subseteq there)
    BY <1>8, <2>2 DEF Truncate, Goes
  <2> QED
    BY <2>1, <2>2
<1>9. CASE OpenCursor
  <2>1. UNCHANGED <<rows, doubled, chosen>> /\ pc = "tables" /\ pc' \in {"sequences", "fetch"}
    BY <1>9 DEF OpenCursor, target, Goes
  <2>2. DOMAIN seen \subseteq DOMAIN seen'
    BY <1>9 DEF OpenCursor
  <2> QED
    BY <1>1, <2>1, <2>2
<1>10. CASE Fetch \/ InsertRefused \/ ReadFails
  <2>1. UNCHANGED <<rows, doubled, chosen, seen>> /\ pc \in Copying
    BY <1>10 DEF Fetch, InsertRefused, ReadFails, TableEnds, target
  <2> QED
    BY <1>1, <2>1
<1>11. CASE Insert \/ InsertLost
  <2>1. UNCHANGED <<chosen, seen>> /\ pc = "insert"
    BY <1>11 DEF Insert, InsertLost, TableEnds
  <2>2. CASE UNCHANGED target
    BY <1>1, <2>1, <2>2 DEF target
  <2>3. CASE Accepted(table, batch) /\ Lands(table, batch)
    <3>1. table \in there /\ batch \in SUBSET Row
      BY <2>3 DEF Accepted, Types, ReadingOK
    <3>2. \A u \in Tables \ {table} : rows'[u] = rows[u] /\ doubled'[u] = doubled[u]
      BY <2>3, <3>1, Landing DEF Types
    <3>3. table \in DOMAIN seen /\ chosen \subseteq Tables
      BY <2>1 DEF Opened, Types, LoopOK
    <3> QED
      BY <2>1, <3>2, <3>3
  <2> QED
    BY <1>11, <2>2, <2>3 DEF Insert, InsertLost
<1>12. CASE ResetSequence \/ AddKeys
  BY <1>12 DEF ResetSequence, AddKeys, Goes
<1>13. CASE Tools \/ PipeBreaks
  BY <1>13 DEF Tools, Spawn, Clean, Load, DumpEnds, RestoreEnds, DumpClosed, RestoreClosed, SpawnError,
         RestoreDies, PipeBreaks, Goes
<1> QED
  BY <1>2, <1>3, <1>4, <1>5, <1>6, <1>7, <1>8, <1>9, <1>10, <1>11, <1>12, <1>13
     DEF Next, Driver, Finished

\* A batch that lands, for the first time or again: the snapshot's rows are there but for
\* those that are not fetched yet.
LEMMA BatchLands ==
    ASSUME Types, SourceKept, Opened, Arrived, pc = "insert",
           Accepted(table, batch), Lands(table, batch)
    PROVE  /\ rows'[table] = seen[table] \ cursor
           /\ getPrimaryKey(table) => doubled'[table] = {}
           /\ \A u \in Tables \ {table} : rows'[u] = rows[u] /\ doubled'[u] = doubled[u]
<1> DEFINE x == table
<1>1. x \in there /\ batch \in SUBSET Row
  BY DEF Accepted, Types, ReadingOK
<1>2. /\ \A u \in Tables \ {x} : rows'[u] = rows[u] /\ doubled'[u] = doubled[u]
      /\ rows[x] \subseteq rows'[x] /\ rows'[x] \subseteq rows[x] \cup batch
      /\ getPrimaryKey(x) => doubled'[x] = doubled[x]
      /\ \A r \in batch : r \in rows'[x] \/ \E q \in rows[x] : q.id = r.id
  BY <1>1, Landing DEF Types
<1>3. /\ cursor \cup batch \subseteq seen[x] /\ cursor \cap batch = {}
      /\ seen[x] \ (cursor \cup batch) \subseteq rows[x] /\ rows[x] \subseteq seen[x] \ cursor
      /\ getPrimaryKey(x) => doubled[x] = {}
  BY DEF Arrived, Copying
<1>4. Distinct(seen[x])
  BY DEF SourceKept, Opened, Copying
<1> HIDE DEF x
<1>5. ASSUME NEW r \in batch PROVE r \in rows'[x]
  <2>1. CASE \E q \in rows[x] : q.id = r.id
    <3>1. PICK q \in rows[x] : q.id = r.id
      BY <2>1
    <3>2. q \in seen[x] /\ r \in seen[x]
      BY <1>3
    <3>3. q = r
      BY <1>4, <3>1, <3>2 DEF Distinct
    <3> QED
      BY <1>2, <3>3
  <2> QED
    BY <1>2, <2>1
<1>6. rows'[x] = seen[x] \ cursor
  BY <1>2, <1>3, <1>5
<1> QED
  BY <1>2, <1>3, <1>6 DEF x

\* The rows of the open table, batch by batch.
LEMMA ArrivedStep ==
    ASSUME Types, SourceKept, Opened, Emptied, Arrived, [Next]_vars
    PROVE  Arrived'
<1> USE DEF Copying
<1>1. CASE pc' \notin Copying
  BY <1>1 DEF Arrived
<1>2. ASSUME pc \in Copying, UNCHANGED <<todo, seen, pc, cursor, batch, rows, doubled>>
      PROVE  Arrived'
  BY <1>2, TableSame DEF Arrived
<1>3. CASE OpenCursor /\ todo # {}
  <2>1. table \in todo /\ table \in chosen /\ table \in Tables
    BY <1>3, TableLeft DEF Types
  <2>2. /\ cursor' = source[table] /\ todo' = todo /\ batch' = batch /\ pc = "tables" /\ pc' = "fetch"
        /\ seen' = [t \in DOMAIN seen \cup {table} |-> IF t = table THEN source[t] ELSE seen[t]]
        /\ UNCHANGED <<rows, doubled>>
    BY <1>3 DEF OpenCursor, target
  <2>3. batch = {} /\ table \notin DOMAIN seen
    BY <2>1, <2>2 DEF Opened
  <2>4. rows[table] = {} /\ doubled[table] = {}
    BY <2>1, <2>2, <2>3 DEF Emptied, Reading
  <2>5. table' = table /\ seen'[table] = source[table]
    BY <2>2, TableSame
  <2> HIDE DEF table
  <2> QED
    BY <2>2, <2>3, <2>4, <2>5 DEF Arrived
<1>4. CASE Fetch /\ cursor # {}
  <2>1. PICK rs \in SUBSET cursor :
               /\ \/ Cardinality(rs) = BatchSize
                  \/ rs = cursor /\ Cardinality(rs) < BatchSize
               /\ batch' = rs /\ cursor' = cursor \ rs
               /\ pc' = "insert"
               /\ UNCHANGED <<todo, seen>>
    BY <1>4 DEF Fetch
  <2>2. pc = "fetch" /\ batch = {} /\ UNCHANGED <<rows, doubled>>
    BY <1>4 DEF Fetch, target, Opened
  <2>3. table' = table
    BY <2>1, TableSame
  <2> HIDE DEF table
  <2> QED
    BY <2>1, <2>2, <2>3 DEF Arrived
<1>5. CASE Insert /\ pc' = "fetch"
  <2>1. UNCHANGED <<todo, cursor, seen>> /\ batch' = {} /\ pc = "insert"
    BY <1>5 DEF Insert, TableEnds, Goes
  <2>2. /\ rows'[table] = seen[table] \ cursor
        /\ getPrimaryKey(table) => doubled'[table] = {}
    BY <1>5, <2>1, BatchLands DEF Insert
  <2>3. table' = table
    BY <2>1, TableSame
  <2> HIDE DEF table
  <2> QED
    BY <1>5, <2>1, <2>2, <2>3 DEF Arrived
<1>6. CASE InsertLost /\ pc' \in Copying
  <2>1. UNCHANGED <<pc, todo, cursor, batch, seen>> /\ pc = "insert"
    BY <1>6 DEF InsertLost, TableEnds, Goes
  <2>2. CASE UNCHANGED target
    BY <1>2, <2>1, <2>2 DEF target
  <2>3. CASE Accepted(table, batch) /\ Lands(table, batch)
    <3>1. /\ rows'[table] = seen[table] \ cursor
          /\ getPrimaryKey(table) => doubled'[table] = {}
      BY <2>1, <2>3, BatchLands
    <3>2. table' = table
      BY <2>1, TableSame
    <3> HIDE DEF table
    <3> QED
      BY <2>1, <3>1, <3>2 DEF Arrived
  <2> QED
    BY <1>6, <2>2, <2>3 DEF InsertLost
<1>7. CASE (\E t \in Tables : Write(t)) \/ UNCHANGED vars
  <2>1. UNCHANGED <<todo, seen, pc, cursor, batch, rows, doubled>>
    BY <1>7 DEF Write, vars, driver, reading, target
  <2> QED
    BY <1>1, <1>2, <2>1
<1>8. CASE Driver
  <2>1. \/ pc' \notin Copying \/ (OpenCursor /\ todo # {}) \/ (Fetch /\ cursor # {})
        \/ (Insert /\ pc' = "fetch") \/ (InsertLost /\ pc' \in Copying)
    BY <1>8 DEF Driver, Start, DropTable, ReplaceTypes, CreateTable, Truncate, OpenCursor, Fetch,
                Insert, InsertLost, InsertRefused, ReadFails, ResetSequence, AddKeys, StatementFails,
                TableEnds, Goes
  <2> QED
    BY <1>1, <1>3, <1>4, <1>5, <1>6, <2>1
<1>9. CASE Tools \/ PipeBreaks
  BY <1>1, <1>9 DEF Tools, Spawn, Clean, Load, DumpEnds, RestoreEnds, DumpClosed, RestoreClosed, SpawnError,
         RestoreDies, PipeBreaks, Goes
<1> QED
  BY <1>7, <1>8, <1>9 DEF Next, Finished

\* A table that is closed without being given up holds what the snapshot held.
LEMMA Closed ==
    ASSUME Types, Opened, CopiedRight, pc \in Copying, NEW given \in SUBSET {table}, TableEnds(given),
           UNCHANGED <<chosen, mode>>,
           \A u \in Tables \ {table} : rows'[u] = rows[u] /\ doubled'[u] = doubled[u],
           \/ given = {table}
           \/ rows'[table] = seen[table] /\ (getPrimaryKey(table) => doubled'[table] = {})
    PROVE  CopiedRight'
<1> USE DEF Copying
<1>1. /\ pc' = "tables" /\ failed' = failed \cup given /\ seen' = seen
      /\ chosen \subseteq Tables
  BY DEF TableEnds, Goes, Types, LoopOK
<1>2. Current = {table} /\ Current' = {}
  BY <1>1 DEF Current
<1>3. ASSUME mode \in {"full", "data"}, NEW t \in Complete'
      PROVE  rows'[t] = seen'[t] /\ (getPrimaryKey(t) => doubled'[t] = {})
  <2>1. t \in DOMAIN seen /\ t \in chosen /\ t \notin failed /\ t \notin given
    BY <1>1, <1>3 DEF Complete
  <2>2. CASE t = table
    BY <1>1, <2>1, <2>2
  <2>3. CASE t # table
    <3>1. t \in Complete
      BY <1>2, <2>1, <2>3 DEF Complete
    <3> QED
      BY <1>1, <1>3, <2>1, <2>3, <3>1 DEF CopiedRight
  <2> QED
    BY <2>2, <2>3
<1> QED
  BY <1>3 DEF CopiedRight

LEMMA CopiedRightStep ==
    ASSUME Types, SourceKept, Course, Opened, Arrived, CopiedRight, [Next]_vars
    PROVE  CopiedRight'
<1> USE DEF Copying
<1>1. ASSUME UNCHANGED <<rows, doubled, chosen, mode, seen>>, failed \subseteq failed',
             Current \subseteq Current' \cup failed'
      PROVE  CopiedRight'
  <2>1. Complete' \subseteq Complete
    BY <1>1 DEF Complete
  <2> QED
    BY <1>1, <2>1 DEF CopiedRight
<1>2. CASE (\E t \in Tables : Write(t)) \/ UNCHANGED vars
  <2>1. UNCHANGED <<rows, doubled, chosen, mode, seen, pc, todo, failed>>
    BY <1>2 DEF Write, vars, driver, reading, target
  <2>2. Current' = Current
    BY <2>1, TableSame DEF Current
  <2> QED
    BY <1>1, <2>1, <2>2
<1>3. CASE \/ \E tables \in SUBSET Tables : Start(tables)
           \/ DropTable \/ ReplaceTypes \/ CreateTable \/ Truncate \/ StatementFails
  <2>1. pc \in {"idle", "drop", "types", "create", "truncate"} /\ seen' = seen
    BY <1>3 DEF Start, DropTable, ReplaceTypes, CreateTable, Truncate, StatementFails, driver, reading
  <2>2. Complete' = {}
    BY <2>1 DEF Opened, Complete
  <2> QED
    BY <2>2 DEF CopiedRight
<1>4. CASE OpenCursor
  <2>1. UNCHANGED <<rows, doubled, chosen, mode, failed>> /\ pc = "tables"
    BY <1>4 DEF OpenCursor, target, outside
  <2>2. CASE todo = {}
    BY <1>1, <1>4, <2>1, <2>2 DEF OpenCursor, Current
  <2>3. CASE todo # {}
    <3>1. pc' = "fetch" /\ todo' = todo
      BY <1>4, <2>3 DEF OpenCursor
    <3>2. seen' = [t \in DOMAIN seen \cup {table} |-> IF t = table THEN source[t] ELSE seen[t]]
      BY <1>4, <2>3 DEF OpenCursor
    <3>3. Current' = {table}
      BY <3>1, TableSame DEF Current
    <3> HIDE DEF table
    <3>4. \A t \in Complete' : t \in Complete /\ seen'[t] = seen[t]
      BY <2>1, <3>2, <3>3 DEF Complete, Current
    <3> QED
      BY <2>1, <3>4 DEF CopiedRight
  <2> QED
    BY <2>2, <2>3
<1>5. CASE Fetch
  <2>1. UNCHANGED <<rows, doubled, chosen, mode>> /\ pc = "fetch"
    BY <1>5 DEF Fetch, target, outside
  <2>2. CASE cursor = {}
    <3>1. TableEnds({})
      BY <1>5, <2>2 DEF Fetch
    <3>2. rows[table] = seen[table] /\ (getPrimaryKey(table) => doubled[table] = {})
      <4>1. batch = {}
        BY <2>1 DEF Opened
      <4> QED
        BY <2>1, <2>2, <4>1 DEF Arrived
    <3> QED
      BY <2>1, <3>1, <3>2, Closed
  <2>3. CASE cursor # {}
    <3>1. UNCHANGED <<todo, failed, seen>> /\ pc' = "insert"
      BY <1>5, <2>3 DEF Fetch
    <3>2. Current' = Current
      BY <2>1, <3>1, TableSame DEF Current
    <3> QED
      BY <1>1, <2>1, <3>1, <3>2
  <2> QED
    BY <2>2, <2>3
<1>6. ASSUME pc = "insert", Accepted(table, batch), Lands(table, batch), UNCHANGED <<chosen, mode>>
      PROVE  /\ TableEnds({table}) => CopiedRight'
             /\ TableEnds({}) /\ Cardinality(batch) < BatchSize => CopiedRight'
             /\ pc' \in Copying /\ UNCHANGED <<todo, seen, failed>> => CopiedRight'
  <2>1. /\ rows'[table] = seen[table] \ cursor
        /\ getPrimaryKey(table) => doubled'[table] = {}
        /\ \A u \in Tables \ {table} : rows'[u] = rows[u] /\ doubled'[u] = doubled[u]
    BY <1>6, BatchLands
  <2>2. TableEnds({table}) => CopiedRight'
    BY <1>6, <2>1, Closed
  <2>3. ASSUME TableEnds({}), Cardinality(batch) < BatchSize PROVE CopiedRight'
    <3>1. cursor = {}
      BY <1>6, <2>3, SizesAssumption DEF Arrived
    <3>2. rows'[table] = seen[table]
      BY <2>1, <3>1
    <3> QED
      BY <1>6, <2>1, <2>3, <3>2, Closed
  <2>4. ASSUME pc' \in Copying, UNCHANGED <<todo, seen, failed>> PROVE CopiedRight'
    <3>1. Current' = {table} /\ Current = {table}
      BY <1>6, <2>4, TableSame DEF Current
    <3>2. Complete' = Complete /\ table \notin Complete /\ Complete \subseteq Tables
      BY <1>6, <2>4, <3>1 DEF Complete, Types, LoopOK
    <3> HIDE DEF table
    <3> QED
      BY <1>6, <2>1, <2>4, <3>2 DEF CopiedRight
  <2> QED
    BY <2>2, <2>3, <2>4
<1>7. CASE Insert
  <2>1. pc = "insert" /\ Accepted(table, batch) /\ Lands(table, batch) /\ UNCHANGED <<chosen, mode>>
    BY <1>7 DEF Insert, outside
  <2> QED
    BY <1>6, <1>7, <2>1 DEF Insert
<1>8. ASSUME pc \in Copying, UNCHANGED <<target, chosen, mode>>
      PROVE  /\ TableEnds({table}) => CopiedRight'
             /\ UNCHANGED <<pc, todo, seen, failed>> => CopiedRight'
  <2>1. UNCHANGED <<rows, doubled>>
    BY <1>8 DEF target
  <2>2. TableEnds({table}) => CopiedRight'
    BY <1>8, <2>1, Closed
  <2>3. ASSUME UNCHANGED <<pc, todo, seen, failed>> PROVE CopiedRight'
    <3>1. Current' = Current
      BY <2>3, TableSame DEF Current
    <3> QED
      BY <1>1, <1>8, <2>1, <2>3, <3>1
  <2> QED
    BY <2>2, <2>3
<1>9. CASE InsertLost
  <2>1. pc = "insert" /\ UNCHANGED <<chosen, mode>>
    BY <1>9 DEF InsertLost, outside
  <2> QED
    BY <1>6, <1>8, <1>9, <2>1 DEF InsertLost
<1>10. CASE InsertRefused \/ ReadFails
  <2>1. pc \in Copying /\ UNCHANGED <<target, chosen, mode>> /\ TableEnds({table})
    BY <1>10 DEF InsertRefused, ReadFails, outside
  <2> QED
    BY <1>8, <2>1
<1>11. CASE ResetSequence \/ AddKeys
  <2>1. /\ UNCHANGED <<rows, doubled, chosen, mode, seen, failed>>
        /\ pc \in {"sequences", "keys"}
    BY <1>11 DEF ResetSequence, AddKeys, reading, outside
  <2> QED
    BY <1>1, <2>1 DEF Current
<1>12. CASE Tools \/ PipeBreaks
  <2>1. pc \in {"idle", "pipe"} /\ (pc = "idle" => mode \in {"tools", "tools schema", "tools data"}) /\ mode' = mode
    BY <1>12 DEF Tools, Spawn, Clean, Load, DumpEnds, RestoreEnds, DumpClosed, RestoreClosed, SpawnError,
         RestoreDies, PipeBreaks, outside
  <2>2. mode \notin {"full", "data"}
    BY <2>1 DEF Course
  <2> QED
    BY <2>1, <2>2 DEF CopiedRight
<1> QED
  BY <1>2, <1>3, <1>4, <1>5, <1>7, <1>9, <1>10, <1>11, <1>12 DEF Next, Driver, Finished

(***************************************************************************)
(* Sequences and foreign keys.                                             *)
(***************************************************************************)

\* A sequence is set above all of the rows its table has.
LEMMA FreshStep == ASSUME Types, Course, Fresh, [Next]_vars PROVE Fresh'
<1> USE DEF Fresh
<1>1. CASE pc' \notin {"sequences", "keys", "copied"}
  BY <1>1
<1>2. ASSUME UNCHANGED <<rows, next, chosen, mode>>, unset \subseteq unset', pc = pc',
             pc # "sequences" \/ todo' = todo
      PROVE  Fresh'
  BY <1>2 DEF Above
<1>3. CASE (\E t \in Tables : Write(t)) \/ UNCHANGED vars
  <2>1. UNCHANGED <<rows, next, chosen, mode, unset, pc, todo>>
    BY <1>3 DEF Write, vars, driver, target
  <2> QED
    BY <1>2, <2>1
<1>4. CASE OpenCursor
  <2>1. pc' \in {"sequences", "fetch"} /\ (pc' = "sequences" => todo' = chosen) /\ chosen' = chosen
    BY <1>4 DEF OpenCursor, Goes
  <2> QED
    BY <2>1
<1>5. CASE CreateTable
  <2>1. /\ pc' \in {"create", "keys", "tables"} /\ (pc' = "keys" => mode = "schema") /\ mode' = mode
    BY <1>5 DEF CreateTable, Goes, outside
  <2> QED
    BY <2>1
<1>6. CASE ResetSequence
  <2>1. UNCHANGED <<rows, chosen, mode>> /\ pc = "sequences" /\ chosen \subseteq Tables
    BY <1>6 DEF ResetSequence, outside, Types, LoopOK
  <2>2. CASE todo = {}
    <3>1. UNCHANGED <<next, unset>> /\ pc' \in {"copied", "keys"}
      BY <1>6, <2>2 DEF ResetSequence, Goes
    <3> QED
      BY <2>1, <2>2, <3>1 DEF Above
  <2>3. CASE todo # {}
    <3> DEFINE x == table
    <3>1. /\ pc' = "sequences" /\ todo' = todo \ {x}
          /\ \/ /\ next' = IF rows[x] = {} THEN next ELSE [next EXCEPT ![x] = Largest(rows[x]) + 1]
                /\ unset' = unset
             \/ next' = next /\ unset' = unset \cup {x}
      BY <1>6, <2>3 DEF ResetSequence, Goes
    <3>2. x \in Tables /\ rows[x] \in SUBSET Row /\ next \in [Tables -> 1..MaxId + 1]
      BY <2>3, TableLeft DEF Types, TargetOK
    <3> HIDE DEF x
    <3>3. ASSUME NEW t \in chosen \ (unset' \cup todo') PROVE Above(t)'
      <4>1. CASE t = x
        <5>1. x \notin unset'
          BY <4>1
        <5>2. next' = IF rows[x] = {} THEN next ELSE [next EXCEPT ![x] = Largest(rows[x]) + 1]
          BY <3>1, <5>1
        <5>3. CASE rows[x] = {}
          BY <2>1, <4>1, <5>3 DEF Above, IdsOf
        <5>4. CASE rows[x] # {}
          <6>1. Largest(rows[x]) \in Ids /\ \A i \in IdsOf(rows[x]) : i <= Largest(rows[x])
            BY <3>2, <5>4, LargestIs
          <6>2. next'[x] = Largest(rows[x]) + 1
            BY <3>2, <5>2, <5>4
          <6>3. IdsOf(rows[x]) \subseteq Ids
            BY <3>2 DEF IdsOf, Row
          <6>4. \A i \in IdsOf(rows[x]) : i < next'[x]
            BY <6>1, <6>2, <6>3, BoundsAssumption DEF Ids
          <6> QED
            BY <2>1, <4>1, <6>4 DEF Above
        <5> QED
          BY <5>3, <5>4
      <4>2. CASE t # x
        <5>1. t \notin todo /\ t \notin unset /\ t \in Tables
          BY <2>1, <3>1, <4>2
        <5>2. next'[t] = next[t]
          BY <3>1, <3>2, <4>2, <5>1
        <5> QED
          BY <2>1, <5>1, <5>2 DEF Above
      <4> QED
        BY <4>1, <4>2
    <3> QED
      BY <2>1, <3>1, <3>3
  <2> QED
    BY <2>2, <2>3
<1>7. CASE AddKeys
  <2>1. /\ UNCHANGED <<rows, next, chosen, mode>> /\ pc = "keys" /\ pc' \in {"keys", "copied"}
        /\ unset \subseteq unset'
    BY <1>7 DEF AddKeys, Goes, outside
  <2> QED
    BY <2>1 DEF Above
<1>8. CASE Tools \/ PipeBreaks
  <2>1. /\ pc \in {"idle", "pipe"} /\ (pc = "idle" => mode \in {"tools", "tools schema", "tools data"})
        /\ mode' = mode /\ pc' \in {"pipe", "copied", "failed"}
    BY <1>8 DEF Tools, Spawn, Clean, Load, DumpEnds, RestoreEnds, DumpClosed, RestoreClosed, SpawnError,
         RestoreDies, PipeBreaks, Goes, outside
  <2>2. mode \notin {"full", "data"}
    BY <2>1 DEF Course
  <2> QED
    BY <2>1, <2>2
<1>9. CASE Driver
  <2>1. OpenCursor \/ CreateTable \/ ResetSequence \/ AddKeys \/ pc' \notin {"sequences", "keys", "copied"}
    BY <1>9 DEF Driver, Start, DropTable, ReplaceTypes, Truncate, Fetch, Insert, InsertLost,
                InsertRefused, ReadFails, StatementFails, TableEnds, Goes
  <2> QED
    BY <1>1, <1>4, <1>5, <1>6, <1>7, <2>1
<1> QED
  BY <1>3, <1>8, <1>9 DEF Next, Finished

\* The snapshots stay what the source is as long as nobody writes.
LEMMA QuietStep == ASSUME Types, Opened, Quiet, [Next]_vars PROVE Quiet'
<1> USE DEF Quiet
<1>1. CASE \E t \in Tables : Write(t)
  <2>1. pc' = pc /\ quiet' = (quiet /\ pc = "idle")
    BY <1>1 DEF Write
  <2> QED
    BY <2>1
<1>2. ASSUME UNCHANGED <<outside, seen>>, pc = "idle" => DOMAIN seen = {} PROVE Quiet'
  BY <1>2 DEF outside
<1>3. pc = "idle" => DOMAIN seen = {}
  BY DEF Opened
<1>4. CASE UNCHANGED vars
  BY <1>2, <1>3, <1>4 DEF vars, outside, driver, reading
<1>5. CASE OpenCursor
  <2>1. UNCHANGED outside /\ pc = "tables"
    BY <1>5 DEF OpenCursor
  <2>2. \A t \in DOMAIN seen' : \/ t \in DOMAIN seen /\ seen'[t] = seen[t]
                                \/ seen'[t] = source[t]
    <3>1. CASE todo = {}
      BY <1>5, <3>1 DEF OpenCursor
    <3>2. CASE todo # {}
      <4>1. seen' = [t \in DOMAIN seen \cup {table} |-> IF t = table THEN source[t] ELSE seen[t]]
        BY <1>5, <3>2 DEF OpenCursor
      <4> HIDE DEF table
      <4> QED
        BY <4>1
    <3> QED
      BY <3>1, <3>2
  <2> QED
    BY <2>1, <2>2 DEF outside
<1>6. CASE Spawn
  BY <1>6 DEF Spawn, outside
<1>7. Driver => OpenCursor \/ UNCHANGED <<outside, seen>>
  BY DEF Driver, Start, DropTable, ReplaceTypes, CreateTable, Truncate, Fetch, TableEnds,
         Insert, InsertLost, InsertRefused, ReadFails, ResetSequence, AddKeys, StatementFails,
         driver, reading
<1>8. Tools \/ PipeBreaks => Spawn \/ UNCHANGED <<outside, seen>>
  BY DEF Tools, Clean, Load, DumpEnds, RestoreEnds, DumpClosed, RestoreClosed, SpawnError,
         RestoreDies, PipeBreaks, driver, reading
<1> QED
  BY <1>1, <1>2, <1>3, <1>4, <1>5, <1>6, <1>7, <1>8 DEF Next, Finished

\* With all tables copied from a quiet source, every foreign key the source has holds.
LEMMA KeysHold ==
    ASSUME Types, SourceKept, Opened, CopiedRight, Quiet, pc = "keys", mode = "full", failed = {},
           quiet, NEW k \in Wanted
    PROVE  Resolved(k[1], rows[k[1]], rows, {k})
<1>1. k \in Refs /\ k[1] \in chosen /\ k[2] \in chosen /\ chosen \subseteq Tables
  BY DEF Wanted, Types, LoopOK
<1>2. \A t \in chosen : rows[t] = source[t]
  <2>1. chosen \subseteq Complete
    BY DEF Complete, Current, Opened
  <2>2. \A t \in chosen : rows[t] = seen[t] /\ t \in DOMAIN seen
    BY <2>1 DEF CopiedRight, Complete
  <2> QED
    BY <2>2 DEF Quiet
<1>3. Resolved(k[1], source[k[1]], source, Refs)
  BY <1>1 DEF SourceKept
<1> SUFFICES ASSUME NEW r \in rows[k[1]], NEW ref \in r.refs, <<k[1], ref[1]>> \in {k}
             PROVE  ref[2] \in IdsOf(rows[ref[1]])
  BY DEF Resolved
<1>4. ref[1] = k[2]
  BY <1>1, RefsAssumption
<1>5. ref[2] \in IdsOf(source[ref[1]])
  BY <1>1, <1>2, <1>3 DEF Resolved
<1> QED
  BY <1>1, <1>2, <1>4, <1>5

LEMMA KeysAddedStep ==
    ASSUME Types, SourceKept, Course, Opened, CopiedRight, Quiet, KeysAdded, [Next]_vars
    PROVE  KeysAdded'
<1> USE DEF KeysAdded
<1>1. CASE \E t \in Tables : Write(t)
  <2>1. pc' = pc /\ quiet' = (quiet /\ pc = "idle")
    BY <1>1 DEF Write
  <2> QED
    BY <2>1
<1>2. CASE UNCHANGED vars
  BY <1>2 DEF vars, target, driver, Wanted
<1>3. CASE ResetSequence
  <2>1. CASE pc' = "keys"
    <3>1. todo' = chosen /\ chosen' = chosen
      BY <1>3, <2>1 DEF ResetSequence, Goes
    <3> QED
      BY <2>1, <3>1 DEF Wanted
  <2>2. CASE pc' # "keys"
    <3>1. pc' = "copied" => mode = "data"
      BY <1>3, <2>2 DEF ResetSequence, Goes
    <3>2. pc' \in {"sequences", "copied"} /\ mode' = mode
      BY <1>3, <2>2 DEF ResetSequence, Goes, outside
    <3> QED
      BY <2>2, <3>1, <3>2
  <2> QED
    BY <2>1, <2>2
<1>4. CASE AddKeys
  <2>1. /\ pc = "keys" /\ UNCHANGED <<chosen, mode, quiet, failed>> /\ unset \subseteq unset'
        /\ pc' \in {"keys", "copied"}
    BY <1>4 DEF AddKeys, Goes, reading, outside
  <2> SUFFICES ASSUME mode = "full", failed' \cup unset' = {}, quiet, NEW k \in Wanted
               PROVE  k \in fks' \/ (pc' = "keys" /\ k[1] \in todo')
    BY <2>1 DEF Wanted
  <2>2. failed = {} /\ unset = {} /\ (k \in fks \/ k[1] \in todo)
    BY <2>1
  <2>3. CASE todo = {}
    BY <1>4, <2>2, <2>3 DEF AddKeys
  <2>4. CASE todo # {}
    <3> DEFINE own == {j \in Wanted : j[1] = table /\ Resolved(table, rows[table], rows, {j})}
    <3>1. pc' = "keys" /\ todo' = todo \ {table}
      BY <1>4, <2>4 DEF AddKeys, Goes
    <3>2. fks' = fks \cup own \/ unset' = unset \cup {table}
      BY <1>4, <2>4 DEF AddKeys
    <3>3. fks' = fks \cup own
      BY <3>2
    <3>4. CASE k[1] = table
      <4>1. Resolved(k[1], rows[k[1]], rows, {k})
        BY <2>1, <2>2, KeysHold
      <4>2. k \in own
        BY <3>4, <4>1
      <4> QED
        BY <3>3, <4>2
    <3>5. CASE k[1] # table
      BY <2>2, <3>1, <3>3, <3>5
    <3> QED
      BY <3>4, <3>5
  <2> QED
    BY <2>3, <2>4
<1>5. CASE CreateTable
  <2>1. pc' \in {"create", "keys", "tables"} /\ (pc' = "keys" => mode = "schema") /\ mode' = mode
    BY <1>5 DEF CreateTable, Goes, outside
  <2> QED
    BY <2>1
<1>6. CASE Tools \/ PipeBreaks
  <2>1. /\ pc \in {"idle", "pipe"} /\ (pc = "idle" => mode \in {"tools", "tools schema", "tools data"}) /\ mode' = mode
    BY <1>6 DEF Tools, Spawn, Clean, Load, DumpEnds, RestoreEnds, DumpClosed, RestoreClosed, SpawnError,
         RestoreDies, PipeBreaks, outside
  <2>2. mode # "full"
    BY <2>1 DEF Course
  <2> QED
    BY <2>1, <2>2
<1>7. Driver => ResetSequence \/ AddKeys \/ CreateTable \/ pc' \notin {"keys", "copied"}
  BY DEF Driver, Start, DropTable, ReplaceTypes, Truncate, OpenCursor, Fetch, Insert, InsertLost,
         InsertRefused, ReadFails, StatementFails, TableEnds, Goes
<1> QED
  BY <1>1, <1>2, <1>3, <1>4, <1>5, <1>6, <1>7 DEF Next, Finished

\* Why a batch is refused when the source is quiet: the table is on a cycle, or refers to
\* one that was given up, since what it refers to comes before it.
LEMMA Refusal ==
    ASSUME Types, SourceKept, Course, Opened, Created, Arrived, CopiedRight, Quiet, Excused,
           mode = "data", chosen = Tables, quiet, failures = 0, pc = "insert",
           ~Accepted(table, batch)
    PROVE  table \in UNION {Behind(t) : t \in Cyclic}
<1> DEFINE x == table
           db == [rows EXCEPT ![x] = @ \cup batch]
<1>1. x \in todo /\ x \in Tables /\ \A u \in todo : Rank(x) <= Rank(u)
  BY TableLeft DEF Types, Opened, Copying
<1>2. x \in there
  BY <1>1 DEF Created, Reading, Copying
<1>3. PICK r \in batch : \E ref \in r.refs : <<x, ref[1]>> \in fks /\ ref[2] \notin IdsOf(db[ref[1]])
  BY <1>2 DEF Accepted, Resolved
<1>4. PICK ref \in r.refs : <<x, ref[1]>> \in fks /\ ref[2] \notin IdsOf(db[ref[1]])
  BY <1>3
<1> DEFINE u == ref[1]
<1>5. <<x, u>> \in Refs /\ u \in Tables /\ u \in getForeignKeys(x)
  BY <1>4, RefsAssumption DEF Types, TargetOK, getForeignKeys
<1>6. CASE x \in Cyclic
  BY <1>1, <1>6, BehindItself
<1>7. CASE x \notin Cyclic
  <2>1. Rank(u) < Rank(x) /\ Rank(x) \in Nat /\ Rank(u) \in Nat
    BY <1>1, <1>5, <1>7, Sorted
  <2>2. u \notin todo /\ u # x
    BY <1>1, <2>1
  <2>3. CASE u \in failed
    <3>1. PICK t \in Cyclic : u \in Behind(t)
      BY <2>3 DEF Excused
    <3>2. x \in Behind(t)
      BY <1>1, <1>5, <3>1, BehindNext
    <3> QED
      BY <3>2
  <2>4. CASE u \notin failed
    <3>1. u \in Complete
      BY <1>5, <2>2, <2>4 DEF Complete, Current, Opened, Reading, Copying
    <3>2. rows[u] = seen[u] /\ u \in DOMAIN seen
      BY <3>1 DEF CopiedRight, Complete
    <3>3. rows[u] = source[u]
      BY <3>2 DEF Quiet
    <3>4. r \in source[x]
      BY DEF Arrived, Quiet, Opened, Copying
    <3>5. ref[2] \in IdsOf(source[u])
      BY <1>1, <1>5, <3>4 DEF SourceKept, Resolved
    <3>6. db[u] = rows[u]
      BY <1>5, <2>2 DEF Types, TargetOK
    <3> QED
      BY <1>4, <3>3, <3>5, <3>6
  <2> QED
    BY <2>3, <2>4
<1> QED
  BY <1>6, <1>7

LEMMA ExcusedStep ==
    ASSUME Types, SourceKept, Course, Opened, Created, Arrived, CopiedRight, Quiet, Excused, [Next]_vars
    PROVE  Excused'
<1> USE DEF Excused
<1>1. CASE \E t \in Tables : Write(t)
  <2>1. quiet' = (quiet /\ pc = "idle") /\ UNCHANGED <<failed, chosen, mode, failures>>
    BY <1>1 DEF Write, driver
  <2> QED
    BY <2>1
<1>2. ASSUME failed' = {} PROVE Excused'
  BY <1>2
<1>3. CASE UNCHANGED vars
  BY <1>3 DEF vars, driver
<1>4. ASSUME failed' = failed, UNCHANGED <<chosen, mode, quiet>>, failures' = failures PROVE Excused'
  BY <1>4
<1>5. ASSUME failures' = failures + 1 PROVE Excused'
  BY <1>5, failures \in Nat, BoundsAssumption DEF Types
<1>6. CASE InsertRefused
  <2>1. /\ failed' = failed \cup {table} /\ UNCHANGED <<chosen, mode, quiet, failures>>
        /\ pc = "insert" /\ ~Accepted(table, batch)
    BY <1>6 DEF InsertRefused, TableEnds, outside
  <2> SUFFICES ASSUME mode = "data", chosen = Tables, quiet, failures = 0
               PROVE  failed' \subseteq UNION {Behind(t) : t \in Cyclic}
    BY <2>1
  <2>2. table \in UNION {Behind(t) : t \in Cyclic}
    BY <2>1, Refusal
  <2> HIDE DEF table
  <2> QED
    BY <2>1, <2>2
<1>7. CASE \/ \E tables \in SUBSET Tables : Start(tables)
           \/ DropTable \/ ReplaceTypes \/ CreateTable \/ Truncate \/ StatementFails
  <2>1. failed' = failed /\ pc \in {"idle", "drop", "types", "create", "truncate"}
    BY <1>7 DEF Start, DropTable, ReplaceTypes, CreateTable, Truncate, StatementFails, driver
  <2> QED
    BY <1>2, <2>1 DEF Opened
<1>8. CASE OpenCursor \/ Fetch \/ Insert
  <2>1. failed' = failed /\ UNCHANGED <<chosen, mode, quiet, failures>>
    BY <1>8 DEF OpenCursor, Fetch, Insert, TableEnds, outside
  <2> QED
    BY <1>4, <2>1
<1>9. CASE InsertLost \/ ReadFails
  BY <1>5, <1>9 DEF InsertLost, ReadFails
<1>10. CASE ResetSequence \/ AddKeys
  <2>1. failed' = failed /\ UNCHANGED <<chosen, mode, quiet>>
    BY <1>10 DEF ResetSequence, AddKeys, outside
  <2>2. failures' = failures \/ failures' = failures + 1
    BY <1>10 DEF ResetSequence, AddKeys
  <2> QED
    BY <1>4, <1>5, <2>1, <2>2
<1>11. CASE Tools \/ PipeBreaks
  <2>1. /\ pc \in {"idle", "pipe"} /\ (pc = "idle" => mode \in {"tools", "tools schema", "tools data"}) /\ mode' = mode
    BY <1>11 DEF Tools, Spawn, Clean, Load, DumpEnds, RestoreEnds, DumpClosed, RestoreClosed, SpawnError,
         RestoreDies, PipeBreaks, outside
  <2>2. mode # "data"
    BY <2>1 DEF Course
  <2> QED
    BY <2>1, <2>2
<1> QED
  BY <1>1, <1>3, <1>6, <1>7, <1>8, <1>9, <1>10, <1>11 DEF Next, Driver, Finished

(***************************************************************************)
(* The theorems.                                                           *)
(***************************************************************************)

\* At the start every row refers to the one row of another table.
LEMMA Starts == Init => IInv
<1> SUFFICES ASSUME Init PROVE IInv
  OBVIOUS
<1> USE DEF Init
<1>1. \A t \in Tables : First(t) \in Row
  <2>1. 1 \in Ids
    BY BoundsAssumption DEF Ids
  <2>2. \A t \in Tables : {<<u, 1>> : u \in getForeignKeys(t)} \in SUBSET (Tables \X Ids)
    <3> SUFFICES ASSUME NEW t \in Tables, NEW u \in getForeignKeys(t) PROVE <<u, 1>> \in Tables \X Ids
      OBVIOUS
    <3> QED
      BY <2>1 DEF getForeignKeys
  <2> QED
    BY <2>1, <2>2 DEF First, Row
<1>2. source \in [Tables -> SUBSET Row]
  BY <1>1
<1>3. rows \in [Tables -> SUBSET Row] /\ doubled \in [Tables -> SUBSET Row]
  BY <1>1
<1>4. next \in [Tables -> 1..MaxId + 1]
  <2>1. 1 \in 1..MaxId + 1 /\ 2 \in 1..MaxId + 1
    BY BoundsAssumption
  <2> QED
    BY <2>1
<1>5. there \subseteq Tables /\ typed \subseteq there \cap Typed /\ fks \subseteq Refs \cap (there \X there)
  <2>1. there \subseteq Tables
    OBVIOUS
  <2> QED
    BY <2>1
<1>6. \A t \in Tables : doubled[t] \subseteq rows[t] /\ (t \notin there => rows[t] = {})
  OBVIOUS
<1>7. TargetOK
  BY <1>3, <1>4, <1>5, <1>6 DEF TargetOK
<1>8. DOMAIN seen = {}
  BY DEF Unread
<1>9. LoopOK /\ ReadingOK /\ ToolsOK /\ OutsideOK /\ failures \in 0..MaxFailures
  <2>1. 0 \in 0..MaxRetries /\ 0 \in 0..MaxWrites /\ 0 \in 0..MaxFailures
    BY SizesAssumption, BoundsAssumption
  <2>2. LoopOK /\ ReadingOK
    BY <1>8, <2>1 DEF LoopOK, ReadingOK
  <2>3. ToolsOK
    BY DEF ToolsOK
  <2>4. OutsideOK
    BY <1>2, <2>1 DEF OutsideOK
  <2> QED
    BY <2>1, <2>2, <2>3, <2>4
<1>10. SourceKept
  <2> SUFFICES ASSUME NEW t \in Tables
               PROVE  Distinct(source[t]) /\ Resolved(t, source[t], source, Refs)
    BY <1>8 DEF SourceKept
  <2>1. source[t] = {First(t)}
    OBVIOUS
  <2>2. Distinct(source[t])
    BY <2>1 DEF Distinct
  <2>3. ASSUME NEW ref \in First(t).refs PROVE ref[2] \in IdsOf(source[ref[1]])
    <3>1. PICK u \in getForeignKeys(t) : ref = <<u, 1>>
      BY <2>3 DEF First
    <3>2. u \in Tables /\ ref[1] = u /\ ref[2] = 1
      BY <3>1 DEF getForeignKeys
    <3>3. source[u] = {First(u)} /\ First(u).id = 1
      BY <3>2 DEF First
    <3> QED
      BY <3>2, <3>3 DEF IdsOf
  <2>4. Resolved(t, source[t], source, Refs)
    BY <2>1, <2>3 DEF Resolved
  <2> QED
    BY <2>2, <2>4
<1>11. Course /\ Opened /\ Created /\ Emptied /\ Arrived
  BY <1>8 DEF Course, Opened, Created, Emptied, Arrived, Reading, Copying
<1>12. CopiedRight /\ Fresh /\ Quiet /\ KeysAdded /\ Excused
  BY <1>8 DEF CopiedRight, Complete, Fresh, Quiet, KeysAdded, Excused
<1> QED
  BY <1>7, <1>9, <1>10, <1>11, <1>12 DEF IInv, Types

LEMMA Steps == IInv /\ [Next]_vars => IInv'
<1> SUFFICES ASSUME IInv, [Next]_vars PROVE IInv'
  OBVIOUS
<1> USE DEF IInv
<1>1. Types' /\ SourceKept' /\ Course' /\ Opened' /\ Created'
  BY TypesStep, SourceKeptStep, CourseStep, OpenedStep, CreatedStep
<1>2. Emptied' /\ Arrived' /\ CopiedRight'
  BY EmptiedStep, ArrivedStep, CopiedRightStep
<1>3. Fresh' /\ Quiet' /\ KeysAdded' /\ Excused'
  BY FreshStep, QuietStep, KeysAddedStep, ExcusedStep
<1> QED
  BY <1>1, <1>2, <1>3

LEMMA Invariant == Spec => []IInv
BY Starts, Steps, PTL DEF Spec

\* A table the driver reports as copied holds what its snapshot held, once and completely,
\* whatever was written meanwhile, however often a batch was sent and in whatever order
\* its rows came: for any tables, keys, contents and batches (driver-copy.ts:517-592).
THEOREM TablesCopiedRight == Spec => []CopiedRight
<1>1. IInv => CopiedRight
  BY DEF IInv
<1> QED
  BY Invariant, <1>1, PTL

\* After a copy that says it succeeded, the next id of every table whose sequence was set
\* is above those of its rows, also of a table that was given up half-way
\* (driver-copy.ts:594-636, 929-957).
THEOREM NextIdsFresh == Spec => []FreshIds
<1>1. IInv => FreshIds
  BY DEF IInv, Fresh, FreshIds, Above
<1> QED
  BY Invariant, <1>1, PTL

\* A full copy of a quiet source adds every foreign key, cyclic ones too, when no table and
\* no statement failed: the rows of all chosen tables are then those of one moment
\* (driver-copy.ts:539-545, 814-832, 960-988).
THEOREM KeysAreComplete == Spec => []KeysComplete
<1>1. IInv => KeysComplete
  BY DEF IInv, KeysAdded, KeysComplete
<1> QED
  BY Invariant, <1>1, PTL

\* Rows copied in the order of the sort into a schema with all its foreign keys are
\* accepted, but for tables that lead back to a cycle, for every schema: the order is
\* right because each table is left by the search after those it refers to
\* (driver-copy.ts:381-410, 556-575, 930).
THEOREM DataIsAccepted == Spec => []DataAccepted
<1>1. IInv => DataAccepted
  BY DEF IInv, Excused, DataAccepted
<1> QED
  BY Invariant, <1>1, PTL

\* Every variable of the copy keeps its type; a foreign key of the target is one of the
\* source's between two tables that exist.
THEOREM TypeCorrect == Spec => []TypeOK
<1>1. IInv => TypeOK
  BY TypesAreTypes DEF IInv
<1> QED
  BY Invariant, <1>1, PTL
=============================================================================
