---------------------------- MODULE CacheProofs -----------------------------
(***************************************************************************)
(* What the timeline's cache shows, keeps and owes, for any keys, files,   *)
(* slots and limits: an inductive invariant of MediaCache.                 *)
(***************************************************************************)
EXTENDS MediaCache, FiniteSetTheorems, SequenceTheorems, WellFoundedInduction, TLAPS

-----------------------------------------------------------------------------
(* Numbers.                                                                *)

\* A set of natural numbers that is not empty has a least element.
LEMMA LeastOf ==
  ASSUME NEW S \in SUBSET Nat, S # {}
  PROVE  \E m \in S : \A n \in S : m <= n
<1> DEFINE Less == {ss \in Nat \X Nat : ss[1] < ss[2]}
<1>1. IsWellFoundedOn(Less, Nat)
  BY NatLessThanWellFounded DEF OpToRel
<1> HIDE DEF Less
<1>2. PICK m \in S : \A n \in S : ~ (<<n, m>> \in Less)
  BY <1>1, WFMin
<1>3. \A i, j \in Nat : <<i, j>> \notin Less => j <= i
  BY SMT DEF Less
<1>4. m \in Nat /\ \A n \in S : n \in Nat /\ <<n, m>> \notin Less
  BY <1>2
<1> QED  BY <1>3, <1>4

\* The lesser of two numbers.
LEMMA MinOfTwo ==
  ASSUME NEW a \in Nat, NEW b \in Nat
  PROVE  Min({a, b}) = IF a <= b THEN a ELSE b
<1>1. \E x \in {a, b} : \A y \in {a, b} : x <= y
  OBVIOUS
<1>2. Min({a, b}) \in {a, b} /\ \A y \in {a, b} : Min({a, b}) <= y
  BY <1>1 DEF Min
<1> QED  BY <1>2
-----------------------------------------------------------------------------
(* The bytes of entries.                                                   *)

\* The bytes of one entry, each a pair of its own.
BytesAt(table, key) == {key} \X (1..Bytes(key, table[key]))

\* The size of an entry is a number.
LEMMA BytesOfData ==
  ASSUME NEW key \in Keys, NEW data
  PROVE  Bytes(key, data) \in Nat
BY CacheAssumption DEF Bytes

\* The pairs of an entry are as many as its bytes.
LEMMA OneCounted ==
  ASSUME NEW key \in Keys, NEW table
  PROVE  /\ IsFiniteSet(BytesAt(table, key))
         /\ Cardinality(BytesAt(table, key)) = Bytes(key, table[key])
<1> DEFINE n == Bytes(key, table[key])
<1>1. n \in Nat
  BY BytesOfData
<1> HIDE DEF n
<1>2. IsFiniteSet(1..n) /\ Cardinality(1..n) = n
  <2>1. IsFiniteSet(1..n) /\ Cardinality(1..n) = IF 1 > n THEN 0 ELSE n - 1 + 1
    BY <1>1, FS_Interval
  <2> QED  BY <1>1, <2>1
<1>4. IsFiniteSet({key}) /\ Cardinality({key}) = 1
  BY FS_Singleton
<1>5. IsFiniteSet({key} \X (1..n)) /\ Cardinality({key} \X (1..n)) = 1 * n
  BY <1>2, <1>4, FS_Product
<1>6. 1 * n = n
  BY <1>1
<1>7. {key} \X (1..n) = BytesAt(table, key)
  BY DEF BytesAt, n
<1> QED  BY <1>5, <1>6, <1>7, Zenon DEF n

\* The bytes of finitely many entries are a number, that of their pairs.
LEMMA Counted ==
  ASSUME NEW table, NEW keys \in SUBSET Keys, IsFiniteSet(keys)
  PROVE  /\ IsFiniteSet(UNION {BytesAt(table, key) : key \in keys})
         /\ BytesIn(table, keys) = Cardinality(UNION {BytesAt(table, key) : key \in keys})
         /\ BytesIn(table, keys) \in Nat
<1> DEFINE f == [key \in keys |-> BytesAt(table, key)]
           S == {BytesAt(table, key) : key \in keys}
<1>1. f \in Surjection(keys, S)
  <2>1. f \in [keys -> S]
    OBVIOUS
  <2>2. \A t \in S : \E key \in keys : f[key] = t
    OBVIOUS
  <2> HIDE DEF f, S
  <2> QED  BY <2>1, <2>2 DEF Surjection
<1>2. IsFiniteSet(S)
  BY <1>1, FS_Surjection
<1>3. \A T \in S : IsFiniteSet(T)
  BY OneCounted
<1>4. IsFiniteSet(UNION S)
  BY <1>2, <1>3, FS_UNION
<1>5. BytesIn(table, keys) = Cardinality(UNION S)
  BY DEF BytesIn, BytesAt
<1> QED  BY <1>4, <1>5, FS_CardinalityType

\* Entries apart from each other have the bytes of both.
LEMMA BytesAdd ==
  ASSUME NEW table, NEW K \in SUBSET Keys, NEW L \in SUBSET Keys, IsFiniteSet(K), IsFiniteSet(L),
         K \cap L = {}
  PROVE  BytesIn(table, K \cup L) = BytesIn(table, K) + BytesIn(table, L)
<1> DEFINE k == UNION {BytesAt(table, key) : key \in K}
           l == UNION {BytesAt(table, key) : key \in L}
           b == UNION {BytesAt(table, key) : key \in K \cup L}
<1>1. b = k \cup l
  OBVIOUS
<1>2. k \cap l = {}
  BY DEF BytesAt
<1>3. /\ IsFiniteSet(k) /\ BytesIn(table, K) = Cardinality(k) /\ BytesIn(table, K) \in Nat
      /\ IsFiniteSet(l) /\ BytesIn(table, L) = Cardinality(l) /\ BytesIn(table, L) \in Nat
  BY Counted
<1>4. IsFiniteSet(K \cup L) /\ K \cup L \in SUBSET Keys
  BY FS_Union
<1>5. BytesIn(table, K \cup L) = Cardinality(b)
  BY <1>4, Counted
<1> HIDE DEF k, l, b
<1>6. Cardinality(k \cup l) = Cardinality(k) + Cardinality(l) - Cardinality({})
  BY <1>2, <1>3, FS_Union
<1>7. Cardinality({}) = 0
  BY FS_EmptySet
<1> QED  BY <1>1, <1>3, <1>5, <1>6, <1>7

\* One entry.
LEMMA BytesOne ==
  ASSUME NEW table, NEW key \in Keys
  PROVE  BytesIn(table, {key}) = Bytes(key, table[key])
<1>1. UNION {BytesAt(table, k) : k \in {key}} = BytesAt(table, key)
  OBVIOUS
<1>2. BytesIn(table, {key}) = Cardinality(UNION {BytesAt(table, k) : k \in {key}})
  <2>1. IsFiniteSet({key}) /\ {key} \in SUBSET Keys
    BY FS_Singleton
  <2> QED  BY <2>1, Counted
<1> QED  BY <1>1, <1>2, OneCounted

\* No entries, no bytes.
LEMMA NoBytes == \A table : BytesIn(table, {}) = 0
<1> TAKE table
<1>1. BytesIn(table, {}) = Cardinality(UNION {BytesAt(table, k) : k \in {}})
  BY Counted, FS_EmptySet
<1>2. UNION {BytesAt(table, k) : k \in {}} = {}
  OBVIOUS
<1> QED  BY <1>1, <1>2, FS_EmptySet

\* Bytes are those of the entries that are counted.
LEMMA BytesSame ==
  ASSUME NEW table, NEW other, NEW keys, \A key \in keys : table[key] = other[key]
  PROVE  BytesIn(table, keys) = BytesIn(other, keys)
BY DEF BytesIn
-----------------------------------------------------------------------------
(* The order of use.                                                       *)

\* The keys of a sequence are finitely many.
LEMMA RangeFinite ==
  ASSUME NEW s \in Seq(Keys)
  PROVE  IsFiniteSet(Range(s)) /\ Range(s) \subseteq Keys
<1>1. Len(s) \in Nat /\ s \in [1..Len(s) -> Keys] /\ DOMAIN s = 1..Len(s)
  BY LenProperties
<1>2. IsFiniteSet(1..Len(s))
  BY <1>1, FS_Interval
<1>3. s \in Surjection(1..Len(s), Range(s))
  <2>1. s \in [1..Len(s) -> Range(s)]
    BY <1>1 DEF Range
  <2>2. \A x \in Range(s) : \E i \in 1..Len(s) : s[i] = x
    BY <1>1 DEF Range
  <2> QED  BY <2>1, <2>2 DEF Surjection
<1> QED  BY <1>1, <1>2, <1>3, FS_Surjection DEF Range

\* A key that was not in the order comes last.
LEMMA Appended ==
  ASSUME NEW s \in Seq(Keys), NEW key \in Keys
  PROVE  /\ Append(s, key) \in Seq(Keys) /\ Len(Append(s, key)) = Len(s) + 1
         /\ Range(Append(s, key)) = Range(s) \cup {key}
         /\ IsInjective(s) /\ key \notin Range(s) => IsInjective(Append(s, key))
<1> DEFINE t == Append(s, key)
<1>1. /\ t \in Seq(Keys) /\ Len(t) = Len(s) + 1
      /\ \A i \in 1..Len(s) : t[i] = s[i]
      /\ t[Len(s) + 1] = key
  BY AppendProperties
<1> HIDE DEF t
<1>2. DOMAIN t = 1..Len(t) /\ DOMAIN s = 1..Len(s) /\ Len(s) \in Nat
  BY <1>1, LenProperties
<1>3. \A i \in DOMAIN t : i \in DOMAIN s \/ i = Len(s) + 1
  BY <1>1, <1>2
<1>4. Range(t) = Range(s) \cup {key}
  BY <1>1, <1>2, <1>3 DEF Range
<1>5. ASSUME IsInjective(s), key \notin Range(s)
      PROVE  IsInjective(t)
  BY <1>1, <1>2, <1>3, <1>5 DEF IsInjective, Range
<1> QED  BY <1>1, <1>4, <1>5 DEF t

\* A stretch of the order.
LEMMA Slice ==
  ASSUME NEW s \in Seq(Keys), NEW a \in Nat, a >= 1, NEW b \in Nat, b <= Len(s), a <= b + 1
  PROVE  /\ SubSeq(s, a, b) \in Seq(Keys) /\ Len(SubSeq(s, a, b)) = b + 1 - a
         /\ \A j \in 1..(b + 1 - a) : SubSeq(s, a, b)[j] = s[j + (a - 1)]
<1> DEFINE t == SubSeq(s, a, b)
<1>1. Len(s) \in Nat /\ \A j \in 1..Len(s) : s[j] \in Keys
  BY LenProperties
<1>2. \A j \in a..b : s[j] \in Keys
  BY <1>1
<1>3. /\ t \in Seq(Keys) /\ Len(t) = IF a <= b THEN b - a + 1 ELSE 0
      /\ \A j \in 1..(b - a + 1) : t[j] = s[a + j - 1]
  BY <1>2, SubSeqProperties
<1> HIDE DEF t
<1>4. Len(t) = b + 1 - a
  BY <1>3
<1>5. \A j \in 1..(b + 1 - a) : j \in 1..(b - a + 1) /\ a + j - 1 = j + (a - 1)
  OBVIOUS
<1>6. \A j \in 1..(b + 1 - a) : t[j] = s[j + (a - 1)]
  BY <1>3, <1>5
<1> QED  BY <1>3, <1>4, <1>6 DEF t

\* A key is taken out of the order, the others keep theirs.
LEMMA DroppedKey ==
  ASSUME NEW s \in Seq(Keys), NEW key \in Range(s), IsInjective(s)
  PROVE  /\ Dropped(s, key) \in Seq(Keys) /\ Len(Dropped(s, key)) = Len(s) - 1
         /\ Range(Dropped(s, key)) = Range(s) \ {key} /\ IsInjective(Dropped(s, key))
<1> DEFINE i == CHOOSE i \in DOMAIN s : s[i] = key
           a == SubSeq(s, 1, i - 1)
           b == SubSeq(s, i + 1, Len(s))
           t == Dropped(s, key)
<1>1. i \in DOMAIN s /\ s[i] = key
  BY DEF Range
<1>2. t = a \o b
  BY Zenon DEF Dropped, RemoveAt
<1>3. Len(s) \in Nat /\ DOMAIN s = 1..Len(s) /\ \A j \in 1..Len(s) : s[j] \in Keys
  BY LenProperties
<1> HIDE DEF i, t
<1>4. i \in 1..Len(s)
  BY <1>1, <1>3
<1>5. /\ a \in Seq(Keys) /\ Len(a) = i - 1
      /\ \A j \in 1..(i - 1) : a[j] = s[j]
  <2> DEFINE k == i - 1
  <2>1. k \in Nat /\ k <= Len(s) /\ 1 <= k + 1 /\ k + 1 - 1 = k
    BY <1>3, <1>4
  <2> HIDE DEF k
  <2>2. /\ SubSeq(s, 1, k) \in Seq(Keys) /\ Len(SubSeq(s, 1, k)) = k
        /\ \A j \in 1..k : SubSeq(s, 1, k)[j] = s[j + (1 - 1)]
    BY <2>1, Slice
  <2>3. \A j \in 1..k : j + (1 - 1) = j
    OBVIOUS
  <2> QED  BY <2>2, <2>3 DEF k
<1>6. /\ b \in Seq(Keys) /\ Len(b) = Len(s) - i
      /\ \A j \in 1..(Len(s) - i) : b[j] = s[j + i]
  <2> DEFINE k == i + 1
             n == Len(s)
  <2>1. k \in Nat /\ k >= 1 /\ n \in Nat /\ k <= n + 1 /\ n + 1 - k = n - i /\ k - 1 = i
    <3>1. Len(s) \in Nat /\ i \in 1..Len(s)
      BY <1>3, <1>4
    <3> QED  BY <3>1
  <2>2. n = Len(s)
    OBVIOUS
  <2> HIDE DEF k, n
  <2>3. /\ SubSeq(s, k, n) \in Seq(Keys) /\ Len(SubSeq(s, k, n)) = n - i
        /\ \A j \in 1..(n - i) : SubSeq(s, k, n)[j] = s[j + i]
    BY <2>1, <2>2, Slice
  <2> QED  BY <2>3 DEF k, n
<1> HIDE DEF a, b
<1>7. /\ t \in Seq(Keys) /\ Len(t) = Len(s) - 1
      /\ \A j \in 1..(Len(s) - 1) : t[j] = IF j < i THEN s[j] ELSE s[j + 1]
  <2>1. /\ t \in Seq(Keys) /\ Len(t) = Len(a) + Len(b)
        /\ \A j \in 1..(Len(a) + Len(b)) : t[j] = IF j <= Len(a) THEN a[j] ELSE b[j - Len(a)]
    BY <1>2, <1>5, <1>6, ConcatProperties
  <2>2. Len(a) + Len(b) = Len(s) - 1
    BY <1>3, <1>4, <1>5, <1>6
  <2>3. ASSUME NEW j \in 1..(Len(s) - 1), j < i
        PROVE  t[j] = s[j]
    <3>1. j \in 1..(i - 1) /\ j <= Len(a)
      BY <1>3, <1>4, <1>5, <2>3
    <3> QED  BY <1>5, <2>1, <2>2, <3>1
  <2>4. ASSUME NEW j \in 1..(Len(s) - 1), ~(j < i)
        PROVE  t[j] = s[j + 1]
    <3> DEFINE k == j - Len(a)
    <3>1. k \in 1..(Len(s) - i) /\ ~(j <= Len(a)) /\ k + i = j + 1
      BY <1>3, <1>4, <1>5, <2>4
    <3>2. t[j] = b[k]
      BY <2>1, <2>2, <3>1
    <3> HIDE DEF k
    <3> QED  BY <1>6, <3>1, <3>2
  <2> QED  BY <2>1, <2>2, <2>3, <2>4
<1>8. DOMAIN t = 1..(Len(s) - 1)
  BY <1>7, LenProperties
<1>9. \A j \in DOMAIN s \ {i} : \E k \in DOMAIN t : t[k] = s[j]
  <2> TAKE j \in DOMAIN s \ {i}
  <2>1. CASE j < i
    BY <1>3, <1>4, <1>7, <1>8, <2>1
  <2>2. CASE j > i
    <3>1. j - 1 \in 1..(Len(s) - 1) /\ ~(j - 1 < i) /\ (j - 1) + 1 = j
      BY <1>3, <1>4, <2>2
    <3> QED  BY <1>7, <1>8, <3>1
  <2> QED  BY <1>3, <1>4, <2>1, <2>2
<1>10. \A k \in DOMAIN t : \E j \in DOMAIN s \ {i} : t[k] = s[j]
  BY <1>3, <1>4, <1>7, <1>8
<1>11. Range(t) = Range(s) \ {key}
  <2>1. \A j \in DOMAIN s \ {i} : s[j] # key
    BY <1>1 DEF IsInjective
  <2> QED  BY <1>1, <1>9, <1>10, <2>1 DEF Range
<1>12. IsInjective(t)
  BY <1>3, <1>4, <1>7, <1>8 DEF IsInjective
<1> QED  BY <1>7, <1>11, <1>12 DEF t

\* The order without its first n keys.
LEMMA Rest ==
  ASSUME NEW s \in Seq(Keys), NEW n \in 0..Len(s), IsInjective(s)
  PROVE  LET first == SubSeq(s, 1, n)
             rest  == SubSeq(s, n + 1, Len(s))
         IN  /\ first \in Seq(Keys) /\ rest \in Seq(Keys) /\ Len(rest) = Len(s) - n
             /\ Range(rest) = Range(s) \ Range(first) /\ Range(first) \subseteq Range(s)
             /\ IsInjective(rest)
<1> DEFINE first == SubSeq(s, 1, n)
           rest  == SubSeq(s, n + 1, Len(s))
<1>1. Len(s) \in Nat /\ DOMAIN s = 1..Len(s) /\ \A j \in 1..Len(s) : s[j] \in Keys
  BY LenProperties
<1>2. /\ first \in Seq(Keys) /\ Len(first) = n
      /\ \A j \in 1..n : first[j] = s[j]
  <2>1. n \in Nat /\ n <= Len(s) /\ 1 <= n + 1 /\ n + 1 - 1 = n
    BY <1>1
  <2>2. /\ first \in Seq(Keys) /\ Len(first) = n
        /\ \A j \in 1..n : first[j] = s[j + (1 - 1)]
    BY <2>1, Slice
  <2>3. \A j \in 1..n : j + (1 - 1) = j
    OBVIOUS
  <2> QED  BY <2>2, <2>3
<1>3. /\ rest \in Seq(Keys) /\ Len(rest) = Len(s) - n
      /\ \A j \in 1..(Len(s) - n) : rest[j] = s[j + n]
  <2> DEFINE k == n + 1
             m == Len(s)
  <2>1. k \in Nat /\ k >= 1 /\ m \in Nat /\ k <= m + 1 /\ m + 1 - k = m - n /\ k - 1 = n
    <3>1. Len(s) \in Nat /\ n \in 0..Len(s)
      BY <1>1
    <3> QED  BY <3>1
  <2>2. m = Len(s)
    OBVIOUS
  <2> HIDE DEF k, m
  <2>3. /\ SubSeq(s, k, m) \in Seq(Keys) /\ Len(SubSeq(s, k, m)) = m - n
        /\ \A j \in 1..(m - n) : SubSeq(s, k, m)[j] = s[j + n]
    BY <2>1, <2>2, Slice
  <2> QED  BY <2>3 DEF k, m
<1> HIDE DEF first, rest
<1>4. DOMAIN first = 1..n /\ DOMAIN rest = 1..(Len(s) - n)
  BY <1>2, <1>3, LenProperties
<1>5. Range(first) \subseteq Range(s)
  BY <1>1, <1>2, <1>4 DEF Range
<1>6. ASSUME NEW j \in 1..n, NEW k \in 1..(Len(s) - n)
      PROVE  first[j] # rest[k]
  <2>1. j \in DOMAIN s /\ k + n \in DOMAIN s /\ j # k + n
    BY <1>1
  <2>2. first[j] = s[j] /\ rest[k] = s[k + n]
    BY <1>2, <1>3
  <2> QED  BY <2>1, <2>2 DEF IsInjective
<1>7. \A j \in DOMAIN s : j \in DOMAIN first \/ (j - n \in DOMAIN rest /\ rest[j - n] = s[j])
  <2> TAKE j \in DOMAIN s
  <2>1. CASE j <= n
    BY <1>1, <1>4, <2>1
  <2>2. CASE j > n
    <3>1. j - n \in 1..(Len(s) - n) /\ (j - n) + n = j
      BY <1>1, <2>2
    <3> QED  BY <1>3, <1>4, <3>1
  <2> QED  BY <1>1, <2>1, <2>2
<1>8. Range(rest) = Range(s) \ Range(first)
  <2>1. ASSUME NEW x \in Range(rest)
        PROVE  x \in Range(s) /\ x \notin Range(first)
    <3>1. PICK k \in 1..(Len(s) - n) : rest[k] = x
      BY <1>4 DEF Range
    <3>2. k + n \in DOMAIN s /\ s[k + n] = x
      BY <1>1, <1>3, <3>1
    <3>3. \A j \in DOMAIN first : first[j] # x
      BY <1>4, <1>6, <3>1
    <3> QED  BY <3>2, <3>3 DEF Range
  <2>2. ASSUME NEW x \in Range(s), x \notin Range(first)
        PROVE  x \in Range(rest)
    <3>1. PICK j \in DOMAIN s : s[j] = x
      BY DEF Range
    <3>2. j \notin DOMAIN first
      BY <1>2, <1>4, <2>2, <3>1 DEF Range
    <3> QED  BY <1>7, <3>1, <3>2 DEF Range
  <2> QED  BY <2>1, <2>2
<1>9. IsInjective(rest)
  <2> SUFFICES ASSUME NEW j \in 1..(Len(s) - n), NEW k \in 1..(Len(s) - n), rest[j] = rest[k]
               PROVE  j = k
    BY <1>4 DEF IsInjective
  <2>1. s[j + n] = s[k + n] /\ j + n \in DOMAIN s /\ k + n \in DOMAIN s
    BY <1>1, <1>3
  <2>2. j + n = k + n
    BY <2>1 DEF IsInjective
  <2> QED  BY <1>1, <2>2
<1> QED  BY <1>2, <1>3, <1>5, <1>8, <1>9 DEF first, rest
-----------------------------------------------------------------------------
(* retain().                                                               *)

\* The order of use names each entry once, and the bytes are those of the entries.
Accounted(kept) ==
  /\ DOMAIN kept.entries \subseteq Keys /\ kept.lru \in Seq(Keys)
  /\ \A key \in DOMAIN kept.entries : kept.entries[key] \in Data
  /\ Range(kept.lru) = DOMAIN kept.entries /\ IsInjective(kept.lru)
  /\ kept.bytes = BytesIn(kept.entries, DOMAIN kept.entries)

\* The bytes and the entries that may be kept.
WithinLimits(kept) == kept.bytes <= ByteLimit /\ Len(kept.lru) <= EntryLimit

\* No entry is another one than before.
Fewer(kept, other) ==
  \A key \in DOMAIN kept.entries :
    key \in DOMAIN other.entries /\ kept.entries[key] = other.entries[key]

\* Removing an entry gives back its bytes.
LEMMA WithoutKey ==
  ASSUME NEW kept, Accounted(kept), WithinLimits(kept), NEW key \in DOMAIN kept.entries
  PROVE  LET rest == Without(kept, key)
         IN  /\ Accounted(rest) /\ WithinLimits(rest) /\ Fewer(rest, kept)
             /\ DOMAIN rest.entries = DOMAIN kept.entries \ {key}
<1> DEFINE table == kept.entries
           keys  == DOMAIN table
           other == [k \in keys \ {key} |-> table[k]]
           order == Dropped(kept.lru, key)
           rest  == Without(kept, key)
           fewer == kept.bytes - Bytes(key, table[key])
<1>1. /\ keys \subseteq Keys /\ kept.lru \in Seq(Keys) /\ Range(kept.lru) = keys
      /\ IsInjective(kept.lru) /\ kept.bytes = BytesIn(table, keys)
      /\ \A k \in keys : table[k] \in Data
  BY DEF Accounted
<1>2. rest.entries = other /\ rest.lru = order /\ rest.bytes = fewer
  BY DEF Without
<1>3. /\ order \in Seq(Keys) /\ Len(order) = Len(kept.lru) - 1 /\ Len(kept.lru) \in Nat
      /\ Range(order) = keys \ {key} /\ IsInjective(order)
  BY <1>1, DroppedKey, LenProperties
<1>4. DOMAIN other = keys \ {key} /\ \A k \in keys \ {key} : other[k] = table[k]
  OBVIOUS
<1> HIDE DEF table, keys, other, order, rest
<1>5. IsFiniteSet(keys) /\ IsFiniteSet(keys \ {key}) /\ IsFiniteSet({key})
  <2>1. IsFiniteSet(keys)
    BY <1>1, RangeFinite
  <2> QED  BY <2>1, FS_RemoveElement, FS_Singleton
<1>6. key \in keys
  BY DEF keys, table
<1>7. kept.bytes = BytesIn(table, keys \ {key}) + BytesIn(table, {key})
  <2>1. (keys \ {key}) \cup {key} = keys /\ (keys \ {key}) \cap {key} = {}
    BY <1>6
  <2> QED  BY <1>1, <1>5, <1>6, <2>1, BytesAdd
<1>8. BytesIn(table, {key}) = Bytes(key, table[key]) /\ Bytes(key, table[key]) \in Nat
  BY <1>1, <1>6, BytesOne, BytesOfData
<1>9. BytesIn(table, keys \ {key}) = BytesIn(other, keys \ {key})
  BY <1>4, BytesSame
<1>10. BytesIn(table, keys \ {key}) \in Nat
  BY <1>1, <1>5, Counted
<1>11. fewer = BytesIn(other, keys \ {key}) /\ fewer <= kept.bytes /\ fewer \in Nat
  BY <1>7, <1>8, <1>9, <1>10
<1> HIDE DEF fewer
<1>12. Accounted(rest)
  BY <1>1, <1>2, <1>3, <1>4, <1>11 DEF Accounted
<1>13. WithinLimits(rest)
  <2>1. kept.bytes \in Nat /\ kept.bytes <= ByteLimit /\ Len(kept.lru) <= EntryLimit
    BY <1>7, <1>8, <1>10 DEF WithinLimits
  <2>2. ByteLimit \in Nat /\ EntryLimit \in Nat
    BY CacheAssumption
  <2> QED  BY <1>2, <1>3, <1>11, <2>1, <2>2 DEF WithinLimits
<1>14. Fewer(rest, kept)
  BY <1>2, <1>4 DEF Fewer, keys, table
<1> QED  BY <1>2, <1>4, <1>12, <1>13, <1>14 DEF rest, keys, table

\* Eviction ends with room for the new entry, and the accounts in order.
LEMMA EvictedSound ==
  ASSUME NEW kept, Accounted(kept), NEW size \in Nat, size <= ByteLimit
  PROVE  LET rest == Evicted(kept, size)
         IN  /\ Accounted(rest) /\ Fewer(rest, kept)
             /\ rest.bytes \in Nat /\ rest.bytes + size <= ByteLimit
             /\ Len(rest.lru) + 1 <= EntryLimit
<1> DEFINE table == kept.entries
           keys  == DOMAIN table
           order == kept.lru
           Ok(n) == MakesRoom(kept, size, n) /\ \A m \in 0..(n - 1) : ~MakesRoom(kept, size, m)
           n     == CHOOSE n \in 0..Len(order) : Ok(n)
           gone  == Oldest(kept, n)
           other == [k \in keys \ gone |-> table[k]]
           left  == SubSeq(order, n + 1, Len(order))
           fewer == kept.bytes - BytesIn(table, gone)
           rest  == Evicted(kept, size)
<1>1. /\ keys \subseteq Keys /\ order \in Seq(Keys) /\ Range(order) = keys
      /\ IsInjective(order) /\ kept.bytes = BytesIn(table, keys)
      /\ \A k \in keys : table[k] \in Data
  BY DEF Accounted
<1>2. Len(order) \in Nat
  BY <1>1, LenProperties
<1>3. \E i \in 0..Len(order) : Ok(i)
  <2> DEFINE S == {i \in 0..Len(order) : MakesRoom(kept, size, i)}
  <2>1. Len(order) \in S /\ S \in SUBSET Nat
    BY <1>2 DEF MakesRoom
  <2>2. PICK m \in S : \A i \in S : m <= i
    BY <2>1, LeastOf
  <2>3. m \in 0..Len(order) /\ MakesRoom(kept, size, m)
    OBVIOUS
  <2>4. \A i \in 0..(m - 1) : ~MakesRoom(kept, size, i)
    BY <1>2, <2>2, <2>3
  <2> QED  BY <2>3, <2>4
<1>4. n \in 0..Len(order) /\ MakesRoom(kept, size, n)
  BY <1>3
<1>5. rest.entries = other /\ rest.lru = left /\ rest.bytes = fewer
  BY DEF Evicted
<1> HIDE DEF n, rest
<1>6. /\ left \in Seq(Keys) /\ Len(left) = Len(order) - n /\ IsInjective(left)
      /\ Range(left) = keys \ gone /\ gone \subseteq keys
  BY <1>1, <1>4, Rest DEF Oldest
<1>7. DOMAIN other = keys \ gone /\ \A k \in keys \ gone : other[k] = table[k]
  OBVIOUS
<1> HIDE DEF gone, other, left, keys
<1>8. IsFiniteSet(keys) /\ IsFiniteSet(gone) /\ IsFiniteSet(keys \ gone)
  BY <1>1, <1>6, RangeFinite, FS_Subset
<1>9. kept.bytes = BytesIn(table, keys \ gone) + BytesIn(table, gone)
  <2>1. (keys \ gone) \cup gone = keys /\ (keys \ gone) \cap gone = {}
    BY <1>6
  <2>2. keys \ gone \in SUBSET Keys /\ gone \in SUBSET Keys
    BY <1>1, <1>6
  <2>3. BytesIn(table, (keys \ gone) \cup gone)
          = BytesIn(table, keys \ gone) + BytesIn(table, gone)
    BY <1>8, <2>1, <2>2, BytesAdd
  <2> QED  BY <1>1, <2>1, <2>3
<1>10. BytesIn(table, keys \ gone) \in Nat /\ BytesIn(table, gone) \in Nat
  BY <1>1, <1>6, <1>8, Counted
<1>11. BytesIn(table, keys \ gone) = BytesIn(other, keys \ gone)
  BY <1>7, BytesSame
<1>12. fewer = BytesIn(other, keys \ gone) /\ fewer \in Nat
  BY <1>9, <1>10, <1>11
<1>13. n = Len(order) => fewer + size <= ByteLimit /\ Len(left) + 1 <= EntryLimit
  <2> HAVE n = Len(order)
  <2>1. Len(left) = 0
    BY <1>2, <1>6
  <2>2. keys \ gone = {}
    <3>1. DOMAIN left = 1..0
      BY <1>6, <2>1, LenProperties
    <3>2. DOMAIN left = {}
      BY <3>1
    <3> QED  BY <1>6, <3>2 DEF Range
  <2>3. fewer = 0
    BY <1>12, <2>2, NoBytes
  <2> QED  BY <2>1, <2>3, CacheAssumption
<1>14. n # Len(order) => fewer + size <= ByteLimit /\ Len(left) + 1 <= EntryLimit
  <2> HAVE n # Len(order)
  <2>1. Len(order) - n < EntryLimit /\ fewer + size <= ByteLimit
    BY <1>4 DEF MakesRoom, gone
  <2> QED  BY <1>2, <1>4, <1>6, <2>1, CacheAssumption
<1>15. Accounted(rest)
  BY <1>1, <1>5, <1>6, <1>7, <1>12 DEF Accounted
<1>16. Fewer(rest, kept)
  BY <1>5, <1>7 DEF Fewer, keys
<1> QED  BY <1>5, <1>12, <1>13, <1>14, <1>15, <1>16 DEF rest

\* What retain() leaves: the new entry, if it is not too large, and some of the others.
LEMMA RetainSound ==
  ASSUME Accounted(Kept), WithinLimits(Kept), NEW key \in Keys, NEW data \in Data
  PROVE  LET result == Retain(key, data)
         IN  /\ Accounted(result) /\ WithinLimits(result)
             /\ \A k \in DOMAIN result.entries :
                  \/ k = key /\ result.entries[k] = data
                  \/ k \in DOMAIN entries /\ result.entries[k] = entries[k]
<1> DEFINE before == IF key \in DOMAIN entries THEN Without(Kept, key) ELSE Kept
           size   == Bytes(key, data)
           room   == Evicted(before, size)
           result == Retain(key, data)
           table  == [k \in DOMAIN room.entries \cup {key} |->
                        IF k = key THEN data ELSE room.entries[k]]
<1>1. Kept.entries = entries
  BY DEF Kept
<1>2. /\ Accounted(before) /\ WithinLimits(before) /\ Fewer(before, Kept)
      /\ key \notin DOMAIN before.entries
  <2>1. CASE key \in DOMAIN entries
    BY <1>1, <2>1, WithoutKey
  <2>2. CASE key \notin DOMAIN entries
    BY <1>1, <2>2 DEF Fewer
  <2> QED  BY <2>1, <2>2
<1>3. size \in Nat
  BY BytesOfData
<1>4. result = IF size > ByteLimit THEN before
               ELSE [entries |-> table, lru |-> Append(room.lru, key),
                     bytes |-> room.bytes + size]
  BY DEF Retain
<1> HIDE DEF before, result
<1>5. CASE size > ByteLimit
  BY <1>1, <1>2, <1>4, <1>5 DEF Fewer, result
<1>6. CASE ~(size > ByteLimit)
  <2>1. /\ Accounted(room) /\ Fewer(room, before)
        /\ room.bytes \in Nat /\ room.bytes + size <= ByteLimit /\ Len(room.lru) + 1 <= EntryLimit
    <3>1. size <= ByteLimit
      BY <1>3, <1>6, CacheAssumption
    <3> QED  BY <1>2, <1>3, <3>1, EvictedSound
  <2> HIDE DEF room
  <2>2. /\ result.entries = table /\ result.lru = Append(room.lru, key)
        /\ result.bytes = room.bytes + size
    BY <1>4, <1>6
  <2> DEFINE old == DOMAIN room.entries
  <2>3. key \notin old
    BY <1>2, <2>1 DEF Fewer
  <2>4. /\ old \subseteq Keys /\ room.lru \in Seq(Keys) /\ Range(room.lru) = old
        /\ IsInjective(room.lru) /\ room.bytes = BytesIn(room.entries, old)
        /\ \A k \in old : room.entries[k] \in Data
    BY <2>1 DEF Accounted
  <2>5. /\ result.lru \in Seq(Keys) /\ Len(result.lru) = Len(room.lru) + 1
        /\ Range(result.lru) = old \cup {key} /\ IsInjective(result.lru)
    BY <2>2, <2>3, <2>4, Appended
  <2>6. /\ DOMAIN table = old \cup {key} /\ table[key] = data
        /\ \A k \in old : table[k] = room.entries[k]
    BY <2>3
  <2> HIDE DEF table, size, old
  <2>7. BytesIn(table, old \cup {key}) = BytesIn(table, old) + BytesIn(table, {key})
    <3>1. IsFiniteSet(old) /\ IsFiniteSet({key}) /\ old \cap {key} = {}
      BY <2>3, <2>4, RangeFinite, FS_Singleton
    <3>2. old \in SUBSET Keys /\ {key} \in SUBSET Keys
      BY <2>4
    <3> QED  BY <3>1, <3>2, BytesAdd
  <2>8. BytesIn(table, old) = room.bytes
    BY <2>4, <2>6, BytesSame
  <2>9. BytesIn(table, {key}) = size
    BY <2>6, BytesOne DEF size
  <2>10. result.bytes = BytesIn(result.entries, DOMAIN result.entries)
    BY <2>2, <2>6, <2>7, <2>8, <2>9
  <2>11. Accounted(result)
    BY <2>2, <2>4, <2>5, <2>6, <2>10 DEF Accounted
  <2>12. WithinLimits(result)
    BY <2>1, <2>2, <2>5 DEF WithinLimits
  <2>13. \A k \in DOMAIN result.entries :
           \/ k = key /\ result.entries[k] = data
           \/ k \in DOMAIN entries /\ result.entries[k] = entries[k]
    BY <1>1, <1>2, <2>1, <2>2, <2>6 DEF Fewer, old
  <2> QED  BY <2>11, <2>12, <2>13 DEF result
<1> QED  BY <1>5, <1>6
-----------------------------------------------------------------------------
(* start().                                                                *)

\* The slots without a job.
Free(work) == {slot \in Jobs : ~Active(work.jobs[slot])}

\* One request at most finds a free slot: the only one that waits, or the oldest for the only
\* slot that is free; the request of the one is what the other takes up.
LEMMA StartedTakes ==
  ASSUME NEW work, NEW table, work = Work(work.jobs, work.queue, work.pending),
         work.jobs \in [Jobs -> Job], work.queue \in Seq(Keys),
         \A key \in Range(work.queue) : AssetOf[key] \in DOMAIN assets,
         Len(work.queue) <= 1 \/ \E slot : Free(work) \subseteq {slot}
  PROVE  \/ Started(work, table) = work /\ (work.queue = <<>> \/ Free(work) = {})
         \/ \E slot \in Free(work) :
              /\ work.queue # <<>>
              /\ Tail(work.queue) = <<>> \/ Free(work) = {slot}
              /\ Started(work, table)
                   = Work([work.jobs EXCEPT ![slot] = Launched(Head(work.queue), table)],
                          Tail(work.queue), work.pending)
<1> DEFINE free       == Free(work)
           line       == work.queue
           turn(slot) == Cardinality({s \in free : s <= slot})
           taken      == Min({Cardinality(free), Len(line)})
           here(key)  == AssetOf[key] \in DOMAIN assets
           takes(slot) == slot \in free /\ turn(slot) <= taken /\ here(line[turn(slot)])
           given      == [slot \in Jobs |-> IF takes(slot) THEN Launched(line[turn(slot)], table)
                                           ELSE work.jobs[slot]]
           left       == SubSeq(line, taken + 1, Len(line))
           expected   == work.pending \ {key \in Range(SubSeq(line, 1, taken)) : ~here(key)}
<1>1. Started(work, table) = Work(given, left, expected)
  BY DEF Started, Free
<1>2. /\ IsFiniteSet(free) /\ free \subseteq Nat /\ free \subseteq Jobs /\ Cardinality(free) \in Nat
      /\ Cardinality(free) = 0 <=> free = {}
  <2>1. free \subseteq Jobs /\ IsFiniteSet(Jobs) /\ Jobs \subseteq Nat
    BY CacheAssumption DEF Free
  <2> HIDE DEF free
  <2> QED  BY <2>1, FS_Subset, FS_CardinalityType, FS_EmptySet
<1>3. Len(line) \in Nat /\ DOMAIN line = 1..Len(line)
  BY LenProperties
<1>4. taken = IF Cardinality(free) <= Len(line) THEN Cardinality(free) ELSE Len(line)
  BY <1>2, <1>3, MinOfTwo
<1>5. \A key \in Range(line) : here(key)
  OBVIOUS
<1> HIDE DEF free, taken, here
<1>6. ASSUME NEW slot \in free
      PROVE  /\ turn(slot) \in Nat /\ turn(slot) >= 1
             /\ turn(slot) = 1 <=> \A s \in free : slot <= s
  <2> DEFINE before == {s \in free : s <= slot}
  <2>1. before \in SUBSET free /\ slot \in before
    BY <1>2
  <2>2. IsFiniteSet(before) /\ Cardinality(before) \in Nat
    <3> HIDE DEF before
    <3> QED  BY <1>2, <2>1, FS_Subset, FS_CardinalityType
  <2>3. Cardinality(before) # 0
    <3> HIDE DEF before
    <3> QED  BY <2>1, <2>2, FS_EmptySet
  <2>4. ASSUME Cardinality(before) = 1
        PROVE  \A s \in free : slot <= s
    <3>1. PICK x : before = {x}
      <4> HIDE DEF before
      <4> QED  BY <2>2, <2>4, FS_Singleton
    <3>2. before = {slot}
      BY <2>1, <3>1
    <3>3. ASSUME NEW s \in free, ~(slot <= s)
          PROVE  FALSE
      <4>1. s \in before /\ s # slot
        BY <1>2, <3>3
      <4> QED  BY <3>2, <4>1
    <3> QED  BY <3>3
  <2>5. ASSUME \A s \in free : slot <= s
        PROVE  Cardinality(before) = 1
    <3>1. \A s \in before : s = slot
      <4> SUFFICES ASSUME NEW s \in before
                   PROVE  s = slot
        OBVIOUS
      <4>1. s \in Nat /\ slot \in Nat /\ s <= slot /\ slot <= s
        BY <1>2, <2>1, <2>5
      <4> QED  BY <4>1
    <3>2. before = {slot}
      BY <2>1, <3>1
    <3> HIDE DEF before
    <3> QED  BY <3>2, FS_Singleton
  <2>6. turn(slot) = Cardinality(before)
    OBVIOUS
  <2> HIDE DEF before, turn
  <2> QED  BY <2>2, <2>3, <2>4, <2>5, <2>6
<1> HIDE DEF turn
<1>7. CASE line = <<>> \/ free = {}
  <2>1. taken = 0
    <3>1. CASE line = <<>>
      BY <1>2, <1>4, <3>1, EmptySeq
    <3>2. CASE free = {}
      BY <1>2, <1>3, <1>4, <3>2
    <3> QED  BY <1>7, <3>1, <3>2
  <2>2. given = work.jobs
    <3>1. \A slot \in Jobs : ~takes(slot)
      BY <1>6, <2>1
    <3> QED  BY <3>1
  <2>3. left = line
    BY <2>1, SubSeqFull
  <2>4. expected = work.pending
    <3>1. SubSeq(line, 1, 0) = <<>>
      BY SubSeqEmpty
    <3>2. Range(<<>>) = {}
      BY DEF Range
    <3> QED  BY <2>1, <3>1, <3>2
  <2>5. Started(work, table) = work
    BY <1>1, <2>2, <2>3, <2>4
  <2> QED  BY <1>7, <2>5 DEF free
<1>8. CASE line # <<>> /\ free # {}
  <2>1. PICK slot \in free : \A s \in free : slot <= s
    <3>1. free \in SUBSET Nat
      BY <1>2
    <3> QED  BY <1>8, <3>1, LeastOf
  <2>2. turn(slot) = 1
    BY <1>6, <2>1
  <2>3. Len(line) >= 1 /\ Cardinality(free) >= 1
    BY <1>2, <1>3, <1>8, EmptySeq
  <2>4. Len(line) = 1 \/ free = {slot}
    <3>1. CASE Len(line) <= 1
      <4> DEFINE n == Len(line)
      <4>1. n \in Nat /\ n >= 1 /\ n <= 1
        BY <1>3, <2>3, <3>1
      <4> HIDE DEF n
      <4>2. n = 1
        BY <4>1
      <4> QED  BY <4>2 DEF n
    <3>2. CASE \E s : free \subseteq {s}
      BY <3>2
    <3> QED  BY <3>1, <3>2 DEF free
  <2>5. taken = 1
    <3>1. CASE Len(line) = 1
      BY <1>2, <1>4, <2>3, <3>1
    <3>2. CASE free = {slot}
      <4>1. Cardinality(free) = 1
        BY <3>2, FS_Singleton
      <4> QED  BY <1>3, <1>4, <2>3, <4>1
    <3> QED  BY <2>4, <3>1, <3>2
  <2>6. line[1] \in Keys /\ line[1] = Head(line) /\ line[1] \in Range(line)
    BY <1>3, <1>8, <2>3, ElementOfSeq DEF Range
  <2>7. takes(slot)
    BY <1>5, <2>2, <2>5, <2>6
  <2>8. \A s \in Jobs : takes(s) => s = slot
    <3> SUFFICES ASSUME NEW s \in Jobs, takes(s)
                 PROVE  s = slot
      OBVIOUS
    <3>1. s \in free /\ turn(s) = 1
      BY <1>6, <2>5
    <3>2. slot <= s /\ s <= slot
      BY <1>6, <2>1, <3>1
    <3> QED  BY <1>2, <3>1, <3>2
  <2>9. given = [work.jobs EXCEPT ![slot] = Launched(Head(line), table)]
    <3>1. slot \in Jobs /\ DOMAIN work.jobs = Jobs
      BY <1>2
    <3> HIDE DEF takes
    <3>2. \A s \in Jobs : given[s] = IF s = slot THEN Launched(Head(line), table) ELSE work.jobs[s]
      BY <2>2, <2>6, <2>7, <2>8
    <3> QED  BY <3>1, <3>2
  <2>10. left = Tail(line)
    BY <1>8, <2>5, TailIsSubSeq
  <2>11. expected = work.pending
    <3>1. SubSeq(line, 1, 1) \in Seq(Keys) /\ Range(SubSeq(line, 1, 1)) \subseteq Range(line)
      <4>1. /\ SubSeq(line, 1, 1) \in Seq(Keys) /\ Len(SubSeq(line, 1, 1)) = 1
            /\ \A j \in 1..1 : SubSeq(line, 1, 1)[j] = line[j + 0]
        BY <2>3, Slice
      <4>2. DOMAIN SubSeq(line, 1, 1) = 1..1
        BY <4>1, LenProperties
      <4> QED  BY <1>3, <2>3, <4>1, <4>2 DEF Range
    <3> QED  BY <1>5, <2>5, <3>1
  <2>12. Tail(line) = <<>> \/ free = {slot}
    <3>1. ASSUME Len(line) = 1
          PROVE  Tail(line) = <<>>
      <4>1. Tail(line) = SubSeq(line, 2, 1)
        BY <1>8, <3>1, TailIsSubSeq
      <4> QED  BY <4>1, SubSeqEmpty
    <3> QED  BY <2>4, <3>1
  <2> HIDE DEF given, left, expected
  <2> QED  BY <1>1, <1>8, <2>1, <2>9, <2>10, <2>11, <2>12 DEF free
<1> QED  BY <1>7, <1>8
-----------------------------------------------------------------------------
(* The invariant.                                                          *)

\* The file that the asset of a job had in the project it was begun for.
FileOf(job) == Projects[job.generation][AssetOf[job.key]]

\* An error, or whole and made of one version of the file.
Genuine(data, file) ==
  \/ IsError(data)
  \/ data.content = {data.signature} /\ data.signature.file = file

\* What the thread of a job may rely on, when the project is number now and the files have the
\* given versions: whatever it has seen of its file is no older than the version it identified
\* and no newer than the one on disk.
JobSound(job, now, versions) ==
  /\ Active(job) => /\ job.key \in Keys /\ job.generation \in 1..now
                    /\ AssetOf[job.key] \in DOMAIN Projects[job.generation]
  /\ Busy(job) => job.file = FileOf(job)
  /\ job.phase = "identify" => Genuine(job.previous, FileOf(job))
  /\ job.phase \in {"spawn", "running", "confirm"} =>
       /\ job.identity \in Version /\ job.identity.file = job.file
       /\ job.identity.version <= versions[job.file]
  /\ job.phase = "running" => job.run \in Run
  /\ job.phase \in {"running", "confirm"} =>
       /\ job.seen # {}
       /\ \A version \in job.seen :
            /\ version.file = job.file
            /\ job.identity.version <= version.version
            /\ version.version <= versions[job.file]
  /\ job.phase = "returned" => Genuine(job.data, FileOf(job))

\* The slots that work for the media shown now.
Live(work, now) == {slot \in Jobs : Active(work.jobs[slot]) /\ work.jobs[slot].generation = now}

\* Every pending key is in one place: it waits, or one slot works on it for the media shown now.
Placed(work, now, media) ==
  /\ work.pending = Range(work.queue) \cup {work.jobs[slot].key : slot \in Live(work, now)}
  /\ IsInjective(work.queue)
  /\ \A s, t \in Live(work, now) : work.jobs[s].key = work.jobs[t].key => s = t
  /\ \A s \in Live(work, now) : work.jobs[s].key \notin Range(work.queue)
  /\ \A key \in Range(work.queue) : AssetOf[key] \in DOMAIN media

\* Each entry is of an asset of the project, and of the file it has now.
AllGenuine(table, media) ==
  \A key \in DOMAIN table :
    AssetOf[key] \in DOMAIN media /\ Genuine(table[key], media[AssetOf[key]])

\* The work as it stands.
Now == Work(jobs, queue, pending)

\* The invariant of the cache.  A job whose project is gone relies on that project still, for
\* which its result is dropped; a closed cache owes nothing.
CacheInv ==
  /\ TypeOK
  /\ AllGenuine(entries, assets)
  /\ Accounted(Kept) /\ WithinLimits(Kept) /\ Len(queue) <= QueueLimit
  /\ \A slot \in Jobs : JobSound(jobs[slot], generation, disk)
  /\ \/ closed
     \/ Placed(Now, generation, assets) /\ (queue # <<>> => Free(Now) = {})
-----------------------------------------------------------------------------
(* What the invariant says of the cache.                                   *)

\* As many keys are pending as wait and are worked on.
LEMMA PendingCounted ==
  ASSUME TypeOK, Placed(Now, generation, assets)
  PROVE  Cardinality(pending) = Len(queue) + Cardinality(Live(Now, generation))
<1> DEFINE live == Live(Now, generation)
           f    == [slot \in live |-> jobs[slot].key]
           keys == {jobs[slot].key : slot \in live}
<1>1. /\ pending = Range(queue) \cup keys /\ IsInjective(queue)
      /\ \A s, t \in live : jobs[s].key = jobs[t].key => s = t
      /\ \A s \in live : jobs[s].key \notin Range(queue)
  BY DEF Placed, Now, Work
<1>2. queue \in Seq(Keys)
  BY DEF TypeOK
<1>3. Len(queue) \in Nat /\ queue \in [1..Len(queue) -> Keys] /\ DOMAIN queue = 1..Len(queue)
  BY <1>2, LenProperties
<1>4. IsFiniteSet(Range(queue)) /\ Cardinality(Range(queue)) = Len(queue)
  <2>1. IsFiniteSet(1..Len(queue)) /\ Cardinality(1..Len(queue)) = Len(queue)
    <3>1. IsFiniteSet(1..Len(queue))
          /\ Cardinality(1..Len(queue)) = IF 1 > Len(queue) THEN 0 ELSE Len(queue) - 1 + 1
      BY <1>3, FS_Interval
    <3> QED  BY <1>3, <3>1
  <2>2. queue \in [1..Len(queue) -> Range(queue)]
    BY <1>3 DEF Range
  <2>3. queue \in Surjection(1..Len(queue), Range(queue))
    <3>1. \A x \in Range(queue) : \E i \in 1..Len(queue) : queue[i] = x
      BY <1>3 DEF Range
    <3> QED  BY <2>2, <3>1 DEF Surjection
  <2>4. queue \in Injection(1..Len(queue), Range(queue))
    BY <1>1, <1>3, <2>2 DEF Injection, IsInjective
  <2> QED  BY <2>1, <2>3, <2>4, FS_Surjection
<1>5. IsFiniteSet(keys) /\ Cardinality(keys) = Cardinality(live) /\ Cardinality(live) \in Nat
  <2>1. IsFiniteSet(live)
    <3>1. live \in SUBSET Jobs
      BY DEF Live
    <3> QED  BY <3>1, FS_Subset, CacheAssumption
  <2>2. f \in [live -> keys]
    OBVIOUS
  <2>3. f \in Surjection(live, keys)
    <3>1. \A x \in keys : \E slot \in live : f[slot] = x
      OBVIOUS
    <3> HIDE DEF f, keys, live
    <3> QED  BY <2>2, <3>1 DEF Surjection
  <2>4. f \in Injection(live, keys)
    <3>1. \A s, t \in live : f[s] = f[t] => s = t
      BY <1>1
    <3> HIDE DEF f, keys, live
    <3> QED  BY <2>2, <3>1 DEF Injection, IsInjective
  <2> HIDE DEF f, keys, live
  <2> QED  BY <2>1, <2>3, <2>4, FS_Surjection, FS_CardinalityType
<1>6. Range(queue) \cap keys = {}
  BY <1>1
<1> HIDE DEF f, keys, live
<1>7. Cardinality(Range(queue) \cup keys)
        = Cardinality(Range(queue)) + Cardinality(keys) - Cardinality({})
  BY <1>4, <1>5, <1>6, FS_Union
<1>8. Cardinality({}) = 0
  BY FS_EmptySet
<1> QED  BY <1>1, <1>3, <1>4, <1>5, <1>7, <1>8 DEF live

\* The property that the run checks follows, part by part.
LEMMA Coherent ==
  ASSUME CacheInv
  PROVE  CacheCoherent
<1>1. TypeOK
  BY DEF CacheInv
<1>2. EntriesGenuine
  BY DEF CacheInv, AllGenuine, EntriesGenuine, Genuine
<1>3. EntriesAccounted
  BY DEF CacheInv, EntriesAccounted, Accounted, WithinLimits, Kept
<1>4. PendingIsWork
  <2>1. CASE closed
    BY <2>1 DEF PendingIsWork
  <2>2. CASE ~closed
    <3>1. Placed(Now, generation, assets) /\ (queue # <<>> => Free(Now) = {})
      BY <2>2 DEF CacheInv
    <3>2. Live(Now, generation) = {slot \in Jobs : Active(jobs[slot]) /\ Current(jobs[slot])}
      BY DEF Live, Now, Work, Current
    <3>3. pending = Range(queue) \cup {jobs[slot].key : slot \in Live(Now, generation)}
      BY <3>1 DEF Placed, Now, Work
    <3>4. queue # <<>> => \A slot \in Jobs : Active(jobs[slot])
      BY <3>1 DEF Free, Now, Work
    <3>5. Cardinality(pending) = Len(queue) + Cardinality(Live(Now, generation))
      BY <1>1, <3>1, PendingCounted
    <3> QED  BY <3>2, <3>3, <3>4, <3>5, Zenon DEF PendingIsWork
  <2> QED  BY <2>1, <2>2
<1> QED  BY <1>1, <1>2, <1>3, <1>4 DEF CacheCoherent
-----------------------------------------------------------------------------
(* The threads.                                                            *)

\* An error is data as well.
LEMMA FailedIsData == Failed \in Data /\ IsError(Failed)
BY DEF Failed, Data, IsError

\* A slot that rests.
LEMMA IdleIsJob == Idle \in Job /\ ~Active(Idle)
<1>1. Len(Projects) \in Nat
  BY CacheAssumption
<1> QED  BY <1>1, FailedIsData DEF Idle, Job, Active

\* The file of a job is one, and so is its version on disk.
LEMMA FileIsFile ==
  ASSUME NEW job, Active(job), JobSound(job, generation, disk), TypeOK
  PROVE  /\ FileOf(job) \in Files /\ disk[FileOf(job)] \in 0..MaxChanges
         /\ On(FileOf(job)) \in Version
<1>1. /\ job.generation \in 1..generation /\ AssetOf[job.key] \in DOMAIN Projects[job.generation]
      /\ generation \in DOMAIN Projects /\ disk \in [Files -> 0..MaxChanges]
  BY DEF JobSound, TypeOK
<1>2. job.generation \in DOMAIN Projects
  BY <1>1, CacheAssumption
<1>3. FileOf(job) \in Files
  BY <1>1, <1>2, CacheAssumption DEF FileOf
<1> QED  BY <1>1, <1>3 DEF On, Version

\* The slots stand for the same work while their jobs go on.
LEMMA SamePlaces ==
  ASSUME NEW work, NEW other, NEW now, NEW media,
         other.queue = work.queue, other.pending = work.pending,
         \A slot \in Jobs : /\ Active(other.jobs[slot]) <=> Active(work.jobs[slot])
                            /\ other.jobs[slot].key = work.jobs[slot].key
                            /\ other.jobs[slot].generation = work.jobs[slot].generation
  PROVE  /\ Placed(work, now, media) => Placed(other, now, media)
         /\ Free(other) = Free(work)
<1>1. Live(other, now) = Live(work, now)
  BY DEF Live
<1>2. Live(work, now) \subseteq Jobs
  BY DEF Live
<1>3. Free(other) = Free(work)
  BY DEF Free
<1>4. {other.jobs[slot].key : slot \in Live(work, now)}
        = {work.jobs[slot].key : slot \in Live(work, now)}
  BY <1>2
<1>5. ASSUME Placed(work, now, media)
      PROVE  Placed(other, now, media)
  BY <1>1, <1>2, <1>4, <1>5 DEF Placed
<1> QED  BY <1>3, <1>5

\* The job of a slot goes on.
LEMMA JobGoesOn ==
  ASSUME CacheInv, NEW slot \in Jobs, NEW job \in Job, Steps(slot, job),
         Active(jobs[slot]), Active(job),
         job.key = jobs[slot].key, job.generation = jobs[slot].generation,
         JobSound(job, generation, disk)
  PROVE  CacheInv'
<1>1. jobs' = [jobs EXCEPT ![slot] = job] /\ UNCHANGED <<cache, disk, closed>>
  BY DEF Steps
<1>2. UNCHANGED <<assets, generation, entries, lru, bytes, queue, pending, disk, closed>>
  BY <1>1 DEF cache
<1>3. TypeOK /\ jobs \in [Jobs -> Job]
  BY DEF CacheInv, TypeOK
<1>4. \A s \in Jobs : jobs'[s] = IF s = slot THEN job ELSE jobs[s]
  BY <1>1, <1>3
<1>5. TypeOK'
  BY <1>1, <1>2, <1>3 DEF TypeOK
<1>6. Kept' = Kept
  BY <1>2 DEF Kept
<1>7. \A s \in Jobs : JobSound(jobs'[s], generation', disk')
  BY <1>2, <1>4 DEF CacheInv
<1>8. /\ Placed(Now, generation, assets) => Placed(Now', generation', assets')
      /\ Free(Now') = Free(Now)
  <2>1. Now'.queue = Now.queue /\ Now'.pending = Now.pending
    BY <1>2 DEF Now, Work
  <2>2. Now.jobs = jobs /\ Now'.jobs = jobs'
    BY DEF Now, Work
  <2>3. \A s \in Jobs : /\ Active(Now'.jobs[s]) <=> Active(Now.jobs[s])
                        /\ Now'.jobs[s].key = Now.jobs[s].key
                        /\ Now'.jobs[s].generation = Now.jobs[s].generation
    BY <1>4, <2>2
  <2> QED  BY <1>2, <2>1, <2>3, SamePlaces
<1>9. /\ AllGenuine(entries, assets) /\ Accounted(Kept) /\ WithinLimits(Kept)
      /\ Len(queue) <= QueueLimit
      /\ closed \/ (Placed(Now, generation, assets) /\ (queue # <<>> => Free(Now) = {}))
  BY DEF CacheInv
<1>10. AllGenuine(entries, assets)' /\ Accounted(Kept)' /\ WithinLimits(Kept)'
       /\ (Len(queue) <= QueueLimit)'
  BY <1>2, <1>6, <1>9 DEF AllGenuine, Accounted, WithinLimits
<1>11. (closed \/ (Placed(Now, generation, assets) /\ (queue # <<>> => Free(Now) = {})))'
  BY <1>2, <1>8, <1>9 DEF Placed, Free, Live
<1> QED  BY <1>5, <1>7, <1>10, <1>11 DEF CacheInv

\* A job returns what is genuine, or an error.
LEMMA ReturnedSound ==
  ASSUME NEW job \in Job, Active(job), JobSound(job, generation, disk),
         NEW data \in Data, Genuine(data, FileOf(job))
  PROVE  /\ Returned(job, data) \in Job /\ Active(Returned(job, data))
         /\ Returned(job, data).key = job.key
         /\ Returned(job, data).generation = job.generation
         /\ JobSound(Returned(job, data), generation, disk)
<1> DEFINE r == Returned(job, data)
<1>1. /\ r.phase = "returned" /\ r.key = job.key /\ r.generation = job.generation
      /\ r.data = data /\ r \in Job
  BY IdleIsJob DEF Returned, Job
<1>2. r \in Job
  BY <1>1
<1>3. FileOf(r) = FileOf(job)
  BY <1>1 DEF FileOf
<1>4. Active(r) /\ ~Busy(r) /\ r.phase = "returned"
  BY <1>1 DEF Active, Busy
<1>5. JobSound(r, generation, disk)
  BY <1>1, <1>3, <1>4 DEF JobSound
<1> QED  BY <1>1, <1>2, <1>4, <1>5

\* The thread of a job ends with what is genuine, or with an error.
LEMMA Returning ==
  ASSUME CacheInv, NEW slot \in Jobs, Active(jobs[slot]),
         NEW data \in Data, Genuine(data, FileOf(jobs[slot])),
         Steps(slot, Returned(jobs[slot], data))
  PROVE  CacheInv'
<1>1. jobs[slot] \in Job /\ JobSound(jobs[slot], generation, disk)
  BY DEF CacheInv, TypeOK
<1> DEFINE job == jobs[slot]
           r   == Returned(job, data)
<1>2. /\ r \in Job /\ Active(r) /\ r.key = job.key /\ r.generation = job.generation
      /\ JobSound(r, generation, disk)
  BY <1>1, ReturnedSound
<1> HIDE DEF r
<1>3. Steps(slot, r)
  BY DEF r
<1> QED  BY <1>2, <1>3, JobGoesOn

\* An error shows no file.
LEMMA FailedGenuine == \A file : Genuine(Failed, file)
BY FailedIsData DEF Genuine

\* A job that is looked at by its thread.
LEMMA JobAt ==
  ASSUME CacheInv, NEW slot \in Jobs, Busy(jobs[slot])
  PROVE  /\ jobs[slot] \in Job /\ JobSound(jobs[slot], generation, disk) /\ Active(jobs[slot])
         /\ jobs[slot].file = FileOf(jobs[slot]) /\ FileOf(jobs[slot]) \in Files
         /\ disk[jobs[slot].file] \in 0..MaxChanges /\ On(jobs[slot].file) \in Version
<1>1. TypeOK /\ jobs[slot] \in Job /\ JobSound(jobs[slot], generation, disk)
  BY DEF CacheInv, TypeOK
<1>2. Active(jobs[slot])
  BY DEF Busy, Active
<1>3. jobs[slot].file = FileOf(jobs[slot])
  BY <1>1 DEF JobSound
<1> QED  BY <1>1, <1>2, <1>3, FileIsFile

\* The version is read; what was made of it serves again.
LEMMA IdentifySafe ==
  ASSUME CacheInv, NEW slot \in Jobs, Identify(slot)
  PROVE  CacheInv'
<1> DEFINE job == jobs[slot]
           now == On(job.file)
           old == [job.previous EXCEPT !.fresh = TRUE]
           new == [job EXCEPT !.phase = "spawn", !.identity = now, !.previous = Failed]
<1>1. job.phase = "identify"
  BY DEF Identify
<1>2. Busy(job)
  BY <1>1 DEF Busy
<1>3. /\ job \in Job /\ JobSound(job, generation, disk) /\ Active(job)
      /\ job.file = FileOf(job) /\ FileOf(job) \in Files
      /\ disk[job.file] \in 0..MaxChanges /\ now \in Version
  BY <1>2, JobAt
<1>4. \/ Steps(slot, Returned(job, Failed))
      \/ Steps(slot, Returned(job, old))
      \/ Steps(slot, new)
  BY DEF Identify
<1>5. CASE Steps(slot, Returned(job, Failed))
  BY <1>3, <1>5, FailedGenuine, FailedIsData, Returning
<1>6. CASE Steps(slot, Returned(job, old))
  <2>1. job.previous \in Data /\ Genuine(job.previous, FileOf(job))
    BY <1>1, <1>3 DEF Job, JobSound
  <2>2. old \in Data /\ Genuine(old, FileOf(job))
    BY <2>1 DEF Data, Genuine, IsError
  <2> HIDE DEF old
  <2> QED  BY <1>3, <1>6, <2>2, Returning
<1>7. CASE Steps(slot, new)
  <2>1. /\ new \in Job /\ new.phase = "spawn" /\ new.identity = now /\ new.key = job.key
        /\ new.generation = job.generation /\ new.file = job.file
    BY <1>3, FailedIsData DEF Job
  <2> HIDE DEF new
  <2>2. Active(new) /\ FileOf(new) = FileOf(job)
    BY <2>1 DEF Active, FileOf
  <2>3. now.file = job.file /\ now.version = disk[job.file]
    BY DEF On
  <2>4. now.version <= disk[job.file]
    BY <1>3, <2>3
  <2>5. JobSound(new, generation, disk)
    BY <1>3, <2>1, <2>2, <2>3, <2>4 DEF JobSound
  <2> QED  BY <1>3, <1>7, <2>1, <2>2, <2>5, JobGoesOn
<1> QED  BY <1>4, <1>5, <1>6, <1>7

\* The child begins to read the version that is there.
LEMMA SpawnSafe ==
  ASSUME CacheInv, NEW slot \in Jobs, Spawn(slot)
  PROVE  CacheInv'
<1> DEFINE job == jobs[slot]
<1>1. job.phase = "spawn"
  BY DEF Spawn
<1>2. Busy(job)
  BY <1>1 DEF Busy
<1>3. /\ job \in Job /\ JobSound(job, generation, disk) /\ Active(job)
      /\ job.file = FileOf(job) /\ FileOf(job) \in Files
      /\ disk[job.file] \in 0..MaxChanges /\ On(job.file) \in Version
  BY <1>2, JobAt
<1>4. CASE Steps(slot, Returned(job, Failed))
  BY <1>3, <1>4, FailedGenuine, FailedIsData, Returning
<1>5. ASSUME NEW run \in Spawned,
             Steps(slot, [job EXCEPT !.phase = "running", !.run = run, !.seen = {On(job.file)}])
      PROVE  CacheInv'
  <2> DEFINE new == [job EXCEPT !.phase = "running", !.run = run, !.seen = {On(job.file)}]
  <2>1. run \in Run
    BY ProcessAssumption DEF Spawned, Run
  <2>2. /\ new \in Job /\ new.phase = "running" /\ new.run = run /\ new.seen = {On(job.file)}
        /\ new.key = job.key /\ new.generation = job.generation /\ new.file = job.file
        /\ new.identity = job.identity
    BY <1>3, <2>1 DEF Job
  <2>3. Steps(slot, new)
    BY <1>5
  <2> HIDE DEF new
  <2>4. Active(new) /\ FileOf(new) = FileOf(job)
    BY <2>2 DEF Active, FileOf
  <2>5. /\ job.identity \in Version /\ job.identity.file = job.file
        /\ job.identity.version <= disk[job.file]
    BY <1>1, <1>3 DEF JobSound
  <2>6. \A version \in new.seen : version.file = job.file /\ version.version = disk[job.file]
    BY <2>2 DEF On
  <2>7. JobSound(new, generation, disk)
    BY <1>3, <2>1, <2>2, <2>4, <2>5, <2>6 DEF JobSound
  <2> QED  BY <1>3, <2>2, <2>3, <2>4, <2>7, JobGoesOn
<1> QED  BY <1>4, <1>5 DEF Spawn

\* The child and its supervisor leave a run.
LEMMA RunsOn ==
  ASSUME NEW run \in Run, NEW stop
  PROVE  /\ \A next \in ChildSteps(run) : next \in Run
         /\ Round(run, stop).result = "none" => Round(run, stop).run \in Run
<1>1. \A next \in ChildSteps(run) : next \in Run
  BY DEF ChildSteps, Run
<1>2. CASE run.at = "read"
  <2>1. Round(run, stop) = Reads(run, stop)
    BY <1>2 DEF Round
  <2>2. \/ Reads(run, stop) = Throws
        \/ Reads(run, stop) = GoesOn([run EXCEPT !.output = run.written])
        \/ Reads(run, stop) = GoesOn([run EXCEPT !.at = "wait"])
        \/ Reads(run, stop) = Returns(run.output)
    BY DEF Reads, Outcome
  <2>3. [run EXCEPT !.output = run.written] \in Run /\ [run EXCEPT !.at = "wait"] \in Run
    BY DEF Run
  <2>4. Throws.result # "none" /\ Returns(run.output).result # "none"
    BY DEF Throws, Returns
  <2>5. \A next : GoesOn(next).run = next
    BY DEF GoesOn
  <2> QED  BY <1>1, <2>1, <2>2, <2>3, <2>4, <2>5
<1>3. CASE run.at # "read"
  <2>1. Round(run, stop) = GoesOn([run EXCEPT !.at = "read"])
    BY <1>3 DEF Round, Waits
  <2>2. [run EXCEPT !.at = "read"] \in Run
    BY DEF Run
  <2>3. \A next : GoesOn(next).run = next
    BY DEF GoesOn
  <2> QED  BY <1>1, <2>1, <2>2, <2>3
<1> QED  BY <1>2, <1>3

\* A running job goes on with another run.
LEMMA RunStepSafe ==
  ASSUME CacheInv, NEW slot \in Jobs, jobs[slot].phase = "running", NEW run \in Run,
         RunStep(slot, run)
  PROVE  CacheInv'
<1> DEFINE job == jobs[slot]
           new == [job EXCEPT !.run = run]
<1>1. Busy(job)
  BY DEF Busy
<1>2. job \in Job /\ JobSound(job, generation, disk) /\ Active(job) /\ job.file = FileOf(job)
  BY <1>1, JobAt
<1>3. /\ new \in Job /\ new.phase = "running" /\ new.run = run /\ new.seen = job.seen
      /\ new.key = job.key /\ new.generation = job.generation /\ new.file = job.file
      /\ new.identity = job.identity
  BY <1>2 DEF Job
<1>4. Steps(slot, new)
  BY DEF RunStep
<1> HIDE DEF new
<1>5. Active(new) /\ FileOf(new) = FileOf(job)
  BY <1>3 DEF Active, FileOf
<1>6. JobSound(new, generation, disk)
  BY <1>2, <1>3, <1>5 DEF JobSound
<1> QED  BY <1>2, <1>3, <1>4, <1>5, <1>6, JobGoesOn

\* A round of the supervision ends the job, or lets it go on.
LEMMA SuperviseSafe ==
  ASSUME CacheInv, NEW slot \in Jobs, Supervise(slot)
  PROVE  CacheInv'
<1> DEFINE job     == jobs[slot]
           outcome == Round(job.run, job.stop)
           new     == [job EXCEPT !.phase = "confirm", !.run = None]
<1>1. job.phase = "running"
  BY DEF Supervise
<1>2. Busy(job)
  BY <1>1 DEF Busy
<1>3. job \in Job /\ JobSound(job, generation, disk) /\ Active(job) /\ job.file = FileOf(job)
  BY <1>2, JobAt
<1>4. job.run \in Run
  BY <1>1, <1>3 DEF JobSound
<1>5. \/ outcome.result = "none" /\ RunStep(slot, outcome.run)
      \/ Steps(slot, Returned(job, Failed))
      \/ Steps(slot, new)
  BY DEF Supervise
<1>6. CASE outcome.result = "none" /\ RunStep(slot, outcome.run)
  BY <1>1, <1>4, <1>6, RunsOn, RunStepSafe
<1>7. CASE Steps(slot, Returned(job, Failed))
  BY <1>3, <1>7, FailedGenuine, FailedIsData, Returning
<1>8. CASE Steps(slot, new)
  <2>1. /\ new \in Job /\ new.phase = "confirm" /\ new.seen = job.seen
        /\ new.key = job.key /\ new.generation = job.generation /\ new.file = job.file
        /\ new.identity = job.identity
    BY <1>3 DEF Job
  <2> HIDE DEF new
  <2>2. Active(new) /\ FileOf(new) = FileOf(job)
    BY <2>1 DEF Active, FileOf
  <2>3. JobSound(new, generation, disk)
    BY <1>1, <1>3, <2>1, <2>2 DEF JobSound
  <2> QED  BY <1>3, <1>8, <2>1, <2>2, <2>3, JobGoesOn
<1> QED  BY <1>5, <1>6, <1>7, <1>8

\* What was seen lies between the version identified and the one on disk; when these are one,
\* it is that one.
LEMMA ConfirmSafe ==
  ASSUME CacheInv, NEW slot \in Jobs, Confirm(slot)
  PROVE  CacheInv'
<1> DEFINE job  == jobs[slot]
           data == [signature |-> job.identity, content |-> job.seen, fresh |-> TRUE]
<1>1. job.phase = "confirm"
  BY DEF Confirm
<1>2. Busy(job)
  BY <1>1 DEF Busy
<1>3. /\ job \in Job /\ JobSound(job, generation, disk) /\ Active(job) /\ job.file = FileOf(job)
      /\ disk[job.file] \in 0..MaxChanges
  BY <1>2, JobAt
<1>4. CASE Steps(slot, Returned(job, Failed))
  BY <1>3, <1>4, FailedGenuine, FailedIsData, Returning
<1>5. CASE SameFile(job) /\ Steps(slot, Returned(job, data))
  <2>1. /\ job.identity \in Version /\ job.identity.file = job.file
        /\ job.seen # {} /\ job.seen \subseteq Version
        /\ \A version \in job.seen : /\ version.file = job.file
                                     /\ job.identity.version <= version.version
                                     /\ version.version <= disk[job.file]
    BY <1>1, <1>3 DEF JobSound, Job
  <2>2. job.identity.version = disk[job.file]
    BY <1>5 DEF SameFile, On
  <2>3. ASSUME NEW version \in job.seen
        PROVE  version = job.identity
    <3>1. version \in Version /\ version.version = job.identity.version
      BY <1>3, <2>1, <2>2 DEF Version
    <3> QED  BY <2>1, <3>1 DEF Version
  <2>4. job.seen = {job.identity}
    BY <2>1, <2>3
  <2>5. data \in Data /\ Genuine(data, FileOf(job))
    BY <1>3, <2>1, <2>4 DEF Data, Genuine
  <2> HIDE DEF data
  <2> QED  BY <1>3, <1>5, <2>5, Returning
<1> QED  BY <1>4, <1>5 DEF Confirm

\* Each step of a job's thread, its deadline included, and each of its child's.
LEMMA ThreadSafe ==
  ASSUME CacheInv, NEW slot \in Jobs, Thread(slot) \/ ChildStep(slot)
  PROVE  CacheInv'
<1>1. CASE Deadline(slot)
  <2>1. Busy(jobs[slot]) /\ Steps(slot, Returned(jobs[slot], Failed))
    BY <1>1 DEF Deadline, Busy
  <2>2. Active(jobs[slot])
    BY <2>1 DEF Busy, Active
  <2> QED  BY <2>1, <2>2, FailedGenuine, FailedIsData, Returning
<1>2. CASE ChildStep(slot)
  <2>1. jobs[slot].phase = "running" /\ JobSound(jobs[slot], generation, disk)
    BY <1>2 DEF ChildStep, CacheInv
  <2>2. jobs[slot].run \in Run
    BY <2>1 DEF JobSound
  <2> QED  BY <1>2, <2>1, <2>2, RunsOn, RunStepSafe DEF ChildStep
<1> QED  BY <1>1, <1>2, IdentifySafe, SpawnSafe, SuperviseSafe, ConfirmSafe DEF Thread
-----------------------------------------------------------------------------
(* The world.                                                              *)

\* A new version is later than all that was seen; who is reading may see it as well.
LEMMA WritesSafe ==
  ASSUME CacheInv, NEW file \in Files, Writes(file)
  PROVE  CacheInv'
<1> DEFINE late(s) == /\ jobs[s].file = file /\ jobs[s].phase = "running"
                      /\ jobs[s].run.child = "alive"
           new == On(file)'
<1>1. /\ disk[file] < MaxChanges /\ disk' = [disk EXCEPT ![file] = @ + 1]
      /\ UNCHANGED <<assets, generation, entries, lru, bytes, queue, pending, closed>>
  BY DEF Writes, cache
<1>2. \A s \in Jobs : jobs'[s] = IF late(s) THEN [jobs[s] EXCEPT !.seen = @ \cup {new}] ELSE jobs[s]
  BY DEF Writes
<1>3. DOMAIN jobs' = Jobs /\ jobs' = [s \in Jobs |-> jobs'[s]]
  BY DEF Writes
<1>4. TypeOK /\ jobs \in [Jobs -> Job] /\ disk \in [Files -> 0..MaxChanges] /\ MaxChanges \in Nat
  BY CacheAssumption DEF CacheInv, TypeOK
<1>5. /\ disk' \in [Files -> 0..MaxChanges] /\ \A f \in Files : disk[f] <= disk'[f]
      /\ disk'[file] = disk[file] + 1
  <2>1. disk[file] \in 0..MaxChanges /\ disk[file] + 1 \in 0..MaxChanges
    BY <1>1, <1>4
  <2>2. \A f \in Files : disk'[f] = IF f = file THEN disk[file] + 1 ELSE disk[f]
    BY <1>1, <1>4
  <2>3. \A f \in Files : disk[f] \in Nat
    BY <1>4
  <2> QED  BY <1>1, <1>4, <2>1, <2>2, <2>3
<1>6. new = [file |-> file, version |-> disk'[file]] /\ new \in Version
  BY <1>5 DEF On, Version
<1> HIDE DEF new
<1>7. ASSUME NEW s \in Jobs
      PROVE  /\ jobs'[s] \in Job /\ JobSound(jobs'[s], generation, disk')
             /\ jobs'[s].phase = jobs[s].phase /\ jobs'[s].key = jobs[s].key
             /\ jobs'[s].generation = jobs[s].generation
  <2> DEFINE job == jobs[s]
  <2>1. job \in Job /\ JobSound(job, generation, disk)
    BY DEF CacheInv, TypeOK
  <2>2. Busy(job) => job.file \in Files /\ disk[job.file] \in Nat /\ disk'[job.file] \in Nat
    BY <1>4, <1>5, JobAt
  <2>3. JobSound(job, generation, disk')
    <3>1. ASSUME job.phase \in {"spawn", "running", "confirm"}
          PROVE  job.identity.version <= disk'[job.file]
      <4>1. /\ Busy(job) /\ job.identity.version <= disk[job.file]
            /\ job.identity \in Version
        BY <2>1, <3>1 DEF Busy, JobSound
      <4>2. job.identity.version \in Nat
        BY <1>4, <4>1 DEF Version
      <4>3. disk[job.file] <= disk'[job.file]
        BY <1>5, <2>2, <4>1
      <4> QED  BY <2>2, <4>1, <4>2, <4>3
    <3>2. ASSUME job.phase \in {"running", "confirm"}, NEW version \in job.seen
          PROVE  version.version <= disk'[job.file]
      <4>1. /\ Busy(job) /\ version.version <= disk[job.file] /\ version \in Version
        BY <2>1, <3>2 DEF Busy, JobSound, Job
      <4>2. version.version \in Nat
        BY <1>4, <4>1 DEF Version
      <4>3. disk[job.file] <= disk'[job.file]
        BY <1>5, <2>2, <4>1
      <4> QED  BY <2>2, <4>1, <4>2, <4>3
    <3> QED  BY <2>1, <3>1, <3>2 DEF JobSound
  <2>4. CASE ~late(s)
    BY <1>2, <2>1, <2>3, <2>4
  <2>5. CASE late(s)
    <3> DEFINE seen == [job EXCEPT !.seen = @ \cup {new}]
    <3>1. /\ seen \in Job /\ seen.phase = "running" /\ seen.seen = job.seen \cup {new}
          /\ seen.key = job.key /\ seen.generation = job.generation /\ seen.file = job.file
          /\ seen.identity = job.identity /\ seen.run = job.run
      BY <1>6, <2>1, <2>5 DEF Job
    <3>2. jobs'[s] = seen
      BY <1>2, <2>5
    <3> HIDE DEF seen
    <3>3. Active(seen) /\ Active(job) /\ Busy(job) /\ FileOf(seen) = FileOf(job)
      BY <2>5, <3>1 DEF Active, FileOf, Busy
    <3>4. new.file = job.file /\ new.version = disk'[job.file]
      BY <1>6, <2>5
    <3>5. job.identity.version <= new.version /\ new.version <= disk'[job.file]
      <4>1. job.identity.version <= disk'[job.file]
        BY <2>3, <2>5 DEF JobSound
      <4> QED  BY <2>2, <3>3, <3>4, <4>1
    <3>6. JobSound(seen, generation, disk')
      BY <2>3, <2>5, <3>1, <3>3, <3>4, <3>5 DEF JobSound
    <3> QED  BY <2>5, <3>1, <3>2, <3>6
  <2> QED  BY <2>4, <2>5
<1>8. TypeOK'
  BY <1>1, <1>3, <1>4, <1>5, <1>7 DEF TypeOK
<1>9. /\ Placed(Now, generation, assets) => Placed(Now', generation', assets')
      /\ Free(Now') = Free(Now)
  <2>1. Now'.queue = Now.queue /\ Now'.pending = Now.pending
    BY <1>1 DEF Now, Work
  <2>2. Now.jobs = jobs /\ Now'.jobs = jobs'
    BY DEF Now, Work
  <2>3. \A s \in Jobs : /\ Active(Now'.jobs[s]) <=> Active(Now.jobs[s])
                        /\ Now'.jobs[s].key = Now.jobs[s].key
                        /\ Now'.jobs[s].generation = Now.jobs[s].generation
    BY <1>7, <2>2 DEF Active
  <2> QED  BY <1>1, <2>1, <2>3, SamePlaces
<1>10. Kept' = Kept
  BY <1>1 DEF Kept
<1>11. /\ AllGenuine(entries, assets) /\ Accounted(Kept) /\ WithinLimits(Kept)
       /\ Len(queue) <= QueueLimit
       /\ closed \/ (Placed(Now, generation, assets) /\ (queue # <<>> => Free(Now) = {}))
  BY DEF CacheInv
<1>12. AllGenuine(entries, assets)' /\ Accounted(Kept)' /\ WithinLimits(Kept)'
       /\ (Len(queue) <= QueueLimit)'
  BY <1>1, <1>10, <1>11 DEF AllGenuine, Accounted, WithinLimits
<1>13. (closed \/ (Placed(Now, generation, assets) /\ (queue # <<>> => Free(Now) = {})))'
  BY <1>1, <1>9, <1>11 DEF Placed, Free, Live
<1>14. (\A s \in Jobs : JobSound(jobs[s], generation, disk))'
  BY <1>1, <1>7
<1> QED  BY <1>8, <1>12, <1>13, <1>14 DEF CacheInv

\* An entry that is no longer fresh is the same entry.
LEMMA AgesSafe ==
  ASSUME CacheInv, NEW key \in Keys, Ages(key)
  PROVE  CacheInv'
<1> DEFINE table == [entries EXCEPT ![key].fresh = FALSE]
<1>1. /\ key \in DOMAIN entries /\ entries' = table
      /\ UNCHANGED <<assets, generation, lru, bytes, queue, pending, jobs, disk, closed>>
  BY DEF Ages
<1>2. TypeOK /\ \A k \in DOMAIN entries : entries[k] \in Data
  BY DEF CacheInv, TypeOK
<1>3. DOMAIN table = DOMAIN entries
  OBVIOUS
<1>4. ASSUME NEW k \in DOMAIN entries
      PROVE  /\ table[k] \in Data /\ table[k].signature = entries[k].signature
             /\ table[k].content = entries[k].content
  BY <1>1, <1>2 DEF Data
<1> HIDE DEF table
<1>5. TypeOK'
  BY <1>1, <1>2, <1>3, <1>4 DEF TypeOK
<1>6. AllGenuine(entries, assets)'
  BY <1>1, <1>3, <1>4 DEF CacheInv, AllGenuine, Genuine, IsError
<1>7. BytesIn(table, DOMAIN entries) = BytesIn(entries, DOMAIN entries)
  <2>1. \A k \in DOMAIN entries : Bytes(k, table[k]) = Bytes(k, entries[k])
    BY <1>4 DEF Bytes, IsError
  <2> QED  BY <2>1 DEF BytesIn
<1>8. Accounted(Kept)'
  <2>1. Kept' = [entries |-> table, lru |-> lru, bytes |-> bytes]
    BY <1>1 DEF Kept
  <2>2. /\ DOMAIN entries \subseteq Keys /\ lru \in Seq(Keys) /\ Range(lru) = DOMAIN entries
        /\ IsInjective(lru) /\ bytes = BytesIn(entries, DOMAIN entries)
    BY DEF CacheInv, Accounted, Kept
  <2>3. Accounted(Kept')
    BY <1>3, <1>4, <1>7, <2>1, <2>2 DEF Accounted
  <2> QED  BY <2>3 DEF Accounted
<1>9. WithinLimits(Kept)' /\ (Len(queue) <= QueueLimit)'
  BY <1>1 DEF CacheInv, WithinLimits, Kept
<1>10. (closed \/ (Placed(Now, generation, assets) /\ (queue # <<>> => Free(Now) = {})))'
  BY <1>1 DEF CacheInv, Placed, Free, Live, Now
<1>11. (\A s \in Jobs : JobSound(jobs[s], generation, disk))'
  BY <1>1 DEF CacheInv
<1> QED  BY <1>5, <1>6, <1>8, <1>9, <1>10, <1>11 DEF CacheInv
-----------------------------------------------------------------------------
(* The window's thread.                                                    *)

\* Nothing is kept, and every job is told to stop.
LEMMA Dropping ==
  ASSUME CacheInv, jobs' = StopAll, Keeps([entries |-> <<>>, lru |-> <<>>, bytes |-> 0]),
         queue' = <<>>, pending' = {}, UNCHANGED disk,
         generation' \in DOMAIN Projects, generation' >= generation,
         assets' = Projects[generation'], closed' \in BOOLEAN,
         closed' \/ generation' > generation
  PROVE  CacheInv'
<1>1. /\ TypeOK /\ jobs \in [Jobs -> Job] /\ generation \in DOMAIN Projects
      /\ \A s \in Jobs : JobSound(jobs[s], generation, disk)
  BY DEF CacheInv, TypeOK
<1>2. generation \in Nat /\ generation' \in Nat
  BY <1>1, CacheAssumption
<1>3. ASSUME NEW s \in Jobs
      PROVE  /\ jobs'[s] \in Job /\ JobSound(jobs'[s], generation', disk')
             /\ jobs'[s].phase = jobs[s].phase /\ jobs'[s].generation = jobs[s].generation
  <2> DEFINE job == jobs[s]
             new == [job EXCEPT !.stop = @ \/ Busy(job)]
  <2>1. jobs'[s] = new
    BY DEF StopAll
  <2>2. job.stop \in BOOLEAN /\ job \in Job
    BY <1>1 DEF Job
  <2>3. (job.stop \/ Busy(job)) \in BOOLEAN
    OBVIOUS
  <2> DEFINE stop == job.stop \/ Busy(job)
  <2>4. new = [job EXCEPT !.stop = stop]
    BY <2>2 DEF Job
  <2> HIDE DEF stop, new
  <2>5. stop \in BOOLEAN
    BY <2>3 DEF stop
  <2>6. /\ new \in Job /\ new.phase = job.phase /\ new.seen = job.seen
        /\ new.key = job.key /\ new.generation = job.generation /\ new.file = job.file
        /\ new.identity = job.identity /\ new.run = job.run /\ new.previous = job.previous
        /\ new.data = job.data
    BY <2>2, <2>4, <2>5 DEF Job
  <2>7. JobSound(job, generation', disk')
    BY <1>1, <1>2 DEF JobSound
  <2>8. JobSound(new, generation', disk')
    BY <2>6, <2>7 DEF JobSound, Active, Busy, FileOf
  <2> QED  BY <2>1, <2>6, <2>8
<1>4. jobs' \in [Jobs -> Job]
  BY <1>3 DEF StopAll
<1>5. entries' = <<>> /\ lru' = <<>> /\ bytes' = 0 /\ DOMAIN <<>> = {} /\ Range(<<>>) = {}
  BY DEF Keeps, Range
<1>6. <<>> \in Seq(Keys) /\ Len(<<>>) = 0
  BY EmptySeq
<1>7. TypeOK'
  BY <1>1, <1>4, <1>5, <1>6 DEF TypeOK
<1>8. AllGenuine(entries, assets)'
  BY <1>5 DEF AllGenuine
<1>9. Accounted(Kept)'
  <2>1. Kept' = [entries |-> <<>>, lru |-> <<>>, bytes |-> 0]
    BY <1>5 DEF Kept
  <2>2. BytesIn(<<>>, {}) = 0
    BY NoBytes
  <2>3. IsInjective(<<>>)
    BY <1>5 DEF IsInjective
  <2>4. Accounted(Kept')
    BY <1>5, <1>6, <2>1, <2>2, <2>3 DEF Accounted
  <2> QED  BY <2>4 DEF Accounted
<1>10. WithinLimits(Kept)' /\ (Len(queue) <= QueueLimit)'
  BY <1>5, <1>6, CacheAssumption DEF WithinLimits, Kept
<1>11. \/ closed'
       \/ Placed(Now', generation', assets') /\ (queue' # <<>> => Free(Now') = {})
  <2> SUFFICES ASSUME ~closed'
               PROVE  Placed(Now', generation', assets')
    OBVIOUS
  <2>1. Now'.queue = <<>> /\ Now'.pending = {} /\ Now'.jobs = jobs'
    BY DEF Now, Work
  <2>2. Live(Now', generation') = {}
    <3>1. \A s \in Jobs : Active(jobs[s]) => jobs[s].generation \in 1..generation
      BY <1>1 DEF JobSound
    <3>2. \A s \in Jobs : ~(Active(jobs'[s]) /\ jobs'[s].generation = generation')
      BY <1>2, <1>3, <3>1 DEF Active
    <3> QED  BY <2>1, <3>2 DEF Live
  <2>3. IsInjective(<<>>)
    BY <1>5 DEF IsInjective
  <2> QED  BY <1>5, <2>1, <2>2, <2>3 DEF Placed
<1>12. (closed \/ (Placed(Now, generation, assets) /\ (queue # <<>> => Free(Now) = {})))'
  BY <1>11 DEF Placed, Free, Live
<1>13. (\A s \in Jobs : JobSound(jobs[s], generation, disk))'
  BY <1>3
<1> QED  BY <1>7, <1>8, <1>9, <1>10, <1>12, <1>13 DEF CacheInv

\* A project with other media, or the end of the cache, drops everything.
LEMMA DroppingSafe ==
  ASSUME CacheInv, Synchronize \/ Close
  PROVE  CacheInv'
<1>1. /\ generation \in DOMAIN Projects /\ DOMAIN Projects = 1..Len(Projects)
      /\ Len(Projects) \in Nat /\ assets = Projects[generation]
  BY CacheAssumption DEF CacheInv, TypeOK
<1>2. CASE Synchronize
  <2>1. /\ jobs' = StopAll /\ Keeps([entries |-> <<>>, lru |-> <<>>, bytes |-> 0])
        /\ queue' = <<>> /\ pending' = {} /\ UNCHANGED disk /\ closed' = closed
        /\ generation' = generation + 1 /\ generation < Len(Projects)
        /\ assets' = Projects[generation'] /\ closed \in BOOLEAN
    BY <1>2 DEF Synchronize, CacheInv, TypeOK
  <2>2. generation' \in DOMAIN Projects /\ generation' >= generation /\ generation' > generation
    BY <1>1, <2>1
  <2> QED  BY <2>1, <2>2, Dropping
<1>3. CASE Close
  <2>1. /\ jobs' = StopAll /\ Keeps([entries |-> <<>>, lru |-> <<>>, bytes |-> 0])
        /\ queue' = <<>> /\ pending' = {} /\ UNCHANGED <<disk, generation, assets>>
        /\ closed' = TRUE
    BY <1>3 DEF Close
  <2>2. generation' \in DOMAIN Projects /\ generation' >= generation
    BY <1>1, <2>1
  <2> QED  BY <1>1, <2>1, <2>2, Dropping
<1> QED  BY <1>2, <1>3

\* The oldest request, and those behind it.
LEMMA HeadAndTail ==
  ASSUME NEW s \in Seq(Keys), s # <<>>, IsInjective(s)
  PROVE  /\ Head(s) \in Keys /\ Tail(s) \in Seq(Keys) /\ Len(Tail(s)) <= Len(s)
         /\ Range(s) = {Head(s)} \cup Range(Tail(s)) /\ Head(s) \notin Range(Tail(s))
         /\ IsInjective(Tail(s))
<1> DEFINE t == Tail(s)
<1>1. /\ Head(s) \in Keys /\ t \in Seq(Keys) /\ Len(t) = Len(s) - 1 /\ Head(s) = s[1]
      /\ \A i \in 1..Len(t) : t[i] = s[i + 1]
  BY HeadTailProperties
<1>2. Len(s) \in Nat /\ Len(s) >= 1 /\ DOMAIN s = 1..Len(s) /\ DOMAIN t = 1..(Len(s) - 1)
  BY <1>1, LenProperties, EmptySeq
<1> HIDE DEF t
<1>3. \A i \in DOMAIN t : i + 1 \in DOMAIN s /\ i + 1 # 1 /\ t[i] = s[i + 1]
  BY <1>1, <1>2
<1>4. \A i \in DOMAIN s : i = 1 \/ (i - 1 \in DOMAIN t /\ t[i - 1] = s[i])
  <2> TAKE i \in DOMAIN s
  <2>1. ASSUME i # 1
        PROVE  i - 1 \in 1..Len(t) /\ (i - 1) + 1 = i
    BY <1>1, <1>2, <2>1
  <2> QED  BY <1>1, <1>2, <2>1
<1>5. 1 \in DOMAIN s
  BY <1>2
<1>6. Range(s) = {s[1]} \cup Range(t)
  BY <1>3, <1>4, <1>5 DEF Range
<1>7. s[1] \notin Range(t)
  BY <1>3, <1>5 DEF Range, IsInjective
<1>8. IsInjective(t)
  <2> SUFFICES ASSUME NEW i \in DOMAIN t, NEW j \in DOMAIN t, t[i] = t[j]
               PROVE  i = j
    BY DEF IsInjective
  <2>1. i + 1 = j + 1
    BY <1>3 DEF IsInjective
  <2> QED  BY <1>2, <2>1
<1> QED  BY <1>1, <1>2, <1>6, <1>7, <1>8 DEF t

\* A job begins with what is kept of its key, for the media shown now.
LEMMA LaunchedSound ==
  ASSUME generation \in DOMAIN Projects, assets = Projects[generation],
         NEW table, AllGenuine(table, assets), \A k \in DOMAIN table : table[k] \in Data,
         NEW key \in Keys, AssetOf[key] \in DOMAIN assets
  PROVE  /\ Launched(key, table) \in Job /\ Active(Launched(key, table))
         /\ Launched(key, table).key = key /\ Launched(key, table).generation = generation
         /\ JobSound(Launched(key, table), generation, disk)
<1> DEFINE old == IF key \in DOMAIN table THEN table[key] ELSE Failed
           job == Launched(key, table)
<1>1. generation \in 1..Len(Projects) /\ Len(Projects) \in Nat /\ generation \in 1..generation
  BY CacheAssumption
<1>2. assets[AssetOf[key]] \in Files
  BY CacheAssumption
<1>3. old \in Data /\ Genuine(old, assets[AssetOf[key]])
  BY FailedIsData, FailedGenuine DEF AllGenuine
<1> HIDE DEF old
<1>4. job = [Idle EXCEPT !.phase = "identify", !.key = key, !.file = assets[AssetOf[key]],
                         !.generation = generation, !.previous = old]
  BY DEF Launched, old
<1>5. generation \in 0..Len(Projects)
  BY <1>1
<1> HIDE DEF job
<1>6. /\ job.phase = "identify" /\ job.key = key /\ job.generation = generation
      /\ job.file = assets[AssetOf[key]] /\ job.previous = old /\ job \in Job
  BY <1>2, <1>3, <1>4, <1>5, IdleIsJob DEF Idle, Job
<1>7. FileOf(job) = job.file /\ Active(job)
  BY <1>6 DEF FileOf, Active
<1>8. JobSound(job, generation, disk)
  BY <1>1, <1>3, <1>6, <1>7 DEF JobSound
<1> QED  BY <1>6, <1>7, <1>8 DEF job

\* What start() leaves: the work is placed as before, and no slot rests beside a request.
LEMMA StartedSound ==
  ASSUME generation \in DOMAIN Projects, assets = Projects[generation],
         NEW table, AllGenuine(table, assets), \A k \in DOMAIN table : table[k] \in Data,
         NEW work, work = Work(work.jobs, work.queue, work.pending),
         work.jobs \in [Jobs -> Job], work.queue \in Seq(Keys),
         \A slot \in Jobs : JobSound(work.jobs[slot], generation, disk),
         Placed(work, generation, assets),
         Len(work.queue) <= 1 \/ \E slot : Free(work) \subseteq {slot}
  PROVE  LET result == Started(work, table)
         IN  /\ result.jobs \in [Jobs -> Job] /\ result.queue \in Seq(Keys)
             /\ Len(result.queue) <= Len(work.queue) /\ result.pending = work.pending
             /\ \A slot \in Jobs : JobSound(result.jobs[slot], generation, disk)
             /\ Placed(result, generation, assets)
             /\ result.queue # <<>> => Free(result) = {}
<1> DEFINE result == Started(work, table)
<1>1. \A key \in Range(work.queue) : AssetOf[key] \in DOMAIN assets
  BY DEF Placed
<1>2. \/ result = work /\ (work.queue = <<>> \/ Free(work) = {})
      \/ \E slot \in Free(work) :
           /\ work.queue # <<>>
           /\ Tail(work.queue) = <<>> \/ Free(work) = {slot}
           /\ result = Work([work.jobs EXCEPT ![slot] = Launched(Head(work.queue), table)],
                            Tail(work.queue), work.pending)
  BY <1>1, StartedTakes
<1> HIDE DEF result
<1>3. Len(work.queue) \in Nat
  BY LenProperties
<1>4. CASE result = work /\ (work.queue = <<>> \/ Free(work) = {})
  BY <1>3, <1>4 DEF result
<1>5. ASSUME NEW slot \in Free(work), work.queue # <<>>,
             Tail(work.queue) = <<>> \/ Free(work) = {slot},
             result = Work([work.jobs EXCEPT ![slot] = Launched(Head(work.queue), table)],
                           Tail(work.queue), work.pending)
      PROVE  /\ result.jobs \in [Jobs -> Job] /\ result.queue \in Seq(Keys)
             /\ Len(result.queue) <= Len(work.queue) /\ result.pending = work.pending
             /\ \A s \in Jobs : JobSound(result.jobs[s], generation, disk)
             /\ Placed(result, generation, assets)
             /\ result.queue # <<>> => Free(result) = {}
  <2> DEFINE line == work.queue
             job  == Launched(Head(line), table)
  <2>1. slot \in Jobs /\ ~Active(work.jobs[slot])
    BY DEF Free
  <2>2. /\ work.pending = Range(line) \cup {work.jobs[s].key : s \in Live(work, generation)}
        /\ IsInjective(line)
        /\ \A s, t \in Live(work, generation) : work.jobs[s].key = work.jobs[t].key => s = t
        /\ \A s \in Live(work, generation) : work.jobs[s].key \notin Range(line)
    BY DEF Placed
  <2>3. /\ Head(line) \in Keys /\ Tail(line) \in Seq(Keys) /\ Len(Tail(line)) <= Len(line)
        /\ Range(line) = {Head(line)} \cup Range(Tail(line)) /\ Head(line) \notin Range(Tail(line))
        /\ IsInjective(Tail(line))
    BY <1>5, <2>2, HeadAndTail
  <2>4. AssetOf[Head(line)] \in DOMAIN assets
    BY <1>1, <2>3
  <2>5. /\ job \in Job /\ Active(job) /\ job.key = Head(line) /\ job.generation = generation
        /\ JobSound(job, generation, disk)
    BY <2>3, <2>4, LaunchedSound
  <2>6. /\ result.jobs = [work.jobs EXCEPT ![slot] = job] /\ result.queue = Tail(line)
        /\ result.pending = work.pending
    BY <1>5 DEF Work
  <2> HIDE DEF job
  <2>7. \A s \in Jobs : result.jobs[s] = IF s = slot THEN job ELSE work.jobs[s]
    BY <2>6
  <2>8. Live(result, generation) = Live(work, generation) \cup {slot}
        /\ slot \notin Live(work, generation)
    BY <2>1, <2>5, <2>7 DEF Live
  <2>9. Live(work, generation) \subseteq Jobs
    BY DEF Live
  <2>10. \A s \in Live(work, generation) : result.jobs[s] = work.jobs[s]
    BY <2>7, <2>8, <2>9
  <2>11. result.jobs[slot].key = Head(line)
    BY <2>1, <2>5, <2>7
  <2>12. Placed(result, generation, assets)
    <3>1. result.pending
            = Range(result.queue) \cup {result.jobs[s].key : s \in Live(result, generation)}
      BY <2>2, <2>3, <2>6, <2>8, <2>10, <2>11
    <3>2. \A s, t \in Live(result, generation) : result.jobs[s].key = result.jobs[t].key => s = t
      BY <2>2, <2>3, <2>8, <2>10, <2>11
    <3>3. \A s \in Live(result, generation) : result.jobs[s].key \notin Range(result.queue)
      BY <2>2, <2>3, <2>6, <2>8, <2>10, <2>11
    <3>4. \A key \in Range(result.queue) : AssetOf[key] \in DOMAIN assets
      BY <1>1, <2>3, <2>6
    <3> QED  BY <2>3, <2>6, <3>1, <3>2, <3>3, <3>4 DEF Placed
  <2>13. result.queue # <<>> => Free(result) = {}
    BY <1>5, <2>5, <2>6, <2>7 DEF Free
  <2>14. \A s \in Jobs : JobSound(result.jobs[s], generation, disk)
    BY <2>5, <2>7
  <2> QED  BY <2>3, <2>5, <2>6, <2>12, <2>13, <2>14
<1> QED  BY <1>2, <1>4, <1>5 DEF result

\* The window keeps something, and the free slots take up what waits.
LEMMA Resuming ==
  ASSUME CacheInv, ~closed, UNCHANGED <<assets, generation, disk, closed>>,
         NEW kept, Accounted(kept), WithinLimits(kept), AllGenuine(kept.entries, assets),
         Keeps(kept),
         NEW work, work = Work(work.jobs, work.queue, work.pending),
         work.jobs \in [Jobs -> Job], work.queue \in Seq(Keys), work.pending \subseteq Keys,
         Len(work.queue) <= QueueLimit,
         \A slot \in Jobs : JobSound(work.jobs[slot], generation, disk),
         Placed(work, generation, assets),
         Len(work.queue) <= 1 \/ \E slot : Free(work) \subseteq {slot},
         Proceeds(Started(work, kept.entries))
  PROVE  CacheInv'
<1> DEFINE result == Started(work, kept.entries)
<1>1. /\ generation \in DOMAIN Projects /\ assets = Projects[generation]
      /\ disk \in [Files -> 0..MaxChanges] /\ closed \in BOOLEAN
  BY DEF CacheInv, TypeOK
<1>2. /\ DOMAIN kept.entries \subseteq Keys /\ kept.lru \in Seq(Keys)
      /\ \A k \in DOMAIN kept.entries : kept.entries[k] \in Data
  BY DEF Accounted
<1>3. /\ result.jobs \in [Jobs -> Job] /\ result.queue \in Seq(Keys)
      /\ Len(result.queue) <= Len(work.queue) /\ result.pending = work.pending
      /\ \A slot \in Jobs : JobSound(result.jobs[slot], generation, disk)
      /\ Placed(result, generation, assets)
      /\ result.queue # <<>> => Free(result) = {}
  BY <1>1, <1>2, StartedSound
<1> HIDE DEF result
<1>4. jobs' = result.jobs /\ queue' = result.queue /\ pending' = result.pending
  BY DEF Proceeds, result
<1>5. entries' = kept.entries /\ lru' = kept.lru /\ bytes' = kept.bytes
  BY DEF Keeps
<1>6. TypeOK'
  BY <1>1, <1>2, <1>3, <1>4, <1>5 DEF TypeOK
<1>7. AllGenuine(entries, assets)'
  BY <1>5 DEF AllGenuine
<1>8. Accounted(Kept)' /\ WithinLimits(Kept)'
  <2>1. Kept'.entries = kept.entries /\ Kept'.lru = kept.lru /\ Kept'.bytes = kept.bytes
    BY <1>5 DEF Kept
  <2>2. Accounted(Kept') /\ WithinLimits(Kept')
    BY <2>1 DEF Accounted, WithinLimits
  <2> QED  BY <2>2 DEF Accounted, WithinLimits
<1>9. (Len(queue) <= QueueLimit)'
  <2>1. Len(result.queue) \in Nat /\ Len(work.queue) \in Nat /\ QueueLimit \in Nat
    BY <1>3, LenProperties, CacheAssumption
  <2> QED  BY <1>3, <1>4, <2>1
<1>10. (\A slot \in Jobs : JobSound(jobs[slot], generation, disk))'
  BY <1>3, <1>4
<1>11. (closed \/ (Placed(Now, generation, assets) /\ (queue # <<>> => Free(Now) = {})))'
  <2>1. /\ Now'.jobs = result.jobs /\ Now'.queue = result.queue /\ Now'.pending = result.pending
    BY <1>4 DEF Now, Work
  <2>2. Placed(Now', generation', assets') /\ Free(Now') = Free(result)
    BY <1>3, <2>1 DEF Placed, Live, Free
  <2> QED  BY <1>3, <1>4, <2>2 DEF Placed, Live, Free
<1> QED  BY <1>6, <1>7, <1>8, <1>9, <1>10, <1>11 DEF CacheInv

\* A request is new to what is pending, so it waits in one place only; and it waits alone, or
\* no slot is free.
LEMMA RequestSafe ==
  ASSUME CacheInv, NEW key \in Keys, Request(key)
  PROVE  CacheInv'
<1> DEFINE order == IF key \in DOMAIN entries THEN Append(Dropped(lru, key), key) ELSE lru
           kept  == [entries |-> entries, lru |-> order, bytes |-> bytes]
           line  == Append(queue, key)
           work  == Work(jobs, line, pending \cup {key})
<1>1. /\ ~closed /\ AssetOf[key] \in DOMAIN assets /\ lru' = order
      /\ UNCHANGED <<assets, generation, entries, bytes, disk, closed>>
  BY DEF Request
<1>2. /\ TypeOK /\ AllGenuine(entries, assets) /\ Len(queue) <= QueueLimit
      /\ \A slot \in Jobs : JobSound(jobs[slot], generation, disk)
      /\ Placed(Now, generation, assets) /\ (queue # <<>> => Free(Now) = {})
  BY <1>1 DEF CacheInv
<1>3. /\ DOMAIN entries \subseteq Keys /\ lru \in Seq(Keys) /\ Range(lru) = DOMAIN entries
      /\ IsInjective(lru) /\ bytes = BytesIn(entries, DOMAIN entries)
      /\ \A k \in DOMAIN entries : entries[k] \in Data
      /\ bytes <= ByteLimit /\ Len(lru) <= EntryLimit
  BY DEF CacheInv, Accounted, WithinLimits, Kept
<1>4. /\ order \in Seq(Keys) /\ Len(order) = Len(lru) /\ Range(order) = Range(lru)
      /\ IsInjective(order)
  <2>1. CASE key \in DOMAIN entries
    <3> DEFINE fewer == Dropped(lru, key)
    <3>1. /\ fewer \in Seq(Keys) /\ Len(fewer) = Len(lru) - 1
          /\ Range(fewer) = Range(lru) \ {key} /\ IsInjective(fewer)
      BY <1>3, <2>1, DroppedKey
    <3> HIDE DEF fewer
    <3>2. /\ Append(fewer, key) \in Seq(Keys) /\ Len(Append(fewer, key)) = Len(fewer) + 1
          /\ Range(Append(fewer, key)) = Range(fewer) \cup {key}
          /\ IsInjective(Append(fewer, key))
      BY <3>1, Appended
    <3>3. order = Append(fewer, key)
      BY <2>1 DEF fewer
    <3>4. Len(lru) \in Nat
      BY <1>3, LenProperties
    <3> HIDE DEF order
    <3>5. Len(order) = Len(lru)
      BY <3>1, <3>2, <3>3, <3>4
    <3>6. Range(order) = Range(lru)
      BY <1>3, <2>1, <3>1, <3>2, <3>3
    <3> QED  BY <3>2, <3>3, <3>5, <3>6
  <2>2. CASE key \notin DOMAIN entries
    BY <1>3, <2>2
  <2> QED  BY <2>1, <2>2
<1> HIDE DEF order
<1>5. Accounted(kept) /\ WithinLimits(kept)
  BY <1>3, <1>4 DEF Accounted, WithinLimits
<1>6. Keeps(kept) /\ kept.entries = entries /\ UNCHANGED entries
  BY <1>1 DEF Keeps
<1>7. CASE UNCHANGED <<jobs, queue, pending>>
  <2>1. TypeOK'
    BY <1>1, <1>2, <1>4, <1>3, <1>7 DEF TypeOK
  <2>2. AllGenuine(entries, assets)' /\ (Len(queue) <= QueueLimit)'
        /\ (\A slot \in Jobs : JobSound(jobs[slot], generation, disk))'
    BY <1>1, <1>2, <1>7 DEF AllGenuine
  <2>3. Accounted(Kept)' /\ WithinLimits(Kept)'
    <3>1. Kept' = kept
      BY <1>1 DEF Kept
    <3>2. Accounted(Kept') /\ WithinLimits(Kept')
      BY <1>5, <3>1
    <3> QED  BY <3>2 DEF Accounted, WithinLimits
  <2>4. (Placed(Now, generation, assets) /\ (queue # <<>> => Free(Now) = {}))'
    BY <1>1, <1>2, <1>7 DEF Placed, Free, Live, Now
  <2> QED  BY <2>1, <2>2, <2>3, <2>4 DEF CacheInv
<1>8. CASE Wanted(key) /\ Proceeds(Started(work, entries))
  <2>1. queue \in Seq(Keys) /\ pending \subseteq Keys /\ jobs \in [Jobs -> Job]
    BY <1>2 DEF TypeOK
  <2>2. Len(queue) \in Nat /\ QueueLimit \in Nat
    BY <2>1, LenProperties, CacheAssumption
  <2>3. /\ pending = Range(queue) \cup {jobs[s].key : s \in Live(work, generation)}
        /\ IsInjective(queue)
        /\ \A s, t \in Live(work, generation) : jobs[s].key = jobs[t].key => s = t
        /\ \A s \in Live(work, generation) : jobs[s].key \notin Range(queue)
        /\ \A k \in Range(queue) : AssetOf[k] \in DOMAIN assets
    <3>1. Live(Now, generation) = Live(work, generation)
      BY DEF Live, Now, Work
    <3> QED  BY <1>2, <3>1 DEF Placed, Now, Work
  <2>4. key \notin pending /\ Len(queue) < QueueLimit
    BY <1>8 DEF Wanted
  <2>5. /\ line \in Seq(Keys) /\ Len(line) = Len(queue) + 1 /\ Range(line) = Range(queue) \cup {key}
        /\ IsInjective(line)
    BY <2>1, <2>3, <2>4, Appended
  <2> HIDE DEF line
  <2>6. work.jobs = jobs /\ work.queue = line /\ work.pending = pending \cup {key}
    BY DEF Work
  <2>7. work = Work(work.jobs, work.queue, work.pending)
    BY DEF Work
  <2>8. Len(work.queue) <= 1 \/ \E slot : Free(work) \subseteq {slot}
    <3>1. CASE queue = <<>>
      <4>1. Len(queue) = 0
        BY <3>1, EmptySeq
      <4> HIDE DEF work
      <4>2. Len(work.queue) = 1
        BY <2>5, <2>6, <4>1
      <4> QED  BY <4>2
    <3>2. CASE queue # <<>>
      <4>1. Free(work) = {}
        BY <1>2, <2>6, <3>2 DEF Free, Now, Work
      <4> QED  BY <4>1
    <3> QED  BY <3>1, <3>2
  <2> HIDE DEF work
  <2>9. Placed(work, generation, assets)
    <3>1. \A s \in Live(work, generation) : jobs[s].key \in pending
      BY <2>3
    <3>2. \A s \in Live(work, generation) : jobs[s].key \notin Range(line)
      BY <2>3, <2>4, <2>5, <3>1
    <3>3. \A k \in Range(line) : AssetOf[k] \in DOMAIN assets
      BY <1>1, <2>3, <2>5
    <3>4. work.pending = Range(line) \cup {jobs[s].key : s \in Live(work, generation)}
      BY <2>3, <2>5, <2>6
    <3> QED  BY <2>3, <2>5, <2>6, <3>2, <3>3, <3>4 DEF Placed
  <2>10. Len(work.queue) <= QueueLimit
    BY <2>2, <2>4, <2>5, <2>6
  <2>11. work.pending \subseteq Keys
    BY <2>1, <2>6
  <2>12. Proceeds(Started(work, kept.entries)) /\ AllGenuine(kept.entries, assets)
    BY <1>2, <1>8
  <2> HIDE DEF kept
  <2> QED  BY <1>1, <1>2, <1>5, <1>6, <2>1, <2>5, <2>6, <2>7, <2>8, <2>9, <2>10, <2>11, <2>12,
              Resuming
<1> QED  BY <1>7, <1>8 DEF Request

\* A result of the media shown now is kept, and no longer pending; one of earlier media leaves
\* nothing behind.  One slot is free then, if any request waits.
LEMMA FinishedSafe ==
  ASSUME CacheInv, NEW slot \in Jobs, Finished(slot)
  PROVE  CacheInv'
<1> DEFINE job  == jobs[slot]
           kept == IF Current(job) THEN Retain(job.key, job.data) ELSE Kept
           left == IF Current(job) THEN pending \ {job.key} ELSE pending
           work == Work([jobs EXCEPT ![slot] = Idle], queue, left)
<1>1. /\ ~closed /\ job.phase = "returned" /\ Keeps(kept)
      /\ Proceeds(Started(work, kept.entries)) /\ UNCHANGED <<assets, generation, disk, closed>>
  BY DEF Finished, Resumed
<1>2. /\ TypeOK /\ AllGenuine(entries, assets) /\ Len(queue) <= QueueLimit
      /\ Accounted(Kept) /\ WithinLimits(Kept)
      /\ \A s \in Jobs : JobSound(jobs[s], generation, disk)
      /\ Placed(Now, generation, assets) /\ (queue # <<>> => Free(Now) = {})
  BY <1>1 DEF CacheInv
<1>3. /\ queue \in Seq(Keys) /\ pending \subseteq Keys /\ jobs \in [Jobs -> Job]
      /\ generation \in DOMAIN Projects /\ assets = Projects[generation]
  BY <1>2 DEF TypeOK
<1>4. /\ job \in Job /\ Active(job) /\ job.key \in Keys
      /\ AssetOf[job.key] \in DOMAIN Projects[job.generation] /\ Genuine(job.data, FileOf(job))
      /\ job.data \in Data
  BY <1>1, <1>2, <1>3 DEF JobSound, Active, Job
<1>5. Accounted(kept) /\ WithinLimits(kept) /\ AllGenuine(kept.entries, assets)
  <2>1. CASE Current(job)
    <3> DEFINE result == Retain(job.key, job.data)
    <3>1. /\ Accounted(result) /\ WithinLimits(result)
          /\ \A k \in DOMAIN result.entries :
               \/ k = job.key /\ result.entries[k] = job.data
               \/ k \in DOMAIN entries /\ result.entries[k] = entries[k]
      BY <1>2, <1>4, RetainSound
    <3> HIDE DEF result
    <3>2. AssetOf[job.key] \in DOMAIN assets /\ Genuine(job.data, assets[AssetOf[job.key]])
      BY <1>3, <1>4, <2>1 DEF Current, FileOf
    <3>3. AllGenuine(result.entries, assets)
      BY <1>2, <3>1, <3>2 DEF AllGenuine
    <3>4. kept = result
      BY <2>1 DEF result
    <3> QED  BY <3>1, <3>3, <3>4
  <2>2. CASE ~Current(job)
    <3>1. kept = Kept /\ Kept.entries = entries
      BY <2>2 DEF Kept
    <3> QED  BY <1>2, <3>1
  <2> QED  BY <2>1, <2>2
<1>6. /\ work.jobs = [jobs EXCEPT ![slot] = Idle] /\ work.queue = queue /\ work.pending = left
      /\ work = Work(work.jobs, work.queue, work.pending)
  BY DEF Work
<1>7. left \subseteq Keys
  BY <1>3
<1> HIDE DEF kept, work
<1>8. \A s \in Jobs : work.jobs[s] = IF s = slot THEN Idle ELSE jobs[s]
  BY <1>3, <1>6
<1>9. work.jobs \in [Jobs -> Job]
  BY <1>3, <1>6, IdleIsJob
<1>10. \A s \in Jobs : JobSound(work.jobs[s], generation, disk)
  <2>1. JobSound(Idle, generation, disk)
    BY DEF Idle, JobSound, Active, Busy
  <2> QED  BY <1>2, <1>8, <2>1
<1>11. Len(work.queue) <= 1 \/ \E s : Free(work) \subseteq {s}
  <2>1. CASE queue = <<>>
    BY <1>6, <2>1, EmptySeq
  <2>2. CASE queue # <<>>
    <3>1. Free(Now) = {}
      BY <1>2, <2>2
    <3>2. Free(work) \subseteq {slot}
      BY <1>8, <3>1 DEF Free, Now, Work
    <3> QED  BY <3>2
  <2> QED  BY <2>1, <2>2
<1>12. Placed(work, generation, assets)
  <2> DEFINE live  == Live(Now, generation)
             still == Live(work, generation)
  <2>1. /\ pending = Range(queue) \cup {jobs[s].key : s \in live}
        /\ IsInjective(queue)
        /\ \A s, t \in live : jobs[s].key = jobs[t].key => s = t
        /\ \A s \in live : jobs[s].key \notin Range(queue)
        /\ \A k \in Range(queue) : AssetOf[k] \in DOMAIN assets
    BY <1>2 DEF Placed, Now, Work
  <2>2. still = live \ {slot} /\ (slot \in live <=> Current(job)) /\ live \subseteq Jobs
    BY <1>4, <1>8, IdleIsJob DEF Live, Now, Work, Current
  <2> HIDE DEF live, still
  <2>3. \A s \in still : work.jobs[s] = jobs[s] /\ s \in live /\ s # slot
    BY <1>8, <2>2
  <2>4. left = Range(queue) \cup {jobs[s].key : s \in still}
    <3>1. CASE Current(job)
      <4>1. slot \in live /\ job.key \notin Range(queue)
            /\ \A s \in still : jobs[s].key # job.key
        BY <2>1, <2>2, <2>3, <3>1
      <4>2. live = still \cup {slot}
        BY <2>2, <4>1
      <4>3. pending = Range(queue) \cup {jobs[s].key : s \in still} \cup {job.key}
        BY <2>1, <4>2
      <4> QED  BY <3>1, <4>1, <4>3
    <3>2. CASE ~Current(job)
      BY <2>1, <2>2, <3>2
    <3> QED  BY <3>1, <3>2
  <2>5. {work.jobs[s].key : s \in still} = {jobs[s].key : s \in still}
    BY <2>3
  <2>6. \A s, t \in still : work.jobs[s].key = work.jobs[t].key => s = t
    BY <2>1, <2>3
  <2>7. \A s \in still : work.jobs[s].key \notin Range(queue)
    BY <2>1, <2>3
  <2> HIDE DEF left
  <2> QED  BY <1>6, <2>1, <2>4, <2>5, <2>6, <2>7 DEF Placed, still
<1> HIDE DEF left
<1> QED  BY <1>1, <1>3, <1>5, <1>6, <1>7, <1>9, <1>10, <1>11, <1>12, <1>2, Resuming
-----------------------------------------------------------------------------
(* The theorems.                                                           *)

\* At the start nothing is kept, asked for or begun.
LEMMA InitSafe ==
  ASSUME Init
  PROVE  CacheInv
<1>1. /\ assets = Projects[1] /\ generation = 1 /\ entries = <<>> /\ lru = <<>> /\ bytes = 0
      /\ queue = <<>> /\ pending = {} /\ jobs = [slot \in Jobs |-> Idle]
      /\ disk = [file \in Files |-> 0] /\ closed = FALSE
  BY DEF Init
<1>2. 1 \in DOMAIN Projects /\ MaxChanges \in Nat
  BY CacheAssumption
<1>3. /\ <<>> \in Seq(Keys) /\ Len(<<>>) = 0 /\ DOMAIN <<>> = {} /\ Range(<<>>) = {}
      /\ IsInjective(<<>>)
  BY EmptySeq DEF Range, IsInjective
<1>4. TypeOK
  <2>1. jobs \in [Jobs -> Job]
    BY <1>1, IdleIsJob
  <2>2. disk \in [Files -> 0..MaxChanges]
    BY <1>1, <1>2
  <2>3. DOMAIN entries = {} /\ lru \in Seq(Keys) /\ queue \in Seq(Keys)
    BY <1>1, <1>3
  <2> QED  BY <1>1, <1>2, <2>1, <2>2, <2>3 DEF TypeOK
<1>5. AllGenuine(entries, assets)
  BY <1>1, <1>3 DEF AllGenuine
<1>6. Accounted(Kept) /\ WithinLimits(Kept) /\ Len(queue) <= QueueLimit
  <2>1. BytesIn(<<>>, {}) = 0
    BY NoBytes
  <2> QED  BY <1>1, <1>3, <2>1, CacheAssumption DEF Accounted, WithinLimits, Kept
<1>7. \A slot \in Jobs : JobSound(jobs[slot], generation, disk)
  BY <1>1 DEF Idle, JobSound, Active, Busy
<1>8. Placed(Now, generation, assets) /\ (queue # <<>> => Free(Now) = {})
  <2>1. Live(Now, generation) = {}
    BY <1>1, IdleIsJob DEF Live, Now, Work
  <2> QED  BY <1>1, <1>3, <2>1 DEF Placed, Now, Work
<1> QED  BY <1>4, <1>5, <1>6, <1>7, <1>8 DEF CacheInv

\* Every step of the window's thread, of a job, of its child or of the world keeps the invariant.
LEMMA StepSafe ==
  ASSUME CacheInv, [Next]_vars
  PROVE  CacheInv'
<1>1. CASE Synchronize \/ Close
  BY <1>1, DroppingSafe
<1>2. CASE \E key \in Keys : Request(key) \/ Ages(key)
  BY <1>2, RequestSafe, AgesSafe
<1>3. CASE \E slot \in Jobs : Thread(slot) \/ ChildStep(slot) \/ Finished(slot)
  BY <1>3, ThreadSafe, FinishedSafe
<1>4. CASE \E file \in Files \ Offline : Writes(file)
  BY <1>4, WritesSafe
<1>5. CASE UNCHANGED vars
  <2>1. /\ UNCHANGED <<assets, generation, entries, lru, bytes, queue, pending>>
        /\ UNCHANGED <<jobs, disk, closed>>
    BY <1>5 DEF vars, cache
  <2> QED  BY <2>1 DEF CacheInv, TypeOK, AllGenuine, Accounted, WithinLimits, Kept, Placed, Live,
                       Free, Now
<1> QED  BY <1>1, <1>2, <1>3, <1>4, <1>5 DEF Next

\* The invariant of the cache (media_cache.cpp): entries are made of the file that the asset has
\* now, the accounts are those of the entries, every pending key is in one place, and each job
\* knows the versions its picture may have been made of.
THEOREM CacheInvariance == Spec => []CacheInv
<1>1. Init => CacheInv
  BY InitSafe
<1>2. CacheInv /\ [Next]_vars => CacheInv'
  BY StepSafe
<1> QED  BY <1>1, <1>2, PTL DEF Spec

\* What the timeline shows is of the project's files as they are linked now and of one version
\* each, within the limits; every request is waiting or worked on once, and none waits for
\* nothing: for any keys, media, slots and limits.
THEOREM CacheStaysCoherent == Spec => []CacheCoherent
<1>1. CacheInv => CacheCoherent
  BY Coherent
<1> QED  BY <1>1, CacheInvariance, PTL
=============================================================================
