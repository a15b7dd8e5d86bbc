---------------------------- MODULE ListTheorems ----------------------------
(***************************************************************************)
(* Proofs about the list handler and about walks through its pages, for    *)
(* all namespaces and ids, all page sizes and any number of keys.          *)
(***************************************************************************)
EXTENDS KvList, FiniteSetTheorems, WellFoundedInduction, SequenceTheorems, TLAPS

Bytes == Seq(Nat)
-----------------------------------------------------------------------------
(* The order of keys is a total order                                       *)

\* Of two keys one is a prefix of the other, or there is a first difference.
LEMMA FirstDifference ==
  ASSUME NEW a \in Bytes, NEW b \in Bytes, ~StartsWith(a, b), ~StartsWith(b, a)
  PROVE  \E i \in 1 .. Len(a) : /\ i <= Len(b) /\ a[i] # b[i]
                                /\ \A j \in 1 .. i - 1 : a[j] = b[j]
<1> DEFINE D == {i \in Nat : i \in 1 .. Len(a) /\ i <= Len(b) /\ a[i] # b[i]}
<1>1. Len(a) \in Nat /\ Len(b) \in Nat
  BY DEF Bytes
<1>2. D # {}
  BY <1>1 DEF StartsWith
<1>3. PICK m \in D : \A y \in D : <<y, m>> \notin OpToRel(<, Nat)
  <2> HIDE DEF D
  <2>1. D \subseteq Nat
    BY DEF D
  <2> QED
    BY <1>2, <2>1, NatLessThanWellFounded, WFMin
<1>4. \A y \in D : ~(y < m)
  BY <1>3 DEF OpToRel
<1>5. \A j \in 1 .. m - 1 : j \in Nat /\ j < m /\ j \in 1 .. Len(a) /\ j <= Len(b)
  BY <1>1
<1> QED
  BY <1>1, <1>4, <1>5

LEMMA LessIrreflexive ==
  ASSUME NEW a \in Bytes
  PROVE  ~Less(a, a)
<1>1. Len(a) \in Nat /\ \A i \in 1 .. Len(a) : a[i] \in Nat
  BY DEF Bytes
<1> QED
  BY <1>1 DEF Less

LEMMA LessTransitive ==
  ASSUME NEW a \in Bytes, NEW b \in Bytes, NEW c \in Bytes, Less(a, b), Less(b, c)
  PROVE  Less(a, c)
<1> DEFINE Before(x, y, i) == /\ i \in 1 .. Len(x) /\ i <= Len(y) /\ x[i] < y[i]
                              /\ \A j \in 1 .. i - 1 : x[j] = y[j]
           Short(x, y) == Len(x) < Len(y) /\ StartsWith(y, x)
<1>1. /\ Len(a) \in Nat /\ Len(b) \in Nat /\ Len(c) \in Nat
      /\ \A i \in 1 .. Len(a) : a[i] \in Nat
      /\ \A i \in 1 .. Len(b) : b[i] \in Nat
      /\ \A i \in 1 .. Len(c) : c[i] \in Nat
  BY DEF Bytes
<1>2. \A x, y : Less(x, y) <=> Short(x, y) \/ \E i : Before(x, y, i)
  BY DEF Less
<1>3. CASE Short(a, b) /\ Short(b, c)
  BY <1>1, <1>2, <1>3 DEF StartsWith
<1>4. ASSUME Short(a, b), NEW i, Before(b, c, i)
      PROVE  Less(a, c)
  <2>1. CASE i <= Len(a)
    <3>1. Before(a, c, i)
      BY <1>1, <1>4, <2>1 DEF StartsWith
    <3> QED
      BY <1>2, <3>1
  <2>2. CASE i > Len(a)
    <3>1. Short(a, c)
      BY <1>1, <1>4, <2>2 DEF StartsWith
    <3> QED
      BY <1>2, <3>1
  <2> QED
    BY <1>1, <1>4, <2>1, <2>2
<1>5. ASSUME NEW i, Before(a, b, i), Short(b, c)
      PROVE  Less(a, c)
  <2>1. Before(a, c, i)
    BY <1>1, <1>5 DEF StartsWith
  <2> QED
    BY <1>2, <2>1
<1>6. ASSUME NEW i, Before(a, b, i), NEW l, Before(b, c, l)
      PROVE  Less(a, c)
  <2>1. CASE i <= l
    <3>1. Before(a, c, i)
      BY <1>1, <1>6, <2>1
    <3> QED
      BY <1>2, <3>1
  <2>2. CASE l < i
    <3>1. Before(a, c, l)
      BY <1>1, <1>6, <2>2
    <3> QED
      BY <1>2, <3>1
  <2> QED
    BY <1>1, <1>6, <2>1, <2>2
<1> QED
  BY <1>2, <1>3, <1>4, <1>5, <1>6

LEMMA LessTotal ==
  ASSUME NEW a \in Bytes, NEW b \in Bytes
  PROVE  a = b \/ Less(a, b) \/ Less(b, a)
<1>1. /\ Len(a) \in Nat /\ Len(b) \in Nat
      /\ \A i \in 1 .. Len(a) : a[i] \in Nat
      /\ \A i \in 1 .. Len(b) : b[i] \in Nat
  BY DEF Bytes
<1>2. CASE ~StartsWith(a, b) /\ ~StartsWith(b, a)
  <2>1. PICK i \in 1 .. Len(a) : /\ i <= Len(b) /\ a[i] # b[i]
                                 /\ \A j \in 1 .. i - 1 : a[j] = b[j]
    BY <1>2, FirstDifference
  <2>2. i \in 1 .. Len(b) /\ (a[i] < b[i] \/ b[i] < a[i])
    BY <1>1, <2>1
  <2> QED
    BY <2>1, <2>2, <1>1 DEF Less
<1>3. CASE StartsWith(a, b) \/ StartsWith(b, a)
  <2>1. CASE Len(a) = Len(b)
    <3>1. \A i \in 1 .. Len(a) : a[i] = b[i]
      BY <1>3, <2>1 DEF StartsWith
    <3> QED
      BY <2>1, <3>1, SeqEqual DEF Bytes
  <2>2. CASE Len(a) < Len(b)
    BY <1>1, <1>3, <2>2 DEF StartsWith, Less
  <2>3. CASE Len(b) < Len(a)
    BY <1>1, <1>3, <2>3 DEF StartsWith, Less
  <2> QED
    BY <1>1, <2>1, <2>2, <2>3
<1> QED
  BY <1>2, <1>3

-----------------------------------------------------------------------------
(* The keys of a namespace are the keys with its prefix, and adjacent       *)

\* A key is not less than a prefix of it.
LEMMA PrefixFirst ==
  ASSUME NEW k \in Bytes, NEW p \in Bytes, StartsWith(k, p)
  PROVE  ~Less(k, p)
<1>1. Len(k) \in Nat /\ Len(p) \in Nat /\ \A i \in 1 .. Len(k) : k[i] \in Nat
  BY DEF Bytes
<1> QED
  BY <1>1 DEF StartsWith, Less

\* What lies between two keys with a prefix has it too: the first key without
\* the prefix ends a scan that starts at a key with it.
LEMMA PrefixAdjacent ==
  ASSUME NEW p \in Bytes, NEW s \in Bytes, NEW j \in Bytes, NEW k \in Bytes,
         StartsWith(s, p), StartsWith(k, p), ~Less(j, s), ~Less(k, j)
  PROVE  StartsWith(j, p)
<1>1. /\ Len(p) \in Nat /\ Len(s) \in Nat /\ Len(j) \in Nat /\ Len(k) \in Nat
      /\ \A i \in 1 .. Len(p) : p[i] \in Nat
      /\ \A i \in 1 .. Len(j) : j[i] \in Nat
  BY DEF Bytes
<1>2. CASE StartsWith(p, j) /\ ~StartsWith(j, p)
  <2>1. Len(j) < Len(p) /\ StartsWith(s, j)
    BY <1>1, <1>2 DEF StartsWith
  <2> QED
    BY <1>1, <2>1 DEF StartsWith, Less
<1>3. CASE ~StartsWith(p, j) /\ ~StartsWith(j, p)
  <2>1. PICK i \in 1 .. Len(j) : /\ i <= Len(p) /\ j[i] # p[i]
                                 /\ \A l \in 1 .. i - 1 : j[l] = p[l]
    BY <1>3, FirstDifference
  <2>2. /\ i \in 1 .. Len(s) /\ i \in 1 .. Len(k) /\ s[i] = p[i] /\ k[i] = p[i]
        /\ \A l \in 1 .. i - 1 : s[l] = p[l] /\ k[l] = p[l]
    BY <1>1, <2>1 DEF StartsWith
  <2>3. CASE j[i] < p[i]
    BY <1>1, <2>1, <2>2, <2>3 DEF Less
  <2>4. CASE p[i] < j[i]
    BY <1>1, <2>1, <2>2, <2>4 DEF Less
  <2> QED
    BY <1>1, <2>1, <2>3, <2>4
<1> QED
  BY <1>2, <1>3

LEMMA KeyParts ==
  ASSUME NEW n \in Namespaces, NEW i \in Ids
  PROVE  LET k == MakeKey(n, i)
         IN  /\ n \in Bytes /\ i \in Bytes /\ k \in Bytes
             /\ Len(n) \in Nat /\ Len(i) \in Nat /\ Len(i) > 0
             /\ Len(k) = Len(n) + 1 + Len(i)
             /\ \A l \in 1 .. Len(n) : k[l] = n[l] /\ n[l] # KEY_SEP
             /\ k[Len(n) + 1] = KEY_SEP
<1>1. n \in Seq(Nat) /\ i \in Seq(Nat) /\ ValidField(n) /\ ValidField(i)
  BY ListAssumption
<1>2. <<KEY_SEP>> \in Seq(Nat) /\ Len(<<KEY_SEP>>) = 1 /\ <<KEY_SEP>>[1] = KEY_SEP
  BY DEF KEY_SEP
<1>3. NamespacePrefix(n) \in Seq(Nat) /\ Len(NamespacePrefix(n)) = Len(n) + 1
  BY <1>1, <1>2 DEF NamespacePrefix
<1> QED
  BY <1>1, <1>2, <1>3 DEF MakeKey, NamespacePrefix, ValidField, Bytes

LEMMA PrefixParts ==
  ASSUME NEW n \in Namespaces
  PROVE  LET p == NamespacePrefix(n)
         IN  /\ p \in Bytes /\ Len(n) \in Nat /\ Len(p) = Len(n) + 1
             /\ \A l \in 1 .. Len(n) : p[l] = n[l] /\ n[l] # KEY_SEP
             /\ p[Len(n) + 1] = KEY_SEP
<1>1. n \in Seq(Nat) /\ ValidField(n)
  BY ListAssumption
<1>2. <<KEY_SEP>> \in Seq(Nat) /\ Len(<<KEY_SEP>>) = 1 /\ <<KEY_SEP>>[1] = KEY_SEP
  BY DEF KEY_SEP
<1> QED
  BY <1>1, <1>2 DEF NamespacePrefix, ValidField, Bytes

LEMMA KeysAreBytes == Keys \subseteq Bytes
  BY KeyParts DEF Keys, KeysOf

LEMMA KeyStartsWithNamespace ==
  ASSUME NEW n \in Namespaces, NEW k \in KeysOf(n)
  PROVE  StartsWith(k, NamespacePrefix(n))
<1>1. PICK i \in Ids : k = MakeKey(n, i)
  BY DEF KeysOf
<1>2. Len(k) = Len(n) + 1 + Len(i) /\ Len(i) \in Nat
  BY <1>1, KeyParts
<1> QED
  BY <1>1, <1>2, KeyParts, PrefixParts DEF StartsWith

\* A namespace that is a prefix of another one does not see its keys: the
\* separator is in no field.
LEMMA PrefixTellsNamespace ==
  ASSUME NEW m \in Namespaces, NEW n \in Namespaces, NEW k \in KeysOf(m),
         StartsWith(k, NamespacePrefix(n))
  PROVE  m = n
<1> DEFINE p == NamespacePrefix(n)
<1>1. PICK i \in Ids : k = MakeKey(m, i)
  BY DEF KeysOf
<1>2. /\ Len(m) \in Nat /\ Len(n) \in Nat /\ Len(p) = Len(n) + 1 /\ Len(p) <= Len(k)
      /\ \A l \in 1 .. Len(n) + 1 : k[l] = p[l]
  BY <1>1, KeyParts, PrefixParts DEF StartsWith
<1>3. ~(Len(m) < Len(n))
  <2> SUFFICES ASSUME Len(m) < Len(n) PROVE FALSE
    OBVIOUS
  <2>1. Len(m) + 1 \in 1 .. Len(n) /\ Len(m) + 1 \in 1 .. Len(n) + 1
    BY <1>2
  <2>2. p[Len(m) + 1] # KEY_SEP
    BY <2>1, PrefixParts
  <2>3. k[Len(m) + 1] = KEY_SEP
    BY <1>1, KeyParts
  <2> QED
    BY <1>2, <2>1, <2>2, <2>3
<1>4. ~(Len(n) < Len(m))
  <2> SUFFICES ASSUME Len(n) < Len(m) PROVE FALSE
    OBVIOUS
  <2>1. Len(n) + 1 \in 1 .. Len(m) /\ Len(n) + 1 \in 1 .. Len(n) + 1
    BY <1>2
  <2>2. k[Len(n) + 1] # KEY_SEP
    BY <1>1, <2>1, KeyParts
  <2>3. p[Len(n) + 1] = KEY_SEP
    BY PrefixParts
  <2> QED
    BY <1>2, <2>1, <2>2, <2>3
<1>5. Len(m) = Len(n)
  BY <1>2, <1>3, <1>4
<1>6. \A l \in 1 .. Len(m) : m[l] = n[l]
  <2> TAKE l \in 1 .. Len(m)
  <2>1. l \in 1 .. Len(n) /\ l \in 1 .. Len(n) + 1
    BY <1>2, <1>5
  <2>2. k[l] = m[l]
    BY <1>1, KeyParts
  <2>3. p[l] = n[l]
    BY <2>1, PrefixParts
  <2> QED
    BY <1>2, <2>1, <2>2, <2>3
<1> QED
  BY <1>5, <1>6, SeqEqual, ListAssumption

-----------------------------------------------------------------------------
(* A finite set of keys has a least and a greatest one                      *)

LEMMA LeastKey ==
  ASSUME NEW S, S \subseteq Bytes, IsFiniteSet(S), S # {}
  PROVE  \E k \in S : \A j \in S : j = k \/ Less(k, j)
<1> DEFINE Below(k) == {j \in S : Less(j, k)}
           T == {Below(k) : k \in S}
<1>1. T \subseteq FiniteSubsetsOf(S) /\ T # {}
  <2>1. \A k \in S : Below(k) \in SUBSET S
    OBVIOUS
  <2>2. \A k \in S : Below(k) \in FiniteSubsetsOf(S)
    BY <2>1, FS_FiniteSubsetsOfFinite
  <2> HIDE DEF Below
  <2> QED
    BY <2>2
<1>2. PICK D \in T : \A y \in T : <<y, D>> \notin StrictSubsetOrdering(S)
  <2> HIDE DEF T
  <2> QED
    BY <1>1, FS_StrictSubsetOrderingWellFounded, WFMin
<1>3. PICK k \in S : D = Below(k)
  BY <1>2
<1>4. \A j \in S : ~Less(j, k)
  <2> SUFFICES ASSUME NEW j \in S, Less(j, k)
               PROVE  FALSE
    OBVIOUS
  <2>1. Below(j) \subseteq Below(k)
    BY LessTransitive
  <2>2. j \in Below(k) /\ j \notin Below(j)
    BY LessIrreflexive
  <2>3. <<Below(j), Below(k)>> \in StrictSubsetOrdering(S)
    BY <2>1, <2>2 DEF StrictSubsetOrdering
  <2> QED
    BY <1>2, <1>3, <2>3
<1> QED
  BY <1>4, LessTotal

LEMMA GreatestKey ==
  ASSUME NEW S, S \subseteq Bytes, IsFiniteSet(S), S # {}
  PROVE  \E k \in S : \A j \in S : j = k \/ Less(j, k)
<1> DEFINE Above(k) == {j \in S : Less(k, j)}
           T == {Above(k) : k \in S}
<1>1. T \subseteq FiniteSubsetsOf(S) /\ T # {}
  <2>1. \A k \in S : Above(k) \in SUBSET S
    OBVIOUS
  <2>2. \A k \in S : Above(k) \in FiniteSubsetsOf(S)
    BY <2>1, FS_FiniteSubsetsOfFinite
  <2> HIDE DEF Above
  <2> QED
    BY <2>2
<1>2. PICK D \in T : \A y \in T : <<y, D>> \notin StrictSubsetOrdering(S)
  <2> HIDE DEF T
  <2> QED
    BY <1>1, FS_StrictSubsetOrderingWellFounded, WFMin
<1>3. PICK k \in S : D = Above(k)
  BY <1>2
<1>4. \A j \in S : ~Less(k, j)
  <2> SUFFICES ASSUME NEW j \in S, Less(k, j)
               PROVE  FALSE
    OBVIOUS
  <2>1. Above(j) \subseteq Above(k)
    BY LessTransitive
  <2>2. j \in Above(k) /\ j \notin Above(j)
    BY LessIrreflexive
  <2>3. <<Above(j), Above(k)>> \in StrictSubsetOrdering(S)
    BY <2>1, <2>2 DEF StrictSubsetOrdering
  <2> QED
    BY <1>2, <1>3, <2>3
<1> QED
  BY <1>4, LessTotal

LEMMA LastKeyIsGreatest ==
  ASSUME NEW S, S \subseteq Bytes, IsFiniteSet(S), S # {}
  PROVE  LastKey(S) \in S /\ \A j \in S : j = LastKey(S) \/ Less(j, LastKey(S))
  BY GreatestKey DEF LastKey
-----------------------------------------------------------------------------
(* The scan and the answer of list                                          *)

\* The keys of a namespace that are present, from start on.
KeysFrom(n, start) == {k \in store : ~Less(k, start) /\ StartsWith(k, NamespacePrefix(n))}

StartOf(n, tok) == IF tok = NoToken THEN NamespacePrefix(n) ELSE tok

\* A scan returns the first keys of a namespace from its start on, at most limit
\* of them, and none but if all fit.
LEMMA ScanReturnsFirstKeys ==
  ASSUME store \in SUBSET Keys, IsFiniteSet(store), NEW n \in Namespaces,
         NEW start \in Bytes, StartsWith(start, NamespacePrefix(n)), NEW limit \in Nat
  PROVE  LET items == ScanPrefix(NamespacePrefix(n), start, limit)
         IN  /\ items \subseteq KeysFrom(n, start)
             /\ \A j \in items, k \in KeysFrom(n, start) \ items : Less(j, k)
             /\ IsFiniteSet(items) /\ Cardinality(items) \in Nat
             /\ Cardinality(items) <= limit
             /\ Cardinality(items) < limit => items = KeysFrom(n, start)
<1> DEFINE p == NamespacePrefix(n)
           F == KeysFrom(n, start)
           items == ScanPrefix(p, start, limit)
           upTo(k) == {j \in F : j = k \/ Less(j, k)}
<1>1. p \in Bytes /\ store \subseteq Bytes
  BY PrefixParts, KeysAreBytes
<1>2. IsFiniteSet(F) /\ F \subseteq Bytes
  BY <1>1, FS_Subset DEF KeysFrom
<1>3. \A k \in F : upTo(k) = {j \in {l \in store : ~Less(l, start)} : j = k \/ Less(j, k)}
  <2> SUFFICES ASSUME NEW k \in F, NEW j \in store, ~Less(j, start), j = k \/ Less(j, k)
               PROVE  StartsWith(j, p)
    BY DEF KeysFrom
  <2>1. ~Less(k, j)
    BY <1>1, <1>2, LessIrreflexive, LessTransitive
  <2> QED
    BY <1>1, <1>2, <2>1, PrefixAdjacent DEF KeysFrom
<1>4. items = {k \in F : Cardinality(upTo(k)) <= limit}
  <2>1. ASSUME NEW k \in items
        PROVE  k \in F /\ Cardinality(upTo(k)) <= limit
    <3>1. k \in F
      BY DEF ScanPrefix, KeysFrom
    <3> QED
      BY <1>3, <3>1 DEF ScanPrefix
  <2>2. ASSUME NEW k \in F, Cardinality(upTo(k)) <= limit
        PROVE  k \in items
    <3>1. \A j \in upTo(k) : StartsWith(j, p)
      BY DEF KeysFrom
    <3> HIDE DEF upTo
    <3> QED
      BY <1>3, <2>2, <3>1 DEF ScanPrefix, KeysFrom
  <2> QED
    BY <2>1, <2>2
<1> HIDE DEF items
<1>5. \A k \in F : IsFiniteSet(upTo(k)) /\ Cardinality(upTo(k)) \in Nat
  BY <1>2, FS_Subset, FS_CardinalityType
<1>6. IsFiniteSet(items) /\ Cardinality(items) \in Nat /\ items \subseteq F
  BY <1>2, <1>4, FS_Subset, FS_CardinalityType
<1>7. ASSUME NEW j \in items, NEW k \in F \ items
      PROVE  Less(j, k)
  <2> SUFFICES ASSUME k = j \/ Less(k, j)
               PROVE  FALSE
    BY <1>2, <1>6, LessTotal
  <2>1. j \in F /\ k \in F
    BY <1>6
  <2>2. upTo(k) \subseteq upTo(j)
    BY <1>2, <2>1, LessTransitive
  <2>3. Cardinality(upTo(k)) <= Cardinality(upTo(j))
    BY <1>5, <2>1, <2>2, FS_Subset
  <2> HIDE DEF upTo, F
  <2> QED
    BY <1>4, <1>5, <1>7, <2>1, <2>3
<1>8. Cardinality(items) <= limit
  <2>1. CASE items = {}
    BY <2>1, FS_EmptySet
  <2>2. CASE items # {}
    <3>1. PICK k \in items : \A j \in items : j = k \/ Less(j, k)
      BY <1>2, <1>6, <2>2, GreatestKey
    <3>2. items \subseteq upTo(k) /\ k \in F
      BY <1>6, <3>1
    <3>3. Cardinality(items) <= Cardinality(upTo(k))
      BY <1>5, <3>2, FS_Subset
    <3>4. Cardinality(upTo(k)) <= limit
      BY <1>4, <3>1
    <3> QED
      BY <1>5, <1>6, <3>2, <3>3, <3>4
  <2> QED
    BY <2>1, <2>2
<1>9. ASSUME Cardinality(items) < limit
      PROVE  items = F
  <2> SUFFICES ASSUME F \ items # {}
               PROVE  FALSE
    BY <1>6
  <2>1. IsFiniteSet(F \ items) /\ F \ items \subseteq Bytes
    BY <1>2, FS_Subset
  <2>2. PICK k \in F \ items : \A j \in F \ items : j = k \/ Less(k, j)
    <3> HIDE DEF F
    <3> QED
      BY <2>1, LeastKey
  <2>3. upTo(k) \subseteq items \cup {k}
    BY <1>2, <2>2, LessTransitive, LessIrreflexive
  <2>4. IsFiniteSet(items \cup {k}) /\ Cardinality(items \cup {k}) = Cardinality(items) + 1
    BY <1>6, <2>2, FS_AddElement
  <2>5. Cardinality(upTo(k)) <= Cardinality(items) + 1
    BY <2>3, <2>4, FS_Subset
  <2>6. Cardinality(upTo(k)) \in Nat
    BY <1>5, <2>2
  <2>7. Cardinality(upTo(k)) <= limit
    <3> HIDE DEF upTo, F
    <3> QED
      BY <1>6, <1>9, <2>5, <2>6
  <2> QED
    BY <1>4, <2>2, <2>7
<1> QED
  BY <1>6, <1>7, <1>8, <1>9 DEF items

\* What a walk through n still has before it, when it has come to tok.
Remaining(n, tok) == {k \in store \cap KeysOf(n) : tok = NoToken \/ ~Less(k, tok)}

LEMMA NoTokenIsNoKey == NoToken \notin Keys /\ NoToken \in Bytes
<1>1. \A n \in Namespaces, i \in Ids : Len(MakeKey(n, i)) > 0
  BY KeyParts
<1>2. Len(NoToken) = 0 /\ NoToken \in Bytes
  BY DEF NoToken, Bytes
<1> QED
  BY <1>1, <1>2 DEF Keys, KeysOf

LEMMA RemainingAreKeysFrom ==
  ASSUME store \in SUBSET Keys, NEW n \in Namespaces, NEW tok \in Keys \cup {NoToken},
         ValidToken(n, tok)
  PROVE  /\ Remaining(n, tok) = KeysFrom(n, StartOf(n, tok))
         /\ StartOf(n, tok) \in Bytes
         /\ StartsWith(StartOf(n, tok), NamespacePrefix(n))
<1>1. NamespacePrefix(n) \in Bytes /\ Len(NamespacePrefix(n)) \in Nat
  BY PrefixParts
<1>2. StartsWith(NamespacePrefix(n), NamespacePrefix(n))
  BY <1>1 DEF StartsWith
<1>3. StartOf(n, tok) \in Bytes /\ StartsWith(StartOf(n, tok), NamespacePrefix(n))
  BY <1>1, <1>2, KeysAreBytes DEF StartOf, ValidToken
<1>4. \A k \in store : k \in KeysOf(n) <=> StartsWith(k, NamespacePrefix(n))
  BY KeyStartsWithNamespace, PrefixTellsNamespace DEF Keys
<1>5. \A k \in store : StartsWith(k, NamespacePrefix(n)) => ~Less(k, NamespacePrefix(n))
  BY <1>1, KeysAreBytes, PrefixFirst
<1> QED
  BY <1>3, <1>4, <1>5 DEF Remaining, KeysFrom, StartOf

\* The answer of list is the next page: what remains up to the next token, at
\* most a page of it, a full one if there is a next token; and all that remains when there is no next token.
LEMMA AnswerIsNextPage ==
  ASSUME store \in SUBSET Keys, IsFiniteSet(store), NEW n \in Namespaces,
         NEW requested \in PageSizes, NEW tok \in Keys \cup {NoToken}, ValidToken(n, tok)
  PROVE  LET answer == Answer(n, requested, tok)
             next == answer.next_page_token
             F == Remaining(n, tok)
         IN  /\ next = NoToken => answer.entries = F
             /\ next # NoToken => /\ next \in F
                                  /\ answer.entries = {k \in F : Less(k, next)}
                                  /\ Cardinality(answer.entries) = resolve_page_size(requested)
             /\ Cardinality(answer.entries) \in Nat
             /\ Cardinality(answer.entries) <= resolve_page_size(requested)
<1> DEFINE F == Remaining(n, tok)
           page_size == resolve_page_size(requested)
           items == ScanPrefix(NamespacePrefix(n), StartOf(n, tok), page_size + 1)
           last == LastKey(items)
<1>1. page_size \in Nat
  BY ListAssumption DEF resolve_page_size
<1>2. /\ items \subseteq F
      /\ \A j \in items, k \in F \ items : Less(j, k)
      /\ IsFiniteSet(items) /\ Cardinality(items) \in Nat
      /\ Cardinality(items) <= page_size + 1
      /\ Cardinality(items) < page_size + 1 => items = F
  <2>1. page_size + 1 \in Nat
    BY <1>1
  <2> HIDE DEF page_size
  <2> QED
    BY <2>1, RemainingAreKeysFrom, ScanReturnsFirstKeys
<1>3. F \subseteq Keys /\ F \subseteq Bytes
  BY KeysAreBytes DEF Remaining
<1>4. Answer(n, requested, tok) =
        IF Cardinality(items) > page_size
        THEN [entries |-> items \ {last}, next_page_token |-> last]
        ELSE [entries |-> items, next_page_token |-> NoToken]
  BY DEF Answer, StartOf
<1> HIDE DEF items, F, page_size
<1>5. CASE Cardinality(items) > page_size
  <2>1. items # {}
    BY <1>1, <1>5, FS_EmptySet
  <2>2. last \in items /\ \A j \in items : j = last \/ Less(j, last)
    BY <1>2, <1>3, <2>1, LastKeyIsGreatest
  <2> HIDE DEF last
  <2>3. last # NoToken /\ last \in F
    BY <1>2, <1>3, <2>2, NoTokenIsNoKey
  <2>4. items \ {last} = {k \in F : Less(k, last)}
    <3>1. ~Less(last, last)
      BY <1>3, <2>3, LessIrreflexive
    <3>2. \A k \in F \ items : ~Less(k, last)
      BY <1>2, <1>3, <2>2, LessTransitive, LessIrreflexive
    <3> QED
      BY <1>2, <2>2, <3>1, <3>2
  <2>5. Cardinality(items \ {last}) = Cardinality(items) - 1
    BY <1>2, <2>2, FS_RemoveElement
  <2>6. Cardinality(items) - 1 = page_size
    BY <1>1, <1>2, <1>5
  <2>7. /\ Answer(n, requested, tok).entries = items \ {last}
        /\ Answer(n, requested, tok).next_page_token = last
    BY <1>4, <1>5
  <2> QED
    BY <1>1, <2>3, <2>4, <2>5, <2>6, <2>7 DEF F, page_size
<1>6. CASE ~(Cardinality(items) > page_size)
  <2>1. Cardinality(items) < page_size + 1 /\ Cardinality(items) <= page_size
    BY <1>1, <1>2, <1>6
  <2>2. /\ Answer(n, requested, tok).entries = items
        /\ Answer(n, requested, tok).next_page_token = NoToken
    BY <1>4, <1>6
  <2> QED
    BY <1>2, <2>1, <2>2 DEF F, page_size
<1> QED
  BY <1>5, <1>6
-----------------------------------------------------------------------------
(* The inductive invariant of a walk                                        *)

\* While it goes on the walk has listed only keys before its token, and
\* without a token it has listed nothing.
AheadInv ==
  /\ status = "idle" => pages = <<>>
  /\ status = "walking" =>
       IF token = NoToken THEN pages = <<>> ELSE \A k \in Listed : Less(k, token)

\* A key that was there all the time is listed or still before the walk.
StableInv ==
  /\ stable \subseteq KeysOf(ns)
  /\ status = "walking" =>
       \A k \in stable : k \in Listed \/ token = NoToken \/ ~Less(k, token)

ListInv ==
  /\ TypeOK
  /\ IsFiniteSet(store)
  /\ status # "idle" => store \subseteq present
  /\ AscendingOnce
  /\ AheadInv
  /\ StableInv
  /\ StableKeysListed
  /\ OnlyOwnKeys

-----------------------------------------------------------------------------
(* One lemma per action                                                     *)

LEMMA EmptyListed ==
  ASSUME pages = <<>>
  PROVE  Listed = {}
  BY DEF Listed

LEMMA BeginWalkPreserves ==
  ASSUME ListInv, NEW n \in Namespaces, BeginWalk(n)
  PROVE  ListInv'
<1> USE DEF BeginWalk
<1>1. TypeOK'
  BY NoTokenIsNoKey DEF ListInv, TypeOK
<1>2. Listed' = {}
  BY DEF Listed
<1>3. KeysOf(n) \subseteq Keys
  BY DEF Keys
<1>4. AscendingOnce' /\ AheadInv' /\ OnlyOwnKeys'
  BY <1>2 DEF AscendingOnce, AheadInv, OnlyOwnKeys
<1>5. StableInv' /\ StableKeysListed'
  BY DEF StableInv, StableKeysListed
<1> QED
  BY <1>1, <1>4, <1>5 DEF ListInv

LEMMA ListPagePreserves ==
  ASSUME ListInv, NEW requested \in PageSizes, ListPage(requested)
  PROVE  ListInv'
<1> DEFINE answer == Answer(ns, requested, token)
           next == answer.next_page_token
           F == Remaining(ns, token)
<1>1. /\ store \in SUBSET Keys /\ IsFiniteSet(store) /\ ns \in Namespaces
      /\ token \in Keys \cup {NoToken} /\ ValidToken(ns, token)
      /\ pages \in Seq(SUBSET Keys) /\ status = "walking" /\ stable \subseteq store
      /\ store \subseteq present
  BY DEF ListInv, TypeOK, ListPage
<1>2. /\ next = NoToken => answer.entries = F
      /\ next # NoToken => next \in F /\ answer.entries = {k \in F : Less(k, next)}
  BY <1>1, AnswerIsNextPage
<1>3. /\ pages' = Append(pages, answer.entries) /\ token' = next
      /\ status' = IF next = NoToken THEN "done" ELSE "walking"
      /\ UNCHANGED <<store, ns, changes, stable, present>>
  BY DEF ListPage
<1>4. F \subseteq Keys /\ F \subseteq Bytes /\ F \subseteq KeysOf(ns) /\ F \subseteq store
  BY <1>1, KeysAreBytes DEF Remaining
<1> HIDE DEF answer
<1>5. answer.entries \subseteq F
  BY <1>2
<1>6. Listed' = Listed \cup answer.entries
  <2>1. /\ Len(pages) \in Nat /\ Len(pages') = Len(pages) + 1
        /\ \A i \in 1 .. Len(pages) : pages'[i] = pages[i]
        /\ pages'[Len(pages) + 1] = answer.entries
    BY <1>1, <1>3, <1>4, <1>5
  <2>2. 1 .. Len(pages') = (1 .. Len(pages)) \cup {Len(pages) + 1}
    BY <2>1
  <2> QED
    BY <2>1, <2>2 DEF Listed
<1>7. TypeOK'
  <2>1. next \in Keys \cup {NoToken} /\ answer.entries \in SUBSET Keys
    BY <1>2, <1>4
  <2>2. pages' \in Seq(SUBSET Keys)
    BY <1>1, <1>3, <2>1
  <2> QED
    BY <1>3, <2>1, <2>2 DEF ListInv, TypeOK
\* Every entry of the page comes after all that is listed.
<1>8. \A a \in Listed, b \in F : Less(a, b)
  <2> SUFFICES ASSUME NEW a \in Listed, NEW b \in F
               PROVE  Less(a, b)
    OBVIOUS
  <2>1. token # NoToken /\ Less(a, token)
    BY <1>1, EmptyListed DEF ListInv, AheadInv
  <2>2. ~Less(b, token) /\ token \in Bytes /\ a \in Bytes /\ b \in Bytes
    BY <1>1, <1>4, <2>1, KeysAreBytes DEF Remaining, ListInv, OnlyOwnKeys, Keys
  <2> QED
    BY <2>1, <2>2, LessTotal, LessTransitive
<1>9. AscendingOnce'
  <2> SUFFICES ASSUME NEW i \in 1 .. Len(pages'), NEW j \in 1 .. Len(pages'), i < j,
                      NEW a \in pages'[i], NEW b \in pages'[j]
               PROVE  Less(a, b)
    BY DEF AscendingOnce
  <2>1. /\ Len(pages) \in Nat /\ Len(pages') = Len(pages) + 1
        /\ \A l \in 1 .. Len(pages) : pages'[l] = pages[l]
        /\ pages'[Len(pages) + 1] = answer.entries
    BY <1>1, <1>3, <1>4, <1>5
  <2>2. i \in 1 .. Len(pages) /\ a \in pages[i]
    BY <2>1
  <2>3. CASE j \in 1 .. Len(pages)
    BY <2>1, <2>2, <2>3 DEF ListInv, AscendingOnce
  <2>4. CASE j = Len(pages) + 1
    BY <1>5, <1>8, <2>1, <2>2, <2>4 DEF Listed
  <2> QED
    BY <2>1, <2>3, <2>4
<1>10. AheadInv'
  <2>1. ASSUME next # NoToken, NEW k \in Listed'
        PROVE  Less(k, next)
    BY <1>2, <1>6, <1>8, <2>1
  <2> QED
    BY <1>3, <2>1 DEF AheadInv
\* What remains now is listed or not before the next token.
<1>11. \A k \in stable : k \in Listed' \/ (next # NoToken /\ ~Less(k, next))
  <2> TAKE k \in stable
  <2>1. k \in Listed \/ k \in F
    BY <1>1 DEF ListInv, StableInv, Remaining
  <2> QED
    BY <1>2, <1>6, <2>1
<1>12. StableInv' /\ StableKeysListed'
  BY <1>3, <1>11 DEF ListInv, StableInv, StableKeysListed
<1>13. OnlyOwnKeys'
  BY <1>1, <1>3, <1>4, <1>5, <1>6 DEF ListInv, OnlyOwnKeys
<1> QED
  BY <1>1, <1>3, <1>7, <1>9, <1>10, <1>12, <1>13 DEF ListInv

LEMMA ListRejectedPreserves ==
  ASSUME ListInv, ListRejected
  PROVE  ListInv'
<1> USE DEF ListRejected
<1>1. TypeOK'
  BY DEF ListInv, TypeOK
<1>2. Listed' = Listed
  BY DEF Listed
<1>3. AscendingOnce' /\ AheadInv' /\ OnlyOwnKeys'
  BY <1>2 DEF ListInv, AscendingOnce, AheadInv, OnlyOwnKeys
<1>4. StableInv' /\ StableKeysListed'
  BY DEF ListInv, StableInv, StableKeysListed
<1> QED
  BY <1>1, <1>3, <1>4 DEF ListInv

LEMMA ChangeNamespacePreserves ==
  ASSUME ListInv, NEW n \in Namespaces, ChangeNamespace(n)
  PROVE  ListInv'
<1> USE DEF ChangeNamespace
<1>1. TypeOK'
  BY DEF ListInv, TypeOK
<1>2. Listed' = {}
  BY DEF Listed
<1>3. AscendingOnce' /\ AheadInv' /\ OnlyOwnKeys'
  BY <1>2 DEF ListInv, AscendingOnce, AheadInv, OnlyOwnKeys
<1>4. StableInv' /\ StableKeysListed'
  BY DEF StableInv, StableKeysListed
<1> QED
  BY <1>1, <1>3, <1>4 DEF ListInv

LEMMA ChangePreserves ==
  ASSUME ListInv, Change
  PROVE  ListInv'
<1>1. PICK k \in Keys : store' = IF k \in store THEN store \ {k} ELSE store \cup {k}
  BY DEF Change
<1>2. /\ stable' = stable \cap store' /\ present' = present \cup store'
      /\ changes < MaxChanges /\ changes' = changes + 1
      /\ UNCHANGED <<ns, token, pages, status>> /\ status = "walking"
  BY DEF Change
<1>3. store' \in SUBSET Keys /\ IsFiniteSet(store')
  BY <1>1, FS_AddElement, FS_RemoveElement DEF ListInv, TypeOK
<1>4. TypeOK'
  BY <1>2, <1>3, WalkAssumption DEF ListInv, TypeOK
<1>5. Listed' = Listed
  BY <1>2 DEF Listed
<1>6. AscendingOnce' /\ AheadInv' /\ OnlyOwnKeys'
  BY <1>2, <1>5 DEF ListInv, AscendingOnce, AheadInv, OnlyOwnKeys
<1>7. StableInv' /\ StableKeysListed'
  BY <1>2, <1>5 DEF ListInv, StableInv, StableKeysListed
<1> QED
  BY <1>2, <1>3, <1>4, <1>6, <1>7 DEF ListInv

LEMMA ListInvStep == ListInv /\ [Next]_vars => ListInv'
<1> SUFFICES ASSUME ListInv, [Next]_vars
             PROVE  ListInv'
  OBVIOUS
<1>1. ASSUME NEW n \in Namespaces, BeginWalk(n)
      PROVE  ListInv'
  BY <1>1, BeginWalkPreserves
<1>2. ASSUME NEW n \in Namespaces, ChangeNamespace(n)
      PROVE  ListInv'
  BY <1>2, ChangeNamespacePreserves
<1>3. ASSUME NEW requested \in PageSizes, ListPage(requested)
      PROVE  ListInv'
  BY <1>3, ListPagePreserves
<1>4. CASE ListRejected
  BY <1>4, ListRejectedPreserves
<1>5. CASE Change
  BY <1>5, ChangePreserves
<1>6. CASE UNCHANGED vars
  <2> USE <1>6 DEF vars
  <2>1. TypeOK'
    BY DEF ListInv, TypeOK
  <2>2. Listed' = Listed
    BY DEF Listed
  <2>3. AscendingOnce' /\ AheadInv' /\ OnlyOwnKeys'
    BY <2>2 DEF ListInv, AscendingOnce, AheadInv, OnlyOwnKeys
  <2>4. StableInv' /\ StableKeysListed'
    BY <2>2 DEF ListInv, StableInv, StableKeysListed
  <2> QED
    BY <2>1, <2>3, <2>4 DEF ListInv
<1> QED
  BY <1>1, <1>2, <1>3, <1>4, <1>5, <1>6 DEF Next, List

LEMMA ListInvInit == Init => ListInv
<1> SUFFICES ASSUME Init PROVE ListInv
  OBVIOUS
<1> USE DEF Init
<1>1. TypeOK
  BY NoTokenIsNoKey, WalkAssumption DEF TypeOK
<1>2. Listed = {}
  BY DEF Listed
<1>3. AscendingOnce /\ AheadInv /\ OnlyOwnKeys
  BY <1>2 DEF AscendingOnce, AheadInv, OnlyOwnKeys
<1>4. StableInv /\ StableKeysListed
  BY DEF StableInv, StableKeysListed
<1> QED
  BY <1>1, <1>3, <1>4 DEF ListInv

LEMMA ListInvariant == Spec => []ListInv
  BY ListInvInit, ListInvStep, PTL DEF Spec
-----------------------------------------------------------------------------
(* Theorems                                                                 *)

\* Every variable of a walk keeps its type: a token is a key or none, and a key
\* that was there all the time is still there (list in src/src/server.rs).
THEOREM ListTypeOK == Spec => []TypeOK
<1>1. ListInv => TypeOK
  BY DEF ListInv
<1> QED
  BY <1>1, ListInvariant, PTL

\* The pages of a walk ascend and repeat no key, whatever is put or deleted
\* between two requests.
THEOREM ListAscendingOnce == Spec => []AscendingOnce
<1>1. ListInv => AscendingOnce
  BY DEF ListInv
<1> QED
  BY <1>1, ListInvariant, PTL

\* A walk that came to its end listed every key that was there all the time:
\* the next token is the least key not listed, and the next scan starts at it or
\* at its successor when it was deleted meanwhile.
THEOREM ListStableKeysListed == Spec => []StableKeysListed
<1>1. ListInv => StableKeysListed
  BY DEF ListInv
<1> QED
  BY <1>1, ListInvariant, PTL

\* A walk lists keys of its namespace only, also when another namespace begins
\* with the same bytes, and only keys that were there during the walk.
THEOREM ListOnlyOwnKeys == Spec => []OnlyOwnKeys
<1>1. ListInv => OnlyOwnKeys
  BY DEF ListInv
<1> QED
  BY <1>1, ListInvariant, PTL

\* No page is longer than what resolve_page_size makes of the request, a default
\* above the maximum included, and only the last page of a walk is shorter.
THEOREM ListPageSizeKept == Spec => PageSizeKept
<1> DEFINE Kept ==
      \A requested \in PageSizes :
        ListPage(requested) =>
          LET size == Cardinality(pages'[Len(pages')])
          IN  /\ requested = 0 => size <= default_page_size
              /\ requested # 0 => size <= requested /\ size <= max_page_size
              /\ token' # NoToken =>
                   size \in IF requested = 0 THEN {default_page_size}
                            ELSE {requested, max_page_size}
<1>1. ListInv => Kept
  <2> SUFFICES ASSUME ListInv, NEW requested \in PageSizes, ListPage(requested)
               PROVE  LET size == Cardinality(pages'[Len(pages')])
                      IN  /\ requested = 0 => size <= default_page_size
                          /\ requested # 0 => size <= requested /\ size <= max_page_size
                          /\ token' # NoToken =>
                               size \in IF requested = 0 THEN {default_page_size}
                                        ELSE {requested, max_page_size}
    OBVIOUS
  <2> DEFINE answer == Answer(ns, requested, token)
             size == Cardinality(answer.entries)
  <2>1. /\ store \in SUBSET Keys /\ IsFiniteSet(store) /\ ns \in Namespaces
        /\ token \in Keys \cup {NoToken} /\ ValidToken(ns, token)
        /\ pages \in Seq(SUBSET Keys)
    BY DEF ListInv, TypeOK, ListPage
  <2>2. /\ size \in Nat /\ size <= resolve_page_size(requested)
        /\ answer.next_page_token # NoToken => size = resolve_page_size(requested)
    BY <2>1, AnswerIsNextPage
  <2>3. /\ requested \in Nat /\ max_page_size \in Nat /\ default_page_size \in Nat
        /\ requested = 0 => resolve_page_size(requested) = default_page_size
        /\ requested # 0 => /\ resolve_page_size(requested) \in {requested, max_page_size}
                            /\ resolve_page_size(requested) <= requested
                            /\ resolve_page_size(requested) <= max_page_size
    BY ListAssumption DEF resolve_page_size
  <2>4. pages' = Append(pages, answer.entries) /\ token' = answer.next_page_token
    BY DEF ListPage
  <2> HIDE DEF answer
  <2>5. pages'[Len(pages')] = answer.entries
    BY <2>1, <2>4
  <2> HIDE DEF size
  <2>6. Cardinality(pages'[Len(pages')]) = size
    BY <2>5 DEF size
  <2> QED
    BY <2>2, <2>3, <2>4, <2>6
<1>2. Spec => [][Kept]_vars
  BY <1>1, ListInvariant, PTL
<1> QED
  BY <1>2 DEF PageSizeKept
=============================================================================
