---------------------------- MODULE ViewTheorems ----------------------------
(***************************************************************************)
(* Proofs about the list card of the dashboard, for all namespaces and     *)
(* ids, all page sizes and any number of keys and changes.                 *)
(***************************************************************************)
EXTENDS ListView, FiniteSetTheorems, FunctionTheorems, SequenceTheorems, TLAPS

\* What is proved of the list handler.  The walk that ListTheorems is about
\* plays no part in it.
LT == INSTANCE ListTheorems WITH
  ns <- <<>>, token <- NoToken, pages <- <<>>, status <- "idle",
  changes <- 0, stable <- {}, present <- {}

Bytes == Seq(Nat)
-----------------------------------------------------------------------------
(* The handler, in the words of this module                                 *)

LEMMA SameAssumptions == LT!ListAssumption /\ LT!WalkAssumption
  BY ListAssumption, ViewAssumption
     DEF LT!ListAssumption, LT!WalkAssumption, LT!ValidField, ValidField, LT!KEY_SEP, KEY_SEP

LEMMA SameOrder == \A a, b : LT!Less(a, b) <=> Less(a, b)
  BY DEF LT!Less, LT!StartsWith, Less, StartsWith

LEMMA SameKeys ==
  /\ LT!Bytes = Bytes /\ LT!NoToken = NoToken /\ LT!Keys = Keys
  /\ \A n : LT!KeysOf(n) = KeysOf(n)
  BY DEF LT!Bytes, Bytes, LT!NoToken, NoToken, LT!Keys, Keys, LT!KeysOf, KeysOf,
         LT!MakeKey, MakeKey, LT!KEY_SEP, KEY_SEP

LEMMA SameTokens == \A n, tok : LT!ValidToken(n, tok) <=> ValidToken(n, tok)
  BY DEF LT!ValidToken, ValidToken, LT!NoToken, NoToken, LT!StartsWith, StartsWith,
         LT!NamespacePrefix, NamespacePrefix, LT!KEY_SEP, KEY_SEP

LEMMA SameCardinality ==
  /\ \A S : LT!Cardinality(S) = Cardinality(S)
  /\ \A S : LT!IsFiniteSet(S) <=> IsFiniteSet(S)
  BY DEF LT!Cardinality, Cardinality, LT!IsFiniteSet, IsFiniteSet

LEMMA SameAnswer == \A n, requested, tok : LT!Answer(n, requested, tok) = Answer(n, requested, tok)
<1>1. \A a, b : LT!StartsWith(a, b) <=> StartsWith(a, b)
  BY DEF LT!StartsWith, StartsWith
<1>2. ASSUME NEW p, NEW start, NEW limit
      PROVE  LT!ScanPrefix(p, start, limit) = ScanPrefix(p, start, limit)
  <2> DEFINE from == {k \in store : ~Less(k, start)}
             upTo(k) == {j \in from : j = k \/ Less(j, k)}
             lt_from == {k \in store : ~LT!Less(k, start)}
             lt_upTo(k) == {j \in lt_from : j = k \/ LT!Less(j, k)}
  <2>1. lt_from = from
    BY SameOrder
  <2>2. \A k : lt_upTo(k) = upTo(k)
    BY <2>1, SameOrder
  <2>3. LT!ScanPrefix(p, start, limit) =
          {k \in lt_from : (\A j \in lt_upTo(k) : LT!StartsWith(j, p)) /\ LT!Cardinality(lt_upTo(k)) <= limit}
    BY DEF LT!ScanPrefix
  <2>4. ScanPrefix(p, start, limit) =
          {k \in from : (\A j \in upTo(k) : StartsWith(j, p)) /\ Cardinality(upTo(k)) <= limit}
    BY DEF ScanPrefix
  <2> HIDE DEF from, upTo, lt_from, lt_upTo
  <2> QED
    BY <1>1, <2>1, <2>2, <2>3, <2>4, SameCardinality
<1>3. \A S : LT!LastKey(S) = LastKey(S)
  BY SameOrder DEF LT!LastKey, LastKey
<1>4. \A n : LT!NamespacePrefix(n) = NamespacePrefix(n)
  BY DEF LT!NamespacePrefix, NamespacePrefix, LT!KEY_SEP, KEY_SEP
<1>5. \A requested : LT!resolve_page_size(requested) = resolve_page_size(requested)
  BY DEF LT!resolve_page_size, resolve_page_size
<1>6. ASSUME NEW n, NEW requested, NEW tok
      PROVE  LT!Answer(n, requested, tok) = Answer(n, requested, tok)
  <2> DEFINE page_size == resolve_page_size(requested)
             start == IF tok = NoToken THEN NamespacePrefix(n) ELSE tok
             items == ScanPrefix(NamespacePrefix(n), start, page_size + 1)
             lt_start == IF tok = LT!NoToken THEN LT!NamespacePrefix(n) ELSE tok
             lt_items == LT!ScanPrefix(LT!NamespacePrefix(n), lt_start,
                                       LT!resolve_page_size(requested) + 1)
  <2>1. lt_start = start
    BY <1>4, SameKeys
  <2>2. lt_items = items
    <3> HIDE DEF start, lt_start
    <3> QED
      BY <1>2, <1>4, <1>5, <2>1
  <2>3. LT!Answer(n, requested, tok) =
          IF LT!Cardinality(lt_items) > LT!resolve_page_size(requested)
          THEN [entries |-> lt_items \ {LT!LastKey(lt_items)},
                next_page_token |-> LT!LastKey(lt_items)]
          ELSE [entries |-> lt_items, next_page_token |-> LT!NoToken]
    BY DEF LT!Answer
  <2>4. Answer(n, requested, tok) =
          IF Cardinality(items) > page_size
          THEN [entries |-> items \ {LastKey(items)}, next_page_token |-> LastKey(items)]
          ELSE [entries |-> items, next_page_token |-> NoToken]
    BY DEF Answer
  <2> HIDE DEF items, lt_items
  <2> QED
    BY <1>3, <1>5, <2>2, <2>3, <2>4, SameKeys, SameCardinality
<1> QED
  BY <1>6

LEMMA KeyOrder ==
  /\ \A a \in Bytes : ~Less(a, a)
  /\ \A a, b, c \in Bytes : Less(a, b) /\ Less(b, c) => Less(a, c)
  /\ \A a, b \in Bytes : a = b \/ Less(a, b) \/ Less(b, a)
  BY SameAssumptions, SameOrder, SameKeys, LT!LessIrreflexive, LT!LessTransitive, LT!LessTotal

LEMMA KeyFacts ==
  /\ Keys \subseteq Bytes
  /\ NoToken \notin Keys
  /\ \A n \in Namespaces : KeysOf(n) \subseteq Keys
<1>1. \A n \in Namespaces : KeysOf(n) \subseteq Keys
  BY DEF Keys
<1> QED
  BY <1>1, SameAssumptions, SameKeys, LT!KeysAreBytes, LT!NoTokenIsNoKey

\* A token is valid in its own namespace only.
LEMMA TokenTellsNamespace ==
  ASSUME NEW m \in Namespaces, NEW n \in Namespaces, NEW tok \in KeysOf(m)
  PROVE  ValidToken(n, tok) <=> m = n
<1>1. tok # NoToken
  BY KeyFacts
<1>2. ValidToken(n, tok) <=> LT!StartsWith(tok, LT!NamespacePrefix(n))
  BY <1>1, SameTokens, SameKeys DEF LT!ValidToken
<1>3. ASSUME m = n
      PROVE  LT!StartsWith(tok, LT!NamespacePrefix(n))
  BY <1>3, SameAssumptions, SameKeys, LT!KeyStartsWithNamespace
<1>4. ASSUME LT!StartsWith(tok, LT!NamespacePrefix(n))
      PROVE  m = n
  BY <1>4, SameAssumptions, SameKeys, LT!PrefixTellsNamespace
<1> QED
  BY <1>2, <1>3, <1>4

\* What a list still has before it, when it has come to tok.
Remaining(n, tok) == {k \in store \cap KeysOf(n) : tok = NoToken \/ ~Less(k, tok)}

\* A page is what remains up to the next token, or all of it.
LEMMA NextPage ==
  ASSUME store \in SUBSET Keys, IsFiniteSet(store), NEW n \in Namespaces,
         NEW requested \in PageSizes, NEW tok \in Keys \cup {NoToken}, ValidToken(n, tok)
  PROVE  LET answer == Answer(n, requested, tok)
             next == answer.next_page_token
             F == Remaining(n, tok)
         IN  /\ answer = [entries |-> answer.entries, next_page_token |-> next]
             /\ next = NoToken => answer.entries = F
             /\ next # NoToken => /\ next \in F
                                  /\ answer.entries = {k \in F : Less(k, next)}
<1>1. LT!Remaining(n, tok) = Remaining(n, tok)
  BY SameOrder, SameKeys DEF LT!Remaining, Remaining
<1>2. /\ store \in SUBSET LT!Keys /\ LT!IsFiniteSet(store)
      /\ tok \in LT!Keys \cup {LT!NoToken} /\ LT!ValidToken(n, tok)
  BY SameKeys, SameCardinality, SameTokens
<1>3. Answer(n, requested, tok) =
        [entries |-> Answer(n, requested, tok).entries,
         next_page_token |-> Answer(n, requested, tok).next_page_token]
  BY DEF Answer
<1> QED
  BY <1>1, <1>2, <1>3, SameAssumptions, SameOrder, SameKeys, SameAnswer, LT!AnswerIsNextPage
-----------------------------------------------------------------------------
(* Sequences of keys                                                        *)

Ascending(s) == \A i, j \in 1 .. Len(s) : i < j => Less(s[i], s[j])

Elements(s) == {s[i] : i \in 1 .. Len(s)}

\* A finite set that grows has more elements: ranks tell elements apart.
LEMMA StrictSubset ==
  ASSUME NEW S, IsFiniteSet(S), NEW T, T \subseteq S, T # S
  PROVE  Cardinality(T) \in Nat /\ Cardinality(S) \in Nat /\ Cardinality(T) < Cardinality(S)
<1>1. /\ IsFiniteSet(T) /\ Cardinality(T) <= Cardinality(S)
      /\ Cardinality(T) # Cardinality(S)
  BY FS_Subset
<1> QED
  BY <1>1, FS_CardinalityType

\* A map between finite sets of one size that takes no value twice takes every
\* value.
LEMMA OntoBySize ==
  ASSUME NEW S, NEW T, IsFiniteSet(S), IsFiniteSet(T), Cardinality(S) = Cardinality(T),
         NEW f \in [S -> T], \A x, y \in S : f[x] = f[y] => x = y
  PROVE  \A z \in T : \E x \in S : f[x] = z
<1>1. f \in Injection(S, T)
  BY DEF Injection, IsInjective
<1>2. f \in Surjection(S, T)
  BY <1>1, FS_Injection
<1> QED
  BY <1>2 DEF Surjection

LEMMA CountOf ==
  ASSUME NEW S, IsFiniteSet(S)
  PROVE  /\ Cardinality(S) \in Nat
         /\ IsFiniteSet(1 .. Cardinality(S))
         /\ Cardinality(1 .. Cardinality(S)) = Cardinality(S)
<1> DEFINE n == Cardinality(S)
<1>1. n \in Nat
  BY FS_CardinalityType
<1> HIDE DEF n
<1>2. IsFiniteSet(1 .. n) /\ Cardinality(1 .. n) = n
  BY <1>1, FS_Interval
<1> QED
  BY <1>1, <1>2 DEF n

\* Ranks that tell elements apart enumerate a set.
LEMMA RanksEnumerate ==
  ASSUME NEW S, IsFiniteSet(S), NEW rank \in [S -> 1 .. Cardinality(S)],
         \A x, y \in S : rank[x] = rank[y] => x = y
  PROVE  \E f \in [1 .. Cardinality(S) -> S] : \A i \in 1 .. Cardinality(S) : rank[f[i]] = i
<1> DEFINE T == 1 .. Cardinality(S)
           f == [i \in T |-> CHOOSE x \in S : rank[x] = i]
<1>1. IsFiniteSet(T) /\ Cardinality(T) = Cardinality(S) /\ rank \in [S -> T]
  BY CountOf
<1>2. \A i \in T : \E x \in S : rank[x] = i
  <2> HIDE DEF T
  <2> QED
    BY <1>1, OntoBySize
<1>3. \A i \in T : f[i] \in S /\ rank[f[i]] = i
  BY <1>2
<1>4. f \in [T -> S]
  <2>1. f = [i \in T |-> f[i]]
    OBVIOUS
  <2> HIDE DEF f
  <2> QED
    BY <1>3, <2>1
<1> QED
  BY <1>3, <1>4

\* An enumeration of the size of a set that repeats nothing leaves nothing out.
LEMMA EnumerationIsOnto ==
  ASSUME NEW S, IsFiniteSet(S), NEW f \in [1 .. Cardinality(S) -> S],
         \A i, j \in 1 .. Cardinality(S) : f[i] = f[j] => i = j
  PROVE  \A x \in S : \E i \in 1 .. Cardinality(S) : f[i] = x
<1> DEFINE T == 1 .. Cardinality(S)
<1>1. /\ IsFiniteSet(T) /\ Cardinality(T) = Cardinality(S) /\ f \in [T -> S]
      /\ \A i, j \in T : f[i] = f[j] => i = j
  BY CountOf
<1>2. \A x \in S : \E i \in T : f[i] = x
  <2> HIDE DEF T
  <2>1. f \in Injection(T, S)
    BY <1>1 DEF Injection, IsInjective
  <2>2. f \in Surjection(T, S)
    BY <1>1, <2>1, FS_Injection
  <2> QED
    BY <2>2 DEF Surjection
<1> QED
  BY <1>2 DEF T

\* A finite set of keys has an enumeration in their order: the one by rank.
LEMMA InOrderIsPage ==
  ASSUME NEW S \in SUBSET Bytes, IsFiniteSet(S)
  PROVE  /\ InOrder(S) \in Seq(S)
         /\ Ascending(InOrder(S))
         /\ Elements(InOrder(S)) = S
<1> DEFINE n == Cardinality(S)
           upTo(k) == {j \in S : j = k \/ Less(j, k)}
           rank == [k \in S |-> Cardinality(upTo(k))]
<1>1. n \in Nat
  BY CountOf
<1>2. ASSUME NEW k \in S
      PROVE  rank[k] \in 1 .. n
  <2>1. /\ upTo(k) \subseteq S /\ k \in upTo(k) /\ IsFiniteSet(upTo(k))
        /\ Cardinality(upTo(k)) <= n
    BY FS_Subset
  <2>2. Cardinality(upTo(k)) \in Nat /\ Cardinality(upTo(k)) # 0
    BY <2>1, FS_CardinalityType, FS_EmptySet
  <2> HIDE DEF upTo
  <2> QED
    BY <1>1, <2>1, <2>2
<1>3. ASSUME NEW j \in S, NEW k \in S, Less(j, k)
      PROVE  rank[j] < rank[k]
  <2>1. upTo(j) \subseteq upTo(k) /\ k \in upTo(k) /\ k \notin upTo(j)
    BY <1>3, KeyOrder
  <2>2. IsFiniteSet(upTo(k))
    BY FS_Subset
  <2>3. Cardinality(upTo(j)) < Cardinality(upTo(k))
    <3> HIDE DEF upTo
    <3> QED
      BY <2>1, <2>2, StrictSubset
  <2> QED
    BY <2>3
<1> HIDE DEF rank
<1>4. rank \in [S -> 1 .. n]
  <2>1. rank = [k \in S |-> rank[k]]
    BY DEF rank
  <2> QED
    BY <1>2, <2>1
<1>5. \A j, k \in S : rank[j] < rank[k] => Less(j, k)
  BY <1>1, <1>2, <1>3, KeyOrder
<1>6. \A j, k \in S : rank[j] = rank[k] => j = k
  BY <1>1, <1>2, <1>3, KeyOrder
<1>7. PICK f \in [1 .. n -> S] : \A i \in 1 .. n : rank[f[i]] = i
  BY <1>4, <1>6, RanksEnumerate
<1>8. \A i, j \in 1 .. n : i < j => Less(f[i], f[j])
  BY <1>1, <1>5, <1>7
<1> DEFINE s == InOrder(S)
<1>9. s \in [1 .. n -> S] /\ \A i, j \in 1 .. n : i < j => Less(s[i], s[j])
  BY <1>7, <1>8 DEF InOrder
<1> HIDE DEF s, n
<1>10. s \in Seq(S) /\ Len(s) = n
  BY <1>1, <1>9
<1>11. \A i, j \in 1 .. n : s[i] = s[j] => i = j
  BY <1>1, <1>9, KeyOrder
<1>12. \A k \in S : \E i \in 1 .. n : s[i] = k
  BY <1>9, <1>11, EnumerationIsOnto DEF n
<1> QED
  BY <1>9, <1>10, <1>12 DEF Ascending, Elements, s

\* A finite set of positions has an enumeration in their order.
LEMMA PositionsInOrder ==
  ASSUME NEW S \in SUBSET Nat, IsFiniteSet(S)
  PROVE  LET n == Cardinality(S)
         IN  /\ n \in Nat
             /\ \E f \in [1 .. n -> S] : \A i, j \in 1 .. n : i < j => f[i] < f[j]
             /\ \A f \in [1 .. n -> S] :
                  (\A i, j \in 1 .. n : i < j => f[i] < f[j])
                    => \A k \in S : \E i \in 1 .. n : f[i] = k
<1> DEFINE n == Cardinality(S)
           upTo(k) == {j \in S : j <= k}
           rank == [k \in S |-> Cardinality(upTo(k))]
<1>0. \A x \in S : x \in Nat
  OBVIOUS
<1>1. n \in Nat
  BY CountOf
<1>2. ASSUME NEW k \in S
      PROVE  rank[k] \in 1 .. n
  <2>1. /\ upTo(k) \subseteq S /\ k \in upTo(k) /\ IsFiniteSet(upTo(k))
        /\ Cardinality(upTo(k)) <= n
    BY <1>0, FS_Subset
  <2>2. Cardinality(upTo(k)) \in Nat /\ Cardinality(upTo(k)) # 0
    BY <2>1, FS_CardinalityType, FS_EmptySet
  <2> HIDE DEF upTo
  <2> QED
    BY <1>1, <2>1, <2>2
<1>3. ASSUME NEW j \in S, NEW k \in S, j < k
      PROVE  rank[j] < rank[k]
  <2>0. j \in Nat /\ k \in Nat /\ j < k /\ k <= k /\ ~(k <= j)
    BY <1>0, <1>3
  <2>1. upTo(j) \subseteq upTo(k) /\ k \in upTo(k) /\ k \notin upTo(j)
    <3>1. \A x \in S : x <= j => x <= k
      BY <1>0, <2>0
    <3> QED
      BY <2>0, <3>1
  <2>2. IsFiniteSet(upTo(k))
    BY FS_Subset
  <2>3. Cardinality(upTo(j)) < Cardinality(upTo(k))
    <3> HIDE DEF upTo
    <3> QED
      BY <2>1, <2>2, StrictSubset
  <2> QED
    BY <2>3
<1> HIDE DEF rank
<1>4. rank \in [S -> 1 .. n]
  <2>1. rank = [k \in S |-> rank[k]]
    BY DEF rank
  <2> QED
    BY <1>2, <2>1
<1>5. \A j, k \in S : rank[j] < rank[k] => j < k
  BY <1>0, <1>1, <1>2, <1>3
<1>6. \A j, k \in S : rank[j] = rank[k] => j = k
  BY <1>0, <1>1, <1>2, <1>3
<1>7. PICK f \in [1 .. n -> S] : \A i \in 1 .. n : rank[f[i]] = i
  BY <1>4, <1>6, RanksEnumerate
<1>8. \A i, j \in 1 .. n : i < j => f[i] < f[j]
  BY <1>1, <1>5, <1>7
<1>9. ASSUME NEW g \in [1 .. n -> S], \A i, j \in 1 .. n : i < j => g[i] < g[j]
      PROVE  \A k \in S : \E i \in 1 .. n : g[i] = k
  <2>1. \A i \in 1 .. n : g[i] \in Nat
    BY <1>0, <1>9
  <2>2. \A i, j \in 1 .. n : g[i] = g[j] => i = j
    <3> HIDE DEF n
    <3> QED
      BY <1>1, <1>9, <2>1
  <2> QED
    BY <2>2, EnumerationIsOnto
<1> QED
  BY <1>1, <1>7, <1>8, <1>9

\* The filter takes every k out of a list and leaves the rest, in its order.
LEMMA WithoutFilters ==
  ASSUME NEW s \in Seq(Keys), NEW k
  PROVE  /\ Without(s, k) \in Seq(Keys)
         /\ Elements(Without(s, k)) = Elements(s) \ {k}
         /\ Ascending(s) => Ascending(Without(s, k))
<1> DEFINE kept == {i \in 1 .. Len(s) : s[i] # k}
           n == Cardinality(kept)
           Up(f) == \A i, j \in 1 .. n : i < j => f[i] < f[j]
           at == CHOOSE f \in [1 .. n -> kept] : Up(f)
           w == [i \in 1 .. n |-> s[at[i]]]
<1>1. Len(s) \in Nat /\ \A i \in 1 .. Len(s) : s[i] \in Keys
  OBVIOUS
<1>2. kept \in SUBSET Nat /\ IsFiniteSet(kept)
  <2>1. IsFiniteSet(1 .. Len(s))
    BY <1>1, FS_Interval
  <2>2. kept \subseteq 1 .. Len(s)
    OBVIOUS
  <2>3. IsFiniteSet(kept)
    BY <2>1, <2>2, FS_Subset
  <2> QED
    BY <1>1, <2>2, <2>3
<1>3. /\ n \in Nat
      /\ \E f \in [1 .. n -> kept] : Up(f)
      /\ \A f \in [1 .. n -> kept] : Up(f) => \A i \in kept : \E j \in 1 .. n : f[j] = i
  <2> HIDE DEF kept
  <2> QED
    BY <1>2, PositionsInOrder
<1>4. Without(s, k) = w
  BY DEF Without
<1>5. at \in [1 .. n -> kept] /\ Up(at) /\ \A i \in kept : \E j \in 1 .. n : at[j] = i
  <2>1. at \in [1 .. n -> kept] /\ Up(at)
    <3> HIDE DEF n, kept, Up
    <3> QED
      BY <1>3
  <2> HIDE DEF at, n, kept, Up
  <2> QED
    BY <1>3, <2>1
<1> HIDE DEF at, n
<1>6. \A i \in 1 .. n : at[i] \in 1 .. Len(s) /\ s[at[i]] # k /\ s[at[i]] \in Keys
  BY <1>1, <1>5
<1>7. w \in Seq(Keys) /\ Len(w) = n /\ \A i \in 1 .. n : w[i] = s[at[i]]
  BY <1>3, <1>6
<1> HIDE DEF w
<1>8. Elements(w) = Elements(s) \ {k}
  <2>1. ASSUME NEW x \in Elements(w)
        PROVE  x \in Elements(s) \ {k}
    BY <1>6, <1>7 DEF Elements
  <2>2. ASSUME NEW x \in Elements(s) \ {k}
        PROVE  x \in Elements(w)
    <3>1. PICK i \in 1 .. Len(s) : x = s[i]
      BY DEF Elements
    <3>2. PICK j \in 1 .. n : at[j] = i
      BY <1>5, <3>1
    <3> QED
      BY <1>7, <3>1, <3>2 DEF Elements
  <2> QED
    BY <2>1, <2>2
<1>9. ASSUME Ascending(s)
      PROVE  Ascending(w)
  BY <1>5, <1>6, <1>7, <1>9 DEF Ascending
<1> QED
  BY <1>4, <1>7, <1>8, <1>9

LEMMA ConcatAscends ==
  ASSUME NEW s \in Seq(Keys), NEW t \in Seq(Keys)
  PROVE  /\ s \o t \in Seq(Keys)
         /\ Elements(s \o t) = Elements(s) \cup Elements(t)
         /\ (/\ Ascending(s) /\ Ascending(t)
             /\ \A a \in Elements(s), b \in Elements(t) : Less(a, b))
              => Ascending(s \o t)
<1> DEFINE u == s \o t
<1>1. /\ u \in Seq(Keys) /\ Len(s) \in Nat /\ Len(t) \in Nat /\ Len(u) = Len(s) + Len(t)
      /\ \A i \in 1 .. Len(s) : u[i] = s[i]
      /\ \A i \in 1 .. Len(t) : u[Len(s) + i] = t[i]
  OBVIOUS
<1> HIDE DEF u
<1>2. \A i \in 1 .. Len(u) : \/ i \in 1 .. Len(s) /\ u[i] = s[i]
                             \/ /\ i - Len(s) \in 1 .. Len(t) /\ i = Len(s) + (i - Len(s))
                                /\ u[i] = t[i - Len(s)]
  BY <1>1
<1>3. Elements(u) = Elements(s) \cup Elements(t)
  <2>1. Elements(u) \subseteq Elements(s) \cup Elements(t)
    BY <1>2 DEF Elements
  <2>2. Elements(s) \subseteq Elements(u)
    BY <1>1 DEF Elements
  <2>3. Elements(t) \subseteq Elements(u)
    <3> SUFFICES ASSUME NEW x \in Elements(t)
                 PROVE  x \in Elements(u)
      OBVIOUS
    <3>1. PICK i \in 1 .. Len(t) : x = t[i]
      BY DEF Elements
    <3>2. Len(s) + i \in 1 .. Len(u) /\ u[Len(s) + i] = x
      BY <1>1, <3>1
    <3> QED
      BY <3>2 DEF Elements
  <2> QED
    BY <2>1, <2>2, <2>3
<1>4. ASSUME Ascending(s), Ascending(t), \A a \in Elements(s), b \in Elements(t) : Less(a, b)
      PROVE  Ascending(u)
  <2> SUFFICES ASSUME NEW i \in 1 .. Len(u), NEW j \in 1 .. Len(u), i < j
               PROVE  Less(u[i], u[j])
    BY DEF Ascending
  <2>1. CASE j \in 1 .. Len(s)
    BY <1>1, <1>4, <2>1 DEF Ascending
  <2>2. CASE i \in 1 .. Len(s) /\ j \notin 1 .. Len(s)
    BY <1>2, <1>4, <2>2 DEF Elements
  <2>3. CASE i \notin 1 .. Len(s) /\ j \notin 1 .. Len(s)
    <3>1. i - Len(s) < j - Len(s)
      BY <1>1
    <3> QED
      BY <1>2, <1>4, <2>3, <3>1 DEF Ascending
  <2> QED
    BY <1>1, <2>1, <2>2, <2>3
<1> QED
  BY <1>1, <1>3, <1>4 DEF u

-----------------------------------------------------------------------------
(* The inductive invariant of the card                                      *)

Awaited == listing.pc \in {"sent", "answered"}

\* While a page is awaited, what is shown and the token it was asked with belong
\* together, or the edit of the namespace has emptied the list.
RequestInv ==
  Awaited =>
    /\ listing.more <=> listing.token # NoToken
    /\ IF listing.edited THEN Shown = {} /\ listNextToken = NoToken
       ELSE /\ listing.ns = listNs
            /\ listing.more => listNextToken = listing.token

\* An answer on its way is a page of its namespace, from its token up to the
\* next, and has nothing of what was seen deleted before.
PageInv ==
  listing.pc = "answered" =>
    LET next == listing.page.next_page_token
    IN  /\ ValidToken(listing.ns, listing.token)
        /\ IsFiniteSet(listing.page.entries)
        /\ listing.page.entries \cup ({next} \ {NoToken}) \subseteq KeysOf(listing.ns)
        /\ \A k \in listing.page.entries :
             /\ next # NoToken => Less(k, next)
             /\ listing.token # NoToken => ~Less(k, listing.token)
        /\ next # NoToken /\ listing.token # NoToken => ~Less(next, listing.token)
        /\ gone \cap listing.page.entries = {}

\* Of the keys S, those that are not in seen are not before next.
Ahead(S, seen, next) == \A k \in S : k \in seen \/ (next # NoToken /\ ~Less(k, next))

\* What was there all the time is shown or ahead, now and when the page that is
\* on its way has arrived.
WholeInv ==
  /\ stable \subseteq store /\ listing.since \subseteq store
  /\ whole => /\ Shown \cup stable \subseteq KeysOf(listNs)
              /\ Ahead(stable, Shown, listNextToken)
  /\ listing.pc = "answered" /\ ~listing.edited =>
       IF listing.more
       THEN whole => Ahead(stable, Shown \cup listing.page.entries, listing.page.next_page_token)
       ELSE /\ listing.since \subseteq KeysOf(listing.ns)
            /\ Ahead(listing.since, listing.page.entries, listing.page.next_page_token)

ViewInv ==
  /\ TypeOK
  /\ IsFiniteSet(store)
  /\ RequestInv
  /\ PageInv
  /\ WholeInv
  /\ OneListShown
  /\ DeletedStaysGone

LEMMA ListingFields ==
  ASSUME TypeOK
  PROVE  /\ listing.since \in SUBSET Keys
         /\ listing.edited \in BOOLEAN /\ listing.more \in BOOLEAN
         /\ listing.pc \in {"sent", "answered", "refreshing"} <=> listing # NoListing
         /\ listing # NoListing =>
              /\ listing.ns \in Namespaces
              /\ listing.token \in Keys \cup {NoToken}
              /\ listing.page \in Page
              /\ listing.page.entries \in SUBSET Keys
              /\ listing.page.next_page_token \in Keys \cup {NoToken}
<1>1. CASE listing = NoListing
  BY <1>1 DEF NoListing
<1>2. CASE listing # NoListing
  <2>1. listing \in [pc : {"sent", "answered", "refreshing"}, ns : Namespaces,
                     token : Keys \cup {NoToken}, more : BOOLEAN, page : Page,
                     edited : BOOLEAN, since : SUBSET Keys]
    BY <1>2 DEF TypeOK, Listing
  <2> QED
    BY <1>2, <2>1 DEF Page
<1> QED
  BY <1>1, <1>2

LEMMA ShownElements == Shown = Elements(listEntries)
  BY DEF Shown, Elements
-----------------------------------------------------------------------------
(* One lemma per action                                                     *)

\* A delete that is on its way changes nothing of the card.
LEMMA CardUntouched ==
  ASSUME ViewInv, UNCHANGED <<store, view_vars, listing, history_vars>>,
         deleting' \in Deleting, changes' \in 0 .. MaxChanges
  PROVE  ViewInv'
<1> USE DEF view_vars, history_vars
<1>1. TypeOK'
  BY DEF ViewInv, TypeOK
<1>2. Shown' = Shown /\ Awaited' = Awaited
  BY DEF Shown, Awaited
<1>3. RequestInv' /\ PageInv' /\ WholeInv'
  BY <1>2 DEF ViewInv, RequestInv, PageInv, WholeInv, Ahead
<1>4. OneListShown' /\ DeletedStaysGone'
  BY <1>2 DEF ViewInv, OneListShown, DeletedStaysGone
<1> QED
  BY <1>1, <1>3, <1>4 DEF ViewInv

\* A list that begins or ends, without a page on its way.
LEMMA ListingChanges ==
  ASSUME ViewInv, UNCHANGED <<store, view_vars, deleting, changes, history_vars>>,
         listing' \in Listing, listing'.since = {}, listing'.pc # "answered", RequestInv'
  PROVE  ViewInv'
<1> USE DEF view_vars, history_vars
<1>1. TypeOK'
  BY DEF ViewInv, TypeOK
<1>2. Shown' = Shown
  BY DEF Shown
<1>3. PageInv' /\ WholeInv'
  BY <1>2 DEF ViewInv, PageInv, WholeInv, Ahead
<1>4. OneListShown' /\ DeletedStaysGone'
  BY <1>2 DEF ViewInv, OneListShown, DeletedStaysGone
<1> QED
  BY <1>1, <1>3, <1>4 DEF ViewInv

LEMMA RunListPreserves ==
  ASSUME ViewInv, NEW more \in BOOLEAN, RunList(more)
  PROVE  ViewInv'
<1>1. /\ UNCHANGED <<store, view_vars, deleting, changes, history_vars>>
      /\ more => listNextToken # NoToken
      /\ listing' = [pc |-> "sent", ns |-> listNs,
                     token |-> IF more THEN listNextToken ELSE NoToken, more |-> more,
                     page |-> NoPage, edited |-> FALSE, since |-> {}]
  BY DEF RunList, NoListing
<1>2. NoPage \in Page
  BY DEF NoPage, Page
<1>3. listing' \in Listing
  BY <1>1, <1>2 DEF ViewInv, TypeOK, Listing
<1>4. RequestInv'
  BY <1>1 DEF RequestInv, view_vars
<1> QED
  BY <1>1, <1>3, <1>4, ListingChanges

LEMMA ListEndsPreserves ==
  ASSUME ViewInv, ListFails \/ ListEnds
  PROVE  ViewInv'
<1>1. /\ UNCHANGED <<store, view_vars, deleting, changes, history_vars>>
      /\ listing' = NoListing
  BY DEF ListFails, ListEnds
<1>2. listing' \in Listing /\ listing'.since = {} /\ listing'.pc = "idle"
  BY <1>1 DEF Listing, NoListing
<1>3. RequestInv'
  BY <1>2 DEF RequestInv, Awaited
<1> QED
  BY <1>1, <1>2, <1>3, ListingChanges

LEMMA ListServedPreserves ==
  ASSUME ViewInv, NEW requested \in PageSizes, ListServed(requested)
  PROVE  ViewInv'
<1> DEFINE n == listing.ns
           tok == listing.token
           answer == Answer(n, requested, tok)
           next == answer.next_page_token
           F == Remaining(n, tok)
<1>1. /\ TypeOK /\ store \in SUBSET Keys /\ IsFiniteSet(store) /\ listing # NoListing
      /\ n \in Namespaces /\ tok \in Keys \cup {NoToken} /\ ValidToken(n, tok)
      /\ listing.pc = "sent"
  BY ListingFields DEF ViewInv, TypeOK, ListServed
<1>2. /\ answer = [entries |-> answer.entries, next_page_token |-> next]
      /\ next = NoToken => answer.entries = F
      /\ next # NoToken => next \in F /\ answer.entries = {k \in F : Less(k, next)}
  BY <1>1, NextPage
<1> DEFINE since == IF listing.more THEN {} ELSE store \cap KeysOf(n)
<1>3. /\ listing' = [listing EXCEPT !.pc = "answered", !.page = answer, !.since = since]
      /\ UNCHANGED <<store, view_vars, deleting, changes, history_vars>>
  BY DEF ListServed
<1> HIDE DEF answer
<1>4. F \subseteq store /\ F \subseteq KeysOf(n) /\ answer.entries \subseteq F
  BY <1>2 DEF Remaining
<1>5. answer \in Page
  BY <1>1, <1>2, <1>4 DEF Page
<1>6. /\ listing' \in Listing /\ listing'.pc = "answered" /\ listing'.ns = n
      /\ listing'.token = tok /\ listing'.more = listing.more
      /\ listing'.page = answer /\ listing'.edited = listing.edited /\ listing'.since = since
  <2>1. listing \in [pc : {"sent", "answered", "refreshing"}, ns : Namespaces,
                     token : Keys \cup {NoToken}, more : BOOLEAN, page : Page,
                     edited : BOOLEAN, since : SUBSET Keys]
    BY <1>1 DEF TypeOK, Listing
  <2>2. since \in SUBSET Keys
    BY <1>1
  <2> HIDE DEF since
  <2> QED
    BY <1>3, <1>5, <2>1, <2>2 DEF Listing
<1>7. TypeOK' /\ IsFiniteSet(store)'
  BY <1>1, <1>3, <1>6 DEF TypeOK, view_vars, history_vars
<1>8. /\ Shown' = Shown /\ listNs' = listNs /\ listNextToken' = listNextToken
      /\ store' = store /\ whole' = whole /\ stable' = stable /\ gone' = gone
  BY <1>3 DEF Shown, view_vars, history_vars
<1>9. RequestInv'
  BY <1>1, <1>6, <1>8 DEF ViewInv, RequestInv, Awaited
<1>10. PageInv'
  <2>1. IsFiniteSet(answer.entries)
    BY <1>1, <1>4, FS_Subset
  <2>2. gone \cap answer.entries = {}
    BY <1>1, <1>4 DEF TypeOK
  <2>3. \A k \in F : tok # NoToken => ~Less(k, tok)
    BY DEF Remaining
  <2> QED
    BY <1>1, <1>2, <1>4, <1>6, <1>8, <2>1, <2>2, <2>3 DEF PageInv
<1>11. WholeInv'
  <2>1. stable' \subseteq store' /\ listing'.since \subseteq store'
    BY <1>6, <1>8 DEF ViewInv, WholeInv
  <2>3. \A k \in F : k \in answer.entries \/ (next # NoToken /\ ~Less(k, next))
    BY <1>2
  <2>4. ASSUME ~listing.edited, listing.more, whole
        PROVE  Ahead(stable, Shown \cup answer.entries, next)
    <3>1. listing.ns = listNs /\ listNextToken = tok /\ tok # NoToken
      BY <1>1, <2>4 DEF ViewInv, RequestInv, Awaited
    <3>2. \A k \in stable : k \in Shown \/ k \in F
      BY <2>4, <3>1 DEF ViewInv, WholeInv, Ahead, Remaining
    <3> QED
      BY <2>3, <3>2 DEF Ahead
  <2>5. ASSUME ~listing.edited, ~listing.more
        PROVE  since \subseteq KeysOf(n) /\ Ahead(since, answer.entries, next)
    <3>1. tok = NoToken
      BY <1>1, <2>5 DEF ViewInv, RequestInv, Awaited
    <3>2. since \subseteq KeysOf(n) /\ since \subseteq F
      BY <2>5, <3>1 DEF Remaining
    <3> QED
      BY <2>3, <3>2 DEF Ahead
  <2>6. whole => Shown \cup stable \subseteq KeysOf(listNs) /\ Ahead(stable, Shown, listNextToken)
    BY DEF ViewInv, WholeInv
  <2> HIDE DEF since
  <2> QED
    BY <1>6, <1>8, <2>1, <2>4, <2>5, <2>6 DEF WholeInv, Ahead
<1>12. OneListShown' /\ DeletedStaysGone'
  BY <1>3, <1>8 DEF ViewInv, OneListShown, DeletedStaysGone, view_vars
<1> QED
  BY <1>7, <1>9, <1>10, <1>11, <1>12 DEF ViewInv

LEMMA ListArrivesPreserves ==
  ASSUME ViewInv, ListArrives
  PROVE  ViewInv'
<1> DEFINE n == listing.ns
           entries == listing.page.entries
           next == listing.page.next_page_token
           page == InOrder(entries)
<1>1. /\ TypeOK /\ listing.pc = "answered" /\ listing # NoListing /\ n \in Namespaces
      /\ entries \in SUBSET Keys /\ next \in Keys \cup {NoToken} /\ IsFiniteSet(entries)
      /\ entries \cup ({next} \ {NoToken}) \subseteq KeysOf(n)
      /\ listing.since \in SUBSET Keys /\ listing.edited \in BOOLEAN /\ listing.more \in BOOLEAN
  BY ListingFields DEF ViewInv, PageInv, ListArrives
<1>2. /\ listEntries' = IF listing.more THEN listEntries \o page ELSE page
      /\ listNextToken' = next
      /\ whole' = (~listing.edited /\ (listing.more => whole))
      /\ stable' = IF listing.more THEN stable ELSE listing.since
      /\ UNCHANGED <<store, listNs, deleting, changes, gone>>
  BY DEF ListArrives
<1>3. /\ listing' = [pc |-> "refreshing", ns |-> n, token |-> NoToken, more |-> FALSE,
                     page |-> NoPage, edited |-> FALSE, since |-> {}]
      /\ listing' \in Listing
  <2>1. listing' = [pc |-> "refreshing", ns |-> n, token |-> NoToken, more |-> FALSE,
                    page |-> NoPage, edited |-> FALSE, since |-> {}]
    BY DEF ListArrives, NoListing
  <2>2. NoPage \in Page
    BY DEF NoPage, Page
  <2> QED
    BY <1>1, <2>1, <2>2 DEF Listing
<1>4. page \in Seq(Keys) /\ Ascending(page) /\ Elements(page) = entries
  <2>1. entries \in SUBSET Bytes
    BY <1>1, KeyFacts
  <2>2. page \in Seq(entries) /\ Ascending(page) /\ Elements(page) = entries
    BY <1>1, <2>1, InOrderIsPage
  <2> HIDE DEF page, entries
  <2> QED
    BY <1>1, <2>2
<1>5. listEntries \in Seq(Keys)
  BY <1>1 DEF TypeOK
<1>6. Shown' = Elements(listEntries')
  BY DEF Shown, Elements
<1> HIDE DEF page
<1>7. /\ listEntries' \in Seq(Keys)
      /\ Shown' = IF listing.more THEN Shown \cup entries ELSE entries
  BY <1>2, <1>4, <1>5, <1>6, ShownElements, ConcatAscends
<1>8. stable' \in SUBSET store
  BY <1>2 DEF ViewInv, WholeInv
<1>9. TypeOK' /\ IsFiniteSet(store)'
  BY <1>1, <1>2, <1>3, <1>7, <1>8 DEF ViewInv, TypeOK
<1>10. RequestInv' /\ PageInv'
  BY <1>3 DEF RequestInv, PageInv, Awaited
\* What was shown is of the namespace of the page, and before it.
<1>11. ASSUME listing.more
       PROVE  /\ Shown \subseteq KeysOf(n) /\ Ascending(listEntries)
              /\ \A a \in Shown : (\A b \in entries : Less(a, b))
                                  /\ (next # NoToken => Less(a, next))
  <2>1. PICK m \in Namespaces :
          /\ Shown \cup ({listNextToken} \ {NoToken}) \subseteq KeysOf(m)
          /\ Ascending(listEntries)
          /\ listNextToken # NoToken => \A k \in Shown : Less(k, listNextToken)
    BY DEF ViewInv, OneListShown, Ascending
  <2>2. CASE listing.edited
    <3>1. Shown = {}
      BY <1>1, <2>2 DEF ViewInv, RequestInv, Awaited
    <3> QED
      BY <2>1, <3>1
  <2>3. CASE ~listing.edited
    <3>1. listNextToken = listing.token /\ listing.token # NoToken
      BY <1>1, <1>11, <2>3 DEF ViewInv, RequestInv, Awaited
    <3>2. ValidToken(n, listing.token)
      BY <1>1 DEF ViewInv, PageInv
    <3>3. m = n
      BY <1>1, <2>1, <3>1, <3>2, TokenTellsNamespace
    <3>4. /\ \A b \in entries : ~Less(b, listing.token)
          /\ next # NoToken => ~Less(next, listing.token)
      BY <1>1, <3>1 DEF ViewInv, PageInv
    <3>5. /\ Shown \subseteq Bytes /\ entries \subseteq Bytes /\ listing.token \in Bytes
          /\ next # NoToken => next \in Bytes
      BY <1>1, <2>1, <3>1, KeyFacts
    <3>6. \A a \in Shown : Less(a, listing.token)
      BY <2>1, <3>1
    <3>7. \A a, b \in Bytes : Less(a, listing.token) /\ ~Less(b, listing.token) => Less(a, b)
      BY <3>5, KeyOrder
    <3> QED
      BY <2>1, <3>3, <3>4, <3>5, <3>6, <3>7
  <2> QED
    BY <2>2, <2>3
<1>12. \A b \in entries : next # NoToken => Less(b, next)
  BY <1>1 DEF ViewInv, PageInv
<1>13. Ascending(listEntries')
  BY <1>2, <1>4, <1>5, <1>11, ShownElements, ConcatAscends
<1>14. OneListShown'
  <2>1. Shown' \cup ({listNextToken'} \ {NoToken}) \subseteq KeysOf(n)
    BY <1>1, <1>2, <1>7, <1>11
  <2>2. listNextToken' # NoToken => \A k \in Shown' : Less(k, listNextToken')
    BY <1>2, <1>7, <1>11, <1>12
  <2> HIDE DEF n
  <2> QED
    BY <1>1, <1>13, <2>1, <2>2 DEF OneListShown, Ascending
<1>15. WholeInv'
  <2>1. stable' \subseteq store' /\ listing'.since \subseteq store' /\ listing'.pc # "answered"
    BY <1>2, <1>3, <1>8
  <2>2. ASSUME whole'
        PROVE  /\ Shown' \cup stable' \subseteq KeysOf(listNs')
               /\ Ahead(stable', Shown', listNextToken')
    <3>1. ~listing.edited /\ (listing.more => whole) /\ n = listNs
      BY <1>1, <1>2, <2>2 DEF ViewInv, RequestInv, Awaited
    <3>2. CASE listing.more
      <4>1. stable' = stable /\ stable \subseteq KeysOf(listNs) /\ Shown' = Shown \cup entries
        BY <1>2, <1>7, <3>1, <3>2 DEF ViewInv, WholeInv
      <4>2. Ahead(stable, Shown \cup entries, next)
        BY <1>1, <3>1, <3>2 DEF ViewInv, WholeInv
      <4>3. Shown \subseteq KeysOf(n)
        BY <1>11, <3>2
      <4> QED
        BY <1>1, <1>2, <3>1, <4>1, <4>2, <4>3
    <3>3. CASE ~listing.more
      <4>1. stable' = listing.since /\ Shown' = entries
        BY <1>2, <1>7, <3>3
      <4>2. listing.since \subseteq KeysOf(n) /\ Ahead(listing.since, entries, next)
        BY <1>1, <3>1, <3>3 DEF ViewInv, WholeInv
      <4> QED
        BY <1>1, <1>2, <3>1, <4>1, <4>2
    <3> QED
      BY <3>2, <3>3
  <2>3. Ahead(stable, Shown, listNextToken)' <=> Ahead(stable', Shown', listNextToken')
    BY DEF Ahead
  <2> QED
    BY <2>1, <2>2, <2>3 DEF WholeInv
<1>16. DeletedStaysGone'
  BY <1>1, <1>2, <1>7 DEF ViewInv, PageInv, DeletedStaysGone
<1> QED
  BY <1>9, <1>10, <1>14, <1>15, <1>16 DEF ViewInv

LEMMA OnListNsChangePreserves ==
  ASSUME ViewInv, NEW n \in Namespaces, OnListNsChange(n)
  PROVE  ViewInv'
<1>1. /\ listNs' = n /\ listEntries' = <<>> /\ listNextToken' = NoToken /\ whole' = FALSE
      /\ UNCHANGED <<store, deleting, changes, stable, gone>>
      /\ listing' = IF listing = NoListing THEN listing ELSE [listing EXCEPT !.edited = TRUE]
  BY DEF OnListNsChange
<1>2. TypeOK
  BY DEF ViewInv
<1>3. /\ listing' \in Listing /\ listing'.pc = listing.pc /\ listing'.ns = listing.ns
      /\ listing'.token = listing.token /\ listing'.more = listing.more
      /\ listing'.page = listing.page /\ listing'.since = listing.since
      /\ listing # NoListing => listing'.edited
  <2>1. CASE listing = NoListing
    BY <1>1, <2>1 DEF Listing
  <2>2. CASE listing # NoListing
    <3>1. listing \in [pc : {"sent", "answered", "refreshing"}, ns : Namespaces,
                       token : Keys \cup {NoToken}, more : BOOLEAN, page : Page,
                       edited : BOOLEAN, since : SUBSET Keys]
      BY <1>2, <2>2 DEF TypeOK, Listing
    <3>2. listing' = [listing EXCEPT !.edited = TRUE]
      BY <1>1, <2>2
    <3> QED
      BY <3>1, <3>2 DEF Listing
  <2> QED
    BY <2>1, <2>2
<1>4. Shown' = {}
  BY <1>1 DEF Shown
<1>5. TypeOK'
  <2>1. <<>> \in Seq(Keys) /\ NoToken \in Keys \cup {NoToken}
    OBVIOUS
  <2>2. /\ store' \in SUBSET Keys /\ deleting' \in Deleting /\ changes' \in 0 .. MaxChanges
        /\ stable' \in SUBSET Keys /\ gone' \in SUBSET (Keys \ store')
    BY <1>1, <1>2 DEF TypeOK
  <2> QED
    BY <1>1, <1>3, <2>1, <2>2 DEF TypeOK
<1>6. RequestInv'
  <2>1. Awaited => listing # NoListing
    BY <1>2, ListingFields DEF Awaited
  <2> QED
    BY <1>1, <1>3, <1>4, <2>1 DEF ViewInv, RequestInv, Awaited
<1>7. PageInv'
  BY <1>1, <1>3 DEF ViewInv, PageInv
<1>8. WholeInv'
  <2>1. listing.pc = "answered" => listing # NoListing
    BY <1>2, ListingFields
  <2> QED
    BY <1>1, <1>3, <2>1 DEF ViewInv, WholeInv
<1>9. OneListShown' /\ DeletedStaysGone'
  BY <1>1, <1>4 DEF OneListShown, DeletedStaysGone
<1> QED
  BY <1>1, <1>5, <1>6, <1>7, <1>8, <1>9 DEF ViewInv

LEMMA DeleteArrivesPreserves ==
  ASSUME ViewInv, DeleteArrives
  PROVE  ViewInv'
<1> DEFINE k == deleting.key
<1>1. TypeOK /\ deleting \in Deleting /\ deleting.pc \in {"deleted", "absent"}
  BY DEF ViewInv, TypeOK, DeleteArrives
<1>2. deleting \in [pc : {"sent", "deleted", "absent", "refreshing"}, key : Keys]
  BY <1>1 DEF Deleting, NoDeleting
<1>3. deleting' \in Deleting /\ k \in Keys
  BY <1>2 DEF DeleteArrives, Deleting
<1>4. UNCHANGED <<store, listNs, listNextToken, listing, changes, whole>>
  BY DEF DeleteArrives
<1>5. CASE deleting.pc = "absent"
  <2>1. UNCHANGED <<store, view_vars, listing, history_vars>>
    BY <1>4, <1>5 DEF DeleteArrives, view_vars, history_vars
  <2> QED
    BY <1>1, <1>3, <1>4, <2>1, CardUntouched DEF TypeOK
<1>6. CASE deleting.pc # "absent"
  <2>1. /\ listEntries' = Without(listEntries, k)
        /\ stable' = stable \ {k}
        /\ gone' = IF listing.pc = "answered" THEN gone ELSE gone \cup ({k} \ store)
    BY <1>6 DEF DeleteArrives
  <2>2. /\ listEntries' \in Seq(Keys) /\ Shown' = Shown \ {k}
        /\ Ascending(listEntries) => Ascending(listEntries')
    <3>1. Shown' = Elements(listEntries')
      BY DEF Shown, Elements
    <3> QED
      BY <1>1, <2>1, <3>1, ShownElements, WithoutFilters DEF TypeOK
  <2>3. TypeOK' /\ IsFiniteSet(store)'
    BY <1>1, <1>3, <1>4, <2>1, <2>2 DEF ViewInv, TypeOK
  <2>4. RequestInv'
    BY <1>4, <2>2 DEF ViewInv, RequestInv, Awaited
  <2>5. PageInv'
    BY <1>4, <2>1 DEF ViewInv, PageInv
  <2>6. WholeInv'
    <3>1. \A seen, next : Ahead(stable, Shown \cup seen, next)
                            => Ahead(stable', Shown' \cup seen, next)
      BY <2>1, <2>2 DEF Ahead
    <3>2. Ahead(stable, Shown, listNextToken) => Ahead(stable', Shown', listNextToken)
      BY <2>1, <2>2 DEF Ahead
    <3>3. stable' \subseteq stable /\ Shown' \subseteq Shown
      BY <2>1, <2>2
    <3> QED
      BY <1>4, <3>1, <3>2, <3>3 DEF ViewInv, WholeInv, Ahead
  <2>7. OneListShown'
    <3>1. PICK m \in Namespaces :
            /\ Shown \cup ({listNextToken} \ {NoToken}) \subseteq KeysOf(m)
            /\ Ascending(listEntries)
            /\ listNextToken # NoToken => \A j \in Shown : Less(j, listNextToken)
      BY DEF ViewInv, OneListShown, Ascending
    <3> QED
      BY <1>4, <2>2, <3>1 DEF OneListShown, Ascending
  <2>8. DeletedStaysGone'
    BY <2>1, <2>2 DEF ViewInv, DeletedStaysGone
  <2> QED
    BY <2>3, <2>4, <2>5, <2>6, <2>7, <2>8 DEF ViewInv
<1> QED
  BY <1>5, <1>6

LEMMA StorePreserves ==
  ASSUME ViewInv, NEW S \in SUBSET Keys, IsFiniteSet(S), Store(S),
         UNCHANGED <<view_vars, whole>>, deleting' \in Deleting, changes' \in 0 .. MaxChanges
  PROVE  ViewInv'
<1>1. /\ store' = S /\ stable' = stable \cap S /\ gone' = gone \ S
      /\ listing' = [listing EXCEPT !.since = @ \cap S]
      /\ TypeOK
  BY DEF Store, ViewInv
<1>2. /\ listing' \in Listing /\ listing'.pc = listing.pc /\ listing'.ns = listing.ns
      /\ listing'.token = listing.token /\ listing'.more = listing.more
      /\ listing'.page = listing.page /\ listing'.edited = listing.edited
      /\ listing'.since = listing.since \cap S
  <2>1. CASE listing = NoListing
    BY <1>1, <2>1 DEF Listing, NoListing
  <2>2. CASE listing # NoListing
    <3>1. listing \in [pc : {"sent", "answered", "refreshing"}, ns : Namespaces,
                       token : Keys \cup {NoToken}, more : BOOLEAN, page : Page,
                       edited : BOOLEAN, since : SUBSET Keys]
      BY <1>1, <2>2 DEF TypeOK, Listing
    <3>2. listing.since \cap S \in SUBSET Keys
      BY <3>1
    <3> QED
      BY <1>1, <3>1, <3>2 DEF Listing
  <2> QED
    BY <2>1, <2>2
<1>3. /\ Shown' = Shown /\ listNs' = listNs /\ listNextToken' = listNextToken
      /\ listEntries' = listEntries /\ whole' = whole
  BY DEF Shown, view_vars
<1>4. TypeOK'
  BY <1>1, <1>2, <1>3 DEF TypeOK
<1>5. RequestInv' /\ PageInv'
  BY <1>1, <1>2, <1>3 DEF ViewInv, RequestInv, PageInv, Awaited
<1>6. WholeInv'
  BY <1>1, <1>2, <1>3 DEF ViewInv, WholeInv, Ahead
<1>7. OneListShown' /\ DeletedStaysGone'
  BY <1>1, <1>3 DEF ViewInv, OneListShown, DeletedStaysGone
<1> QED
  BY <1>1, <1>4, <1>5, <1>6, <1>7 DEF ViewInv

LEMMA DeleteServedPreserves ==
  ASSUME ViewInv, DeleteServed
  PROVE  ViewInv'
<1>1. TypeOK /\ deleting \in Deleting /\ deleting.pc = "sent" /\ IsFiniteSet(store)
  BY DEF ViewInv, TypeOK, DeleteServed
<1>2. deleting \in [pc : {"sent", "deleted", "absent", "refreshing"}, key : Keys]
  BY <1>1 DEF Deleting, NoDeleting
<1>3. deleting' \in Deleting
  BY <1>2 DEF DeleteServed, Deleting
<1>4. store \ {deleting.key} \in SUBSET Keys /\ IsFiniteSet(store \ {deleting.key})
  BY <1>1, FS_RemoveElement DEF TypeOK
<1>5. /\ Store(store \ {deleting.key}) /\ UNCHANGED <<view_vars, whole>>
      /\ changes' \in 0 .. MaxChanges
  BY <1>1 DEF DeleteServed, TypeOK
<1> QED
  BY <1>3, <1>4, <1>5, StorePreserves

LEMMA ChangePreserves ==
  ASSUME ViewInv, Change
  PROVE  ViewInv'
<1>1. TypeOK /\ IsFiniteSet(store)
  BY DEF ViewInv
<1>2. PICK k \in Keys : Store(IF k \in store THEN store \ {k} ELSE store \cup {k})
  BY DEF Change
<1> DEFINE S == IF k \in store THEN store \ {k} ELSE store \cup {k}
<1>3. S \in SUBSET Keys /\ IsFiniteSet(S)
  BY <1>1, FS_AddElement, FS_RemoveElement DEF TypeOK
<1>4. /\ UNCHANGED <<view_vars, whole>> /\ deleting' \in Deleting
      /\ changes' \in 0 .. MaxChanges
  BY <1>1, ViewAssumption DEF Change, TypeOK
<1> HIDE DEF S
<1>5. Store(S)
  BY <1>2 DEF S
<1> QED
  BY <1>3, <1>4, <1>5, StorePreserves

LEMMA DeletingPreserves ==
  ASSUME ViewInv, DeleteFails \/ DeleteEnds \/ \E k \in Keys : RunDelete(k)
  PROVE  ViewInv'
<1>1. UNCHANGED <<store, view_vars, listing, changes, history_vars>>
  BY DEF DeleteFails, DeleteEnds, RunDelete
<1>2. deleting' \in Deleting
  BY DEF DeleteFails, DeleteEnds, RunDelete, Deleting
<1> QED
  BY <1>1, <1>2, CardUntouched DEF ViewInv, TypeOK

LEMMA ViewInvInit == Init => ViewInv
<1> SUFFICES ASSUME Init PROVE ViewInv
  OBVIOUS
<1> USE DEF Init
<1>1. TypeOK /\ IsFiniteSet(store)
  <2>1. <<>> \in Seq(Keys) /\ NoToken \in Keys \cup {NoToken} /\ 0 \in 0 .. MaxChanges
    BY ViewAssumption
  <2> QED
    BY <2>1 DEF TypeOK, Listing, Deleting
<1>2. Shown = {} /\ listing.pc = "idle" /\ listing.since = {}
  BY DEF Shown, NoListing
<1>3. RequestInv /\ PageInv /\ WholeInv
  BY <1>2 DEF RequestInv, PageInv, WholeInv, Awaited
<1>4. OneListShown /\ DeletedStaysGone
  BY <1>2 DEF OneListShown, DeletedStaysGone
<1> QED
  BY <1>1, <1>3, <1>4 DEF ViewInv

LEMMA ViewInvStep == ViewInv /\ [Next]_vars => ViewInv'
<1> SUFFICES ASSUME ViewInv, [Next]_vars
             PROVE  ViewInv'
  OBVIOUS
<1>1. ASSUME NEW more \in BOOLEAN, RunList(more)
      PROVE  ViewInv'
  BY <1>1, RunListPreserves
<1>2. ASSUME NEW requested \in PageSizes, ListServed(requested)
      PROVE  ViewInv'
  BY <1>2, ListServedPreserves
<1>3. CASE ListFails \/ ListEnds
  BY <1>3, ListEndsPreserves
<1>4. CASE ListArrives
  BY <1>4, ListArrivesPreserves
<1>5. ASSUME NEW n \in Namespaces, OnListNsChange(n)
      PROVE  ViewInv'
  BY <1>5, OnListNsChangePreserves
<1>6. CASE DeleteFails \/ DeleteEnds \/ \E k \in Keys : RunDelete(k)
  BY <1>6, DeletingPreserves
<1>7. CASE DeleteServed
  BY <1>7, DeleteServedPreserves
<1>8. CASE DeleteArrives
  BY <1>8, DeleteArrivesPreserves
<1>9. CASE Change
  BY <1>9, ChangePreserves
<1>10. CASE UNCHANGED vars
  BY <1>10, CardUntouched DEF ViewInv, TypeOK, vars
<1> QED
  BY <1>1, <1>2, <1>3, <1>4, <1>5, <1>6, <1>7, <1>8, <1>9, <1>10 DEF Next

LEMMA ViewInvariant == Spec => []ViewInv
  BY ViewInvInit, ViewInvStep, PTL DEF Spec
-----------------------------------------------------------------------------
(* Theorems                                                                 *)

\* The variables of the card keep their types: what was seen deleted is not in
\* the store, and a list that has ended leaves nothing behind (runList).
THEOREM ViewTypeOK == Spec => []TypeOK
<1>1. ViewInv => TypeOK
  BY DEF ViewInv
<1> QED
  BY <1>1, ViewInvariant, PTL

\* However late an answer arrives, and whatever is edited, deleted or changed
\* elsewhere meanwhile, the card shows one namespace, in order, none twice.
THEOREM ViewOneListShown == Spec => []OneListShown
<1>1. ViewInv => OneListShown
  BY DEF ViewInv
<1> QED
  BY <1>1, ViewInvariant, PTL

\* A list that no edit disturbed is of the namespace in its field, and complete
\* when "Load More" is gone.
THEOREM ViewUndisturbedList == Spec => []UndisturbedList
<1>1. ViewInv => UndisturbedList
  BY DEF ViewInv, WholeInv, Ahead, UndisturbedList
<1> QED
  BY <1>1, ViewInvariant, PTL

\* What was deleted here does not come back, but by a put or with a page that
\* was read before the delete and arrived after it.
THEOREM ViewDeletedStaysGone == Spec => []DeletedStaysGone
<1>1. ViewInv => DeletedStaysGone
  BY DEF ViewInv
<1> QED
  BY <1>1, ViewInvariant, PTL
=============================================================================
