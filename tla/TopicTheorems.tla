--------------------------- MODULE TopicTheorems ---------------------------
(***************************************************************************)
(* Facts about the last record of a key, for the proofs about the topic.   *)
(* That a set of offsets which is not empty has a greatest one is not      *)
(* assumed and not proved by induction: HasLast is carried along by the    *)
(* invariants that need it, from the empty range on.                       *)
(***************************************************************************)
EXTENDS Topic, TLAPS

HasLast(log, lo, hi, k) ==
  LET S == OffsetsOf(log, lo, hi, k)
  IN  S = {} \/ \E i \in S : \A j \in S : j <= i

\* Two sequences hold the same records of k, in a range of each.
SameRecords(log, hi, log2, hi2, lo, k) ==
  /\ OffsetsOf(log2, lo, hi2, k) = OffsetsOf(log, lo, hi, k)
  /\ \A i \in OffsetsOf(log, lo, hi, k) : log2[i] = log[i]

\* The empty range has no record of any key: Init, and the start of a load.
LEMMA LastInEmpty ==
  ASSUME NEW log, NEW lo \in Nat, NEW hi \in Nat, hi < lo, NEW k
  PROVE  HasLast(log, lo, hi, k) /\ LastIn(log, lo, hi, k) = None
  BY DEF HasLast, LastIn, OffsetsOf

\* The last record of a key in a range is one of the records of the range:
\* every value a replay ends with was logged.
LEMMA LastInLogged ==
  ASSUME NEW log, NEW lo \in Nat, NEW hi \in Nat, NEW k \in Keys,
         HasLast(log, lo, hi, k)
  PROVE  /\ LastIn(log, lo, hi, k) \in Values \cup {None}
         /\ LastIn(log, lo, hi, k) # None =>
              \E i \in lo .. hi : log[i] = [key |-> k, value |-> LastIn(log, lo, hi, k)]
<1> DEFINE S == OffsetsOf(log, lo, hi, k)
<1>1. CASE S = {}
  BY <1>1 DEF LastIn
<1>2. CASE S # {}
  <2> DEFINE m == CHOOSE i \in S : \A j \in S : j <= i
  <2>1. m \in S
    BY <1>2 DEF HasLast
  <2>2. LastIn(log, lo, hi, k) = log[m].value
    BY <1>2 DEF LastIn
  <2>3. m \in lo .. hi /\ log[m] \in Record /\ log[m].key = k
    BY <2>1 DEF OffsetsOf
  <2>4. log[m] = [key |-> k, value |-> log[m].value] /\ log[m].value \in Values \cup {None}
    BY <2>3 DEF Record
  <2> QED
    BY <2>2, <2>3, <2>4
<1> QED
  BY <1>1, <1>2

\* One more offset with a record of k: it is the last write of k.
LEMMA LastInHit ==
  ASSUME NEW log, NEW lo \in Nat, NEW hi \in Nat, NEW k \in Keys,
         lo <= hi + 1, log[hi + 1] \in Record, log[hi + 1].key = k
  PROVE  /\ HasLast(log, lo, hi + 1, k)
         /\ LastIn(log, lo, hi + 1, k) = log[hi + 1].value
<1> DEFINE S == OffsetsOf(log, lo, hi + 1, k)
<1>1. hi + 1 \in S /\ \A j \in S : j <= hi + 1 /\ j \in Nat
  BY DEF OffsetsOf
<1>2. (CHOOSE i \in S : \A j \in S : j <= i) = hi + 1
  BY <1>1
<1> QED
  BY <1>1, <1>2 DEF HasLast, LastIn

\* The last write of a key depends only on the records of that key in the range:
\* slots beyond it, and slots in it that hold no record of k, do not matter.
LEMMA LastInSame ==
  ASSUME NEW log, NEW log2, NEW lo, NEW hi, NEW hi2, NEW k,
         SameRecords(log, hi, log2, hi2, lo, k), HasLast(log, lo, hi, k)
  PROVE  /\ HasLast(log2, lo, hi2, k)
         /\ LastIn(log2, lo, hi2, k) = LastIn(log, lo, hi, k)
<1> USE DEF SameRecords
<1> DEFINE S == OffsetsOf(log, lo, hi, k)
<1>1. HasLast(log2, lo, hi2, k)
  BY DEF HasLast
<1>2. CASE S = {}
  BY <1>1, <1>2 DEF LastIn
<1>3. CASE S # {}
  <2> DEFINE m == CHOOSE i \in S : \A j \in S : j <= i
  <2>1. m \in S
    BY <1>3 DEF HasLast
  <2>2. log2[m] = log[m]
    BY <2>1
  <2>3. LastIn(log, lo, hi, k) = log[m].value
    BY <1>3 DEF LastIn
  <2>4. LastIn(log2, lo, hi2, k) = log2[m].value
    BY <1>3 DEF LastIn
  <2> QED
    BY <1>1, <2>2, <2>3, <2>4
<1> QED
  BY <1>2, <1>3

\* One more offset without a record of k, perhaps with other records below it
\* in another sequence: the last write of k is the same.
LEMMA LastInMiss ==
  ASSUME NEW log, NEW log2, NEW lo \in Nat, NEW hi \in Nat, NEW k \in Keys,
         \A i \in lo .. hi : log2[i] = log[i],
         ~(log2[hi + 1] \in Record /\ log2[hi + 1].key = k),
         HasLast(log, lo, hi, k)
  PROVE  /\ HasLast(log2, lo, hi + 1, k)
         /\ LastIn(log2, lo, hi + 1, k) = LastIn(log, lo, hi, k)
<1>1. SameRecords(log, hi, log2, hi + 1, lo, k)
  BY DEF SameRecords, OffsetsOf
<1> QED
  BY <1>1, LastInSame

\* The broker appends a record: it is the last write of its key, and the last
\* writes of the other keys stay what they were.
LEMMA LastWriteAppend ==
  ASSUME NEW log \in Seq(Record), NEW r \in Record, NEW k \in Keys,
         HasLast(log, 1, Len(log), k)
  PROVE  /\ HasLast(Append(log, r), 1, Len(Append(log, r)), k)
         /\ LastWrite(Append(log, r), k) =
              IF r.key = k THEN r.value ELSE LastWrite(log, k)
<1> DEFINE n == Len(log)
<1> SUFFICES ASSUME NEW log2, log2 = Append(log, r)
             PROVE  /\ HasLast(log2, 1, Len(log2), k)
                    /\ LastIn(log2, 1, Len(log2), k) =
                         IF r.key = k THEN r.value ELSE LastIn(log, 1, n, k)
  BY DEF LastWrite
<1>1. /\ n \in Nat
      /\ Len(log2) = n + 1
      /\ log2[n + 1] = r
      /\ \A i \in 1 .. n : log2[i] = log[i]
  OBVIOUS
<1>2. HasLast(log, 1, n, k)
  OBVIOUS
<1> HIDE DEF n
<1>3. CASE r.key = k
  <2>1. HasLast(log2, 1, n + 1, k) /\ LastIn(log2, 1, n + 1, k) = r.value
    <3>1. 1 \in Nat /\ n \in Nat /\ 1 <= n + 1
      BY <1>1
    <3>2. log2[n + 1] \in Record /\ log2[n + 1].key = k /\ log2[n + 1].value = r.value
      BY <1>1, <1>3
    <3> QED
      BY <3>1, <3>2, LastInHit, ZenonT(30)
  <2> QED
    BY <1>1, <1>3, <2>1
<1>4. CASE r.key # k
  <2>1. HasLast(log2, 1, n + 1, k) /\ LastIn(log2, 1, n + 1, k) = LastIn(log, 1, n, k)
    <3>1. 1 \in Nat /\ n \in Nat
      BY <1>1
    <3>2. ~(log2[n + 1] \in Record /\ log2[n + 1].key = k)
      BY <1>1, <1>4
    <3> QED
      BY <1>1, <3>1, <3>2, <1>2, LastInMiss, ZenonT(30)
  <2> QED
    BY <1>1, <1>4, <2>1
<1> QED
  BY <1>3, <1>4
=============================================================================
