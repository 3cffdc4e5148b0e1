-------------------------- MODULE CollectorProofs ---------------------------
(* Proofs about the collector: its types, the property map on both of its    *)
(* forms, the EPCs it asks for, and the scale of the values it writes.       *)
EXTENDS Collector, CodecProofs, FiniteSetTheorems

-----------------------------------------------------------------------------
(* Numbers in ascending order.                                              *)

UpToMember(S, e) == {d \in S : d <= e}
Rank(S, e) == Cardinality(UpToMember(S, e))

LEMMA RankType ==
  ASSUME NEW S \in SUBSET Int, IsFiniteSet(S), NEW e \in S
  PROVE  Rank(S, e) \in 1 .. Cardinality(S)
<1> DEFINE T == UpToMember(S, e)
<1>1. T \in SUBSET S /\ e \in T
  BY DEF UpToMember
<1> HIDE DEF T
<1>2. IsFiniteSet(T) /\ Cardinality(T) <= Cardinality(S)
  BY <1>1, FS_Subset
<1>3. Cardinality(T) \in Nat /\ Cardinality(S) \in Nat
  BY <1>2, FS_CardinalityType
<1>4. Cardinality(T) # 0
  BY <1>1, <1>2, FS_EmptySet
<1>5. Cardinality(T) \in 1 .. Cardinality(S)
  BY <1>2, <1>3, <1>4
<1>6. QED
  BY <1>5 DEF Rank, T

LEMMA RankGrows ==
  ASSUME NEW S \in SUBSET Int, IsFiniteSet(S),
         NEW e \in S, NEW c \in S, e < c
  PROVE  Rank(S, e) # Rank(S, c)
<1> DEFINE A == UpToMember(S, e)
           B == UpToMember(S, c)
<1>1. e \in Int /\ c \in Int
  OBVIOUS
<1>2. \A d \in A : d \in B
  <2>1. TAKE d \in A
  <2>2. d \in S /\ d \in Int /\ d <= e
    BY DEF UpToMember
  <2>3. d <= c
    BY <1>1, <2>2
  <2>4. QED
    BY <2>2, <2>3 DEF UpToMember
<1>3. B \in SUBSET S /\ c \in B /\ c \notin A
  BY <1>1 DEF UpToMember
<1> HIDE DEF A, B
<1>4. IsFiniteSet(B)
  BY <1>3, FS_Subset
<1>5. A \in SUBSET B
  BY <1>2
<1>6. Cardinality(B) = Cardinality(A) => B = A
  BY <1>4, <1>5, FS_Subset
<1>7. Cardinality(A) # Cardinality(B)
  BY <1>3, <1>6
<1>8. QED
  BY <1>7 DEF A, B, Rank

\* Every place has a member of its own, and every member a place.
LEMMA SortedOf ==
  ASSUME NEW S \in SUBSET Int, IsFiniteSet(S)
  PROVE  /\ Cardinality(S) \in Nat
         /\ Sorted(S) \in [1 .. Cardinality(S) -> S]
         /\ \A e \in S : \E i \in 1 .. Cardinality(S) : Sorted(S)[i] = e
<1> DEFINE n == Cardinality(S)
           rank == [e \in S |-> Rank(S, e)]
           pick(i) == CHOOSE e \in S : Rank(S, e) = i
<1>1. n \in Nat
  BY FS_CardinalityType
<1>2. Sorted(S) = [i \in 1 .. n |-> pick(i)]
  BY DEF Sorted, Rank, UpToMember
<1>3. ASSUME NEW e \in S, NEW c \in S, Rank(S, e) = Rank(S, c)
      PROVE  e = c
  <2>1. e < c \/ c < e \/ e = c
    OBVIOUS
  <2>2. ~ (e < c) /\ ~ (c < e)
    BY <1>3, RankGrows
  <2>3. QED
    BY <2>1, <2>2
<1>4. \A e \in S : Rank(S, e) \in 1 .. n
  BY RankType
<1> HIDE DEF n
<1>5. rank \in Injection(S, 1 .. n)
  <2>1. rank \in [S -> 1 .. n]
    BY <1>4
  <2>2. \A e, c \in S : rank[e] = rank[c] => e = c
    BY <1>3
  <2> HIDE DEF rank
  <2>3. QED
    BY <2>1, <2>2 DEF Injection, IsInjective
<1>6. \A i \in 1 .. n : \E e \in S : rank[e] = i
  <2> HIDE DEF rank
  <2>1. IsFiniteSet(1 .. n) /\ Cardinality(1 .. n) = n
    BY <1>1, FS_Interval
  <2>2. Cardinality(S) = Cardinality(1 .. n)
    BY <2>1 DEF n
  <2>3. rank \in Surjection(S, 1 .. n)
    BY <1>5, <2>1, <2>2, FS_Injection
  <2>4. QED
    BY <2>3 DEF Surjection
<1>7. \A i \in 1 .. n : pick(i) \in S /\ Rank(S, pick(i)) = i
  BY <1>6
<1> HIDE DEF pick
<1>8. Sorted(S) \in [1 .. n -> S]
  BY <1>2, <1>7
<1>9. ASSUME NEW e \in S
      PROVE  \E i \in 1 .. n : Sorted(S)[i] = e
  <2>1. PICK i \in 1 .. n : i = Rank(S, e)
    BY <1>4
  <2>2. pick(i) = e
    BY <1>3, <1>7, <2>1
  <2>3. QED
    BY <1>2, <2>2
<1>10. QED
  BY <1>1, <1>8, <1>9 DEF n

-----------------------------------------------------------------------------
(* The property map.                                                        *)

LEMMA FunctionIsSeq ==
  ASSUME NEW n \in Nat, NEW S, NEW f \in [1 .. n -> S]
  PROVE  f \in Seq(S) /\ Len(f) = n
OBVIOUS

LEMMA Bits ==
  ASSUME NEW a0 \in {0, 1}, NEW a1 \in {0, 1}, NEW a2 \in {0, 1},
         NEW a3 \in {0, 1}, NEW a4 \in {0, 1}, NEW a5 \in {0, 1},
         NEW a6 \in {0, 1}, NEW a7 \in {0, 1}, NEW v,
         v = a0 + 2 * a1 + 4 * a2 + 8 * a3 + 16 * a4 + 32 * a5 + 64 * a6
               + 128 * a7
  PROVE  /\ Bit(v, 0) = a0 /\ Bit(v, 1) = a1 /\ Bit(v, 2) = a2
         /\ Bit(v, 3) = a3 /\ Bit(v, 4) = a4 /\ Bit(v, 5) = a5
         /\ Bit(v, 6) = a6 /\ Bit(v, 7) = a7
<1>1. (v \div 1) % 2 = a0
  OBVIOUS
<1>2. (v \div 2) % 2 = a1
  OBVIOUS
<1>3. (v \div 4) % 2 = a2
  OBVIOUS
<1>4. (v \div 8) % 2 = a3
  OBVIOUS
<1>5. (v \div 16) % 2 = a4
  OBVIOUS
<1>6. (v \div 32) % 2 = a5
  OBVIOUS
<1>7. (v \div 64) % 2 = a6
  OBVIOUS
<1>8. (v \div 128) % 2 = a7
  OBVIOUS
<1>9. Bit(v, 0) = a0
  <2>1. Masks[0 + 1] = 1
    BY DEF Masks
  <2>2. QED
    BY <1>1, <2>1, Zenon DEF Bit
<1>10. Bit(v, 1) = a1
  <2>1. Masks[1 + 1] = 2
    BY DEF Masks
  <2>2. QED
    BY <1>2, <2>1, Zenon DEF Bit
<1>11. Bit(v, 2) = a2
  <2>1. Masks[2 + 1] = 4
    BY DEF Masks
  <2>2. QED
    BY <1>3, <2>1, Zenon DEF Bit
<1>12. Bit(v, 3) = a3
  <2>1. Masks[3 + 1] = 8
    BY DEF Masks
  <2>2. QED
    BY <1>4, <2>1, Zenon DEF Bit
<1>13. Bit(v, 4) = a4
  <2>1. Masks[4 + 1] = 16
    BY DEF Masks
  <2>2. QED
    BY <1>5, <2>1, Zenon DEF Bit
<1>14. Bit(v, 5) = a5
  <2>1. Masks[5 + 1] = 32
    BY DEF Masks
  <2>2. QED
    BY <1>6, <2>1, Zenon DEF Bit
<1>15. Bit(v, 6) = a6
  <2>1. Masks[6 + 1] = 64
    BY DEF Masks
  <2>2. QED
    BY <1>7, <2>1, Zenon DEF Bit
<1>16. Bit(v, 7) = a7
  <2>1. Masks[7 + 1] = 128
    BY DEF Masks
  <2>2. QED
    BY <1>8, <2>1, Zenon DEF Bit
<1>17. QED
  BY <1>9, <1>10, <1>11, <1>12, <1>13, <1>14, <1>15, <1>16

\* Bit h - 8 of byte i (from 0) of the long form is that of the EPC 16 * h + i.
LEMMA MapBits ==
  ASSUME NEW E \in SUBSET (128 .. 255), Cardinality(E) \in Nat,
         Cardinality(E) > 15
  PROVE  /\ Len(MapData(E)) = 17 /\ MapData(E) # <<>>
         /\ MapData(E)[1] = Cardinality(E)
         /\ \A i \in 0 .. 15, b \in 0 .. 7 :
              Bit(MapData(E)[i + 2], b) = 1 <=> Listed(b, i) \in E
<1> DEFINE Has(i, h, weight) == IF 16 * h + i - 1 \in E THEN weight ELSE 0
           byte(i) == Has(i, 8, 1) + Has(i, 9, 2) + Has(i, 10, 4)
                        + Has(i, 11, 8) + Has(i, 12, 16) + Has(i, 13, 32)
                        + Has(i, 14, 64) + Has(i, 15, 128)
           bytes == [i \in 1 .. 16 |-> byte(i)]
           n == Cardinality(E)
           head == <<n>>
           m == head \o bytes
<1>1. MapData(E) = m
  <2>1. ~ (n <= 15)
    OBVIOUS
  <2>2. QED
    BY <2>1, Zenon DEF MapData
<1>2. ASSUME NEW i \in 1 .. 16
      PROVE  /\ byte(i) \in Int
             /\ \A b \in 0 .. 7 : Bit(byte(i), b) = Has(i, b + 8, 1)
  <2> DEFINE a(h) == Has(i, h, 1)
  <2>1. \A h \in Nat, k \in Nat : a(h) \in {0, 1} /\ Has(i, h, k) = k * a(h)
    OBVIOUS
  <2>2. byte(i) = a(8) + 2 * a(9) + 4 * a(10) + 8 * a(11) + 16 * a(12)
                    + 32 * a(13) + 64 * a(14) + 128 * a(15)
    OBVIOUS
  <2>3. byte(i) \in Int
    OBVIOUS
  <2> DEFINE v == byte(i)
  <2>4. v = a(8) + 2 * a(9) + 4 * a(10) + 8 * a(11) + 16 * a(12)
              + 32 * a(13) + 64 * a(14) + 128 * a(15)
    BY <2>2
  <2> HIDE DEF a, v
  <2>5. /\ Bit(v, 0) = a(8) /\ Bit(v, 1) = a(9) /\ Bit(v, 2) = a(10)
        /\ Bit(v, 3) = a(11) /\ Bit(v, 4) = a(12) /\ Bit(v, 5) = a(13)
        /\ Bit(v, 6) = a(14) /\ Bit(v, 7) = a(15)
    <3>1. /\ a(8) \in {0, 1} /\ a(9) \in {0, 1} /\ a(10) \in {0, 1}
          /\ a(11) \in {0, 1} /\ a(12) \in {0, 1} /\ a(13) \in {0, 1}
          /\ a(14) \in {0, 1} /\ a(15) \in {0, 1}
      BY <2>1
    <3>2. QED
      BY <2>4, <3>1, Bits
  <2>6. \A b \in 0 .. 7 : Bit(v, b) = a(b + 8)
    <3>1. TAKE b \in 0 .. 7
    <3>2. \/ b = 0 /\ b + 8 = 8
          \/ b = 1 /\ b + 8 = 9
          \/ b = 2 /\ b + 8 = 10
          \/ b = 3 /\ b + 8 = 11
          \/ b = 4 /\ b + 8 = 12
          \/ b = 5 /\ b + 8 = 13
          \/ b = 6 /\ b + 8 = 14
          \/ b = 7 /\ b + 8 = 15
      OBVIOUS
    <3>3. QED
      BY <2>5, <3>2
  <2>7. QED
    BY <2>3, <2>6 DEF a, v
<1> HIDE DEF byte
<1>3. head \in Seq(Int) /\ Len(head) = 1 /\ head[1] = n
  OBVIOUS
<1>4. bytes \in Seq(Int) /\ Len(bytes) = 16 /\ \A i \in 1 .. 16 : bytes[i] = byte(i)
  <2>1. bytes \in [1 .. 16 -> Int]
    BY <1>2
  <2>2. \A i \in 1 .. 16 : bytes[i] = byte(i)
    OBVIOUS
  <2>3. 16 \in Nat
    OBVIOUS
  <2> HIDE DEF bytes
  <2>4. bytes \in Seq(Int) /\ Len(bytes) = 16
    BY <2>1, <2>3, FunctionIsSeq
  <2>5. QED
    BY <2>2, <2>4
<1> HIDE DEF n, head, bytes
<1>5. /\ Len(m) = Len(head) + Len(bytes) /\ m \in Seq(Int)
      /\ \A i \in 1 .. Len(head) + Len(bytes) :
           m[i] = IF i <= Len(head) THEN head[i] ELSE bytes[i - Len(head)]
  <2>1. head \in Seq(Int) /\ bytes \in Seq(Int)
    BY <1>3, <1>4
  <2>2. QED
    BY <2>1, ConcatProperties
<1> HIDE DEF m
<1>6. Len(m) = 17 /\ m # <<>> /\ m[1] = n
  <2>1. Len(m) = 17
    BY <1>3, <1>4, <1>5
  <2>2. 1 \in 1 .. Len(head) + Len(bytes) /\ 1 <= Len(head)
    BY <1>3, <1>4
  <2>3. m[1] = n
    BY <1>3, <1>5, <2>2
  <2>4. m # <<>>
    BY <2>1
  <2>5. QED
    BY <2>1, <2>3, <2>4
<1>7. ASSUME NEW i \in 0 .. 15, NEW b \in 0 .. 7
      PROVE  Bit(m[i + 2], b) = 1 <=> Listed(b, i) \in E
  <2>1. PICK k \in 1 .. 16 : k = i + 1
    OBVIOUS
  <2>2. PICK j \in 1 .. 17 : j = i + 2
    OBVIOUS
  <2>3. ~ (j <= 1) /\ j - 1 = k
    BY <2>1, <2>2
  <2>4. m[j] = byte(k)
    <3>1. j \in 1 .. Len(head) + Len(bytes) /\ ~ (j <= Len(head))
          /\ j - Len(head) = k
      BY <1>3, <1>4, <2>3
    <3>2. m[j] = bytes[k]
      BY <1>5, <3>1
    <3>3. QED
      BY <1>4, <3>2
  <2>5. Bit(m[i + 2], b) = Has(k, b + 8, 1)
    BY <1>2, <2>2, <2>4
  <2>6. 16 * (b + 8) + k - 1 = Listed(b, i)
    BY <2>1 DEF Listed
  <2>7. QED
    BY <2>5, <2>6
<1>8. QED
  BY <1>1, <1>6, <1>7 DEF n

\* Both forms of the map are read as they were written (epc.go
\* DecodeGetPropertyMap).
THEOREM MapRead ==
  ASSUME NEW E \in SUBSET (128 .. 255)
  PROVE  DecodeGetPropertyMap(MapData(E)) = E
<1> DEFINE n == Cardinality(E)
           m == MapData(E)
<1>1. IsFiniteSet(E) /\ n \in Nat
  <2>1. E \in SUBSET Nat /\ 255 \in Nat /\ \A e \in E : e <= 255
    OBVIOUS
  <2>2. IsFiniteSet(E)
    BY <2>1, FS_BoundedSetOfNaturals
  <2>3. QED
    BY <2>2, FS_CardinalityType
<1>2. CASE n > 15
  <2>1. /\ Len(m) = 17 /\ m # <<>> /\ m[1] = n
        /\ \A i \in 0 .. 15, b \in 0 .. 7 :
             Bit(m[i + 2], b) = 1 <=> Listed(b, i) \in E
    BY <1>1, <1>2, MapBits
  <2>2. ~ ShortForm(m[1])
    BY <1>1, <1>2, <2>1 DEF ShortForm
  <2> HIDE DEF n, m
  <2> DEFINE on == {x \in (0 .. 7) \X (0 .. 15) : Bit(m[x[2] + 2], x[1]) = 1}
  <2>3. DecodeGetPropertyMap(m) = {Listed(x[1], x[2]) : x \in on}
    BY <2>1, <2>2 DEF DecodeGetPropertyMap
  <2>4. \A x \in on : Listed(x[1], x[2]) \in E
    BY <2>1
  <2>5. ASSUME NEW e \in E
        PROVE  \E x \in on : e = Listed(x[1], x[2])
    <3>1. e \in 128 .. 255
      OBVIOUS
    <3>2. PICK b \in 0 .. 7, i \in 0 .. 15 : e = (b + 8) * 16 + i
      <4>1. (e \div 16) - 8 \in 0 .. 7 /\ (e % 16) \in 0 .. 15
        BY <3>1
      <4>2. e = ((e \div 16) - 8 + 8) * 16 + (e % 16)
        BY <3>1
      <4>3. QED
        BY <4>1, <4>2
    <3>3. e = Listed(b, i)
      BY <3>2 DEF Listed
    <3>4. <<b, i>> \in on
      BY <2>1, <3>3
    <3>5. QED
      BY <3>3, <3>4
  <2>6. {Listed(x[1], x[2]) : x \in on} = E
    <3> HIDE DEF on
    <3>1. QED
      BY <2>4, <2>5
  <2>7. QED
    BY <2>3, <2>6 DEF m
<1>3. CASE n <= 15
  <2> DEFINE places == Sorted(E)
             head == <<n>>
  <2>1. m = head \o places
    BY <1>3 DEF MapData
  <2>2. /\ places \in [1 .. n -> E]
        /\ \A e \in E : \E i \in 1 .. n : places[i] = e
    BY <1>1, SortedOf
  <2>3. head \in Seq(Int) /\ Len(head) = 1 /\ head[1] = n
    BY <1>1
  <2> HIDE DEF n, places, head
  <2>4. places \in Seq(Int) /\ Len(places) = n
    <3>1. \A e \in E : e \in Int
      OBVIOUS
    <3>2. places \in [1 .. n -> Int]
      BY <2>2, <3>1
    <3>3. QED
      BY <1>1, <3>2, FunctionIsSeq
  <2> DEFINE c == head \o places
  <2>5. /\ Len(c) = Len(head) + Len(places)
        /\ \A i \in 1 .. Len(head) + Len(places) :
             c[i] = IF i <= Len(head) THEN head[i] ELSE places[i - Len(head)]
    <3>1. head \in Seq(Int) /\ places \in Seq(Int)
      BY <2>3, <2>4
    <3>2. QED
      BY <3>1, ConcatProperties
  <2>6. m = c
    BY <2>1
  <2> HIDE DEF c, m
  <2>7. Len(m) = n + 1 /\ m # <<>> /\ m[1] = n
    <3>1. Len(m) = n + 1
      BY <1>1, <2>3, <2>4, <2>5, <2>6
    <3>2. 1 \in 1 .. Len(head) + Len(places) /\ 1 <= Len(head)
      BY <1>1, <2>3, <2>4
    <3>3. m[1] = n
      BY <2>3, <2>5, <2>6, <3>2
    <3>4. m # <<>>
      BY <1>1, <3>1
    <3>5. QED
      BY <3>1, <3>3, <3>4
  <2>8. ASSUME NEW i \in 2 .. 1 + n
        PROVE  m[i] = places[i - 1]
    <3>1. i \in 1 .. Len(head) + Len(places) /\ ~ (i <= Len(head))
          /\ i - Len(head) = i - 1
      BY <1>1, <2>3, <2>4
    <3>2. QED
      BY <2>5, <2>6, <3>1
  <2>9. DecodeGetPropertyMap(m) = {m[i] : i \in 2 .. 1 + n}
    BY <1>1, <1>3, <2>7 DEF DecodeGetPropertyMap, ShortForm
  <2>10. \A i \in 2 .. 1 + n : m[i] \in E
    <3>1. TAKE i \in 2 .. 1 + n
    <3>2. i - 1 \in 1 .. n
      BY <1>1
    <3>3. QED
      BY <2>2, <2>8, <3>2
  <2>11. ASSUME NEW e \in E
         PROVE  \E i \in 2 .. 1 + n : e = m[i]
    <3>1. PICK i \in 1 .. n : places[i] = e
      BY <2>2
    <3>2. i + 1 \in 2 .. 1 + n /\ i + 1 - 1 = i
      BY <1>1
    <3>3. m[i + 1] = e
      BY <2>8, <3>1, <3>2
    <3>4. QED
      BY <3>2, <3>3
  <2>12. QED
    BY <2>9, <2>10, <2>11 DEF m
<1>4. QED
  BY <1>1, <1>2, <1>3

-----------------------------------------------------------------------------
(* The batches, and the frames a meter answers them with.                   *)

LEMMA MemberOf ==
  ASSUME NEW S, NEW s \in Seq(S)
  PROVE  /\ ToSet(s) \subseteq S
         /\ \A i \in 1 .. Len(s) : s[i] \in ToSet(s)
         /\ \A e \in ToSet(s) : \E i \in 1 .. Len(s) : e = s[i]
<1>1. DOMAIN s = 1 .. Len(s)
  BY LenProperties
<1>2. \A i \in 1 .. Len(s) : s[i] \in S
  BY ElementOfSeq
<1>3. QED
  BY <1>1, <1>2 DEF ToSet

LEMMA Batches ==
  ASSUME NEW g \in Groups
  PROVE  /\ Batch[g] \in Seq(Epcs) /\ Len(Batch[g]) <= 255
         /\ ToSet(Batch[g]) \subseteq Epcs /\ Epcs \subseteq 128 .. 255
<1>1. Batch[g] \in {Instant, Cumulative, Scheduled}
  BY DEF Batch, Groups
<1>2. Batch[g] \in Seq(Epcs) /\ Len(Batch[g]) <= 255
  BY <1>1, ListsAssumption
<1>3. ToSet(Batch[g]) \subseteq Epcs
  BY <1>2, MemberOf
<1>4. QED
  BY <1>2, <1>3, EpcsAssumption

LEMMA DataIsBytes ==
  ASSUME NEW e \in Byte
  PROVE  Data(e) \in Seq(Byte) /\ Len(Data(e)) <= 255
<1> DEFINE n == IF e \in ToSet(Scheduled) THEN 11
                ELSE IF e \in Energy \cup ToSet(Instant) THEN 4 ELSE 1
           d == [i \in 1 .. n |-> e]
<1>1. n \in Nat /\ n <= 255
  OBVIOUS
<1>2. Data(e) = d
  BY DEF Data
<1> HIDE DEF n
<1>3. d \in [1 .. n -> Byte]
  OBVIOUS
<1> HIDE DEF d
<1>4. d \in Seq(Byte) /\ Len(d) = n
  BY <1>1, <1>3, FunctionIsSeq
<1>5. QED
  BY <1>1, <1>2, <1>4

LEMMA FrameOf ==
  ASSUME group \in Groups, NEW part, NEW empty
  PROVE  /\ Frame(part, empty) \in Seq(Properties)
         /\ Len(Frame(part, empty)) <= 255 /\ Short(Frame(part, empty))
         /\ \A i \in 1 .. Len(Frame(part, empty)) :
              /\ Frame(part, empty)[i].epc \in part
              /\ Frame(part, empty)[i].edt \in
                   {<<>>, Data(Frame(part, empty)[i].epc)}
<1> DEFINE b == Batch[group]
           S == {i \in DOMAIN b : b[i] \in part}
           places == Sorted(S)
           n == Cardinality(S)
           prop(i) == LET e == b[places[i]]
                      IN [epc |-> e, edt |-> IF e \in empty THEN <<>> ELSE Data(e)]
           F == [i \in 1 .. n |-> prop(i)]
<1>1. /\ b \in Seq(Epcs) /\ Len(b) \in Nat /\ Len(b) <= 255
      /\ DOMAIN b = 1 .. Len(b) /\ Epcs \subseteq Byte
  <2>1. b \in Seq(Epcs) /\ Len(b) <= 255 /\ Epcs \subseteq 128 .. 255
    BY Batches
  <2>2. Epcs \subseteq Byte
    BY <2>1 DEF Byte
  <2>3. QED
    BY <2>1, <2>2, LenProperties
<1>2. /\ S \in SUBSET Int /\ IsFiniteSet(S) /\ n \in Nat /\ n <= 255
  <2> HIDE DEF b
  <2>1. S \in SUBSET (1 .. Len(b))
    BY <1>1
  <2>2. IsFiniteSet(1 .. Len(b)) /\ Cardinality(1 .. Len(b)) <= 255
    <3>1. 1 \in Int /\ Len(b) \in Int
      BY <1>1
    <3>2. IsFiniteSet(1 .. Len(b)) /\ Cardinality(1 .. Len(b)) =
            IF 1 > Len(b) THEN 0 ELSE Len(b) - 1 + 1
      BY <3>1, FS_Interval
    <3>3. QED
      BY <1>1, <3>2
  <2> HIDE DEF S
  <2>3. IsFiniteSet(S) /\ n <= Cardinality(1 .. Len(b))
    BY <2>1, <2>2, FS_Subset
  <2>4. n \in Nat /\ Cardinality(1 .. Len(b)) \in Nat
    BY <2>2, <2>3, FS_CardinalityType
  <2>5. S \in SUBSET Int
    BY <2>1
  <2>6. QED
    BY <2>2, <2>3, <2>4, <2>5
<1>3. places \in [1 .. n -> S] /\ DOMAIN places = 1 .. n
  <2> HIDE DEF S
  <2>1. QED
    BY <1>2, SortedOf
<1>4. Frame(part, empty) = F
  BY <1>3 DEF Frame
<1> HIDE DEF n, places
<1>5. \A i \in 1 .. n : b[places[i]] \in part /\ b[places[i]] \in Byte
  <2>1. TAKE i \in 1 .. n
  <2>2. places[i] \in S
    BY <1>3
  <2>3. places[i] \in 1 .. Len(b) /\ b[places[i]] \in part
    BY <1>1, <2>2
  <2>4. b[places[i]] \in Epcs
    BY <1>1, <2>3, ElementOfSeq
  <2>5. QED
    BY <1>1, <2>3, <2>4
<1> HIDE DEF S, b
<1>6. ASSUME NEW i \in 1 .. n
      PROVE  /\ prop(i) \in Properties /\ Len(prop(i).edt) <= 255
             /\ prop(i).epc \in part /\ prop(i).edt \in {<<>>, Data(prop(i).epc)}
  <2> DEFINE e == b[places[i]]
             edt == IF e \in empty THEN <<>> ELSE Data(e)
  <2>1. e \in Byte /\ e \in part
    BY <1>5
  <2> HIDE DEF e
  <2>2. Data(e) \in Seq(Byte) /\ Len(Data(e)) <= 255
    BY <2>1, DataIsBytes
  <2>3. edt \in Seq(Byte) /\ Len(edt) <= 255 /\ edt \in {<<>>, Data(e)}
    BY <2>2
  <2>4. prop(i) = [epc |-> e, edt |-> edt]
    BY DEF e
  <2> HIDE DEF edt, prop
  <2>5. QED
    BY <2>1, <2>3, <2>4 DEF Properties
<1> HIDE DEF prop
<1>7. F \in [1 .. n -> Properties] /\ \A i \in 1 .. n : F[i] = prop(i)
  BY <1>6
<1> HIDE DEF F
<1>8. F \in Seq(Properties) /\ Len(F) = n /\ DOMAIN F = 1 .. n
  BY <1>2, <1>7, FunctionIsSeq
<1>9. Short(F)
  BY <1>6, <1>7, <1>8 DEF Short
<1>10. QED
  BY <1>2, <1>4, <1>6, <1>7, <1>8, <1>9

-----------------------------------------------------------------------------
(* The inductive invariant.                                                 *)

\* A frame that was decoded is a list of properties.
AnswerInv == answer \in Seq(Properties)

\* What is left to ask for is of the batch, and nothing is dropped without an
\* empty answer.
ListInv ==
  /\ ToSet(todo) \subseteq ToSet(Batch[group])
  /\ unsupported \subseteq empties
  /\ poll = "build" =>
       (ToSet(Batch[group]) \cap meter.epcs) \ empties \subseteq
         asked \cup ToSet(todo)

\* Until the probe was answered, everything has its initial value, and what was
\* written has the initial scale.
UnreadInv ==
  probe # "done" =>
    /\ coeff = 0 /\ unitByte = 0 /\ scale = <<0, 0>> /\ ~complete
    /\ output.epc \in Energy => output.scale = <<1, 0>>

\* Once it was answered in full, coefficient and unit are the meter's, and a
\* batch that began after that has read them before it writes.
ReadInv ==
  /\ complete => <<coeff, unitByte>> = meter.scale
  /\ complete => scale \in {<<0, 0>>, meter.scale}
  /\ informed => complete
  /\ poll = "emit" /\ group # "instant" /\ informed => scale = meter.scale

CInv ==
  /\ TypeOK /\ MapAsAdvertised /\ ScaleIsWhole
  /\ AnswerInv /\ ListInv /\ UnreadInv /\ ReadInv

-----------------------------------------------------------------------------
(* What the steps read and leave alone.                                     *)

LEMMA StepCases ==
  ASSUME [Next]_vars
  PROVE  \/ ProbeTry \/ ProbeFails \/ ProbeWaits \/ ProbeAnswered
         \/ \E g \in Groups : StartBatch(g)
         \/ Ask \/ Built \/ GetFails \/ GetAnswers \/ ReadScale \/ Emit
         \/ BatchEnds \/ Stop \/ Cancel
         \/ UNCHANGED vars
BY DEF Next, Probe, InBatch, BatchStep

\* The steps that only go on.
Quiet ==
  /\ UNCHANGED <<meter, coeff, unitByte, epcMap, haveOneShot, complete, plan,
                 todo, asked, group, informed, batches, answer, scale,
                 unsupported, output, empties>>
  /\ \/ probe' = probe
     \/ probe # "done" /\ probe' \in {"try", "get", "wait", "ended"}
  /\ \/ poll' = poll
     \/ poll' \in {"select", "get", "ended"} /\ answer = <<>>
  /\ cancelled' = cancelled \/ cancelled' = TRUE

LEMMA QuietSteps ==
  ASSUME TypeOK,
         \/ ProbeTry \/ ProbeFails \/ ProbeWaits \/ Built \/ GetFails
         \/ BatchEnds \/ Stop \/ Cancel \/ UNCHANGED vars
  PROVE  Quiet
<1> USE DEF Quiet, batchVars
<1>1. CASE ProbeTry
  BY <1>1 DEF ProbeTry, pollVars
<1>2. CASE ProbeFails
  BY <1>2 DEF ProbeFails, pollVars
<1>3. CASE ProbeWaits
  BY <1>3 DEF ProbeWaits, AfterPause, pollVars
<1>4. CASE Built
  BY <1>4 DEF Built, probeVars, TypeOK
<1>5. CASE GetFails
  BY <1>5 DEF GetFails, probeVars, TypeOK
<1>6. CASE BatchEnds
  BY <1>6 DEF BatchEnds, probeVars
<1>7. CASE Stop
  BY <1>7 DEF Stop, probeVars, TypeOK
<1>8. CASE Cancel
  BY <1>8 DEF Cancel, probeVars, pollVars
<1>9. CASE UNCHANGED vars
  BY <1>9 DEF vars, probeVars, pollVars
<1>10. QED
  BY <1>1, <1>2, <1>3, <1>4, <1>5, <1>6, <1>7, <1>8, <1>9

\* The invariant is about variables that these steps leave alone.
LEMMA QuietKeeps ==
  ASSUME CInv, Quiet
  PROVE  CInv'
<1> USE DEF Quiet
<1>1. TypeOK'
  BY DEF CInv, TypeOK
<1>2. MapAsAdvertised' /\ ScaleIsWhole'
  BY DEF CInv, MapAsAdvertised, ScaleIsWhole, MeterScale
<1>3. AnswerInv' /\ ListInv'
  BY DEF CInv, AnswerInv, ListInv
<1>4. UnreadInv' /\ ReadInv'
  BY DEF CInv, UnreadInv, ReadInv
<1>5. QED
  BY <1>1, <1>2, <1>3, <1>4 DEF CInv

\* The meter's scale is one of the scales.
LEMMA MeterScaleType ==
  ASSUME TypeOK
  PROVE  /\ meter.epcs \subseteq Epcs /\ meter.scale \in Scales
         /\ meter.scale = <<meter.scale[1], meter.scale[2]>>
         /\ meter.scale[1] \in Coefficients /\ meter.scale[2] \in Units
         /\ meter.epcs \cup Others \subseteq 128 .. 255
<1>1. meter.epcs \subseteq Epcs /\ meter.scale \in MeterScales
  BY DEF TypeOK
<1>2. meter.scale \in Nat \X Byte
  BY <1>1, ScaleAssumption
<1>3. meter.scale[1] \in Coefficients
  BY <1>1 DEF Coefficients
<1>4. meter.scale[2] \in Units
  BY <1>1 DEF Units
<1>5. meter.scale = <<meter.scale[1], meter.scale[2]>>
  BY <1>2
<1>6. meter.scale \in Scales
  BY <1>3, <1>4, <1>5 DEF Scales
<1>7. meter.epcs \cup Others \subseteq 128 .. 255
  BY <1>1, EpcsAssumption
<1>8. QED
  BY <1>1, <1>3, <1>4, <1>5, <1>6, <1>7

\* What the probe stores is read back from the bytes of the map.
LEMMA StoredMapIs ==
  ASSUME TypeOK, NEW has
  PROVE  StoredMap(has) \in {epcMap, meter.epcs \cup Others}
<1>1. meter.epcs \cup Others \in SUBSET (128 .. 255)
  BY MeterScaleType
<1>2. DecodeGetPropertyMap(MapData(meter.epcs \cup Others)) = meter.epcs \cup Others
  BY <1>1, MapRead
<1>3. QED
  BY <1>2, Zenon DEF StoredMap

LEMMA AnsweredKeeps ==
  ASSUME CInv, ProbeAnswered
  PROVE  CInv'
<1>1. TypeOK /\ MapAsAdvertised /\ UnreadInv /\ ScaleIsWhole /\ ReadInv
  BY DEF CInv
<1>2. /\ UNCHANGED <<meter, pollVars, cancelled>>
      /\ probe = "get" /\ probe' = "done" /\ haveOneShot' = TRUE
  BY DEF ProbeAnswered
<1>3. PICK has \in SUBSET {"9F", "D3", "E1"} :
        /\ epcMap' = StoredMap(has)
        /\ coeff' = StoredCoeff(has) /\ unitByte' = StoredUnit(has)
        /\ complete' = ({"D3", "E1"} \subseteq has)
  BY DEF ProbeAnswered
<1>4. epcMap' \in {epcMap, meter.epcs \cup Others}
  BY <1>1, <1>3, StoredMapIs
<1>5. coeff' \in Coefficients /\ unitByte' \in Units
  BY <1>1, <1>3, MeterScaleType DEF TypeOK, StoredCoeff, StoredUnit
<1>6. complete' => <<coeff', unitByte'>> = meter.scale
  BY <1>1, <1>3, MeterScaleType DEF StoredCoeff, StoredUnit
<1> USE DEF pollVars, batchVars
<1>7. TypeOK'
  <2>1. epcMap' = NoMap \/ epcMap' \subseteq Byte
    <3>1. meter.epcs \cup Others \subseteq 128 .. 255
      BY <1>1, MeterScaleType
    <3>2. meter.epcs \cup Others \subseteq Byte
      BY <3>1 DEF Byte
    <3>3. epcMap = NoMap \/ epcMap \subseteq Byte
      BY <1>1 DEF TypeOK
    <3>4. QED
      BY <1>4, <3>2, <3>3
  <2>2. complete' \in BOOLEAN
    BY <1>3
  <2>3. QED
    BY <1>1, <1>2, <1>5, <2>1, <2>2 DEF TypeOK
<1>8. MapAsAdvertised'
  BY <1>1, <1>2, <1>4 DEF MapAsAdvertised
<1>9. ScaleIsWhole'
  BY <1>1, <1>2 DEF ScaleIsWhole, UnreadInv, MeterScale
<1>10. AnswerInv' /\ ListInv'
  BY <1>2 DEF CInv, AnswerInv, ListInv
<1>11. UnreadInv' /\ ReadInv'
  BY <1>1, <1>2, <1>6 DEF UnreadInv, ReadInv
<1>12. QED
  BY <1>7, <1>8, <1>9, <1>10, <1>11 DEF CInv

-----------------------------------------------------------------------------
(* The poll's steps.                                                        *)

LEMMA StartBatchKeeps ==
  ASSUME CInv, NEW g \in Groups, StartBatch(g)
  PROVE  CInv'
<1>1. TypeOK /\ ListInv /\ UnreadInv /\ ReadInv
  BY DEF CInv
<1>2. /\ UNCHANGED <<meter, probeVars, answer, scale, unsupported, output,
                     empties, cancelled>>
      /\ poll = "select" /\ poll' = "build"
      /\ batches < MaxBatches /\ batches' = batches + 1
      /\ group' = g /\ todo' = Batch[g] /\ asked' = {} /\ informed' = complete
  BY DEF StartBatch, FreshList
<1>3. answer = <<>>
  BY <1>1, <1>2 DEF TypeOK
<1> USE DEF probeVars
<1>4. TypeOK'
  <2>1. plan' \in Seq(Groups)
    <3>1. plan \in Seq(Groups)
      BY <1>1 DEF TypeOK
    <3>2. plan' = plan \/ (plan # <<>> /\ plan' = Tail(plan))
      BY DEF StartBatch
    <3>3. plan # <<>> => Tail(plan) \in Seq(Groups)
      BY <3>1, HeadTailProperties
    <3>4. QED
      BY <3>1, <3>2, <3>3
  <2>2. todo' \in Seq(Epcs)
    BY <1>2, Batches
  <2>3. batches' \in 0 .. MaxBatches
    BY <1>1, <1>2, BatchesAssumption DEF TypeOK
  <2>4. {answer[i].epc : i \in DOMAIN answer}' \subseteq asked'
    BY <1>2, <1>3
  <2>5. QED
    BY <1>1, <1>2, <1>3, <2>1, <2>2, <2>3, <2>4 DEF TypeOK
<1>5. MapAsAdvertised' /\ ScaleIsWhole'
  BY <1>2 DEF CInv, MapAsAdvertised, ScaleIsWhole, MeterScale
<1>6. AnswerInv' /\ ListInv'
  BY <1>2 DEF CInv, AnswerInv, ListInv
<1>7. UnreadInv' /\ ReadInv'
  BY <1>1, <1>2 DEF UnreadInv, ReadInv
<1>8. QED
  BY <1>4, <1>5, <1>6, <1>7 DEF CInv

LEMMA HeadAndTail ==
  ASSUME NEW S, NEW s \in Seq(S), s # <<>>
  PROVE  /\ Tail(s) \in Seq(S) /\ Head(s) = s[1] /\ 1 \in DOMAIN s
         /\ Head(s) \in ToSet(s) /\ ToSet(s) \subseteq {Head(s)} \cup ToSet(Tail(s))
         /\ \A i \in DOMAIN Tail(s) : i + 1 \in DOMAIN s /\ Tail(s)[i] = s[i + 1]
         /\ ToSet(Tail(s)) \subseteq ToSet(s)
<1>1. /\ Tail(s) \in Seq(S) /\ Len(Tail(s)) = Len(s) - 1
      /\ \A i \in 1 .. Len(Tail(s)) : Tail(s)[i] = s[i + 1]
  BY HeadTailProperties
<1>2. Len(s) \in Nat \ {0} /\ DOMAIN s = 1 .. Len(s)
  BY EmptySeq, LenProperties
<1>3. DOMAIN Tail(s) = 1 .. Len(Tail(s))
  BY <1>1, LenProperties
<1>4. Head(s) = s[1]
  OBVIOUS
<1>5. 1 \in DOMAIN s
  BY <1>2
<1>6. ASSUME NEW i \in DOMAIN Tail(s)
      PROVE  i + 1 \in DOMAIN s /\ Tail(s)[i] = s[i + 1]
  BY <1>1, <1>2, <1>3
<1>7. Head(s) \in ToSet(s)
  BY <1>4, <1>5 DEF ToSet
<1>8. \A e \in ToSet(Tail(s)) : e \in ToSet(s)
  BY <1>6 DEF ToSet
<1>9. ASSUME NEW e \in ToSet(s)
      PROVE  e = Head(s) \/ e \in ToSet(Tail(s))
  <2>1. PICK i \in DOMAIN s : e = s[i]
    BY DEF ToSet
  <2>2. CASE i = 1
    BY <1>4, <2>1, <2>2
  <2>3. CASE i # 1
    <3>1. PICK j \in DOMAIN Tail(s) : j + 1 = i
      <4>1. i - 1 \in DOMAIN Tail(s) /\ i - 1 + 1 = i
        BY <1>1, <1>2, <1>3, <2>3
      <4>2. QED
        BY <4>1
    <3>2. e = Tail(s)[j]
      BY <1>6, <2>1, <3>1
    <3>3. QED
      BY <3>2 DEF ToSet
  <2>4. QED
    BY <2>2, <2>3
<1>10. QED
  BY <1>1, <1>4, <1>5, <1>6, <1>7, <1>8, <1>9

LEMMA AskKeeps ==
  ASSUME CInv, Ask
  PROVE  CInv'
<1> DEFINE e == Head(todo)
<1>1. TypeOK /\ ListInv /\ MapAsAdvertised
  BY DEF CInv
<1>2. /\ UNCHANGED <<meter, probeVars, poll, plan, group, informed, batches,
                     answer, scale, unsupported, output, empties, cancelled>>
      /\ poll = "build" /\ todo # <<>> /\ todo' = Tail(todo)
      /\ asked' = IF Supports(e) THEN asked \cup {e} ELSE asked
  BY DEF Ask
<1>3. answer = <<>>
  BY <1>1, <1>2 DEF TypeOK
<1>4. /\ Tail(todo) \in Seq(Epcs) /\ e \in ToSet(todo)
      /\ ToSet(todo) \subseteq {e} \cup ToSet(Tail(todo))
      /\ ToSet(Tail(todo)) \subseteq ToSet(todo)
  BY <1>1, <1>2, HeadAndTail DEF TypeOK
<1>5. e \in ToSet(Batch[group])
  BY <1>1, <1>4 DEF ListInv
<1> HIDE DEF e
<1> USE DEF probeVars
<1>6. TypeOK'
  <2>1. asked' \subseteq ToSet(Batch[group])'
    BY <1>1, <1>2, <1>5 DEF TypeOK
  <2>2. {answer[i].epc : i \in DOMAIN answer}' \subseteq asked'
    BY <1>2, <1>3
  <2>3. QED
    BY <1>1, <1>2, <1>3, <1>4, <2>1, <2>2 DEF TypeOK
<1>7. ListInv'
  <2>1. e \in meter.epcs \ empties => Supports(e)
    BY <1>1 DEF ListInv, MapAsAdvertised, Supports
  <2>2. (ToSet(Batch[group]) \cap meter.epcs) \ empties \subseteq
          asked \cup ToSet(todo)
    BY <1>1, <1>2 DEF ListInv
  <2>3. (ToSet(Batch[group]) \cap meter.epcs) \ empties \subseteq
          asked' \cup ToSet(Tail(todo))
    BY <1>2, <1>4, <2>1, <2>2
  <2>4. QED
    BY <1>1, <1>2, <1>4, <2>3 DEF ListInv
<1>8. MapAsAdvertised' /\ ScaleIsWhole'
  BY <1>2 DEF CInv, MapAsAdvertised, ScaleIsWhole, MeterScale
<1>9. AnswerInv' /\ UnreadInv' /\ ReadInv'
  BY <1>2 DEF CInv, AnswerInv, UnreadInv, ReadInv
<1>10. QED
  BY <1>6, <1>7, <1>8, <1>9 DEF CInv

LEMMA GetAnswersKeeps ==
  ASSUME CInv, GetAnswers
  PROVE  CInv'
<1>1. TypeOK /\ ListInv /\ UnreadInv /\ ReadInv
  BY DEF CInv
<1>2. /\ UNCHANGED <<meter, probeVars, batchVars, scale, unsupported, output,
                     empties, cancelled>>
      /\ poll = "get"
      /\ poll' = IF group = "instant" THEN "emit" ELSE "snapshot"
  BY DEF GetAnswers
<1>3. PICK part \in SUBSET asked :
        \E empty \in SUBSET part :
          answer' = Decode(Encode(Frame(part, empty))).props
  BY DEF GetAnswers
<1>4. PICK empty \in SUBSET part :
        answer' = Decode(Encode(Frame(part, empty))).props
  BY <1>3
<1> DEFINE F == Frame(part, empty)
<1>5. /\ F \in Seq(Properties) /\ Len(F) <= 255 /\ Short(F)
      /\ \A i \in 1 .. Len(F) :
           F[i].epc \in part /\ F[i].edt \in {<<>>, Data(F[i].epc)}
  <2>1. group \in Groups
    BY <1>1 DEF TypeOK
  <2>2. QED
    BY <2>1, FrameOf
<1>6. answer' = F
  <2> HIDE DEF F
  <2>1. QED
    BY <1>4, <1>5, DecodesEncoded DEF F
<1> HIDE DEF F
<1>7. AnswerInv'
  BY <1>5, <1>6 DEF AnswerInv
<1>8. DOMAIN answer' = 1 .. Len(answer')
  BY <1>5, <1>6, LenProperties
<1> USE DEF probeVars, batchVars
<1>9. TypeOK'
  <2>1. {answer[i].epc : i \in DOMAIN answer}' \subseteq asked'
    BY <1>2, <1>5, <1>6, <1>8
  <2>2. (\A i \in DOMAIN answer : answer[i].edt \in {<<>>, Data(answer[i].epc)})'
    BY <1>5, <1>6, <1>8
  <2>3. QED
    BY <1>1, <1>2, <2>1, <2>2 DEF TypeOK
<1>10. MapAsAdvertised' /\ ScaleIsWhole'
  BY <1>2 DEF CInv, MapAsAdvertised, ScaleIsWhole, MeterScale
<1>11. ListInv' /\ UnreadInv' /\ ReadInv'
  BY <1>1, <1>2 DEF ListInv, UnreadInv, ReadInv
<1>12. QED
  BY <1>7, <1>9, <1>10, <1>11 DEF CInv

LEMMA ReadScaleKeeps ==
  ASSUME CInv, ReadScale
  PROVE  CInv'
<1>1. TypeOK /\ UnreadInv /\ ReadInv
  BY DEF CInv
<1>2. /\ UNCHANGED <<meter, probeVars, batchVars, answer, unsupported, output,
                     empties, cancelled>>
      /\ poll' = "emit" /\ scale' = <<coeff, unitByte>>
  BY DEF ReadScale, Snapshot
<1> USE DEF probeVars, batchVars
<1>3. TypeOK'
  <2>1. scale' \in Scales
    BY <1>1, <1>2 DEF TypeOK, Scales
  <2>2. QED
    BY <1>1, <1>2, <2>1 DEF TypeOK
<1>4. MapAsAdvertised' /\ ScaleIsWhole'
  BY <1>2 DEF CInv, MapAsAdvertised, ScaleIsWhole, MeterScale
<1>5. AnswerInv'
  BY <1>2 DEF CInv, AnswerInv
<1>6. ListInv'
  BY <1>2 DEF CInv, ListInv
<1>7. UnreadInv' /\ ReadInv'
  BY <1>1, <1>2 DEF UnreadInv, ReadInv
<1>8. QED
  BY <1>3, <1>4, <1>5, <1>6, <1>7 DEF CInv

\* The initial scale is that of 1 kWh, and a value in kWh is of no instant batch.
LEMMA InitialScale ==
  /\ KnownUnit(0) /\ Multiplier(0, 0) = <<1, 0>>
  /\ Energy \subseteq Epcs /\ Energy \cap ToSet(Instant) = {}
  /\ 0 \notin Energy
<1>1. KnownUnit(0) /\ Multiplier(0, 0) = <<1, 0>>
  <2>1. 0 \in (0 .. 4) \cup (10 .. 13)
    OBVIOUS
  <2>2. KnownUnit(0)
    BY <2>1 DEF KnownUnit, Exponent
  <2>3. Exponent[0] = 0
    <3>1. Exponent[0] = IF 0 <= 4 THEN 0 - 0 ELSE 0 - 9
      BY <2>1, Zenon DEF Exponent
    <3>2. QED
      BY <3>1
  <2>4. QED
    BY <2>2, <2>3 DEF Multiplier
<1>2. Energy \subseteq Epcs /\ Energy \cap ToSet(Instant) = {}
  BY EpcsAssumption DEF Epcs
<1>3. Epcs \subseteq 128 .. 255
  BY EpcsAssumption
<1>4. 0 \notin Energy
  BY <1>2, <1>3
<1>5. QED
  BY <1>1, <1>2, <1>4

LEMMA EmitKeeps ==
  ASSUME CInv, Emit
  PROVE  CInv'
<1> DEFINE p == Head(answer)
<1>1. TypeOK /\ ListInv /\ UnreadInv /\ ReadInv /\ ScaleIsWhole /\ AnswerInv
  BY DEF CInv
<1>2. /\ UNCHANGED <<meter, probeVars, poll, batchVars, scale, cancelled>>
      /\ poll = "emit" /\ answer # <<>> /\ answer' = Tail(answer)
  BY DEF Emit
<1>3. \/ /\ unsupported' = unsupported \cup {p.epc}
         /\ empties' = empties \cup {p.epc} /\ UNCHANGED output
      \/ output' = Written(p.epc) /\ UNCHANGED <<unsupported, empties>>
  BY DEF Emit, Dropped
<1>4. /\ Tail(answer) \in Seq(Properties) /\ p = answer[1] /\ 1 \in DOMAIN answer
      /\ \A i \in DOMAIN Tail(answer) :
           i + 1 \in DOMAIN answer /\ Tail(answer)[i] = answer[i + 1]
  BY <1>1, <1>2, HeadAndTail DEF AnswerInv
<1>5. p.epc \in asked /\ p.epc \in ToSet(Batch[group]) /\ p.epc \in Epcs
  <2>1. p.epc \in asked
    BY <1>1, <1>4 DEF TypeOK
  <2>2. p.epc \in ToSet(Batch[group])
    BY <1>1, <2>1 DEF TypeOK
  <2>3. ToSet(Batch[group]) \subseteq Epcs
    BY <1>1, Batches DEF TypeOK
  <2>4. QED
    BY <2>1, <2>2, <2>3
<1>6. AnswerInv'
  BY <1>2, <1>4 DEF AnswerInv
<1> DEFINE e == p.epc
<1>7. \/ output' = output
      \/ e \notin Energy /\ output'.epc = e
      \/ /\ e \in Energy /\ KnownUnit(scale[2]) /\ output'.epc = e
         /\ output'.scale = Multiplier(scale[1], scale[2])
         /\ output'.informed = informed
  BY <1>3 DEF Written
<1> HIDE DEF p, e
<1>8. e \in Epcs /\ e \in ToSet(Batch[group])
  BY <1>5 DEF e
<1> USE DEF probeVars, batchVars
<1>9. TypeOK'
  <2>1. {answer[i].epc : i \in DOMAIN answer}' \subseteq asked'
    BY <1>1, <1>2, <1>4 DEF TypeOK
  <2>2. (\A i \in DOMAIN answer : answer[i].edt \in {<<>>, Data(answer[i].epc)})'
    BY <1>1, <1>2, <1>4 DEF TypeOK
  <2>3. output' = NoOutput \/ output'.epc \in Epcs
    BY <1>1, <1>7, <1>8 DEF TypeOK
  <2>4. unsupported' \subseteq Epcs /\ empties' \subseteq Epcs
    BY <1>1, <1>3, <1>5 DEF TypeOK
  <2>5. QED
    BY <1>1, <1>2, <2>1, <2>2, <2>3, <2>4 DEF TypeOK
<1>10. ListInv'
  BY <1>1, <1>2, <1>3 DEF ListInv
<1>11. e \in Energy => group # "instant"
  BY <1>8, InitialScale DEF Batch
<1>12. UnreadInv'
  <2>1. probe # "done" /\ output'.epc \in Energy => output'.scale = <<1, 0>>
    BY <1>1, <1>7, InitialScale DEF UnreadInv
  <2>2. QED
    BY <1>1, <1>2, <2>1 DEF UnreadInv
<1>13. ReadInv'
  BY <1>1, <1>2 DEF ReadInv
<1>14. ScaleIsWhole'
  <2>1. CASE output' = output
    BY <1>1, <1>2, <2>1 DEF ScaleIsWhole, MeterScale
  <2>2. CASE e \notin Energy /\ output'.epc = e
    BY <2>2 DEF ScaleIsWhole
  <2>3. CASE /\ e \in Energy /\ KnownUnit(scale[2]) /\ output'.epc = e
             /\ output'.scale = Multiplier(scale[1], scale[2])
             /\ output'.informed = informed
    <3>1. scale = meter.scale => output'.scale = MeterScale
      BY <2>3 DEF MeterScale
    <3>2. scale = <<0, 0>> => output'.scale = <<1, 0>>
      BY <2>3, InitialScale
    <3>3. complete => output'.scale \in {<<1, 0>>, MeterScale}
      BY <1>1, <3>1, <3>2 DEF ReadInv
    <3>4. informed => output'.scale = MeterScale
      BY <1>1, <1>2, <1>11, <2>3, <3>1 DEF ReadInv
    <3>5. MeterScale' = MeterScale /\ complete' = complete
      BY <1>2 DEF MeterScale
    <3>6. QED
      BY <2>3, <3>3, <3>4, <3>5 DEF ScaleIsWhole
  <2>4. QED
    BY <1>7, <2>1, <2>2, <2>3
<1>15. MapAsAdvertised'
  BY <1>2 DEF CInv, MapAsAdvertised
<1>16. QED
  BY <1>6, <1>9, <1>10, <1>12, <1>13, <1>14, <1>15 DEF CInv

-----------------------------------------------------------------------------
(* The theorems.                                                            *)

LEMMA CInvInit == Init => CInv
<1> SUFFICES ASSUME Init PROVE CInv
  OBVIOUS
<1>1. TypeOK
  <2>1. <<"instant", "cumulative">> \in Seq(Groups)
    BY DEF Groups
  <2>2. 0 \in 0 .. MaxBatches
    BY BatchesAssumption
  <2>3. 0 \in Coefficients /\ 0 \in Units /\ <<0, 0>> \in Scales
    BY DEF Coefficients, Units, Scales
  <2>4. "instant" \in Groups
    BY DEF Groups
  <2>5. {answer[i].epc : i \in DOMAIN answer} \subseteq asked
    BY DEF Init
  <2>6. \A i \in DOMAIN answer : answer[i].edt \in {<<>>, Data(answer[i].epc)}
    BY DEF Init
  <2>7. todo \in Seq(Epcs)
    BY DEF Init
  <2>8. haveOneShot = (probe = "done")
    BY DEF Init
  <2>9. QED
    BY <2>1, <2>2, <2>3, <2>4, <2>5, <2>6, <2>7, <2>8 DEF Init, TypeOK
<1>2. output.epc \notin Energy
  BY InitialScale DEF Init, NoOutput
<1>3. MapAsAdvertised /\ ScaleIsWhole
  BY <1>2 DEF Init, MapAsAdvertised, ScaleIsWhole
<1>4. AnswerInv /\ ListInv
  BY DEF Init, AnswerInv, ListInv, ToSet
<1>5. UnreadInv /\ ReadInv
  BY <1>2 DEF Init, UnreadInv, ReadInv
<1>6. QED
  BY <1>1, <1>3, <1>4, <1>5 DEF CInv

LEMMA CInvStep == CInv /\ [Next]_vars => CInv'
<1> SUFFICES ASSUME CInv, [Next]_vars PROVE CInv'
  OBVIOUS
<1>1. CASE \/ ProbeTry \/ ProbeFails \/ ProbeWaits \/ Built \/ GetFails
           \/ BatchEnds \/ Stop \/ Cancel \/ UNCHANGED vars
  <2>1. TypeOK
    BY DEF CInv
  <2>2. Quiet
    BY <1>1, <2>1, QuietSteps
  <2>3. QED
    BY <2>2, QuietKeeps
<1>2. CASE ProbeAnswered
  BY <1>2, AnsweredKeeps
<1>3. CASE \E g \in Groups : StartBatch(g)
  BY <1>3, StartBatchKeeps
<1>4. CASE Ask
  BY <1>4, AskKeeps
<1>5. CASE GetAnswers
  BY <1>5, GetAnswersKeeps
<1>6. CASE ReadScale
  BY <1>6, ReadScaleKeeps
<1>7. CASE Emit
  BY <1>7, EmitKeeps
<1>8. QED
  BY <1>1, <1>2, <1>3, <1>4, <1>5, <1>6, <1>7, StepCases

\* The inductive invariant holds in every reachable state of the collector.
THEOREM CInvCorrect == Spec => []CInv
BY CInvInit, CInvStep, PTL DEF Spec

\* The types of the collector's variables (collector.go:35-57, 206-308), for
\* every table of EPCs and every meter; the frames pass through their bytes.
THEOREM TypeCorrect == Spec => []TypeOK
<1>1. CInv => TypeOK
  BY DEF CInv
<1>2. QED
  BY <1>1, CInvCorrect, PTL

\* The property map stored by the probe is the one the meter advertised
\* (epc.go:193-224, collector.go:145-154), for every set of properties.
THEOREM MapCorrect == Spec => []MapAsAdvertised
<1>1. CInv => MapAsAdvertised
  BY DEF CInv
<1>2. QED
  BY <1>1, CInvCorrect, PTL

\* A value in kWh never mixes the coefficient of one answer with the unit of
\* another, and has the meter's scale if that was known before its batch
\* (collector.go:142-167, 232-238).
THEOREM ScaleCorrect == Spec => []ScaleIsWhole
<1>1. CInv => ScaleIsWhole
  BY DEF CInv
<1>2. QED
  BY <1>1, CInvCorrect, PTL

\* Nothing but the property map and an empty answer of its own keeps an EPC of
\* the meter out of its batch (collector.go:173-204).
THEOREM AskedCorrect == Spec => []AskedIfPresent
<1>1. CInv => AskedIfPresent
  BY DEF CInv, ListInv, AskedIfPresent, ToSet
<1>2. QED
  BY <1>1, CInvCorrect, PTL
=============================================================================
