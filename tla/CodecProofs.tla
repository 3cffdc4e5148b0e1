---------------------------- MODULE CodecProofs -----------------------------
(* Proofs about the codec: a frame of up to 255 properties, each with up to  *)
(* 255 bytes of data, is decoded as it was encoded, and a property map of up *)
(* to 128 properties is read as it was written.                              *)
(*                                                                           *)
(* The loops of Encode and Decode are recursive functions.  Induction is the *)
(* least member of a set of numbers here: the sets of the numbers at which   *)
(* something fails turn out to be empty.                                     *)
EXTENDS Codec, SequenceTheorems, WellFoundedInduction, TLAPS

-----------------------------------------------------------------------------
(* Induction and recursion up to a number.                                  *)

LEMMA Least ==
  ASSUME NEW S \in SUBSET Nat, S # {}
  PROVE  \E m \in S : \A k \in S : m <= k
<1>1. IsWellFoundedOn(OpToRel(<, Nat), Nat)
  BY NatLessThanWellFounded
<1>2. PICK m \in S : \A k \in S : ~ (<<k, m>> \in OpToRel(<, Nat))
  BY <1>1, WFMin
<1>3. \A k \in S : ~ (k < m)
  BY <1>2 DEF OpToRel
<1>4. QED
  BY <1>3

LEMMA UpTo ==
  ASSUME NEW n \in Nat, NEW S, 0 \in S,
         \A i \in 1 .. n : i - 1 \in S => i \in S
  PROVE  \A i \in 0 .. n : i \in S
<1> DEFINE Rest == {i \in 0 .. n : i \notin S}
<1>1. SUFFICES ASSUME Rest # {} PROVE FALSE
  OBVIOUS
<1>2. Rest \in SUBSET Nat
  OBVIOUS
<1>3. PICK m \in Rest : \A k \in Rest : m <= k
  <2> HIDE DEF Rest
  <2>1. QED
    BY <1>1, <1>2, Least
<1>4. m \in 1 .. n /\ m \notin S
  BY <1>3
<1>5. m - 1 \in S
  BY <1>3, <1>4
<1>6. QED
  BY <1>4, <1>5

\* A step can be repeated.
Repeats(f, n, init, step) ==
  f[0] = init /\ \A i \in 1 .. n : f[i] = step[<<i, f[i - 1]>>]

LEMMA Recursion ==
  ASSUME NEW n \in Nat, NEW V, NEW init \in V,
         NEW step \in [(1 .. n) \X V -> V]
  PROVE  \E f \in [0 .. n -> V] : Repeats(f, n, init, step)
<1> DEFINE S == {m \in 0 .. n : \E f \in [0 .. m -> V] :
                   /\ f[0] = init
                   /\ \A i \in 1 .. m : f[i] = step[<<i, f[i - 1]>>]}
<1>1. 0 \in S
  <2> DEFINE f == [i \in 0 .. 0 |-> init]
  <2>1. f \in [0 .. 0 -> V] /\ f[0] = init
    OBVIOUS
  <2>2. \A i \in 1 .. 0 : f[i] = step[<<i, f[i - 1]>>]
    OBVIOUS
  <2> HIDE DEF f
  <2>3. \E h \in [0 .. 0 -> V] :
          h[0] = init /\ \A i \in 1 .. 0 : h[i] = step[<<i, h[i - 1]>>]
    BY <2>1, <2>2
  <2>4. 0 \in 0 .. n
    OBVIOUS
  <2>5. QED
    BY <2>3, <2>4
<1>2. ASSUME NEW m \in 1 .. n, m - 1 \in S
      PROVE  m \in S
  <2>1. PICK f \in [0 .. m - 1 -> V] :
          /\ f[0] = init
          /\ \A i \in 1 .. m - 1 : f[i] = step[<<i, f[i - 1]>>]
    BY <1>2
  <2> DEFINE g == [i \in 0 .. m |-> IF i < m THEN f[i]
                                    ELSE step[<<m, f[m - 1]>>]]
  <2>2. g \in [0 .. m -> V]
    BY <2>1
  <2>3. g[0] = init
    BY <2>1
  <2>4. ASSUME NEW i \in 1 .. m
        PROVE  g[i] = step[<<i, g[i - 1]>>]
    <3>1. g[i - 1] = f[i - 1]
      OBVIOUS
    <3>2. CASE i < m
      BY <2>1, <3>1, <3>2
    <3>3. CASE i = m
      <4>1. g[m] = step[<<m, f[m - 1]>>]
        OBVIOUS
      <4> HIDE DEF g
      <4>2. QED
        BY <3>1, <3>3, <4>1
    <3>4. QED
      BY <3>2, <3>3
  <2>5. QED
    <3> HIDE DEF g
    <3>1. \E h \in [0 .. m -> V] :
            h[0] = init /\ \A i \in 1 .. m : h[i] = step[<<i, h[i - 1]>>]
      BY <2>2, <2>3, <2>4
    <3>2. m \in 0 .. n
      OBVIOUS
    <3>3. QED
      BY <3>1, <3>2
<1>3. n \in S
  <2> HIDE DEF S
  <2>1. QED
    BY <1>1, <1>2, UpTo
<1>4. QED
  BY <1>3 DEF Repeats

-----------------------------------------------------------------------------
(* Frames.                                                                  *)

Properties == [epc : Byte, edt : Seq(Byte)]

Short(props) == \A i \in DOMAIN props : Len(props[i].edt) <= 255

LEMMA Small ==
  ASSUME NEW n \in Nat, n <= 255
  PROVE  n % 256 = n
OBVIOUS

LEMMA InByte ==
  ASSUME NEW n \in Nat, n <= 255
  PROVE  n \in Byte
BY DEF Byte

LEMMA PropBytesOf ==
  ASSUME NEW p \in Properties, Len(p.edt) <= 255
  PROVE  /\ PropBytes(p) = <<p.epc, Len(p.edt)>> \o p.edt
         /\ PropBytes(p) \in Seq(Byte) /\ Len(p.edt) \in Nat
         /\ Len(PropBytes(p)) = 2 + Len(p.edt)
         /\ PropBytes(p)[1] = p.epc /\ PropBytes(p)[2] = Len(p.edt)
         /\ \A k \in 1 .. Len(p.edt) : PropBytes(p)[2 + k] = p.edt[k]
<1> DEFINE d == p.edt
           head == <<p.epc, Len(d)>>
<1>1. p.epc \in Byte /\ d \in Seq(Byte)
  BY DEF Properties
<1>2. Len(d) \in Nat /\ Len(d) <= 255
  BY <1>1, LenProperties
<1>3. Len(d) % 256 = Len(d)
  <2> HIDE DEF d
  <2>1. QED
    BY <1>2, Small
<1>4. Len(d) \in Byte
  <2> HIDE DEF d
  <2>1. QED
    BY <1>2, InByte
<1>5. /\ head \in Seq(Byte) /\ Len(head) = 2
      /\ head[1] = p.epc /\ head[2] = Len(d)
  <2> HIDE DEF d
  <2>1. QED
    BY <1>1, <1>4
<1>6. PropBytes(p) = head \o d
  BY <1>3 DEF PropBytes
<1> HIDE DEF head, d
<1>7. /\ head \o d \in Seq(Byte) /\ Len(head \o d) = Len(head) + Len(d)
      /\ \A i \in 1 .. Len(head) + Len(d) :
           (head \o d)[i] = IF i <= Len(head) THEN head[i] ELSE d[i - Len(head)]
  <2>1. head \in Seq(Byte) /\ d \in Seq(Byte)
    BY <1>1, <1>5
  <2>2. QED
    BY <2>1, ConcatProperties
<1>8. (head \o d)[1] = p.epc /\ (head \o d)[2] = Len(d)
  BY <1>2, <1>5, <1>7
<1>9. ASSUME NEW k \in 1 .. Len(d)
      PROVE  (head \o d)[2 + k] = d[k]
  <2>1. 2 + k \in 1 .. 2 + Len(d) /\ ~ (2 + k <= 2) /\ 2 + k - 2 = k
    BY <1>2
  <2>2. QED
    BY <1>5, <1>7, <2>1
<1>10. QED
  <2>1. /\ PropBytes(p) \in Seq(Byte) /\ Len(PropBytes(p)) = 2 + Len(d)
        /\ PropBytes(p)[1] = p.epc /\ PropBytes(p)[2] = Len(d)
        /\ \A k \in 1 .. Len(d) : PropBytes(p)[2 + k] = d[k]
    BY <1>5, <1>6, <1>7, <1>8, <1>9
  <2>2. QED
    BY <1>2, <1>6, <2>1 DEF d, head

\* What Encode has written after each turn of its loop.
LEMMA EncodeWrites ==
  ASSUME NEW props \in Seq(Properties), Len(props) <= 255, Short(props)
  PROVE  \E u \in [0 .. Len(props) -> Seq(Byte)] :
           /\ u[0] = <<Len(props)>>
           /\ \A i \in 1 .. Len(props) : u[i] = u[i - 1] \o PropBytes(props[i])
           /\ Encode(props) = u[Len(props)]
<1> DEFINE n == Len(props)
           V == Seq(Byte)
           init == <<n % 256>>
           p(i) == PropBytes(props[i])
           step == [x \in (1 .. n) \X V |-> x[2] \o p(x[1])]
           h == CHOOSE f : f = [i \in 0 .. n |->
                  IF i = 0 THEN init ELSE f[i - 1] \o p(i)]
<1>1. n \in Nat /\ n <= 255
  BY LenProperties
<1>2. ASSUME NEW i \in 1 .. n
      PROVE  p(i) \in V
  <2>1. props[i] \in Properties /\ i \in DOMAIN props
    BY ElementOfSeq, LenProperties
  <2>2. QED
    BY <2>1, PropBytesOf DEF Short
<1>3. Encode(props) = h[n]
  BY DEF Encode
<1> HIDE DEF n
<1>4. n % 256 = n
  BY <1>1, Small
<1>5. n \in Byte
  BY <1>1, InByte
<1>6. init = <<n>> /\ init \in V
  BY <1>4, <1>5
<1> HIDE DEF init, p
<1>7. \A s \in V, i \in 1 .. n : s \o p(i) \in V
  BY <1>2, ConcatProperties
<1>8. step \in [(1 .. n) \X V -> V]
  <2> HIDE DEF V
  <2>1. QED
    BY <1>7
<1> HIDE DEF V
<1>9. PICK g \in [0 .. n -> V] : Repeats(g, n, init, step)
  <2> HIDE DEF step, h
  <2>1. n \in Nat /\ init \in V /\ step \in [(1 .. n) \X V -> V]
    BY <1>1, <1>6, <1>8
  <2>2. QED
    BY <2>1, Recursion, Zenon
<1>10. ASSUME NEW i \in 1 .. n
       PROVE  g[i] = g[i - 1] \o p(i)
  <2>1. g[i - 1] \in V
    BY <1>1
  <2>2. step[<<i, g[i - 1]>>] = g[i - 1] \o p(i)
    BY <2>1
  <2>3. g[i] = step[<<i, g[i - 1]>>]
    BY <1>9 DEF Repeats
  <2>4. QED
    BY <2>2, <2>3
<1>11. g = [i \in 0 .. n |-> IF i = 0 THEN init ELSE g[i - 1] \o p(i)]
  <2>1. ASSUME NEW i \in 0 .. n
        PROVE  g[i] = IF i = 0 THEN init ELSE g[i - 1] \o p(i)
    <3>1. i = 0 \/ i \in 1 .. n
      BY <1>1
    <3>2. CASE i = 0
      BY <1>9, <3>2, Zenon DEF Repeats
    <3>3. CASE i \in 1 .. n
      <4>1. i # 0
        BY <3>3
      <4>2. QED
        BY <1>10, <3>3, <4>1, Zenon
    <3>4. QED
      BY <3>1, <3>2, <3>3
  <2>2. g \in [0 .. n -> V]
    BY <1>9
  <2>3. QED
    BY <2>1, <2>2
<1>12. h = [i \in 0 .. n |-> IF i = 0 THEN init ELSE h[i - 1] \o p(i)]
  BY <1>11, Zenon
<1> HIDE DEF h, step
<1>13. h[0] = init
  BY <1>1, <1>12
<1>14. ASSUME NEW i \in 1 .. n
       PROVE  h[i] = h[i - 1] \o p(i)
  <2>1. i \in 0 .. n /\ i # 0
    BY <1>1
  <2>2. QED
    BY <1>12, <2>1, Zenon
<1>15. \A i \in 0 .. n : h[i] \in V
  <2> DEFINE S == {i \in 0 .. n : h[i] \in V}
  <2>1. 0 \in S
    <3>1. 0 \in 0 .. n
      BY <1>1
    <3>2. h[0] \in V
      BY <1>6, <1>13, Zenon
    <3>3. QED
      BY <3>1, <3>2
  <2>2. ASSUME NEW i \in 1 .. n, i - 1 \in S
        PROVE  i \in S
    <3>1. h[i - 1] \in V
      BY <2>2
    <3>2. h[i] \in V
      BY <1>7, <1>14, <3>1
    <3>3. QED
      BY <1>1, <3>2
  <2>3. \A i \in 0 .. n : i \in S
    <3> HIDE DEF S
    <3>1. QED
      BY <1>1, <2>1, <2>2, UpTo
  <2>4. QED
    BY <2>3
<1>16. h \in [0 .. n -> V]
  BY <1>12, <1>15
<1>17. QED
  BY <1>3, <1>6, <1>13, <1>14, <1>16 DEF n, p, V

-----------------------------------------------------------------------------
(* Reading the frame back.                                                  *)

LEMMA Piece ==
  ASSUME NEW S, NEW s \in Seq(S), NEW t \in Seq(S),
         NEW a \in Nat \ {0}, NEW z \in Nat, z = a + Len(t) - 1,
         z <= Len(s), \A k \in 1 .. Len(t) : s[a + k - 1] = t[k]
  PROVE  SubSeq(s, a, z) = t
<1> DEFINE sub == SubSeq(s, a, z)
<1>1. Len(t) \in Nat /\ Len(s) \in Nat
  BY LenProperties
<1>2. ASSUME NEW i \in a .. z
      PROVE  s[i] \in S
  <2>1. i \in 1 .. Len(s)
    BY <1>1
  <2>2. QED
    BY <2>1, ElementOfSeq
<1>3. a \in Int /\ z \in Int
  OBVIOUS
<1>4. /\ sub \in Seq(S) /\ Len(sub) = IF a <= z THEN z - a + 1 ELSE 0
      /\ \A i \in 1 .. z - a + 1 : sub[i] = s[a + i - 1]
  BY <1>2, <1>3, SubSeqProperties
<1> HIDE DEF sub
<1>5. Len(sub) = Len(t)
  BY <1>1, <1>4
<1>6. ASSUME NEW i \in 1 .. Len(sub)
      PROVE  sub[i] = t[i]
  <2>1. i \in 1 .. Len(t) /\ i \in 1 .. z - a + 1
    BY <1>1, <1>5
  <2>2. QED
    BY <1>4, <2>1
<1>7. sub = t
  BY <1>4, <1>5, <1>6, SeqEqual
<1>8. QED
  BY <1>7 DEF sub

LEMMA Grown ==
  ASSUME NEW S, NEW s \in Seq(S), NEW i \in 1 .. Len(s)
  PROVE  Append(SubSeq(s, 1, i - 1), s[i]) = SubSeq(s, 1, i)
<1>1. Len(s) \in Nat /\ 1 \in 1 .. Len(s) /\ i \in 1 .. Len(s)
  BY LenProperties
<1>2. SubSeq(s, 1, i) = SubSeq(s, 1, i - 1) \o <<s[i]>>
  BY <1>1, SubSeqRecursiveSecond
<1>3. \A k \in 1 .. i - 1 : s[k] \in S
  BY <1>1, ElementOfSeq
<1>4. SubSeq(s, 1, i - 1) \in Seq(S)
  <2>1. 1 \in Int /\ i - 1 \in Int
    BY <1>1
  <2>2. QED
    BY <1>3, <2>1, SubSeqProperties
<1>5. s[i] \in S
  BY ElementOfSeq
<1>6. QED
  BY <1>2, <1>4, <1>5, AppendIsConcat

\* What was written stays where it is.
Begins(s, t) == Len(s) <= Len(t) /\ \A k \in 1 .. Len(s) : t[k] = s[k]

LEMMA BeginsConcat ==
  ASSUME NEW S, NEW s \in Seq(S), NEW t \in Seq(S), NEW r \in Seq(S),
         Begins(s \o t, r)
  PROVE  Begins(s, r)
<1> DEFINE c == s \o t
<1>1. Len(s) \in Nat /\ Len(t) \in Nat /\ Len(r) \in Nat
  BY LenProperties
<1>2. /\ Len(c) = Len(s) + Len(t)
      /\ \A k \in 1 .. Len(s) + Len(t) :
           c[k] = IF k <= Len(s) THEN s[k] ELSE t[k - Len(s)]
  BY ConcatProperties
<1>3. Begins(c, r)
  OBVIOUS
<1> HIDE DEF c
<1>4. Len(s) <= Len(r)
  BY <1>1, <1>2, <1>3 DEF Begins
<1>5. ASSUME NEW k \in 1 .. Len(s)
      PROVE  r[k] = s[k]
  <2>1. k \in 1 .. Len(s) + Len(t) /\ k \in 1 .. Len(c) /\ k <= Len(s)
    BY <1>1, <1>2
  <2>2. c[k] = s[k]
    BY <1>2, <2>1
  <2>3. QED
    BY <1>3, <2>1, <2>2 DEF Begins
<1>6. QED
  BY <1>4, <1>5 DEF Begins

LEMMA WrittenPrefixes ==
  ASSUME NEW n \in Nat, NEW V, NEW u \in [0 .. n -> Seq(V)],
         NEW w \in [1 .. n -> Seq(V)],
         \A i \in 1 .. n : u[i] = u[i - 1] \o w[i]
  PROVE  \A i \in 0 .. n : Begins(u[i], u[n])
<1> DEFINE S == {j \in 0 .. n : Begins(u[n - j], u[n])}
<1>1. 0 \in S
  <2>1. Len(u[n]) \in Nat
    BY LenProperties
  <2>2. n - 0 = n
    OBVIOUS
  <2>3. Begins(u[n], u[n])
    BY <2>1 DEF Begins
  <2>4. QED
    BY <2>2, <2>3
<1>2. ASSUME NEW j \in 1 .. n, j - 1 \in S
      PROVE  j \in S
  <2>1. PICK i \in 1 .. n : i = n - (j - 1)
    OBVIOUS
  <2>2. Begins(u[i], u[n])
    BY <1>2, <2>1
  <2>3. u[i - 1] \in Seq(V) /\ w[i] \in Seq(V) /\ u[n] \in Seq(V)
    BY <2>1
  <2>4. Begins(u[i - 1] \o w[i], u[n])
    BY <2>2
  <2>5. Begins(u[i - 1], u[n])
    <3> HIDE DEF S
    <3>1. QED
      BY <2>3, <2>4, BeginsConcat
  <2>6. i - 1 = n - j
    BY <2>1
  <2>7. QED
    BY <2>5, <2>6
<1>3. \A j \in 0 .. n : j \in S
  <2> HIDE DEF S
  <2>1. QED
    BY <1>1, <1>2, UpTo
<1>4. ASSUME NEW i \in 0 .. n
      PROVE  Begins(u[i], u[n])
  <2>1. n - i \in 0 .. n /\ n - (n - i) = i
    OBVIOUS
  <2>2. n - i \in S
    BY <1>3, <2>1
  <2>3. QED
    BY <2>1, <2>2
<1>5. QED
  BY <1>4

\* One turn of Decode's loop, where the next property of the frame begins.
LEMMA DecodesOne ==
  ASSUME NEW b \in Seq(Byte), NEW s \in Seq(Byte), NEW p \in Properties,
         NEW done, Len(p.edt) <= 255, Begins(s \o PropBytes(p), b)
  PROVE  DecodeProp(b, [ok |-> TRUE, at |-> Len(s) + 1, props |-> done]) =
           [ok |-> TRUE, at |-> Len(s \o PropBytes(p)) + 1,
            props |-> Append(done, p)]
<1> DEFINE w == PropBytes(p)
           c == s \o w
           d == p.edt
           l == Len(s)
           f == [ok |-> TRUE, at |-> l + 1, props |-> done]
<1>1. /\ w \in Seq(Byte) /\ Len(d) \in Nat /\ Len(w) = 2 + Len(d)
      /\ w[1] = p.epc /\ w[2] = Len(d)
      /\ \A k \in 1 .. Len(d) : w[2 + k] = d[k]
  BY PropBytesOf
<1>2. d \in Seq(Byte)
  BY DEF Properties
<1>3. l \in Nat /\ Len(b) \in Nat
  BY LenProperties
<1>4. p = [epc |-> p.epc, edt |-> d]
  BY DEF Properties
<1>5. Begins(c, b)
  OBVIOUS
<1> HIDE DEF w, d
<1>6. /\ Len(c) = l + Len(w)
      /\ \A k \in 1 .. l + Len(w) : c[k] = IF k <= l THEN s[k] ELSE w[k - l]
  BY <1>1, ConcatProperties
<1> HIDE DEF c, l
<1>7. Len(c) = l + 2 + Len(d) /\ Len(c) <= Len(b)
  BY <1>1, <1>3, <1>5, <1>6 DEF Begins
<1>8. ASSUME NEW k \in 1 .. Len(w)
      PROVE  b[l + k] = w[k]
  <2>1. PICK j \in 1 .. l + Len(w) : j = l + k
    BY <1>1, <1>3
  <2>2. ~ (j <= l) /\ j - l = k
    BY <1>1, <1>3, <2>1
  <2>3. c[j] = w[k]
    BY <1>6, <2>2
  <2>4. b[j] = c[j]
    BY <1>5, <1>6 DEF Begins
  <2>5. QED
    BY <2>1, <2>3, <2>4
<1>9. b[l + 1] = p.epc /\ b[l + 2] = Len(d)
  <2>1. 1 \in 1 .. Len(w) /\ 2 \in 1 .. Len(w)
    BY <1>1
  <2>2. QED
    BY <1>1, <1>8, <2>1
<1>10. SubSeq(b, l + 3, l + 2 + Len(d)) = d
  <2>1. l + 3 \in Nat \ {0} /\ l + 2 + Len(d) \in Nat
    BY <1>1, <1>3
  <2>2. l + 2 + Len(d) = l + 3 + Len(d) - 1 /\ l + 2 + Len(d) <= Len(b)
    BY <1>1, <1>3, <1>7
  <2>3. ASSUME NEW k \in 1 .. Len(d)
        PROVE  b[l + 3 + k - 1] = d[k]
    <3>1. 2 + k \in 1 .. Len(w) /\ l + 3 + k - 1 = l + (2 + k)
      BY <1>1, <1>3
    <3>2. QED
      BY <1>1, <1>8, <3>1
  <2>4. PICK a \in Nat \ {0} : a = l + 3
    BY <2>1
  <2>5. PICK z \in Nat : z = l + 2 + Len(d)
    BY <2>1
  <2>6. z = a + Len(d) - 1 /\ z <= Len(b)
    BY <2>2, <2>4, <2>5
  <2>7. \A k \in 1 .. Len(d) : b[a + k - 1] = d[k]
    BY <2>3, <2>4
  <2>8. SubSeq(b, a, z) = d
    BY <1>2, <2>6, <2>7, Piece
  <2>9. QED
    BY <2>4, <2>5, <2>8
<1>11. DecodeProp(b, f) = [ok |-> TRUE, at |-> l + 3 + Len(d),
                           props |-> Append(done, p)]
  <2>1. f.ok = TRUE /\ f.at = l + 1 /\ f.props = done
    OBVIOUS
  <2> HIDE DEF f
  <2>2. ~ (f.at + 1 > Len(b)) /\ f.at + 1 = l + 2 /\ f.at + 2 = l + 3
    BY <1>1, <1>3, <1>7, <2>1
  <2>3. b[f.at + 1] = Len(d) /\ b[f.at] = p.epc
    BY <1>9, <2>1, <2>2
  <2>4. f.at + 1 + Len(d) = l + 2 + Len(d) /\ f.at + 2 + Len(d) = l + 3 + Len(d)
    BY <1>1, <1>3, <2>1
  <2>5. ~ (f.at + 1 + Len(d) > Len(b))
    BY <1>1, <1>3, <1>7, <2>4
  <2>6. SubSeq(b, f.at + 2, f.at + 1 + Len(d)) = d
    BY <1>10, <2>2, <2>4
  <2>7. DecodeProp(b, f) =
          [ok |-> TRUE, at |-> After(f.at, Len(d)),
           props |-> Append(f.props, [epc |-> p.epc, edt |-> d])]
    BY <2>1, <2>2, <2>3, <2>5, <2>6, Zenon DEF DecodeProp
  <2>8. QED
    BY <1>4, <2>1, <2>4, <2>7 DEF After
<1>12. l + 3 + Len(d) = Len(c) + 1
  BY <1>1, <1>3, <1>7
<1>13. QED
  BY <1>11, <1>12 DEF c, w, l

\* A frame is read as it was written: the bytes of one property never count as
\* those of another (echonet.go Encode, Decode).
THEOREM DecodesEncoded ==
  ASSUME NEW props \in Seq(Properties), Len(props) <= 255, Short(props)
  PROVE  /\ Encode(props) \in Seq(Byte)
         /\ Decode(Encode(props)).ok
         /\ Decode(Encode(props)).props = props
<1> DEFINE n == Len(props)
           b == Encode(props)
<1>1. n \in Nat /\ n <= 255
  BY LenProperties
<1>2. PICK u \in [0 .. n -> Seq(Byte)] :
        /\ u[0] = <<n>>
        /\ \A i \in 1 .. n : u[i] = u[i - 1] \o PropBytes(props[i])
        /\ b = u[n]
  BY EncodeWrites
<1> DEFINE p(i) == props[i]
           w == [i \in 1 .. n |-> PropBytes(p(i))]
           cut(i) == SubSeq(props, 1, i)
           state(i) == [ok |-> TRUE, at |-> Len(u[i]) + 1, props |-> cut(i)]
           start == [ok |-> TRUE, at |-> 2, props |-> <<>>]
           g == [i \in 0 .. n |-> state(i)]
           h == CHOOSE f : f = [i \in 0 .. b[1] |->
                  IF i = 0 THEN start ELSE DecodeProp(b, f[i - 1])]
<1>3. ASSUME NEW i \in 1 .. n
      PROVE  /\ p(i) \in Properties /\ Len(p(i).edt) <= 255
             /\ PropBytes(p(i)) \in Seq(Byte)
             /\ Append(cut(i - 1), p(i)) = cut(i)
  <2>1. p(i) \in Properties /\ i \in DOMAIN props
    BY ElementOfSeq, LenProperties
  <2>2. Len(p(i).edt) <= 255
    BY <2>1 DEF Short
  <2>3. Append(cut(i - 1), p(i)) = cut(i)
    BY Grown
  <2>4. QED
    BY <2>1, <2>2, <2>3, PropBytesOf
<1>4. cut(0) = <<>> /\ cut(n) = props
  <2>1. cut(0) = <<>>
    BY SubSeqEmpty
  <2>2. cut(n) = props
    BY SubSeqFull
  <2>3. QED
    BY <2>1, <2>2
<1>5. Decode(b) = IF b = <<>> THEN Failed ELSE h[b[1]]
  BY DEF Decode
<1> HIDE DEF n, b, p, cut, h
<1>6. \A i \in 1 .. n : u[i] = u[i - 1] \o PropBytes(p(i))
  BY <1>2 DEF p
<1>7. w \in [1 .. n -> Seq(Byte)]
  BY <1>3
<1>8. \A i \in 0 .. n : Begins(u[i], b)
  <2>1. \A i \in 1 .. n : w[i] = PropBytes(p(i))
    OBVIOUS
  <2> HIDE DEF w
  <2>2. \A i \in 1 .. n : u[i] = u[i - 1] \o w[i]
    BY <1>6, <2>1
  <2>3. \A i \in 0 .. n : Begins(u[i], u[n])
    BY <1>1, <1>7, <2>2, WrittenPrefixes
  <2>4. QED
    BY <1>2, <2>3
<1>9. b \in Seq(Byte) /\ b # <<>> /\ b[1] = n
  <2>1. b \in Seq(Byte)
    BY <1>1, <1>2
  <2>2. Begins(<<n>>, b)
    <3>1. 0 \in 0 .. n
      BY <1>1
    <3>2. Begins(u[0], b)
      BY <1>8, <3>1
    <3>3. QED
      BY <1>2, <3>2
  <2>3. 1 <= Len(b) /\ b[1] = n
    BY <2>2 DEF Begins
  <2>4. b # <<>>
    BY <2>3
  <2>5. QED
    BY <2>1, <2>3, <2>4
<1>10. state(0) = start
  <2>1. Len(u[0]) + 1 = 2
    BY <1>2
  <2>2. QED
    BY <1>4, <2>1
<1>11. ASSUME NEW i \in 1 .. n
       PROVE  DecodeProp(b, state(i - 1)) = state(i)
  <2>1. u[i - 1] \in Seq(Byte) /\ Begins(u[i], b)
    BY <1>1, <1>8
  <2>2. u[i] = u[i - 1] \o PropBytes(p(i))
    BY <1>6
  <2>3. Begins(u[i - 1] \o PropBytes(p(i)), b)
    BY <2>1, <2>2
  <2>4. DecodeProp(b, [ok |-> TRUE, at |-> Len(u[i - 1]) + 1,
                       props |-> cut(i - 1)]) =
          [ok |-> TRUE, at |-> Len(u[i - 1] \o PropBytes(p(i))) + 1,
           props |-> Append(cut(i - 1), p(i))]
    <3> HIDE DEF state, start, g, w
    <3>1. PICK s \in Seq(Byte) : s = u[i - 1]
      BY <2>1
    <3>2. PICK q \in Properties : q = p(i) /\ Len(q.edt) <= 255
      BY <1>3
    <3>3. b \in Seq(Byte) /\ Begins(s \o PropBytes(q), b)
      BY <1>9, <2>3, <3>1, <3>2
    <3>4. PICK done : done = cut(i - 1)
      OBVIOUS
    <3>5. DecodeProp(b, [ok |-> TRUE, at |-> Len(s) + 1, props |-> done]) =
            [ok |-> TRUE, at |-> Len(s \o PropBytes(q)) + 1,
             props |-> Append(done, q)]
      BY <3>2, <3>3, DecodesOne
    <3>6. QED
      BY <3>1, <3>2, <3>4, <3>5
  <2>5. QED
    BY <1>3, <2>2, <2>4
<1> HIDE DEF state, start
<1>12. g = [i \in 0 .. n |-> IF i = 0 THEN start ELSE DecodeProp(b, g[i - 1])]
  <2>1. ASSUME NEW i \in 0 .. n
        PROVE  g[i] = IF i = 0 THEN start ELSE DecodeProp(b, g[i - 1])
    <3>1. CASE i = 0
      BY <1>10, <3>1
    <3>2. CASE i # 0
      <4>1. i \in 1 .. n /\ i - 1 \in 0 .. n
        BY <1>1, <3>2
      <4>2. QED
        BY <1>11, <3>2, <4>1
    <3>3. QED
      BY <3>1, <3>2
  <2>2. QED
    BY <2>1
<1>13. h = [i \in 0 .. n |-> IF i = 0 THEN start ELSE DecodeProp(b, h[i - 1])]
  BY <1>9, <1>12, Zenon DEF h
<1>14. \A i \in 0 .. n : h[i] = state(i)
  <2> DEFINE S == {i \in 0 .. n : h[i] = state(i)}
  <2>1. 0 \in S
    BY <1>1, <1>10, <1>13
  <2>2. ASSUME NEW i \in 1 .. n, i - 1 \in S
        PROVE  i \in S
    <3>1. i \in 0 .. n /\ i # 0
      OBVIOUS
    <3>2. h[i] = DecodeProp(b, h[i - 1])
      BY <1>13, <3>1, Zenon
    <3>3. h[i] = state(i)
      BY <1>11, <2>2, <3>2
    <3>4. QED
      BY <3>1, <3>3
  <2>3. \A i \in 0 .. n : i \in S
    <3> HIDE DEF S
    <3>1. QED
      BY <1>1, <2>1, <2>2, UpTo
  <2>4. QED
    BY <2>3
<1>15. Decode(b) = state(n)
  BY <1>1, <1>5, <1>9, <1>14
<1>16. QED
  BY <1>4, <1>9, <1>15 DEF state, b
=============================================================================
