-------------------------- MODULE DownsamplerProofs --------------------------
(* Proofs about the down-sampler, for any number of writers, series, windows *)
(* and samples.                                                              *)
EXTENDS Downsampler, FiniteSetTheorems, TLAPS

All == bufs \cup InHand
Busy(w) == pc[w] # "idle"

\* Samples are numbered as they come; what comes later is nowhere yet.
Known ==
  /\ \A b \in All : b.samples \subseteq 1 .. samples
  /\ \A w \in Writers : Busy(w) => cur[w] \in 1 .. samples
  /\ raced \subseteq 1 .. samples
  /\ \A s \in Samples : s > samples => times[s] = 0

\* A window that was taken out of the buffers is in one hand only, and hands
\* are empty but between the taking and the emission.
OneHand ==
  /\ bufs \cap InHand = {} /\ flushing \cap closing = {}
  /\ \A w \in Writers : hand[w] \cap (flushing \cup closing) = {}
  /\ \A v, w \in Writers : v # w => hand[v] \cap hand[w] = {}
  /\ \A w \in Writers : pc[w] # "forward" => hand[w] = {}
  /\ \A w \in Writers : \A b, c \in hand[w] : b = c
  /\ flusher # "emit" => flushing = {}
  /\ closer # "emit" => closing = {}

Disjoint == \A b, c \in All : b.samples \cap c.samples # {} => b = c

\* A sample is in a buffer, with a writer in the gap, replaced or emitted, and
\* no two of them.
OneFate ==
  /\ times \in [Samples -> {0, 1}]
  /\ \A b \in All : \A s \in b.samples :
       /\ times[s] = 0 /\ s \notin raced
       /\ \A w \in Writers : Busy(w) => cur[w] # s
  /\ \A s \in raced : times[s] = 0
  /\ \A w \in Writers : Busy(w) => times[cur[w]] = 0 /\ cur[w] \notin raced
  /\ \A v, w \in Writers : Busy(v) /\ Busy(w) /\ cur[v] = cur[w] => v = w

\* A writer without a rival finds its series as it left it.
Single == \A v, w \in Writers : v = w
Alone ==
  Single =>
    raced = {} /\ \A w \in Writers : Busy(w) => Open(at[cur[w]].series) = {}

DInv ==
  /\ TypeOK /\ Coherent /\ Known /\ OneHand /\ Disjoint /\ OneFate /\ Alone
  /\ NothingLost

-----------------------------------------------------------------------------
(* Where windows are, and what an emission does.                            *)

LEMMA InHandIs ==
  \A b : b \in InHand <=> \/ \E w \in Writers : b \in hand[w]
                          \/ b \in flushing \/ b \in closing
<1>1. \A b : b \in UNION {hand[w] : w \in Writers}
               <=> \E w \in Writers : b \in hand[w]
  BY Zenon
<1>2. QED
  BY <1>1 DEF InHand

LEMMA InHandIsNext ==
  \A b : b \in InHand' <=> \/ \E w \in Writers : b \in hand'[w]
                           \/ b \in flushing' \/ b \in closing'
<1>1. \A b : b \in UNION {hand'[w] : w \in Writers}
               <=> \E w \in Writers : b \in hand'[w]
  BY Zenon
<1>2. QED
  BY <1>1 DEF InHand

LEMMA EmittedOnce ==
  ASSUME Disjoint, NEW B \in SUBSET All, NEW s
  PROVE  Cardinality({b \in B : s \in b.samples}) =
           IF \E b \in B : s \in b.samples THEN 1 ELSE 0
<1>1. CASE \E b \in B : s \in b.samples
  <2>1. PICK b \in B : s \in b.samples
    BY <1>1
  <2>2. {c \in B : s \in c.samples} = {b}
    BY <2>1 DEF Disjoint
  <2>3. QED
    BY <1>1, <2>2, FS_Singleton
<1>2. CASE ~ \E b \in B : s \in b.samples
  <2>1. {b \in B : s \in b.samples} = {}
    BY <1>2
  <2>2. QED
    BY <1>2, <2>1, FS_EmptySet
<1>3. QED
  BY <1>1, <1>2

LEMMA Emission ==
  ASSUME DInv, NEW B \in SUBSET All, times' = Emitted(B)
  PROVE  /\ times' \in [Samples -> {0, 1}]
         /\ \A s \in Samples :
              times'[s] = IF \E b \in B : s \in b.samples THEN 1 ELSE times[s]
<1>1. ASSUME NEW s \in Samples
      PROVE  /\ times'[s] \in {0, 1}
             /\ times'[s] = IF \E b \in B : s \in b.samples THEN 1 ELSE times[s]
  <2>1. times'[s] = times[s] + (IF \E b \in B : s \in b.samples THEN 1 ELSE 0)
    BY EmittedOnce DEF Emitted, DInv
  <2>2. times[s] \in {0, 1}
    BY DEF DInv, OneFate
  <2>3. (\E b \in B : s \in b.samples) => times[s] = 0
    BY DEF DInv, OneFate
  <2>4. QED
    BY <2>1, <2>2, <2>3
<1>2. times' = [s \in Samples |-> times'[s]]
  BY DEF Emitted
<1>3. QED
  BY <1>1, <1>2

\* Emitting windows of a hand, whoever's: the part all three emissions share.
LEMMA Emits ==
  ASSUME DInv, NEW B \in SUBSET InHand, times' = Emitted(B),
         All' = All \ B, bufs' = bufs, InHand' = InHand \ B,
         UNCHANGED <<cur, samples, at, raced>>,
         \A w \in Writers : \/ pc'[w] = pc[w]
                            \/ pc[w] = "forward" /\ pc'[w] = "store"
  PROVE  /\ times' \in [Samples -> Nat] /\ Coherent' /\ Known' /\ Disjoint'
         /\ OneFate' /\ Alone' /\ NothingLost'
<1> USE DEF DInv, Busy
<1>1. /\ times' \in [Samples -> {0, 1}]
      /\ \A s \in Samples :
           times'[s] = IF \E b \in B : s \in b.samples THEN 1 ELSE times[s]
  BY Emission DEF All
<1>2. times' \in [Samples -> Nat]
  BY <1>1
<1>3. Coherent'
  BY DEF Coherent, All
<1>4. Known'
  <2>1. \A b \in B : b.samples \subseteq 1 .. samples
    BY DEF Known, All
  <2>2. \A s \in Samples : s > samples => times'[s] = 0
    BY <1>1, <2>1 DEF Known, TypeOK, Samples
  <2>3. QED
    BY <2>2 DEF Known
<1>5. Disjoint'
  BY DEF Disjoint
<1>6. OneFate'
  <2>1. \A b \in B : \A s \in b.samples :
          /\ s \notin raced
          /\ \A w \in Writers : Busy(w) => cur[w] # s
          /\ \A c \in All' : s \notin c.samples
    BY DEF OneFate, All, Disjoint
  <2>2. \A b \in All' : \A s \in b.samples : s \in Samples /\ times'[s] = 0
    BY <1>1, <2>1 DEF OneFate, TypeOK, Buffer, All
  <2>3. \A s \in raced : times'[s] = 0
    BY <1>1, <2>1 DEF OneFate, TypeOK
  <2>4. \A w \in Writers : Busy(w) => times'[cur[w]] = 0
    <3>1. \A w \in Writers : Busy(w) => cur[w] \in Samples
      BY SamplesAssumption DEF Known, Samples, TypeOK
    <3>2. QED
      BY <1>1, <2>1, <3>1 DEF OneFate
  <2>5. QED
    BY <1>1, <2>2, <2>3, <2>4 DEF OneFate
<1>7. Alone'
  BY DEF Alone, Single, Open
<1>8. NothingLost'
  <2>1. SUFFICES ASSUME NEW s \in 1 .. samples
                 PROVE  (\/ times[s] = 1 \/ Holding(s) # {} \/ s \in raced
                         \/ \E w \in Writers : cur[w] = s
                                         /\ pc[w] \in {"forward", "store"})'
    BY DEF NothingLost
  <2>2. s \in Samples
    BY SamplesAssumption DEF TypeOK, Samples
  <2>3. CASE times[s] = 1
    BY <1>1, <2>2, <2>3
  <2>4. CASE s \in raced
    BY <2>4
  <2>5. CASE Holding(s) # {}
    <3>1. PICK b \in All : s \in b.samples
      BY <2>5 DEF Holding, All
    <3>2. CASE b \in B
      BY <1>1, <2>2, <3>1, <3>2
    <3>3. CASE b \notin B
      BY <3>1, <3>3 DEF Holding, All
    <3>4. QED
      BY <3>2, <3>3
  <2>6. CASE \E w \in Writers : cur[w] = s /\ pc[w] \in {"forward", "store"}
    BY <2>6
  <2>7. QED
    BY <2>3, <2>4, <2>5, <2>6 DEF NothingLost
<1>9. QED
  BY <1>2, <1>3, <1>4, <1>5, <1>6, <1>7, <1>8

LEMMA ForwardStep ==
  ASSUME DInv, NEW w \in Writers, Forward(w)
  PROVE  DInv'
<1> USE DEF DInv
<1>1. /\ pc[w] = "forward" /\ pc' = [pc EXCEPT ![w] = "store"]
      /\ hand' = [hand EXCEPT ![w] = {}] /\ times' = Emitted(hand[w])
      /\ UNCHANGED <<cur, samples, at, bufs, flusher, flushing, closer,
                     closing, raced>>
  BY DEF Forward
<1>2. \A v \in Writers : hand'[v] = IF v = w THEN {} ELSE hand[v]
  BY <1>1 DEF TypeOK, OneHand
<1>3. InHand' = InHand \ hand[w] /\ hand[w] \subseteq InHand
  <2>1. \A b : b \in InHand' <=> b \in InHand /\ b \notin hand[w]
    BY <1>1, <1>2, InHandIs, InHandIsNext DEF OneHand
  <2>2. QED
    BY <2>1, InHandIs
<1>4. All' = All \ hand[w]
  BY <1>1, <1>3 DEF All, OneHand
<1>5. /\ times' \in [Samples -> Nat] /\ Coherent' /\ Known' /\ Disjoint'
      /\ OneFate' /\ Alone' /\ NothingLost'
  <2>1. \A v \in Writers : \/ pc'[v] = pc[v]
                           \/ pc[v] = "forward" /\ pc'[v] = "store"
    BY <1>1 DEF TypeOK
  <2>2. QED
    BY <1>1, <1>3, <1>4, <2>1, Emits
<1>6. OneHand'
  <2>1. \A v \in Writers : pc'[v] # "forward" => v = w \/ pc[v] # "forward"
    BY <1>1 DEF TypeOK
  <2>2. \A v \in Writers : hand'[v] \subseteq hand[v]
    BY <1>2
  <2>3. QED
    BY <1>1, <1>2, <1>3, <2>1, <2>2 DEF OneHand
<1>7. TypeOK'
  BY <1>1, <1>3, <1>5 DEF TypeOK
<1>8. QED
  BY <1>5, <1>6, <1>7

LEMMA FlusherStep ==
  ASSUME DInv, FlushEmits \/ FlushStops
  PROVE  DInv'
<1> USE DEF DInv
<1>1. CASE flushing # {} /\ FlushEmits
  <2>1. PICK b \in flushing :
          /\ flushing' = flushing \ {b} /\ times' = Emitted({b})
          /\ UNCHANGED <<flusher, writerVars, bufs, closer, closing, raced>>
    BY <1>1 DEF FlushEmits
  <2>2. UNCHANGED <<pc, cur, hand, samples, at>>
    BY <2>1 DEF writerVars
  <2>3. InHand' = InHand \ {b} /\ {b} \subseteq InHand
    <3>1. \A c : c \in InHand' <=> c \in InHand /\ c # b
      BY <2>1, <2>2, InHandIs, InHandIsNext DEF OneHand
    <3>2. QED
      BY <2>1, <3>1, InHandIs
  <2>4. All' = All \ {b}
    BY <2>1, <2>3 DEF All, OneHand
  <2>5. /\ times' \in [Samples -> Nat] /\ Coherent' /\ Known' /\ Disjoint'
        /\ OneFate' /\ Alone' /\ NothingLost'
    BY <2>1, <2>2, <2>3, <2>4, Emits
  <2>6. OneHand'
    BY <1>1, <2>1, <2>2, <2>3 DEF OneHand, FlushEmits
  <2>7. TypeOK'
    BY <2>1, <2>2, <2>3, <2>5 DEF TypeOK
  <2>8. QED
    BY <2>5, <2>6, <2>7
<1>2. CASE FlushStops \/ (flushing = {} /\ FlushEmits)
  <2>1. /\ flushing = {} /\ flusher' \in {"tick", "gone"}
        /\ UNCHANGED <<writerVars, bufs, flushing, closer, closing, times,
                       raced>>
    BY <1>2 DEF FlushStops, FlushEmits, OneHand
  <2>2. InHand' = InHand /\ All' = All
    BY <2>1 DEF InHand, All, writerVars
  <2>3. TypeOK' /\ OneHand'
    BY <2>1, <2>2 DEF TypeOK, OneHand, writerVars
  <2>4. Coherent' /\ Known' /\ Disjoint' /\ OneFate' /\ Alone' /\ NothingLost'
    BY <2>1, <2>2 DEF Coherent, Known, Disjoint, OneFate, Alone, Single, Busy,
       Open, NothingLost, Holding, writerVars, All
  <2>5. QED
    BY <2>3, <2>4
<1>3. QED
  BY <1>1, <1>2

LEMMA CloseStep ==
  ASSUME DInv, CloseCancels \/ CloseEmits
  PROVE  DInv'
<1> USE DEF DInv
<1>1. CASE closing # {} /\ CloseEmits
  <2>1. PICK b \in closing :
          /\ closing' = closing \ {b} /\ times' = Emitted({b})
          /\ UNCHANGED <<closer, writerVars, bufs, flusher, flushing, raced>>
    BY <1>1 DEF CloseEmits
  <2>2. UNCHANGED <<pc, cur, hand, samples, at>>
    BY <2>1 DEF writerVars
  <2>3. InHand' = InHand \ {b} /\ {b} \subseteq InHand
    <3>1. \A c : c \in InHand' <=> c \in InHand /\ c # b
      BY <2>1, <2>2, InHandIs, InHandIsNext DEF OneHand
    <3>2. QED
      BY <2>1, <3>1, InHandIs
  <2>4. All' = All \ {b}
    BY <2>1, <2>3 DEF All, OneHand
  <2>5. /\ times' \in [Samples -> Nat] /\ Coherent' /\ Known' /\ Disjoint'
        /\ OneFate' /\ Alone' /\ NothingLost'
    BY <2>1, <2>2, <2>3, <2>4, Emits
  <2>6. OneHand'
    BY <1>1, <2>1, <2>2, <2>3 DEF OneHand, CloseEmits
  <2>7. TypeOK'
    BY <2>1, <2>2, <2>3, <2>5 DEF TypeOK
  <2>8. QED
    BY <2>5, <2>6, <2>7
<1>2. CASE CloseCancels \/ (closing = {} /\ CloseEmits)
  <2>1. /\ closing = {} /\ closer' \in {"cancelled", "closed"}
        /\ UNCHANGED <<writerVars, bufs, flusher, flushing, closing, times,
                       raced>>
    BY <1>2 DEF CloseCancels, CloseEmits, OneHand
  <2>2. InHand' = InHand /\ All' = All
    BY <2>1 DEF InHand, All, writerVars
  <2>3. TypeOK' /\ OneHand'
    BY <2>1, <2>2 DEF TypeOK, OneHand, writerVars
  <2>4. Coherent' /\ Known' /\ Disjoint' /\ OneFate' /\ Alone' /\ NothingLost'
    BY <2>1, <2>2 DEF Coherent, Known, Disjoint, OneFate, Alone, Single, Busy,
       Open, NothingLost, Holding, writerVars, All
  <2>5. QED
    BY <2>3, <2>4
<1>3. QED
  BY <1>1, <1>2

\* Windows change hands: the flusher or Close takes some out of the buffers.
LEMMA Takes ==
  ASSUME DInv, NEW B \in SUBSET bufs, bufs' = bufs \ B,
         InHand' = InHand \cup B,
         UNCHANGED <<writerVars, times, raced>>
  PROVE  /\ Coherent' /\ Known' /\ Disjoint' /\ OneFate' /\ Alone'
         /\ NothingLost' /\ All' = All
<1> USE DEF DInv
<1>1. All' = All
  BY DEF All
<1>2. Coherent' /\ Known' /\ Disjoint' /\ OneFate'
  BY <1>1 DEF Coherent, Known, Disjoint, OneFate, Busy, writerVars, All
<1>3. Alone'
  BY DEF Alone, Single, Busy, Open, writerVars
<1>4. NothingLost'
  BY <1>1 DEF NothingLost, Holding, writerVars, All
<1>5. QED
  BY <1>1, <1>2, <1>3, <1>4

LEMMA TakeStep ==
  ASSUME DInv, FlushTakes \/ CloseTakes
  PROVE  DInv'
<1> USE DEF DInv
<1>1. CASE FlushTakes
  <2>1. PICK B \in SUBSET bufs :
          /\ flusher = "tick" /\ flusher' = "emit"
          /\ flushing' = B /\ bufs' = bufs \ B
          /\ UNCHANGED <<writerVars, closer, closing, times, raced>>
    BY <1>1 DEF FlushTakes, Idle, Removed
  <2>2. UNCHANGED <<pc, cur, hand, samples, at>>
    BY <2>1 DEF writerVars
  <2>3. InHand' = InHand \cup B
    <3>1. \A c : c \in InHand' <=> c \in InHand \/ c \in B
      BY <2>1, <2>2, InHandIs, InHandIsNext DEF OneHand
    <3>2. QED
      BY <3>1
  <2>4. /\ Coherent' /\ Known' /\ Disjoint' /\ OneFate' /\ Alone'
        /\ NothingLost' /\ All' = All
    BY <2>1, <2>3, Takes
  <2>5. OneHand'
    <3>1. \A v \in Writers : hand[v] \subseteq InHand
      BY InHandIs
    <3>2. closing \subseteq InHand
      BY InHandIs
    <3>3. QED
      BY <2>1, <2>2, <2>3, <3>1, <3>2 DEF OneHand
  <2>6. TypeOK'
    BY <2>1, <2>2, <2>4 DEF TypeOK, All
  <2>7. QED
    BY <2>4, <2>5, <2>6
<1>2. CASE CloseTakes
  <2>1. /\ closer = "cancelled" /\ closer' = "emit"
        /\ closing' = bufs /\ bufs' = bufs \ bufs
        /\ UNCHANGED <<writerVars, flusher, flushing, times, raced>>
    BY <1>2 DEF CloseTakes, Pending
  <2>2. UNCHANGED <<pc, cur, hand, samples, at>>
    BY <2>1 DEF writerVars
  <2>3. InHand' = InHand \cup bufs
    <3>1. \A c : c \in InHand' <=> c \in InHand \/ c \in bufs
      BY <2>1, <2>2, InHandIs, InHandIsNext DEF OneHand
    <3>2. QED
      BY <3>1
  <2>4. /\ Coherent' /\ Known' /\ Disjoint' /\ OneFate' /\ Alone'
        /\ NothingLost' /\ All' = All
    BY <2>1, <2>3, Takes
  <2>5. OneHand'
    <3>1. \A v \in Writers : hand[v] \subseteq InHand
      BY InHandIs
    <3>2. flushing \subseteq InHand
      BY InHandIs
    <3>3. QED
      BY <2>1, <2>2, <2>3, <3>1, <3>2 DEF OneHand
  <2>6. TypeOK'
    BY <2>1, <2>2, <2>4 DEF TypeOK, All
  <2>7. QED
    BY <2>4, <2>5, <2>6
<1>3. QED
  BY <1>1, <1>2

LEMMA StoreStep ==
  ASSUME DInv, NEW w \in Writers, Store(w)
  PROVE  DInv'
<1> DEFINE s == cur[w]
           k == at[s].series
           new == Fresh(k, at[s].win, s)
<1> USE DEF DInv
<1>1. /\ pc[w] = "store" /\ pc' = [pc EXCEPT ![w] = "idle"]
      /\ bufs' = (bufs \ Open(k)) \cup {new}
      /\ raced' = raced \cup UNION {b.samples : b \in Open(k)}
      /\ UNCHANGED <<cur, hand, samples, at, flusher, flushing, closer,
                     closing, times>>
  BY DEF Store
<1>2. /\ s \in 1 .. samples /\ s \in Samples
      /\ at[s] \in [series : Series, win : Windows]
  BY <1>1, SamplesAssumption DEF Known, Busy, TypeOK, Samples
<1>3. new \in Buffer /\ new.series = k /\ new.win = at[s].win /\ new.samples = {s}
  BY <1>2 DEF Fresh, Buffer
<1>4. InHand' = InHand
  BY <1>1 DEF InHand
<1>5. Open(k) \subseteq bufs /\ \A b \in bufs : b.series = k <=> b \in Open(k)
  BY DEF Open
<1>6. \A b \in All : s \notin b.samples
  BY <1>1 DEF OneFate, Busy
<1>7. new \notin All
  BY <1>3, <1>6
<1>8. All' = (All \ Open(k)) \cup {new}
  BY <1>1, <1>4, <1>5 DEF All, OneHand
<1>9. \A v \in Writers : /\ v # w => pc'[v] = pc[v]
                         /\ Busy(v)' <=> v # w /\ Busy(v)
  BY <1>1 DEF Busy, TypeOK
<1>10. \A x : x \in raced' <=> \/ x \in raced
                              \/ \E b \in Open(k) : x \in b.samples
  BY <1>1
<1>11. TypeOK'
  <2>1. bufs' \cup InHand' \subseteq Buffer
    BY <1>1, <1>3, <1>4, <1>5 DEF TypeOK
  <2>2. \A b, c \in bufs' : b.series = c.series => b = c
    BY <1>1, <1>3, <1>5 DEF TypeOK
  <2>3. raced' \subseteq Samples
    BY <1>5, <1>10 DEF TypeOK, Buffer
  <2>4. pc' \in [Writers -> {"idle", "forward", "store"}]
    BY <1>1 DEF TypeOK
  <2>5. QED
    BY <1>1, <2>1, <2>2, <2>3, <2>4 DEF TypeOK
<1>12. Coherent'
  <2>1. at[s] = [series |-> k, win |-> at[s].win]
    BY <1>2
  <2>2. QED
    BY <1>1, <1>3, <1>8, <2>1 DEF Coherent, All
<1>13. Known'
  <2>1. \A x \in raced' : x \in 1 .. samples
    BY <1>5, <1>10 DEF Known, All
  <2>2. QED
    BY <1>1, <1>2, <1>3, <1>8, <1>9, <2>1 DEF Known
<1>14. OneHand'
  <2>1. \A v \in Writers : pc'[v] # "forward" => v = w \/ pc[v] # "forward"
    BY <1>9
  <2>2. bufs' \cap InHand' = {}
    BY <1>1, <1>4, <1>7 DEF OneHand, All
  <2>3. QED
    BY <1>1, <2>1, <2>2 DEF OneHand
<1>15. Disjoint'
  BY <1>3, <1>6, <1>8 DEF Disjoint
<1>16. OneFate'
  <2>1. \A b \in All' : \A x \in b.samples :
          /\ times[x] = 0 /\ x \notin raced
          /\ \A b2 \in Open(k) : x \notin b2.samples
    <3>1. SUFFICES ASSUME NEW b \in All', NEW x \in b.samples
                   PROVE  /\ times[x] = 0 /\ x \notin raced
                          /\ \A b2 \in Open(k) : x \notin b2.samples
      OBVIOUS
    <3>2. CASE b = new
      BY <1>1, <1>3, <1>5, <1>6, <3>2 DEF OneFate, Busy, All
    <3>3. CASE b \in All \ Open(k)
      BY <1>5, <3>3 DEF OneFate, Disjoint, All
    <3>4. QED
      BY <1>8, <3>2, <3>3
  <2>2. \A b \in All' : \A x \in b.samples :
          \A v \in Writers : Busy(v)' => cur[v] # x
    <3>1. SUFFICES ASSUME NEW b \in All', NEW x \in b.samples,
                          NEW v \in Writers, v # w, Busy(v)
                   PROVE  cur[v] # x
      BY <1>9
    <3>2. CASE b = new
      BY <1>1, <1>3, <3>1, <3>2 DEF OneFate, Busy
    <3>3. CASE b \in All
      BY <3>1, <3>3 DEF OneFate
    <3>4. QED
      BY <1>8, <3>2, <3>3
  <2>3. \A x \in raced' : times[x] = 0
    BY <1>5, <1>10 DEF OneFate, All
  <2>4. \A v \in Writers : Busy(v)' => times[cur[v]] = 0 /\ cur[v] \notin raced'
    BY <1>5, <1>9, <1>10 DEF OneFate, All
  <2>5. \A v, u \in Writers : Busy(v)' /\ Busy(u)' /\ cur[v] = cur[u] => v = u
    BY <1>9 DEF OneFate
  <2>6. QED
    BY <1>1, <1>10, <2>1, <2>2, <2>3, <2>4, <2>5 DEF OneFate
<1>17. Alone'
  BY <1>1, <1>9, <1>10 DEF Alone, Single, Busy
<1>18. NothingLost'
  <2>1. SUFFICES ASSUME NEW x \in 1 .. samples
                 PROVE  (\/ times[x] = 1 \/ Holding(x) # {} \/ x \in raced
                         \/ \E v \in Writers : cur[v] = x
                                         /\ pc[v] \in {"forward", "store"})'
    BY <1>1 DEF NothingLost
  <2>2. CASE \E b \in All : x \in b.samples
    BY <1>8, <1>10, <2>2 DEF Holding, All
  <2>3. CASE \E v \in Writers : cur[v] = x /\ pc[v] \in {"forward", "store"}
    <3>1. CASE x = s
      BY <1>3, <1>8, <3>1 DEF Holding, All
    <3>2. CASE x # s
      BY <1>1, <1>9, <2>3, <3>2
    <3>3. QED
      BY <3>1, <3>2
  <2>4. QED
    BY <1>1, <1>10, <2>1, <2>2, <2>3 DEF NothingLost, Holding, All
<1>19. QED
  BY <1>11, <1>12, <1>13, <1>14, <1>15, <1>16, <1>17, <1>18

\* The three ways a sample is met in the first critical section: by another
\* window of its series, by none, by its own.
LEMMA WriteCases ==
  ASSUME DInv, NEW w \in Writers, Write(w)
  PROVE  \E k \in Series, t \in Windows :
           /\ pc[w] = "idle" /\ samples < MaxSamples /\ samples' = samples + 1
           /\ DOMAIN at' = 1 .. samples + 1
           /\ \A x \in 1 .. samples : at'[x] = at[x]
           /\ at'[samples + 1] = [series |-> k, win |-> t]
           /\ cur' = [cur EXCEPT ![w] = samples + 1]
           /\ UNCHANGED <<flusher, flushing, closer, closing, times, raced>>
           /\ \/ \E b \in bufs :
                   /\ b.series = k /\ b.win # t /\ bufs' = bufs \ {b}
                   /\ hand' = [hand EXCEPT ![w] = {b}]
                   /\ pc' = [pc EXCEPT ![w] = "forward"]
              \/ /\ Open(k) = {} /\ bufs' = bufs \cup {Fresh(k, t, samples + 1)}
                 /\ hand' = hand /\ pc' = pc
              \/ \E b \in bufs :
                   /\ b.series = k /\ b.win = t
                   /\ bufs' = (bufs \ {b}) \cup
                        {[b EXCEPT !.samples = @ \cup {samples + 1}]}
                   /\ hand' = hand /\ pc' = pc
<1> DEFINE n == samples + 1
           other(k, t) == {b \in Open(k) : Differs(b, t)}
<1> USE DEF DInv
<1>1. PICK k \in Series, t \in Windows :
        /\ at' = [x \in DOMAIN at \cup {n} |->
                    IF x = n THEN [series |-> k, win |-> t] ELSE at[x]]
        /\ cur' = [cur EXCEPT ![w] = n]
        /\ hand' = [hand EXCEPT ![w] = other(k, t)]
        /\ pc' = [pc EXCEPT ![w] = IF other(k, t) = {} THEN "idle"
                                                      ELSE "forward"]
        /\ bufs' = IF other(k, t) # {} THEN Removed(other(k, t))
                   ELSE IF Open(k) = {} THEN bufs \cup {Fresh(k, t, n)}
                   ELSE {IF b.series = k
                         THEN [b EXCEPT !.samples = @ \cup {n}]
                         ELSE b : b \in bufs}
  BY DEF Write
<1>2. /\ pc[w] = "idle" /\ samples < MaxSamples /\ samples' = n
      /\ at' = [x \in DOMAIN at \cup {n} |->
                  IF x = n THEN [series |-> k, win |-> t] ELSE at[x]]
      /\ cur' = [cur EXCEPT ![w] = n]
      /\ UNCHANGED <<flusher, flushing, closer, closing, times, raced>>
  BY <1>1 DEF Write
<1>3. /\ DOMAIN at' = 1 .. n /\ \A x \in 1 .. samples : at'[x] = at[x]
      /\ at'[n] = [series |-> k, win |-> t]
  <2>1. DOMAIN at \cup {n} = 1 .. n /\ n \notin 1 .. samples
    BY DEF TypeOK
  <2>2. QED
    BY <1>1, <2>1 DEF TypeOK
<1>4. hand[w] = {} /\ hand = [hand EXCEPT ![w] = {}]
                   /\ pc = [pc EXCEPT ![w] = "idle"]
  BY <1>2 DEF OneHand, TypeOK
<1>5. CASE other(k, t) # {}
  <2>1. PICK b \in other(k, t) : TRUE
    BY <1>5
  <2>2. b \in bufs /\ b.series = k /\ b.win # t
    BY <2>1 DEF Open, Differs
  <2>3. other(k, t) = {b}
    BY <2>1, <2>2 DEF Open, TypeOK
  <2>4. /\ bufs' = bufs \ {b} /\ hand' = [hand EXCEPT ![w] = {b}]
        /\ pc' = [pc EXCEPT ![w] = "forward"]
    BY <1>1, <1>5, <2>3 DEF Removed
  <2>5. QED
    BY <1>2, <1>3, <2>2, <2>4
<1>6. CASE other(k, t) = {} /\ Open(k) = {}
  BY <1>1, <1>2, <1>3, <1>4, <1>6
<1>7. CASE other(k, t) = {} /\ Open(k) # {}
  <2>1. PICK b \in Open(k) : TRUE
    BY <1>7
  <2>2. b \in bufs /\ b.series = k /\ b.win = t
    BY <1>7, <2>1 DEF Open, Differs
  <2>3. \A c \in bufs : c.series = k <=> c = b
    BY <2>2 DEF TypeOK
  <2>4. bufs' = (bufs \ {b}) \cup {[b EXCEPT !.samples = @ \cup {n}]}
    BY <1>1, <1>7, <2>2, <2>3
  <2>5. hand' = hand /\ pc' = pc
    BY <1>1, <1>4, <1>7
  <2>6. QED
    BY <1>2, <1>3, <2>2, <2>4, <2>5
<1>8. QED
  BY <1>5, <1>6, <1>7

\* Another window of the series is there: it changes to the writer's hand.
LEMMA WriteMeetsOther ==
  ASSUME DInv, NEW w \in Writers, NEW k \in Series, NEW t \in Windows,
         NEW b \in bufs, b.series = k, b.win # t,
         pc[w] = "idle", samples < MaxSamples, samples' = samples + 1,
         DOMAIN at' = 1 .. samples + 1,
         \A x \in 1 .. samples : at'[x] = at[x],
         at'[samples + 1] = [series |-> k, win |-> t],
         cur' = [cur EXCEPT ![w] = samples + 1],
         UNCHANGED <<flusher, flushing, closer, closing, times, raced>>,
         bufs' = bufs \ {b}, hand' = [hand EXCEPT ![w] = {b}],
         pc' = [pc EXCEPT ![w] = "forward"]
  PROVE  DInv'
<1> DEFINE n == samples + 1
<1> USE DEF DInv
<1>1. /\ n \in Samples /\ samples \in Nat /\ n \notin 1 .. samples
      /\ 1 .. n = (1 .. samples) \cup {n}
  BY SamplesAssumption DEF TypeOK, Samples
<1>2. \A v \in Writers :
        /\ cur'[v] = IF v = w THEN n ELSE cur[v]
        /\ hand'[v] = IF v = w THEN {b} ELSE hand[v]
        /\ pc'[v] = IF v = w THEN "forward" ELSE pc[v]
        /\ Busy(v)' <=> v = w \/ Busy(v)
  BY DEF TypeOK, Busy
<1>3. InHand' = InHand \cup {b}
  <2>1. \A c : c \in InHand' <=> c \in InHand \/ c = b
    BY <1>2, InHandIs, InHandIsNext DEF OneHand
  <2>2. QED
    BY <2>1
<1>4. All' = All
  BY <1>3 DEF All
<1>5. \A c \in All : n \notin c.samples /\ c.samples \subseteq 1 .. samples
  BY <1>1 DEF Known
<1>6. TypeOK'
  <2>1. /\ pc' \in [Writers -> {"idle", "forward", "store"}]
        /\ cur' \in [Writers -> Samples \cup {None}]
        /\ hand' \in [Writers -> SUBSET Buffer]
    BY <1>1, <1>4 DEF TypeOK
  <2>2. samples' \in 0 .. MaxSamples /\ DOMAIN at' = 1 .. samples'
    BY <1>1, SamplesAssumption
  <2>3. \A x \in DOMAIN at' : at'[x] \in [series : Series, win : Windows]
    BY <1>1 DEF TypeOK
  <2>4. bufs' \cup InHand' \subseteq Buffer
    BY <1>4 DEF TypeOK, All
  <2>5. QED
    BY <2>1, <2>2, <2>3, <2>4 DEF TypeOK
<1>7. Coherent'
  BY <1>4, <1>5 DEF Coherent, All
<1>8. Known'
  <2>1. \A v \in Writers : Busy(v)' => cur'[v] \in 1 .. n
    BY <1>1, <1>2 DEF Known
  <2>2. raced \subseteq 1 .. n /\ \A s \in Samples : s > n => times[s] = 0
    BY <1>1 DEF Known, Samples
  <2>3. QED
    BY <1>1, <1>4, <1>5, <2>1, <2>2 DEF Known
<1>9. OneHand'
  <2>1. \A v \in Writers : b \notin hand[v] /\ hand[w] = {}
    BY InHandIs DEF OneHand
  <2>2. b \notin flushing /\ b \notin closing
    BY InHandIs DEF OneHand
  <2>3. QED
    BY <1>2, <1>3, <2>1, <2>2 DEF OneHand
<1>10. Disjoint'
  BY <1>4 DEF Disjoint
<1>11. times[n] = 0 /\ n \notin raced /\ \A v \in Writers : Busy(v) => cur[v] # n
  BY <1>1 DEF Known
<1>12. OneFate'
  BY <1>2, <1>4, <1>5, <1>11 DEF OneFate
<1>13. Alone'
  <2>1. SUFFICES ASSUME Single PROVE Open(k)' = {}
    BY <1>2 DEF Alone, Single, Busy
  <2>2. QED
    BY DEF Open, TypeOK
<1>14. NothingLost'
  <2>1. SUFFICES ASSUME NEW x \in 1 .. n
                 PROVE  (\/ times[x] = 1 \/ Holding(x) # {} \/ x \in raced
                         \/ \E v \in Writers : cur[v] = x
                                         /\ pc[v] \in {"forward", "store"})'
    BY DEF NothingLost
  <2>2. CASE x = n
    BY <1>2, <2>2
  <2>3. CASE x \in 1 .. samples
    BY <1>2, <1>4, <2>3 DEF NothingLost, Holding, All
  <2>4. QED
    BY <1>1, <2>2, <2>3
<1>15. QED
  BY <1>6, <1>7, <1>8, <1>9, <1>10, <1>12, <1>13, <1>14

\* No window of the series is there, or its own: the sample is stored.  The
\* window that holds it afterwards takes the place of the one before, if any.
LEMMA WriteStores ==
  ASSUME DInv, NEW w \in Writers, NEW k \in Series, NEW t \in Windows,
         NEW old \in SUBSET bufs, NEW new \in Buffer,
         old = Open(k), \A b \in old : b.win = t,
         new.series = k, new.win = t,
         \A x : x \in new.samples <=> \/ x = samples + 1
                                      \/ \E b \in old : x \in b.samples,
         pc[w] = "idle", samples < MaxSamples, samples' = samples + 1,
         DOMAIN at' = 1 .. samples + 1,
         \A x \in 1 .. samples : at'[x] = at[x],
         at'[samples + 1] = [series |-> k, win |-> t],
         cur' = [cur EXCEPT ![w] = samples + 1],
         UNCHANGED <<pc, hand, flusher, flushing, closer, closing, times,
                     raced>>,
         bufs' = (bufs \ old) \cup {new}
  PROVE  DInv'
<1> DEFINE n == samples + 1
<1> USE DEF DInv
<1>1. /\ n \in Samples /\ samples \in Nat /\ n \notin 1 .. samples
      /\ 1 .. n = (1 .. samples) \cup {n}
  BY SamplesAssumption DEF TypeOK, Samples
<1>2. \A v \in Writers :
        /\ Busy(v)' <=> Busy(v)
        /\ Busy(v) => v # w /\ cur'[v] = cur[v]
  BY DEF TypeOK, Busy
<1>3. InHand' = InHand
  BY DEF InHand
<1>4. \A c \in All : n \notin c.samples /\ c.samples \subseteq 1 .. samples
  BY <1>1 DEF Known
<1>5. new \notin All
  BY <1>4
<1>6. All' = (All \ old) \cup {new}
  BY <1>3 DEF All, OneHand
<1>7. \A c \in All \ old : c.samples \cap new.samples = {}
  BY <1>4 DEF Disjoint, All
<1>8. TypeOK'
  <2>1. cur' \in [Writers -> Samples \cup {None}]
    BY <1>1 DEF TypeOK
  <2>2. samples' \in 0 .. MaxSamples /\ DOMAIN at' = 1 .. samples'
    BY <1>1, SamplesAssumption
  <2>3. \A x \in DOMAIN at' : at'[x] \in [series : Series, win : Windows]
    BY <1>1 DEF TypeOK
  <2>4. bufs' \cup InHand' \subseteq Buffer
    BY <1>3 DEF TypeOK
  <2>5. \A b, c \in bufs' : b.series = c.series => b = c
    BY DEF TypeOK, Open
  <2>6. QED
    BY <2>1, <2>2, <2>3, <2>4, <2>5 DEF TypeOK
<1>9. Coherent'
  <2>1. \A x \in new.samples : at'[x] = [series |-> k, win |-> t]
    BY <1>4 DEF Coherent, Open, All
  <2>2. \A b \in All \ old : \A x \in b.samples : at'[x] = at[x]
    BY <1>4
  <2>3. QED
    BY <1>6, <2>1, <2>2 DEF Coherent, All
<1>10. Known'
  <2>1. new.samples \subseteq 1 .. n
    BY <1>1, <1>4 DEF All
  <2>2. \A v \in Writers : Busy(v)' => cur'[v] \in 1 .. n
    BY <1>1, <1>2 DEF Known
  <2>3. raced \subseteq 1 .. n /\ \A s \in Samples : s > n => times[s] = 0
    BY <1>1 DEF Known, Samples
  <2>4. QED
    BY <1>1, <1>4, <1>6, <2>1, <2>2, <2>3 DEF Known
<1>11. OneHand'
  BY <1>3, <1>5 DEF OneHand, All
<1>12. Disjoint'
  BY <1>6, <1>7 DEF Disjoint
<1>13. times[n] = 0 /\ n \notin raced /\ \A v \in Writers : Busy(v) => cur[v] # n
  BY <1>1 DEF Known
<1>14. OneFate'
  <2>1. \A b \in All' : \A x \in b.samples :
          /\ times[x] = 0 /\ x \notin raced
          /\ \A v \in Writers : Busy(v) => cur[v] # x
    BY <1>6, <1>13 DEF OneFate, All
  <2>2. QED
    BY <1>2, <2>1 DEF OneFate
<1>15. Alone'
  <2>1. SUFFICES ASSUME Single, NEW v \in Writers, Busy(v) PROVE FALSE
    BY <1>2 DEF Alone, Single
  <2>2. QED
    BY <1>2, <2>1 DEF Single
<1>16. NothingLost'
  <2>1. SUFFICES ASSUME NEW x \in 1 .. n
                 PROVE  (\/ times[x] = 1 \/ Holding(x) # {} \/ x \in raced
                         \/ \E v \in Writers : cur[v] = x
                                         /\ pc[v] \in {"forward", "store"})'
    BY DEF NothingLost
  <2>2. CASE x \in new.samples
    BY <1>6, <2>2 DEF Holding, All
  <2>3. CASE x \in 1 .. samples /\ x \notin new.samples
    <3>1. CASE Holding(x) # {}
      BY <1>6, <2>3, <3>1 DEF Holding, All
    <3>2. CASE \E v \in Writers : cur[v] = x /\ pc[v] \in {"forward", "store"}
      BY <1>2, <3>2 DEF Busy
    <3>3. QED
      BY <2>3, <3>1, <3>2 DEF NothingLost
  <2>4. QED
    BY <1>1, <2>2, <2>3
<1>17. QED
  BY <1>8, <1>9, <1>10, <1>11, <1>12, <1>14, <1>15, <1>16

LEMMA WriteStep ==
  ASSUME DInv, NEW w \in Writers, Write(w)
  PROVE  DInv'
<1> DEFINE n == samples + 1
<1>1. PICK k \in Series, t \in Windows :
        /\ pc[w] = "idle" /\ samples < MaxSamples /\ samples' = n
        /\ DOMAIN at' = 1 .. n
        /\ \A x \in 1 .. samples : at'[x] = at[x]
        /\ at'[n] = [series |-> k, win |-> t]
        /\ cur' = [cur EXCEPT ![w] = n]
        /\ UNCHANGED <<flusher, flushing, closer, closing, times, raced>>
        /\ \/ \E b \in bufs :
                /\ b.series = k /\ b.win # t /\ bufs' = bufs \ {b}
                /\ hand' = [hand EXCEPT ![w] = {b}]
                /\ pc' = [pc EXCEPT ![w] = "forward"]
           \/ /\ Open(k) = {} /\ bufs' = bufs \cup {Fresh(k, t, n)}
              /\ hand' = hand /\ pc' = pc
           \/ \E b \in bufs :
                /\ b.series = k /\ b.win = t
                /\ bufs' = (bufs \ {b}) \cup
                             {[b EXCEPT !.samples = @ \cup {n}]}
                /\ hand' = hand /\ pc' = pc
  BY WriteCases
<1>2. /\ pc[w] = "idle" /\ samples < MaxSamples /\ samples' = n
      /\ DOMAIN at' = 1 .. n
      /\ \A x \in 1 .. samples : at'[x] = at[x]
      /\ at'[n] = [series |-> k, win |-> t]
      /\ cur' = [cur EXCEPT ![w] = n]
      /\ UNCHANGED <<flusher, flushing, closer, closing, times, raced>>
  BY <1>1
<1> n \in Samples
  BY <1>2, SamplesAssumption DEF DInv, TypeOK, Samples
<1>3. CASE \E b \in bufs :
             /\ b.series = k /\ b.win # t /\ bufs' = bufs \ {b}
             /\ hand' = [hand EXCEPT ![w] = {b}]
             /\ pc' = [pc EXCEPT ![w] = "forward"]
  BY <1>2, <1>3, WriteMeetsOther
<1>4. CASE /\ Open(k) = {} /\ bufs' = bufs \cup {Fresh(k, t, n)}
           /\ hand' = hand /\ pc' = pc
  <2> DEFINE new == Fresh(k, t, n)
             old == Open(k)
  <2>1. new \in Buffer /\ new.series = k /\ new.win = t /\ new.samples = {n}
    BY DEF Fresh, Buffer
  <2>2. /\ bufs' = (bufs \ old) \cup {new} /\ old \in SUBSET bufs
        /\ \A b \in old : b.win = t
    BY <1>4
  <2>3. \A x : x \in new.samples <=> x = n \/ \E b \in old : x \in b.samples
    BY <1>4, <2>1
  <2>4. old = Open(k) /\ UNCHANGED <<pc, hand>>
    BY <1>4
  <2> HIDE DEF new, old
  <2>5. QED
    BY <1>2, <2>1, <2>2, <2>3, <2>4, WriteStores
<1>5. CASE \E b \in bufs :
             /\ b.series = k /\ b.win = t
             /\ bufs' = (bufs \ {b}) \cup {[b EXCEPT !.samples = @ \cup {n}]}
             /\ hand' = hand /\ pc' = pc
  <2>1. PICK b \in bufs :
          /\ b.series = k /\ b.win = t
          /\ bufs' = (bufs \ {b}) \cup {[b EXCEPT !.samples = @ \cup {n}]}
          /\ hand' = hand /\ pc' = pc
    BY <1>5
  <2> DEFINE new == [b EXCEPT !.samples = @ \cup {n}]
             old == Open(k)
  <2>2. old = {b}
    BY <2>1 DEF Open, DInv, TypeOK
  <2>3. /\ new \in Buffer /\ new.series = k /\ new.win = t
        /\ new.samples = b.samples \cup {n}
    BY <2>1 DEF DInv, TypeOK, Buffer
  <2>4. /\ bufs' = (bufs \ old) \cup {new} /\ old \in SUBSET bufs
        /\ \A c \in old : c.win = t
    BY <2>1, <2>2
  <2>5. \A x : x \in new.samples <=> x = n \/ \E c \in old : x \in c.samples
    BY <2>2, <2>3
  <2>6. old = Open(k) /\ UNCHANGED <<pc, hand>>
    BY <2>1
  <2> HIDE DEF new, old
  <2>7. QED
    BY <1>2, <2>3, <2>4, <2>5, <2>6, WriteStores
<1>6. QED
  BY <1>1, <1>3, <1>4, <1>5

-----------------------------------------------------------------------------
LEMMA DInit == Init => DInv
<1> SUFFICES ASSUME Init PROVE DInv
  OBVIOUS
<1>1. InHand = {} /\ All = {} /\ \A w \in Writers : ~Busy(w) /\ hand[w] = {}
  BY InHandIs DEF Init, All, Busy
<1>2. TypeOK
  <2>1. samples \in 0 .. MaxSamples /\ DOMAIN at = 1 .. samples
    BY SamplesAssumption DEF Init
  <2>2. /\ pc \in [Writers -> {"idle", "forward", "store"}]
        /\ cur \in [Writers -> Samples \cup {None}]
        /\ hand \in [Writers -> SUBSET Buffer]
        /\ times \in [Samples -> Nat] /\ raced \subseteq Samples
    BY DEF Init
  <2>3. /\ flusher \in {"tick", "emit", "gone"}
        /\ closer \in {"open", "cancelled", "emit", "closed"}
    BY DEF Init
  <2>4. \A s \in DOMAIN at : at[s] \in [series : Series, win : Windows]
    BY DEF Init
  <2>5. bufs = {}
    BY DEF Init
  <2>6. QED
    BY <1>1, <2>1, <2>2, <2>3, <2>4, <2>5 DEF TypeOK
<1>3. Coherent /\ Disjoint /\ OneHand /\ Known
  BY <1>1 DEF Init, Coherent, Disjoint, OneHand, Known, All
<1>4. OneFate /\ Alone
  BY <1>1 DEF Init, OneFate, Alone
<1>5. NothingLost
  <2>1. 1 .. samples = {}
    BY DEF Init
  <2>2. QED
    BY <2>1 DEF NothingLost
<1>6. QED
  BY <1>2, <1>3, <1>4, <1>5 DEF DInv

LEMMA DNext == DInv /\ [Next]_vars => DInv'
<1> SUFFICES ASSUME DInv, [Next]_vars PROVE DInv'
  OBVIOUS
<1>1. CASE UNCHANGED vars
  BY <1>1 DEF vars, writerVars, DInv, TypeOK, Coherent, Known, OneHand,
     Disjoint, OneFate, Alone, Single, Busy, Open, NothingLost, Holding, All,
     InHand
<1>2. CASE Next
  BY <1>2, WriteStep, ForwardStep, StoreStep, FlusherStep, CloseStep, TakeStep
     DEF Next, Flusher, Close
<1>3. QED
  BY <1>1, <1>2

THEOREM DInvCorrect == Spec => []DInv
BY DInit, DNext, PTL DEF Spec

\* Types, and one window for a series at a time (downsample.go:52-76).
THEOREM TypeCorrect == Spec => []TypeOK
<1>1. DInv => TypeOK
  BY DEF DInv
<1>2. QED
  BY <1>1, DInvCorrect, PTL

\* An aggregate is of one series and one window (downsample.go:119-160, 185-231).
THEOREM CoherentCorrect == Spec => []Coherent
<1>1. DInv => Coherent
  BY DEF DInv
<1>2. QED
  BY <1>1, DInvCorrect, PTL

\* A sample is held by one buffer or was emitted once, however writers, flusher
\* and Close interleave (downsample.go:130-137, 169-180, 246-258).
THEOREM NeverTwiceCorrect == Spec => []NeverTwice
<1>1. DInv => NeverTwice
  <2>1. SUFFICES ASSUME DInv, NEW s \in Samples
                 PROVE  times[s] + Cardinality(Holding(s)) <= 1
    BY DEF NeverTwice
  <2>2. Cardinality(Holding(s)) =
          IF \E b \in All : s \in b.samples THEN 1 ELSE 0
    BY <2>1, EmittedOnce DEF Holding, All, DInv
  <2>3. times[s] \in {0, 1} /\ ((\E b \in All : s \in b.samples) => times[s] = 0)
    BY <2>1 DEF DInv, OneFate
  <2>4. QED
    BY <2>2, <2>3
<1>2. QED
  BY <1>1, DInvCorrect, PTL

\* A sample is lost only to a Write of its series that came into the gap of
\* another (downsample.go:135-160).
THEOREM NothingLostCorrect == Spec => []NothingLost
<1>1. DInv => NothingLost
  BY DEF DInv
<1>2. QED
  BY <1>1, DInvCorrect, PTL

-----------------------------------------------------------------------------
(* The refinement: one lemma per kind of step.                              *)

Held == {s \in 1 .. samples : times[s] = 0 /\ s \notin raced}
Emitteds == {s \in 1 .. samples : times[s] > 0}

LEMMA AggInit == Init => Agg!Init
<1> SUFFICES ASSUME Init PROVE Agg!Init
  OBVIOUS
<1>1. 1 .. samples = {}
  BY DEF Init
<1>2. at = [s \in {} |-> {}]
  BY DEF Init
<1>3. QED
  BY <1>1, <1>2 DEF Agg!Init

\* A window that is in a hand leaves: all its samples are held, of one key.
LEMMA AggEmit ==
  ASSUME DInv, NEW b \in InHand, times' = Emitted({b}),
         UNCHANGED <<samples, at, raced>>
  PROVE  Agg!Next
<1> DEFINE B == b.samples
<1>1. /\ B \subseteq 1 .. samples /\ 1 .. samples \subseteq Samples
      /\ times \in [Samples -> {0, 1}]
  BY SamplesAssumption DEF DInv, TypeOK, Samples, Known, OneFate, All
<1>2. \A s \in B : times[s] = 0 /\ s \notin raced
  BY DEF DInv, OneFate, All
<1>3. \A s \in Samples : times'[s] = IF s \in B THEN 1 ELSE times[s]
  <2> DEFINE W == {b}
  <2>1. W \in SUBSET All /\ times' = Emitted(W)
    BY DEF All
  <2> HIDE DEF W
  <2>2. \A s \in Samples :
          times'[s] = IF \E c \in W : s \in c.samples THEN 1 ELSE times[s]
    BY <2>1, Emission
  <2>3. QED
    BY <2>2 DEF W
<1>4. Held' = Held \ B /\ Emitteds' = Emitteds \cup B /\ B \in SUBSET Held
  BY <1>1, <1>2, <1>3 DEF Held, Emitteds
<1>5. B # {} /\ \A s, t \in B : at[s] = at[t]
  BY DEF DInv, Coherent, All
<1>6. Agg!Emit(B)
  BY <1>4, <1>5 DEF Agg!Emit, Held, Emitteds
<1>7. QED
  BY <1>4, <1>6 DEF Agg!Next, Held

LEMMA AggWrite ==
  ASSUME DInv, NEW w \in Writers, Write(w)
  PROVE  Agg!Next
<1> DEFINE n == samples + 1
<1>1. PICK k \in Series, t \in Windows :
        /\ samples < MaxSamples /\ samples' = n /\ UNCHANGED <<times, raced>>
        /\ at' = [x \in DOMAIN at \cup {n} |->
                    IF x = n THEN [series |-> k, win |-> t] ELSE at[x]]
  BY DEF Write
<1>2. /\ samples \in Nat /\ n \in Samples /\ DOMAIN at = 1 .. samples
      /\ 1 .. n = (1 .. samples) \cup {n} /\ n \notin 1 .. samples
  <2>1. samples \in 0 .. MaxSamples /\ DOMAIN at = 1 .. samples
    BY DEF DInv, TypeOK
  <2>2. QED
    BY <1>1, <2>1, SamplesAssumption DEF Samples
<1>3. times[n] = 0 /\ n \notin raced
  BY <1>2 DEF DInv, Known
<1>4. Held' = Held \cup {n} /\ Emitteds' = Emitteds
  BY <1>1, <1>2, <1>3 DEF Held, Emitteds
<1>5. [series |-> k, win |-> t] \in [series : Series, win : Windows]
  OBVIOUS
<1>6. Agg!Accept(n, [series |-> k, win |-> t])
  BY <1>1, <1>2, <1>4 DEF Agg!Accept, Held, Emitteds
<1>7. QED
  BY <1>2, <1>5, <1>6 DEF Agg!Next

\* A writer that forwards has one window in its hand, or none.
LEMMA AggForward ==
  ASSUME DInv, NEW w \in Writers, Forward(w)
  PROVE  Agg!Next \/ UNCHANGED Agg!avars
<1>1. times' = Emitted(hand[w]) /\ UNCHANGED <<samples, at, raced>>
  BY DEF Forward
<1>2. CASE hand[w] = {}
  <2>1. \A s \in Samples : times'[s] = times[s]
    <3>1. hand[w] \in SUBSET All
      BY <1>2
    <3>2. QED
      BY <1>1, <1>2, <3>1, Emission
  <2>2. 1 .. samples \subseteq Samples
    BY SamplesAssumption DEF DInv, TypeOK, Samples
  <2>3. Held' = Held /\ Emitteds' = Emitteds
    BY <1>1, <2>1, <2>2 DEF Held, Emitteds
  <2>4. QED
    BY <1>1, <2>3 DEF Agg!avars, Held, Emitteds
<1>3. CASE hand[w] # {}
  <2>1. PICK b \in hand[w] : TRUE
    BY <1>3
  <2>2. hand[w] = {b} /\ b \in InHand
    BY <2>1, InHandIs DEF DInv, OneHand
  <2>3. QED
    BY <1>1, <2>2, AggEmit
<1>4. QED
  BY <1>2, <1>3

LEMMA TwoAtLeast ==
  ASSUME ~Single
  PROVE  Cardinality(Writers) > 1
<1>1. PICK v \in Writers, w \in Writers : v # w
  BY DEF Single
<1>2. Cardinality({v, w}) = 2 /\ IsFiniteSet({v, w})
  <2>1. Cardinality({v}) = 1 /\ IsFiniteSet({v})
    BY FS_Singleton
  <2>2. Cardinality({v} \cup {w}) = Cardinality({v}) + 1
        /\ IsFiniteSet({v} \cup {w})
    BY <1>1, <2>1, FS_AddElement
  <2>3. {v, w} = {v} \cup {w}
    OBVIOUS
  <2>4. QED
    BY <2>1, <2>2, <2>3
<1>3. Cardinality({v, w}) <= Cardinality(Writers)
  <2>1. {v, w} \in SUBSET Writers
    BY <1>1
  <2>2. QED
    BY <2>1, WritersAssumption, FS_Subset
<1>4. Cardinality(Writers) \in Nat
  BY WritersAssumption, FS_CardinalityType
<1>5. QED
  BY <1>2, <1>3, <1>4

\* What Store replaces is dropped; a writer without a rival replaces nothing.
LEMMA AggStore ==
  ASSUME DInv, NEW w \in Writers, Store(w)
  PROVE  Agg!Next \/ UNCHANGED Agg!avars
<1> DEFINE old == Open(at[cur[w]].series)
           B == UNION {b.samples : b \in old}
<1>1. /\ pc[w] = "store" /\ raced' = raced \cup B
      /\ UNCHANGED <<samples, at, times>>
  BY DEF Store
<1>2. \A s : s \in B <=> \E b \in old : s \in b.samples
  OBVIOUS
<1>3. old \subseteq All
  BY DEF Open, All
<1>4. \A s \in B : s \in 1 .. samples /\ times[s] = 0 /\ s \notin raced
  BY <1>2, <1>3 DEF DInv, Known, OneFate
<1>5. /\ 1 .. samples \subseteq Samples /\ times \in [Samples -> {0, 1}]
  BY SamplesAssumption DEF DInv, TypeOK, Samples, OneFate
<1> HIDE DEF B
<1>6. Held' = Held \ B /\ Emitteds' = Emitteds /\ B \in SUBSET Held
  BY <1>1, <1>4, <1>5 DEF Held, Emitteds
<1>7. CASE Single
  <2>1. old = {}
    BY <1>1, <1>7 DEF DInv, Alone, Busy
  <2>2. Held' = Held
    BY <1>2, <1>6, <2>1
  <2>3. QED
    BY <1>1, <1>6, <2>2 DEF Agg!avars, Held, Emitteds
<1>8. CASE ~Single
  <2>1. PICK D \in SUBSET Held : Held' = Held \ D
    BY <1>6
  <2>2. Agg!Drop(D)
    BY <1>1, <1>6, <1>8, <2>1, TwoAtLeast DEF Agg!Drop, Held, Emitteds
  <2>3. Agg!Next
    BY <2>1, <2>2 DEF Agg!Next, Held
  <2>4. QED
    BY <2>3
<1>9. QED
  BY <1>7, <1>8

\* The flusher and Close emit the windows they took, one by one.
LEMMA AggFlush ==
  ASSUME DInv, FlushEmits \/ CloseEmits
  PROVE  Agg!Next \/ UNCHANGED Agg!avars
<1>1. UNCHANGED <<samples, at, raced>>
  BY DEF FlushEmits, CloseEmits, writerVars
<1>2. UNCHANGED times \/ \E b \in flushing \cup closing : times' = Emitted({b})
  BY DEF FlushEmits, CloseEmits
<1>3. CASE UNCHANGED times
  BY <1>1, <1>3 DEF Agg!avars
<1>4. CASE \E b \in flushing \cup closing : times' = Emitted({b})
  <2>1. PICK b \in InHand : times' = Emitted({b})
    BY <1>4, InHandIs
  <2>2. QED
    BY <1>1, <2>1, AggEmit
<1>5. QED
  BY <1>2, <1>3, <1>4

LEMMA AggNext ==
  ASSUME DInv, [Next]_vars
  PROVE  [Agg!Next]_Agg!avars
<1>1. CASE \E w \in Writers : Write(w) \/ Forward(w) \/ Store(w)
  BY <1>1, AggWrite, AggForward, AggStore
<1>2. CASE FlushEmits \/ CloseEmits
  BY <1>2, AggFlush
<1>3. CASE FlushTakes \/ FlushStops \/ CloseCancels \/ CloseTakes
           \/ UNCHANGED vars
  <2>1. UNCHANGED <<samples, at, times, raced>>
    BY <1>3 DEF FlushTakes, FlushStops, CloseCancels, CloseTakes, vars,
       writerVars
  <2>2. QED
    BY <2>1 DEF Agg!avars
<1>4. QED
  BY <1>1, <1>2, <1>3 DEF Next, Flusher, Close

\* The down-sampler implements Aggregator (downsample.go:119-181, 237-262): what
\* it emits is of one series and window, no sample leaves twice, and only a
\* second writer can make it drop one.
THEOREM AggregatorCorrect == Spec => ImplementsAggregator
<1>1. DInv /\ [Next]_vars => [Agg!Next]_Agg!avars
  BY AggNext
<1>2. QED
  BY <1>1, AggInit, DInvCorrect, PTL
     DEF Spec, Agg!Spec, ImplementsAggregator
=============================================================================
