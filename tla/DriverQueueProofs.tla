------------------------- MODULE DriverQueueProofs -------------------------
(* The events of the serial driver implement the queue of EventQueue, for    *)
(* any number of callers and events and any capacity of the channel.         *)
EXTENDS DriverProofs

EventKinds == {"event", "epan"}

\* The lines that stand for an event.
Numbered(s) == {i \in DOMAIN s : s[i].kind \in EventKinds}

\* They carry the numbers after `from`, each once and in order.
Chain(s, from, to) ==
  /\ \A i \in Numbered(s) : s[i].of \in from + 1 .. to
  /\ \A i, j \in Numbered(s) : i < j => s[i].of < s[j].of
  /\ \A n \in from + 1 .. to : \E i \in Numbered(s) : s[i].of = n

\* The last event the reader has taken: pushed, or its header read.
Given == IF epan = None THEN pushed ELSE epan

\* What the refinement rests on, besides the types and EvictionMakesRoom.
InOrder ==
  /\ epan # None => epan = pushed + 1
  /\ rpc \in {"push", "evict", "send"} => hold = pushed
  /\ Given <= emitted /\ Chain(serial, Given, emitted)

-----------------------------------------------------------------------------
(* How a chain changes at its two ends.                                     *)

LEMMA ChainTail ==
  ASSUME NEW S, NEW s \in Seq(S), s # <<>>,
         NEW from \in Nat, NEW to \in Nat, Chain(s, from, to)
  PROVE  /\ Head(s).kind \in EventKinds =>
              /\ Head(s).of = from + 1 /\ from + 1 <= to
              /\ Chain(Tail(s), from + 1, to)
         /\ Head(s).kind \notin EventKinds => Chain(Tail(s), from, to)
<1>1. /\ Head(s) = s[1] /\ 1 \in DOMAIN s
      /\ DOMAIN s \subseteq Int
      /\ \A i \in DOMAIN Tail(s) : i + 1 \in DOMAIN s /\ Tail(s)[i] = s[i + 1]
      /\ \A i \in DOMAIN s : i # 1 => /\ i > 1 /\ i - 1 \in DOMAIN Tail(s)
                                      /\ s[i] = Tail(s)[i - 1]
  BY HeadTailProperties
<1>2. /\ \A i \in Numbered(Tail(s)) : i + 1 \in Numbered(s)
      /\ \A i \in Numbered(s) : i # 1 => i - 1 \in Numbered(Tail(s))
      /\ 1 \in Numbered(s) <=> Head(s).kind \in EventKinds
      /\ Numbered(Tail(s)) \subseteq Int
  BY <1>1 DEF Numbered
<1>3. \A i, j \in Numbered(Tail(s)) : i < j => Tail(s)[i].of < Tail(s)[j].of
  <2>1. SUFFICES ASSUME NEW i \in Numbered(Tail(s)), NEW j \in Numbered(Tail(s)),
                        i < j
                 PROVE  Tail(s)[i].of < Tail(s)[j].of
    OBVIOUS
  <2>2. i + 1 < j + 1 /\ Tail(s)[i] = s[i + 1] /\ Tail(s)[j] = s[j + 1]
    BY <1>1, <1>2, <2>1 DEF Numbered
  <2>3. QED
    BY <1>2, <2>2 DEF Chain
<1>4. CASE Head(s).kind \in EventKinds
  <2>1. \A i \in Numbered(Tail(s)) : s[1].of < Tail(s)[i].of
    <3>1. SUFFICES ASSUME NEW i \in Numbered(Tail(s))
                   PROVE  s[1].of < Tail(s)[i].of
      OBVIOUS
    <3>2. /\ 1 \in Numbered(s) /\ i + 1 \in Numbered(s) /\ 1 < i + 1
          /\ Tail(s)[i] = s[i + 1]
      BY <1>1, <1>2, <1>4, HeadTailProperties DEF Numbered
    <3>3. QED
      BY <3>2 DEF Chain
  <2>2. s[1].of \in from + 1 .. to
    BY <1>2, <1>4 DEF Chain
  <2>3. s[1].of = from + 1
    <3>1. PICK i \in Numbered(s) : s[i].of = from + 1
      BY <2>2 DEF Chain
    <3>2. CASE i # 1
      <4>1. i - 1 \in Numbered(Tail(s)) /\ s[i] = Tail(s)[i - 1]
        BY <1>1, <1>2, <3>2 DEF Numbered
      <4>2. s[1].of < from + 1
        BY <2>1, <3>1, <4>1
      <4>3. QED
        BY <2>2, <4>2
    <3>3. QED
      BY <3>1, <3>2
  <2>4. \A i \in Numbered(Tail(s)) : Tail(s)[i].of \in from + 2 .. to
    <3>1. SUFFICES ASSUME NEW i \in Numbered(Tail(s))
                   PROVE  Tail(s)[i].of \in from + 2 .. to
      OBVIOUS
    <3>2. Tail(s)[i].of \in from + 1 .. to
      BY <1>1, <1>2 DEF Chain, Numbered
    <3>3. from + 1 < Tail(s)[i].of
      BY <2>1, <2>3
    <3>4. \A x \in from + 1 .. to : from + 1 < x => x \in from + 2 .. to
      OBVIOUS
    <3>5. QED
      BY <3>2, <3>3, <3>4, Zenon
  <2>5. \A n \in from + 2 .. to : \E i \in Numbered(Tail(s)) : Tail(s)[i].of = n
    <3>1. SUFFICES ASSUME NEW n \in from + 2 .. to
                   PROVE  \E i \in Numbered(Tail(s)) : Tail(s)[i].of = n
      OBVIOUS
    <3>2. PICK i \in Numbered(s) : s[i].of = n
      BY <3>1 DEF Chain
    <3>3. i # 1
      BY <2>3, <3>1, <3>2
    <3>4. QED
      BY <1>1, <1>2, <3>2, <3>3 DEF Numbered
  <2>6. Chain(Tail(s), from + 1, to)
    <3>1. (from + 1) + 1 = from + 2
      OBVIOUS
    <3>2. QED
      BY <1>3, <2>4, <2>5, <3>1, Zenon DEF Chain
  <2>7. QED
    BY <1>1, <1>4, <2>2, <2>3, <2>6
<1>5. CASE Head(s).kind \notin EventKinds
  <2>1. \A i \in Numbered(Tail(s)) : Tail(s)[i].of \in from + 1 .. to
    BY <1>1, <1>2 DEF Chain, Numbered
  <2>2. \A n \in from + 1 .. to : \E i \in Numbered(Tail(s)) : Tail(s)[i].of = n
    <3>1. SUFFICES ASSUME NEW n \in from + 1 .. to
                   PROVE  \E i \in Numbered(Tail(s)) : Tail(s)[i].of = n
      OBVIOUS
    <3>2. PICK i \in Numbered(s) : s[i].of = n
      BY <3>1 DEF Chain
    <3>3. QED
      BY <1>1, <1>2, <1>5, <3>2 DEF Numbered
  <2>3. QED
    BY <1>3, <1>5, <2>1, <2>2 DEF Chain
<1>6. QED
  BY <1>4, <1>5

\* Lines that are no events leave it alone.
LEMMA ChainAnswer ==
  ASSUME NEW s, NEW t, NEW from, NEW to, Chain(s, from, to),
         DOMAIN s \subseteq DOMAIN t,
         \A i \in DOMAIN t : (i \in DOMAIN s /\ t[i] = s[i])
                             \/ (i \notin DOMAIN s /\ t[i].kind \notin EventKinds)
  PROVE  Chain(t, from, to)
<1>1. Numbered(t) = Numbered(s) /\ \A i \in Numbered(s) : t[i] = s[i]
  BY DEF Numbered
<1>2. QED
  BY <1>1 DEF Chain

\* The next event lengthens it.
LEMMA ChainEmit ==
  ASSUME NEW s, NEW t, NEW from \in Nat, NEW to \in Nat, from <= to,
         Chain(s, from, to), NEW k \in Int,
         DOMAIN s \subseteq {i \in Int : i < k}, k \in Numbered(t),
         t[k].of = to + 1,
         \A i \in DOMAIN s : i \in DOMAIN t /\ t[i] = s[i],
         \A i \in Numbered(t) : i \in DOMAIN s \/ i = k
  PROVE  Chain(t, from, to + 1)
<1>1. /\ Numbered(t) = Numbered(s) \cup {k}
      /\ \A i \in Numbered(s) : i \in Int /\ i < k /\ t[i] = s[i]
  BY DEF Numbered
<1>2. \A i \in Numbered(t) : t[i].of \in from + 1 .. to + 1
  BY <1>1 DEF Chain
<1>3. ASSUME NEW i \in Numbered(t), NEW j \in Numbered(t), i < j
      PROVE  t[i].of < t[j].of
  <2>1. i \in Numbered(s) /\ i # k
    BY <1>1, <1>3
  <2>2. CASE j = k
    <3>1. t[i].of \in from + 1 .. to
      BY <1>1, <2>1 DEF Chain
    <3>2. QED
      BY <2>2, <3>1
  <2>3. CASE j # k
    BY <1>1, <1>3, <2>1, <2>3 DEF Chain
  <2>4. QED
    BY <2>2, <2>3
<1>4. ASSUME NEW n \in from + 1 .. to + 1
      PROVE  \E i \in Numbered(t) : t[i].of = n
  <2>1. CASE n = to + 1
    BY <2>1
  <2>2. CASE n # to + 1
    <3>1. n \in from + 1 .. to
      BY <1>4, <2>2
    <3>2. QED
      BY <1>1, <3>1 DEF Chain
  <2>3. QED
    BY <2>1, <2>2
<1>5. QED
  BY <1>2, <1>3, <1>4 DEF Chain

-----------------------------------------------------------------------------
(* The invariant.                                                           *)

LEMMA GivenType == TypeOK => Given \in Nat /\ emitted \in Nat /\ pushed \in Nat
BY MaxEventsAssumption DEF TypeOK, ReaderType, ModuleType, Given

LEMMA InOrderInit == Init => InOrder
BY DEF Init, InOrder, Given, None, Chain, Numbered

\* A step that leaves these variables alone.
LEMMA InOrderFrame ==
  ASSUME InOrder, UNCHANGED <<serial, emitted, epan, pushed, hold>>,
         rpc' \in {"push", "evict", "send"} => rpc \in {"push", "evict", "send"}
  PROVE  InOrder'
BY DEF InOrder, Given, Chain, Numbered

\* The reader takes the line at the head.
LEMMA TakenLine ==
  ASSUME TypeOK, InOrder, NEW ks, NextLine(ks)
  PROVE  /\ Head(serial).kind \in ks
         /\ Head(serial).kind \in EventKinds =>
              /\ Head(serial).of = Given + 1 /\ Given + 1 <= emitted
              /\ Chain(Tail(serial), Given + 1, emitted)
         /\ Head(serial).kind \notin EventKinds =>
              Chain(Tail(serial), Given, emitted)
<1>1. serial \in Seq(Lines) /\ serial # <<>> /\ Head(serial).kind \in ks
  BY HeadLine DEF TypeOK, ModuleType, NextLine
<1>2. Given \in Nat /\ emitted \in Nat
  BY GivenType
<1>3. Chain(serial, Given, emitted)
  BY DEF InOrder
<1>4. QED
  BY <1>1, <1>2, <1>3, ChainTail

LEMMA InOrderReader ==
  ASSUME TypeOK, InOrder, ReaderStep
  PROVE  InOrder'
<1>1. CASE FlushBlock
  <2>1. epan # None /\ epan = pushed + 1 /\ Given = epan
    BY <1>1 DEF FlushBlock, InOrder, Given
  <2>2. /\ pushed' = epan /\ hold' = epan /\ epan' = None
        /\ UNCHANGED <<serial, emitted>>
    BY <1>1 DEF FlushBlock, Push, moduleVars
  <2>3. Given' = Given
    BY <2>1, <2>2 DEF Given
  <2>4. QED
    BY <2>1, <2>2, <2>3 DEF InOrder
<1>2. CASE ReadRow
  <2>1. Chain(Tail(serial), Given, emitted)
    BY <1>2, TakenLine DEF ReadRow, EventKinds
  <2>2. /\ serial' = Tail(serial) /\ Given' = Given
        /\ UNCHANGED <<emitted, epan, pushed, hold, rpc>>
    BY <1>2 DEF ReadRow, readerVars, Given
  <2>3. QED
    BY <2>1, <2>2 DEF InOrder
<1>3. CASE ReadHeader
  <2>1. /\ Head(serial).of = Given + 1 /\ Given + 1 <= emitted
        /\ Chain(Tail(serial), Given + 1, emitted)
    BY <1>3, TakenLine DEF ReadHeader, NoBlock, EventKinds
  <2>2. /\ Given = pushed /\ epan' = pushed + 1 /\ pushed \in Nat
        /\ serial' = Tail(serial) /\ rpc = "read"
        /\ UNCHANGED <<emitted, pushed, hold, rpc>>
    BY <1>3, <2>1, GivenType DEF ReadHeader, NoBlock, NextLine, Given
  <2>3. Given' = Given + 1
    BY <2>2 DEF Given, None
  <2>4. QED
    BY <2>1, <2>2, <2>3 DEF InOrder
<1>4. CASE ReadEvent
  <2>1. /\ Head(serial).of = Given + 1 /\ Given + 1 <= emitted
        /\ Chain(Tail(serial), Given + 1, emitted)
    BY <1>4, TakenLine DEF ReadEvent, NoBlock, EventKinds
  <2>2. /\ epan' = None /\ pushed' = Given + 1 /\ hold' = pushed'
        /\ serial' = Tail(serial) /\ UNCHANGED emitted
    BY <1>4, <2>1 DEF ReadEvent, NoBlock, Push
  <2>3. Given' = Given + 1
    BY <2>2 DEF Given
  <2>4. QED
    BY <2>1, <2>2, <2>3 DEF InOrder
<1>5. CASE ReadTerminator \/ ReadBody
  <2>1. Chain(Tail(serial), Given, emitted)
    BY <1>5, TakenLine
       DEF ReadTerminator, ReadBody, Body, EventKinds, Terminators
  <2>2. /\ serial' = Tail(serial) /\ rpc' \in {"read", "reply"}
        /\ UNCHANGED <<emitted, epan, pushed>>
    BY <1>5 DEF ReadTerminator, ReadBody, NextLine, readerVars
  <2>3. QED
    BY <2>1, <2>2 DEF InOrder, Given
<1>6. CASE Reply \/ EndScan \/ ReaderExit
  BY <1>6, InOrderFrame DEF Reply, EndScan, ReaderExit, moduleVars
<1>7. CASE ReaderPush
  <2>1. UNCHANGED <<serial, emitted, epan, pushed>> /\ Given' = Given
    BY <1>7 DEF ReaderPush, moduleVars, Given
  <2>2. rpc' \in {"push", "evict", "send"} => hold' = pushed'
    BY <1>7 DEF ReaderPush, PushEvent, InOrder
  <2>3. QED
    BY <2>1, <2>2 DEF InOrder
<1>8. QED
  BY <1>1, <1>2, <1>3, <1>4, <1>5, <1>6, <1>7 DEF ReaderStep

LEMMA InOrderModule ==
  ASSUME TypeOK, InOrder, ModuleStep
  PROVE  InOrder'
<1>1. serial \in Seq(Lines) /\ Len(serial) \in Nat
      /\ DOMAIN serial = 1 .. Len(serial)
  BY DEF TypeOK, ModuleType
<1>2. CASE Answer
  BY <1>2, InOrderFrame DEF Answer, readerVars
<1>3. CASE SendLine
  <2> DEFINE l == Head(sending)
  <2>1. l \in AnswerLines /\ serial' = Append(serial, l)
    BY <1>3 DEF SendLine, TypeOK, ModuleType
  <2>2. l.kind \notin EventKinds
    BY <2>1 DEF AnswerLines, Answers, Terminators, EventKinds
  <2>3. /\ DOMAIN serial \subseteq DOMAIN serial'
        /\ \A i \in DOMAIN serial' :
             \/ i \in DOMAIN serial /\ serial'[i] = serial[i]
             \/ i \notin DOMAIN serial /\ serial'[i] = l
    BY <1>1, <2>1, AppendProperties DEF Lines
  <2>4. Chain(serial, Given, emitted)
    BY DEF InOrder
  <2>5. Chain(serial', Given, emitted)
    BY <2>2, <2>3, <2>4, ChainAnswer
  <2>6. UNCHANGED <<emitted, epan, pushed, hold, rpc>> /\ Given' = Given
    BY <1>3 DEF SendLine, readerVars, Given
  <2>7. QED
    BY <2>5, <2>6 DEF InOrder
<1>4. CASE Emit
  <2> DEFINE n == emitted + 1
             S == {<<Line("event", n)>>, <<Line("epan", n), Line("row", n)>>}
             k == Len(serial) + 1
  <2>1. PICK s \in S : serial' = serial \o s
    BY <1>4 DEF Emit
  <2>2. /\ Len(s) \in {1, 2} /\ s[1].kind \in EventKinds /\ s[1].of = n
        /\ Len(s) = 2 => s[2].kind \notin EventKinds
    BY <2>1 DEF Line, EventKinds
  <2>3. /\ DOMAIN serial' = 1 .. Len(serial) + Len(s)
        /\ \A i \in DOMAIN serial' :
             serial'[i] = IF i <= Len(serial) THEN serial[i]
                                              ELSE s[i - Len(serial)]
    BY <1>1, <2>1, <2>2 DEF Line
  <2>4. /\ k \in Int /\ DOMAIN serial \subseteq {i \in Int : i < k}
        /\ \A i \in DOMAIN serial : i \in DOMAIN serial' /\ serial'[i] = serial[i]
    BY <1>1, <2>2, <2>3
  <2>5. serial'[k] = s[1] /\ k \in Numbered(serial')
    BY <1>1, <2>2, <2>3 DEF Numbered
  <2>6. \A i \in Numbered(serial') : i \in DOMAIN serial \/ i = k
    <3>1. SUFFICES ASSUME NEW i \in DOMAIN serial', i \notin DOMAIN serial, i # k
                   PROVE  serial'[i].kind \notin EventKinds
      BY DEF Numbered
    <3>2. i = Len(serial) + 2 /\ Len(s) = 2
      <4>1. /\ i \in 1 .. Len(serial) + Len(s) /\ i \notin 1 .. Len(serial)
            /\ i # Len(serial) + 1 /\ Len(serial) \in Nat
        BY <1>1, <2>3, <3>1
      <4>2. \A a \in Nat : \A b \in {1, 2} : \A j \in 1 .. a + b :
              j \notin 1 .. a /\ j # a + 1 => j = a + 2 /\ b = 2
        OBVIOUS
      <4>3. QED
        BY <2>2, <4>1, <4>2, Zenon
    <3>3. serial'[i] = s[2]
      BY <1>1, <2>3, <3>1, <3>2
    <3>4. QED
      BY <2>2, <3>2, <3>3
  <2>7. Given \in Nat /\ emitted \in Nat /\ Given <= emitted
        /\ Chain(serial, Given, emitted)
    BY GivenType DEF InOrder
  <2>8. serial'[k].of = emitted + 1
    BY <2>2, <2>5
  <2>9. Chain(serial', Given, emitted + 1)
    BY <2>4, <2>5, <2>6, <2>7, <2>8, ChainEmit
  <2>10. /\ UNCHANGED <<epan, pushed, hold, rpc>> /\ Given' = Given
         /\ emitted' = emitted + 1
    BY <1>4 DEF Emit, readerVars, Given
  <2>11. QED
    BY <2>7, <2>9, <2>10 DEF InOrder
<1>5. CASE PortFails
  BY <1>5, InOrderFrame DEF PortFails, moduleVars, readerVars
<1>6. QED
  BY <1>2, <1>3, <1>4, <1>5 DEF ModuleStep

LEMMA InOrderNext == TypeOK /\ InOrder /\ [Next]_vars => InOrder'
<1> SUFFICES ASSUME TypeOK, InOrder, [Next]_vars PROVE InOrder'
  OBVIOUS
<1>1. CASE \E c \in Callers : Call(c) \/ Lock(c) \/ CommandStep(c)
                              \/ WaitTimeout(c)
  BY <1>1, InOrderFrame
     DEF Call, Lock, CommandStep, Post, Write, WaitDone, WaitClosed,
         WaitTimeout, Abort, ClearPending, Unlock, moduleVars, readerVars
<1>2. CASE ReaderStep
  BY <1>2, InOrderReader
<1>3. CASE ModuleStep
  BY <1>3, InOrderModule
<1>4. CASE CloseMark \/ ClosePort \/ CloseFlush \/ Consume \/ UNCHANGED vars
  BY <1>4, InOrderFrame DEF CloseMark, ClosePort, CloseFlush, Consume,
     moduleVars, readerVars, vars
<1>5. QED
  BY <1>1, <1>2, <1>3, <1>4 DEF Next

-----------------------------------------------------------------------------
(* The refinement: one lemma per kind of step.                              *)

LEMMA QueueInit == Init => Queue!Init
BY DEF Init, Queue!Init, None

\* A step that leaves these variables alone is one of no event.
LEMMA QueueFrame ==
  ASSUME UNCHANGED <<events, pushed, hold>>,
         rpc' = rpc \/ (rpc \notin {"push", "evict", "send"}
                        /\ rpc' \notin {"push", "evict", "send"})
  PROVE  UNCHANGED Queue!qvars
BY DEF Queue!qvars

\* The reader takes an event in hand: it has no place yet.
LEMMA QueueTake ==
  ASSUME TypeOK, NEW n, Push(n), n = pushed + 1, rpc = "read", events' = events
  PROVE  UNCHANGED Queue!qvars
BY GivenType DEF Push, Queue!qvars

LEMMA QueuePush ==
  ASSUME TypeOK, InOrder, EvictionMakesRoom, ReaderPush
  PROVE  Queue!Next \/ UNCHANGED Queue!qvars
<1>1. /\ events \in Seq(1 .. MaxEvents) /\ Len(events) <= EventCap
      /\ EventCap \in Nat /\ pushed \in Nat /\ pushed' = pushed
      /\ rpc \in {"push", "evict", "send"} => hold = pushed
  BY EventCapAssumption, GivenType DEF TypeOK, ReaderType, InOrder, ReaderPush
<1>2. CASE rpc = "push" /\ Len(events) < EventCap
  <2>1. Queue!Add
    BY <1>1, <1>2 DEF ReaderPush, PushEvent, Queue!Add, Queue!Enter
  <2>2. QED
    BY <2>1 DEF Queue!Next
<1>3. CASE rpc = "push" /\ Len(events) >= EventCap
  <2>1. Queue!FindFull
    BY <1>1, <1>3 DEF ReaderPush, PushEvent, Queue!FindFull
  <2>2. QED
    BY <2>1 DEF Queue!Next
<1>4. CASE rpc = "evict"
  <2>1. Queue!Displace
    BY <1>1, <1>4 DEF ReaderPush, PushEvent, Evicted, Queue!Displace,
       Queue!Enter
  <2>2. QED
    BY <2>1 DEF Queue!Next
<1>5. CASE rpc = "send"
  BY <1>1, <1>5 DEF ReaderPush, PushEvent, EvictionMakesRoom, Queue!qvars
<1>6. QED
  BY <1>1, <1>2, <1>3, <1>4, <1>5 DEF ReaderPush, PushEvent

LEMMA QueueConsume ==
  ASSUME TypeOK, Consume
  PROVE  Queue!Remove
<1>1. events \in Seq(1 .. MaxEvents) /\ events # <<>>
      /\ hold \in 0 .. MaxEvents
  BY DEF TypeOK, ReaderType, Consume
<1>2. /\ Append(events, hold) # <<>>
      /\ Tail(Append(events, hold)) = Append(Tail(events), hold)
  BY <1>1, SMTT(30)
<1>3. UNCHANGED <<rpc, hold, pushed>> /\ events' = Tail(events)
  BY DEF Consume
<1>4. QED
  BY <1>1, <1>2, <1>3 DEF Queue!Remove

LEMMA QueueNext ==
  ASSUME TypeOK, InOrder, EvictionMakesRoom, [Next]_vars
  PROVE  [Queue!Next]_Queue!qvars
<1>1. CASE \E c \in Callers : Call(c) \/ Lock(c) \/ CommandStep(c)
                              \/ WaitTimeout(c)
  BY <1>1, QueueFrame
     DEF Call, Lock, CommandStep, Post, Write, WaitDone, WaitClosed,
         WaitTimeout, Abort, ClearPending, Unlock, readerVars
<1>2. CASE ReaderStep
  <2>1. CASE FlushBlock
    BY <2>1, QueueTake DEF FlushBlock, NextLine, InOrder
  <2>2. CASE ReadEvent
    <3>1. Head(serial).of = Given + 1 /\ epan = None
      BY <2>2, TakenLine DEF ReadEvent, NoBlock, EventKinds
    <3>2. QED
      BY <2>2, <3>1, QueueTake DEF ReadEvent, NextLine, Given
  <2>3. CASE ReadRow \/ ReadHeader \/ ReadTerminator \/ Reply \/ ReadBody
             \/ EndScan \/ ReaderExit
    BY <2>3, QueueFrame DEF ReadRow, ReadHeader, ReadTerminator, Reply,
       ReadBody, EndScan, ReaderExit, NextLine, readerVars
  <2>4. CASE ReaderPush
    BY <2>4, QueuePush
  <2>5. QED
    BY <1>2, <2>1, <2>2, <2>3, <2>4 DEF ReaderStep
<1>3. CASE ModuleStep \/ CloseMark \/ ClosePort \/ CloseFlush
  BY <1>3, QueueFrame DEF ModuleStep, Answer, SendLine, Emit, PortFails,
     CloseMark, ClosePort, CloseFlush, readerVars
<1>4. CASE Consume
  BY <1>4, QueueConsume DEF Queue!Next
<1>5. CASE UNCHANGED vars
  BY <1>5, QueueFrame DEF vars, readerVars
<1>6. QED
  BY <1>1, <1>2, <1>3, <1>4, <1>5 DEF Next

\* The reader, pushEvent and the consumer implement the queue of EventQueue
\* (driver.go:300-340, 378-392): every event enters once and in order, blocks
\* that are held back included, and only the oldest is lost, for a newer one.
THEOREM QueueCorrect == Spec => EventsImplementQueue
<1>1. Spec => []InOrder
  BY InOrderInit, InOrderNext, TypeCorrect, PTL DEF Spec
<1>2. TypeOK /\ InOrder /\ EvictionMakesRoom /\ [Next]_vars
        => [Queue!Next]_Queue!qvars
  BY QueueNext
<1>3. QED
  BY <1>1, <1>2, QueueInit, TypeCorrect, EvictionCorrect, PTL
     DEF Spec, Queue!Spec, EventsImplementQueue
=============================================================================
