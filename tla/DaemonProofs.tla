---------------------------- MODULE DaemonProofs ----------------------------
(* Proofs about the life of the process, for any sinks that may be stuck or  *)
(* hang and any length of a response.                                        *)
EXTENDS Daemon, FiniteSetTheorems, TLAPS

Early == {"serial", "sinks"}
Late == {"close", "closing", "unwind", "exited", "killed"}

\* Beyond the types: there is nothing before Start, no sink is closed before
\* the drain is over, and then the goroutines have returned or time is up.
Drained ==
  /\ main \in Early => running = {} /\ results = 0
  /\ main \in Early \cup {"first", "drain"} => shut = {}
  /\ main \in Late => running = {} \/ drainOver
  /\ col = "write" => left > 0

DInv == TypeOK /\ Drained

-----------------------------------------------------------------------------
(* Counting goroutines, and choosing sinks.                                 *)

LEMMA Count ==
  /\ Cardinality(Workers) = 3 /\ Waits = 2
  /\ \A R \in SUBSET Workers :
       /\ Cardinality(R) \in 0 .. 3
       /\ Cardinality(R) = 0 <=> R = {}
       /\ \A g \in R : Cardinality(R \ {g}) = Cardinality(R) - 1
<1>1. IsFiniteSet({}) /\ Cardinality({}) = 0
  BY FS_EmptySet
<1>2. IsFiniteSet({"manager"}) /\ Cardinality({"manager"}) = 1
  BY <1>1, FS_Singleton
<1>3. /\ IsFiniteSet({"manager", "client"})
      /\ Cardinality({"manager", "client"}) = 2
  <2>1. {"manager", "client"} = {"manager"} \cup {"client"}
    OBVIOUS
  <2>2. "client" \notin {"manager"}
    OBVIOUS
  <2>3. /\ IsFiniteSet({"manager"} \cup {"client"})
        /\ Cardinality({"manager"} \cup {"client"}) = 1 + 1
    BY <1>2, <2>2, FS_AddElement, Zenon
  <2>4. QED
    BY <2>1, <2>3
<1>4. IsFiniteSet(Workers) /\ Cardinality(Workers) = 3
  <2>1. Workers = {"manager", "client"} \cup {"collector"}
    BY DEF Workers
  <2>2. QED
    BY <1>3, <2>1, FS_AddElement
<1>5. Waits = 2
  BY <1>4 DEF Waits
<1>6. ASSUME NEW R \in SUBSET Workers
      PROVE  /\ Cardinality(R) \in 0 .. 3
             /\ Cardinality(R) = 0 <=> R = {}
             /\ \A g \in R : Cardinality(R \ {g}) = Cardinality(R) - 1
  <2>1. IsFiniteSet(R) /\ Cardinality(R) <= 3
    BY <1>4, FS_Subset
  <2>2. Cardinality(R) \in Nat
    BY <2>1, FS_CardinalityType
  <2>3. Cardinality(R) = 0 <=> R = {}
    BY <2>1, FS_EmptySet
  <2>4. ASSUME NEW g \in R PROVE Cardinality(R \ {g}) = Cardinality(R) - 1
    BY <2>1, <2>4, FS_RemoveElement
  <2>5. QED
    BY <2>1, <2>2, <2>3, <2>4
<1>7. QED
  BY <1>4, <1>5, <1>6

LEMMA FirstOne ==
  ASSUME NEW S \in SUBSET AllSinks, S # {}
  PROVE  First(S) \in S
<1>1. \E s \in S : \A t \in S : Place[s] <= Place[t]
  <2>1. CASE "prometheus" \in S
    BY <2>1 DEF AllSinks, Place
  <2>2. CASE "prometheus" \notin S /\ "stdout" \in S
    BY <2>2 DEF AllSinks, Place
  <2>3. CASE "prometheus" \notin S /\ "stdout" \notin S
    <3>1. S = {"influxdb"}
      BY <2>3 DEF AllSinks
    <3>2. QED
      BY <3>1 DEF Place
  <2>4. QED
    BY <2>1, <2>2, <2>3
<1>2. QED
  BY <1>1 DEF First

-----------------------------------------------------------------------------
(* The inductive invariant.                                                 *)

LEMMA DInit == Init => DInv
<1> SUFFICES ASSUME Init PROVE DInv
  OBVIOUS
<1>1. Cardinality(running) = 0 /\ results = 0 /\ waits = 0 /\ left = 0
  BY Count DEF Init
<1>2. TypeOK
  <2>1. results \in 0 .. Cardinality(Workers) - Cardinality(running)
    BY <1>1, Count DEF Init
  <2>2. waits \in 0 .. Waits /\ left \in 0 .. MaxBurst
    BY <1>1, Count, BurstAssumption
  <2>3. {cancelled, drainOver, done} \subseteq BOOLEAN
    BY DEF Init
  <2>4. QED
    BY <2>1, <2>2, <2>3 DEF Init, TypeOK, Serving
<1>3. Drained
  BY DEF Init, Drained, Early, Late
<1>4. QED
  BY <1>2, <1>3 DEF DInv

LEMMA StartUp ==
  ASSUME DInv, OpenSerial \/ MakeSink \/ Start
  PROVE  DInv'
<1> USE DEF DInv, sinkVars, goVars, waitVars, driverVars, sideVars, colVars
<1>1. CASE OpenSerial
  BY <1>1, Count DEF OpenSerial, TypeOK, Drained, Early, Late, Serving
<1>2. CASE MakeSink
  <2>1. First(enabled \ made) \in enabled
    <3>1. enabled \ made \in SUBSET AllSinks /\ enabled \ made # {}
      BY <1>2 DEF MakeSink, TypeOK
    <3>2. QED
      BY <3>1, FirstOne
  <2>2. made' = made \cup {First(enabled \ made)} \/ made' = made
    BY <1>2 DEF MakeSink
  <2>3. main = "sinks" /\ main' \in {"sinks", "unwind"}
    BY <1>2 DEF MakeSink
  <2>4. UNCHANGED <<enabled, shut, goVars, waitVars, driverVars, sideVars,
                    colVars>>
    BY <1>2 DEF MakeSink
  <2>5. QED
    BY <2>1, <2>2, <2>3, <2>4, Count DEF TypeOK, Drained, Early, Late, Serving
<1>3. CASE Start
  BY <1>3, Count DEF Start, TypeOK, Drained, Early, Late, Serving
<1>4. QED
  BY <1>1, <1>2, <1>3

LEMMA WindDown ==
  ASSUME DInv, FirstResult \/ Drain \/ CloseSink \/ SinkClosed \/ Unwind
               \/ ThreeSeconds
  PROVE  DInv'
<1> USE DEF DInv, sinkVars, goVars, waitVars, driverVars, sideVars, colVars
<1>1. CASE FirstResult
  BY <1>1, Count DEF FirstResult, TypeOK, Drained, Early, Late, Serving
<1>2. CASE Drain
  BY <1>2, Count DEF Drain, TypeOK, Drained, Early, Late, Serving
<1>3. CASE CloseSink
  <2>1. running = {} \/ drainOver
    BY <1>3, Count DEF CloseSink, TypeOK, Drained, Late
  <2>2. shut' = shut \/ (shut # made /\ shut' = shut \cup {First(made \ shut)})
    BY <1>3 DEF CloseSink
  <2>3. shut' \subseteq made
    <3>1. CASE shut # made
      <4>1. made \ shut \in SUBSET AllSinks /\ made \ shut # {}
        BY <3>1 DEF TypeOK
      <4>2. First(made \ shut) \in made
        BY <4>1, FirstOne
      <4>3. QED
        BY <2>2, <4>2 DEF TypeOK
    <3>2. CASE shut = made
      BY <2>2, <3>2
    <3>3. QED
      BY <3>1, <3>2
  <2>4. main' \in {"unwind", "closing"}
    BY <1>3 DEF CloseSink
  <2>5. UNCHANGED <<enabled, made, goVars, waitVars, driverVars, sideVars,
                    colVars>>
    BY <1>3 DEF CloseSink
  <2>6. QED
    BY <2>1, <2>3, <2>4, <2>5, Count DEF TypeOK, Drained, Early, Late, Serving
<1>4. CASE SinkClosed \/ ThreeSeconds
  <2>1. CASE SinkClosed
    BY <1>4, <2>1 DEF SinkClosed, TypeOK, Drained, Early, Late, Serving
  <2>2. CASE ThreeSeconds
    BY <1>4, <2>2 DEF ThreeSeconds, TypeOK, Drained, Early, Late, Serving
  <2>3. QED
    BY <1>4, <2>1, <2>2
<1>5. CASE Unwind
  BY <1>5, Count DEF Unwind, TypeOK, Drained, Early, Late, Serving
<1>6. QED
  BY <1>1, <1>2, <1>3, <1>4, <1>5

LEMMA Goroutines ==
  ASSUME DInv, ReaderEnds \/ Watch \/ Heartbeat \/ Signal
               \/ \E g \in Workers : WorkerEnds(g)
  PROVE  DInv'
<1> USE DEF DInv, sinkVars, goVars, waitVars, driverVars, sideVars, colVars
<1>1. CASE ReaderEnds
  <2>1. reader' = "gone" /\ done' \in BOOLEAN
    BY <1>1 DEF ReaderEnds, TypeOK
  <2>2. UNCHANGED <<main, sinkVars, goVars, waitVars, sideVars, colVars>>
    BY <1>1 DEF ReaderEnds
  <2>3. QED
    BY <2>1, <2>2 DEF TypeOK, Drained
<1>2. CASE Watch \/ Heartbeat \/ Signal
  <2>1. /\ watcher' \in {"on", "off"}
        /\ watchdog' \in {"none", "beats", "silent"} /\ cancelled' \in BOOLEAN
    BY <1>2 DEF Watch, Heartbeat, Signal, TypeOK
  <2>2. UNCHANGED <<main, sinkVars, running, results, waitVars, driverVars,
                    colVars>>
    BY <1>2 DEF Watch, Heartbeat, Signal
  <2>3. QED
    BY <2>1, <2>2 DEF TypeOK, Drained
<1>3. ASSUME NEW g \in Workers, WorkerEnds(g) PROVE DInv'
  <2>1. /\ g \in running /\ g # "collector" /\ running' = running \ {g}
        /\ results' = results + 1
        /\ UNCHANGED <<main, sinkVars, cancelled, waitVars, driverVars,
                       sideVars, colVars>>
    BY <1>3 DEF WorkerEnds, Returns
  <2>2. Cardinality(running') = Cardinality(running) - 1
    BY <2>1, Count DEF TypeOK
  <2>3. QED
    BY <2>1, <2>2, Count DEF TypeOK, Drained, Early, Late, Serving
<1>4. QED
  BY <1>1, <1>2, <1>3

LEMMA CollectorSteps ==
  ASSUME DInv, GetEnds \/ MultiReturns \/ Tick \/ CollectorEnds
               \/ \E s \in AllSinks : ChildWrites(s)
  PROVE  DInv'
<1> USE DEF DInv, sinkVars, goVars, waitVars, driverVars, sideVars, colVars
<1>1. CASE GetEnds \/ Tick
  BY <1>1, Count, BurstAssumption DEF GetEnds, Tick, ColStep, TypeOK, Drained,
     Early, Late, Serving
<1>2. CASE MultiReturns
  BY <1>2, Count, BurstAssumption DEF MultiReturns, FanOutOver, ColStep,
     TypeOK, Drained, Early, Late, Serving
<1>3. CASE CollectorEnds
  <2>1. /\ "collector" \in running /\ running' = running \ {"collector"}
        /\ results' = results + 1 /\ col = "select" /\ writing = {}
        /\ UNCHANGED <<main, sinkVars, cancelled, waitVars, driverVars,
                       sideVars, colVars>>
    BY <1>3 DEF CollectorEnds, ColStep, Returns, TypeOK
  <2>2. Cardinality(running') = Cardinality(running) - 1
    BY <2>1, Count DEF TypeOK
  <2>3. QED
    BY <2>1, <2>2, Count DEF TypeOK, Drained, Early, Late, Serving
<1>4. CASE \E s \in AllSinks : ChildWrites(s)
  BY <1>4, Count DEF ChildWrites, TypeOK, Drained, Early, Late, Serving
<1>5. QED
  BY <1>1, <1>2, <1>3, <1>4

LEMMA Supervised ==
  ASSUME DInv, Kill \/ Restart
  PROVE  DInv'
<1> USE DEF DInv, sinkVars, goVars, waitVars, driverVars, sideVars, colVars
<1>1. CASE Kill
  BY <1>1, Count DEF Kill, Hung, TypeOK, Drained, Early, Late, Serving
<1>2. CASE Restart
  <2>1. /\ main' = "serial" /\ enabled' \subseteq AllSinks
        /\ made' = {} /\ shut' = {} /\ running' = {} /\ results' = 0
        /\ waits' = 0 /\ left' = 0 /\ cancelled' = FALSE /\ drainOver' = FALSE
        /\ done' = FALSE /\ reader' = "none" /\ watcher' = "off"
        /\ watchdog' = "none" /\ col' = "get" /\ writing' = {}
    BY <1>2 DEF Restart
  <2>2. Cardinality(running') = 0
    BY <2>1, Count
  <2>3. TypeOK'
    <3>1. (results \in 0 .. Cardinality(Workers) - Cardinality(running))'
      BY <2>1, <2>2, Count
    <3>2. (waits \in 0 .. Waits /\ left \in 0 .. MaxBurst)'
      BY <2>1, Count, BurstAssumption
    <3>3. ({cancelled, drainOver, done} \subseteq BOOLEAN)'
      BY <2>1
    <3>4. QED
      BY <2>1, <3>1, <3>2, <3>3 DEF TypeOK, Serving
  <2>4. Drained'
    BY <2>1 DEF Drained, Early, Late
  <2>5. QED
    BY <2>3, <2>4
<1>3. QED
  BY <1>1, <1>2

LEMMA DNext == DInv /\ [Next]_vars => DInv'
<1> SUFFICES ASSUME DInv, [Next]_vars PROVE DInv'
  OBVIOUS
<1>1. CASE UNCHANGED vars
  BY <1>1 DEF vars, sinkVars, goVars, waitVars, driverVars, sideVars, colVars,
     DInv, TypeOK, Drained
<1>2. CASE Next
  BY <1>2, StartUp, WindDown, Goroutines, CollectorSteps, Supervised
     DEF Next, Main
<1>3. QED
  BY <1>1, <1>2

-----------------------------------------------------------------------------
(* The theorems.                                                            *)

\* Types, and that the channel of the results has room for every goroutine that
\* ends, at every step of the shutdown (main.go:219-237).
THEOREM DaemonTypeCorrect == Spec => []TypeOK
<1>1. Spec => []DInv
  BY DInit, DNext, PTL DEF Spec
<1>2. DInv => TypeOK
  BY DEF DInv
<1>3. QED
  BY <1>1, <1>2, PTL

\* No sink is closed under a write of the collector within the three seconds,
\* whichever sinks there are and however long a response is (main.go:225-239).
THEOREM NothingAfterCloseCorrect == Spec => []NothingAfterClose
<1>1. Spec => []DInv
  BY DInit, DNext, PTL DEF Spec
<1>2. DInv => NothingAfterClose
  <2>1. SUFFICES ASSUME DInv, writing \cap shut # {} PROVE drainOver
    BY DEF NothingAfterClose
  <2>2. main \in Late
    BY <2>1 DEF DInv, TypeOK, Drained, Serving, Early, Late
  <2>3. running # {}
    BY <2>1 DEF DInv, TypeOK
  <2>4. QED
    BY <2>1, <2>2, <2>3 DEF DInv, Drained
<1>3. QED
  BY <1>1, <1>2, PTL
=============================================================================
