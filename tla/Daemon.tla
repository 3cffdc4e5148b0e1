------------------------------- MODULE Daemon --------------------------------
(***************************************************************************)
(* The life of the process: cmd/bp35c2-collector/main.go, with the fan-out *)
(* of internal/sink/sink.go that the collector writes through.             *)
(*                                                                         *)
(* Start the driver and the sinks, run manager, client and collector, and  *)
(* when the first of them returns cancel the others, wait for them for at  *)
(* most three seconds, close the sinks and exit; systemd starts a fresh    *)
(* process.  The components are reduced to what decides when they end: the *)
(* reader of the serial port to whether it ended with an error (Driver),   *)
(* Run of manager and client to returning once the context is cancelled    *)
(* (CancelStops of Manager), the collector to its Gets and its writes.     *)
(* Measurements carry no data.                                             *)
(*                                                                         *)
(* Definitions named X_Slip... are X with one plausible error (see Driver).*)
(***************************************************************************)
EXTENDS Integers, FiniteSets

CONSTANTS
  Stuck,        \* sinks whose Write may never return
  Hangs,        \* sinks whose Close may never return
  MaxBurst      \* bound on the measurements of one response

AllSinks == {"prometheus", "stdout", "influxdb"}
Workers == {"manager", "client", "collector"}

ASSUME SinksAssumption == Stuck \subseteq AllSinks /\ Hangs \subseteq AllSinks
ASSUME BurstAssumption == MaxBurst \in Nat \ {0}

VARIABLES
  main,                \* run(): the step it is at
  enabled,             \* the sinks the configuration file enables
  made, shut,          \* sinks made, sinks whose Close was called
  running,             \* goroutines that have not returned
  results, waits,      \* results in errCh, results still waited for
  cancelled,           \* the root context
  drainOver,           \* the deadline of drainCtx has passed
  reader, done,        \* the driver's reader, close(d.closed)
  watcher, watchdog,   \* the goroutine on drv.Done, the heartbeat
  col, left, writing   \* the collector: step, measurements, open child writes

sinkVars   == <<enabled, made, shut>>
goVars     == <<running, results, cancelled>>
waitVars   == <<waits, drainOver>>
driverVars == <<reader, done>>
sideVars   == <<watcher, watchdog>>
colVars    == <<col, left, writing>>
vars == <<main, sinkVars, goVars, waitVars, driverVars, sideVars, colVars>>

Init ==
  /\ main = "serial"
  /\ enabled \in SUBSET AllSinks /\ made = {} /\ shut = {}
  /\ running = {} /\ results = 0 /\ waits = 0
  /\ cancelled = FALSE /\ drainOver = FALSE
  /\ reader = "none" /\ done = FALSE
  /\ watcher = "off" /\ watchdog = "none"
  /\ col = "get" /\ left = 0 /\ writing = {}

\* The sinks are made, and bundled by NewMulti, in one order.
Place == [prometheus |-> 1, stdout |-> 2, influxdb |-> 3]
First(S) == CHOOSE s \in S : \A t \in S : Place[s] <= Place[t]

Alive == main \notin {"exited", "killed"}

-----------------------------------------------------------------------------
(* run(): start.  An error on the way goes to the deferred functions.       *)

OpenSerial ==
  /\ main = "serial"
  /\ \/ main' = "sinks" /\ reader' = "reads"
     \/ main' = "unwind" /\ UNCHANGED reader
  /\ UNCHANGED <<sinkVars, goVars, waitVars, done, sideVars, colVars>>

MakeSink ==
  /\ main = "sinks" /\ made # enabled
  /\ LET s == First(enabled \ made) IN
       \/ made' = made \cup {s} /\ UNCHANGED main
       \/ s # "stdout" /\ main' = "unwind" /\ UNCHANGED made
  /\ UNCHANGED <<enabled, shut, goVars, waitVars, driverVars, sideVars,
                 colVars>>

\* Ready, the heartbeat if systemd asks for one, the watch on the driver, and
\* the three goroutines; or the error of a configuration without sinks.
Start ==
  /\ main = "sinks" /\ made = enabled
  /\ IF enabled = {}
     THEN main' = "unwind" /\ UNCHANGED <<sideVars, running>>
     ELSE /\ main' = "first"
          /\ watchdog' \in {"none", "beats"} /\ watcher' = "on"
          /\ running' = Workers
  /\ UNCHANGED <<sinkVars, results, cancelled, waitVars, driverVars, colVars>>

-----------------------------------------------------------------------------
(* run(): the end.                                                          *)

Waits_SlipOne == 1
Waits == Cardinality(Workers) - 1

FirstResult ==
  /\ main = "first" /\ results > 0
  /\ results' = results - 1
  /\ cancelled' = TRUE
  /\ main' = "drain" /\ waits' = Waits
  /\ UNCHANGED <<sinkVars, running, drainOver, driverVars, sideVars, colVars>>

\* One turn of the loop: a result, or the deadline; when both are there, either.
Drain ==
  /\ main = "drain" /\ waits > 0
  /\ waits' = waits - 1
  /\ \/ results > 0 /\ results' = results - 1
     \/ drainOver /\ UNCHANGED results
  /\ UNCHANGED <<main, sinkVars, running, cancelled, drainOver, driverVars,
                 sideVars, colVars>>

\* The sinks are closed one after another, with what is left of the three
\* seconds; Prometheus, closed twice, has nothing to do the second time.
CloseSink ==
  /\ \/ main = "drain" /\ waits = 0
     \/ main = "close"
  /\ IF shut = made
     THEN main' = "unwind" /\ UNCHANGED shut
     ELSE main' = "closing" /\ shut' = shut \cup {First(made \ shut)}
  /\ UNCHANGED <<enabled, made, goVars, waitVars, driverVars, sideVars,
                 colVars>>

\* The sink whose Close is running.
Closing == CHOOSE s \in shut : \A t \in shut : Place[t] <= Place[s]

SinkClosed ==
  /\ main = "closing" /\ main' = "close"
  /\ UNCHANGED <<sinkVars, goVars, waitVars, driverVars, sideVars, colVars>>

\* The deferred functions: the heartbeat, the driver, the port, the context.
Unwind ==
  /\ main = "unwind" /\ main' = "exited"
  /\ done' = (reader # "none")
  /\ cancelled' = TRUE
  /\ watchdog' = IF watchdog = "beats" THEN "silent" ELSE watchdog
  /\ UNCHANGED <<sinkVars, running, results, waitVars, reader, watcher, colVars>>

\* drainCtx runs from the first result on.
ThreeSeconds ==
  /\ main \in {"drain", "close", "closing"} /\ ~drainOver
  /\ drainOver' = TRUE
  /\ UNCHANGED <<main, sinkVars, goVars, waits, driverVars, sideVars, colVars>>

-----------------------------------------------------------------------------
(* The goroutines main starts.                                              *)

\* The read loop of the driver ends; only an error closes Done (Driver, EndScan).
ReaderEnds ==
  /\ Alive /\ reader = "reads" /\ reader' = "gone"
  /\ done' \in {done, TRUE}
  /\ UNCHANGED <<main, sinkVars, goVars, waitVars, sideVars, colVars>>

\* cancel() when the driver reports its end.
Watch ==
  /\ Alive /\ watcher = "on" /\ watcher' = "off"
  /\ \/ done /\ cancelled' = TRUE
     \/ cancelled /\ UNCHANGED cancelled
  /\ UNCHANGED <<main, sinkVars, running, results, waitVars, driverVars,
                 watchdog, colVars>>

\* The heartbeat looks at nothing but a context derived from the root one.
HeartbeatEnds_SlipOwnContext == FALSE
HeartbeatEnds == cancelled

Heartbeat ==
  /\ Alive /\ watchdog = "beats" /\ HeartbeatEnds
  /\ watchdog' = "silent"
  /\ UNCHANGED <<main, sinkVars, goVars, waitVars, driverVars, watcher, colVars>>

Returns(g) ==
  /\ running' = running \ {g}
  /\ results' = results + 1

\* Run of the manager and of the client; Incoming is never closed.
WorkerEnds(g) ==
  /\ Alive /\ g \in running \ {"collector"} /\ cancelled
  /\ Returns(g)
  /\ UNCHANGED <<main, sinkVars, cancelled, waitVars, driverVars, sideVars,
                 colVars>>

-----------------------------------------------------------------------------
(* The collector: Get, the fan-out of each measurement, the next tick.      *)

ColStep(from) == Alive /\ "collector" \in running /\ col = from

\* A Get is answered, or fails: at its deadline or because of the context.
GetEnds ==
  /\ ColStep("get")
  /\ \/ /\ left' \in 1 .. MaxBurst
        /\ col' = "write" /\ writing' = made
     \/ col' = "select" /\ UNCHANGED <<left, writing>>
  /\ UNCHANGED <<main, sinkVars, goVars, waitVars, driverVars, sideVars>>

\* Each child writes in a goroutine of its own.
ChildWrites(s) ==
  /\ Alive /\ s \in writing
  /\ writing' = writing \ {s}
  /\ UNCHANGED <<main, sinkVars, goVars, waitVars, driverVars, sideVars, col,
                 left>>

FanOutOver_SlipTimeout == TRUE
FanOutOver == writing = {}                \* wg.Wait returns

\* The next measurement is written whether or not the context is cancelled.
MultiReturns ==
  /\ ColStep("write") /\ FanOutOver
  /\ left' = left - 1
  /\ IF left > 1
     THEN writing' = made /\ UNCHANGED col
     ELSE col' = "select" /\ UNCHANGED writing
  /\ UNCHANGED <<main, sinkVars, goVars, waitVars, driverVars, sideVars>>

Tick ==
  /\ ColStep("select") /\ col' = "get"
  /\ UNCHANGED <<main, sinkVars, goVars, waitVars, driverVars, sideVars, left,
                 writing>>

CollectorEnds ==
  /\ ColStep("select") /\ cancelled
  /\ Returns("collector")
  /\ UNCHANGED <<main, sinkVars, cancelled, waitVars, driverVars, sideVars,
                 colVars>>

-----------------------------------------------------------------------------
(* Outside the process.                                                     *)

\* SIGTERM or SIGINT; signal.NotifyContext is there from the start.
Signal ==
  /\ Alive /\ ~cancelled /\ cancelled' = TRUE
  /\ UNCHANGED <<main, sinkVars, running, results, waitVars, driverVars,
                 sideVars, colVars>>

Hung == main = "closing" /\ Closing \in Hangs

\* WatchdogSec (60 s) without a heartbeat; only a Close can last that long.
Kill ==
  /\ Hung /\ watchdog = "silent"
  /\ main' = "killed"
  /\ UNCHANGED <<sinkVars, goVars, waitVars, driverVars, sideVars, colVars>>

\* Restart=always: a fresh process, which reads its configuration again.
Restart ==
  /\ ~Alive /\ main' = "serial"
  /\ enabled' \in SUBSET AllSinks /\ made' = {} /\ shut' = {}
  /\ running' = {} /\ results' = 0 /\ waits' = 0
  /\ cancelled' = FALSE /\ drainOver' = FALSE
  /\ reader' = "none" /\ done' = FALSE
  /\ watcher' = "off" /\ watchdog' = "none"
  /\ col' = "get" /\ left' = 0 /\ writing' = {}

-----------------------------------------------------------------------------
Main ==
  \/ OpenSerial \/ MakeSink \/ Start
  \/ FirstResult \/ Drain \/ CloseSink \/ Unwind

Next ==
  \/ Main \/ SinkClosed \/ ThreeSeconds
  \/ ReaderEnds \/ Watch \/ Heartbeat
  \/ \E g \in Workers : WorkerEnds(g)
  \/ GetEnds \/ MultiReturns \/ Tick \/ CollectorEnds
  \/ \E s \in AllSinks : ChildWrites(s)
  \/ Signal \/ Kill \/ Restart

Spec == Init /\ [][Next]_vars

\* The goroutines run and the timers fire; the select of the collector cannot
\* pass over a cancelled context for ever; systemd does its part.  A sink that
\* may be stuck or hang is not assumed to return, nor anybody to send a signal.
FairSpec ==
  /\ Spec
  /\ WF_vars(Main) /\ WF_vars(SinkClosed /\ ~Hung) /\ WF_vars(ThreeSeconds)
  /\ WF_vars(Watch) /\ WF_vars(Heartbeat)
  /\ \A g \in Workers : WF_vars(WorkerEnds(g))
  /\ WF_vars(GetEnds) /\ WF_vars(MultiReturns) /\ SF_vars(CollectorEnds)
  /\ \A s \in AllSinks \ Stuck : WF_vars(ChildWrites(s))
  /\ WF_vars(Kill) /\ WF_vars(Restart)

-----------------------------------------------------------------------------
(* Properties.                                                              *)

Serving == {"first", "drain", "close", "closing"}

\* The types of the variables.  Every goroutine has returned, sits in errCh or
\* was counted by main, so that errCh (capacity 3) never blocks one of them;
\* sinks are closed in the order they were made; only the fan-out writes, and
\* only to sinks there are (main.go:87-107, 219-242, sink.go:56-82).
TypeOK ==
  /\ main \in Serving \cup {"serial", "sinks", "unwind", "exited", "killed"}
  /\ enabled \subseteq AllSinks /\ made \subseteq enabled /\ shut \subseteq made
  /\ running \subseteq Workers
  /\ results \in 0 .. Cardinality(Workers) - Cardinality(running)
  /\ main = "first" => results + Cardinality(running) = Cardinality(Workers)
  /\ main = "drain" /\ ~drainOver =>
       results + Cardinality(running) = waits
  /\ waits \in 0 .. Waits
  /\ {cancelled, drainOver, done} \subseteq BOOLEAN
  /\ reader \in {"none", "reads", "gone"}
  /\ watcher \in {"on", "off"} /\ watchdog \in {"none", "beats", "silent"}
  /\ col \in {"get", "write", "select"} /\ left \in 0 .. MaxBurst
  /\ writing \subseteq made
  /\ writing # {} => col = "write" /\ "collector" \in running

\* No sink is closed under a write of the collector, or written to after it,
\* unless the drain ran out of time: main waits for the collector, and the
\* collector for every child (main.go:225-239, sink.go:56-72).
NothingAfterClose == writing \cap shut # {} => drainOver

\* Once the driver reports its end or a signal has come, the process ends and a
\* fresh one opens the port, though a write may be stuck for good and though a
\* Close may hang: the heartbeat has ended with the context and systemd kills
\* it.  Without a watchdog nothing ends a Close that hangs
\* (main.go:199-244, 285-296).
ComesBack ==
  (main \in Serving /\ (done \/ cancelled))
    ~> main = "serial" \/ (Hung /\ watchdog = "none")

\* What the package comment of the sinks says (sink.go:4-6): a stuck backend
\* never blocks the collector.  Violated: the fan-out waits for the child, and a
\* child that does not look at its context (stdout, a full pipe) keeps it.
NeverHeld == col = "write" ~> col # "write" \/ ~Alive
=============================================================================
