# A verification project for bp35c2-collector

The repository is a Go daemon that reads a Japanese smart meter over the
"B-route": a Wi-SUN module (ROHM BP35C2) on a serial port joins the meter's
network with PANA, ECHONET Lite frames travel in UDP datagrams, and the values
go to stdout, InfluxDB and Prometheus. This directory holds TLA+ modules that
model the program, TLC configurations that check them on small instances, and
proofs for TLAPS. `PROJECT.json` maps every definition to the lines it models.

## 1. Inventory

| component | source | state | operations | talks to |
|---|---|---|---|---|
| serial driver | `internal/bp35c2/driver.go` | `cmdMu`, `pending`, `events` (cap 64), `closed`, the reader's scan block | `Command`, the reader's handling of a line, `pushEvent`, `Close` | serial port; `Manager` (calls `Command`, drains `Events`) |
| connection manager | `internal/broute/manager.go`, `connect.go` | state, session, `connectedCh`, scan, join and disconnect channels, back-off, `incoming` (cap 32) | `Run`, `connectOnce`, `dispatchEvents`, `waitForDisconnect`, `WaitConnected` | driver; client (session, `Incoming`) |
| meter client | `internal/meter/meter.go` | TID counter, `pending` map, response channels | `Get`, `SetC`, `Run` | manager; collector |
| collector | `internal/collector/collector.go` | coefficient, unit, property map, `haveOneShot`, unsupported list | probe, three polls | client; sinks |
| sinks | `internal/sink` | the down-sampler's windows; libraries' own | `Write`, `Close`, idle flush | collector; back ends |
| daemon | `cmd/bp35c2-collector/main.go` | root context, result channel | wiring, watch on `Done`, shutdown, watchdog | all of them; systemd |
| codec, EPC decoders | `internal/echonet`, `meter/epc.go` | none | pure functions | client, collector |
| addresses, datagrams | `broute/udp.go`, `mac.go` | none | pure functions | manager |
| configuration, metrics | `internal/config`, `internal/metrics` | none after the start; counters | load, validate; callbacks | daemon |

**How they interact.** One goroutine reads the serial port; one (manager `Run`)
issues commands; one (`dispatchEvents`) drains the driver's events; one (client
`Run`) drains the payloads; the collector and its probe call `Get`, which sends
through the session (`SKSENDTO`, again a driver command). Mutexes protect maps
and pointers only; everything else crosses by channels, most of them bounded
with an explicit policy when full (drop the oldest, drop after 50 ms, drop at
once).

**What is hard.** The driver matches replies to commands by position only. The
dispatcher loads a channel reference under a lock and sends after the unlock, when
the attempt it belonged to may be over. Several wake-ups are read in one critical
section and used after another. A `Get` may time out as its answer is handed over,
and TIDs wrap. The network loses, repeats and reorders. Shutdown may come at any
step, and may itself hang in a back end. The list, line by line, is under `hazards`
in `PROJECT.json`.

**What makes each part correct.**

* Driver: a reply reaches the command it answers; nobody hangs; events keep
  their order and only the oldest are lost.
* Manager: outcomes of one attempt never decide another; a session lives
  exactly as long as its link; waiters and cancellation are served.
* Client: a response reaches its own call; the dispatcher never blocks; the
  map does not grow.
* Collector: a kWh value is never emitted in an unknown scale; an EPC is given
  up only if the meter does not have it.
* Sinks: no sample is lost, counted twice or put into another window; a stuck
  back end holds nobody; nothing is written after Close.
* Daemon: the end of any part ends the process, within a bounded time.

## 2. What is modelled

Each module names its abstraction in its header. Common conventions: an action
is what the code does between two points where another goroutine may run (a
critical section, a channel operation, an unlocked read); requests, attempts,
calls and events are numbered, so that a line or frame can name what it belongs
to; that number is a ghost the code never sees. A definition `X_Slip...` is `X`
with one plausible programming error. No specification uses it: substituted for
`X`, it shows which property would notice that error.

How the modules stand to each other:

    EventQueue  <-- refined by --  Driver
        ^------- its queue, with Displace -------  Manager
    Aggregator  <-- refined by --  Downsampler
    Codec       <-- extended by -- Collector
    Client      sees Manager as a network that may lose frames
    Daemon      reduces Driver, Manager, Collector to how they end

### Driver

`pc[c]` walks a caller through `Call` (waits for `cmdMu`), `Lock` (check of
`d.closed`), `Post` (`d.pending`), `Write`, `WaitDone` / `WaitTimeout` /
`WaitClosed`, `ClearPending`, `Unlock`: the last two are the deferred functions
in the order they run. `rpc` walks the reader: one action per class of line
(`ReadRow` of a scan block, `ReadHeader`, `ReadEvent`, `ReadTerminator` then
`Reply`, `ReadBody`), `FlushBlock` for a block ended by the next line, the three
steps of `pushEvent` (`push`, `evict`, `send`), `EndScan` and `ReaderExit`.
`CloseMark`, `ClosePort`, `CloseFlush` are `Close`. `Answer`, `SendLine`, `Emit`
and `PortFails` are the module and the port. An answer may be late or missing; it is
sent line by line (`sending` is the rest of it), so that an event or a scan block
can come between its echo, its response line and its terminator. A block is one
output of the module and comes in one piece. `tainted` is history: the calls
posted while an older answer was still on its way.

`EventQueue` is what the driver promises to the consumer of its events: a
bounded queue that takes every event in order and makes room by losing its
oldest entry. It is stated in four actions; `Driver` shows that it implements
it (`EventsImplementQueue`): an event has its place from the moment room was made
for it. The abstract queue has a step between finding it full and displacing,
since the consumer may take an entry in between; the code then loses the
next one although there would have been room.

Not in it: text and parsing of lines, and a `Write` that blocks (the serial
library is not in the repository). How a call ended (busy, closed, failed write,
timeout, refusal, answer) is kept, its error text is not.

### Manager

`sup` is the supervisor, with every command of `connectOnce` as one step
(`Command`; an error may or may not have reached the module; the best-effort
ones go on; one that succeeds is taken to have acted on the module, although
`Driver_late_answer` shows that a late OK of a command that timed out can
succeed in its place), the subscriptions and waits of scan and join, back-off, `Publish` and
`Wake` (the two halves of `installSession`), `Arm` / `Disconnected`
(`waitForDisconnect`), `Clear` and `Renew`. `dpc` is the dispatcher: it takes an
event, loads the subscription (`ScanLoad`, `JoinLoad`, `DiscLoad`) and sends to
the reference it loaded, current or not. `wpc[w]` is a caller of
`WaitConnected`. `mod` is the BP35C2: it scans, joins, refuses, sends datagrams,
reports those it was given (EVENT 21) and loses the link. EVENT 29 stands for 27
and 28 as well.

Between the two stands the driver's event channel with its capacity: `Push` puts an
event into it, or finds it full (`late`), and `Displace` then drops the oldest.
These are the actions of `EventQueue`, so that what an evicted EVENT 25 or 29 does
is in the model: an attempt without its outcome times out, a loss that is evicted is
one more way to stay connected to a link that is gone (`missed`, `LossEvicted`).

`WaitOver` is an assumption worth naming: the waits for the scan (15 s at least),
the join (180 s) and the pause (5 s at first; these two are defaults that the
configuration may change) end only when the dispatcher has dealt with what was
queued, since it blocks for 50 ms at most per event. Without it TLC violates
`OwnOutcome` and `LossReachesArmed`: a dispatcher that is stalled for a whole join
timeout can bring the scan results, the EVENT 22 and the EVENT 25 of attempt 1 into
attempt 2.

### Client

`pc[c]` walks a caller of `Get` or `SetC` (the same steps): `Start` (it has a
session), `SkipZero` / `Take` (the atomic counter, cut to 16 bits, zero skipped
once), `Register`, `Send`, `Answered` or `Timeout` (also a cancelled context),
`Close` (the deferred delete, by TID). The dispatcher is `Receive` (lookup and
delete under the lock), `Handoff` (the send outside the lock, which would block
on a full channel) and `RunEnds`. `Answer`, `Notify` and `Lose` are the meter
and the network; `Receive` may leave the frame in the network, to be repeated.
A lost request is an answer that is lost, and a full `incoming` channel is
one more loss. `overlapped` is history: calls that were open together although
`TidSpace - 1` calls apart.

### Collector and Codec

`poll` walks the goroutine of the polls: `StartBatch` (the first two batches are
in `plan`, later ones are any ticker's), `Ask` once per EPC (`Supports` takes the
lock for each, so that the probe may store the property map between two of
them), `Built`, `GetFails` or `GetAnswers`, `ReadScale` (coefficient and unit
under one lock, after the response), `Emit` once per property, `BatchEnds`,
`Stop`. `probe` walks the other goroutine: `ProbeTry`, `ProbeFails`, `ProbeWaits`,
`ProbeAnswered`, the last with any part of the three properties it asked for.
A value in kWh is reduced to the scale (coefficient, power of ten) it is computed
with, the code's defaults for unread ones included; `complete` and `informed`
are history: whether the probe had everything, and had it before the batch
began. Only then does `ScaleIsWhole` promise anything: an answer to the probe
with the unit and without the coefficient gives half of the meter's scale
(section 5). The meter answers part of what it is asked, or with empty data.

What passes between the meter and the collector passes through `Codec`, as bytes:
a response is encoded and decoded as a list of properties with their lengths
(`Encode`, `Decode`), the property map is sent in the
form its size calls for (`MapData`, external) and decoded by
`DecodeGetPropertyMap`, and the unit byte by `Exponent`, with the default of the
coefficient in `Multiplier`. `Codec` holds pure operators; where the code loops, it
has recursive functions.

`Decode` can also refuse a frame that is cut off, as the code does, but no run and no
theorem gives it one: the client drops such a frame, and the Get times out, which is
`GetFails`.

`Emit` is a write to the sinks. That it returns is no part of `FairSpec`, but a
premise (`SinksReturn`) of the property that needs it.

Not in it: the values of the numbers, dates and tags, the fixed header of a frame, the
budget of a Get, callbacks, and the sinks' errors, which the collector passes to
a callback and otherwise ignores.

### Downsampler

`pc[w]` walks a caller of `Write`: the first critical section (`Write`), the
call of the inner sink outside the mutex (`Forward`), the second critical
section (`Store`), which replaces whatever buffer the series has by then.
`FlushTakes` / `FlushEmits` / `FlushStops` are the background flusher,
`CloseCancels`, `CloseTakes`, `CloseEmits` are `Close`. An aggregate is reduced
to the set of samples it was computed from, time to the windows of the samples,
in any order; the flusher may find any series idle. `raced` is history: samples
whose buffer a `Store` replaced.

`Aggregator` is what all of this is for, in three actions: a sample is accepted
under the key of its series and window, and leaves once, in an aggregate of
samples of that key only. The down-sampler implements it (`ImplementsAggregator`);
an accepted sample may be dropped (`Lossy`) only if there is more than one writer.

Not in it: the arithmetic of the aggregates, and the inner sink's errors. The code
drops those, so that a sample counts as delivered once the inner sink was called.

### Daemon

`main` walks `run`: `OpenSerial`, `MakeSink` (in the order of the code, each with
its error), `Start`, `FirstResult` (cancels the context), `Drain` (two more
results or the deadline), `CloseSink` / `SinkClosed` one sink after another,
`Unwind` (the deferred functions). Beside it run the driver's reader
(`ReaderEnds`, with an error or at end of file), the goroutine on `Done` (`Watch`),
the heartbeat, the manager and the client (`WorkerEnds`), and the collector with
the fan-out of every measurement: `GetEnds`, `ChildWrites` in a goroutine per child,
`MultiReturns`, `Tick`, `CollectorEnds`. A write to a sink in `Stuck` need not
return, nor a Close of a sink in `Hangs`. `Signal`, `Kill` (no heartbeat for 60
seconds) and `Restart` are systemd; a restarted process reads any configuration.

Not in it: what the goroutines do besides coming to their ends; the modules above
say that they do (`CancelStops`, `CancelEnds`, `ReaderEnds`). `WorkerEnds` waits for
the context, since `Run` returns for nothing else: when the driver's events end,
the manager goes on trying, and failing.

## 3. What the runs check

| run | instance | shows |
|---|---|---|
| `Driver_calls` | 2 callers, 2 calls, the port fails both ways | types; `ErrBusy` is unreachable (`NeverBusy`); the result of a command is never dropped (`ResultNotDropped`); the inductive invariant `DriverInv`; every call returns in the end if contexts expire, after Close without that; the reader ends |
| `Driver_events` | 1 caller, 2 calls, 3 events or blocks anywhere between the lines of the answers, channel of 2, the port fails both ways | an untainted call gets its own terminator and response lines, and no echo or event among them (`MatchUnlessTainted`); eviction makes room; the events implement `EventQueue` though blocks are held back |
| `Driver_late_answer` | 2 callers, 2 calls | **violation** of `AnswerMatches`, see section 5 |
| `Manager_safety` | 3 attempts, 2 beacons, 2 datagrams or reports, event channel of 2 | types and `connectedCh` closed once; `OwnOutcome`; `OnlyRealLoss`; `LossReachesArmed` |
| `Manager_live` | 2 attempts, 1 waiter, 1 datagram or report each, incoming channel of 1, event channel of 2 | a delivered loss ends the session unless evicted, also behind a datagram that finds the incoming channel full; cancellation stops; no wake-up is missed; attempts end |
| `Manager_lost_event` | 1 attempt, event channel of 3 | **violation** of `LossTearsDown`, see section 5 |
| `Client_calls` | 2 callers, 3 calls, 3 TIDs, 1 notification | types; `HandoffNeverBlocks`; `OwnResponse`; `WaitingIsReachable`; `NoLeftover` |
| `Collector_polls` | 3 batches, 4 EPCs, 13 others, 2 scales, every meter | types; if the probe was answered in full, no value is scaled by half of the meter's scale (`ScaleIsWhole`); an EPC the meter has is asked (`AskedIfPresent`); the map is the one advertised, in both its forms (`MapAsAdvertised`); the probe gets to its end with a patient meter, a cancelled collector with sinks that return |
| `Collector_unscaled` | the same | **violation** of `NeverWrongScale`, see section 5 |
| `Downsampler_windows` | 2 writers, 2 series, 2 windows, 3 samples | types; an aggregate is of one series and window (`Coherent`); `NeverTwice`; `NothingLost` but for `raced`; the abstract `Aggregator` is implemented; `SampleLeaves` |
| `Daemon_life` | every set of sinks, stuck stdout, hanging InfluxDB, 2 measurements per response | types and the room in `errCh`; no sink is closed under a write before the deadline (`NothingAfterClose`); a process told to end ends and comes back (`ComesBack`); no deadlock |
| `Daemon_stuck` | stuck stdout | **violation** of `NeverHeld`, see section 5 |

**Why the bounds are enough.** Two callers are a holder of the lock and one who
waits; the safety of longer sequences of calls is proved, for any number. In
`Driver_events` the two calls follow each other, as the lock makes all calls; three
events through a channel of two overflow it, and each may fall before, between or
after the lines of either answer. Three attempts are one whose events are late, one
they arrive in, and one after it; two datagrams or reports of an attempt fill an
event channel of two and displace the outcome of the join or the loss behind which
they come, while a channel of three in `Manager_lost_event` displaces nothing: the
loss is lost all the same. In `Manager_live` the datagram of the first attempt fills
the incoming channel, if the client does not take it, and that of the second finds
it full; the length of the pauses decides nothing there, so that it has one value.
Two TIDs besides zero make the third call reuse the first's, and the counter pass
zero in between. Three batches are the two initial ones, which overlap the probe,
and one after it; the batches have one or two EPCs, two of them energies, and the
meters differ in what they implement and have an odd coefficient or an unknown unit.
With the 13 EPCs nobody polls, a meter has 13 to 17, on both sides of the 15 up to
which the property map is a list. Three samples are one that closes a window, the
one that was in it, and one written in the gap (four, tried once, give no other
result). Two measurements of a response are one during which the context is
cancelled and one written after that.

All counters are bounded by constants (`MaxCalls`, `MaxEvents`, `MaxAttempts`,
`MaxBeacons`, `MaxFrames`, `MaxOwn`, `MaxBatches`, `MaxSamples`, `MaxBurst`) in
the guards of the actions that start something new. All models but `Daemon`
really stop at them: deadlock is not checked there for that reason. `Daemon`
goes on for ever, through restarts, and is checked for deadlock. Callers are
symmetric in `Client_calls`, a safety run; no other run uses symmetry.

**Fairness.** Goroutines that can run do run (weak fairness of each caller's steps,
the reader, the supervisor, the dispatcher, the waiters, a displacement begun).
`cmdMu` is strongly fair: a Go mutex in starvation mode is handed over in order.
That contexts expire is assumed in `CallReturns` only (every caller in the program
gives `Command` a context with a deadline), and for the timers of the manager.
`CallReturns` is about time only so far: the deadline ends the wait for the module,
not the one for `cmdMu` (driver.go:171), so that a queued call may return after its
own deadline. In the collector, `Stop` is strongly fair: the cancelled context is
one case of a `select` that chooses among the ready ones at random, so that tickers
cannot hide it for ever; `CollectorEnds` of the daemon is the same step.
`ProbeSucceeds` has the patience of the meter as its premise (`PatientMeter`: asked
again and again, it answers in the end), and `CancelEnds` that the writes to the
sinks return (`SinksReturn`): `Multi.Write` waits for every child (sink.go:70), and
`Daemon_stuck` shows one that never returns. A cancelled collector that is held in
such a write does not end; the daemon's watchdog ends the process then
(`ComesBack`). In the down-sampler, each series that keeps a window is found idle in
the end (strong fairness of `FlushTakes` per series); nobody need call `Close`. In
the daemon, systemd kills and restarts, sinks outside `Stuck` and `Hangs` return,
and those inside need not. Nothing else is assumed of the module, the port, the
meter, the network, the consumer of the events or whoever cancels.

## 4. What is proved

Every safety property of the passing runs is proved, and both refinements. The
theorems hold for every number of callers, calls, events, TIDs, attempts, waiters,
writers and samples, every channel capacity, every table of EPCs and every set of
sinks. They assume only what the modules name: bounds are naturals, capacities
positive, so are the two back-offs (`NewManager` replaces zeros; nothing checks the
sign, or that the first is at most the second, and the proofs do not need that),
`TidSpace > 1`, writers are finitely many, stuck sinks are sinks. Of the collector's
tables they assume what `epc.go` and the tables in `collector.go` give: EPCs lie in
0x80 to 0xFF, no instantaneous one has a value in kWh, and a batch has 255 at most
(`EpcsAssumption`, `ListsAssumption`); of the meter nothing but that its coefficient
is a natural number and its unit a byte.

**Driver** (`DriverProofs`). `TypeCorrect`, then `InvCorrect` for `DriverInv`, and
from it `NeverBusyCorrect`, `ResultNotDroppedCorrect` and `MatchCorrect`;
`EvictionCorrect` needs an invariant of its own on the three steps of
`pushEvent`. None of the three hand-over properties is inductive alone.
`HandOver` says that a caller inside the lock is its only holder and that a
pending command has an owner who will clear it (hence no `ErrBusy`).
`OneCompleter` says that a request that is pending, or in the reader's hand, has
an empty done channel, and not both at once: whoever takes it out of `d.pending`
completes it alone. `Attribution` says that while an untainted request is
pending, every answer in flight is its own, what the module has still to send of it
included.

**The event queue** (`DriverQueueProofs`). `QueueCorrect` is the refinement:
`Spec => EventsImplementQueue`. Initial states map to initial states, and each
action of the driver to a step of `EventQueue` or to a stutter; only the
reader's steps that take an event or push one, and the consumer's, are not stutters
(`QueueTake`, `QueuePush`, `QueueConsume`). That the event pushed next is always
the next number is not visible in the queue. `InOrder` carries it: the lines on
the port that stand for events are a chain, numbered upwards without a gap
after the event the reader has in hand, a held-back block included
(`ChainTail`, `ChainAnswer`, `ChainEmit` say how the port keeps that).

**Client** (`ClientProofs`). One invariant, `Inv`, carries all five theorems.
`Traced` follows a frame from the network to the caller: it carries the TID of the
call it answers. `Entries` says that an entry of the map stands under the TID of
an open call that has received nothing and is not about to, which gives
`NoLeftover` and, with `HandoffNeverBlocks`, that the channel has room.
`OwnResponse` then needs arithmetic: two calls with one TID are at least
`TidSpace - 1` calls apart (`Apart`). `Counted` makes that inductive. It says
how far the counter is past the TID of an older call, one for each call since,
and one more if zero was skipped. `Overlaps` and `Reachable` do the same for
`WaitingIsReachable`: the only calls that can take an entry away are far apart and
open at the same time, which the history records. With `TidSpace = 2^16` and the
collector's handful of concurrent calls this cannot happen in practice.

**Manager** (`ManagerProofs`). `MInv` follows the events from the hand of the driver's
reader (`late`) through the channel to the dispatcher's hand, and says of that
stream, whatever was evicted from it, that attempts do not overtake each
other, nor within one attempt the scan the join (`Stream`). `Phases` relates the
supervisor's step to what the module does: while it scans, or has found a
network, nothing of this attempt's join has been said. `Clean` is why
`OwnOutcome` holds: the scan ends by an EVENT 22 that came through the same
stream, so that no outcome of an older join is behind it, and none is left when
`SKJOIN` begins. For the losses, `Armed` says that a reference the dispatcher loaded for
this attempt is the channel in use, and that what was put into it is a real loss
(`OnlyRealLoss`). `Reach` says that a link that is gone has been told, was missed,
or has its event in the stream; `LossReachesArmed` follows. The proof rests on
the guard `WaitOver` (section 2), as the properties do. `Clean` and `Reach`
are stated until the manager is cancelled: a cancelled `Run` returns from any
wait and looks at no outcome.

**Down-sampler** (`DownsamplerProofs`). `DInv` accounts for every window and every
sample. `OneHand`: a window taken out of the buffers is in the hand of one writer,
of the flusher or of `Close`, and in one only. `Disjoint`: no two windows
share a sample. `OneFate`: a sample is in a window, with a writer in the gap of
`Write`, replaced by a rival's store, or emitted, and no two of these. From that follow
`NeverTwice`, `NothingLost` and `Coherent`. `Alone` is for the refinement: with one
writer, a series has no window while its writer is in the gap, so that `Store`
replaces nothing. `AggregatorCorrect` maps each `Store` to an acceptance, each call
of the inner sink to an emission, and everything else to a stutter; a store by a
second writer is the abstract drop.

**Codec and collector** (`CodecProofs`, `CollectorProofs`). `DecodesEncoded`: a frame
is read as it was written, for every list of up to 255 properties with up to 255
bytes each. The loops of `Encode` and `Decode` are recursive functions. The library's
induction theorems cannot be used here, since they take an operator as a
parameter; `UpTo` does the same for a set of numbers, from the well-foundedness of
`<`: the least number outside the set is not 0, and its predecessor is inside.
`Recursion` gives the function a loop defines; that what `Encode` has written stays
where it is (`WrittenPrefixes`) lets each turn of `Decode` cut off exactly one property
(`DecodesOne`). `MapRead` says that both forms of the property map are read as
they were sent, for every set of EPCs: `SortedOf` (each rank has one member)
for the list, `Bits` for the bytes.

`CInv` is the collector's invariant. `UnreadInv`: until the probe was answered,
everything has its initial value, and what was written the initial scale. `ReadInv`:
once it was answered in full, coefficient and unit are the meter's, both or
neither in the scale of the batch that is under way, and both if it began later.
`ListInv`: what the meter has and never answered without data is asked or still to be
asked. `AnswerInv` (with `DecodesEncoded`): a decoded answer is a list of properties.
They give `TypeCorrect`, `MapCorrect`, `ScaleCorrect` and `AskedCorrect`.

**Daemon** (`DaemonProofs`). `DaemonTypeCorrect` and `NothingAfterCloseCorrect`,
from `DInv`. The type invariant counts: results plus goroutines that run are
three before the first result, and what main waits for during the drain, unless
time is up. `Drained` carries that past the drain: when main closes
sinks, no goroutine is left or the deadline has passed. Since a write is open
only while the collector runs, none is open when the first sink is closed.

**Only model-checked.** What must eventually happen: `CallReturns`, `CloseUnblocks`
and `ReaderEnds` of the driver, the liveness of the manager, `ProbeSucceeds` and
`CancelEnds` of the collector, `SampleLeaves` of the down-sampler and `ComesBack` of
the daemon, with the absence of deadlock there. Fairness and `ENABLED` are
beyond the prover. The four disagreements of section 5 are TLC's counterexamples.

## 5. Disagreements between the code and its comments

* `Driver_late_answer`: the comment on `cmdMu` (driver.go:69-70) says that it lets
  the reader attribute lines to the right request. A command that times out
  leaves its answer behind, and the reader gives it to the next command.
* `Manager_lost_event`: the package comment (manager.go:10-11) says that EVENT
  24/27/28/29 tear down and drive the reconnection. One that is handled between
  the success of the join and the creation of `m.disc` is dropped, and the
  session stays connected until a later one.
* `Collector_unscaled`: the comment in `Run` (collector.go:81-85) says that no value
  at all is better than one in the wrong scale. The first batch of energies runs
  beside the probe; a response that comes first is scaled with the defaults,
  coefficient 1 and 1 kWh. The same happens for good if the probe is answered
  without the coefficient or the unit, since any answer ends it.
* `Daemon_stuck`: the package comment of the sinks (sink.go:4-6) says that a stuck
  back end never blocks the collector, and that of `Multi.Write` (sink.go:54-55)
  that it waits for all children or their timeouts. It waits for all children
  (sink.go:70); the timeout is a context, and `Stdout.Write` does not look at it.
  A pipe nobody reads holds the collector for good.

Visible in the models, without a run of their own:

* In the down-sampler, a second writer of a series can store a sample in the gap of
  the first one's `Write` and lose it (`raced`). The program has one writer.
* `Close` of the InfluxDB sink says that it blocks until the flush is done or the
  context expires (influxdb.go:106-107), but flushes before it looks at the
  context. Whether that hangs is the library's; `ComesBack` shows that the watchdog
  ends it if there is one, because the heartbeat ends with the context.
* A reader that ends at end of file does not close `Done` (driver.go:258), so that
  the restart promised in main.go:203-206 does not come: the process beats on and
  measures nothing. Whether the serial port ever reports end of file is the
  library's.

## 6. What is not modelled, and the plan

Not modelled: addresses and datagrams (`udp.go`, `mac.go`: parsing of one line each,
no state), configuration (read once; `Validate` checks that fields are there, but
neither the sign of a duration nor that the initial back-off is at most the largest
one, and no model depends on that beyond the assumptions of section 4), metrics
(counters nobody reads back), the service unit (deployment data; its restart and
watchdog are in `Daemon`). In part: the back ends (only that they may block or hang;
HTTP, batching and the registry are libraries), the codec (the fixed header of a
frame is left out) and the EPC decoders (map and units, not the plain number
formats).

Next:

1. A request/reply service that `Client` implements, and a link (down, joining, up)
   that `Manager` implements, as abstract specifications.
