------------------------------ MODULE Manager -------------------------------
(***************************************************************************)
(* The connection manager of the B-route: internal/broute/manager.go and   *)
(* connect.go.                                                             *)
(*                                                                         *)
(* A supervisor goroutine runs attempt after attempt: configure the        *)
(* module, scan, join, publish the session, wait for its end.  A           *)
(* dispatcher goroutine is the only consumer of the driver's events and    *)
(* hands them to whoever is subscribed: the scan, the join, the armed      *)
(* disconnect channel.  Readers of the session block in WaitConnected.     *)
(*                                                                         *)
(* Attempts are numbered; an event and a channel carry the number of the   *)
(* attempt they belong to.  A command of the driver is one step here: it   *)
(* is answered or fails, and a failed one may have reached the module.     *)
(* One that succeeds is taken to have acted on the module, although the    *)
(* late OK of an earlier command that timed out can succeed in its place   *)
(* (AnswerMatches in Driver).                                              *)
(* Definitions named X_Slip... are X with one plausible error (see Driver).*)
(***************************************************************************)
EXTENDS Integers, Sequences

CONSTANTS
  Waiters,         \* goroutines that call WaitConnected
  ScanCap,         \* capacity of the scan channel (16)
  IncomingCap,     \* capacity of the incoming channel (32)
  EventCap,        \* capacity of the driver's event channel (64)
  InitialBackoff, MaxBackoff,
  MaxAttempts,     \* bound on the attempts
  MaxBeacons,      \* bound on the scan results of one attempt
  MaxFrames        \* bound on the datagrams and reports of one attempt

ASSUME CapAssumption == {ScanCap, IncomingCap, EventCap} \subseteq Nat \ {0}
ASSUME BackoffAssumption == {InitialBackoff, MaxBackoff} \subseteq Nat \ {0}
ASSUME BoundsAssumption ==
  MaxAttempts \in Nat /\ MaxBeacons \in Nat /\ MaxFrames \in Nat

None == 0
Attempts == 1 .. MaxAttempts

VARIABLES
  sup, attempt, backoff,       \* the supervisor: step, attempt, next pause
  state,                       \* m.state
  session, connected, gen,     \* m.session; connectedCh: closed?, which one
  scanCh, scanQ, found,        \* scanResultCh, its buffer, the best beacon
  joinCh, joinRes,             \* joinResultCh, its buffer (cap 1)
  disc, discRes,               \* m.disc, its buffer (cap 1)
  dpc, dEv, dRef,              \* the dispatcher: step, event, channel loaded
  incoming,                    \* length of the incoming channel
  wpc, wGen,                   \* a waiter: step, the channel it selects on
  events, late,                \* the driver's event channel, the event for
                               \* which its reader has found it full
  driver,                      \* "up", or "down" once it ended
  mod, modOf, sent,            \* the module: doing what, for which attempt
  cancelled,                   \* the context of Run
  missed                       \* history: a loss was evicted, or found no
                               \* armed channel

supVars  == <<sup, attempt, backoff, state>>
sessVars == <<session, connected, gen>>
chanVars == <<scanCh, scanQ, found, joinCh, joinRes, disc, discRes>>
dispVars == <<dpc, dEv, dRef, incoming>>
waitVars == <<wpc, wGen>>
queueVars == <<events, late>>
modVars  == <<mod, modOf, sent>>
vars == <<supVars, sessVars, chanVars, dispVars, waitVars, queueVars, driver,
          modVars, cancelled, missed>>

Event(k) == [kind |-> k, of |-> modOf]
NoEvent == [kind |-> "none", of |-> None]
Kinds == {"none", "epandesc", "21", "22", "24", "25", "29", "udp", "closed"}
Losses == {"24", "29", "closed"}    \* 29 stands for 27 and 28 too

Init ==
  /\ sup = "top" /\ attempt = 0 /\ backoff = InitialBackoff
  /\ state = "disconnected"
  /\ session = None /\ connected = FALSE /\ gen = 0
  /\ scanCh = None /\ scanQ = <<>> /\ found = None
  /\ joinCh = None /\ joinRes = NoEvent
  /\ disc = None /\ discRes = NoEvent
  /\ dpc = "take" /\ dEv = NoEvent /\ dRef = None /\ incoming = 0
  /\ wpc = [w \in Waiters |-> "idle"] /\ wGen = [w \in Waiters |-> 0]
  /\ events = <<>> /\ late = NoEvent /\ driver = "up"
  /\ mod = "idle" /\ modOf = None /\ sent = [beacons |-> 0, frames |-> 0]
  /\ cancelled = FALSE /\ missed = FALSE

-----------------------------------------------------------------------------
(* Run and connectOnce: the supervisor.                                     *)

\* The loop's head: the context, the state, and the next attempt.
Top ==
  /\ sup = "top"
  /\ IF cancelled
     THEN sup' = "stopped" /\ UNCHANGED <<attempt, state, missed>>
     ELSE /\ attempt < MaxAttempts
          /\ attempt' = attempt + 1
          /\ state' = "initializing"
          /\ missed' = FALSE
          /\ sup' = "SKRESET"
  /\ UNCHANGED <<backoff, sessVars, chanVars, dispVars, waitVars, queueVars,
                 driver, modVars, cancelled>>

\* connectOnce returns an error; its deferred functions drop the subscriptions.
Fail == sup' = "backoff" /\ scanCh' = None /\ joinCh' = None

\* What a command that reached the module makes it do.
Effect(cmd) ==
  CASE cmd = "SKRESET" -> mod' = "idle" /\ UNCHANGED <<modOf, sent>>
    [] cmd = "SKSCAN"  -> /\ mod' = "scanning" /\ modOf' = attempt
                          /\ sent' = [beacons |-> 0, frames |-> 0]
    [] cmd = "SKJOIN"  -> mod' = "joining" /\ modOf' = attempt /\ UNCHANGED sent
    [] OTHER           -> UNCHANGED modVars

BestEffort == {"WOPT", "ROPT"}
After == [SKRESET |-> "WOPT", WOPT |-> "ROPT", ROPT |-> "SKSETPWD",
          SKSETPWD |-> "SKSETRBID", SKSETRBID |-> "subscan",
          SKSCAN |-> "scanning", S2 |-> "S3", S3 |-> "subjoin",
          SKJOIN |-> "joining"]

\* One drv.Command of connectOnce: answered, or failed (FAIL, timeout, closed
\* driver, cancelled context) with or without an effect on the module.  An
\* error ends the attempt except for the two options.
Command ==
  /\ sup \in DOMAIN After
  /\ \/ /\ driver = "up" /\ Effect(sup)
        /\ sup' = After[sup]
        /\ UNCHANGED <<scanCh, joinCh>>
     \/ /\ \/ driver = "up" /\ Effect(sup)
           \/ UNCHANGED modVars
        /\ IF sup \in BestEffort
           THEN sup' = After[sup] /\ UNCHANGED <<scanCh, joinCh>>
           ELSE Fail
  /\ UNCHANGED <<attempt, backoff, state, sessVars, scanQ, found, joinRes,
                 disc, discRes, dispVars, waitVars, queueVars, driver, cancelled,
                 missed>>

\* The channel is installed before the command that makes the module talk.
SubscribeScan ==
  /\ sup = "subscan"
  /\ scanCh' = attempt /\ scanQ' = <<>> /\ found' = None
  /\ state' = "scanning"
  /\ sup' = "SKSCAN"
  /\ UNCHANGED <<attempt, backoff, sessVars, joinCh, joinRes, disc, discRes,
                 dispVars, waitVars, queueVars, driver, modVars, cancelled,
                 missed>>

\* One turn of the loop of activeScan.  A beacon that cannot be parsed is
\* skipped; the best one is remembered as the attempt it belongs to.
ScanEvent ==
  /\ sup = "scanning" /\ scanQ # <<>>
  /\ scanQ' = Tail(scanQ)
  /\ IF Head(scanQ).kind = "epandesc"
     THEN /\ found' \in {found, Head(scanQ).of}
          /\ UNCHANGED <<sup, scanCh, joinCh>>
     ELSE /\ IF found # None
             THEN sup' = "S2" /\ scanCh' = None /\ UNCHANGED joinCh
             ELSE Fail
          /\ UNCHANGED found
  /\ UNCHANGED <<attempt, backoff, state, sessVars, joinRes, disc, discRes,
                 dispVars, waitVars, queueVars, driver, modVars, cancelled,
                 missed>>

\* A wait of seconds runs out: the scan budget (15 s at least), the join timeout
\* (3 min) or the pause (5 s; the last two are defaults a configuration may
\* change).  The dispatcher, which blocks for 50 ms at most, is taken to have
\* dealt with its backlog by then.  A cancelled context ends
\* the wait at once.
WaitOver ==
  \/ cancelled
  \/ events = <<>> /\ late = NoEvent /\ dpc \in {"take", "gone"}

ScanTimeout ==
  /\ sup = "scanning" /\ WaitOver
  /\ IF found # None
     THEN sup' = "S2" /\ scanCh' = None /\ UNCHANGED joinCh
     ELSE Fail
  /\ UNCHANGED <<attempt, backoff, state, sessVars, scanQ, found, joinRes,
                 disc, discRes, dispVars, waitVars, queueVars, driver, modVars,
                 cancelled, missed>>

\* The join channel is made for this join: nothing older is in its buffer.
FreshJoin_SlipReused == joinRes
FreshJoin == NoEvent

SubscribeJoin ==
  /\ sup = "subjoin"
  /\ joinCh' = attempt /\ joinRes' = FreshJoin
  /\ state' = "joining"
  /\ sup' = "SKJOIN"
  /\ UNCHANGED <<attempt, backoff, sessVars, scanCh, scanQ, found, disc,
                 discRes, dispVars, waitVars, queueVars, driver, modVars,
                 cancelled, missed>>

JoinWaitOver_SlipNoTimeout == FALSE
JoinWaitOver == WaitOver

JoinOutcome ==
  /\ sup = "joining"
  /\ \/ joinRes.kind = "25" /\ sup' = "publish" /\ joinCh' = None
        /\ backoff' = InitialBackoff /\ UNCHANGED scanCh
     \/ joinRes.kind = "24" /\ Fail /\ UNCHANGED backoff
     \/ JoinWaitOver /\ Fail /\ UNCHANGED backoff
  /\ UNCHANGED <<attempt, state, sessVars, scanQ, found, joinRes, disc,
                 discRes, dispVars, waitVars, queueVars, driver, modVars,
                 cancelled, missed>>

\* The pause after a failed attempt, or the end.
Pause ==
  /\ sup = "backoff"
  /\ \/ /\ WaitOver /\ sup' = "top"
        /\ backoff' = IF 2 * backoff > MaxBackoff THEN MaxBackoff ELSE 2 * backoff
     \/ cancelled /\ sup' = "stopped" /\ UNCHANGED backoff
  /\ UNCHANGED <<attempt, state, sessVars, chanVars, dispVars, waitVars,
                 queueVars, driver, modVars, cancelled, missed>>

\* installSession: the session, then the wake-up of the waiters.
Publish ==
  /\ sup = "publish"
  /\ session' = attempt
  /\ sup' = "wake"
  /\ UNCHANGED <<attempt, backoff, state, connected, gen, chanVars, dispVars,
                 waitVars, queueVars, driver, modVars, cancelled,
                 missed>>

Woke_SlipNoClose == UNCHANGED connected
Woke == connected' = TRUE                        \* close(m.connectedCh)

Wake ==
  /\ sup = "wake"
  /\ Woke
  /\ sup' = "arm"
  /\ UNCHANGED <<attempt, backoff, state, session, gen, chanVars, dispVars,
                 waitVars, queueVars, driver, modVars, cancelled,
                 missed>>

\* waitForDisconnect: the disconnect channel exists from here on.
Arm ==
  /\ sup = "arm"
  /\ state' = "connected"
  /\ disc' = attempt /\ discRes' = NoEvent
  /\ sup' = "wait"
  /\ UNCHANGED <<attempt, backoff, sessVars, scanCh, scanQ, found, joinCh,
                 joinRes, dispVars, waitVars, queueVars, driver, modVars,
                 cancelled, missed>>

ContextEnds_SlipNoCase == FALSE
ContextEnds == cancelled

Disconnected ==
  /\ sup = "wait"
  /\ \/ discRes # NoEvent /\ sup' = "clear"
     \/ ContextEnds /\ sup' = "clearLast"
  /\ disc' = None
  /\ UNCHANGED <<attempt, backoff, state, sessVars, scanCh, scanQ, found,
                 joinCh, joinRes, discRes, dispVars, waitVars, queueVars, driver,
                 modVars, cancelled, missed>>

\* clearSession: the session, then a new channel for the waiters; the cause
\* decides between another attempt and the end.
Clear ==
  /\ sup \in {"clear", "clearLast"}
  /\ session' = None
  /\ sup' = IF sup = "clear" THEN "renew" ELSE "renewLast"
  /\ UNCHANGED <<attempt, backoff, state, connected, gen, chanVars, dispVars,
                 waitVars, queueVars, driver, modVars, cancelled,
                 missed>>

Reopened_SlipSameChannel == UNCHANGED <<connected, gen>>
Reopened == connected' = FALSE /\ gen' = gen + 1   \* a new connectedCh

Renew ==
  /\ sup \in {"renew", "renewLast"}
  /\ Reopened
  /\ state' = "reconnecting"
  /\ sup' = IF sup = "renew" THEN "top" ELSE "stopped"
  /\ UNCHANGED <<attempt, backoff, session, chanVars, dispVars, waitVars,
                 queueVars, driver, modVars, cancelled,
                 missed>>

-----------------------------------------------------------------------------
(* dispatchEvents and handleEvent.  Each notify loads the channel under its *)
(* lock and sends after it: what it loaded may be stale by then.            *)

Goto(p, ev) == dpc' = p /\ dEv' = ev

\* A datagram goes to the incoming channel, or nowhere if that is full.
PassOn_SlipBlocks == incoming < IncomingCap /\ incoming' = incoming + 1
PassOn == incoming' = IF incoming < IncomingCap THEN incoming + 1 ELSE incoming

\* Take one event and, for a datagram, pass it on or drop it.
Take ==
  /\ dpc = "take" /\ events # <<>>
  /\ events' = Tail(events)
  /\ LET ev == Head(events) IN
       \/ /\ ev.kind \in {"epandesc", "22"} /\ Goto("scan", ev)
          /\ UNCHANGED incoming
       \/ /\ ev.kind \in {"24", "25"} /\ Goto("join", ev)
          /\ UNCHANGED incoming
       \/ /\ ev.kind = "29" /\ Goto("disc", ev)
          /\ UNCHANGED incoming
       \/ /\ ev.kind = "udp" /\ UNCHANGED <<dpc, dEv>>
          /\ PassOn
       \/ ev.kind = "21" /\ UNCHANGED <<dpc, dEv, incoming>>
  /\ UNCHANGED <<supVars, sessVars, chanVars, dRef, waitVars, late, driver,
                 modVars, cancelled, missed>>

\* After joinNotify, EVENT 24 goes on to notifyDisconnect and 25 does not.
AfterJoin_SlipJoinOnly == "take"
AfterJoin_SlipBoth == "disc"
AfterJoin == IF dEv.kind = "24" THEN "disc" ELSE "take"

\* scanNotify: a full channel is given 50 ms, then the event is dropped.
ScanLoad ==
  /\ dpc = "scan"
  /\ dRef' = scanCh
  /\ dpc' = IF scanCh = None THEN "take" ELSE "scanSend"
  /\ UNCHANGED <<supVars, sessVars, chanVars, dEv, incoming, waitVars, queueVars,
                 driver, modVars, cancelled, missed>>

ScanSend ==
  /\ dpc = "scanSend"
  /\ \/ dRef = scanCh /\ Len(scanQ) < ScanCap /\ scanQ' = Append(scanQ, dEv)
     \/ dRef # scanCh /\ UNCHANGED scanQ
     \/ dRef = scanCh /\ Len(scanQ) = ScanCap /\ UNCHANGED scanQ
  /\ dpc' = "take"
  /\ dRef' = None
  /\ UNCHANGED <<supVars, sessVars, scanCh, found, joinCh, joinRes, disc,
                 discRes, dEv, incoming, waitVars, queueVars, driver,
                 modVars, cancelled, missed>>

\* joinNotify: a second outcome, or one nobody waits for, is dropped.
JoinLoad ==
  /\ dpc = "join"
  /\ dRef' = joinCh
  /\ dpc' = "joinSend"
  /\ UNCHANGED <<supVars, sessVars, chanVars, dEv, incoming, waitVars, queueVars,
                 driver, modVars, cancelled, missed>>

JoinSend ==
  /\ dpc = "joinSend"
  /\ joinRes' = IF dRef # None /\ dRef = joinCh /\ joinRes = NoEvent
                THEN dEv ELSE joinRes
  /\ dpc' = AfterJoin
  /\ dRef' = None
  /\ UNCHANGED <<supVars, sessVars, scanCh, scanQ, found, joinCh, disc,
                 discRes, dEv, incoming, waitVars, queueVars, driver,
                 modVars, cancelled, missed>>

\* notifyDisconnect: without an armed channel the reason is lost.
AfterDisc == IF dEv.kind = "closed" THEN "gone" ELSE "take"

DiscLoad ==
  /\ dpc = "disc"
  /\ dRef' = disc
  /\ dpc' = IF disc = None THEN AfterDisc ELSE "discSend"
  /\ missed' = (missed \/ (disc = None /\ dEv.of = attempt))
  /\ UNCHANGED <<supVars, sessVars, chanVars, dEv, incoming, waitVars, queueVars,
                 driver, modVars, cancelled>>

DiscSend ==
  /\ dpc = "discSend"
  /\ discRes' = IF dRef = disc /\ discRes = NoEvent THEN dEv ELSE discRes
  /\ dpc' = AfterDisc
  /\ dRef' = None
  /\ UNCHANGED <<supVars, sessVars, scanCh, scanQ, found, joinCh, joinRes, disc,
                 dEv, incoming, waitVars, queueVars, driver, modVars,
                 cancelled, missed>>

\* The dispatcher leaves when the events are closed, telling the supervisor,
\* or when the context is cancelled.
EventsClosed ==
  /\ dpc = "take" /\ events = <<>> /\ driver = "down"
  /\ Goto("disc", [kind |-> "closed", of |-> attempt])
  /\ UNCHANGED <<supVars, sessVars, chanVars, dRef, incoming, waitVars, queueVars,
                 driver, modVars, cancelled, missed>>

DispatcherStops ==
  /\ dpc = "take" /\ cancelled
  /\ dpc' = "gone"
  /\ UNCHANGED <<supVars, sessVars, chanVars, dEv, dRef, incoming, waitVars,
                 queueVars, driver, modVars, cancelled,
                 missed>>

-----------------------------------------------------------------------------
(* WaitConnected.                                                           *)

Ask(w) ==
  /\ wpc[w] = "idle"
  /\ wpc' = [wpc EXCEPT ![w] = "session"]
  /\ UNCHANGED <<supVars, sessVars, chanVars, dispVars, wGen, queueVars, driver,
                 modVars, cancelled, missed>>

ReadSession(w) ==
  /\ wpc[w] = "session"
  /\ wpc' = [wpc EXCEPT ![w] = IF session # None THEN "idle" ELSE "channel"]
  /\ UNCHANGED <<supVars, sessVars, chanVars, dispVars, wGen, queueVars, driver,
                 modVars, cancelled, missed>>

ReadChannel(w) ==
  /\ wpc[w] = "channel"
  /\ wGen' = [wGen EXCEPT ![w] = gen]
  /\ wpc' = [wpc EXCEPT ![w] = "select"]
  /\ UNCHANGED <<supVars, sessVars, chanVars, dispVars, queueVars, driver,
                 modVars, cancelled, missed>>

\* Every channel but the current one was closed before it was replaced.  The
\* reference is local to one turn of the loop.
Woken(w) ==
  /\ wpc[w] = "select" /\ (connected \/ wGen[w] < gen)
  /\ wpc' = [wpc EXCEPT ![w] = "session"]
  /\ wGen' = [wGen EXCEPT ![w] = 0]
  /\ UNCHANGED <<supVars, sessVars, chanVars, dispVars, queueVars, driver,
                 modVars, cancelled, missed>>

\* The waiter's own context ends; it returns without a session.
GiveUp(w) ==
  /\ wpc[w] = "select"
  /\ wpc' = [wpc EXCEPT ![w] = "idle"]
  /\ wGen' = [wGen EXCEPT ![w] = 0]
  /\ UNCHANGED <<supVars, sessVars, chanVars, dispVars, queueVars, driver,
                 modVars, cancelled, missed>>

-----------------------------------------------------------------------------
(* The driver's event channel, and the module (external).                   *)

\* An event enters the channel, or the reader finds that full ...
Push(ev) ==
  /\ late = NoEvent
  /\ IF Len(events) < EventCap
     THEN events' = Append(events, ev) /\ UNCHANGED late
     ELSE late' = ev /\ UNCHANGED events

\* ... and drops the oldest one, which the dispatcher may have just made
\* unnecessary: the queue of EventQueue, which Driver implements.
Displaced_SlipNewest ==
  Append(SubSeq(events, 1, Len(events) - 1), late)
Displaced == Append(IF events = <<>> THEN <<>> ELSE Tail(events), late)

LossEvicted ==
  events # <<>> /\ Head(events).kind \in Losses /\ Head(events).of = attempt

Displace ==
  /\ late # NoEvent
  /\ events' = Displaced
  /\ late' = NoEvent
  /\ missed' = (missed \/ LossEvicted)
  /\ UNCHANGED <<supVars, sessVars, chanVars, dispVars, waitVars, driver,
                 modVars, cancelled>>

Says(k, to) ==
  /\ driver = "up"
  /\ Push(Event(k))
  /\ mod' = to

Environment == <<supVars, sessVars, chanVars, dispVars, waitVars, driver,
                 modOf, cancelled, missed>>

Beacon ==
  /\ mod = "scanning" /\ sent.beacons < MaxBeacons
  /\ Says("epandesc", mod)
  /\ sent' = [sent EXCEPT !.beacons = @ + 1]
  /\ UNCHANGED Environment

Outcome(from, k, to) ==
  mod = from /\ Says(k, to) /\ UNCHANGED <<sent, Environment>>

ScanEnds == Outcome("scanning", "22", "idle")
Joined == Outcome("joining", "25", "linked")
Refused == Outcome("joining", "24", "idle")

\* The session ends: terminated (27, 28, 29) or refused when renewed (24).
LinkLost == \E k \in {"24", "29"} : Outcome("linked", k, "idle")

Datagram ==
  /\ mod = "linked" /\ sent.frames < MaxFrames
  /\ Says("udp", mod)
  /\ sent' = [sent EXCEPT !.frames = @ + 1]
  /\ UNCHANGED Environment

\* Every datagram sent is reported (EVENT 21), whether or not there is a link
\* and the session it was sent on is still that of the manager; nobody is
\* subscribed to it.
Report ==
  /\ session # None \/ gen > 0
  /\ sent.frames < MaxFrames
  /\ Says("21", mod)
  /\ sent' = [sent EXCEPT !.frames = @ + 1]
  /\ UNCHANGED Environment

DriverEnds ==
  /\ driver = "up" /\ late = NoEvent /\ driver' = "down"
  /\ UNCHANGED <<supVars, sessVars, chanVars, dispVars, waitVars, queueVars,
                 modVars, cancelled, missed>>

Cancel ==
  /\ ~cancelled /\ cancelled' = TRUE
  /\ UNCHANGED <<supVars, sessVars, chanVars, dispVars, waitVars, queueVars,
                 driver, modVars, missed>>

\* The client takes a payload from Incoming.
Receive ==
  /\ incoming > 0 /\ incoming' = incoming - 1
  /\ UNCHANGED <<supVars, sessVars, chanVars, dpc, dEv, dRef, waitVars, queueVars,
                 driver, modVars, cancelled, missed>>

-----------------------------------------------------------------------------
Supervisor ==
  \/ Top \/ Command \/ SubscribeScan \/ ScanEvent \/ ScanTimeout
  \/ SubscribeJoin \/ JoinOutcome \/ Pause \/ Publish \/ Wake \/ Arm
  \/ Disconnected \/ Clear \/ Renew

Dispatcher ==
  \/ Take \/ ScanLoad \/ ScanSend \/ JoinLoad \/ JoinSend
  \/ DiscLoad \/ DiscSend \/ EventsClosed \/ DispatcherStops

Waiter(w) == ReadSession(w) \/ ReadChannel(w) \/ Woken(w)

Module ==
  Beacon \/ ScanEnds \/ Joined \/ Refused \/ LinkLost \/ Datagram \/ Report

Next ==
  \/ Supervisor \/ Dispatcher
  \/ \E w \in Waiters : Ask(w) \/ Waiter(w) \/ GiveUp(w)
  \/ Module \/ Displace \/ DriverEnds \/ Cancel \/ Receive

Spec == Init /\ [][Next]_vars

\* The goroutines run: commands carry deadlines, timers fire.  Nothing is
\* assumed of the module, the driver, the client or whoever cancels.
FairSpec ==
  /\ Spec
  /\ WF_vars(Supervisor) /\ WF_vars(Dispatcher) /\ WF_vars(Displace)
  /\ \A w \in Waiters : WF_vars(Waiter(w))

-----------------------------------------------------------------------------
(* Properties.                                                              *)

Connecting == DOMAIN After \cup {"subscan", "scanning", "subjoin", "joining"}
Serving == {"wake", "arm", "wait", "clear", "clearLast"}  \* session is set
Steps == Connecting \cup Serving \cup
         {"top", "backoff", "publish", "renew", "renewLast", "stopped"}

EventType == [kind : Kinds, of : Attempts \cup {None}]

\* The types of the variables and the capacities of the channels; the session
\* is set exactly while the supervisor serves it, and connectedCh is closed
\* exactly when installSession has closed it and clearSession has not replaced
\* it, so that close(m.connectedCh) never meets a closed channel
\* (manager.go:219-235).
TypeOK ==
  /\ sup \in Steps /\ attempt \in 0 .. MaxAttempts
  /\ backoff \in {InitialBackoff} \cup 1 .. MaxBackoff
  /\ state \in {"disconnected", "initializing", "scanning", "joining",
                "connected", "reconnecting"}
  /\ session = IF sup \in Serving THEN attempt ELSE None
  /\ connected = (sup \in (Serving \ {"wake"}) \cup {"renew", "renewLast"})
  /\ gen \in Nat /\ wGen \in [Waiters -> 0 .. gen]
  /\ {scanCh, joinCh, disc, dRef, found, modOf} \subseteq Attempts \cup {None}
  /\ scanQ \in Seq(EventType) /\ Len(scanQ) <= ScanCap
  /\ {joinRes, discRes, dEv} \subseteq EventType
  /\ dpc \in {"take", "scan", "scanSend", "join", "joinSend", "disc",
              "discSend", "gone"}
  /\ incoming \in 0 .. IncomingCap
  /\ wpc \in [Waiters -> {"idle", "session", "channel", "select"}]
  /\ events \in Seq(EventType) /\ Len(events) <= EventCap
  /\ late \in EventType
  /\ driver \in {"up", "down"} /\ cancelled \in BOOLEAN /\ missed \in BOOLEAN
  /\ mod \in {"idle", "scanning", "joining", "linked"}
  /\ sent \in [beacons : 0 .. MaxBeacons, frames : 0 .. MaxFrames]

\* A join succeeds only by an EVENT 25 the module sent for this very attempt:
\* a late outcome of an attempt that timed out, still queued in the driver or
\* in the dispatcher's hand, never passes for it (connect.go:225-256,
\* manager.go:374-385).  EVENT 22 of the scan in between flushes it.
OwnOutcome ==
  sup \in {"joining", "publish"} \cup Serving /\ joinRes # NoEvent /\ ~cancelled
    => joinRes.of = attempt

LinkDown == driver = "down" \/ mod # "linked" \/ modOf # attempt

LossOnItsWay ==
  \/ discRes # NoEvent
  \/ dpc \in {"join", "joinSend", "disc", "discSend"} /\ dEv.kind \in Losses
  \/ late.kind \in Losses
  \/ \E i \in DOMAIN events : events[i].kind \in Losses
  \/ driver = "down" /\ dpc # "gone"

\* A session is only torn down when its link or the driver has really ended: no
\* refusal or loss left over from an earlier attempt, and no join outcome, takes
\* a live session with it (manager.go:252-281, 326-337).
OnlyRealLoss == sup = "wait" /\ discRes # NoEvent /\ ~cancelled => LinkDown

\* A supervisor that waits on a session whose link has ended has the loss, or
\* will be handed it, except for one the dispatcher dealt with before
\* waitForDisconnect had armed the channel, or one the driver evicted while the
\* dispatcher lagged (manager.go:252-281, driver.go:382-390).
LossReachesArmed ==
  sup = "wait" /\ LinkDown /\ ~missed /\ ~cancelled => LossOnItsWay

\* What the package comment says (manager.go:10-11): EVENT 24/27/28/29 tear the
\* session down and drive the reconnection loop.  Violated: the loss is handled
\* between the success of the join and the arming of the channel, nobody is
\* told again, and the session stays connected for good.
LossTearsDown == sup = "wait" /\ LinkDown /\ ~cancelled => LossOnItsWay

\* A loss that is queued while the channel is armed ends the session, also
\* behind a datagram that finds the incoming channel full, unless newer events
\* push it out of the driver's channel first (manager.go:284-346).
ArmedLossEnds ==
  (sup = "wait" /\ \E i \in DOMAIN events : events[i].kind \in Losses
                                            /\ events[i].of = attempt)
    ~> sup # "wait" \/ missed

\* Cancelling the context stops the supervisor from every step of an attempt,
\* of a pause and of a session, and leaves no session behind
\* (manager.go:174-217).
CancelStops == cancelled ~> sup = "stopped" /\ session = None

\* WaitConnected misses no wake-up: while sessions stay, every waiter gets one,
\* though it looks at the session and at the channel at two moments and
\* clearSession replaces them at two more (manager.go:155-172, 219-235).
WaiterServed ==
  \A w \in Waiters :
    <>[](session # None) => (wpc[w] # "idle" ~> wpc[w] = "idle")

\* Every attempt ends: with a session or with an error, however silent the
\* module is and whatever reaches the scan and the join channels late
\* (connect.go:32-256).
AttemptEnds == sup \in Connecting ~> sup \in {"publish", "backoff", "stopped"}
=============================================================================
