--------------------------- MODULE ManagerProofs ---------------------------
(* Proofs about the connection manager, for any number of attempts, waiters, *)
(* beacons and frames and any capacities of the channels.                    *)
EXTENDS Manager, TLAPS

-----------------------------------------------------------------------------
(* The stream of events: in the dispatcher's hand, in the driver's channel, *)
(* in the hand of its reader.                                               *)

Busy == dpc \in {"scan", "scanSend", "join", "joinSend", "disc", "discSend"}
Hand == IF Busy THEN {dEv} ELSE {}
Queued == {events[i] : i \in DOMAIN events}
Late == IF late = NoEvent THEN {} ELSE {late}
Here == Hand \cup Queued \cup Late

Precedes(e, f) ==
  \/ e \in Hand /\ f \in Queued \cup Late
  \/ e \in Queued /\ f \in Late
  \/ \E i, j \in DOMAIN events : i < j /\ e = events[i] /\ f = events[j]

ScanKinds == {"epandesc", "22"}
JoinKinds == {"24", "25"}
LinkKinds == {"24", "25", "29"}

\* Events come in the order of the attempts, and within one attempt the scan
\* before the join and the link; the latest agree with what the module does.
Stream ==
  /\ \A e \in Here :
       /\ e.kind # "none" /\ e.of <= attempt
       /\ e.kind # "closed" => e.of <= modOf
       /\ e.of = modOf /\ e.kind \in {"24", "29"} => mod = "idle"
       /\ e.of = modOf /\ e.kind = "25" => mod \in {"linked", "idle"}
  /\ \A e, f \in Here :
       Precedes(e, f) =>
         /\ e.of <= f.of
         /\ e.of = f.of /\ e.kind \in LinkKinds => f.kind \notin ScanKinds

\* What the dispatcher holds fits its step; the end of the events is last.
Hands ==
  /\ dpc \in {"scan", "scanSend"} => dEv.kind \in ScanKinds
  /\ dpc \in {"join", "joinSend"} => dEv.kind \in JoinKinds
  /\ dpc \in {"disc", "discSend"} => dEv.kind \in Losses
  /\ dpc = "scanSend" => dRef # None
  /\ \A i \in DOMAIN scanQ : scanQ[i].kind \in ScanKinds
  /\ \A e \in Queued \cup Late : e.kind # "closed"
  /\ Busy /\ dEv.kind = "closed" => driver = "down" /\ events = <<>>
  /\ driver = "down" => late = NoEvent
  /\ dpc = "gone" => cancelled \/ (driver = "down" /\ events = <<>>)

-----------------------------------------------------------------------------
(* The supervisor's step and the module.                                    *)

Preparing == {"SKRESET", "WOPT", "ROPT", "SKSETPWD", "SKSETRBID", "subscan",
              "SKSCAN"}
Found == {"S2", "S3", "subjoin", "SKJOIN"}
InSession == {"publish"} \cup Serving \cup {"renew", "renewLast"}

Phases ==
  /\ modOf <= attempt
  /\ sup \in Preparing => modOf < attempt
  /\ sup \in Preparing \ {"SKRESET"} => mod = "idle"
  /\ sup \in {"scanning", "joining"} \cup Found \cup InSession => modOf = attempt
  /\ sup \in {"scanning"} \cup Found =>
       /\ mod \in {"scanning", "idle"}
       /\ \A e \in Here : e.of = attempt => e.kind \notin LinkKinds
  /\ sup = "joining" => mod # "scanning"

\* The end of a scan has the outcomes of older joins behind it: none is left
\* when the next join begins, nor anything older than the join that succeeds.
Clean ==
  /\ sup \in {"top", "scanning"} \cup Preparing =>
       \A e, f \in Here :
         Precedes(e, f) /\ e.kind = "22" => f.kind \notin JoinKinds
  /\ sup \in {"top", "SKRESET"} =>
       \A e \in Here : e.kind = "22" => mod \notin {"joining", "linked"}
  /\ sup \in {"SKSCAN", "scanning"}
     /\ (\E i \in DOMAIN scanQ : scanQ[i].kind = "22") =>
       \A e \in Here : e.kind \notin JoinKinds
  /\ sup \in Found => \A e \in Here : e.kind \notin JoinKinds
  /\ sup = "SKJOIN" => joinRes = NoEvent
  /\ sup = "joining" =>
       /\ \A e \in Here : e.kind \in JoinKinds => e.of = attempt
       /\ joinRes # NoEvent => joinRes.of = attempt
       /\ joinRes.kind = "25" =>
            /\ mod \in {"linked", "idle"}
            /\ \A e \in Here : e.of = attempt /\ e.kind \notin ScanKinds
  /\ sup \in InSession =>
       /\ mod \in {"linked", "idle"}
       /\ joinRes # NoEvent => joinRes.of = attempt
       /\ \A e \in Here : e.of = attempt /\ e.kind \notin ScanKinds

-----------------------------------------------------------------------------
(* Losses.                                                                  *)

Armed ==
  /\ disc = IF sup = "wait" THEN attempt ELSE None
  /\ sup = "wait" /\ discRes # NoEvent /\ ~cancelled => LinkDown
  /\ dpc = "discSend" /\ dEv.of = attempt =>
       /\ dRef = attempt
       /\ sup \in {"wait", "clear", "clearLast", "renew", "renewLast", "top",
                   "stopped"}
  /\ Busy /\ dEv.kind = "closed" /\ dEv.of < attempt =>
       sup \in {"SKRESET", "backoff", "top", "stopped"}

Told == missed \/ (sup = "wait" /\ discRes # NoEvent)

Reach ==
  /\ dpc = "gone"
     /\ sup \notin {"SKRESET", "backoff", "top", "stopped", "clear",
                    "clearLast", "renew", "renewLast"} => Told
  /\ sup \in {"joining", "publish", "wake", "arm", "wait"} /\ mod = "idle" =>
       Told \/ \E e \in Here : e.kind \in Losses /\ e.of = attempt

MInv ==
  /\ TypeOK /\ Stream /\ Hands /\ Phases /\ Armed
  /\ ~cancelled => Clean /\ Reach

-----------------------------------------------------------------------------
(* Who changes what.                                                        *)

Aside == \/ \E w \in Waiters : Ask(w) \/ Waiter(w) \/ GiveUp(w)
         \/ DriverEnds \/ Cancel \/ Receive \/ UNCHANGED vars

LEMMA SupervisorFrame ==
  ASSUME Supervisor
  PROVE  UNCHANGED <<dispVars, waitVars, queueVars, driver, cancelled>>
BY DEF Supervisor, Top, Command, SubscribeScan, ScanEvent, ScanTimeout,
   SubscribeJoin, JoinOutcome, Pause, Publish, Wake, Arm, Disconnected, Clear,
   Renew

LEMMA DispatcherFrame ==
  ASSUME Dispatcher \/ Displace
  PROVE  UNCHANGED <<supVars, sessVars, scanCh, found, joinCh, disc, waitVars,
                     driver, modVars, cancelled>>
BY DEF Dispatcher, Displace, Take, ScanLoad, ScanSend, JoinLoad, JoinSend,
   DiscLoad, DiscSend, EventsClosed, DispatcherStops, chanVars

\* What the module says enters the driver's channel, or its reader's hand.
LEMMA ModuleFrame ==
  ASSUME Module
  PROVE  /\ UNCHANGED <<supVars, sessVars, chanVars, dispVars, waitVars, driver,
                        modOf, cancelled, missed>>
         /\ driver = "up"
         /\ \E k \in {"epandesc", "21", "22", "24", "25", "29", "udp"} :
              /\ Push(Event(k))
              /\ k \in ScanKinds => mod = "scanning" /\ mod' \in {mod, "idle"}
              /\ k = "25" => mod = "joining" /\ mod' = "linked"
              /\ k \in {"24", "29"} => /\ mod \in {"joining", "linked"}
                                       /\ mod' = "idle"
              /\ k \in {"21", "udp"} => mod' = mod
<1> USE DEF Says, Environment, ScanKinds
<1>1. CASE Beacon
  BY <1>1 DEF Beacon
<1>2. CASE ScanEnds \/ Joined \/ Refused
  BY <1>2 DEF ScanEnds, Joined, Refused, Outcome
<1>3. CASE LinkLost
  BY <1>3 DEF LinkLost, Outcome
<1>4. CASE Datagram \/ Report
  BY <1>4 DEF Datagram, Report
<1>5. QED
  BY <1>1, <1>2, <1>3, <1>4 DEF Module

LEMMA AsideFrame ==
  ASSUME Aside
  PROVE  /\ UNCHANGED <<supVars, sessVars, chanVars, dpc, dEv, dRef, queueVars,
                        modVars, missed>>
         /\ \/ driver' = driver
            \/ driver = "up" /\ driver' = "down" /\ late = NoEvent
         /\ (cancelled' = cancelled) \/ cancelled'
<1>1. CASE \E w \in Waiters : Ask(w) \/ Waiter(w) \/ GiveUp(w)
  BY <1>1 DEF Ask, Waiter, ReadSession, ReadChannel, Woken, GiveUp, dispVars
<1>2. CASE DriverEnds
  BY <1>2 DEF DriverEnds, dispVars
<1>3. CASE Cancel
  BY <1>3 DEF Cancel, dispVars
<1>4. CASE Receive
  BY <1>4 DEF Receive
<1>5. CASE UNCHANGED vars
  BY <1>5 DEF vars, dispVars
<1>6. QED
  BY <1>1, <1>2, <1>3, <1>4, <1>5 DEF Aside

-----------------------------------------------------------------------------
(* Sequences. *)

LEMMA TailOf ==
  ASSUME NEW T, NEW s \in Seq(T), s # <<>>
  PROVE  /\ Tail(s) \in Seq(T) /\ Len(Tail(s)) = Len(s) - 1
         /\ 1 \in DOMAIN s /\ Head(s) = s[1] /\ Len(s) \in Nat \ {0}
         /\ DOMAIN s = 1 .. Len(s) /\ DOMAIN Tail(s) = 1 .. Len(s) - 1
         /\ \A i \in DOMAIN Tail(s) : i + 1 \in DOMAIN s /\ Tail(s)[i] = s[i + 1]
<1>1. /\ Len(s) \in Nat \ {0} /\ DOMAIN s = 1 .. Len(s)
      /\ Tail(s) \in Seq(T) /\ Len(Tail(s)) = Len(s) - 1
  BY SMTT(30)
<1>2. DOMAIN Tail(s) = 1 .. Len(s) - 1
  BY <1>1
<1>3. \A i \in 1 .. Len(s) - 1 : Tail(s)[i] = s[i + 1]
  BY <1>1
<1>4. Head(s) = s[1]
  OBVIOUS
<1>5. QED
  BY <1>1, <1>2, <1>3, <1>4

LEMMA AppendOf ==
  ASSUME NEW T, NEW s \in Seq(T), NEW x \in T
  PROVE  /\ Append(s, x) \in Seq(T) /\ Len(s) \in Nat
         /\ DOMAIN s = 1 .. Len(s) /\ DOMAIN Append(s, x) = 1 .. Len(s) + 1
         /\ Len(Append(s, x)) = Len(s) + 1
         /\ \A i \in 1 .. Len(s) : Append(s, x)[i] = s[i]
         /\ Append(s, x)[Len(s) + 1] = x
<1>1. /\ Append(s, x) \in Seq(T) /\ Len(s) \in Nat
      /\ Len(Append(s, x)) = Len(s) + 1
  OBVIOUS
<1>2. DOMAIN s = 1 .. Len(s) /\ DOMAIN Append(s, x) = 1 .. Len(s) + 1
  BY <1>1
<1>3. \A i \in 1 .. Len(s) : Append(s, x)[i] = s[i]
  BY <1>1
<1>4. Append(s, x)[Len(s) + 1] = x
  BY <1>1
<1>5. QED
  BY <1>1, <1>2, <1>3, <1>4

-----------------------------------------------------------------------------
(* Types, by who owns the variables.                                        *)

SupTypes ==
  /\ sup \in Steps /\ attempt \in 0 .. MaxAttempts
  /\ backoff \in {InitialBackoff} \cup 1 .. MaxBackoff
  /\ state \in {"disconnected", "initializing", "scanning", "joining",
                "connected", "reconnecting"}
  /\ session = IF sup \in Serving THEN attempt ELSE None
  /\ connected = (sup \in (Serving \ {"wake"}) \cup {"renew", "renewLast"})

WaitTypes ==
  /\ gen \in Nat /\ wGen \in [Waiters -> 0 .. gen]
  /\ wpc \in [Waiters -> {"idle", "session", "channel", "select"}]

ChanTypes ==
  /\ {scanCh, joinCh, disc, found} \subseteq Attempts \cup {None}
  /\ scanQ \in Seq(EventType) /\ Len(scanQ) <= ScanCap
  /\ {joinRes, discRes} \subseteq EventType

DispTypes ==
  /\ dRef \in Attempts \cup {None} /\ dEv \in EventType
  /\ dpc \in {"take", "scan", "scanSend", "join", "joinSend", "disc",
              "discSend", "gone"}
  /\ incoming \in 0 .. IncomingCap

QueueTypes ==
  /\ events \in Seq(EventType) /\ Len(events) <= EventCap /\ late \in EventType

ModTypes ==
  /\ modOf \in Attempts \cup {None}
  /\ mod \in {"idle", "scanning", "joining", "linked"}
  /\ sent \in [beacons : 0 .. MaxBeacons, frames : 0 .. MaxFrames]
  /\ driver \in {"up", "down"} /\ cancelled \in BOOLEAN /\ missed \in BOOLEAN

LEMMA TypeParts ==
  TypeOK <=> /\ SupTypes /\ WaitTypes /\ ChanTypes /\ DispTypes /\ QueueTypes
             /\ ModTypes
BY DEF TypeOK, SupTypes, WaitTypes, ChanTypes, DispTypes, QueueTypes, ModTypes

\* The cases of a command: what it does to the module, and where it leads.
Effects(cmd) ==
  \/ cmd = "SKRESET" /\ mod' = "idle" /\ UNCHANGED <<modOf, sent>>
  \/ /\ cmd = "SKSCAN" /\ mod' = "scanning" /\ modOf' = attempt
     /\ sent' = [beacons |-> 0, frames |-> 0]
  \/ cmd = "SKJOIN" /\ mod' = "joining" /\ modOf' = attempt /\ UNCHANGED sent
  \/ cmd \notin {"SKRESET", "SKSCAN", "SKJOIN"} /\ UNCHANGED modVars

Commands == {"SKRESET", "WOPT", "ROPT", "SKSETPWD", "SKSETRBID", "SKSCAN", "S2",
             "S3", "SKJOIN"}

LEMMA CommandCases ==
  ASSUME Command
  PROVE  /\ sup \in Commands
         /\ UNCHANGED <<attempt, backoff, state, sessVars, scanQ, found, joinRes,
                        disc, discRes, missed>>
         /\ \/ /\ sup' = "backoff" /\ scanCh' = None /\ joinCh' = None
               /\ Effects(sup) \/ UNCHANGED modVars
            \/ /\ UNCHANGED <<scanCh, joinCh>> /\ Effects(sup)
               /\ driver = "up" \/ sup \in {"WOPT", "ROPT"}
               /\ \/ sup = "SKRESET" /\ sup' = "WOPT"
                  \/ sup = "WOPT" /\ sup' = "ROPT"
                  \/ sup = "ROPT" /\ sup' = "SKSETPWD"
                  \/ sup = "SKSETPWD" /\ sup' = "SKSETRBID"
                  \/ sup = "SKSETRBID" /\ sup' = "subscan"
                  \/ sup = "SKSCAN" /\ sup' = "scanning"
                  \/ sup = "S2" /\ sup' = "S3"
                  \/ sup = "S3" /\ sup' = "subjoin"
                  \/ sup = "SKJOIN" /\ sup' = "joining"
<1>1. DOMAIN After = Commands
  BY DEF After, Commands
<1>2. sup \in Commands
  BY <1>1 DEF Command
<1>3. Effect(sup) => Effects(sup)
  BY DEF Effect, Effects
<1>4. sup \in BestEffort => (UNCHANGED modVars => Effects(sup))
  BY DEF BestEffort, Effects
<1>5. \/ sup = "SKRESET" /\ After[sup] = "WOPT"
      \/ sup = "WOPT" /\ After[sup] = "ROPT"
      \/ sup = "ROPT" /\ After[sup] = "SKSETPWD"
      \/ sup = "SKSETPWD" /\ After[sup] = "SKSETRBID"
      \/ sup = "SKSETRBID" /\ After[sup] = "subscan"
      \/ sup = "SKSCAN" /\ After[sup] = "scanning"
      \/ sup = "S2" /\ After[sup] = "S3"
      \/ sup = "S3" /\ After[sup] = "subjoin"
      \/ sup = "SKJOIN" /\ After[sup] = "joining"
  BY <1>2 DEF Commands, After
<1>6. UNCHANGED <<attempt, backoff, state, sessVars, scanQ, found, joinRes, disc,
                  discRes, missed>>
  BY DEF Command
<1>7. \/ /\ driver = "up" /\ Effects(sup) /\ sup' = After[sup]
         /\ UNCHANGED <<scanCh, joinCh>>
      \/ /\ sup \in BestEffort /\ Effects(sup) /\ sup' = After[sup]
         /\ UNCHANGED <<scanCh, joinCh>>
      \/ /\ sup' = "backoff" /\ scanCh' = None /\ joinCh' = None
         /\ Effects(sup) \/ UNCHANGED modVars
  BY <1>3, <1>4 DEF Command, Fail
<1>8. QED
  BY <1>2, <1>5, <1>6, <1>7 DEF BestEffort

LEMMA TypePartsNext ==
  TypeOK' <=> /\ SupTypes' /\ WaitTypes' /\ ChanTypes' /\ DispTypes'
              /\ QueueTypes' /\ ModTypes'
BY DEF TypeOK, SupTypes, WaitTypes, ChanTypes, DispTypes, QueueTypes, ModTypes

LEMMA SupTypeStep ==
  ASSUME SupTypes, Supervisor
  PROVE  SupTypes'
<1> USE DEF SupTypes, supVars, sessVars
<1> USE BackoffAssumption, BoundsAssumption
<1>1. CASE Top
  BY <1>1 DEF Top, After, Steps, Connecting, Serving
<1>2. CASE Command
  BY <1>2, CommandCases DEF Commands, After, Steps, Connecting, Serving
<1>3. CASE SubscribeScan
  BY <1>3 DEF SubscribeScan, After, Steps, Connecting, Serving
<1>4. CASE ScanEvent
  BY <1>4 DEF ScanEvent, Fail, After, Steps, Connecting, Serving
<1>5. CASE ScanTimeout
  BY <1>5 DEF ScanTimeout, Fail, After, Steps, Connecting, Serving
<1>6. CASE SubscribeJoin
  BY <1>6 DEF SubscribeJoin, After, Steps, Connecting, Serving
<1>7. CASE JoinOutcome
  BY <1>7 DEF JoinOutcome, Fail, Steps, Connecting, Serving
<1>8. CASE Pause
  BY <1>8 DEF Pause, Steps, Connecting, Serving
<1>9. CASE Publish
  BY <1>9 DEF Publish, Steps, Connecting, Serving
<1>10. CASE Wake
  BY <1>10 DEF Wake, Woke, Steps, Connecting, Serving
<1>11. CASE Arm
  BY <1>11 DEF Arm, Steps, Connecting, Serving
<1>12. CASE Disconnected
  BY <1>12 DEF Disconnected, Steps, Connecting, Serving
<1>13. CASE Clear
  BY <1>13 DEF Clear, Steps, Connecting, Serving
<1>14. CASE Renew
  <2>1. /\ sup \in {"renew", "renewLast"} /\ sup' \in {"top", "stopped"}
        /\ UNCHANGED <<attempt, backoff, session>> /\ state' = "reconnecting"
        /\ connected' = FALSE
    BY <1>14 DEF Renew, Reopened
  <2>2. session = None /\ sup' \notin Serving
    BY <2>1 DEF Serving
  <2>3. (sup' \in (Serving \ {"wake"}) \cup {"renew", "renewLast"}) = FALSE
    BY <2>1 DEF Serving
  <2>4. connected' = (sup' \in (Serving \ {"wake"}) \cup {"renew", "renewLast"})
    BY <2>1, <2>3
  <2>5. sup' \in Steps /\ session' = IF sup' \in Serving THEN attempt' ELSE None
    BY <2>1, <2>2 DEF Steps
  <2>6. QED
    BY <2>1, <2>4, <2>5
<1>15. QED
  BY <1>1, <1>2, <1>3, <1>4, <1>5, <1>6, <1>7, <1>8, <1>9, <1>10, <1>11, <1>12,
     <1>13, <1>14 DEF Supervisor

LEMMA SupervisorType ==
  ASSUME TypeOK, Supervisor
  PROVE  TypeOK'
<1> USE TypeParts
<1>1. UNCHANGED <<dispVars, waitVars, queueVars, driver, cancelled>>
  BY SupervisorFrame
<1>2. SupTypes'
  BY SupTypeStep
<1>3. WaitTypes'
  <2>1. CASE Renew
    BY <1>1, <2>1 DEF WaitTypes, Renew, Reopened, waitVars
  <2>2. CASE ~Renew
    <3>1. gen' = gen
      BY <2>2 DEF Supervisor, Top, Command, SubscribeScan, ScanEvent,
         ScanTimeout, SubscribeJoin, JoinOutcome, Pause, Publish, Wake, Arm,
         Disconnected, Clear, sessVars
    <3>2. QED
      BY <1>1, <3>1 DEF WaitTypes, waitVars
  <2>3. QED
    BY <2>1, <2>2
<1>4. ChanTypes'
  <2>1. attempt \in Attempts \cup {None}
    BY BoundsAssumption DEF SupTypes, Attempts, None
  <2>2. CASE Command
    BY <2>2, CommandCases DEF ChanTypes
  <2>3. CASE SubscribeScan
    BY <2>1, <2>3, CapAssumption DEF SubscribeScan, ChanTypes
  <2>4. CASE ScanEvent
    <3>1. /\ Head(scanQ) \in EventType /\ Tail(scanQ) \in Seq(EventType)
          /\ Len(Tail(scanQ)) <= ScanCap
      BY <2>4, CapAssumption DEF ScanEvent, ChanTypes
    <3>2. Head(scanQ).of \in Attempts \cup {None}
      BY <3>1 DEF EventType
    <3>3. QED
      BY <2>4, <3>1, <3>2 DEF ScanEvent, Fail, ChanTypes
  <2>5. CASE ScanTimeout \/ JoinOutcome
    BY <2>5 DEF ScanTimeout, JoinOutcome, Fail, ChanTypes
  <2>6. CASE SubscribeJoin \/ Arm \/ Disconnected
    <3>1. NoEvent \in EventType
      BY DEF NoEvent, EventType, Kinds, None
    <3>2. QED
      BY <2>1, <2>6, <3>1
         DEF SubscribeJoin, Arm, Disconnected, ChanTypes, FreshJoin
  <2>7. CASE Top \/ Pause \/ Publish \/ Wake \/ Clear \/ Renew
    BY <2>7 DEF Top, Pause, Publish, Wake, Clear, Renew, ChanTypes, chanVars
  <2>8. QED
    BY <2>2, <2>3, <2>4, <2>5, <2>6, <2>7 DEF Supervisor
<1>5. ModTypes'
  <2>1. attempt \in Attempts \cup {None}
    BY BoundsAssumption DEF SupTypes, Attempts, None
  <2>2. CASE Command
    <3>1. [beacons |-> 0, frames |-> 0]
            \in [beacons : 0 .. MaxBeacons, frames : 0 .. MaxFrames]
      BY BoundsAssumption
    <3>2. missed' = missed /\ (Effects(sup) \/ UNCHANGED modVars)
      BY <2>2, CommandCases
    <3>3. QED
      BY <1>1, <2>1, <3>1, <3>2 DEF Effects, ModTypes, modVars
  <2>3. CASE ~Command
    <3>1. UNCHANGED modVars /\ missed' \in {missed, FALSE}
      BY <2>3 DEF Supervisor, Top, SubscribeScan, ScanEvent,
         ScanTimeout, SubscribeJoin, JoinOutcome, Pause, Publish, Wake, Arm,
         Disconnected, Clear, Renew
    <3>2. QED
      BY <1>1, <3>1 DEF ModTypes, modVars
  <2>4. QED
    BY <2>2, <2>3
<1>6. DispTypes' /\ QueueTypes'
  BY <1>1 DEF DispTypes, QueueTypes, dispVars, queueVars
<1>7. QED
  BY <1>2, <1>3, <1>4, <1>5, <1>6, TypePartsNext

LEMMA DispatcherType ==
  ASSUME TypeOK, Dispatcher \/ Displace
  PROVE  TypeOK'
<1> USE TypeParts
<1>1. UNCHANGED <<supVars, sessVars, scanCh, found, joinCh, disc, waitVars,
                  driver, modVars, cancelled>>
  BY DispatcherFrame
<1>2. SupTypes' /\ WaitTypes'
  BY <1>1 DEF SupTypes, WaitTypes, supVars, sessVars, waitVars
<1>3. ModTypes'
  <2>1. missed' \in BOOLEAN
    BY DEF Dispatcher, Displace, Take, ScanLoad, ScanSend, JoinLoad, JoinSend,
       DiscLoad, DiscSend, EventsClosed, DispatcherStops, ModTypes
  <2>2. QED
    BY <1>1, <2>1 DEF ModTypes, modVars
<1>4. /\ attempt \in Attempts \cup {None} /\ NoEvent \in EventType
      /\ [kind |-> "closed", of |-> attempt] \in EventType
  BY BoundsAssumption
     DEF SupTypes, Attempts, None, NoEvent, EventType, Kinds
<1>5. CASE Take
  <2>1. /\ Head(events) \in EventType /\ Tail(events) \in Seq(EventType)
        /\ Len(Tail(events)) <= EventCap
    BY <1>5, CapAssumption DEF Take, QueueTypes
  <2>2. UNCHANGED <<scanQ, joinRes, discRes, dRef, late>>
    BY <1>5 DEF Take, chanVars
  <2>3. ChanTypes' /\ QueueTypes'
    BY <1>1, <1>5, <2>1, <2>2 DEF Take, ChanTypes, QueueTypes
  <2>4. /\ dpc' \in {dpc, "scan", "join", "disc"}
        /\ dEv' \in {dEv, Head(events)} /\ incoming' \in 0 .. IncomingCap
    BY <1>5, CapAssumption DEF Take, PassOn, Goto, DispTypes
  <2>5. DispTypes'
    BY <2>1, <2>2, <2>4 DEF DispTypes
  <2>6. QED
    BY <1>2, <1>3, <2>3, <2>5, TypePartsNext
<1>6. CASE ScanSend
  <2>1. scanQ' \in Seq(EventType) /\ Len(scanQ') <= ScanCap
    <3>1. /\ scanQ \in Seq(EventType) /\ Len(scanQ) <= ScanCap
          /\ ScanCap \in Nat /\ dEv \in EventType
      BY CapAssumption DEF ChanTypes, DispTypes
    <3>2. /\ Append(scanQ, dEv) \in Seq(EventType)
          /\ Len(Append(scanQ, dEv)) = Len(scanQ) + 1 /\ Len(scanQ) \in Nat
      BY <3>1, AppendOf
    <3>3. \/ scanQ' = scanQ
          \/ scanQ' = Append(scanQ, dEv) /\ Len(scanQ) < ScanCap
      BY <1>6 DEF ScanSend
    <3>4. QED
      BY <3>1, <3>2, <3>3
  <2>2. QED
    BY <1>1, <1>2, <1>3, <1>6, <2>1, TypePartsNext
       DEF ScanSend, ChanTypes, DispTypes, QueueTypes, queueVars
<1>7. CASE ScanLoad \/ JoinLoad \/ DiscLoad \/ EventsClosed \/ DispatcherStops
  <2>1. UNCHANGED <<chanVars, queueVars, incoming>>
    BY <1>7 DEF ScanLoad, JoinLoad, DiscLoad, EventsClosed, DispatcherStops
  <2>2. dRef' \in {dRef, scanCh, joinCh, disc}
        /\ dEv' \in {dEv, [kind |-> "closed", of |-> attempt]}
        /\ dpc' \in {"take", "scanSend", "joinSend", "gone", "disc", "discSend"}
    BY <1>7 DEF ScanLoad, JoinLoad, DiscLoad, EventsClosed, DispatcherStops,
       Goto, AfterDisc
  <2>3. DispTypes'
    BY <1>4, <2>1, <2>2 DEF DispTypes, ChanTypes
  <2>4. QED
    BY <1>2, <1>3, <2>1, <2>3, TypePartsNext
       DEF ChanTypes, QueueTypes, chanVars, queueVars
<1>8. CASE JoinSend \/ DiscSend
  <2>1. /\ UNCHANGED <<scanQ, queueVars, incoming, dEv>> /\ dRef' = None
        /\ joinRes' \in {joinRes, dEv} /\ discRes' \in {discRes, dEv}
        /\ dpc' \in {"take", "disc", "gone"}
    BY <1>8 DEF JoinSend, DiscSend, AfterJoin, AfterDisc
  <2>2. QED
    BY <1>1, <1>2, <1>3, <2>1, TypePartsNext
       DEF ChanTypes, DispTypes, QueueTypes, queueVars
<1>9. CASE Displace
  <2>1. /\ UNCHANGED <<chanVars, dispVars>> /\ late' = NoEvent
        /\ events' = Append(IF events = <<>> THEN <<>> ELSE Tail(events), late)
    BY <1>9 DEF Displace, Displaced
  <2>2. events' \in Seq(EventType) /\ Len(events') <= EventCap
    BY <2>1, CapAssumption DEF QueueTypes
  <2>3. QED
    BY <1>2, <1>3, <1>4, <2>1, <2>2, TypePartsNext
       DEF ChanTypes, DispTypes, QueueTypes, chanVars, dispVars
<1>10. QED
  BY <1>5, <1>6, <1>7, <1>8, <1>9 DEF Dispatcher

LEMMA ModuleType ==
  ASSUME TypeOK, Module
  PROVE  TypeOK'
<1> USE TypeParts
<1>1. /\ UNCHANGED <<supVars, sessVars, chanVars, dispVars, waitVars, driver,
                     modOf, cancelled, missed>>
      /\ \E k \in {"epandesc", "21", "22", "24", "25", "29", "udp"} :
           Push(Event(k))
  BY ModuleFrame
<1>2. SupTypes' /\ WaitTypes' /\ ChanTypes' /\ DispTypes'
  BY <1>1 DEF SupTypes, WaitTypes, ChanTypes, DispTypes, supVars, sessVars,
     chanVars, dispVars, waitVars
<1>3. QueueTypes'
  <2>1. PICK k \in {"epandesc", "21", "22", "24", "25", "29", "udp"} :
          Push(Event(k))
    BY <1>1
  <2>2. Event(k) \in EventType
    BY DEF Event, EventType, Kinds, ModTypes
  <2>3. /\ events \in Seq(EventType) /\ Len(events) <= EventCap
        /\ EventCap \in Nat /\ late \in EventType
    BY CapAssumption DEF QueueTypes
  <2>4. /\ Append(events, Event(k)) \in Seq(EventType) /\ Len(events) \in Nat
        /\ Len(Append(events, Event(k))) = Len(events) + 1
    BY <2>2, <2>3, AppendOf
  <2>5. \/ /\ Len(events) < EventCap /\ events' = Append(events, Event(k))
           /\ late' = late
        \/ events' = events /\ late' = Event(k)
    BY <2>1 DEF Push
  <2>6. QED
    BY <2>2, <2>3, <2>4, <2>5 DEF QueueTypes
<1>4. ModTypes'
  <2>1. mod' \in {"idle", "scanning", "joining", "linked"}
    BY DEF Module, Beacon, ScanEnds, Joined, Refused, LinkLost, Datagram,
       Report, Says, Outcome, ModTypes
  <2>2. sent' \in [beacons : 0 .. MaxBeacons, frames : 0 .. MaxFrames]
    <3>1. CASE Beacon
      BY <3>1, BoundsAssumption DEF Beacon, ModTypes
    <3>2. CASE Datagram \/ Report
      BY <3>2, BoundsAssumption DEF Datagram, Report, ModTypes
    <3>3. CASE ScanEnds \/ Joined \/ Refused \/ LinkLost
      BY <3>3 DEF ScanEnds, Joined, Refused, LinkLost, Outcome, ModTypes
    <3>4. QED
      BY <3>1, <3>2, <3>3 DEF Module
  <2>3. QED
    BY <1>1, <2>1, <2>2 DEF ModTypes
<1>5. QED
  BY <1>2, <1>3, <1>4, TypePartsNext

LEMMA AsideType ==
  ASSUME TypeOK, Aside
  PROVE  TypeOK'
<1> USE TypeParts
<1>1. /\ UNCHANGED <<supVars, sessVars, chanVars, dpc, dEv, dRef, queueVars,
                     modVars, missed>>
      /\ \/ driver' = driver
         \/ driver = "up" /\ driver' = "down" /\ late = NoEvent
      /\ (cancelled' = cancelled) \/ cancelled'
  BY AsideFrame
<1>2. SupTypes' /\ ChanTypes' /\ QueueTypes'
  BY <1>1 DEF SupTypes, ChanTypes, QueueTypes, supVars, sessVars, chanVars,
     queueVars
<1>3. ModTypes'
  <2>1. cancelled' \in BOOLEAN
    BY DEF Aside, Ask, Waiter, ReadSession, ReadChannel, Woken, GiveUp,
       DriverEnds, Cancel, Receive, vars, ModTypes
  <2>2. QED
    BY <1>1, <2>1 DEF ModTypes, modVars
<1>4. DispTypes'
  <2>1. incoming' \in 0 .. IncomingCap
    <3>1. CASE Receive
      BY <3>1, CapAssumption DEF Receive, DispTypes
    <3>2. CASE ~Receive
      BY <3>2 DEF Aside, Ask, Waiter, ReadSession, ReadChannel, Woken, GiveUp,
         DriverEnds, Cancel, vars, dispVars, DispTypes
    <3>3. QED
      BY <3>1, <3>2
  <2>2. QED
    BY <1>1, <2>1 DEF DispTypes
<1>5. WaitTypes'
  <2>1. gen' = gen
    BY <1>1 DEF sessVars
  <2>2. CASE \E w \in Waiters : Ask(w) \/ Waiter(w) \/ GiveUp(w)
    BY <2>1, <2>2
       DEF Ask, Waiter, ReadSession, ReadChannel, Woken, GiveUp, WaitTypes
  <2>3. CASE DriverEnds \/ Cancel \/ Receive \/ UNCHANGED vars
    BY <2>1, <2>3 DEF DriverEnds, Cancel, Receive, vars, waitVars, WaitTypes
  <2>4. QED
    BY <2>2, <2>3 DEF Aside
<1>6. QED
  BY <1>2, <1>3, <1>4, <1>5, TypePartsNext

LEMMA TypeStep == TypeOK /\ [Next]_vars => TypeOK'
BY SupervisorType, DispatcherType, ModuleType, AsideType DEF Next, Aside

LEMMA TypeInit == Init => TypeOK
<1> SUFFICES ASSUME Init PROVE TypeOK
  OBVIOUS
<1> USE BackoffAssumption, BoundsAssumption, CapAssumption
<1>1. NoEvent \in EventType
  BY DEF NoEvent, EventType, Kinds, None
<1>2. SupTypes
  <2>1. connected = (sup \in (Serving \ {"wake"}) \cup {"renew", "renewLast"})
    <3>1. (sup \in (Serving \ {"wake"}) \cup {"renew", "renewLast"}) = FALSE
      BY DEF Init, Serving
    <3>2. QED
      BY <3>1 DEF Init
  <2>2. QED
    BY <2>1 DEF Init, SupTypes, Steps, Serving, None
<1>3. WaitTypes
  BY DEF Init, WaitTypes
<1> <<>> \in Seq(EventType) /\ Len(<<>>) = 0
  OBVIOUS
<1>4. ChanTypes /\ DispTypes
  BY <1>1 DEF Init, ChanTypes, DispTypes, None
<1>5. QueueTypes
  BY <1>1 DEF Init, QueueTypes
<1>6. ModTypes
  <2>1. cancelled \in BOOLEAN /\ missed \in BOOLEAN
    BY DEF Init
  <2>2. sent \in [beacons : 0 .. MaxBeacons, frames : 0 .. MaxFrames]
    BY DEF Init
  <2>3. QED
    BY <2>1, <2>2 DEF Init, ModTypes, None
<1>7. QED
  BY <1>2, <1>3, <1>4, <1>5, <1>6, TypeParts

\* The types of the variables (manager.go:219-235): close never meets a closed
\* connectedCh, whatever the capacities and the number of attempts.
THEOREM TypeCorrect == Spec => []TypeOK
BY TypeInit, TypeStep, PTL DEF Spec

-----------------------------------------------------------------------------
(* What each step does to the stream: it stays, loses an event, or gets one *)
(* at its end.                                                              *)

LEMMA HereFrame ==
  ASSUME UNCHANGED <<dpc, dEv, events, late>>
  PROVE  /\ Here' = Here /\ Queued' = Queued /\ Late' = Late
         /\ Busy' <=> Busy
         /\ \A e, f : Precedes(e, f)' <=> Precedes(e, f)
BY DEF Here, Hand, Busy, Queued, Late, Precedes

LEMMA QueuedTypes ==
  ASSUME TypeOK
  PROVE  /\ events \in Seq(EventType) /\ late \in EventType /\ dEv \in EventType
         /\ Len(events) \in Nat /\ DOMAIN events = 1 .. Len(events)
         /\ \A e \in Here : e \in EventType
         /\ \A e \in EventType : e.of \in Nat
<1>1. events \in Seq(EventType) /\ late \in EventType /\ dEv \in EventType
  BY DEF TypeOK
<1>2. Len(events) \in Nat /\ DOMAIN events = 1 .. Len(events)
  BY <1>1
<1>3. \A i \in DOMAIN events : events[i] \in EventType
  BY <1>1
<1>4. \A e \in EventType : e.of \in Nat
  BY BoundsAssumption DEF EventType, Attempts, None
<1>5. \A e \in Here : e \in EventType
  BY <1>1, <1>3 DEF Here, Hand, Queued, Late
<1>6. QED
  BY <1>1, <1>2, <1>4, <1>5

LEMMA TakeStream ==
  ASSUME TypeOK, Take
  PROVE  /\ Here' \subseteq Here
         /\ \A e, f : Precedes(e, f)' => Precedes(e, f)
         /\ Late' = Late /\ Queued' \subseteq Queued
<1>1. /\ events # <<>> /\ events \in Seq(EventType) /\ events' = Tail(events)
      /\ late' = late /\ ~Busy
  BY DEF TypeOK, Take, Busy
<1>2. dEv' = Head(events) \/ ~Busy'
  BY DEF Take, Goto, Busy
<1>3. /\ 1 \in DOMAIN events /\ Head(events) = events[1]
      /\ DOMAIN events = 1 .. Len(events) /\ Len(events) \in Nat
      /\ DOMAIN Tail(events) = 1 .. Len(events) - 1
      /\ \A i \in DOMAIN Tail(events) :
           i + 1 \in DOMAIN events /\ Tail(events)[i] = events[i + 1]
  BY <1>1, TailOf
<1>4. /\ Hand = {} /\ Late' = Late /\ Queued' \subseteq Queued
      /\ Hand' \subseteq {events[1]} /\ events[1] \in Queued
  BY <1>1, <1>2, <1>3 DEF Hand, Late, Queued
<1>5. Here' \subseteq Here
  BY <1>4 DEF Here
<1>6. ASSUME NEW e, NEW f, Precedes(e, f)'
      PROVE  Precedes(e, f)
  <2>1. CASE e \in Hand' /\ f \in Queued'
    <3>1. PICK j \in DOMAIN Tail(events) : f = Tail(events)[j]
      BY <1>1, <2>1 DEF Queued
    <3>2. 1 < j + 1 /\ j + 1 \in DOMAIN events /\ f = events[j + 1]
      BY <1>3, <3>1
    <3>3. QED
      BY <1>3, <1>4, <2>1, <3>2 DEF Precedes
  <2>2. CASE e \in Hand' \cup Queued' /\ f \in Late'
    BY <1>4, <2>2 DEF Precedes
  <2>3. CASE \E i, j \in DOMAIN Tail(events) :
               i < j /\ e = Tail(events)[i] /\ f = Tail(events)[j]
    <3>1. PICK i \in DOMAIN Tail(events), j \in DOMAIN Tail(events) :
            i < j /\ e = Tail(events)[i] /\ f = Tail(events)[j]
      BY <2>3
    <3>2. /\ i + 1 < j + 1 /\ i + 1 \in DOMAIN events /\ j + 1 \in DOMAIN events
          /\ e = events[i + 1] /\ f = events[j + 1]
      BY <1>3, <3>1
    <3>3. QED
      BY <3>2 DEF Precedes
  <2>4. QED
    BY <1>1, <1>6, <2>1, <2>2, <2>3 DEF Precedes
<1>7. QED
  BY <1>4, <1>5, <1>6

LEMMA DisplaceStream ==
  ASSUME TypeOK, Displace
  PROVE  /\ Here' \subseteq Here
         /\ \A e, f : Precedes(e, f)' => Precedes(e, f)
         /\ Late' = {} /\ Queued' \subseteq Queued \cup Late
         /\ \A e \in Here : e \in Here' \/ (events # <<>> /\ e = Head(events))
<1> DEFINE rest == IF events = <<>> THEN <<>> ELSE Tail(events)
<1>1. /\ late # NoEvent /\ events' = Append(rest, late) /\ late' = NoEvent
      /\ events \in Seq(EventType) /\ late \in EventType
      /\ UNCHANGED <<dpc, dEv>>
  BY DEF TypeOK, Displace, Displaced, dispVars
<1>2. /\ rest \in Seq(EventType)
      /\ \A i \in DOMAIN rest : i + 1 \in DOMAIN events /\ rest[i] = events[i + 1]
      /\ \A i \in DOMAIN events : i = 1 \/ i - 1 \in DOMAIN rest
  <2>1. CASE events = <<>>
    BY <2>1
  <2>2. CASE events # <<>>
    BY <1>1, <2>2, TailOf
  <2>3. QED
    BY <2>1, <2>2
<1> HIDE DEF rest
<1>3. /\ Len(rest) \in Nat /\ DOMAIN rest = 1 .. Len(rest)
      /\ DOMAIN events' = 1 .. Len(rest) + 1
      /\ \A i \in 1 .. Len(rest) : events'[i] = rest[i]
      /\ events'[Len(rest) + 1] = late
  BY <1>1, <1>2, AppendOf
<1>4. Hand' = Hand /\ Late = {late} /\ Late' = {}
  BY <1>1 DEF Hand, Busy, Late
<1>5. \A j \in DOMAIN events' :
        \/ j \in 1 .. Len(rest) /\ j + 1 \in DOMAIN events
           /\ events'[j] = events[j + 1]
        \/ j = Len(rest) + 1 /\ events'[j] = late
  BY <1>2, <1>3
<1>6. Queued' \subseteq Queued \cup Late
  BY <1>4, <1>5 DEF Queued
<1>7. Here' \subseteq Here
  BY <1>4, <1>6 DEF Here
<1>8. ASSUME NEW e, NEW f, Precedes(e, f)'
      PROVE  Precedes(e, f)
  <2>1. CASE e \in Hand' /\ f \in Queued'
    BY <1>4, <1>6, <2>1 DEF Precedes
  <2>2. CASE \E i, j \in DOMAIN events' :
               i < j /\ e = events'[i] /\ f = events'[j]
    <3>1. PICK i \in DOMAIN events', j \in DOMAIN events' :
            i < j /\ e = events'[i] /\ f = events'[j]
      BY <2>2
    <3>2. i \in 1 .. Len(rest) /\ i + 1 \in DOMAIN events /\ e = events[i + 1]
      BY <1>3, <1>5, <3>1
    <3>3. CASE f = late
      BY <1>4, <3>2, <3>3 DEF Precedes, Queued
    <3>4. CASE j + 1 \in DOMAIN events /\ f = events[j + 1]
      <4>1. i + 1 < j + 1
        BY <1>3, <3>1
      <4>2. QED
        BY <3>2, <3>4, <4>1 DEF Precedes
    <3>5. QED
      BY <1>5, <3>1, <3>3, <3>4
  <2>3. QED
    BY <1>4, <1>8, <2>1, <2>2 DEF Precedes
<1>9. ASSUME NEW e \in Here
      PROVE  e \in Here' \/ (events # <<>> /\ e = Head(events))
  <2>1. CASE e \in Hand
    BY <1>4, <2>1 DEF Here
  <2>2. CASE e \in Late
    BY <1>3, <1>4, <2>2 DEF Here, Queued
  <2>3. CASE e \in Queued
    <3>1. PICK i \in DOMAIN events : e = events[i]
      BY <2>3 DEF Queued
    <3>2. CASE i = 1
      BY <1>1, <3>1, <3>2, TailOf
    <3>3. CASE i - 1 \in DOMAIN rest
      <4>1. e = events'[i - 1] /\ i - 1 \in DOMAIN events'
        <5>1. i \in Nat /\ rest[i - 1] = events[i - 1 + 1]
          BY <1>2, <3>1, <3>3, QueuedTypes
        <5>2. events'[i - 1] = rest[i - 1] /\ i - 1 \in DOMAIN events'
          BY <1>3, <3>3
        <5>3. i - 1 + 1 = i
          BY <5>1
        <5>4. QED
          BY <3>1, <5>1, <5>2, <5>3
      <4>2. QED
        BY <4>1 DEF Here, Queued
    <3>4. QED
      BY <1>2, <3>1, <3>2, <3>3
  <2>4. QED
    BY <2>1, <2>2, <2>3 DEF Here
<1>10. QED
  BY <1>4, <1>6, <1>7, <1>8, <1>9

\* The dispatcher puts down what it held, or goes on with it.
LEMMA HandStream ==
  ASSUME UNCHANGED <<dEv, events, late>>, Busy
  PROVE  /\ Here' \subseteq Here /\ Queued' = Queued /\ Late' = Late
         /\ \A e, f : Precedes(e, f)' => Precedes(e, f)
         /\ \A e \in Here : e \in Here' \/ (e = dEv /\ ~Busy')
         /\ ~Busy' => \A e \in Here' : Precedes(dEv, e)
<1>1. Queued' = Queued /\ Late' = Late
  BY DEF Queued, Late
<1>2. Hand = {dEv} /\ Hand' = IF Busy' THEN {dEv} ELSE {}
  BY DEF Hand
<1>3. \A e, f : Precedes(e, f)' => Precedes(e, f)
  BY <1>1, <1>2 DEF Precedes
<1>4. QED
  BY <1>1, <1>2, <1>3 DEF Here, Precedes

LEMMA PushStream ==
  ASSUME TypeOK, NEW k, k # "none", Push(Event(k)), Event(k) \in EventType,
         UNCHANGED <<dpc, dEv>>
  PROVE  /\ Here' = Here \cup {Event(k)}
         /\ Queued' \cup Late' = Queued \cup Late \cup {Event(k)}
         /\ \A e, f : Precedes(e, f)' =>
                        Precedes(e, f) \/ (e \in Here /\ f = Event(k))
<1> DEFINE ev == Event(k)
<1>1. Hand' = Hand
  BY DEF Hand, Busy
<1>2. ev # NoEvent
  BY DEF Event, NoEvent
<1>3. late = NoEvent /\ Late = {} /\ events \in Seq(EventType)
  BY DEF Push, Late, TypeOK
<1> HIDE DEF ev
<1>4. CASE events' = Append(events, ev) /\ late' = late
  <2>1. /\ Len(events) \in Nat /\ DOMAIN events = 1 .. Len(events)
        /\ DOMAIN events' = 1 .. Len(events) + 1
        /\ \A i \in 1 .. Len(events) : events'[i] = events[i]
        /\ events'[Len(events) + 1] = ev
    BY <1>3, <1>4, AppendOf DEF ev
  <2>2. Queued' = Queued \cup {ev} /\ Late' = {}
    BY <1>3, <1>4, <2>1 DEF Queued, Late
  <2>3. ASSUME NEW e, NEW f, Precedes(e, f)'
        PROVE  Precedes(e, f) \/ (e \in Here /\ f = ev)
    <3>1. CASE e \in Hand' /\ f \in Queued'
      BY <1>1, <2>2, <3>1 DEF Precedes, Here
    <3>2. CASE \E i, j \in DOMAIN events' :
                 i < j /\ e = events'[i] /\ f = events'[j]
      <4>1. PICK i \in DOMAIN events', j \in DOMAIN events' :
              i < j /\ e = events'[i] /\ f = events'[j]
        BY <3>2
      <4>2. i \in DOMAIN events /\ e = events[i]
        BY <2>1, <4>1
      <4>3. CASE j = Len(events) + 1
        BY <2>1, <4>1, <4>2, <4>3 DEF Here, Queued
      <4>4. CASE j \in DOMAIN events
        BY <2>1, <4>1, <4>2, <4>4 DEF Precedes
      <4>5. QED
        BY <2>1, <4>1, <4>3, <4>4
    <3>3. QED
      BY <2>2, <2>3, <3>1, <3>2 DEF Precedes
  <2>4. QED
    BY <1>1, <1>3, <2>2, <2>3 DEF Here, ev
<1>5. CASE late' = ev /\ events' = events
  <2>1. Queued' = Queued /\ Late' = {ev}
    BY <1>2, <1>5 DEF Queued, Late, ev
  <2>2. \A e, f : Precedes(e, f)' => Precedes(e, f) \/ (e \in Here /\ f = ev)
    BY <1>1, <1>5, <2>1 DEF Precedes, Here
  <2>3. QED
    BY <1>1, <1>3, <2>1, <2>2 DEF Here, ev
<1>6. QED
  BY <1>4, <1>5 DEF Push, ev

-----------------------------------------------------------------------------
(* The supervisor's steps.                                                  *)

LEMMA StreamShrinks ==
  ASSUME TypeOK, Stream, Here' \subseteq Here,
         \A e, f : Precedes(e, f)' => Precedes(e, f),
         UNCHANGED <<mod, modOf>>, attempt' \in {attempt, attempt + 1}
  PROVE  Stream'
<1>1. attempt \in Nat /\ \A e \in Here : e.of \in Nat
  BY QueuedTypes DEF TypeOK
<1>2. QED
  BY <1>1 DEF Stream

LEMMA CommandStream ==
  ASSUME TypeOK, Stream, Hands, Phases, Command
  PROVE  Stream'
<1>1. UNCHANGED <<dpc, dEv, events, late, attempt>>
  BY CommandCases, SupervisorFrame DEF Supervisor, dispVars, queueVars
<1>2. Here' = Here /\ \A e, f : Precedes(e, f)' <=> Precedes(e, f)
  BY <1>1, HereFrame
<1>3. /\ modOf \in Nat /\ attempt \in Nat /\ \A e \in Here : e.of \in Nat
  BY QueuedTypes, BoundsAssumption DEF TypeOK, Attempts, None
<1>4. Effects(sup) \/ UNCHANGED modVars
  BY CommandCases
<1>5. CASE UNCHANGED modVars
  BY <1>1, <1>2, <1>5, StreamShrinks DEF modVars
<1>6. CASE sup = "SKRESET" /\ mod' = "idle" /\ UNCHANGED modOf
  BY <1>1, <1>2, <1>6 DEF Stream
<1>7. CASE sup = "SKSCAN" /\ mod' = "scanning" /\ modOf' = attempt
  <2>1. modOf < attempt
    BY <1>7 DEF Phases, Preparing
  <2>2. QED
    BY <1>1, <1>2, <1>3, <1>7, <2>1 DEF Stream
<1>8. CASE sup = "SKJOIN" /\ mod' = "joining" /\ modOf' = attempt
  <2>1. modOf = attempt /\ \A e \in Here : e.of = attempt => e.kind \notin LinkKinds
    BY <1>8 DEF Phases, Found
  <2>2. QED
    BY <1>1, <1>2, <1>8, <2>1 DEF Stream, LinkKinds
<1>9. QED
  BY <1>4, <1>5, <1>6, <1>7, <1>8 DEF Effects

LEMMA CommandPhases ==
  ASSUME TypeOK, Stream, Phases, Command
  PROVE  Phases'
<1>1. UNCHANGED <<dpc, dEv, events, late, attempt>>
  BY CommandCases, SupervisorFrame DEF Supervisor, dispVars, queueVars
<1>2. Here' = Here
  BY <1>1, HereFrame
<1>3. attempt \in Nat /\ modOf \in Nat
  BY BoundsAssumption DEF TypeOK, Attempts, None
<1> USE DEF Phases, Preparing, Found, InSession, Serving
<1>4. modOf' <= attempt
  BY <1>3, CommandCases DEF Effects, modVars
<1>5. CASE sup' = "backoff"
  BY <1>1, <1>4, <1>5
<1>6. CASE sup \in {"SKRESET", "WOPT", "ROPT", "SKSETPWD", "SKSETRBID", "S2", "S3"}
           /\ sup' # "backoff"
  BY <1>1, <1>2, <1>4, <1>6, CommandCases DEF Effects, modVars
<1>7. CASE sup = "SKSCAN" /\ sup' # "backoff"
  <2>1. sup' = "scanning" /\ modOf' = attempt /\ mod' = "scanning"
    BY <1>7, CommandCases DEF Effects
  <2>2. \A e \in Here : e.of = attempt => e.kind \notin LinkKinds
    BY <1>3, <1>7, QueuedTypes DEF Stream, LinkKinds
  <2>3. QED
    BY <1>1, <1>2, <1>4, <2>1, <2>2
<1>8. CASE sup = "SKJOIN" /\ sup' # "backoff"
  <2>1. sup' = "joining" /\ modOf' = attempt /\ mod' = "joining"
    BY <1>8, CommandCases DEF Effects
  <2>2. QED
    BY <1>1, <1>2, <1>4, <2>1
<1>9. QED
  BY <1>5, <1>6, <1>7, <1>8, CommandCases DEF Commands

LEMMA CommandClean ==
  ASSUME MInv, Command, ~cancelled
  PROVE  Clean'
<1>1. UNCHANGED <<dpc, dEv, events, late, attempt, joinRes, scanQ>>
  BY CommandCases, SupervisorFrame DEF Supervisor, dispVars, queueVars
<1>2. Here' = Here /\ \A e, f : Precedes(e, f)' <=> Precedes(e, f)
  BY <1>1, HereFrame
<1> USE DEF MInv, Clean, Preparing, Found, InSession, Serving
<1>3. CASE sup' = "backoff"
  BY <1>3
<1>4. CASE sup \in {"SKRESET", "WOPT", "ROPT", "SKSETPWD", "SKSETRBID"}
           /\ sup' # "backoff"
  <2>1. sup' \in Preparing \ {"SKRESET", "SKSCAN"}
    BY <1>4, CommandCases
  <2>2. QED
    BY <1>1, <1>2, <1>4, <2>1
<1>5. CASE sup = "SKSCAN" /\ sup' # "backoff"
  <2>1. sup' = "scanning"
    BY <1>5, CommandCases
  <2>2. QED
    BY <1>1, <1>2, <1>5, <2>1
<1>6. CASE sup \in {"S2", "S3"} /\ sup' # "backoff"
  <2>1. sup' \in {"S3", "subjoin"}
    BY <1>6, CommandCases
  <2>2. QED
    BY <1>1, <1>2, <1>6, <2>1
<1>7. CASE sup = "SKJOIN" /\ sup' # "backoff"
  <2>1. sup' = "joining"
    BY <1>7, CommandCases
  <2>2. joinRes' = NoEvent /\ joinRes'.kind # "25"
    BY <1>1, <1>7 DEF NoEvent
  <2>3. QED
    BY <1>1, <1>2, <1>7, <2>1, <2>2
<1>8. QED
  BY <1>3, <1>4, <1>5, <1>6, <1>7, CommandCases DEF Commands

LEMMA CommandReach ==
  ASSUME MInv, Command
  PROVE  Armed' /\ (~cancelled => Reach')
<1>1. UNCHANGED <<dpc, dEv, dRef, events, late, driver, cancelled, attempt, disc,
                  discRes, missed>>
  BY CommandCases, SupervisorFrame DEF Supervisor, dispVars, queueVars
<1>2. Here' = Here /\ (Busy' <=> Busy)
  BY <1>1, HereFrame
<1> USE DEF MInv, Commands
<1>3. sup # "wait" /\ sup' # "wait"
  BY CommandCases
<1>4. dpc = "discSend" => dEv.of # attempt
  BY CommandCases DEF Armed
<1>5. driver = "down" /\ sup = "SKRESET" => sup' = "backoff"
  BY CommandCases
<1>6. sup \in {"WOPT", "ROPT", "SKSETPWD", "SKSETRBID", "SKSCAN", "S2", "S3",
               "SKJOIN"} =>
        ~(Busy /\ dEv.kind = "closed" /\ dEv.of < attempt)
  BY DEF Armed
<1>7. Armed'
  <2>1. Busy /\ dEv.kind = "closed" /\ dEv.of < attempt => sup' = "backoff"
    BY <1>5, <1>6, CommandCases DEF Hands
  <2>2. QED
    BY <1>1, <1>2, <1>3, <1>4, <2>1 DEF Armed
<1>8. ~cancelled => Reach'
  <2>1. CASE sup' = "backoff"
    BY <2>1 DEF Reach
  <2>2. CASE sup = "SKRESET" /\ sup' # "backoff"
    BY <1>1, <1>5, <2>2, CommandCases DEF Reach, Hands, TypeOK
  <2>3. CASE sup \in {"WOPT", "ROPT", "SKSETPWD", "SKSETRBID", "SKSCAN", "S2",
                      "S3"} /\ sup' # "backoff"
    <3>1. sup' \notin {"joining", "publish", "wake", "arm", "wait"}
      BY <2>3, CommandCases
    <3>2. QED
      BY <1>1, <1>3, <2>3, <3>1 DEF Reach, Told
  <2>4. CASE sup = "SKJOIN" /\ sup' # "backoff"
    <3>1. mod' = "joining"
      BY <2>4, CommandCases DEF Effects
    <3>2. QED
      BY <1>1, <1>3, <2>4, <3>1 DEF Reach, Told
  <2>5. QED
    BY <2>1, <2>2, <2>3, <2>4, CommandCases
<1>9. QED
  BY <1>7, <1>8

LEMMA SupervisorStream ==
  ASSUME MInv, Supervisor
  PROVE  Stream' /\ Hands'
<1> USE DEF MInv
<1>1. UNCHANGED <<dpc, dEv, dRef, events, late, driver, cancelled>>
  BY SupervisorFrame DEF dispVars, queueVars
<1>2. /\ Here' = Here /\ Queued' = Queued /\ Late' = Late /\ (Busy' <=> Busy)
      /\ \A e, f : Precedes(e, f)' <=> Precedes(e, f)
  BY <1>1, HereFrame
<1>3. Hands'
  <2>1. \A i \in DOMAIN scanQ' : scanQ'[i].kind \in ScanKinds
    <3>1. CASE ScanEvent
      BY <3>1, TailOf DEF ScanEvent, TypeOK, Hands
    <3>2. CASE SubscribeScan
      BY <3>2 DEF SubscribeScan
    <3>3. CASE Command
      BY <3>3, CommandCases DEF Hands
    <3>4. CASE ~ScanEvent /\ ~SubscribeScan /\ ~Command
      BY <3>4 DEF Supervisor, Top, ScanTimeout, SubscribeJoin, JoinOutcome,
         Pause, Publish, Wake, Arm, Disconnected, Clear, Renew, Hands, chanVars
    <3>5. QED
      BY <3>1, <3>2, <3>3, <3>4
  <2>2. QED
    BY <1>1, <1>2, <2>1 DEF Hands
<1>4. CASE Command
  BY <1>3, <1>4, CommandStream
<1>5. CASE ~Command
  <2>1. UNCHANGED modVars /\ attempt' \in {attempt, attempt + 1}
    BY <1>5 DEF Supervisor, Top, SubscribeScan, ScanEvent, ScanTimeout,
       SubscribeJoin, JoinOutcome, Pause, Publish, Wake, Arm, Disconnected,
       Clear, Renew, supVars
  <2>2. QED
    BY <1>2, <1>3, <2>1, StreamShrinks DEF modVars
<1>6. QED
  BY <1>4, <1>5

\* A wait that runs out leaves nothing of the stream, unless it is cancelled.
LEMMA WaitEmpties ==
  ASSUME WaitOver, ~cancelled
  PROVE  Here = {}
BY DEF WaitOver, Here, Hand, Busy, Queued, Late

LEMMA SupervisorPhases ==
  ASSUME MInv, Supervisor
  PROVE  Phases'
<1> USE DEF MInv
<1>1. UNCHANGED <<dpc, dEv, events, late>>
  BY SupervisorFrame DEF dispVars, queueVars
<1>2. Here' = Here
  BY <1>1, HereFrame
<1>3. CASE Command
  BY <1>3, CommandPhases
<1>4. attempt \in Nat /\ modOf \in Nat
  BY BoundsAssumption DEF TypeOK, Attempts, None
<1> USE DEF Phases, Preparing, Found, InSession, Serving
<1>5. CASE Top
  <2>1. \/ sup' = "stopped" /\ attempt' = attempt
        \/ sup' = "SKRESET" /\ attempt' = attempt + 1
    BY <1>5 DEF Top
  <2>2. UNCHANGED <<mod, modOf>>
    BY <1>5 DEF Top, modVars
  <2>3. QED
    BY <1>4, <2>1, <2>2
<1>6. CASE SubscribeScan
  BY <1>2, <1>6 DEF SubscribeScan, modVars
<1>7. CASE ScanEvent \/ ScanTimeout
  <2>1. /\ sup = "scanning" /\ sup' \in {"scanning", "S2", "backoff"}
        /\ UNCHANGED <<attempt, mod, modOf>>
    BY <1>7 DEF ScanEvent, ScanTimeout, Fail, modVars
  <2>2. QED
    BY <1>2, <2>1
<1>8. CASE SubscribeJoin
  BY <1>2, <1>8 DEF SubscribeJoin, modVars
<1>9. CASE JoinOutcome
  <2>1. /\ UNCHANGED <<attempt, mod, modOf>>
        /\ sup = "joining" /\ sup' \in {"backoff", "publish"}
    BY <1>9 DEF JoinOutcome, Fail, modVars
  <2>2. QED
    BY <1>2, <2>1
<1>10. CASE Pause
  BY <1>10 DEF Pause, modVars
<1>11. CASE Publish \/ Wake \/ Arm \/ Disconnected \/ Clear \/ Renew
  BY <1>2, <1>11
     DEF Publish, Wake, Arm, Disconnected, Clear, Renew, modVars
<1>12. QED
  BY <1>3, <1>5, <1>6, <1>7, <1>8, <1>9, <1>10, <1>11 DEF Supervisor

LEMMA SupervisorClean ==
  ASSUME MInv, Supervisor, ~cancelled
  PROVE  Clean'
<1> USE DEF MInv
<1>1. UNCHANGED <<dpc, dEv, events, late>>
  BY SupervisorFrame DEF dispVars, queueVars
<1>2. Here' = Here /\ \A e, f : Precedes(e, f)' <=> Precedes(e, f)
  BY <1>1, HereFrame
<1>3. CASE Command
  BY <1>3, CommandClean
<1> USE DEF Clean, Preparing, Found, InSession, Serving
<1>4. CASE Top
  BY <1>2, <1>4 DEF Top, chanVars, modVars
<1>5. CASE SubscribeScan
  <2>1. sup = "subscan" /\ sup' = "SKSCAN" /\ scanQ' = <<>>
    BY <1>5 DEF SubscribeScan
  <2>2. QED
    BY <1>2, <2>1
<1>6. CASE ScanEvent
  <2>1. /\ sup = "scanning" /\ scanQ # <<>> /\ scanQ' = Tail(scanQ)
        /\ attempt' = attempt
        /\ \/ sup' \in {"scanning", "backoff"}
           \/ sup' = "S2" /\ Head(scanQ).kind # "epandesc"
    BY <1>6 DEF ScanEvent, Fail
  <2>2. /\ 1 \in DOMAIN scanQ /\ Head(scanQ) = scanQ[1]
        /\ \A i \in DOMAIN scanQ' :
             i + 1 \in DOMAIN scanQ /\ scanQ'[i] = scanQ[i + 1]
    BY <2>1, TailOf DEF TypeOK
  <2>3. CASE sup' = "scanning"
    BY <1>2, <2>1, <2>2, <2>3
  <2>4. CASE sup' = "S2" /\ Head(scanQ).kind # "epandesc"
    <3>1. scanQ[1].kind = "22"
      BY <2>2, <2>4 DEF Hands, ScanKinds
    <3>2. \A e \in Here : e.kind \notin JoinKinds
      BY <2>1, <2>2, <3>1
    <3>3. QED
      BY <1>2, <2>4, <3>2
  <2>5. CASE sup' = "backoff"
    BY <2>5
  <2>6. QED
    BY <2>1, <2>3, <2>4, <2>5
<1>7. CASE ScanTimeout \/ Pause
  <2>1. Here' = {} /\ sup' \in {"S2", "backoff", "top"}
    BY <1>2, <1>7, WaitEmpties DEF ScanTimeout, Pause, Fail
  <2>2. QED
    BY <2>1
<1>8. CASE SubscribeJoin
  <2>1. sup = "subjoin" /\ sup' = "SKJOIN" /\ joinRes' = NoEvent
    BY <1>8 DEF SubscribeJoin, FreshJoin
  <2>2. QED
    BY <1>2, <2>1
<1>9. CASE JoinOutcome
  <2>1. /\ sup = "joining" /\ UNCHANGED <<attempt, mod, joinRes>>
        /\ \/ sup' = "backoff"
           \/ sup' = "publish" /\ joinRes.kind = "25"
    BY <1>9 DEF JoinOutcome, Fail, modVars
  <2>2. QED
    BY <1>2, <2>1
<1>10. CASE Publish \/ Wake \/ Arm \/ Disconnected \/ Clear
  <2>1. /\ sup \in InSession /\ sup' \in InSession
        /\ UNCHANGED <<attempt, mod, joinRes>>
    BY <1>10 DEF Publish, Wake, Arm, Disconnected, Clear, modVars, chanVars
  <2>2. QED
    BY <1>2, <2>1
<1>11. CASE Renew
  <2>1. sup \in {"renew", "renewLast"} /\ sup' \in {"top", "stopped"}
    BY <1>11 DEF Renew
  <2>2. \A e \in Here : e.kind # "22"
    BY <2>1 DEF ScanKinds
  <2>3. QED
    BY <1>2, <2>1, <2>2
<1>12. QED
  BY <1>3, <1>4, <1>5, <1>6, <1>7, <1>8, <1>9, <1>10, <1>11 DEF Supervisor

LEMMA SupervisorReach ==
  ASSUME MInv, Supervisor
  PROVE  Armed' /\ (~cancelled => Reach')
<1> USE DEF MInv
<1>1. UNCHANGED <<dpc, dEv, dRef, events, late, cancelled, driver>>
  BY SupervisorFrame DEF dispVars, queueVars
<1>2. Here' = Here /\ (Busy' <=> Busy)
  BY <1>1, HereFrame
<1>3. CASE Command
  BY <1>3, CommandReach
<1>4. CASE Top
  <2>1. /\ sup = "top" /\ disc' = disc
        /\ \/ sup' = "stopped" /\ attempt' = attempt
           \/ sup' = "SKRESET" /\ attempt' = attempt + 1
    BY <1>4 DEF Top, chanVars
  <2>2. attempt \in Nat /\ (Busy => dEv.of \in Nat /\ dEv.of <= attempt)
    BY QueuedTypes DEF TypeOK, Stream, Here, Hand
  <2>3. dpc = "discSend" => Busy
    BY DEF Busy
  <2>4. Armed'
    BY <1>1, <1>2, <2>1, <2>2, <2>3 DEF Armed
  <2>5. Reach'
    BY <2>1 DEF Reach
  <2>6. QED
    BY <2>4, <2>5
<1>5. CASE Arm
  <2>1. /\ sup = "arm" /\ sup' = "wait" /\ disc' = attempt /\ discRes' = NoEvent
        /\ UNCHANGED <<attempt, mod, missed>>
    BY <1>5 DEF Arm, modVars
  <2>2. Armed'
    BY <1>1, <1>2, <2>1 DEF Armed
  <2>3. ~cancelled => Reach'
    BY <1>1, <1>2, <2>1 DEF Reach, Told
  <2>4. QED
    BY <2>2, <2>3
<1>6. CASE Supervisor /\ ~Command /\ ~Top /\ ~Arm
  <2>1. /\ UNCHANGED <<attempt, mod, missed>>
        /\ \/ /\ disc' = disc
              /\ \/ sup = "subscan" /\ sup' = "SKSCAN"
                 \/ sup = "scanning" /\ sup' \in {"scanning", "S2", "backoff"}
                 \/ sup = "subjoin" /\ sup' = "SKJOIN"
                 \/ sup = "joining" /\ sup' \in {"publish", "backoff"}
                 \/ sup = "backoff" /\ sup' \in {"top", "stopped"}
                 \/ sup = "publish" /\ sup' = "wake"
                 \/ sup = "wake" /\ sup' = "arm"
                 \/ sup = "clear" /\ sup' = "renew"
                 \/ sup = "clearLast" /\ sup' = "renewLast"
                 \/ sup = "renew" /\ sup' = "top"
                 \/ sup = "renewLast" /\ sup' = "stopped"
           \/ /\ disc' = None
              /\ sup = "wait" /\ sup' \in {"clear", "clearLast"}
    BY <1>6 DEF Supervisor, SubscribeScan, ScanEvent, ScanTimeout, SubscribeJoin,
       JoinOutcome, Pause, Publish, Wake, Disconnected, Clear, Renew, Fail,
       modVars, chanVars
  <2>2. Armed'
    BY <1>1, <1>2, <2>1 DEF Armed
  <2>3. ~cancelled => Reach'
    BY <1>1, <1>2, <2>1 DEF Reach, Told
  <2>4. QED
    BY <2>2, <2>3
<1>7. QED
  BY <1>3, <1>4, <1>5, <1>6

-----------------------------------------------------------------------------
(* The dispatcher's steps.                                                  *)

\* What holds of a stream holds of what is left of it.
LEMMA ShrinkStep ==
  ASSUME MInv, Here' \subseteq Here,
         \A e, f : Precedes(e, f)' => Precedes(e, f),
         UNCHANGED <<sup, attempt, mod, modOf>>
  PROVE  /\ Stream' /\ Phases'
         /\ ~cancelled /\ UNCHANGED <<scanQ, joinRes>> => Clean'
<1> USE DEF MInv
<1>1. Stream'
  BY StreamShrinks
<1>2. Phases'
  BY DEF Phases
<1>3. ~cancelled /\ UNCHANGED <<scanQ, joinRes>> => Clean'
  BY DEF Clean
<1>4. QED
  BY <1>1, <1>2, <1>3

\* A dispatcher's step that leaves the disconnect channel alone, and what it
\* holds unarmed, keeps the losses as long as it keeps their events.
LEMMA QuietStep ==
  ASSUME MInv, UNCHANGED <<sup, attempt, mod, modOf, driver, cancelled, disc,
                           discRes>>,
         dpc' \notin {"discSend", "gone"}, Busy' => dEv'.kind # "closed",
         missed => missed',
         missed' \/ \A e \in Here :
            e.kind \in Losses /\ e.of = attempt => e \in Here'
  PROVE  Armed' /\ (~cancelled => Reach')
<1> USE DEF MInv
<1>1. Armed'
  BY DEF Armed, LinkDown
<1>2. ~cancelled => Reach'
  BY DEF Reach, Told
<1>3. QED
  BY <1>1, <1>2

LEMMA DispatcherSame ==
  ASSUME Dispatcher \/ Displace
  PROVE  UNCHANGED <<sup, attempt, mod, modOf, driver, cancelled, disc, joinCh,
                     scanCh>>
BY DispatcherFrame DEF supVars, modVars

LEMMA TakeStep ==
  ASSUME MInv, Take
  PROVE  MInv'
<1>1. UNCHANGED <<sup, attempt, mod, modOf, driver, cancelled, disc>>
  BY DispatcherSame DEF Dispatcher
<1>2. TypeOK'
  BY DispatcherType DEF Dispatcher, MInv
<1>3. UNCHANGED <<late, scanQ, joinRes, discRes, missed>> /\ dpc = "take"
  BY DEF Take, chanVars
<1>4. /\ Here' \subseteq Here /\ Late' = Late /\ Queued' \subseteq Queued
      /\ \A e, f : Precedes(e, f)' => Precedes(e, f)
  BY TakeStream DEF MInv
<1>5. Stream' /\ Phases' /\ (~cancelled => Clean')
  BY <1>1, <1>3, <1>4, ShrinkStep
<1>6. /\ events # <<>> /\ events' = Tail(events) /\ 1 \in DOMAIN events
      /\ Head(events) = events[1] /\ DOMAIN events = 1 .. Len(events)
      /\ Len(events) \in Nat /\ DOMAIN events' = 1 .. Len(events) - 1
      /\ \A i \in DOMAIN events' : events'[i] = events[i + 1]
  BY TailOf DEF Take, MInv, TypeOK
<1>7. \/ /\ Head(events).kind \in {"epandesc", "22"} /\ dpc' = "scan"
         /\ dEv' = Head(events)
      \/ /\ Head(events).kind \in {"24", "25"} /\ dpc' = "join"
         /\ dEv' = Head(events)
      \/ /\ Head(events).kind = "29" /\ dpc' = "disc"
         /\ dEv' = Head(events)
      \/ Head(events).kind \in {"udp", "21"} /\ dpc' = dpc /\ dEv' = dEv
  BY DEF Take, Goto
<1>8. Hands'
  <2>1. /\ dpc' \in {"scan", "scanSend"} => dEv'.kind \in ScanKinds
        /\ dpc' \in {"join", "joinSend"} => dEv'.kind \in JoinKinds
        /\ dpc' \in {"disc", "discSend"} => dEv'.kind \in Losses
        /\ dpc' # "scanSend" /\ dpc' # "gone"
        /\ ~(Busy' /\ dEv'.kind = "closed")
    BY <1>3, <1>7 DEF Busy, ScanKinds, JoinKinds, Losses
  <2>2. QED
    BY <1>1, <1>3, <1>4, <2>1 DEF Hands, MInv
<1>9. ASSUME NEW e \in Here, e.kind \in Losses
      PROVE  e \in Here'
  <2>1. Hand = {}
    BY <1>3 DEF Hand, Busy
  <2>2. CASE e \in Late
    BY <1>4, <2>2 DEF Here
  <2>3. CASE e \in Queued
    <3>1. PICK i \in DOMAIN events : e = events[i]
      BY <2>3 DEF Queued
    <3>2. e.kind \in {"24", "29"}
      BY <1>9, <2>3 DEF MInv, Hands, Losses
    <3>3. CASE i = 1
      BY <1>6, <1>7, <3>1, <3>2, <3>3 DEF Here, Hand, Busy
    <3>4. CASE i # 1
      <4>1. i - 1 \in DOMAIN events' /\ events'[i - 1] = events[i]
        <5>1. i \in Nat /\ i - 1 \in 1 .. Len(events) - 1 /\ i - 1 + 1 = i
          BY <1>6, <3>4
        <5>2. QED
          BY <1>6, <5>1
      <4>2. QED
        BY <3>1, <4>1 DEF Here, Queued
    <3>5. QED
      BY <3>3, <3>4
  <2>4. QED
    BY <2>1, <2>2, <2>3 DEF Here
<1>10. Armed' /\ (~cancelled => Reach')
  <2>1. dpc' \notin {"discSend", "gone"} /\ (Busy' => dEv'.kind # "closed")
    BY <1>3, <1>7 DEF Busy
  <2>2. QED
    BY <1>1, <1>3, <1>9, <2>1, QuietStep
<1>11. QED
  BY <1>1, <1>2, <1>5, <1>8, <1>10 DEF MInv

LEMMA DisplaceStep ==
  ASSUME MInv, Displace
  PROVE  MInv'
<1>1. UNCHANGED <<sup, attempt, mod, modOf, driver, cancelled, disc>>
  BY DispatcherSame
<1>2. TypeOK'
  BY DispatcherType DEF MInv
<1>3. /\ UNCHANGED <<scanQ, joinRes, discRes, dpc, dEv, dRef>>
      /\ late # NoEvent /\ late' = NoEvent
      /\ missed' = (missed \/ LossEvicted)
  BY DEF Displace, chanVars, dispVars
<1>4. /\ Here' \subseteq Here /\ Late' = {} /\ Queued' \subseteq Queued \cup Late
      /\ \A e, f : Precedes(e, f)' => Precedes(e, f)
      /\ \A e \in Here : e \in Here' \/ (events # <<>> /\ e = Head(events))
  BY DisplaceStream DEF MInv
<1>5. Stream' /\ Phases' /\ (~cancelled => Clean')
  BY <1>1, <1>3, <1>4, ShrinkStep
<1>6. driver # "down" /\ ~(Busy /\ dEv.kind = "closed") /\ (Busy' <=> Busy)
      /\ (dpc = "gone" => cancelled)
  BY <1>3 DEF MInv, Hands, Busy
<1>7. Hands'
  BY <1>1, <1>3, <1>4, <1>6 DEF MInv, Hands
<1>8. (missed => missed') /\ (LossEvicted => missed')
  BY <1>3
<1>9. \A e \in Here : e.kind \in Losses /\ e.of = attempt => e \in Here' \/ missed'
  BY <1>4, <1>8 DEF LossEvicted
<1>10. Armed'
  BY <1>1, <1>3, <1>6 DEF MInv, Armed, LinkDown
<1>11. ~cancelled => Reach'
  BY <1>1, <1>3, <1>6, <1>8, <1>9 DEF MInv, Reach, Told
<1>12. QED
  BY <1>1, <1>2, <1>5, <1>7, <1>10, <1>11 DEF MInv

LEMMA ScanLoadStep ==
  ASSUME MInv, ScanLoad
  PROVE  MInv'
<1>1. UNCHANGED <<sup, attempt, mod, modOf, driver, cancelled, disc>>
  BY DispatcherSame DEF Dispatcher
<1>2. TypeOK'
  BY DispatcherType DEF Dispatcher, MInv
<1>3. /\ UNCHANGED <<scanQ, joinRes, discRes, dEv, events, late, missed>>
      /\ dpc = "scan" /\ dRef' = scanCh
      /\ dpc' = IF scanCh = None THEN "take" ELSE "scanSend"
  BY DEF ScanLoad, chanVars, queueVars
<1>4. Busy /\ dEv.kind \in ScanKinds
  BY <1>3 DEF Busy, MInv, Hands
<1>5. /\ Here' \subseteq Here /\ Queued' = Queued /\ Late' = Late
      /\ \A e, f : Precedes(e, f)' => Precedes(e, f)
      /\ \A e \in Here : e \in Here' \/ (e = dEv /\ ~Busy')
  BY <1>3, <1>4, HandStream
<1>6. Stream' /\ Phases' /\ (~cancelled => Clean')
  BY <1>1, <1>3, <1>5, ShrinkStep
<1>7. Hands'
  BY <1>1, <1>3, <1>4, <1>5 DEF MInv, Hands, ScanKinds
<1>8. dEv.kind \notin Losses
  BY <1>4 DEF ScanKinds, Losses
<1>9. Armed' /\ (~cancelled => Reach')
  BY <1>1, <1>3, <1>5, <1>8, QuietStep DEF Losses
<1>10. QED
  BY <1>1, <1>2, <1>6, <1>7, <1>9 DEF MInv

LEMMA ScanSendStep ==
  ASSUME MInv, ScanSend
  PROVE  MInv'
<1>1. UNCHANGED <<sup, attempt, mod, modOf, driver, cancelled, disc>>
  BY DispatcherSame DEF Dispatcher
<1>2. TypeOK'
  BY DispatcherType DEF Dispatcher, MInv
<1>3. /\ UNCHANGED <<joinRes, discRes, dEv, events, late, missed>>
      /\ dpc = "scanSend" /\ dpc' = "take"
      /\ scanQ' = scanQ \/ scanQ' = Append(scanQ, dEv)
  BY DEF ScanSend, queueVars
<1>4. Busy /\ ~Busy' /\ dEv.kind \in ScanKinds /\ dEv \in Here
  BY <1>3 DEF Busy, MInv, Hands, Here, Hand
<1>5. /\ Here' \subseteq Here /\ Queued' = Queued /\ Late' = Late
      /\ \A e, f : Precedes(e, f)' => Precedes(e, f)
      /\ \A e \in Here : e \in Here' \/ e = dEv
      /\ \A e \in Here' : Precedes(dEv, e)
  BY <1>3, <1>4, HandStream
<1>6. Stream' /\ Phases'
  BY <1>1, <1>5, ShrinkStep
<1>7. \A i \in DOMAIN scanQ' :
        scanQ'[i] = dEv \/ \E j \in DOMAIN scanQ : scanQ'[i] = scanQ[j]
  <2>1. scanQ \in Seq(EventType) /\ dEv \in EventType
    BY DEF MInv, TypeOK
  <2>2. CASE scanQ' = scanQ
    BY <2>2
  <2>3. CASE scanQ' = Append(scanQ, dEv)
    <3>1. /\ Len(scanQ) \in Nat /\ DOMAIN scanQ = 1 .. Len(scanQ)
          /\ DOMAIN scanQ' = 1 .. Len(scanQ) + 1
          /\ \A i \in 1 .. Len(scanQ) : scanQ'[i] = scanQ[i]
          /\ scanQ'[Len(scanQ) + 1] = dEv
      BY <2>1, <2>3, AppendOf
    <3>2. QED
      BY <3>1
  <2>4. QED
    BY <1>3, <2>2, <2>3
<1>8. Hands'
  <2>1. \A i \in DOMAIN scanQ' : scanQ'[i].kind \in ScanKinds
    BY <1>4, <1>7 DEF MInv, Hands
  <2>2. QED
    BY <1>1, <1>3, <1>4, <1>5, <2>1 DEF MInv, Hands
<1>9. ASSUME ~cancelled
      PROVE  Clean'
  <2>1. ASSUME sup \in {"SKSCAN", "scanning"},
               NEW i \in DOMAIN scanQ', scanQ'[i].kind = "22",
               NEW e \in Here'
        PROVE  e.kind \notin JoinKinds
    <3>1. CASE scanQ'[i] = dEv
      <4>1. Precedes(dEv, e) /\ dEv \in Here /\ e \in Here /\ dEv.kind = "22"
        BY <1>4, <1>5, <2>1, <3>1
      <4>2. sup \in {"top", "scanning"} \cup Preparing
        BY <2>1 DEF Preparing
      <4>3. QED
        BY <1>9, <4>1, <4>2 DEF MInv, Clean
    <3>2. CASE \E j \in DOMAIN scanQ : scanQ'[i] = scanQ[j]
      BY <1>5, <1>9, <2>1, <3>2 DEF MInv, Clean
    <3>3. QED
      BY <1>7, <2>1, <3>1, <3>2
  <2>2. QED
    BY <1>1, <1>3, <1>5, <1>9, <2>1 DEF MInv, Clean
<1>10. dEv.kind \notin Losses
  BY <1>4 DEF ScanKinds, Losses
<1>11. Armed' /\ (~cancelled => Reach')
  BY <1>1, <1>3, <1>4, <1>5, <1>10, QuietStep
<1>12. QED
  BY <1>1, <1>2, <1>6, <1>8, <1>9, <1>11 DEF MInv

LEMMA JoinLoadStep ==
  ASSUME MInv, JoinLoad
  PROVE  MInv'
<1>1. UNCHANGED <<sup, attempt, mod, modOf, driver, cancelled, disc>>
  BY DispatcherSame DEF Dispatcher
<1>2. TypeOK'
  BY DispatcherType DEF Dispatcher, MInv
<1>3. /\ UNCHANGED <<scanQ, joinRes, discRes, dEv, events, late, missed>>
      /\ dpc = "join" /\ dpc' = "joinSend"
  BY DEF JoinLoad, chanVars, queueVars
<1>4. Busy /\ Busy' /\ dEv.kind \in JoinKinds
  BY <1>3 DEF Busy, MInv, Hands
<1>5. /\ Here' \subseteq Here /\ Queued' = Queued /\ Late' = Late
      /\ \A e, f : Precedes(e, f)' => Precedes(e, f)
      /\ \A e \in Here : e \in Here'
  BY <1>3, <1>4, HandStream
<1>6. Stream' /\ Phases' /\ (~cancelled => Clean')
  BY <1>1, <1>3, <1>5, ShrinkStep
<1>7. Hands'
  BY <1>1, <1>3, <1>4, <1>5 DEF MInv, Hands
<1>8. Armed' /\ (~cancelled => Reach')
  BY <1>1, <1>3, <1>4, <1>5, QuietStep DEF JoinKinds
<1>9. QED
  BY <1>1, <1>2, <1>6, <1>7, <1>8 DEF MInv

\* The outcome that a join gets is its own: older ones are gone from the stream
\* and nothing of an older attempt follows it.
LEMMA JoinSendStep ==
  ASSUME MInv, JoinSend
  PROVE  MInv'
<1>1. UNCHANGED <<sup, attempt, mod, modOf, driver, cancelled, disc>>
  BY DispatcherSame DEF Dispatcher
<1>2. TypeOK'
  BY DispatcherType DEF Dispatcher, MInv
<1>3. /\ UNCHANGED <<scanQ, discRes, dEv, events, late, missed>>
      /\ dpc = "joinSend" /\ joinRes' \in {joinRes, dEv}
      /\ dpc' = IF dEv.kind = "24" THEN "disc" ELSE "take"
  BY DEF JoinSend, AfterJoin, queueVars
<1>4. /\ Busy /\ dEv.kind \in JoinKinds /\ dEv \in Here
      /\ (Busy' <=> dEv.kind = "24")
  BY <1>3 DEF Busy, MInv, Hands, Here, Hand
<1>5. /\ Here' \subseteq Here /\ Queued' = Queued /\ Late' = Late
      /\ \A e, f : Precedes(e, f)' => Precedes(e, f)
      /\ \A e \in Here : e \in Here' \/ (e = dEv /\ ~Busy')
      /\ ~Busy' => \A e \in Here' : Precedes(dEv, e)
  BY <1>3, <1>4, HandStream
<1>6. Stream' /\ Phases'
  BY <1>1, <1>5, ShrinkStep
<1>7. Hands'
  BY <1>1, <1>3, <1>4, <1>5 DEF MInv, Hands, JoinKinds, Losses
<1>8. ASSUME ~cancelled
      PROVE  Clean'
  <2>1. attempt \in Nat /\ \A e \in Here : e.of \in Nat /\ e.of <= attempt
    BY QueuedTypes DEF MInv, TypeOK, Stream
  <2>2. sup # "SKJOIN"
    BY <1>4, <1>8 DEF MInv, Clean, Found
  <2>3. sup \in {"joining"} \cup InSession => dEv.of = attempt
    BY <1>4, <1>8 DEF MInv, Clean
  <2>4. ASSUME sup = "joining", joinRes' = dEv, dEv.kind = "25"
        PROVE  /\ mod \in {"linked", "idle"}
               /\ \A e \in Here' : e.of = attempt /\ e.kind \notin ScanKinds
    <3>1. dEv.of = attempt /\ modOf = attempt
      BY <2>3, <2>4 DEF MInv, Phases
    <3>2. mod \in {"linked", "idle"}
      BY <1>4, <2>4, <3>1 DEF MInv, Stream
    <3>3. ASSUME NEW e \in Here'
          PROVE  e.of = attempt /\ e.kind \notin ScanKinds
      <4>1. e \in Here /\ Precedes(dEv, e)
        BY <1>4, <1>5, <2>4
      <4>2. /\ dEv.of <= e.of
            /\ dEv.of = e.of /\ dEv.kind \in LinkKinds => e.kind \notin ScanKinds
        BY <1>4, <4>1 DEF MInv, Stream
      <4>3. QED
        BY <2>1, <2>4, <3>1, <4>1, <4>2 DEF LinkKinds
    <3>4. QED
      BY <3>2, <3>3
  <2>5. CASE joinRes' = joinRes
    BY <1>1, <1>3, <1>5, <1>8, <2>5, ShrinkStep
  <2>6. CASE joinRes' = dEv
    BY <1>1, <1>3, <1>5, <1>8, <2>2, <2>3, <2>4, <2>6 DEF MInv, Clean
  <2>7. QED
    BY <1>3, <2>5, <2>6
<1>9. Armed' /\ (~cancelled => Reach')
  <2>1. \A e \in Here : e.kind \in Losses => e \in Here'
    BY <1>4, <1>5 DEF JoinKinds, Losses
  <2>2. QED
    BY <1>1, <1>3, <1>4, <2>1, QuietStep DEF JoinKinds
<1>10. QED
  BY <1>1, <1>2, <1>6, <1>7, <1>8, <1>9 DEF MInv

LEMMA DiscLoadStep ==
  ASSUME MInv, DiscLoad
  PROVE  MInv'
<1>1. UNCHANGED <<sup, attempt, mod, modOf, driver, cancelled, disc>>
  BY DispatcherSame DEF Dispatcher
<1>2. TypeOK'
  BY DispatcherType DEF Dispatcher, MInv
<1>3. /\ UNCHANGED <<scanQ, joinRes, discRes, dEv, events, late>>
      /\ dpc = "disc" /\ dRef' = disc
      /\ dpc' = IF disc = None THEN AfterDisc ELSE "discSend"
      /\ missed' = (missed \/ (disc = None /\ dEv.of = attempt))
  BY DEF DiscLoad, chanVars, queueVars
<1>4. /\ Busy /\ dEv.kind \in Losses /\ dEv \in Here
      /\ (Busy' <=> disc # None) /\ (dpc' = "discSend" <=> disc # None)
      /\ (dpc' = "gone" => dEv.kind = "closed")
  BY <1>3 DEF Busy, MInv, Hands, Here, Hand, AfterDisc
<1>5. /\ Here' \subseteq Here /\ Queued' = Queued /\ Late' = Late
      /\ \A e, f : Precedes(e, f)' => Precedes(e, f)
      /\ \A e \in Here : e \in Here' \/ (e = dEv /\ ~Busy')
  BY <1>3, <1>4, HandStream
<1>6. Stream' /\ Phases' /\ (~cancelled => Clean')
  BY <1>1, <1>3, <1>5, ShrinkStep
<1>7. Hands'
  <2>1. dpc' \in {"discSend", "take", "gone"}
    BY <1>3 DEF AfterDisc
  <2>2. dEv.kind = "closed" => driver = "down" /\ events = <<>>
    BY <1>4 DEF MInv, Hands
  <2>3. QED
    BY <1>1, <1>3, <1>4, <1>5, <2>1, <2>2 DEF MInv, Hands
<1>8. attempt \in Nat /\ dEv.of \in Nat /\ dEv.of <= attempt
  BY <1>4, QueuedTypes DEF MInv, TypeOK, Stream
<1>9. disc = IF sup = "wait" THEN attempt ELSE None
  BY DEF MInv, Armed
<1>10. Armed'
  <2>1. dpc' = "discSend" => dRef' = attempt /\ sup = "wait"
    BY <1>3, <1>4, <1>9
  <2>2. QED
    BY <1>1, <1>3, <1>4, <2>1 DEF MInv, Armed, LinkDown
<1>11. ASSUME ~cancelled
       PROVE  Reach'
  <2>1. (missed => missed') /\ (disc = None /\ dEv.of = attempt => missed')
    BY <1>3
  <2>2. dpc' = "gone" => missed' \/ sup \in {"SKRESET", "backoff", "top", "stopped"}
    <3>1. dpc' = "gone" => disc = None /\ dEv.kind = "closed"
      BY <1>3, <1>4
    <3>2. dEv.of # attempt => dEv.of < attempt
      BY <1>8
    <3>3. QED
      BY <1>4, <2>1, <3>1, <3>2 DEF MInv, Armed
  <2>3. Told => Told'
    BY <1>1, <1>3, <2>1 DEF Told
  <2>4. \A e \in Here : e.of = attempt => e \in Here' \/ missed'
    BY <1>4, <1>5, <2>1
  <2>5. missed' => Told'
    BY DEF Told
  <2>6. QED
    BY <1>1, <1>11, <2>2, <2>3, <2>4, <2>5 DEF MInv, Reach
<1>12. QED
  BY <1>1, <1>2, <1>6, <1>7, <1>10, <1>11 DEF MInv

\* What enters the armed channel is a loss of this very link.
LEMMA DiscSendStep ==
  ASSUME MInv, DiscSend
  PROVE  MInv'
<1>1. UNCHANGED <<sup, attempt, mod, modOf, driver, cancelled, disc>>
  BY DispatcherSame DEF Dispatcher
<1>2. TypeOK'
  BY DispatcherType DEF Dispatcher, MInv
<1>3. /\ UNCHANGED <<scanQ, joinRes, dEv, events, late, missed>>
      /\ dpc = "discSend" /\ dpc' = AfterDisc
      /\ discRes' = IF dRef = disc /\ discRes = NoEvent THEN dEv ELSE discRes
  BY DEF DiscSend, queueVars
<1>4. /\ Busy /\ dEv.kind \in Losses /\ dEv \in Here /\ ~Busy'
      /\ (dpc' = "gone" => dEv.kind = "closed") /\ dpc' \in {"take", "gone"}
      /\ dEv # NoEvent
  BY <1>3 DEF Busy, MInv, Hands, Here, Hand, AfterDisc, NoEvent, Losses
<1>5. /\ Here' \subseteq Here /\ Queued' = Queued /\ Late' = Late
      /\ \A e, f : Precedes(e, f)' => Precedes(e, f)
      /\ \A e \in Here : e \in Here' \/ e = dEv
  BY <1>3, <1>4, HandStream
<1>6. Stream' /\ Phases' /\ (~cancelled => Clean')
  BY <1>1, <1>3, <1>5, ShrinkStep
<1>7. dEv.kind = "closed" => driver = "down" /\ events = <<>>
  BY <1>4 DEF MInv, Hands
<1>8. Hands'
  BY <1>1, <1>3, <1>4, <1>5, <1>7 DEF MInv, Hands
<1>9. attempt \in Nat /\ dEv.of \in Nat /\ dEv.of <= attempt
  BY <1>4, QueuedTypes DEF MInv, TypeOK, Stream
<1>10. disc = IF sup = "wait" THEN attempt ELSE None
  BY DEF MInv, Armed
<1>11. ASSUME sup = "wait", ~cancelled, discRes' # NoEvent
       PROVE  LinkDown
  <2>1. CASE discRes # NoEvent
    BY <1>11, <2>1 DEF MInv, Armed
  <2>2. CASE discRes = NoEvent
    <3>1. dEv.of = attempt
      BY <1>4, <1>11 DEF MInv, Clean, InSession, Serving
    <3>2. CASE dEv.kind = "closed"
      BY <1>7, <3>2 DEF LinkDown
    <3>3. CASE dEv.kind \in {"24", "29"}
      <4>1. modOf = attempt => mod = "idle"
        BY <1>4, <3>1, <3>3 DEF MInv, Stream
      <4>2. QED
        BY <4>1 DEF LinkDown
    <3>4. QED
      BY <1>4, <3>2, <3>3 DEF Losses
  <2>3. QED
    BY <2>1, <2>2
<1>12. Armed'
  <2>1. LinkDown' <=> LinkDown
    BY <1>1 DEF LinkDown
  <2>2. dpc' # "discSend"
    BY <1>4
  <2>3. QED
    BY <1>1, <1>4, <1>10, <1>11, <2>1, <2>2 DEF Armed
<1>13. ASSUME ~cancelled
       PROVE  Reach'
  <2>1. Told => Told'
    BY <1>1, <1>3, <1>4 DEF Told
  <2>2. dEv.of = attempt =>
          Told' \/ sup \in {"clear", "clearLast", "renew", "renewLast", "top",
                            "stopped"}
    BY <1>1, <1>3, <1>4, <1>10 DEF MInv, Armed, Told
  <2>3. dpc' = "gone" =>
          Told' \/ sup \in {"clear", "clearLast", "renew", "renewLast", "top",
                            "stopped", "SKRESET", "backoff"}
    <3>1. dEv.of # attempt => dEv.of < attempt
      BY <1>9
    <3>2. QED
      BY <1>4, <2>2, <3>1 DEF MInv, Armed
  <2>4. QED
    BY <1>1, <1>5, <1>13, <2>1, <2>2, <2>3 DEF MInv, Reach
<1>14. QED
  BY <1>1, <1>2, <1>6, <1>8, <1>12, <1>13 DEF MInv

LEMMA EventsClosedStep ==
  ASSUME MInv, EventsClosed
  PROVE  MInv'
<1> DEFINE c == [kind |-> "closed", of |-> attempt]
<1>1. UNCHANGED <<sup, attempt, mod, modOf, driver, cancelled, disc>>
  BY DispatcherSame DEF Dispatcher
<1>2. TypeOK'
  BY DispatcherType DEF Dispatcher, MInv
<1>3. /\ UNCHANGED <<scanQ, joinRes, discRes, events, late, missed>>
      /\ dpc = "take" /\ dpc' = "disc" /\ dEv' = c
      /\ events = <<>> /\ driver = "down"
  BY DEF EventsClosed, Goto, chanVars, queueVars
<1>4. c.kind = "closed" /\ c.of = attempt
  OBVIOUS
<1> HIDE DEF c
<1>5. late = NoEvent
  BY <1>3 DEF MInv, Hands
<1>6. Busy' /\ Queued' = {} /\ Late' = {} /\ Here' = {c}
  BY <1>3, <1>5 DEF Busy, Queued, Late, Here, Hand
<1>7. \A e, f : ~Precedes(e, f)'
  BY <1>3, <1>6 DEF Precedes
<1>8. attempt \in Nat
  BY DEF MInv, TypeOK
<1>9. Stream'
  BY <1>1, <1>4, <1>6, <1>7, <1>8 DEF Stream
<1>10. Hands'
  BY <1>1, <1>3, <1>4, <1>5, <1>6 DEF MInv, Hands, Losses
<1>11. Phases'
  BY <1>1, <1>4, <1>6 DEF MInv, Phases, LinkKinds
<1>12. Armed'
  BY <1>1, <1>3, <1>4, <1>8 DEF MInv, Armed, LinkDown
<1>13. ~cancelled => Clean'
  BY <1>1, <1>3, <1>4, <1>6, <1>7 DEF MInv, Clean, JoinKinds, ScanKinds
<1>14. ~cancelled => Reach'
  BY <1>1, <1>3, <1>4, <1>6 DEF MInv, Reach, Losses
<1>15. QED
  BY <1>1, <1>2, <1>9, <1>10, <1>11, <1>12, <1>13, <1>14 DEF MInv

LEMMA DispatcherStep ==
  ASSUME MInv, Dispatcher \/ Displace
  PROVE  MInv'
<1>1. CASE DispatcherStops
  <2>1. UNCHANGED <<sup, attempt, mod, modOf, driver, cancelled, disc>>
    BY <1>1, DispatcherSame DEF Dispatcher
  <2>2. TypeOK'
    BY <1>1, DispatcherType DEF Dispatcher, MInv
  <2>3. /\ UNCHANGED <<scanQ, joinRes, discRes, dEv, dRef, events, late, missed>>
        /\ dpc = "take" /\ dpc' = "gone" /\ cancelled
    BY <1>1 DEF DispatcherStops, chanVars, queueVars
  <2>4. ~Busy /\ ~Busy' /\ Hand = {} /\ Hand' = {}
    BY <2>3 DEF Busy, Hand
  <2>5. /\ Queued' = Queued /\ Late' = Late /\ Here' = Here
        /\ \A e, f : Precedes(e, f)' => Precedes(e, f)
    BY <2>3, <2>4 DEF Queued, Late, Here, Precedes
  <2>6. Stream' /\ Phases'
    BY <2>1, <2>5, ShrinkStep
  <2>7. Hands' /\ Armed'
    BY <2>1, <2>3, <2>4, <2>5 DEF MInv, Hands, Armed, LinkDown
  <2>8. QED
    BY <2>1, <2>2, <2>3, <2>6, <2>7 DEF MInv
<1>2. QED
  BY <1>1, TakeStep, ScanLoadStep, ScanSendStep, JoinLoadStep, JoinSendStep,
     DiscLoadStep, DiscSendStep, EventsClosedStep, DisplaceStep DEF Dispatcher

-----------------------------------------------------------------------------
(* The module's steps, and the others.                                      *)

\* What the module says agrees with what it was told to do last, and it follows
\* all that it said before.
LEMMA ModuleStep ==
  ASSUME MInv, Module
  PROVE  MInv'
<1>1. /\ UNCHANGED <<supVars, sessVars, chanVars, dispVars, waitVars, driver,
                     modOf, cancelled, missed>>
      /\ driver = "up"
      /\ \E k \in {"epandesc", "21", "22", "24", "25", "29", "udp"} :
           /\ Push(Event(k))
           /\ k \in ScanKinds => mod = "scanning" /\ mod' \in {mod, "idle"}
           /\ k = "25" => mod = "joining" /\ mod' = "linked"
           /\ k \in {"24", "29"} => /\ mod \in {"joining", "linked"}
                                    /\ mod' = "idle"
           /\ k \in {"21", "udp"} => mod' = mod
  BY ModuleFrame
<1>2. PICK k \in {"epandesc", "21", "22", "24", "25", "29", "udp"} :
        /\ Push(Event(k))
        /\ k \in ScanKinds => mod = "scanning" /\ mod' \in {mod, "idle"}
        /\ k = "25" => mod = "joining" /\ mod' = "linked"
        /\ k \in {"24", "29"} => /\ mod \in {"joining", "linked"}
                                 /\ mod' = "idle"
        /\ k \in {"21", "udp"} => mod' = mod
  BY <1>1
<1>3. /\ UNCHANGED <<sup, attempt, modOf, driver, cancelled, disc, discRes, joinRes,
                     scanQ, dpc, dEv, dRef, missed>>
      /\ driver = "up"
  BY <1>1 DEF supVars, chanVars, dispVars
<1>4. TypeOK'
  BY ModuleType DEF MInv
<1> DEFINE ev == Event(k)
<1>5. ev.kind = k /\ ev.of = modOf /\ ev \in EventType /\ k # "none"
  BY <1>2 DEF Event, EventType, Kinds, MInv, TypeOK
<1>6. /\ Here' = Here \cup {ev} /\ Queued' \cup Late' = (Queued \cup Late) \cup {ev}
      /\ \A e, f : Precedes(e, f)' => Precedes(e, f) \/ (e \in Here /\ f = ev)
  BY <1>2, <1>3, <1>5, PushStream DEF MInv
<1> HIDE DEF ev
<1>7. /\ Stream /\ Hands /\ Phases /\ Armed /\ (~cancelled => Clean /\ Reach)
      /\ attempt \in Nat /\ modOf \in Nat /\ \A e \in Here : e.of \in Nat
      /\ mod \in {"idle", "scanning", "joining", "linked"}
  <2>1. /\ attempt \in Nat /\ modOf \in Nat
        /\ mod \in {"idle", "scanning", "joining", "linked"}
    BY BoundsAssumption DEF MInv, TypeOK, Attempts, None
  <2>2. \A e \in Here : e.of \in Nat
    BY QueuedTypes DEF MInv
  <2>3. QED
    BY <2>1, <2>2 DEF MInv
<1>8. ~(Busy /\ dEv.kind = "closed") /\ (Busy' <=> Busy)
  BY <1>3, <1>7 DEF Hands, Busy
<1>9. \A e \in Here : e.kind # "closed"
  BY <1>7, <1>8 DEF Hands, Here, Hand
\* What it says tells what it is doing.
<1>10. /\ mod = "idle" => k \in {"21", "udp"} /\ mod' = "idle"
       /\ mod = "scanning" => k \in ScanKinds \cup {"21", "udp"}
                              /\ mod' \in {"scanning", "idle"}
       /\ mod = "joining" => k \notin ScanKinds /\ mod' \in {"joining", "linked", "idle"}
       /\ mod = "linked" => k \notin ScanKinds /\ k # "25" /\ mod' \in {"linked", "idle"}
       /\ k \in LinkKinds => mod \in {"joining", "linked"}
       /\ mod' = "idle" => mod \in {"idle", "scanning"} \/ k \in {"24", "29"}
  BY <1>2, <1>7 DEF ScanKinds, LinkKinds
<1>11. Stream'
  <2>1. ASSUME NEW e \in Here'
        PROVE  /\ e.kind # "none" /\ e.of <= attempt'
               /\ e.kind # "closed" => e.of <= modOf'
               /\ e.of = modOf' /\ e.kind \in {"24", "29"} => mod' = "idle"
               /\ e.of = modOf' /\ e.kind = "25" => mod' \in {"linked", "idle"}
    <3>1. CASE e \in Here
      BY <1>3, <1>7, <1>10, <3>1 DEF Stream
    <3>2. CASE e = ev
      BY <1>2, <1>3, <1>5, <1>7, <3>2 DEF Phases
    <3>3. QED
      BY <1>6, <3>1, <3>2
  <2>2. ASSUME NEW e \in Here', NEW f \in Here', Precedes(e, f)'
        PROVE  /\ e.of <= f.of
               /\ e.of = f.of /\ e.kind \in LinkKinds => f.kind \notin ScanKinds
    <3>1. CASE e \in Here /\ f = ev
      <4>1. e.of <= ev.of
        BY <1>5, <1>7, <1>9, <3>1 DEF Stream
      <4>2. e.of = modOf /\ e.kind \in LinkKinds => mod \in {"linked", "idle"}
        BY <1>7, <3>1 DEF Stream, LinkKinds
      <4>3. mod \in {"linked", "idle"} => ev.kind \notin ScanKinds
        BY <1>5, <1>10 DEF ScanKinds
      <4>4. QED
        BY <1>5, <3>1, <4>1, <4>2, <4>3
    <3>2. CASE Precedes(e, f)
      <4>1. e \in Here /\ f \in Here
        BY <3>2 DEF Precedes, Here, Queued
      <4>2. QED
        BY <1>7, <3>2, <4>1 DEF Stream
    <3>3. QED
      BY <1>6, <2>2, <3>1, <3>2
  <2>3. QED
    BY <2>1, <2>2 DEF Stream
<1>12. Hands'
  <2>1. \A e \in Queued' \cup Late' : e.kind # "closed"
    BY <1>2, <1>5, <1>6, <1>7 DEF Hands
  <2>2. QED
    BY <1>3, <1>7, <1>8, <2>1 DEF Hands
<1>13. Phases'
  BY <1>3, <1>5, <1>6, <1>7, <1>10 DEF Phases
<1>14. Armed'
  <2>1. sup = "wait" /\ ~cancelled => mod \in {"linked", "idle"}
    BY <1>7 DEF Clean, InSession, Serving
  <2>2. sup = "wait" /\ ~cancelled /\ LinkDown => LinkDown'
    BY <1>3, <1>10, <2>1 DEF LinkDown
  <2>3. QED
    BY <1>3, <1>7, <1>8, <2>2 DEF Armed
<1>15. ASSUME ~cancelled
       PROVE  Clean'
  <2>1. Clean
    BY <1>7, <1>15
  <2>2. k \in JoinKinds => k \in LinkKinds
    BY DEF JoinKinds, LinkKinds
  <2>3. sup \in {"top", "scanning"} \cup Preparing =>
          \A e \in Here : e.kind = "22" => ev.kind \notin JoinKinds
    BY <1>5, <1>7, <1>10, <2>1, <2>2 DEF Clean, Phases, Preparing
  <2>4. sup \in {"top", "scanning"} \cup Preparing =>
          \A e, f \in Here' :
            Precedes(e, f)' /\ e.kind = "22" => f.kind \notin JoinKinds
    <3>1. \A e, f : Precedes(e, f) => e \in Here /\ f \in Here
      BY DEF Precedes, Here, Queued
    <3>2. QED
      BY <1>6, <2>1, <2>3, <3>1 DEF Clean
  <2>5. sup \in {"top", "SKRESET"} =>
          \A e \in Here' : e.kind = "22" => mod' \notin {"joining", "linked"}
    BY <1>2, <1>5, <1>6, <1>7, <1>10, <2>1 DEF Clean, ScanKinds
  <2>6. sup \in {"SKSCAN", "scanning"} \cup Found => ev.kind \notin JoinKinds
    BY <1>5, <1>7, <1>10, <2>2 DEF Phases, Preparing
  <2>7. sup \in {"joining"} \cup InSession => ev.of = attempt
    BY <1>5, <1>7 DEF Phases
  <2>8. mod \in {"linked", "idle"} =>
          mod' \in {"linked", "idle"} /\ ev.kind \notin ScanKinds
    BY <1>5, <1>10 DEF ScanKinds
  <2>9. QED
    BY <1>3, <1>6, <2>1, <2>4, <2>5, <2>6, <2>7, <2>8 DEF Clean
<1>16. ASSUME ~cancelled
       PROVE  Reach'
  <2>1. Reach /\ (Told => Told')
    BY <1>3, <1>7, <1>16 DEF Told
  <2>2. ASSUME sup \in {"joining", "publish", "wake", "arm", "wait"}, mod' = "idle",
               mod # "idle"
        PROVE  ev.kind \in Losses /\ ev.of = attempt
    <3>1. modOf = attempt
      BY <1>7, <2>2 DEF Phases, InSession, Serving
    <3>2. mod # "scanning"
      BY <1>7, <1>16, <2>2 DEF Phases, Clean, InSession, Serving
    <3>3. QED
      BY <1>5, <1>10, <2>2, <3>1, <3>2 DEF Losses
  <2>3. QED
    BY <1>3, <1>6, <2>1, <2>2 DEF Reach
<1>17. QED
  BY <1>3, <1>4, <1>11, <1>12, <1>13, <1>14, <1>15, <1>16 DEF MInv

LEMMA AsideStep ==
  ASSUME MInv, Aside
  PROVE  MInv'
<1>1. /\ UNCHANGED <<supVars, sessVars, chanVars, dpc, dEv, dRef, queueVars,
                     modVars, missed>>
      /\ \/ driver' = driver
         \/ driver = "up" /\ driver' = "down" /\ late = NoEvent
      /\ (cancelled' = cancelled) \/ cancelled'
  BY AsideFrame
<1>2. UNCHANGED <<sup, attempt, mod, modOf, disc, discRes, joinRes, scanQ, dpc, dEv,
                  dRef, events, late, missed>>
  BY <1>1 DEF supVars, chanVars, queueVars, modVars
<1>3. /\ Here' = Here /\ Queued' = Queued /\ Late' = Late /\ (Busy' <=> Busy)
      /\ \A e, f : Precedes(e, f)' <=> Precedes(e, f)
  BY <1>2, HereFrame
<1>4. ~cancelled' => ~cancelled
  BY <1>1
<1>5. driver = "down" => driver' = "down"
  BY <1>1
<1>6. TypeOK'
  BY AsideType DEF MInv
<1>7. Stream' /\ Phases'
  BY <1>2, <1>3, ShrinkStep
<1>8. Hands'
  BY <1>1, <1>2, <1>3, <1>4, <1>5 DEF MInv, Hands
<1>9. Armed'
  BY <1>2, <1>3, <1>4, <1>5 DEF MInv, Armed, LinkDown
<1>10. ~cancelled' => Clean' /\ Reach'
  <2>1. ~cancelled' => Clean'
    BY <1>2, <1>3, <1>4, ShrinkStep
  <2>2. ~cancelled' => Reach'
    BY <1>2, <1>3, <1>4 DEF MInv, Reach, Told
  <2>3. QED
    BY <2>1, <2>2
<1>11. QED
  BY <1>6, <1>7, <1>8, <1>9, <1>10 DEF MInv

LEMMA MInvInit == Init => MInv
<1> SUFFICES ASSUME Init PROVE MInv
  OBVIOUS
<1>1. Hand = {} /\ Queued = {} /\ Late = {} /\ ~Busy /\ Here = {}
  BY DEF Init, Hand, Queued, Late, Busy, Here
<1>2. TypeOK
  BY TypeInit
<1>3. Stream /\ Hands
  BY <1>1 DEF Init, Stream, Hands
<1>4. Phases /\ Armed
  BY <1>1 DEF Init, Phases, Armed, Preparing, Found, InSession, Serving, None
<1>5. Clean /\ Reach
  BY <1>1 DEF Init, Clean, Reach, Preparing, Found, InSession, Serving
<1>6. QED
  BY <1>2, <1>3, <1>4, <1>5 DEF MInv

LEMMA MInvNext == MInv /\ [Next]_vars => MInv'
<1> SUFFICES ASSUME MInv, [Next]_vars PROVE MInv'
  OBVIOUS
<1>1. CASE Supervisor
  <2>1. TypeOK' /\ Stream' /\ Hands' /\ Phases' /\ Armed'
    BY <1>1, SupervisorType, SupervisorStream, SupervisorPhases, SupervisorReach
       DEF MInv
  <2>2. ~cancelled' => Clean' /\ Reach'
    <3>1. cancelled' = cancelled
      BY <1>1, SupervisorFrame
    <3>2. QED
      BY <1>1, <3>1, SupervisorClean, SupervisorReach
  <2>3. QED
    BY <2>1, <2>2 DEF MInv
<1>2. CASE Dispatcher \/ Displace
  BY <1>2, DispatcherStep
<1>3. CASE Module
  BY <1>3, ModuleStep
<1>4. CASE Aside
  BY <1>4, AsideStep
<1>5. QED
  BY <1>1, <1>2, <1>3, <1>4 DEF Next, Aside

-----------------------------------------------------------------------------
(* The theorems.                                                            *)

\* The inductive invariant: the order of the events on their way, what the
\* module does and has said, and who has been told of a loss.
THEOREM MInvCorrect == Spec => []MInv
BY MInvInit, MInvNext, PTL DEF Spec

\* A join succeeds only by an EVENT 25 the module sent for this very attempt
\* (connect.go:225-256, manager.go:374-385).
THEOREM OwnOutcomeCorrect == Spec => []OwnOutcome
<1>1. MInv => OwnOutcome
  BY DEF MInv, Clean, OwnOutcome, InSession
<1>2. QED
  BY <1>1, MInvCorrect, PTL

\* A session is only torn down when its link or the driver has really ended
\* (manager.go:252-281, 326-337).
THEOREM OnlyRealLossCorrect == Spec => []OnlyRealLoss
<1>1. MInv => OnlyRealLoss
  BY DEF MInv, Armed, OnlyRealLoss
<1>2. QED
  BY <1>1, MInvCorrect, PTL

\* A supervisor that waits on a session whose link has ended has the loss, or
\* will be handed it, but for one dealt with before the channel was armed, or
\* evicted (manager.go:252-281, driver.go:382-390).
THEOREM LossReachesArmedCorrect == Spec => []LossReachesArmed
<1>1. ASSUME MInv, sup = "wait", LinkDown, ~missed, ~cancelled
      PROVE  LossOnItsWay
  <2>1. CASE driver = "down"
    <3>1. dpc = "gone" => Told
      BY <1>1 DEF MInv, Reach
    <3>2. QED
      BY <1>1, <2>1, <3>1 DEF Told, LossOnItsWay
  <2>2. CASE driver # "down"
    <3>1. mod = "idle"
      BY <1>1, <2>2 DEF MInv, LinkDown, Phases, Clean, InSession, Serving
    <3>2. Told \/ \E e \in Here : e.kind \in Losses
      BY <1>1, <3>1 DEF MInv, Reach
    <3>3. CASE Told
      BY <1>1, <3>3 DEF Told, LossOnItsWay
    <3>4. CASE \E e \in Here : e.kind \in Losses
      <4>1. PICK e \in Here : e.kind \in Losses
        BY <3>4
      <4>2. CASE e \in Hand
        <5>1. Busy /\ e = dEv /\ dpc \notin {"scan", "scanSend"}
          BY <1>1, <4>1, <4>2 DEF Hand, MInv, Hands, ScanKinds, Losses
        <5>2. QED
          BY <4>1, <5>1 DEF Busy, LossOnItsWay
      <4>3. CASE e \in Queued \cup Late
        BY <4>1, <4>3 DEF Queued, Late, LossOnItsWay
      <4>4. QED
        BY <4>1, <4>2, <4>3 DEF Here
    <3>5. QED
      BY <3>2, <3>3, <3>4
  <2>3. QED
    BY <2>1, <2>2
<1>2. MInv => LossReachesArmed
  BY <1>1 DEF LossReachesArmed
<1>3. QED
  BY <1>2, MInvCorrect, PTL
=============================================================================
