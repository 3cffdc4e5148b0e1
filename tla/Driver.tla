------------------------------- MODULE Driver -------------------------------
(***************************************************************************)
(* The serial driver of the BP35C2 module: internal/bp35c2/driver.go.      *)
(*                                                                         *)
(* Callers of Command are serialised by cmdMu; each posts its pendingCmd,  *)
(* writes its line and waits for the terminator, its context or the end of *)
(* the driver.  One reader goroutine parses the lines of the serial port:  *)
(* a terminator completes whatever command is pending, everything          *)
(* asynchronous goes to a buffered event channel that drops its oldest     *)
(* entry when full.                                                        *)
(*                                                                         *)
(* A request is a number, given in the order of the calls, so that a line  *)
(* of the module can name the request (or the event) it belongs to.  The   *)
(* text of a line, the reply text and the error code are abstracted away.  *)
(*                                                                         *)
(* A definition named X_Slip... is X with one plausible programming error; *)
(* no specification uses it, it only shows which property would notice.    *)
(***************************************************************************)
EXTENDS Integers, Sequences

CONSTANTS
  Callers,     \* goroutines that call Command
  EventCap,    \* capacity of the events channel (New's eventBuf, 64 in main)
  Failures,    \* how the port may fail: a subset of {"eof", "err"}
  MaxCalls,    \* bound on the calls of Command
  MaxEvents    \* bound on the events and blocks the module emits

ASSUME EventCapAssumption == EventCap \in Nat \ {0}
ASSUME FailuresAssumption == Failures \subseteq {"eof", "err"}
ASSUME MaxCallsAssumption == MaxCalls \in Nat
ASSUME MaxEventsAssumption == MaxEvents \in Nat

Requests == 1 .. MaxCalls
None == 0                      \* nil: no request, no event, no block
NoResult == [kind |-> "none", of |-> None, lines |-> {}]
Failed(k) == [kind |-> k, of |-> None, lines |-> {}]

\* What the done channel may hold and what else a Command may return.  `of` is
\* the request whose terminator it is, `lines` the response lines before it.
BodyLines == [kind : {"echo", "info"}, of : Requests]
Completions == [kind : {"none", "ok", "fail", "closed"},
                of : Requests \cup {None}, lines : SUBSET BodyLines]
Results == Completions \cup {Failed(k) : k \in {"timeout", "busy", "write"}}

VARIABLES
  pc, req, ret,                \* each caller: step, request, outcome
  calls,                       \* number of requests made so far
  holder,                      \* cmdMu: the caller that holds it
  pending,                     \* d.pending: the request it points to
  resp, done,                  \* pendingCmd.resp and the done channel (cap 1)
  inbox, sending,              \* the module: commands received, the rest of
                               \* the answer it is giving
  serial, emitted,             \* the lines on the port, the events sent
  rpc, hold, reply, epan,      \* the reader: step, event and reply in hand
  events,                      \* the event channel
  pushed,                      \* the last event given to pushEvent
  closed, closer, port,        \* close(d.closed), closeOnce, the serial port
  tainted                      \* history: posted with an older answer in flight

callerVars == <<pc, req, ret, calls>>
cmdVars    == <<pending, resp, done>>
moduleVars == <<inbox, sending, serial, emitted>>
readerVars == <<rpc, hold, reply, epan, events, pushed>>
closeVars  == <<closed, closer, port>>
vars == <<callerVars, holder, cmdVars, moduleVars, readerVars, closeVars,
          tainted>>

Line(k, n) == [kind |-> k, of |-> n]
Terminators == {"ok", "fail"}
Answers == {"echo", "info"} \cup Terminators

Init ==
  /\ pc = [c \in Callers |-> "idle"]
  /\ req = [c \in Callers |-> None]
  /\ ret = [c \in Callers |-> NoResult]
  /\ calls = 0
  /\ holder = {}
  /\ pending = None
  /\ resp = [r \in Requests |-> {}]
  /\ done = [r \in Requests |-> NoResult]
  /\ inbox = <<>> /\ sending = <<>> /\ serial = <<>> /\ emitted = 0
  /\ rpc = "read" /\ hold = None /\ epan = None
  /\ reply = [to |-> None, res |-> NoResult]
  /\ events = <<>> /\ pushed = 0
  /\ closed = FALSE /\ closer = "nobody" /\ port = "ok"
  /\ tainted = {}

-----------------------------------------------------------------------------
(* Command.  Every return clears d.pending if it is still its own (the      *)
(* deferred function registered last runs first), then unlocks cmdMu.       *)

Call(c) ==
  /\ pc[c] = "idle" /\ calls < MaxCalls
  /\ calls' = calls + 1
  /\ req' = [req EXCEPT ![c] = calls + 1]
  /\ ret' = [ret EXCEPT ![c] = NoResult]
  /\ pc' = [pc EXCEPT ![c] = "lock"]
  /\ UNCHANGED <<holder, cmdVars, moduleVars, readerVars, closeVars, tainted>>

Free_SlipUnlocked == TRUE
Free == holder = {}                       \* cmdMu is not held

\* The early return of a closed driver goes through the deferred unlock.
AfterLock_SlipNoUnlock == IF closed THEN "idle" ELSE "post"
AfterLock == IF closed THEN "unlock" ELSE "post"

\* cmdMu.Lock and the check of d.closed; the context is not looked at, so a
\* call whose deadline has passed while it waited here still writes.
Lock(c) ==
  /\ pc[c] = "lock" /\ Free
  /\ holder' = {c}
  /\ ret' = IF closed THEN [ret EXCEPT ![c] = Failed("closed")] ELSE ret
  /\ pc' = [pc EXCEPT ![c] = AfterLock]
  /\ UNCHANGED <<req, calls, cmdVars, moduleVars, readerVars,
                 closeVars, tainted>>

\* Requests whose answer the module has still to give, or to end, or the reader
\* to parse.
Owners(s) == {s[i].of : i \in {j \in DOMAIN s : s[j].kind \in Answers}}
InFlight ==
  {inbox[i] : i \in DOMAIN inbox} \cup Owners(sending) \cup Owners(serial)

Post(c) ==
  /\ pc[c] = "post"
  /\ IF pending # None
     THEN /\ ret' = [ret EXCEPT ![c] = Failed("busy")]
          /\ pc' = [pc EXCEPT ![c] = "unlock"]
          /\ UNCHANGED <<pending, tainted>>
     ELSE /\ pending' = req[c]
          /\ tainted' = IF InFlight = {} THEN tainted
                                         ELSE tainted \cup {req[c]}
          /\ pc' = [pc EXCEPT ![c] = "write"]
          /\ UNCHANGED ret
  /\ UNCHANGED <<req, calls, holder, resp, done, moduleVars,
                 readerVars, closeVars>>

\* writeCommand: one write, not aware of the context.
Write(c) ==
  /\ pc[c] = "write"
  /\ \/ /\ port \in {"ok", "eof"}
        /\ inbox' = Append(inbox, req[c])
        /\ pc' = [pc EXCEPT ![c] = "wait"]
        /\ UNCHANGED ret
     \/ /\ port # "ok"
        /\ ret' = [ret EXCEPT ![c] = Failed("write")]
        /\ pc' = [pc EXCEPT ![c] = "clear"]
        /\ UNCHANGED inbox
  /\ UNCHANGED <<req, calls, holder, cmdVars, sending, serial, emitted,
                 readerVars, closeVars, tainted>>

\* The three cases of the select; when several are ready Go takes any.
WaitDone(c) ==
  /\ pc[c] = "wait" /\ done[req[c]] # NoResult
  /\ ret' = [ret EXCEPT ![c] = done[req[c]]]
  /\ done' = [done EXCEPT ![req[c]] = NoResult]
  /\ pc' = [pc EXCEPT ![c] = "clear"]
  /\ UNCHANGED <<req, calls, holder, pending, resp, moduleVars,
                 readerVars, closeVars, tainted>>

Abort(c, kind) ==
  /\ pc[c] = "wait"
  /\ ret' = [ret EXCEPT ![c] = Failed(kind)]
  /\ pc' = [pc EXCEPT ![c] = "clear"]
  /\ UNCHANGED <<req, calls, holder, cmdVars, moduleVars, readerVars, closeVars,
                 tainted>>

WaitClosed(c) == closed /\ Abort(c, "closed")

\* Only this select looks at the context, so that one which expired earlier,
\* while the caller waited for cmdMu or wrote, is one that expires at once.
WaitTimeout_SlipNoCase(c) == FALSE
WaitTimeout(c) == Abort(c, "timeout")

\* The deferred function: d.pending is cleared if it is still this command.
Cleared_SlipKept(c) == pending
Cleared(c) == IF pending = req[c] THEN None ELSE pending

ClearPending(c) ==
  /\ pc[c] = "clear"
  /\ pending' = Cleared(c)
  /\ pc' = [pc EXCEPT ![c] = "unlock"]
  /\ UNCHANGED <<req, ret, calls, holder, resp, done, moduleVars,
                 readerVars, closeVars, tainted>>

Unlock(c) ==
  /\ pc[c] = "unlock"
  /\ holder' = {}
  /\ pc' = [pc EXCEPT ![c] = "idle"]
  /\ UNCHANGED <<req, ret, calls, cmdVars, moduleVars, readerVars,
                 closeVars, tainted>>

-----------------------------------------------------------------------------
(* The module at the other end of the cable (external).  It answers the     *)
(* commands in order, line by line: with an echo, a response line and OK,   *)
(* with FAIL at once, or not at all.  It emits events at any time, also     *)
(* between two lines of an answer.                                          *)

Scripts(r) == { <<>>,
                <<Line("echo", r), Line("info", r), Line("ok", r)>>,
                <<Line("fail", r)>> }

Answer ==
  /\ port = "ok" /\ inbox # <<>> /\ sending = <<>>
  /\ sending' \in Scripts(Head(inbox))
  /\ inbox' = Tail(inbox)
  /\ UNCHANGED <<callerVars, holder, cmdVars, serial, emitted, readerVars,
                 closeVars, tainted>>

SendLine ==
  /\ port = "ok" /\ sending # <<>>
  /\ serial' = Append(serial, Head(sending))
  /\ sending' = Tail(sending)
  /\ UNCHANGED <<callerVars, holder, cmdVars, inbox, emitted, readerVars,
                 closeVars, tainted>>

\* An EVENT or ERXUDP line, or an EPANDESC block: a header and indented rows.
Emit ==
  /\ port = "ok" /\ emitted < MaxEvents
  /\ emitted' = emitted + 1
  /\ \E s \in { <<Line("event", emitted + 1)>>,
                <<Line("epan", emitted + 1), Line("row", emitted + 1)>> } :
       serial' = serial \o s
  /\ UNCHANGED <<callerVars, holder, cmdVars, inbox, sending, readerVars,
                 closeVars, tainted>>

PortFails ==
  /\ port = "ok"
  /\ port' \in Failures
  /\ UNCHANGED <<callerVars, holder, cmdVars, moduleVars, readerVars, closed,
                 closer, tainted>>

-----------------------------------------------------------------------------
(* readLoop and handleLine.                                                 *)

\* The reader is at scanner.Scan and the next line is of one of these kinds.
NextLine(kinds) == rpc = "read" /\ serial # <<>> /\ Head(serial).kind \in kinds

\* No block is open.  While one is, its next line is looked at only after it.
NoBlock_SlipLate == TRUE
NoBlock == epan = None

Push(n) == hold' = n /\ pushed' = n /\ rpc' = "push"

\* A line that is not indented ends an open block: its event is pushed before
\* the line itself, which stays at the head, is looked at.
FlushBlock ==
  /\ epan # None /\ NextLine(Answers \cup {"event", "epan"})
  /\ Push(epan)
  /\ epan' = None
  /\ UNCHANGED <<callerVars, holder, cmdVars, moduleVars, reply, events,
                 closeVars, tainted>>

ReadRow ==
  /\ epan # None /\ NextLine({"row"})
  /\ serial' = Tail(serial)
  /\ UNCHANGED <<callerVars, holder, cmdVars, inbox, sending, emitted,
                 readerVars, closeVars, tainted>>

ReadHeader ==
  /\ NoBlock /\ NextLine({"epan"})
  /\ epan' = Head(serial).of
  /\ serial' = Tail(serial)
  /\ UNCHANGED <<callerVars, holder, cmdVars, inbox, sending, emitted, rpc,
                 hold, reply, events, pushed, closeVars, tainted>>

ReadEvent ==
  /\ NoBlock /\ NextLine({"event"})
  /\ Push(Head(serial).of)
  /\ serial' = Tail(serial)
  /\ UNCHANGED <<callerVars, holder, cmdVars, inbox, sending, emitted, reply,
                 epan, events, closeVars, tainted>>

\* completePending takes the pending command under the lock, if there is one ...
Taken_SlipLeft == pending
Taken == None

ReadTerminator ==
  /\ NoBlock /\ NextLine(Terminators)
  /\ LET l == Head(serial) IN
       IF pending = None
       THEN UNCHANGED <<rpc, reply, pending>>
       ELSE /\ reply' = [to |-> pending,
                         res |-> [kind |-> l.kind, of |-> l.of,
                                  lines |-> resp[pending]]]
            /\ pending' = Taken
            /\ rpc' = "reply"
  /\ serial' = Tail(serial)
  /\ UNCHANGED <<callerVars, holder, resp, done, inbox, sending, emitted, hold,
                 epan, events, pushed, closeVars, tainted>>

\* ... and sends to its done channel after it, or drops a second result.
Addressee_SlipReread == IF pending = None THEN reply.to ELSE pending
Addressee == reply.to

Reply ==
  /\ rpc = "reply"
  /\ done' = [done EXCEPT ![Addressee] = IF @ = NoResult THEN reply.res ELSE @]
  /\ reply' = [to |-> None, res |-> NoResult]
  /\ rpc' = "read"
  /\ UNCHANGED <<callerVars, holder, pending, resp, moduleVars, hold, epan,
                 events, pushed, closeVars, tainted>>

\* Anything that is no terminator, block or event: the echo of the pending
\* command is skipped, another line is a response line of it, and without a
\* pending command it is discarded.
Body_SlipEvents == {"echo", "info", "event"}
Body == {"echo", "info"}

ReadBody ==
  /\ NoBlock /\ NextLine(Body)
  /\ LET l == Head(serial) IN
       IF pending = None \/ l = Line("echo", pending)
       THEN UNCHANGED resp
       ELSE resp' = [resp EXCEPT ![pending] = @ \cup {l}]
  /\ serial' = Tail(serial)
  /\ UNCHANGED <<callerVars, holder, pending, done, inbox, sending, emitted,
                 readerVars, closeVars, tainted>>

\* The second select of pushEvent receives the oldest event, if any is left.
Evicted_SlipNone == events
Evicted_SlipNewest == SubSeq(events, 1, Len(events) - 1)
Evicted == IF events = <<>> THEN events ELSE Tail(events)

\* pushEvent: three selects, none of which blocks.
PushEvent ==
  \/ /\ rpc = "push" /\ Len(events) < EventCap
     /\ events' = Append(events, hold) /\ rpc' = "read" /\ hold' = None
  \/ /\ rpc = "push" /\ Len(events) >= EventCap
     /\ rpc' = "evict" /\ UNCHANGED <<events, hold>>
  \/ /\ rpc = "evict"
     /\ events' = Evicted
     /\ rpc' = "send" /\ UNCHANGED hold
  \/ /\ rpc = "send"
     /\ events' = IF Len(events) < EventCap THEN Append(events, hold)
                                            ELSE events
     /\ rpc' = "read" /\ hold' = None

ReaderPush ==
  /\ PushEvent
  /\ UNCHANGED <<callerVars, holder, cmdVars, moduleVars, reply, epan, pushed,
                 closeVars, tainted>>

\* closeOnce: whoever closes d.closed leaves nothing for a later Close to do.
OnceByReader_SlipPlainClose == UNCHANGED closer
OnceByReader == closer' = "done"

\* The scan loop ends: at end of file once the data is used up, on an error of
\* the port (its own or because it was closed) at once.  Only an error is
\* reported by scanner.Err, so only an error closes the driver.
EndScan ==
  /\ rpc = "read"
  /\ \/ port = "eof" /\ serial = <<>>
     \/ port \in {"err", "closed"}
  /\ rpc' = "fin"
  /\ IF port # "eof" /\ ~closed
     THEN closed' = TRUE /\ OnceByReader /\ port' = "closed"
     ELSE UNCHANGED closeVars
  /\ UNCHANGED <<callerVars, holder, cmdVars, moduleVars, hold, reply, epan,
                 events, pushed, tainted>>

\* d.pending.done <- ErrClosed, or nothing if its buffer is taken.
FlushPending ==
  /\ done' = IF pending = None THEN done
             ELSE [done EXCEPT ![pending] =
                     IF @ = NoResult THEN Failed("closed") ELSE @]
  /\ pending' = None

\* The deferred function of readLoop; rpc = "gone" stands for close(d.events).
ReaderExit ==
  /\ rpc = "fin"
  /\ FlushPending
  /\ rpc' = "gone"
  /\ UNCHANGED <<callerVars, holder, resp, moduleVars, hold, reply, epan,
                 events, pushed, closeVars, tainted>>

-----------------------------------------------------------------------------
(* Close, once: close(d.closed), rw.Close, then the pending command.        *)

CloseStep(from, to) == closer = from /\ closer' = to

CloseMark ==
  /\ CloseStep("nobody", "marked")
  /\ closed' = TRUE
  /\ UNCHANGED <<callerVars, holder, cmdVars, moduleVars, readerVars, port,
                 tainted>>

PortOnClose_SlipOpen == port
PortOnClose == "closed"

ClosePort ==
  /\ CloseStep("marked", "port")
  /\ port' = PortOnClose
  /\ UNCHANGED <<callerVars, holder, cmdVars, moduleVars, readerVars, closed,
                 tainted>>

CloseFlush ==
  /\ CloseStep("port", "done")
  /\ FlushPending
  /\ UNCHANGED <<callerVars, holder, resp, moduleVars, readerVars, closed,
                 port, tainted>>

\* The consumer of Events (the manager's dispatcher) takes the oldest event.
Consume ==
  /\ events # <<>>
  /\ events' = Tail(events)
  /\ UNCHANGED <<callerVars, holder, cmdVars, moduleVars, rpc, hold, reply,
                 epan, pushed, closeVars, tainted>>

-----------------------------------------------------------------------------
CommandStep(c) ==
  \/ Post(c) \/ Write(c) \/ WaitDone(c) \/ WaitClosed(c)
  \/ ClearPending(c) \/ Unlock(c)

ReaderStep ==
  \/ FlushBlock \/ ReadRow \/ ReadHeader \/ ReadEvent \/ ReadTerminator
  \/ Reply \/ ReadBody \/ ReaderPush \/ EndScan \/ ReaderExit

ModuleStep == Answer \/ SendLine \/ Emit \/ PortFails

Next ==
  \/ \E c \in Callers : Call(c) \/ Lock(c) \/ CommandStep(c) \/ WaitTimeout(c)
  \/ ReaderStep
  \/ ModuleStep
  \/ CloseMark \/ ClosePort \/ CloseFlush
  \/ Consume

Spec == Init /\ [][Next]_vars

\* A goroutine that can run does run, and a Go mutex in starvation mode serves
\* its waiters in order.  Nothing is assumed of the module or the consumer.
GoFairness ==
  /\ \A c \in Callers : WF_vars(CommandStep(c)) /\ SF_vars(Lock(c))
  /\ WF_vars(ReaderStep)
  /\ WF_vars(ClosePort \/ CloseFlush)

\* Every caller in the program gives Command a context with a deadline.
DeadlineFairness == \A c \in Callers : WF_vars(WaitTimeout(c))

FairSpec == Spec /\ GoFairness

-----------------------------------------------------------------------------
(* Properties.                                                              *)

Steps == {"idle", "lock", "post", "write", "wait", "clear", "unlock"}

AnswerLines == [kind : Answers, of : Requests]
Lines == AnswerLines \cup
         [kind : {"event", "epan", "row"}, of : 1 .. MaxEvents]

CallerType ==
  /\ pc \in [Callers -> Steps]
  /\ req \in [Callers -> Requests \cup {None}]
  /\ ret \in [Callers -> Results]
  /\ calls \in 0 .. MaxCalls
  /\ holder \in SUBSET Callers
  /\ \A c \in Callers : pc[c] # "idle" => req[c] \in Requests

CmdType ==
  /\ pending \in Requests \cup {None}
  /\ resp \in [Requests -> SUBSET BodyLines]
  /\ done \in [Requests -> Completions]
  /\ tainted \in SUBSET Requests

ModuleType ==
  /\ inbox \in Seq(Requests)
  /\ sending \in Seq(AnswerLines)
  /\ serial \in Seq(Lines)
  /\ emitted \in 0 .. MaxEvents

ReaderType ==
  /\ rpc \in {"read", "push", "evict", "send", "reply", "fin", "gone"}
  /\ hold \in 0 .. MaxEvents
  /\ epan \in 0 .. MaxEvents
  /\ reply \in [to : Requests \cup {None}, res : Completions]
  /\ events \in Seq(1 .. MaxEvents) /\ Len(events) <= EventCap
  /\ pushed \in 0 .. MaxEvents
  /\ rpc = "reply" => reply.to \in Requests
  /\ rpc \in {"push", "evict", "send"} <=> hold # None

CloseType ==
  /\ closed \in BOOLEAN
  /\ closer \in {"nobody", "marked", "port", "done"}
  /\ port \in {"ok", "eof", "err", "closed"}
  /\ closed = (closer # "nobody")

\* The types of the variables, the capacity of the event channel, what the
\* reader holds at each of its steps and the agreement of the flags that
\* closeOnce sets (driver.go:62-87, 122-124, 268-270).
TypeOK == CallerType /\ CmdType /\ ModuleType /\ ReaderType /\ CloseType

\* ErrBusy (driver.go:182) is never returned: however a call ends, its pending
\* command is gone before cmdMu lets the next caller in.
NeverBusy == \A c \in Callers : ret[c].kind # "busy"

\* The terminator the reader has in hand always finds the done channel empty
\* (the default of driver.go:374 is dead): nobody else completes a command the
\* reader has taken, not Close, not the reader's own exit, not a late line.
ResultNotDropped == rpc = "reply" => done[reply.to] = NoResult

Matches(r, res) ==
  res.kind \in Terminators =>
    res.of = r /\ res.lines \subseteq {Line("info", r)}

\* A call posted when no older answer was on its way gets its own terminator
\* and no lines but its own response lines (driver.go:298-376): its echo, an
\* event or a scan block that falls between the lines of its answer, Close and
\* the other callers never get into it.
MatchUnlessTainted ==
  /\ \A r \in Requests \ tainted : Matches(r, done[r])
  /\ \A c \in Callers : req[c] \notin tainted => Matches(req[c], ret[c])

\* What the comment on cmdMu says (driver.go:69-70): the reader attributes
\* lines to the right request.  Violated: the late answer of a call that timed
\* out completes the next one.
AnswerMatches == \A c \in Callers : Matches(req[c], ret[c])

\* After an eviction there is room: the event that made pushEvent drop the
\* oldest one is itself never lost (driver.go:387-390).
EvictionMakesRoom == rpc = "send" => Len(events) < EventCap

\* The event channel as its consumer sees it: an event has its place from the
\* moment room was made for it, and the reader has it in hand before.
Queue == INSTANCE EventQueue WITH
           Cap     <- EventCap,
           queue   <- IF rpc = "send" THEN Append(events, hold) ELSE events,
           entered <- IF rpc \in {"push", "evict"} THEN pushed - 1 ELSE pushed,
           crowded <- rpc = "evict"

\* The reader, pushEvent and the consumer implement that queue
\* (driver.go:300-340, 378-392): no event is skipped or overtaken, although an
\* EPANDESC block is held back until the line after it, and under load the
\* oldest event goes, never the newest and never two for one.
EventsImplementQueue == Queue!Spec

-----------------------------------------------------------------------------
(* The inductive invariant behind the three properties of the hand-over.    *)

Inside == {"post", "write", "wait", "clear", "unlock"}
Posted == {"write", "wait", "clear"}

\* cmdMu, and who answers for d.pending.
HandOver ==
  /\ \A c \in Callers : pc[c] \in Inside => holder = {c}
  /\ pending # None =>
       \E c \in Callers : pc[c] \in Posted /\ req[c] = pending
  /\ NeverBusy

Fresh(r) ==
  done[r] = NoResult /\ resp[r] = {} /\ pending # r /\ reply.to # r

\* A request is completed by whoever takes it out of d.pending, once.
OneCompleter ==
  /\ \A r \in Requests : r > calls => Fresh(r) /\ \A c \in Callers : req[c] # r
  /\ \A c \in Callers : pc[c] \in {"lock", "post"} => Fresh(req[c])
  /\ \A c, d \in Callers : c # d /\ req[c] = req[d] => req[c] = None
  /\ pending # None => done[pending] = NoResult
  /\ rpc = "reply" => done[reply.to] = NoResult /\ pending # reply.to

\* While an untainted command is pending, every answer on its way is its own.
Attribution ==
  /\ pending \notin tainted \cup {None} => InFlight \subseteq {pending}
  /\ \A r \in Requests \ tainted : resp[r] \subseteq {Line("info", r)}
  /\ rpc = "reply" /\ reply.to \notin tainted => Matches(reply.to, reply.res)
  /\ MatchUnlessTainted

\* The three together, by which the reader and the callers agree on whose
\* command is pending at every step (driver.go:170-214, 298-376).
DriverInv == HandOver /\ OneCompleter /\ Attribution

-----------------------------------------------------------------------------
\* Every Command returns in the end if every context expires in the end,
\* however the callers, the reader, Close and the end of the port interleave,
\* and whoever queues for cmdMu before it (driver.go:170-214).  Not by its own
\* deadline: that ends only the wait for the module, and the one for cmdMu
\* lasts as long as the calls before it take.
CallReturns ==
  DeadlineFairness => \A c \in Callers : pc[c] = "lock" ~> pc[c] = "idle"

\* Once the driver is closed every call returns without the help of a deadline,
\* also one that passed the check of d.closed before Close and posted after
\* Close had flushed, and every caller queued behind it (driver.go:171-213).
CloseUnblocks == \A c \in Callers : closed /\ pc[c] # "idle" ~> pc[c] = "idle"

\* A closed driver ends its reader and with it the event channel, on which the
\* manager's dispatcher relies to end (driver.go:121-125, 231-243).
ReaderEnds == closed ~> rpc = "gone"
=============================================================================
