---------------------------- MODULE DriverProofs ----------------------------
(* Proofs about the serial driver, for any number of callers, calls and     *)
(* events and any capacity of the event channel.                            *)
EXTENDS Driver, SequenceTheorems, TLAPS

-----------------------------------------------------------------------------
(* Type correctness, one group of variables at a time.                      *)

LEMMA ResultTypes ==
  /\ NoResult \in Completions /\ Failed("closed") \in Completions
  /\ Completions \subseteq Results
  /\ \A k \in {"timeout", "busy", "write"} : Failed(k) \in Results
  /\ \A k \in {"closed", "timeout", "write"} : Failed(k).kind # "busy"
  /\ \A x \in Completions : x.kind # "busy"
  /\ None \notin Requests
BY DEF NoResult, Completions, Results, Failed, Requests, None

LEMMA TypeInit == Init => TypeOK
<1> SUFFICES ASSUME Init PROVE TypeOK
  OBVIOUS
<1> USE DEF Init
<1>1. CallerType
  BY MaxCallsAssumption, ResultTypes DEF CallerType, Steps
<1>2. CmdType
  BY ResultTypes DEF CmdType
<1>3. ModuleType
  BY MaxEventsAssumption DEF ModuleType
<1>4. ReaderType
  BY EventCapAssumption, MaxEventsAssumption, ResultTypes DEF ReaderType, None
<1>5. CloseType
  BY DEF CloseType
<1>6. QED
  BY <1>1, <1>2, <1>3, <1>4, <1>5 DEF TypeOK

\* A step that leaves the variables of a group alone keeps its types.
LEMMA TypeFrame ==
  ASSUME TypeOK
  PROVE  /\ UNCHANGED <<callerVars, holder>> => CallerType'
         /\ UNCHANGED <<cmdVars, tainted>> => CmdType'
         /\ UNCHANGED moduleVars => ModuleType'
         /\ UNCHANGED readerVars => ReaderType'
         /\ UNCHANGED closeVars => CloseType'
BY DEF TypeOK, CallerType, CmdType, ModuleType, ReaderType, CloseType,
       callerVars, cmdVars, moduleVars, readerVars, closeVars

LEMMA TypeCommand ==
  ASSUME TypeOK, NEW c \in Callers, Call(c) \/ Lock(c) \/ CommandStep(c)
                                    \/ WaitTimeout(c)
  PROVE  TypeOK'
<1> USE DEF TypeOK
<1>1. CASE Call(c)
  <2>1. calls + 1 \in Requests /\ calls' \in 0 .. MaxCalls
    BY <1>1, MaxCallsAssumption DEF Call, CallerType, Requests
  <2>2. CallerType'
    BY <1>1, <2>1, ResultTypes DEF Call, CallerType, Steps
  <2>3. QED
    BY <1>1, <2>2, TypeFrame DEF Call
<1>2. CASE Lock(c)
  <2>1. CallerType'
    BY <1>2, ResultTypes DEF Lock, Free, AfterLock, CallerType, Steps
  <2>2. QED
    BY <1>2, <2>1, TypeFrame DEF Lock, Free, AfterLock
<1>3. CASE Post(c)
  <2>1. CallerType'
    BY <1>3, ResultTypes DEF Post, CallerType, Steps
  <2>2. CmdType'
    BY <1>3 DEF Post, CallerType, CmdType
  <2>3. QED
    BY <1>3, <2>1, <2>2, TypeFrame DEF Post
<1>4. CASE Write(c)
  <2>1. CallerType'
    BY <1>4, ResultTypes DEF Write, CallerType, Steps
  <2>2. ModuleType'
    <3>1. req[c] \in Requests
      BY <1>4 DEF Write, CallerType
    <3>2. Append(inbox, req[c]) \in Seq(Requests)
      BY <3>1, AppendProperties DEF ModuleType
    <3>3. QED
      BY <1>4, <3>2 DEF Write, ModuleType
  <2>3. QED
    BY <1>4, <2>1, <2>2, TypeFrame DEF Write
<1>5. CASE WaitDone(c)
  <2>1. CallerType'
    BY <1>5, ResultTypes DEF WaitDone, CallerType, CmdType, Steps
  <2>2. CmdType'
    BY <1>5, ResultTypes DEF WaitDone, CmdType
  <2>3. QED
    BY <1>5, <2>1, <2>2, TypeFrame DEF WaitDone
<1>6. CASE WaitClosed(c) \/ WaitTimeout(c)
  <2>1. CallerType'
    BY <1>6, ResultTypes DEF WaitClosed, WaitTimeout, Abort, CallerType, Steps
  <2>2. QED
    BY <1>6, <2>1, TypeFrame DEF WaitClosed, WaitTimeout, Abort
<1>7. CASE ClearPending(c)
  <2>1. CallerType'
    BY <1>7 DEF ClearPending, Cleared, CallerType, Steps
  <2>2. CmdType'
    BY <1>7 DEF ClearPending, Cleared, CmdType
  <2>3. QED
    BY <1>7, <2>1, <2>2, TypeFrame DEF ClearPending, Cleared
<1>8. CASE Unlock(c)
  <2>1. CallerType'
    BY <1>8 DEF Unlock, CallerType, Steps
  <2>2. QED
    BY <1>8, <2>1, TypeFrame DEF Unlock
<1>9. QED
  BY <1>1, <1>2, <1>3, <1>4, <1>5, <1>6, <1>7, <1>8 DEF CommandStep

LEMMA TypeModule ==
  ASSUME TypeOK, ModuleStep
  PROVE  TypeOK'
<1> USE DEF TypeOK
<1>1. CASE Answer
  <2>1. Head(inbox) \in Requests /\ Tail(inbox) \in Seq(Requests)
    BY <1>1 DEF Answer, ModuleType
  <2>2. \A k \in Answers : Line(k, Head(inbox)) \in AnswerLines
    BY <2>1 DEF Line, AnswerLines
  <2>3. {"echo", "info", "ok", "fail"} \subseteq Answers
    BY DEF Answers, Terminators
  <2>4. Scripts(Head(inbox)) \subseteq Seq(AnswerLines)
    BY <2>2, <2>3 DEF Scripts
  <2>5. ModuleType'
    BY <1>1, <2>1, <2>4 DEF Answer, ModuleType
  <2>6. QED
    BY <1>1, <2>5, TypeFrame DEF Answer
<1>2. CASE SendLine
  <2>1. Head(sending) \in AnswerLines /\ Tail(sending) \in Seq(AnswerLines)
    BY <1>2 DEF SendLine, ModuleType
  <2>2. Append(serial, Head(sending)) \in Seq(Lines)
    BY <2>1, AppendProperties DEF ModuleType, Lines
  <2>3. ModuleType'
    BY <1>2, <2>1, <2>2 DEF SendLine, ModuleType
  <2>4. QED
    BY <1>2, <2>3, TypeFrame DEF SendLine
<1>3. CASE Emit
  <2>1. emitted + 1 \in 1 .. MaxEvents
    BY <1>3, MaxEventsAssumption DEF Emit, ModuleType
  <2>2. \A k \in {"event", "epan", "row"} : Line(k, emitted + 1) \in Lines
    BY <2>1 DEF Line, Lines
  <2>3. PICK s \in Seq(Lines) : serial' = serial \o s
    <3>1. <<Line("event", emitted + 1)>> \in Seq(Lines)
      BY <2>2
    <3>2. <<Line("epan", emitted + 1), Line("row", emitted + 1)>> \in Seq(Lines)
      BY <2>2
    <3>3. QED
      BY <1>3, <3>1, <3>2 DEF Emit
  <2>4. serial' \in Seq(Lines)
    BY <2>3, ConcatProperties DEF ModuleType
  <2>5. ModuleType'
    BY <1>3, <2>1, <2>4 DEF Emit, ModuleType
  <2>6. QED
    BY <1>3, <2>5, TypeFrame DEF Emit
<1>4. CASE PortFails
  BY <1>4, FailuresAssumption, TypeFrame DEF PortFails, CloseType
<1>5. QED
  BY <1>1, <1>2, <1>3, <1>4 DEF ModuleStep

\* What the reader finds at the head of the serial data.
LEMMA HeadLine ==
  ASSUME TypeOK, NEW ks, NextLine(ks)
  PROVE  /\ Head(serial) \in Lines
         /\ Tail(serial) \in Seq(Lines)
         /\ Head(serial).kind \in ks
BY DEF TypeOK, ModuleType, NextLine

LEMMA LineOwner ==
  ASSUME NEW l \in Lines
  PROVE  /\ l.kind \in Answers => l.of \in Requests
         /\ l.kind \in {"echo", "info"} => l \in BodyLines
         /\ l.kind \in {"event", "epan", "row"} => l.of \in 1 .. MaxEvents
BY DEF Lines, AnswerLines, BodyLines, Answers, Terminators

LEMMA TypeReader ==
  ASSUME TypeOK, ReaderStep
  PROVE  TypeOK'
<1> USE DEF TypeOK
<1>1. CASE FlushBlock
  BY <1>1, TypeFrame DEF FlushBlock, NextLine, Push, ReaderType, None
<1>2. CASE ReadRow
  BY <1>2, HeadLine, TypeFrame DEF ReadRow, ModuleType
<1>3. CASE ReadHeader \/ ReadEvent
  <2>1. Head(serial).of \in 1 .. MaxEvents /\ Tail(serial) \in Seq(Lines)
    BY <1>3, HeadLine, LineOwner DEF ReadHeader, NoBlock, ReadEvent
  <2>2. ReaderType'
    BY <1>3, <2>1, MaxEventsAssumption DEF ReadHeader, NoBlock, ReadEvent,
       NextLine, Push, ReaderType, None
  <2>3. ModuleType'
    BY <1>3, <2>1 DEF ReadHeader, NoBlock, ReadEvent, ModuleType
  <2>4. QED
    BY <1>3, <2>2, <2>3, TypeFrame DEF ReadHeader, NoBlock, ReadEvent
<1>4. CASE ReadTerminator
  <2> DEFINE res == [kind |-> Head(serial).kind, of |-> Head(serial).of,
                     lines |-> resp[pending]]
  <2>1. /\ Head(serial).of \in Requests
        /\ Head(serial).kind \in Terminators
        /\ Tail(serial) \in Seq(Lines)
    BY <1>4, HeadLine, LineOwner DEF ReadTerminator, NoBlock, Taken, Answers
  <2>2. pending # None => res \in Completions
    BY <2>1 DEF CmdType, Completions, Terminators
  <2>3. ReaderType'
    BY <1>4, <2>2 DEF ReadTerminator, NoBlock, Taken, NextLine, ReaderType,
       CmdType, None
  <2>4. ModuleType'
    BY <1>4, <2>1 DEF ReadTerminator, NoBlock, Taken, ModuleType
  <2>5. CmdType'
    BY <1>4 DEF ReadTerminator, NoBlock, Taken, CmdType
  <2>6. QED
    BY <1>4, <2>3, <2>4, <2>5, TypeFrame DEF ReadTerminator, NoBlock, Taken
<1>5. CASE Reply
  <2>1. CmdType'
    BY <1>5 DEF Reply, Addressee, CmdType, ReaderType
  <2>2. ReaderType'
    BY <1>5, ResultTypes DEF Reply, Addressee, ReaderType
  <2>3. QED
    BY <1>5, <2>1, <2>2, TypeFrame DEF Reply, Addressee
<1>6. CASE ReadBody
  <2>1. Head(serial) \in BodyLines /\ Tail(serial) \in Seq(Lines)
    BY <1>6, HeadLine, LineOwner DEF ReadBody, NoBlock, Body
  <2>2. CmdType'
    BY <1>6, <2>1 DEF ReadBody, NoBlock, CmdType
  <2>3. ModuleType'
    BY <1>6, <2>1 DEF ReadBody, NoBlock, ModuleType
  <2>4. QED
    BY <1>6, <2>2, <2>3, TypeFrame DEF ReadBody, NoBlock
<1>7. CASE ReaderPush
  <2>1. hold \in 1 .. MaxEvents
    BY <1>7, MaxEventsAssumption DEF ReaderPush, PushEvent, Evicted,
       ReaderType, None
  <2>2. events' \in Seq(1 .. MaxEvents) /\ Len(events') <= EventCap
    <3>1. CASE events' = Append(events, hold) /\ Len(events) < EventCap
      BY <2>1, <3>1, AppendProperties, EventCapAssumption DEF ReaderType
    <3>2. CASE events' = Tail(events) /\ events # <<>>
      BY <3>2, HeadTailProperties, EventCapAssumption DEF ReaderType
    <3>3. CASE events' = events
      BY <3>3 DEF ReaderType
    <3>4. QED
      BY <1>7, <3>1, <3>2, <3>3 DEF ReaderPush, PushEvent, Evicted
  <2>3. /\ rpc' \in {"read", "evict", "send"}
        /\ hold' = IF rpc' = "read" THEN None ELSE hold
    BY <1>7, <2>1 DEF ReaderPush, PushEvent, Evicted
  <2>4. ReaderType'
    BY <1>7, <2>1, <2>2, <2>3, MaxEventsAssumption
       DEF ReaderPush, ReaderType, None
  <2>5. QED
    BY <1>7, <2>4, TypeFrame DEF ReaderPush
<1>8. CASE EndScan
  <2>1. ReaderType'
    BY <1>8 DEF EndScan, OnceByReader, ReaderType
  <2>2. CloseType'
    BY <1>8 DEF EndScan, OnceByReader, CloseType, closeVars
  <2>3. QED
    BY <1>8, <2>1, <2>2, TypeFrame DEF EndScan, OnceByReader
<1>9. CASE ReaderExit
  <2>1. CmdType'
    BY <1>9, ResultTypes DEF ReaderExit, FlushPending, CmdType
  <2>2. ReaderType'
    BY <1>9 DEF ReaderExit, ReaderType
  <2>3. QED
    BY <1>9, <2>1, <2>2, TypeFrame DEF ReaderExit
<1>10. QED
  BY <1>1, <1>2, <1>3, <1>4, <1>5, <1>6, <1>7, <1>8, <1>9 DEF ReaderStep

LEMMA TypeClose ==
  ASSUME TypeOK, CloseMark \/ ClosePort \/ CloseFlush \/ Consume
  PROVE  TypeOK'
<1> USE DEF TypeOK
<1>1. CASE CloseMark \/ ClosePort
  BY <1>1, TypeFrame DEF CloseMark, ClosePort, PortOnClose, CloseStep,
     CloseType
<1>2. CASE CloseFlush
  <2>1. CmdType'
    BY <1>2, ResultTypes DEF CloseFlush, FlushPending, CmdType
  <2>2. CloseType'
    BY <1>2 DEF CloseFlush, CloseStep, CloseType
  <2>3. QED
    BY <1>2, <2>1, <2>2, TypeFrame DEF CloseFlush
<1>3. CASE Consume
  <2>1. ReaderType'
    BY <1>3, EventCapAssumption, MaxEventsAssumption DEF Consume, ReaderType
  <2>2. QED
    BY <1>3, <2>1, TypeFrame DEF Consume
<1>4. QED
  BY <1>1, <1>2, <1>3

LEMMA TypeNext == TypeOK /\ [Next]_vars => TypeOK'
<1> SUFFICES ASSUME TypeOK, [Next]_vars PROVE TypeOK'
  OBVIOUS
<1>1. CASE UNCHANGED vars
  BY <1>1, TypeFrame DEF vars, TypeOK
<1>2. QED
  BY <1>1, TypeCommand, TypeModule, TypeReader, TypeClose DEF Next

\* Every reachable state is well typed (driver.go:62-87).
THEOREM TypeCorrect == Spec => []TypeOK
<1>1. QED
  BY TypeInit, TypeNext, PTL DEF Spec

-----------------------------------------------------------------------------
(* The hand-over of the pending command.                                    *)

LEMMA HandOverNext ==
  ASSUME TypeOK, HandOver, [Next]_vars
  PROVE  HandOver'
<1> USE DEF HandOver, NeverBusy, Inside, Posted
<1>1. CallerType /\ CmdType
  BY DEF TypeOK
<1>2. ASSUME NEW c \in Callers, Call(c) \/ Lock(c)
      PROVE  HandOver'
  <2>1. CASE Call(c)
    BY <1>1, <2>1 DEF Call, CallerType, NoResult, cmdVars
  <2>2. CASE Lock(c)
    <3>1. /\ UNCHANGED <<req, pending>> /\ holder = {} /\ holder' = {c}
          /\ \A d \in Callers \ {c} : pc'[d] = pc[d] /\ ret'[d] = ret[d]
          /\ ret'[c].kind # "busy"
      BY <1>1, <2>2 DEF Lock, Free, CallerType, Failed, cmdVars
    <3>2. \A d \in Callers : pc[d] \notin Inside
      BY <3>1
    <3>3. QED
      BY <3>1, <3>2
  <2>3. QED
    BY <1>2, <2>1, <2>2
<1>3. ASSUME NEW c \in Callers, Post(c)
      PROVE  HandOver'
  <2>1. pending = None
    BY <1>3 DEF Post
  <2>2. QED
    BY <1>1, <1>3, <2>1 DEF Post, CallerType, Failed
<1>4. ASSUME NEW c \in Callers, Write(c) \/ WaitDone(c)
                                \/ WaitClosed(c) \/ WaitTimeout(c)
      PROVE  HandOver'
  <2>1. ret'[c].kind # "busy"
    BY <1>1, <1>4, ResultTypes DEF Write, WaitDone, WaitClosed, WaitTimeout,
       Abort, CallerType, CmdType
  <2>2. /\ pc'[c] \in Posted /\ UNCHANGED <<req, holder, pending>>
        /\ \A d \in Callers \ {c} : pc'[d] = pc[d] /\ ret'[d] = ret[d]
    BY <1>1, <1>4 DEF Write, WaitDone, WaitClosed, WaitTimeout, Abort,
       CallerType, cmdVars
  <2>3. pc[c] \in Inside
    BY <1>4 DEF Write, WaitDone, WaitClosed, WaitTimeout, Abort
  <2>4. QED
    BY <2>1, <2>2, <2>3
<1>5. ASSUME NEW c \in Callers, ClearPending(c) \/ Unlock(c)
      PROVE  HandOver'
  BY <1>1, <1>5 DEF ClearPending, Cleared, Unlock, CallerType, cmdVars
<1>6. CASE /\ UNCHANGED <<pc, req, ret, holder>>
           /\ pending' \in {pending, None}
  BY <1>6
<1>7. CASE ReaderStep
  BY <1>6, <1>7 DEF ReaderStep, FlushBlock, ReadRow, ReadHeader, NoBlock,
     ReadEvent, ReadTerminator, Taken, Reply, Addressee, ReadBody, ReaderPush,
     EndScan, OnceByReader, ReaderExit, FlushPending, callerVars, cmdVars
<1>8. CASE ModuleStep \/ CloseMark \/ ClosePort \/ CloseFlush \/ Consume
           \/ UNCHANGED vars
  BY <1>6, <1>8 DEF ModuleStep, Answer, SendLine, Emit, PortFails, CloseMark,
     ClosePort, PortOnClose, CloseFlush, FlushPending, Consume, callerVars, cmdVars, vars
<1>9. QED
  BY <1>2, <1>3, <1>4, <1>5, <1>7, <1>8 DEF Next, CommandStep

-----------------------------------------------------------------------------
(* A request is completed once.                                             *)

LEMMA OneCompleterNext ==
  ASSUME TypeOK, HandOver, OneCompleter, [Next]_vars
  PROVE  OneCompleter'
<1> USE DEF OneCompleter, Fresh
<1>1. CallerType /\ CmdType /\ ReaderType /\ None \notin Requests
  BY ResultTypes DEF TypeOK
<1>2. ASSUME NEW c \in Callers, Call(c)
      PROVE  OneCompleter'
  <2>1. calls + 1 \in Requests /\ calls' = calls + 1 /\ req'[c] = calls + 1
    BY <1>1, <1>2, MaxCallsAssumption DEF Call, CallerType, Requests
  <2>2. Fresh(calls + 1) /\ \A d \in Callers : req[d] # calls + 1
    BY <1>1, <2>1, MaxCallsAssumption DEF CallerType, Requests
  <2>3. /\ UNCHANGED <<done, resp, pending, reply, rpc>>
        /\ \A d \in Callers \ {c} : req'[d] = req[d] /\ pc'[d] = pc[d]
    BY <1>1, <1>2 DEF Call, CallerType, cmdVars, readerVars
  <2>4. \A r \in Requests : r > calls' => r > calls /\ r # calls + 1
    BY <1>1, <2>1, MaxCallsAssumption DEF CallerType, Requests
  <2>5. \A r \in Requests : r > calls' =>
          Fresh(r)' /\ \A d \in Callers : req'[d] # r
    BY <2>1, <2>3, <2>4
  <2>6. \A d \in Callers : pc'[d] \in {"lock", "post"} => Fresh(req[d])'
    BY <2>1, <2>2, <2>3
  <2>7. \A d, e \in Callers : d # e /\ req'[d] = req'[e] => req'[d] = None
    BY <2>1, <2>2, <2>3
  <2>8. QED
    BY <2>3, <2>5, <2>6, <2>7
<1>3. ASSUME NEW c \in Callers, Lock(c)
      PROVE  OneCompleter'
  BY <1>1, <1>3 DEF Lock, Free, AfterLock, CallerType, cmdVars, readerVars
<1>4. ASSUME NEW c \in Callers, Post(c)
      PROVE  OneCompleter'
  <2>1. /\ UNCHANGED <<req, calls, done, resp, reply, rpc>>
        /\ pending' \in {pending, req[c]}
        /\ pc'[c] \notin {"lock", "post"}
        /\ \A d \in Callers \ {c} : pc'[d] = pc[d]
    BY <1>1, <1>4 DEF Post, CallerType, readerVars
  <2>2. req[c] \in Requests /\ Fresh(req[c])
    BY <1>1, <1>4 DEF Post, CallerType
  <2>3. \A d \in Callers \ {c} : req[d] # req[c]
    BY <1>1, <2>2
  <2>4. \A r \in Requests : r > calls => r # req[c]
    OBVIOUS
  <2>5. QED
    BY <2>1, <2>2, <2>3, <2>4
<1>5. ASSUME NEW c \in Callers, CommandStep(c) \/ WaitTimeout(c), ~Post(c)
      PROVE  OneCompleter'
  <2>1. /\ UNCHANGED <<req, calls, resp, reply, rpc>>
        /\ pending' \in {pending, None}
        /\ \A d \in Callers : pc'[d] \in {"lock", "post"} => pc[d] = pc'[d]
        /\ \A r \in Requests : done'[r] \in {done[r], NoResult}
    BY <1>1, <1>5 DEF CommandStep, Write, WaitDone, WaitClosed, WaitTimeout,
       Abort, ClearPending, Cleared, Unlock, CallerType, CmdType, cmdVars,
       readerVars
  <2>2. \A d \in Callers : pc[d] \in {"lock", "post"} => req[d] \in Requests
    BY <1>1 DEF CallerType
  <2>3. QED
    BY <1>1, <2>1, <2>2 DEF CmdType, ReaderType
<1>6. CASE Reply
  <2>1. /\ UNCHANGED <<pc, req, calls, pending, resp>>
        /\ rpc' = "read" /\ reply.to \in Requests /\ reply'.to = None
        /\ \A r \in Requests \ {reply.to} : done'[r] = done[r]
    BY <1>1, <1>6 DEF Reply, Addressee, CmdType, ReaderType, callerVars
  <2>2. \A d \in Callers : pc[d] \in {"lock", "post"} => req[d] \in Requests
    BY <1>1 DEF CallerType
  <2>3. pending # reply.to
    BY <1>6 DEF Reply, Addressee
  <2>4. QED
    BY <1>1, <2>1, <2>2, <2>3 DEF CmdType
<1>7. CASE ReadTerminator
  <2>1. /\ UNCHANGED <<pc, req, calls, resp, done>>
        /\ pending' = None
        /\ \/ reply' = reply /\ rpc' = rpc
           \/ reply'.to = pending /\ pending # None
    BY <1>7 DEF ReadTerminator, NoBlock, Taken, callerVars
  <2>2. \A d \in Callers : pc[d] \in {"lock", "post"} => req[d] \in Requests
    BY <1>1 DEF CallerType
  <2>3. rpc' = "reply" => reply'.to = pending /\ pending # None
    BY <1>7 DEF ReadTerminator, NoBlock, Taken, NextLine
  <2>4. QED
    BY <1>1, <2>1, <2>2, <2>3 DEF CmdType
<1>8. CASE ReadBody
  <2>1. /\ UNCHANGED <<pc, req, calls, pending, done, reply, rpc>>
        /\ \A r \in Requests : r # pending => resp'[r] = resp[r]
    BY <1>1, <1>8 DEF ReadBody, NoBlock, CmdType, callerVars, readerVars
  <2>2. \A d \in Callers : pc[d] \in {"lock", "post"} => req[d] \in Requests
    BY <1>1 DEF CallerType
  <2>3. QED
    BY <2>1, <2>2
<1>9. CASE ReaderExit \/ CloseFlush
  <2>1. /\ UNCHANGED <<pc, req, calls, resp, reply>>
        /\ pending' = None
        /\ rpc' \in {rpc, "gone"}
        /\ \A r \in Requests : r # pending => done'[r] = done[r]
    BY <1>1, <1>9 DEF ReaderExit, CloseFlush, FlushPending, CmdType,
       callerVars, readerVars
  <2>2. \A d \in Callers : pc[d] \in {"lock", "post"} => req[d] \in Requests
    BY <1>1 DEF CallerType
  <2>3. QED
    BY <1>1, <2>1, <2>2 DEF ReaderType
<1>10. CASE /\ UNCHANGED <<pc, req, calls, pending, resp, done, reply>>
            /\ rpc' = rpc \/ rpc' # "reply"
  BY <1>10
<1>11. CASE FlushBlock \/ ReadRow \/ ReadHeader \/ ReadEvent \/ ReaderPush
            \/ EndScan
  BY <1>10, <1>11 DEF FlushBlock, ReadRow, ReadHeader, NoBlock, ReadEvent,
     Push, ReaderPush, PushEvent, Evicted, EndScan, OnceByReader, callerVars,
     cmdVars, readerVars
<1>12. CASE ModuleStep \/ CloseMark \/ ClosePort \/ Consume \/ UNCHANGED vars
  BY <1>10, <1>12 DEF ModuleStep, Answer, SendLine, Emit, PortFails, CloseMark,
     ClosePort, PortOnClose, Consume, callerVars, cmdVars, readerVars, vars
<1>13. QED
  BY <1>2, <1>3, <1>4, <1>5, <1>6, <1>7, <1>8, <1>9, <1>11, <1>12
     DEF Next, ReaderStep, CommandStep

-----------------------------------------------------------------------------
(* Attribution.  First, what each step does to the answers on their way.    *)

LEMMA InFlightRead ==
  ASSUME TypeOK, NEW ks, NextLine(ks), serial' = Tail(serial),
         UNCHANGED <<inbox, sending>>
  PROVE  /\ InFlight' \subseteq InFlight
         /\ Head(serial).kind \in Answers => Head(serial).of \in InFlight
<1>1. serial \in Seq(Lines) /\ serial # <<>>
  BY DEF TypeOK, ModuleType, NextLine
<1>2. /\ 1 \in DOMAIN serial /\ Head(serial) = serial[1]
      /\ \A i \in DOMAIN serial' : i + 1 \in DOMAIN serial
                                   /\ serial'[i] = serial[i + 1]
  BY <1>1, HeadTailProperties
<1>3. QED
  BY <1>2 DEF InFlight, Owners

LEMMA InFlightAnswer ==
  ASSUME TypeOK, Answer
  PROVE  InFlight' \subseteq InFlight
<1> DEFINE r == Head(inbox)
<1>1. /\ inbox \in Seq(Requests) /\ inbox # <<>> /\ inbox' = Tail(inbox)
      /\ serial' = serial /\ sending' \in Scripts(r)
  BY DEF TypeOK, ModuleType, Answer
<1>2. /\ 1 \in DOMAIN inbox /\ r = inbox[1]
      /\ \A i \in DOMAIN inbox' : i + 1 \in DOMAIN inbox
                                  /\ inbox'[i] = inbox[i + 1]
  BY <1>1, HeadTailProperties
<1>3. \A i \in DOMAIN sending' : sending'[i].of = r
  BY <1>1 DEF Scripts, Line
<1>4. Owners(sending)' \subseteq {r} /\ Owners(serial)' = Owners(serial)
  BY <1>1, <1>3 DEF Owners
<1>5. QED
  BY <1>2, <1>4 DEF InFlight

LEMMA InFlightSendLine ==
  ASSUME TypeOK, SendLine
  PROVE  InFlight' \subseteq InFlight
<1>1. /\ sending \in Seq(AnswerLines) /\ sending # <<>>
      /\ sending' = Tail(sending) /\ serial' = Append(serial, Head(sending))
      /\ serial \in Seq(Lines) /\ inbox' = inbox
  BY DEF TypeOK, ModuleType, SendLine
<1>2. /\ 1 \in DOMAIN sending /\ Head(sending) = sending[1]
      /\ \A i \in DOMAIN sending' : i + 1 \in DOMAIN sending
                                    /\ sending'[i] = sending[i + 1]
  BY <1>1, HeadTailProperties
<1>3. \A i \in DOMAIN serial' :
        serial'[i] = Head(sending) \/ (i \in DOMAIN serial
                                       /\ serial'[i] = serial[i])
  <2>1. Head(sending) \in Lines
    BY <1>1 DEF Lines
  <2>2. QED
    BY <1>1, <2>1, AppendProperties
<1>4. Owners(sending)' \subseteq Owners(sending)
  BY <1>2 DEF Owners
<1>5. Owners(serial)' \subseteq Owners(serial) \cup Owners(sending)
  BY <1>2, <1>3 DEF Owners
<1>6. QED
  BY <1>1, <1>4, <1>5 DEF InFlight

LEMMA InFlightEmit ==
  ASSUME TypeOK, Emit
  PROVE  InFlight' \subseteq InFlight
<1>1. serial \in Seq(Lines)
  BY DEF TypeOK, ModuleType
<1> DEFINE n == emitted + 1
           S == {<<Line("event", n)>>, <<Line("epan", n), Line("row", n)>>}
<1>2. PICK s \in S : serial' = serial \o s
  BY DEF Emit
<1>3. Len(s) \in Nat /\ \A i \in 1 .. Len(s) : s[i].kind \notin Answers
  BY <1>2 DEF Line, Answers, Terminators
<1>4. /\ DOMAIN serial' = 1 .. Len(serial) + Len(s)
      /\ \A i \in DOMAIN serial' :
           serial'[i] = IF i <= Len(serial) THEN serial[i]
                                            ELSE s[i - Len(serial)]
  BY <1>1, <1>2, <1>3 DEF Line
<1>5. \A i \in DOMAIN serial' :
        (i \in DOMAIN serial /\ serial'[i] = serial[i])
        \/ serial'[i].kind \notin Answers
  BY <1>1, <1>3, <1>4
<1>6. UNCHANGED <<inbox, sending>>
  BY DEF Emit
<1>7. QED
  BY <1>5, <1>6 DEF InFlight, Owners

LEMMA InFlightWrite ==
  ASSUME TypeOK, NEW c \in Callers, Write(c)
  PROVE  InFlight' \subseteq InFlight \cup {req[c]}
<1>1. inbox \in Seq(Requests) /\ UNCHANGED <<sending, serial>>
  BY DEF TypeOK, ModuleType, Write
<1>2. CASE inbox' = inbox
  BY <1>1, <1>2 DEF InFlight, Owners
<1>3. CASE inbox' = Append(inbox, req[c])
  <2>1. req[c] \in Requests
    BY DEF TypeOK, CallerType, Write
  <2>2. \A i \in DOMAIN inbox' :
          inbox'[i] = req[c] \/ (i \in DOMAIN inbox /\ inbox'[i] = inbox[i])
    BY <1>1, <1>3, <2>1
  <2>3. QED
    BY <1>1, <2>2 DEF InFlight, Owners
<1>4. QED
  BY <1>2, <1>3 DEF Write

\* Most steps touch no result, no response and no taint, and only shrink what
\* is on its way.
LEMMA AttributionFrame ==
  ASSUME Attribution,
         UNCHANGED <<req, ret, resp, done, tainted>>,
         pending' \in {pending, None}, InFlight' \subseteq InFlight,
         rpc' # "reply" \/ UNCHANGED <<rpc, reply>>
  PROVE  Attribution'
BY DEF Attribution, MatchUnlessTainted, Matches

LEMMA AttributionNext ==
  ASSUME TypeOK, HandOver, Attribution, [Next]_vars
  PROVE  Attribution'
<1> USE DEF Attribution, MatchUnlessTainted
<1>1. CallerType /\ CmdType /\ ReaderType /\ None \notin Requests
  BY ResultTypes DEF TypeOK
<1>2. /\ \A r \in Requests \cup {None} : Matches(r, NoResult)
      /\ \A r \in Requests \cup {None}, k \in {"closed", "timeout", "busy", "write"} :
           Matches(r, Failed(k))
  BY DEF Matches, NoResult, Failed, Terminators
<1>3. ASSUME NEW c \in Callers, Call(c)
      PROVE  Attribution'
  <2>1. /\ UNCHANGED <<resp, done, tainted, pending, rpc, reply, InFlight>>
        /\ req'[c] \in Requests \cup {None} /\ ret'[c] = NoResult
        /\ \A d \in Callers \ {c} : req'[d] = req[d] /\ ret'[d] = ret[d]
    <3>1. calls + 1 \in Requests
      BY <1>1, <1>3, MaxCallsAssumption DEF Call, CallerType, Requests
    <3>2. QED
      BY <1>1, <1>3, <3>1
         DEF Call, CallerType, InFlight, Owners, cmdVars, moduleVars, readerVars
  <2>2. QED
    BY <1>2, <2>1
<1>4. ASSUME NEW c \in Callers, Lock(c) \/ WaitClosed(c) \/ WaitTimeout(c)
      PROVE  Attribution'
  <2>1. /\ UNCHANGED <<req, resp, done, tainted, pending, rpc, reply, InFlight>>
        /\ ret'[c] = ret[c]
           \/ \E k \in {"closed", "timeout"} : ret'[c] = Failed(k)
        /\ \A d \in Callers \ {c} : ret'[d] = ret[d]
    BY <1>1, <1>4 DEF Lock, Free, AfterLock, WaitClosed, WaitTimeout, Abort,
       CallerType, InFlight, Owners, cmdVars, moduleVars, readerVars
  <2>2. QED
    BY <1>1, <1>2, <2>1 DEF CallerType
<1>5. ASSUME NEW c \in Callers, Post(c)
      PROVE  Attribution'
  <2>1. InFlight' = InFlight
    BY <1>5 DEF Post, InFlight, Owners, moduleVars
  <2>2. /\ UNCHANGED <<req, resp, done, rpc, reply>>
        /\ ret'[c] = ret[c] \/ ret'[c] = Failed("busy")
        /\ \A d \in Callers \ {c} : ret'[d] = ret[d]
        /\ tainted \subseteq tainted'
        /\ \/ UNCHANGED <<pending, tainted>>
           \/ pending' = req[c] /\ (InFlight = {} \/ pending' \in tainted')
    BY <1>1, <1>5 DEF Post, CallerType, readerVars
  <2>3. QED
    BY <1>1, <1>2, <2>1, <2>2 DEF CallerType
<1>6. ASSUME NEW c \in Callers, Write(c)
      PROVE  Attribution'
  <2>1. /\ UNCHANGED <<req, resp, done, tainted, pending, rpc, reply>>
        /\ ret'[c] = ret[c] \/ ret'[c] = Failed("write")
        /\ \A d \in Callers \ {c} : ret'[d] = ret[d]
    BY <1>1, <1>6 DEF Write, CallerType, cmdVars, readerVars
  <2>2. pending # None => pending = req[c]
    BY <1>6 DEF Write, HandOver, Inside, Posted
  <2>3. InFlight' \subseteq InFlight \cup {req[c]}
    BY <1>6, InFlightWrite
  <2>4. QED
    BY <1>1, <1>2, <2>1, <2>2, <2>3 DEF CallerType
<1>7. ASSUME NEW c \in Callers, WaitDone(c)
      PROVE  Attribution'
  <2>1. req[c] \in Requests
    BY <1>1, <1>7 DEF WaitDone, CallerType
  <2>2. /\ UNCHANGED <<req, resp, tainted, pending, rpc, reply, InFlight>>
        /\ ret'[c] = done[req[c]]
        /\ \A d \in Callers \ {c} : ret'[d] = ret[d]
        /\ \A r \in Requests : done'[r] \in {done[r], NoResult}
    BY <1>1, <1>7, <2>1
       DEF WaitDone, CallerType, CmdType, InFlight, Owners, moduleVars,
           readerVars
  <2>3. QED
    BY <1>2, <2>1, <2>2
<1>8. ASSUME NEW c \in Callers, ClearPending(c) \/ Unlock(c)
      PROVE  Attribution'
  BY <1>8, AttributionFrame DEF ClearPending, Cleared, Unlock, InFlight, Owners,
     cmdVars, moduleVars, readerVars
<1>9. CASE ReadTerminator
  <2>1. /\ UNCHANGED <<req, ret, resp, done, tainted>> /\ pending' = None
        /\ InFlight' \subseteq InFlight
        /\ Head(serial).of \in InFlight
    BY <1>9, InFlightRead DEF ReadTerminator, NoBlock, Taken, NextLine,
       Answers, callerVars
  <2>2. CASE pending = None
    BY <1>9, <2>1, <2>2, AttributionFrame DEF ReadTerminator, NoBlock, Taken
  <2>3. CASE pending # None
    <3>1. /\ reply'.to = pending /\ reply'.res.of = Head(serial).of
          /\ reply'.res.lines = resp[pending]
      BY <1>9, <2>3 DEF ReadTerminator, NoBlock, Taken
    <3>2. pending \notin tainted => Matches(reply'.to, reply'.res)
      BY <1>1, <2>1, <2>3, <3>1 DEF Matches, CmdType
    <3>3. QED
      BY <2>1, <3>1, <3>2
  <2>4. QED
    BY <2>2, <2>3
<1>10. CASE Reply
  <2>1. InFlight' = InFlight
    BY <1>10 DEF Reply, Addressee, InFlight, Owners, moduleVars
  <2>2. /\ UNCHANGED <<req, ret, resp, tainted, pending>>
        /\ rpc' = "read" /\ rpc = "reply"
        /\ \A r \in Requests : done'[r] = done[r]
                               \/ (r = reply.to /\ done'[r] = reply.res)
    BY <1>1, <1>10 DEF Reply, Addressee, CmdType, callerVars
  <2>3. QED
    BY <2>1, <2>2
<1>11. CASE ReadBody
  <2> DEFINE l == Head(serial)
  <2>1. /\ UNCHANGED <<req, ret, done, tainted, pending, rpc, reply>>
        /\ InFlight' \subseteq InFlight
        /\ l.of \in InFlight /\ l \in BodyLines
    BY <1>11, InFlightRead, HeadLine, LineOwner
       DEF ReadBody, NoBlock, Body, NextLine, Answers, callerVars, readerVars
  <2>2. \A r \in Requests :
          resp'[r] = resp[r]
          \/ (r = pending /\ l # Line("echo", r) /\ resp'[r] = resp[r] \cup {l})
    BY <1>1, <1>11 DEF ReadBody, NoBlock, CmdType
  <2>3. l \in {Line("echo", l.of), Line("info", l.of)}
    BY <2>1 DEF BodyLines, Line
  <2>4. \A r \in Requests \ tainted : resp'[r] \subseteq {Line("info", r)}
    BY <1>1, <2>1, <2>2, <2>3
  <2>5. QED
    BY <2>1, <2>4
<1>12. CASE ReaderExit \/ CloseFlush
  <2>1. /\ UNCHANGED <<req, ret, resp, tainted, InFlight>>
        /\ pending' = None
        /\ rpc' # "reply" \/ UNCHANGED <<rpc, reply>>
        /\ \A r \in Requests : done'[r] = done[r]
                               \/ done'[r] = Failed("closed")
    BY <1>1, <1>12 DEF ReaderExit, CloseFlush, FlushPending, CmdType,
       InFlight, Owners, callerVars, moduleVars, readerVars
  <2>2. QED
    BY <1>2, <2>1
<1>13. CASE ReadRow \/ ReadHeader \/ ReadEvent
  <2>1. InFlight' \subseteq InFlight
    BY <1>13, InFlightRead DEF ReadRow, ReadHeader, NoBlock, ReadEvent
  <2>2. QED
    BY <1>13, <2>1, AttributionFrame DEF ReadRow, ReadHeader, NoBlock,
       ReadEvent, Push, callerVars, cmdVars, readerVars
<1>14. CASE FlushBlock \/ ReaderPush \/ EndScan
  BY <1>14, AttributionFrame DEF FlushBlock, Push, ReaderPush, PushEvent,
     Evicted, EndScan, OnceByReader, InFlight, Owners, callerVars, cmdVars,
     moduleVars, readerVars
<1>15. CASE Answer \/ SendLine \/ Emit
  BY <1>15, InFlightAnswer, InFlightSendLine, InFlightEmit, AttributionFrame
     DEF Answer, SendLine, Emit, callerVars, cmdVars, readerVars
<1>16. CASE PortFails \/ CloseMark \/ ClosePort \/ Consume \/ UNCHANGED vars
  BY <1>16, AttributionFrame DEF PortFails, CloseMark, ClosePort, PortOnClose,
     Consume, InFlight, Owners, callerVars, cmdVars, moduleVars, readerVars,
     vars
<1>17. QED
  BY <1>3, <1>4, <1>5, <1>6, <1>7, <1>8, <1>9, <1>10, <1>11, <1>12, <1>13,
     <1>14, <1>15, <1>16 DEF Next, CommandStep, ReaderStep, ModuleStep

-----------------------------------------------------------------------------
(* The theorems.                                                            *)

LEMMA InvInit == Init => DriverInv
<1> SUFFICES ASSUME Init PROVE DriverInv
  OBVIOUS
<1> USE DEF Init
<1>1. None \notin Requests
  BY ResultTypes
<1>2. HandOver
  BY DEF HandOver, NeverBusy, Inside, NoResult
<1>3. OneCompleter
  BY <1>1 DEF OneCompleter, Fresh
<1>4. Attribution
  BY <1>1 DEF Attribution, MatchUnlessTainted, Matches, NoResult, Terminators
<1>5. QED
  BY <1>2, <1>3, <1>4 DEF DriverInv

\* The inductive invariant holds in every reachable state.
THEOREM InvCorrect == Spec => []DriverInv
<1>1. TypeOK /\ DriverInv /\ [Next]_vars => DriverInv'
  BY HandOverNext, OneCompleterNext, AttributionNext DEF DriverInv
<1>2. QED
  BY <1>1, InvInit, TypeCorrect, PTL DEF Spec

\* ErrBusy is never returned (driver.go:182): the pending command of a call is
\* gone before cmdMu lets the next caller in.
THEOREM NeverBusyCorrect == Spec => []NeverBusy
<1>1. DriverInv => NeverBusy
  BY DEF DriverInv, HandOver
<1>2. QED
  BY <1>1, InvCorrect, PTL

\* The terminator the reader has taken always finds an empty done channel
\* (driver.go:362-376), whatever Close and the reader's exit do.
THEOREM ResultNotDroppedCorrect == Spec => []ResultNotDropped
<1>1. DriverInv => ResultNotDropped
  BY DEF DriverInv, OneCompleter, ResultNotDropped
<1>2. QED
  BY <1>1, InvCorrect, PTL

\* A call posted when no older answer was on its way returns its own terminator
\* and no lines but its own response lines, wherever events and blocks fall
\* between them (driver.go:298-376).
THEOREM MatchCorrect == Spec => []MatchUnlessTainted
<1>1. DriverInv => MatchUnlessTainted
  BY DEF DriverInv, Attribution
<1>2. QED
  BY <1>1, InvCorrect, PTL

\* After an eviction the event that caused it finds room (driver.go:387-390):
\* only the reader sends, and the consumer can only make more room.
THEOREM EvictionCorrect == Spec => []EvictionMakesRoom
<1>1. Init => EvictionMakesRoom
  BY DEF Init, EvictionMakesRoom
<1>2. ASSUME TypeOK, EvictionMakesRoom, [Next]_vars PROVE EvictionMakesRoom'
  <2> USE DEF EvictionMakesRoom
  <2>1. /\ events \in Seq(1 .. MaxEvents) /\ Len(events) <= EventCap
        /\ EventCap \in Nat \ {0}
    BY <1>2, EventCapAssumption DEF TypeOK, ReaderType
  <2>2. CASE ReaderPush
    BY <2>1, <2>2 DEF ReaderPush, PushEvent, Evicted
  <2>3. CASE Consume
    BY <1>2, <2>1, <2>3 DEF Consume
  <2>4. CASE rpc' # "send" \/ UNCHANGED <<rpc, events>>
    BY <1>2, <2>4
  <2>5. CASE ReaderStep /\ ~ReaderPush
    BY <2>4, <2>5 DEF ReaderStep, FlushBlock, ReadRow, ReadHeader, NoBlock,
       ReadEvent, Push, ReadTerminator, Taken, NextLine, Reply, Addressee,
       ReadBody, EndScan, OnceByReader, ReaderExit, readerVars
  <2>6. CASE \E c \in Callers : Call(c) \/ Lock(c) \/ CommandStep(c)
                                \/ WaitTimeout(c)
    BY <2>4, <2>6 DEF Call, Lock, Free, AfterLock, CommandStep, Post, Write,
       WaitDone, WaitClosed, WaitTimeout, Abort, ClearPending, Cleared, Unlock,
       readerVars
  <2>7. CASE ModuleStep \/ CloseMark \/ ClosePort \/ CloseFlush
             \/ UNCHANGED vars
    BY <2>4, <2>7 DEF ModuleStep, Answer, SendLine, Emit, PortFails, CloseMark,
       ClosePort, PortOnClose, CloseFlush, readerVars, vars
  <2>8. QED
    BY <1>2, <2>2, <2>3, <2>5, <2>6, <2>7 DEF Next
<1>3. QED
  BY <1>1, <1>2, TypeCorrect, PTL DEF Spec
=============================================================================
