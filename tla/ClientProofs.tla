---------------------------- MODULE ClientProofs ----------------------------
(* Proofs about the meter client, for any number of callers, calls,         *)
(* transaction identifiers and notifications of the meter.                  *)
EXTENDS Client, TLAPS

-----------------------------------------------------------------------------
(* The inductive invariant.                                                 *)

Open(c) == pc[c] \in HasTid
Known == 1 .. calls

\* A frame is the meter's own, or carries the TID of the call it answers.
Genuine(f) == f.of # None => f.of \in Known /\ tidOf[f.of] = f.tid

\* An open call has one caller, and everything in use was numbered.
Bounded ==
  /\ \A c, d \in Callers : Open(c) /\ Open(d) /\ cur[c] = cur[d] => c = d
  /\ \A c \in Callers : Open(c) => cur[c] \in Known
  /\ requests \subseteq Known
  /\ rpc = "handoff" => hand.to \in Known

\* What has not begun has received nothing.
Fresh ==
  /\ \A q \in Calls \ Known : resp[q] = NoFrame
  /\ \A c \in Callers :
       pc[c] = "register" => /\ resp[cur[c]] = NoFrame
                             /\ rpc = "handoff" => hand.to # cur[c]
  /\ \A c \in Callers : pc[c] \in {"alloc", "again"} => ret[c] = NoFrame

\* Every frame is genuine, wherever it is, and has the TID of its receiver.
Traced ==
  /\ \A f \in net : Genuine(f)
  /\ rpc = "handoff" =>
       Genuine(hand.frame) /\ hand.frame.tid = tidOf[hand.to]
  /\ \A q \in Calls :
       resp[q] # NoFrame => Genuine(resp[q]) /\ resp[q].tid = tidOf[q]
  /\ \A c \in Callers :
       ret[c] # NoFrame => /\ Genuine(ret[c]) /\ cur[c] \in Known
                           /\ ret[c].tid = tidOf[cur[c]]

\* How far the counter has come since it gave out the TID of call q, as long
\* as it has not come round: one step for each call, one more for a zero.
Counted ==
  \A q \in Known : calls - q < TidSpace - 1 =>
    \/ tid >= tidOf[q] /\ calls - q = tid - tidOf[q]
    \/ /\ tid < tidOf[q]
       /\ calls - q \in {tid + TidSpace - tidOf[q] - 1, tid + TidSpace - tidOf[q]}

\* Two calls with one TID are far apart.
Apart == \A q, r \in Known : tidOf[q] = tidOf[r] => q = r \/ Far(q, r)

\* An entry of the map: it is under the TID of its call, the call is open, and
\* nothing has been given to it.
Entries ==
  \A t \in Tids : pending[t] # None =>
    /\ tidOf[pending[t]] = t
    /\ resp[pending[t]] = NoFrame
    /\ rpc = "handoff" => hand.to # pending[t]
    /\ \E c \in Callers :
         cur[c] = pending[t] /\ pc[c] \in {"send", "wait", "close"}

\* Calls that are open together and far apart are in the history.
Overlaps ==
  \A c, d \in Callers :
    Open(c) /\ Open(d) /\ Far(cur[c], cur[d]) => cur[c] \in overlapped

\* WaitingIsReachable, from the registration on.
Reachable ==
  \A c \in Callers :
    pc[c] \in {"send", "wait"} /\ cur[c] \notin overlapped =>
      \/ pending[tidOf[cur[c]]] = cur[c]
      \/ rpc = "handoff" /\ hand.to = cur[c]
      \/ resp[cur[c]] # NoFrame

Inv ==
  /\ TypeOK /\ Bounded /\ Fresh /\ Traced /\ Counted /\ Apart
  /\ Entries /\ HandoffNeverBlocks /\ Overlaps /\ Reachable

-----------------------------------------------------------------------------
(* Every step keeps the invariant.                                          *)

\* What depends on the variables of a conjunct alone is kept with them.
LEMMA Frame ==
  ASSUME Inv
  PROVE  /\ UNCHANGED <<pc, cur, calls, requests, rpc, hand>> => Bounded'
         /\ UNCHANGED <<pc, cur, ret, calls, resp, rpc, hand>> => Fresh'
         /\ UNCHANGED <<cur, ret, calls, tidOf, resp, net, rpc, hand>> => Traced'
         /\ UNCHANGED <<calls, tid, tidOf>> => Counted'
         /\ UNCHANGED <<calls, tidOf>> => Apart'
         /\ UNCHANGED <<pc, cur, tidOf, pending, resp, rpc, hand>> => Entries'
         /\ UNCHANGED <<rpc, hand, resp>> => HandoffNeverBlocks'
         /\ UNCHANGED <<pc, cur, overlapped>> => Overlaps'
         /\ UNCHANGED <<pc, cur, tidOf, pending, resp, rpc, hand, overlapped>> => Reachable'
<1>1. UNCHANGED <<pc, cur, calls, requests, rpc, hand>> => Bounded'
  BY DEF Inv, Bounded, Open, Known
<1>2. UNCHANGED <<pc, cur, ret, calls, resp, rpc, hand>> => Fresh'
  BY DEF Inv, Fresh, Known
<1>3. UNCHANGED <<cur, ret, calls, tidOf, resp, net, rpc, hand>> => Traced'
  BY DEF Inv, Traced, Genuine, Known
<1>4. UNCHANGED <<calls, tid, tidOf>> => Counted'
  BY DEF Inv, Counted, Known
<1>5. UNCHANGED <<calls, tidOf>> => Apart'
  BY DEF Inv, Apart, Known
<1>6. UNCHANGED <<pc, cur, tidOf, pending, resp, rpc, hand>> => Entries'
  BY DEF Inv, Entries
<1>7. UNCHANGED <<rpc, hand, resp>> => HandoffNeverBlocks'
  BY DEF Inv, HandoffNeverBlocks
<1>8. UNCHANGED <<pc, cur, overlapped>> => Overlaps'
  BY DEF Inv, Overlaps, Open
<1>9. UNCHANGED <<pc, cur, tidOf, pending, resp, rpc, hand, overlapped>> => Reachable'
  BY DEF Inv, Reachable
<1>10. QED
  BY <1>1, <1>2, <1>3, <1>4, <1>5, <1>6, <1>7, <1>8, <1>9

\* The counter stays below TidSpace.
LEMMA TidTypes == ASSUME TypeOK PROVE NextTid \in Tids
BY TidSpaceAssumption DEF TypeOK, NextTid, Tids

\* What a call gets when it is numbered.
LEMMA TakeFacts ==
  ASSUME Inv, NEW c \in Callers, Take(c)
  PROVE  /\ calls \in Nat /\ calls + 1 \in Calls \ Known
         /\ calls' = calls + 1 /\ Known' = Known \cup {calls + 1}
         /\ tid' = NextTid /\ NextTid \in Tids /\ tidOf'[calls + 1] = NextTid
         /\ \A q \in Known : q \in Calls /\ tidOf'[q] = tidOf[q]
         /\ ~ Open(c) /\ ret[c] = NoFrame
         /\ cur'[c] = calls + 1 /\ pc'[c] = "register"
         /\ \A d \in Callers \ {c} : cur'[d] = cur[d] /\ pc'[d] = pc[d]
         /\ UNCHANGED <<ret, pending, resp, requests, net, rpc, hand>>
<1>1. calls \in Nat /\ calls < MaxCalls /\ calls + 1 \in Calls \ Known
  BY MaxCallsAssumption DEF Take, Inv, TypeOK, Calls, Known
<1>2. /\ tidOf' = [tidOf EXCEPT ![calls + 1] = NextTid] /\ calls' = calls + 1
      /\ UNCHANGED <<ret, pending, resp, requests, net, rpc, hand>>
  BY DEF Take, netVars, runVars
<1>3. Known' = Known \cup {calls + 1}
  BY <1>1, <1>2 DEF Known
<1>4. \A q \in Known : q \in Calls /\ tidOf'[q] = tidOf[q]
  BY <1>1, <1>2, MaxCallsAssumption DEF Known, Calls, Inv, TypeOK
<1>5. tidOf'[calls + 1] = NextTid
  BY <1>1, <1>2 DEF Inv, TypeOK
<1>6. pc[c] \in {"alloc", "again"} /\ pc' = [pc EXCEPT ![c] = "register"]
  BY DEF Take, Move
<1>7. /\ cur'[c] = calls + 1 /\ pc'[c] = "register"
      /\ \A d \in Callers \ {c} : cur'[d] = cur[d] /\ pc'[d] = pc[d]
  BY <1>6 DEF Take, Inv, TypeOK
<1>8. ~ Open(c) /\ ret[c] = NoFrame
  BY <1>6 DEF Inv, Fresh, Open, HasTid
<1>9. QED
  BY <1>1, <1>2, <1>3, <1>4, <1>5, <1>7, <1>8, TidTypes DEF Take, Inv

\* Every step keeps the types.
LEMMA TypeStep == ASSUME TypeOK, Next PROVE TypeOK'
<1>1. ASSUME NEW c \in Callers, Start(c) PROVE TypeOK'
  BY <1>1 DEF Start, Move, TypeOK, HasTid, Calls, Tids, Frames, NoFrame,
       None, tidVars, netVars, runVars
<1>2. ASSUME NEW c \in Callers, Take(c) PROVE TypeOK'
  <2>1. NextTid \in Tids /\ calls + 1 \in Calls /\ calls + 1 \in 0 .. MaxCalls
    BY <1>2, TidTypes, MaxCallsAssumption DEF Take, TypeOK, Calls
  <2>2. OpenCalls \subseteq Calls
    BY DEF OpenCalls, TypeOK
  <2>3. overlapped' \subseteq Calls
    BY <1>2, <2>1, <2>2 DEF Take, TypeOK
  <2>4. /\ pc' \in [Callers -> {"idle", "alloc", "again"} \cup HasTid]
        /\ cur' \in [Callers -> Calls \cup {None}]
        /\ \A d \in Callers : pc'[d] \in HasTid => cur'[d] \in Calls
    BY <1>2, <2>1 DEF Take, Move, TypeOK, HasTid
  <2>5. calls' \in 0 .. MaxCalls /\ tid' \in Tids /\ tidOf' \in [Calls -> Tids]
    BY <1>2, <2>1 DEF Take, TypeOK
  <2>6. QED
    BY <1>2, <2>3, <2>4, <2>5 DEF Take, TypeOK, netVars, runVars
<1>3. ASSUME NEW c \in Callers, SkipZero(c) PROVE TypeOK'
  BY <1>3 DEF SkipZero, Move, NextTid, TypeOK, HasTid, Calls, Tids, Frames,
       NoFrame, None, netVars, runVars
<1>4. ASSUME NEW c \in Callers, Register(c) PROVE TypeOK'
  BY <1>4 DEF Register, Move, TypeOK, HasTid, Calls, Tids, Frames, NoFrame,
       None, tidVars, netVars, runVars
<1>5. ASSUME NEW c \in Callers, Send(c) PROVE TypeOK'
  BY <1>5 DEF Send, Move, TypeOK, HasTid, Calls, Tids, Frames, NoFrame,
       None, tidVars, runVars
<1>6. ASSUME NEW c \in Callers, Answered(c) PROVE TypeOK'
  BY <1>6 DEF Answered, Move, TypeOK, HasTid, Calls, Tids, Frames, NoFrame,
       None, tidVars, netVars, runVars
<1>7. ASSUME NEW c \in Callers, Timeout(c) PROVE TypeOK'
  BY <1>7 DEF Timeout, Move, TypeOK, HasTid, Calls, Tids, Frames, NoFrame,
       None, tidVars, netVars, runVars
<1>8. ASSUME NEW c \in Callers, Close(c) PROVE TypeOK'
  BY <1>8 DEF Close, Move, Unregistered, TypeOK, HasTid, Calls, Tids,
       Frames, NoFrame, None, tidVars, netVars, runVars
<1>9. ASSUME Receive PROVE TypeOK'
  <2>1. PICK f \in net :
          /\ net' \in {net, net \ {f}}
          /\ IF pending[f.tid] # None
             THEN /\ hand' = [to |-> pending[f.tid], frame |-> f]
                  /\ pending' = Claimed(f.tid) /\ rpc' = "handoff"
             ELSE UNCHANGED <<pending, rpc, hand>>
    BY <1>9 DEF Receive
  <2>2. f \in Frames /\ f.tid \in Tids /\ net' \subseteq Frames
    BY <2>1 DEF TypeOK, Frames
  <2>3. /\ pending' \in [Tids -> Calls \cup {None}]
        /\ rpc' \in {"recv", "handoff", "done"}
        /\ hand' \in [to : Calls \cup {None}, frame : Frames \cup {NoFrame}]
        /\ rpc' = "handoff" => hand'.to \in Calls /\ hand'.frame \in Frames
    BY <1>9, <2>1, <2>2 DEF Receive, Claimed, TypeOK
  <2>4. QED
    BY <1>9, <2>2, <2>3 DEF Receive, TypeOK, callerVars, tidVars
<1>10. ASSUME Handoff PROVE TypeOK'
  BY <1>10 DEF Handoff, TypeOK, HasTid, Calls, Tids, Frames, NoFrame, None,
       callerVars, tidVars, netVars
<1>11. ASSUME RunEnds PROVE TypeOK'
  BY <1>11 DEF RunEnds, TypeOK, HasTid, Calls, Tids, Frames, NoFrame, None,
       callerVars, tidVars, netVars
<1>12. ASSUME Answer PROVE TypeOK'
  BY <1>12 DEF Answer, TypeOK, HasTid, Calls, Tids, Frames, NoFrame, None,
       callerVars, tidVars, runVars
<1>13. ASSUME Notify PROVE TypeOK'
  BY <1>13, MaxOwnAssumption DEF Notify, TypeOK, HasTid, Calls, Tids,
       Frames, NoFrame, None, callerVars, tidVars, runVars
<1>14. ASSUME Lose PROVE TypeOK'
  BY <1>14 DEF Lose, TypeOK, HasTid, Calls, Tids, Frames, NoFrame, None,
       callerVars, tidVars, runVars
<1>15. QED
  BY <1>1, <1>2, <1>3, <1>4, <1>5, <1>6, <1>7, <1>8, <1>9, <1>10, <1>11, <1>12, <1>13, <1>14
  DEF Next, GetStep, Network

\* Get begins.
LEMMA StartStep ==
  ASSUME Inv, TypeOK', NEW c \in Callers, Start(c)
  PROVE  Inv'
<1>1. Bounded'
  BY DEF Start, Move, Inv, TypeOK, Bounded, Open, Known, HasTid, Calls,
       Tids, Frames, NoFrame, None, tidVars, netVars, runVars
<1>2. Fresh'
  BY DEF Start, Move, Inv, TypeOK, Fresh, Known, HasTid, Calls, Tids,
       Frames, NoFrame, None, tidVars, netVars, runVars
<1>3. Traced'
  BY DEF Start, Move, Inv, TypeOK, Traced, Genuine, Known, HasTid, Calls,
       Tids, Frames, NoFrame, None, tidVars, netVars, runVars
<1>4. Entries'
  BY DEF Start, Move, Inv, TypeOK, Entries, HasTid, Calls, Tids, Frames,
       NoFrame, None, tidVars, netVars, runVars
<1>5. Overlaps'
  BY DEF Start, Move, Inv, TypeOK, Overlaps, Open, Far, HasTid, Calls,
       Tids, Frames, NoFrame, None, tidVars, netVars, runVars
<1>6. Reachable'
  BY DEF Start, Move, Inv, TypeOK, Reachable, HasTid, Calls, Tids, Frames,
       NoFrame, None, tidVars, netVars, runVars
<1>7. Counted' /\ Apart' /\ HandoffNeverBlocks'
  BY Frame DEF Start, tidVars, netVars, runVars
<1>8. QED
  BY <1>1, <1>2, <1>3, <1>4, <1>5, <1>6, <1>7 DEF Inv

\* A call gets its number and TID.
LEMMA TakeStep ==
  ASSUME Inv, TypeOK', NEW c \in Callers, Take(c)
  PROVE  Inv'
<1>1. Bounded'
  <2>1. Open(c)' /\ \A d \in Callers \ {c} : Open(d)' <=> Open(d)
    BY TakeFacts DEF Open, HasTid
  <2>2. \A d \in Callers : Open(d) => cur[d] # calls + 1
    BY TakeFacts DEF Inv, Bounded
  <2>3. QED
    BY <2>1, <2>2, TakeFacts DEF Inv, Bounded
<1>2. Fresh'
  <2>1. \A q \in Calls \ Known' : resp'[q] = NoFrame
    BY TakeFacts DEF Inv, Fresh
  <2>2. /\ resp'[cur'[c]] = NoFrame
        /\ rpc' = "handoff" => hand'.to # cur'[c]
    BY TakeFacts DEF Inv, Fresh, Bounded
  <2>3. QED
    BY <2>1, <2>2, TakeFacts DEF Inv, Fresh
<1>3. Traced'
  <2>1. \A f : Genuine(f) => Genuine(f)'
    BY TakeFacts DEF Genuine
  <2>2. rpc = "handoff" => hand.to \in Known
    BY DEF Inv, Bounded
  <2>3. \A q \in Calls : resp[q] # NoFrame => q \in Known
    BY DEF Inv, Fresh
  <2>4. \A d \in Callers : ret'[d] # NoFrame => d # c /\ cur'[d] = cur[d]
    BY TakeFacts
  <2>5. QED
    BY <2>1, <2>2, <2>3, <2>4, TakeFacts DEF Inv, Traced
<1>4. Counted'
  <2>1. SUFFICES ASSUME NEW q \in Known', calls' - q < TidSpace - 1
                 PROVE  \/ tid' >= tidOf'[q] /\ calls' - q = tid' - tidOf'[q]
                        \/ /\ tid' < tidOf'[q]
                           /\ calls' - q \in {tid' + TidSpace - tidOf'[q] - 1,
                                              tid' + TidSpace - tidOf'[q]}
    BY DEF Counted
  <2>2. CASE q = calls + 1
    BY <2>2, TakeFacts, TidSpaceAssumption DEF Tids
  <2>3. CASE q \in Known
    <3>1. /\ tid \in 0 .. TidSpace - 1 /\ tidOf[q] \in 0 .. TidSpace - 1
          /\ q \in Int /\ calls \in Int /\ tidOf'[q] = tidOf[q]
          /\ calls' = calls + 1
          /\ tid' = IF tid = TidSpace - 1 THEN 0 ELSE tid + 1
      BY <2>3, TakeFacts DEF Inv, TypeOK, Tids, Known, NextTid
    <3>2. \/ tid >= tidOf[q] /\ calls - q = tid - tidOf[q]
          \/ /\ tid < tidOf[q]
             /\ calls - q \in {tid + TidSpace - tidOf[q] - 1,
                               tid + TidSpace - tidOf[q]}
      BY <2>1, <2>3, <3>1, TidSpaceAssumption DEF Inv, Counted
    <3>3. QED
      BY <2>1, <3>1, <3>2, TidSpaceAssumption
  <2>4. QED
    BY <2>2, <2>3, TakeFacts
<1>5. Apart'
  <2>1. \A q \in Known : tidOf'[q] = tid' => Far(calls', q)
    <3>1. TAKE q \in Known
    <3>2. HAVE tidOf'[q] = tid'
    <3>3. q \in Known' /\ calls' - q > 0 /\ calls' - q \in Int /\ tid' \in Int
      BY TakeFacts DEF Known, Tids
    <3>4. ~ (calls' - q < TidSpace - 1)
      BY <1>4, <3>2, <3>3 DEF Counted
    <3>5. QED
      BY <3>3, <3>4, TidSpaceAssumption DEF Far
  <2>2. \A q \in Known : Far(calls', q) => Far(q, calls')
    BY DEF Far
  <2>3. QED
    BY <2>1, <2>2, TakeFacts DEF Inv, Apart, Far
<1>6. Entries'
  <2>1. \A d \in Callers :
          pc[d] \in {"send", "wait", "close"} =>
            d # c /\ cur[d] \in Known
    BY TakeFacts DEF Inv, Bounded, Open, HasTid
  <2>2. QED
    BY <2>1, TakeFacts DEF Inv, Entries
<1>7. Overlaps'
  <2>1. overlapped \subseteq overlapped'
    BY DEF Take
  <2>2. \A d \in Callers :
          Open(d) /\ Far(calls + 1, cur[d]) =>
            cur[d] \in overlapped' /\ calls + 1 \in overlapped'
    BY DEF Take, OpenCalls, Open
  <2>3. \A d \in Callers :
          Far(cur[d], calls + 1) => Far(calls + 1, cur[d])
    BY DEF Far
  <2>4. ~ Far(calls + 1, calls + 1)
    BY TakeFacts, TidSpaceAssumption DEF Far
  <2>5. \A d \in Callers \ {c} : Open(d)' => Open(d)
    BY TakeFacts DEF Open
  <2>6. QED
    BY <2>1, <2>2, <2>3, <2>4, <2>5, TakeFacts DEF Inv, Overlaps, Far
<1>8. Reachable'
  BY TakeFacts DEF Take, Move, Inv, TypeOK, Reachable, HasTid, Calls, Tids,
       Frames, NoFrame, None, Bounded, Open, Known, netVars, runVars
<1>9. HandoffNeverBlocks'
  BY Frame DEF Take, netVars, runVars
<1>10. QED
  BY <1>1, <1>2, <1>3, <1>4, <1>5, <1>6, <1>7, <1>8, <1>9 DEF Inv

\* The counter passes zero.
LEMMA SkipZeroStep ==
  ASSUME Inv, TypeOK', NEW c \in Callers, SkipZero(c)
  PROVE  Inv'
<1>1. Bounded'
  BY DEF SkipZero, Move, NextTid, Inv, TypeOK, Bounded, Open, Known,
       HasTid, Calls, Tids, Frames, NoFrame, None, netVars, runVars
<1>2. Fresh'
  BY DEF SkipZero, Move, NextTid, Inv, TypeOK, Fresh, Known, HasTid, Calls,
       Tids, Frames, NoFrame, None, netVars, runVars
<1>3. Counted'
  <2>1. SUFFICES ASSUME NEW q \in Known, calls - q < TidSpace - 1
                 PROVE  \/ tid' >= tidOf[q] /\ calls - q = tid' - tidOf[q]
                        \/ /\ tid' < tidOf[q]
                           /\ calls - q \in {tid' + TidSpace - tidOf[q] - 1,
                                             tid' + TidSpace - tidOf[q]}
    BY DEF SkipZero, Counted, Known
  <2>2. /\ tid \in 0 .. TidSpace - 1 /\ tidOf[q] \in 0 .. TidSpace - 1
        /\ q \in Int /\ calls \in Int
        /\ tid = TidSpace - 1 /\ tid' = 0
    BY TidSpaceAssumption, MaxCallsAssumption
    DEF Inv, TypeOK, Tids, Known, Calls, SkipZero, NextTid
  <2>3. \/ tid >= tidOf[q] /\ calls - q = tid - tidOf[q]
        \/ tid < tidOf[q]
    BY <2>1 DEF Inv, Counted
  <2>4. QED
    BY <2>1, <2>2, <2>3, TidSpaceAssumption
<1>4. Entries'
  BY DEF SkipZero, Move, NextTid, Inv, TypeOK, Entries, HasTid, Calls,
       Tids, Frames, NoFrame, None, netVars, runVars
<1>5. Overlaps'
  BY DEF SkipZero, Move, NextTid, Inv, TypeOK, Overlaps, Open, Far, HasTid,
       Calls, Tids, Frames, NoFrame, None, netVars, runVars
<1>6. Reachable'
  BY DEF SkipZero, Move, NextTid, Inv, TypeOK, Reachable, HasTid, Calls,
       Tids, Frames, NoFrame, None, netVars, runVars
<1>7. Traced' /\ Apart' /\ HandoffNeverBlocks'
  BY Frame DEF SkipZero, netVars, runVars
<1>8. QED
  BY <1>1, <1>2, <1>3, <1>4, <1>5, <1>6, <1>7 DEF Inv

\* The entry of a call is made, perhaps over another's.
LEMMA RegisterStep ==
  ASSUME Inv, TypeOK', NEW c \in Callers, Register(c)
  PROVE  Inv'
<1>1. Bounded'
  BY DEF Register, Move, Inv, TypeOK, Bounded, Open, Known, HasTid, Calls,
       Tids, Frames, NoFrame, None, tidVars, netVars, runVars
<1>2. Fresh'
  BY DEF Register, Move, Inv, TypeOK, Fresh, Known, HasTid, Calls, Tids,
       Frames, NoFrame, None, tidVars, netVars, runVars
<1>3. Entries'
  <2>1. /\ pc[c] = "register" /\ pc'[c] = "send" /\ cur[c] \in Calls
        /\ tidOf[cur[c]] \in Tids
        /\ pending' = [pending EXCEPT ![tidOf[cur[c]]] = cur[c]]
        /\ UNCHANGED <<cur, tidOf, resp, rpc, hand>>
        /\ \A d \in Callers \ {c} : pc'[d] = pc[d]
    BY DEF Register, Move, Inv, TypeOK, HasTid, tidVars, runVars
  <2>2. resp[cur[c]] = NoFrame /\ (rpc = "handoff" => hand.to # cur[c])
    BY <2>1 DEF Inv, Fresh
  <2>3. SUFFICES ASSUME NEW t \in Tids, pending'[t] # None
                 PROVE  /\ tidOf[pending'[t]] = t
                        /\ resp[pending'[t]] = NoFrame
                        /\ rpc = "handoff" => hand.to # pending'[t]
                        /\ \E d \in Callers :
                             /\ cur[d] = pending'[t]
                             /\ pc'[d] \in {"send", "wait", "close"}
    BY <2>1 DEF Entries
  <2>4. CASE t = tidOf[cur[c]]
    BY <2>1, <2>2, <2>4 DEF Inv, TypeOK
  <2>5. CASE t # tidOf[cur[c]]
    <3>1. pending'[t] = pending[t]
      BY <2>1, <2>5 DEF Inv, TypeOK
    <3>2. QED
      BY <2>1, <2>3, <3>1 DEF Inv, Entries
  <2>6. QED
    BY <2>4, <2>5
<1>4. Overlaps'
  BY DEF Register, Move, Inv, TypeOK, Overlaps, Open, Far, HasTid, Calls,
       Tids, Frames, NoFrame, None, tidVars, netVars, runVars
<1>5. Reachable'
  BY DEF Register, Move, Inv, TypeOK, Reachable, HasTid, Calls, Tids,
       Frames, NoFrame, None, Bounded, Overlaps, Apart, Entries, Open, Known,
       Far, tidVars, netVars, runVars
<1>6. Traced' /\ Counted' /\ Apart' /\ HandoffNeverBlocks'
  BY Frame DEF Register, tidVars, netVars, runVars
<1>7. QED
  BY <1>1, <1>2, <1>3, <1>4, <1>5, <1>6 DEF Inv

\* The request goes out, or not.
LEMMA SendStep ==
  ASSUME Inv, TypeOK', NEW c \in Callers, Send(c)
  PROVE  Inv'
<1>1. /\ pc[c] = "send" /\ pc'[c] \in {"wait", "close"}
      /\ \A d \in Callers \ {c} : pc'[d] = pc[d]
  BY DEF Send, Move, Inv, TypeOK
<1>2. /\ requests' \subseteq requests \cup {cur[c]}
      /\ UNCHANGED <<cur, ret, calls, tid, tidOf, pending, resp, rpc, hand,
                     overlapped>>
  BY DEF Send, tidVars, runVars
<1>3. \A d \in Callers : Open(d)' <=> Open(d)
  BY <1>1 DEF Open, HasTid
<1>4. Bounded'
  <2>1. Open(c)
    BY <1>1 DEF Open, HasTid
  <2>2. QED
    BY <1>2, <1>3, <2>1 DEF Inv, Bounded, Known
<1>5. Fresh'
  BY <1>1, <1>2 DEF Inv, Fresh, Known
<1>6. Entries'
  <2>1. \A d \in Callers :
          pc[d] \in {"send", "wait", "close"} =>
            pc'[d] \in {"send", "wait", "close"}
    BY <1>1
  <2>2. QED
    BY <1>2, <2>1 DEF Inv, Entries
<1>7. Overlaps'
  BY <1>2, <1>3 DEF Inv, Overlaps, Far
<1>8. Reachable'
  <2>1. \A d \in Callers :
          pc'[d] \in {"send", "wait"} => pc[d] \in {"send", "wait"}
    BY <1>1
  <2>2. QED
    BY <1>2, <2>1 DEF Inv, Reachable
<1>9. Traced' /\ Counted' /\ Apart' /\ HandoffNeverBlocks'
  BY Frame DEF Send, tidVars, runVars
<1>10. QED
  BY <1>4, <1>5, <1>6, <1>7, <1>8, <1>9 DEF Inv

\* The caller takes its frame.
LEMMA AnsweredStep ==
  ASSUME Inv, TypeOK', NEW c \in Callers, Answered(c)
  PROVE  Inv'
<1>1. Bounded'
  BY DEF Answered, Move, Inv, TypeOK, Bounded, Open, Known, HasTid, Calls,
       Tids, Frames, NoFrame, None, tidVars, netVars, runVars
<1>2. Fresh'
  BY DEF Answered, Move, Inv, TypeOK, Fresh, Known, HasTid, Calls, Tids,
       Frames, NoFrame, None, Bounded, Open, tidVars, netVars, runVars
<1>3. Traced'
  BY DEF Answered, Move, Inv, TypeOK, Traced, Genuine, Known, HasTid,
       Calls, Tids, Frames, NoFrame, None, Bounded, Open, tidVars, netVars,
       runVars
<1>4. Entries'
  BY DEF Answered, Move, Inv, TypeOK, Entries, HasTid, Calls, Tids, Frames,
       NoFrame, None, tidVars, netVars, runVars
<1>5. HandoffNeverBlocks'
  BY DEF Answered, Move, Inv, TypeOK, HandoffNeverBlocks, HasTid, Calls,
       Tids, Frames, NoFrame, None, tidVars, netVars, runVars
<1>6. Overlaps'
  BY DEF Answered, Move, Inv, TypeOK, Overlaps, Open, Far, HasTid, Calls,
       Tids, Frames, NoFrame, None, tidVars, netVars, runVars
<1>7. Reachable'
  BY DEF Answered, Move, Inv, TypeOK, Reachable, HasTid, Calls, Tids,
       Frames, NoFrame, None, Bounded, Open, tidVars, netVars, runVars
<1>8. Counted' /\ Apart'
  BY Frame DEF Answered, tidVars, netVars, runVars
<1>9. QED
  BY <1>1, <1>2, <1>3, <1>4, <1>5, <1>6, <1>7, <1>8 DEF Inv

\* The caller gives up.
LEMMA TimeoutStep ==
  ASSUME Inv, TypeOK', NEW c \in Callers, Timeout(c)
  PROVE  Inv'
<1>1. Bounded'
  BY DEF Timeout, Move, Inv, TypeOK, Bounded, Open, Known, HasTid, Calls,
       Tids, Frames, NoFrame, None, tidVars, netVars, runVars
<1>2. Fresh'
  BY DEF Timeout, Move, Inv, TypeOK, Fresh, Known, HasTid, Calls, Tids,
       Frames, NoFrame, None, tidVars, netVars, runVars
<1>3. Entries'
  BY DEF Timeout, Move, Inv, TypeOK, Entries, HasTid, Calls, Tids, Frames,
       NoFrame, None, tidVars, netVars, runVars
<1>4. Overlaps'
  BY DEF Timeout, Move, Inv, TypeOK, Overlaps, Open, Far, HasTid, Calls,
       Tids, Frames, NoFrame, None, tidVars, netVars, runVars
<1>5. Reachable'
  BY DEF Timeout, Move, Inv, TypeOK, Reachable, HasTid, Calls, Tids,
       Frames, NoFrame, None, tidVars, netVars, runVars
<1>6. Traced' /\ Counted' /\ Apart' /\ HandoffNeverBlocks'
  BY Frame DEF Timeout, tidVars, netVars, runVars
<1>7. QED
  BY <1>1, <1>2, <1>3, <1>4, <1>5, <1>6 DEF Inv

\* The deferred delete.
LEMMA CloseStep ==
  ASSUME Inv, TypeOK', NEW c \in Callers, Close(c)
  PROVE  Inv'
<1>1. Bounded'
  BY DEF Close, Move, Unregistered, Inv, TypeOK, Bounded, Open, Known,
       HasTid, Calls, Tids, Frames, NoFrame, None, tidVars, netVars, runVars
<1>2. Fresh'
  BY DEF Close, Move, Unregistered, Inv, TypeOK, Fresh, Known, HasTid,
       Calls, Tids, Frames, NoFrame, None, tidVars, netVars, runVars
<1>3. Entries'
  <2>1. /\ pc[c] = "close" /\ pc' = [pc EXCEPT ![c] = "idle"]
        /\ cur[c] \in Calls /\ tidOf[cur[c]] \in Tids
        /\ pending' = [pending EXCEPT ![tidOf[cur[c]]] = None]
        /\ UNCHANGED <<cur, tidOf, resp, rpc, hand>>
    BY DEF Close, Move, Unregistered, Inv, TypeOK, HasTid, tidVars, runVars
  <2>2. SUFFICES ASSUME NEW t \in Tids, pending'[t] # None
                 PROVE  /\ tidOf[pending'[t]] = t
                        /\ resp[pending'[t]] = NoFrame
                        /\ rpc = "handoff" => hand.to # pending'[t]
                        /\ \E d \in Callers :
                             /\ cur[d] = pending'[t]
                             /\ pc'[d] \in {"send", "wait", "close"}
    BY <2>1 DEF Entries
  <2>3. t # tidOf[cur[c]] /\ pending'[t] = pending[t]
    BY <2>1, <2>2 DEF Inv, TypeOK
  <2>4. PICK d \in Callers : /\ cur[d] = pending[t]
                             /\ pc[d] \in {"send", "wait", "close"}
    BY <2>2, <2>3 DEF Inv, Entries
  <2>5. d # c /\ pc'[d] = pc[d]
    BY <2>1, <2>2, <2>3, <2>4 DEF Inv, TypeOK, Entries
  <2>6. QED
    BY <2>2, <2>3, <2>4, <2>5 DEF Inv, Entries
<1>4. Overlaps'
  BY DEF Close, Move, Unregistered, Inv, TypeOK, Overlaps, Open, Far,
       HasTid, Calls, Tids, Frames, NoFrame, None, tidVars, netVars, runVars
<1>5. Reachable'
  BY DEF Close, Move, Unregistered, Inv, TypeOK, Reachable, HasTid, Calls,
       Tids, Frames, NoFrame, None, Bounded, Overlaps, Apart, Entries, Open,
       Known, Far, tidVars, netVars, runVars
<1>6. Traced' /\ Counted' /\ Apart' /\ HandoffNeverBlocks'
  BY Frame DEF Close, tidVars, netVars, runVars
<1>7. QED
  BY <1>1, <1>2, <1>3, <1>4, <1>5, <1>6 DEF Inv

\* The dispatcher claims an entry, or drops the frame.
LEMMA ReceiveStep ==
  ASSUME Inv, TypeOK', Receive
  PROVE  Inv'
<1>1. /\ rpc = "recv"
      /\ UNCHANGED <<pc, cur, ret, calls, tid, tidOf, resp, requests, overlapped>>
      /\ \/ rpc' # "handoff"
         \/ \E f \in net : /\ pending[f.tid] # None
                           /\ hand' = [to |-> pending[f.tid], frame |-> f]
  BY DEF Receive, Claimed, callerVars, tidVars
<1>2. rpc' = "handoff" =>
        /\ \E d \in Callers : Open(d) /\ cur[d] = hand'.to
        /\ \A d \in Callers : pc[d] = "register" => hand'.to # cur[d]
  <2>1. SUFFICES ASSUME NEW f \in net, pending[f.tid] # None,
                        hand' = [to |-> pending[f.tid], frame |-> f]
                 PROVE  /\ \E d \in Callers : Open(d) /\ cur[d] = hand'.to
                        /\ \A d \in Callers :
                             pc[d] = "register" => hand'.to # cur[d]
    BY <1>1
  <2>2. f.tid \in Tids /\ hand'.to = pending[f.tid]
    BY <2>1 DEF Inv, TypeOK, Frames
  <2>3. PICK d \in Callers : /\ cur[d] = pending[f.tid]
                             /\ pc[d] \in {"send", "wait", "close"}
    BY <2>1, <2>2 DEF Inv, Entries
  <2>4. Open(d)
    BY <2>3 DEF Open, HasTid
  <2>5. ASSUME NEW e \in Callers, pc[e] = "register"
        PROVE  hand'.to # cur[e]
    BY <2>2, <2>3, <2>4, <2>5 DEF Inv, Bounded, Open, HasTid
  <2>6. QED
    BY <2>2, <2>3, <2>4, <2>5
<1>3. Bounded'
  <2>1. \A d \in Callers : Open(d)' <=> Open(d)
    BY <1>1 DEF Open
  <2>2. rpc' = "handoff" => hand'.to \in Known
    BY <1>2 DEF Inv, Bounded
  <2>3. QED
    BY <1>1, <2>1, <2>2 DEF Inv, Bounded, Known
<1>4. Fresh'
  BY <1>1, <1>2 DEF Inv, Fresh, Known
<1>5. Traced'
  BY DEF Receive, Claimed, Inv, TypeOK, Traced, Genuine, Known, HasTid,
       Calls, Tids, Frames, NoFrame, None, Entries, callerVars, tidVars
<1>6. Entries'
  <2>1. PICK f \in net :
          IF pending[f.tid] # None
          THEN /\ hand' = [to |-> pending[f.tid], frame |-> f]
               /\ pending' = [pending EXCEPT ![f.tid] = None]
          ELSE UNCHANGED <<pending, rpc, hand>>
    BY DEF Receive, Claimed
  <2>2. CASE pending[f.tid] = None
    BY <1>1, <2>1, <2>2 DEF Inv, Entries
  <2>3. CASE pending[f.tid] # None
    <3>1. f.tid \in Tids /\ hand'.to = pending[f.tid]
      BY <2>1, <2>3 DEF Inv, TypeOK, Frames
    <3>2. ASSUME NEW t \in Tids, pending'[t] # None
          PROVE  t # f.tid /\ pending'[t] = pending[t]
      BY <2>1, <2>3, <3>1, <3>2 DEF Inv, TypeOK
    <3>3. \A t \in Tids : pending[t] # None => tidOf[pending[t]] = t
      BY DEF Inv, Entries
    <3>4. QED
      BY <1>1, <3>1, <3>2, <3>3, <2>3 DEF Inv, Entries
  <2>4. QED
    BY <2>2, <2>3
<1>7. HandoffNeverBlocks'
  BY DEF Receive, Claimed, Inv, TypeOK, HandoffNeverBlocks, HasTid, Calls,
       Tids, Frames, NoFrame, None, Entries, callerVars, tidVars
<1>8. Reachable'
  BY DEF Receive, Claimed, Inv, TypeOK, Reachable, HasTid, Calls, Tids,
       Frames, NoFrame, None, callerVars, tidVars
<1>9. Counted' /\ Apart' /\ Overlaps'
  BY Frame DEF Receive, callerVars, tidVars
<1>10. QED
  BY <1>3, <1>4, <1>5, <1>6, <1>7, <1>8, <1>9 DEF Inv

\* The dispatcher sends on the channel.
LEMMA HandoffStep ==
  ASSUME Inv, TypeOK', Handoff
  PROVE  Inv'
<1>1. Bounded'
  BY DEF Handoff, Inv, TypeOK, Bounded, Open, Known, HasTid, Calls, Tids,
       Frames, NoFrame, None, callerVars, tidVars, netVars
<1>2. Fresh'
  BY DEF Handoff, Inv, TypeOK, Fresh, Known, HasTid, Calls, Tids, Frames,
       NoFrame, None, Bounded, callerVars, tidVars, netVars
<1>3. Traced'
  BY DEF Handoff, Inv, TypeOK, Traced, Genuine, Known, HasTid, Calls, Tids,
       Frames, NoFrame, None, callerVars, tidVars, netVars
<1>4. Entries'
  BY DEF Handoff, Inv, TypeOK, Entries, HasTid, Calls, Tids, Frames,
       NoFrame, None, callerVars, tidVars, netVars
<1>5. HandoffNeverBlocks'
  BY DEF Handoff, Inv, TypeOK, HandoffNeverBlocks, HasTid, Calls, Tids,
       Frames, NoFrame, None, callerVars, tidVars, netVars
<1>6. Reachable'
  BY DEF Handoff, Inv, TypeOK, Reachable, HasTid, Calls, Tids, Frames,
       NoFrame, None, callerVars, tidVars, netVars
<1>7. Counted' /\ Apart' /\ Overlaps'
  BY Frame DEF Handoff, callerVars, tidVars, netVars
<1>8. QED
  BY <1>1, <1>2, <1>3, <1>4, <1>5, <1>6, <1>7 DEF Inv

\* The dispatcher stops.
LEMMA RunEndsStep ==
  ASSUME Inv, TypeOK', RunEnds
  PROVE  Inv'
<1>1. Bounded'
  BY DEF RunEnds, Inv, TypeOK, Bounded, Open, Known, HasTid, Calls, Tids,
       Frames, NoFrame, None, callerVars, tidVars, netVars
<1>2. Fresh'
  BY DEF RunEnds, Inv, TypeOK, Fresh, Known, HasTid, Calls, Tids, Frames,
       NoFrame, None, callerVars, tidVars, netVars
<1>3. Traced'
  BY DEF RunEnds, Inv, TypeOK, Traced, Genuine, Known, HasTid, Calls, Tids,
       Frames, NoFrame, None, callerVars, tidVars, netVars
<1>4. Entries'
  BY DEF RunEnds, Inv, TypeOK, Entries, HasTid, Calls, Tids, Frames,
       NoFrame, None, callerVars, tidVars, netVars
<1>5. HandoffNeverBlocks'
  BY DEF RunEnds, Inv, TypeOK, HandoffNeverBlocks, HasTid, Calls, Tids,
       Frames, NoFrame, None, callerVars, tidVars, netVars
<1>6. Reachable'
  BY DEF RunEnds, Inv, TypeOK, Reachable, HasTid, Calls, Tids, Frames,
       NoFrame, None, callerVars, tidVars, netVars
<1>7. Counted' /\ Apart' /\ Overlaps'
  BY Frame DEF RunEnds, callerVars, tidVars, netVars
<1>8. QED
  BY <1>1, <1>2, <1>3, <1>4, <1>5, <1>6, <1>7 DEF Inv

\* The meter answers.
LEMMA AnswerStep ==
  ASSUME Inv, TypeOK', Answer
  PROVE  Inv'
<1>1. Bounded'
  BY DEF Answer, Inv, TypeOK, Bounded, Open, Known, HasTid, Calls, Tids,
       Frames, NoFrame, None, callerVars, tidVars, runVars
<1>2. Traced'
  BY DEF Answer, Inv, TypeOK, Traced, Genuine, Known, HasTid, Calls, Tids,
       Frames, NoFrame, None, Bounded, callerVars, tidVars, runVars
<1>3. /\ Fresh' /\ Counted' /\ Apart' /\ Entries' /\ HandoffNeverBlocks'
      /\ Overlaps' /\ Reachable'
  BY Frame DEF Answer, callerVars, tidVars, runVars
<1>4. QED
  BY <1>1, <1>2, <1>3 DEF Inv

\* The meter speaks unasked.
LEMMA NotifyStep ==
  ASSUME Inv, TypeOK', Notify
  PROVE  Inv'
<1>1. Traced'
  <2>1. PICK t \in Tids : net' = net \cup {[tid |-> t, of |-> None]}
    BY DEF Notify
  <2>2. Genuine([tid |-> t, of |-> None])
    BY DEF Genuine
  <2>3. \A f \in net' : Genuine(f)
    BY <2>1, <2>2 DEF Inv, Traced
  <2>4. QED
    BY <2>3 DEF Notify, Inv, Traced, Genuine, Known, callerVars, tidVars, runVars
<1>2. /\ Bounded' /\ Fresh' /\ Counted' /\ Apart' /\ Entries'
      /\ HandoffNeverBlocks' /\ Overlaps' /\ Reachable'
  BY Frame DEF Notify, callerVars, tidVars, runVars
<1>3. QED
  BY <1>1, <1>2 DEF Inv

\* A frame is lost.
LEMMA LoseStep ==
  ASSUME Inv, TypeOK', Lose
  PROVE  Inv'
<1>1. Traced'
  BY DEF Lose, Inv, TypeOK, Traced, Genuine, Known, HasTid, Calls, Tids,
       Frames, NoFrame, None, callerVars, tidVars, runVars
<1>2. /\ Bounded' /\ Fresh' /\ Counted' /\ Apart' /\ Entries'
      /\ HandoffNeverBlocks' /\ Overlaps' /\ Reachable'
  BY Frame DEF Lose, callerVars, tidVars, runVars
<1>3. QED
  BY <1>1, <1>2 DEF Inv

-----------------------------------------------------------------------------
(* The theorems.                                                           *)

\* The first state satisfies the invariant.
LEMMA InvInit == Init => Inv
<1> SUFFICES ASSUME Init PROVE Inv
  OBVIOUS
<1>1. TypeOK
  BY TidSpaceAssumption, MaxCallsAssumption, MaxOwnAssumption
  DEF Init, TypeOK, HasTid, Calls, Tids, Frames, NoFrame, None
<1>2. Bounded /\ Fresh /\ Overlaps /\ Reachable
  BY DEF Init, Bounded, Fresh, Overlaps, Reachable, Open, HasTid, Known
<1>3. Traced /\ Counted /\ Apart
  BY DEF Init, Traced, Counted, Apart, Known
<1>4. Entries /\ HandoffNeverBlocks
  BY DEF Init, Entries, HandoffNeverBlocks
<1>5. QED
  BY <1>1, <1>2, <1>3, <1>4 DEF Inv

\* Every step keeps it.
LEMMA InvStep == Inv /\ [Next]_vars => Inv'
<1> SUFFICES ASSUME Inv, [Next]_vars PROVE Inv'
  OBVIOUS
<1>1. CASE Next
  <2>1. TypeOK'
    BY <1>1, TypeStep DEF Inv
  <2>2. QED
    BY <1>1, <2>1, StartStep, TakeStep, SkipZeroStep, RegisterStep, SendStep,
       AnsweredStep, TimeoutStep, CloseStep, ReceiveStep, HandoffStep, RunEndsStep,
       AnswerStep, NotifyStep, LoseStep
    DEF Next, GetStep, Network
<1>2. CASE UNCHANGED vars
  BY <1>2, Frame
  DEF Inv, TypeOK, vars, callerVars, tidVars, netVars, runVars
<1>3. QED
  BY <1>1, <1>2

\* The inductive invariant holds in every reachable state of the client.
THEOREM InvCorrect == Spec => []Inv
BY InvInit, InvStep, PTL DEF Spec

\* The types of the client's variables (meter.go:19-83), for every number of
\* callers, calls and TIDs.
THEOREM TypeCorrect == Spec => []TypeOK
<1>1. Inv => TypeOK
  BY DEF Inv
<1>2. QED
  BY <1>1, InvCorrect, PTL

\* The dispatcher never blocks in its hand-off (meter.go:78).
THEOREM HandoffCorrect == Spec => []HandoffNeverBlocks
<1>1. Inv => HandoffNeverBlocks
  BY DEF Inv
<1>2. QED
  BY <1>1, InvCorrect, PTL

\* A call never gets the response of a call fewer than TidSpace - 1 calls away
\* (meter.go:68-78, 97-112): for TidSpace = 2^16, of any of its 65534 neighbours.
THEOREM OwnResponseCorrect == Spec => []OwnResponse
<1>1. ASSUME Inv PROVE OwnResponse
  <2>1. SUFFICES ASSUME NEW c \in Callers, ret[c] # NoFrame, ret[c].of # None
                 PROVE  ret[c].of = cur[c] \/ Far(cur[c], ret[c].of)
    BY DEF OwnResponse
  <2>2. /\ ret[c].of \in Known /\ cur[c] \in Known
        /\ tidOf[ret[c].of] = tidOf[cur[c]]
    BY <1>1, <2>1 DEF Inv, Traced, Genuine
  <2>3. QED
    BY <1>1, <2>2 DEF Inv, Apart
<1>2. QED
  BY <1>1, InvCorrect, PTL

\* A waiting call can be reached by its response (meter.go:104-112).
THEOREM WaitingCorrect == Spec => []WaitingIsReachable
<1>1. Inv => WaitingIsReachable
  BY DEF Inv, Reachable, WaitingIsReachable
<1>2. QED
  BY <1>1, InvCorrect, PTL

\* The map holds open calls only (meter.go:68-77, 108-112).
THEOREM NoLeftoverCorrect == Spec => []NoLeftover
<1>1. Inv => NoLeftover
  BY DEF Inv, Entries, NoLeftover, OpenCalls, HasTid
<1>2. QED
  BY <1>1, InvCorrect, PTL
=============================================================================
