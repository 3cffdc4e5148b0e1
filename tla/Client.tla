------------------------------- MODULE Client -------------------------------
(***************************************************************************)
(* The meter client: internal/meter/meter.go.                              *)
(*                                                                         *)
(* Concurrent Get (and SetC) calls send a request each and wait for a      *)
(* response, which one dispatcher goroutine matches to them by its 16-bit  *)
(* transaction identifier (TID) alone.  The radio network loses, delays,   *)
(* repeats and reorders frames, and the meter sends some of its own.       *)
(*                                                                         *)
(* Calls are numbered; a frame carries its TID and, as a ghost, the call   *)
(* it answers (None: the meter's own).  The content of a frame is          *)
(* abstracted away, and so is the incoming channel, whose overflow is one  *)
(* more loss.  TIDs wrap at TidSpace, 2^16 in the code.  Definitions named *)
(* X_Slip... are X with one plausible error (see Driver).                  *)
(***************************************************************************)
EXTENDS Integers

CONSTANTS
  Callers,     \* goroutines that call Get
  TidSpace,    \* number of TIDs: 2^16
  MaxCalls,    \* bound on the calls
  MaxOwn       \* bound on the frames the meter sends on its own account

ASSUME TidSpaceAssumption == TidSpace \in Nat /\ TidSpace > 1
ASSUME MaxCallsAssumption == MaxCalls \in Nat
ASSUME MaxOwnAssumption == MaxOwn \in Nat

None == 0
Calls == 1 .. MaxCalls
Tids == 0 .. TidSpace - 1
Frames == [tid : Tids, of : Calls \cup {None}]
NoFrame == [tid |-> 0, of |-> -1]

VARIABLES
  pc, cur, ret,         \* each caller: step, call, the frame it got
  calls, tid, tidOf,    \* number of calls, the counter c.tid, a call's TID
  pending,              \* c.pending: the call registered for a TID, or None
  resp,                 \* the response channel of each call (cap 1)
  requests, net, own,   \* requests on their way, frames on their way, own frames
  rpc, hand,            \* the dispatcher: step, the frame and its channel
  overlapped            \* history: calls open together and Far apart

callerVars == <<pc, cur, ret>>
tidVars == <<calls, tid, tidOf>>
netVars == <<requests, net, own>>
runVars == <<rpc, hand>>
vars == <<callerVars, tidVars, pending, resp, netVars, runVars, overlapped>>

Init ==
  /\ pc = [c \in Callers |-> "idle"]
  /\ cur = [c \in Callers |-> None]
  /\ ret = [c \in Callers |-> NoFrame]
  /\ calls = 0 /\ tid = 1 /\ tidOf = [q \in Calls |-> 0]
  /\ pending = [t \in Tids |-> None]
  /\ resp = [q \in Calls |-> NoFrame]
  /\ requests = {} /\ net = {} /\ own = 0
  /\ rpc = "recv" /\ hand = [to |-> None, frame |-> NoFrame]
  /\ overlapped = {}

-----------------------------------------------------------------------------
(* Get.                                                                     *)

Move(c, from, to) == pc[c] = from /\ pc' = [pc EXCEPT ![c] = to]

\* WaitConnected has returned a session; without one Get ends here.
Start(c) ==
  /\ Move(c, "idle", "alloc") /\ calls < MaxCalls
  /\ ret' = [ret EXCEPT ![c] = NoFrame]
  /\ UNCHANGED <<cur, tidVars, pending, resp, netVars, runVars, overlapped>>

NextTid_SlipNoWrap == tid + 1
NextTid_SlipLoad == tid
\* c.tid.Add(1), truncated to 16 bits.
NextTid == IF tid = TidSpace - 1 THEN 0 ELSE tid + 1

HasTid == {"register", "send", "wait", "close"}
OpenCalls == {cur[c] : c \in {d \in Callers : pc[d] \in HasTid}}

\* Calls so far apart that the counter may have come round to the same TID.
Far(q, r) == q - r >= TidSpace - 1 \/ r - q >= TidSpace - 1

\* A number for the call, and the TID that the counter gives it.
Take(c) ==
  LET q == calls + 1
      old == {r \in OpenCalls : Far(q, r)}
  IN /\ calls < MaxCalls /\ calls' = q
     /\ \/ Move(c, "alloc", "register") /\ NextTid # 0
        \/ Move(c, "again", "register")
     /\ cur' = [cur EXCEPT ![c] = q]
     /\ tid' = NextTid /\ tidOf' = [tidOf EXCEPT ![q] = NextTid]
     /\ overlapped' = overlapped \cup old \cup (IF old = {} THEN {} ELSE {q})
     /\ UNCHANGED <<ret, pending, resp, netVars, runVars>>

\* Zero is skipped, once.
SkipZero(c) ==
  /\ Move(c, "alloc", "again") /\ NextTid = 0 /\ tid' = 0
  /\ UNCHANGED <<cur, ret, calls, tidOf, pending, resp, netVars, runVars, overlapped>>

Register(c) ==
  /\ Move(c, "register", "send")
  /\ pending' = [pending EXCEPT ![tidOf[cur[c]]] = cur[c]]
  /\ UNCHANGED <<cur, ret, tidVars, resp, netVars, runVars, overlapped>>

\* SendUDP: the request goes out, or an error is returned, which does not mean
\* that the request has not gone out.
Send(c) ==
  /\ \/ Move(c, "send", "wait") /\ requests' = requests \cup {cur[c]}
     \/ /\ Move(c, "send", "close")
        /\ requests' \in {requests, requests \cup {cur[c]}}
  /\ UNCHANGED <<cur, ret, tidVars, pending, resp, net, own, runVars, overlapped>>

Answered(c) ==
  /\ Move(c, "wait", "close") /\ resp[cur[c]] # NoFrame
  /\ ret' = [ret EXCEPT ![c] = resp[cur[c]]]
  /\ resp' = [resp EXCEPT ![cur[c]] = NoFrame]
  /\ UNCHANGED <<cur, tidVars, pending, netVars, runVars, overlapped>>

Timeout(c) ==
  /\ Move(c, "wait", "close")
  /\ UNCHANGED <<cur, ret, tidVars, pending, resp, netVars, runVars, overlapped>>

\* The deferred delete is by TID: it takes whatever call is registered there.
Unregistered_SlipKept(c) == pending
Unregistered_SlipCounter(c) == [pending EXCEPT ![tid] = None]
Unregistered(c) == [pending EXCEPT ![tidOf[cur[c]]] = None]

Close(c) ==
  /\ Move(c, "close", "idle")
  /\ pending' = Unregistered(c)
  /\ UNCHANGED <<cur, ret, tidVars, resp, netVars, runVars, overlapped>>

-----------------------------------------------------------------------------
(* Run: the dispatcher.                                                     *)

Claimed_SlipLeft(t) == pending
Claimed(t) == [pending EXCEPT ![t] = None]

\* A frame is taken from the network, which may deliver it again.  Its entry is
\* removed under the lock; without one the frame is dropped.
Receive ==
  /\ rpc = "recv"
  /\ \E f \in net :
       /\ net' \in {net, net \ {f}}
       /\ IF pending[f.tid] # None
          THEN /\ hand' = [to |-> pending[f.tid], frame |-> f]
               /\ pending' = Claimed(f.tid)
               /\ rpc' = "handoff"
          ELSE UNCHANGED <<pending, rpc, hand>>
  /\ UNCHANGED <<callerVars, tidVars, resp, requests, own, overlapped>>

\* The context is cancelled or the incoming channel is closed.
RunEnds ==
  /\ rpc = "recv" /\ rpc' = "done"
  /\ UNCHANGED <<callerVars, tidVars, pending, resp, netVars, hand, overlapped>>

\* ch <- &f outside the lock; it would block on a full channel.
Handoff ==
  /\ rpc = "handoff" /\ resp[hand.to] = NoFrame
  /\ resp' = [resp EXCEPT ![hand.to] = hand.frame]
  /\ rpc' = "recv"
  /\ hand' = [to |-> None, frame |-> NoFrame]
  /\ UNCHANGED <<callerVars, tidVars, pending, netVars, overlapped>>

-----------------------------------------------------------------------------
(* The meter and the network (external).                                    *)

Answer ==
  /\ \E q \in requests :
       /\ requests' = requests \ {q}
       /\ net' = net \cup {[tid |-> tidOf[q], of |-> q]}
  /\ UNCHANGED <<callerVars, tidVars, pending, resp, own, runVars, overlapped>>

\* A notification: the meter chooses its TID.
Notify ==
  /\ own < MaxOwn /\ own' = own + 1
  /\ \E t \in Tids : net' = net \cup {[tid |-> t, of |-> None]}
  /\ UNCHANGED <<callerVars, tidVars, pending, resp, requests, runVars, overlapped>>

\* A lost request is one whose answer is lost.
Lose ==
  /\ \E f \in net : net' = net \ {f}
  /\ UNCHANGED <<callerVars, tidVars, pending, resp, requests, own, runVars, overlapped>>

-----------------------------------------------------------------------------
GetStep(c) ==
  \/ Take(c) \/ SkipZero(c) \/ Register(c) \/ Send(c) \/ Answered(c) \/ Close(c)

Network == Answer \/ Notify \/ Lose

Next ==
  \/ \E c \in Callers : Start(c) \/ GetStep(c) \/ Timeout(c)
  \/ Receive \/ Handoff \/ RunEnds
  \/ Network

Spec == Init /\ [][Next]_vars

-----------------------------------------------------------------------------
(* Properties.                                                              *)

\* The types of the variables; a caller with a TID has a call, and the
\* dispatcher holds a frame exactly while it hands it over (meter.go:19-83).
TypeOK ==
  /\ pc \in [Callers -> {"idle", "alloc", "again"} \cup HasTid]
  /\ cur \in [Callers -> Calls \cup {None}]
  /\ \A c \in Callers : pc[c] \in HasTid => cur[c] \in Calls
  /\ ret \in [Callers -> Frames \cup {NoFrame}]
  /\ calls \in 0 .. MaxCalls /\ tid \in Tids /\ tidOf \in [Calls -> Tids]
  /\ pending \in [Tids -> Calls \cup {None}]
  /\ resp \in [Calls -> Frames \cup {NoFrame}]
  /\ requests \subseteq Calls /\ net \subseteq Frames /\ own \in 0 .. MaxOwn
  /\ rpc \in {"recv", "handoff", "done"}
  /\ hand \in [to : Calls \cup {None}, frame : Frames \cup {NoFrame}]
  /\ rpc = "handoff" => hand.to \in Calls /\ hand.frame \in Frames
  /\ overlapped \subseteq Calls

\* The dispatcher never blocks in ch <- &f (meter.go:78): a call is handed one
\* frame, since its entry is gone when a repeated frame arrives.  A blocked
\* dispatcher would stop every Get of the program.
HandoffNeverBlocks == rpc = "handoff" => resp[hand.to] = NoFrame

\* A call is never given the response of another call, whatever the network
\* repeats, delays or reorders, unless the other one was made at least
\* TidSpace - 1 calls earlier or later (meter.go:68-78, 97-112).
OwnResponse ==
  \A c \in Callers :
    ret[c] # NoFrame => ret[c].of \in {cur[c], None} \/ Far(cur[c], ret[c].of)

\* While a call waits it can be reached: it is in the map, or a frame is in its
\* channel or on the way there.  No other call's registration or deferred
\* delete, both by TID, takes its entry away, unless the other one is open at
\* the same time and TidSpace - 1 calls apart (meter.go:104-112).
WaitingIsReachable ==
  \A c \in Callers :
    pc[c] = "wait" /\ cur[c] \notin overlapped =>
      \/ pending[tidOf[cur[c]]] = cur[c]
      \/ rpc = "handoff" /\ hand.to = cur[c]
      \/ resp[cur[c]] # NoFrame

\* The map keeps no entry of a call that has returned, so that it cannot grow
\* and a late response finds nothing (meter.go:68-77, 108-112).
NoLeftover == \A t \in Tids : pending[t] # None => pending[t] \in OpenCalls
=============================================================================
