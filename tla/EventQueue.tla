----------------------------- MODULE EventQueue -----------------------------
(***************************************************************************)
(* What the serial driver promises to whoever drains its events            *)
(* (Events, internal/bp35c2/driver.go:139-140, 378-392): a bounded queue   *)
(* that takes every event, in the order of the module, and makes room by   *)
(* losing its oldest entry.  An entry is lost only if the queue was full   *)
(* when the event that displaces it arrived; it need not be full any more  *)
(* when that event gets its place, since the consumer is not kept out      *)
(* meanwhile.  Events are numbered.                                        *)
(***************************************************************************)
EXTENDS Integers, Sequences

CONSTANT Cap      \* capacity of the queue

VARIABLES
  queue,          \* the events in it, oldest first
  entered,        \* the last event that got its place
  crowded         \* the next event has found the queue full

qvars == <<queue, entered, crowded>>

Init == queue = <<>> /\ entered = 0 /\ crowded = FALSE

\* The next event enters behind what is left of the queue.
Enter(rest) ==
  /\ queue' = Append(rest, entered + 1)
  /\ entered' = entered + 1
  /\ crowded' = FALSE

Add == ~crowded /\ Len(queue) < Cap /\ Enter(queue)

FindFull ==
  /\ ~crowded /\ Len(queue) = Cap
  /\ crowded' = TRUE
  /\ UNCHANGED <<queue, entered>>

Displace == crowded /\ Enter(IF queue = <<>> THEN queue ELSE Tail(queue))

Remove ==
  /\ queue # <<>>
  /\ queue' = Tail(queue)
  /\ UNCHANGED <<entered, crowded>>

Next == Add \/ FindFull \/ Displace \/ Remove

Spec == Init /\ [][Next]_qvars
=============================================================================
