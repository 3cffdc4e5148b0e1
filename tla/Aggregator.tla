----------------------------- MODULE Aggregator -----------------------------
(***************************************************************************)
(* What a down-sampling sink promises (internal/sink/downsample.go:51-56): *)
(* a sample is accepted under the key of its series and window, and leaves *)
(* once, in an aggregate of samples of that key and no other.  Nothing is  *)
(* said of when, nor of how many aggregates a key is cut into.  With one   *)
(* writer no accepted sample is ever dropped.                              *)
(***************************************************************************)
CONSTANTS
  Samples,
  Keys,
  Lossy       \* whether accepted samples may be dropped

VARIABLES
  key,        \* the key of each accepted sample
  held,       \* accepted samples that have not left
  emitted     \* the samples that have left in an aggregate

avars == <<key, held, emitted>>

Init == key = [s \in {} |-> {}] /\ held = {} /\ emitted = {}

Accept(s, k) ==
  /\ s \notin DOMAIN key
  /\ key' = [x \in DOMAIN key \cup {s} |-> IF x = s THEN k ELSE key[x]]
  /\ held' = held \cup {s}
  /\ UNCHANGED emitted

Emit(B) ==
  /\ B # {} /\ \A s, t \in B : key[s] = key[t]
  /\ held' = held \ B
  /\ emitted' = emitted \cup B
  /\ UNCHANGED key

Drop(B) ==
  /\ Lossy
  /\ held' = held \ B
  /\ UNCHANGED <<key, emitted>>

Next ==
  \/ \E s \in Samples, k \in Keys : Accept(s, k)
  \/ \E B \in SUBSET held : Emit(B) \/ Drop(B)

Spec == Init /\ [][Next]_avars
=============================================================================
