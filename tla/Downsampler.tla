----------------------------- MODULE Downsampler -----------------------------
(***************************************************************************)
(* The down-sampler: internal/sink/downsample.go.                          *)
(*                                                                         *)
(* Samples of a series are collected per time window; the aggregate of a   *)
(* window goes to the inner sink when a sample of another window arrives,  *)
(* when the series has been idle, or at Close.  Buffers are changed under  *)
(* one mutex, the inner sink is called outside it.                         *)
(*                                                                         *)
(* Samples are numbered; an aggregate is abstracted to the samples it was  *)
(* computed from.  Time is abstracted to the windows of the samples, which *)
(* may come in any order, and to the flusher, which may find any series    *)
(* idle.  The errors of the inner sink are dropped by the code.            *)
(***************************************************************************)
EXTENDS Integers, FiniteSets

CONSTANTS
  Writers,      \* goroutines that call Write
  Series,       \* metric and tags
  Windows,      \* the starts of the windows
  MaxSamples    \* bound on the samples

ASSUME SamplesAssumption == MaxSamples \in Nat
ASSUME WritersAssumption == IsFiniteSet(Writers)

Samples == 1 .. MaxSamples
None == 0
Buffer == [series : Series, win : Windows, samples : SUBSET Samples]

VARIABLES
  pc, cur, hand,        \* each writer: step, sample, the window it forwards
  samples, at,          \* number of samples, series and window of each
  bufs,                 \* d.bufs, at most one window for a series
  flusher, flushing,    \* backgroundFlush: step, the windows it emits
  closer, closing,      \* Close: step, the windows it emits
  times,                \* how often a sample went to the inner sink
  raced                 \* history: samples whose buffer Write replaced

writerVars == <<pc, cur, hand, samples, at>>
vars == <<writerVars, bufs, flusher, flushing, closer, closing, times, raced>>

Init ==
  /\ pc = [w \in Writers |-> "idle"]
  /\ cur = [w \in Writers |-> None]
  /\ hand = [w \in Writers |-> {}]
  /\ samples = 0 /\ at = [s \in {} |-> None]
  /\ bufs = {}
  /\ flusher = "tick" /\ flushing = {}
  /\ closer = "open" /\ closing = {}
  /\ times = [s \in Samples |-> 0] /\ raced = {}

-----------------------------------------------------------------------------
(* Write.                                                                   *)

Open_SlipUnsortedTags(k) == {}
Open(k) == {b \in bufs : b.series = k}
Emitted(B) == [s \in Samples |->
                 times[s] + Cardinality({b \in B : s \in b.samples})]
Fresh(k, t, s) == [series |-> k, win |-> t, samples |-> {s}]

Differs_SlipNever(b, t) == FALSE
Differs(b, t) == b.win # t

Removed_SlipKept(B) == bufs
Removed(B) == bufs \ B

\* The first critical section: the sample joins the window of its series, or
\* starts one, or finds another window, which is taken out to be forwarded.
Write(w) ==
  /\ pc[w] = "idle" /\ samples < MaxSamples
  /\ samples' = samples + 1
  /\ \E k \in Series, t \in Windows :
       LET s == samples + 1
           other == {b \in Open(k) : Differs(b, t)}
       IN /\ at' = [x \in DOMAIN at \cup {s} |->
                      IF x = s THEN [series |-> k, win |-> t] ELSE at[x]]
          /\ cur' = [cur EXCEPT ![w] = s]
          /\ hand' = [hand EXCEPT ![w] = other]
          /\ pc' = [pc EXCEPT ![w] = IF other = {} THEN "idle" ELSE "forward"]
          /\ bufs' =
               IF other # {} THEN Removed(other)
               ELSE IF Open(k) = {} THEN bufs \cup {Fresh(k, t, s)}
               ELSE {IF b.series = k
                     THEN [b EXCEPT !.samples = @ \cup {s}]
                     ELSE b : b \in bufs}
  /\ UNCHANGED <<flusher, flushing, closer, closing, times, raced>>

\* inner.Write, without the mutex.
Forward(w) ==
  /\ pc[w] = "forward" /\ pc' = [pc EXCEPT ![w] = "store"]
  /\ times' = Emitted(hand[w])
  /\ hand' = [hand EXCEPT ![w] = {}]
  /\ UNCHANGED <<cur, samples, at, bufs, flusher, flushing, closer, closing,
                 raced>>

\* The second critical section: the new buffer replaces whatever is there now.
Store(w) ==
  LET s == cur[w]
      old == Open(at[s].series)
  IN /\ pc[w] = "store" /\ pc' = [pc EXCEPT ![w] = "idle"]
     /\ bufs' = (bufs \ old) \cup {Fresh(at[s].series, at[s].win, s)}
     /\ raced' = raced \cup UNION {b.samples : b \in old}
     /\ UNCHANGED <<cur, hand, samples, at, flusher, flushing, closer, closing,
                    times>>

-----------------------------------------------------------------------------
(* backgroundFlush and Close.                                               *)

\* The ticker: idle windows are taken out under the mutex.
Idle_SlipNone == {}
Idle == bufs

FlushTakes ==
  /\ flusher = "tick"
  /\ \E idle \in SUBSET Idle \ {{}} :
       /\ flushing' = idle /\ bufs' = Removed(idle)
  /\ flusher' = "emit"
  /\ UNCHANGED <<writerVars, closer, closing, times, raced>>

FlushEmits ==
  /\ flusher = "emit"
  /\ IF flushing = {}
     THEN flusher' = "tick" /\ UNCHANGED <<flushing, times>>
     ELSE \E b \in flushing : /\ flushing' = flushing \ {b}
                              /\ times' = Emitted({b})
                              /\ UNCHANGED flusher
  /\ UNCHANGED <<writerVars, bufs, closer, closing, raced>>

\* The flusher sees its context between two ticks only; Close does not wait.
FlushStops ==
  /\ flusher = "tick" /\ closer # "open" /\ flusher' = "gone"
  /\ UNCHANGED <<writerVars, bufs, flushing, closer, closing, times, raced>>

CloseCancels ==
  /\ closer = "open" /\ closer' = "cancelled"
  /\ UNCHANGED <<writerVars, bufs, flusher, flushing, closing, times, raced>>

Pending_SlipNone == {}
Pending == bufs

CloseTakes ==
  /\ closer = "cancelled" /\ closer' = "emit"
  /\ closing' = Pending /\ bufs' = {}
  /\ UNCHANGED <<writerVars, flusher, flushing, times, raced>>

CloseEmits ==
  /\ closer = "emit"
  /\ IF closing = {}
     THEN closer' = "closed" /\ UNCHANGED <<closing, times>>
     ELSE \E b \in closing : /\ closing' = closing \ {b}
                             /\ times' = Emitted({b})
                             /\ UNCHANGED closer
  /\ UNCHANGED <<writerVars, bufs, flusher, flushing, raced>>

-----------------------------------------------------------------------------
Flusher == FlushTakes \/ FlushEmits \/ FlushStops
Close == CloseTakes \/ CloseEmits

Next ==
  \/ \E w \in Writers : Write(w) \/ Forward(w) \/ Store(w)
  \/ Flusher \/ CloseCancels \/ Close

Spec == Init /\ [][Next]_vars

\* The goroutines run and the ticker fires; a series without new samples is
\* found idle in the end.  Nobody need call Close.
FairSpec ==
  /\ Spec
  /\ \A w \in Writers : WF_vars(Forward(w) \/ Store(w))
  /\ WF_vars(FlushEmits \/ FlushStops) /\ WF_vars(Close)
  /\ \A k \in Series : SF_vars(FlushTakes /\ Open(k) \subseteq flushing')

-----------------------------------------------------------------------------
(* Properties.                                                              *)

InHand == (UNION {hand[w] : w \in Writers}) \cup flushing \cup closing

\* The types of the variables; a series has one window at a time
\* (downsample.go:52-76).
TypeOK ==
  /\ pc \in [Writers -> {"idle", "forward", "store"}]
  /\ cur \in [Writers -> Samples \cup {None}]
  /\ hand \in [Writers -> SUBSET Buffer]
  /\ samples \in 0 .. MaxSamples /\ DOMAIN at = 1 .. samples
  /\ \A s \in DOMAIN at : at[s] \in [series : Series, win : Windows]
  /\ bufs \cup InHand \subseteq Buffer
  /\ \A b, c \in bufs : b.series = c.series => b = c
  /\ flusher \in {"tick", "emit", "gone"}
  /\ closer \in {"open", "cancelled", "emit", "closed"}
  /\ times \in [Samples -> Nat] /\ raced \subseteq Samples

\* An aggregate is computed from samples of its own series and window, and from
\* one at least (downsample.go:119-160, 185-231).
Coherent ==
  \A b \in bufs \cup InHand :
    /\ b.samples # {}
    /\ \A s \in b.samples : at[s] = [series |-> b.series, win |-> b.win]

Holding(s) == {b \in bufs \cup InHand : s \in b.samples}

\* No sample counts twice, though the writers, the flusher and Close all take
\* windows out and emit them later (downsample.go:130-137, 169-180, 246-258).
NeverTwice == \A s \in Samples : times[s] + Cardinality(Holding(s)) <= 1

\* What the callers of Write and the inner sink see of it.
Agg == INSTANCE Aggregator WITH
         Keys    <- [series : Series, win : Windows],
         Lossy   <- Cardinality(Writers) > 1,
         key     <- at,
         held    <- {s \in 1 .. samples : times[s] = 0 /\ s \notin raced},
         emitted <- {s \in 1 .. samples : times[s] > 0}

\* However Write, the flusher and Close interleave, the down-sampler is an
\* aggregator: every call of the inner sink carries samples of one series and
\* one window that had not left before, and only a second writer can make it
\* drop one (downsample.go:119-181, 237-262).
ImplementsAggregator == Agg!Spec

\* A sample that has been stored is in a buffer, on its way to the inner sink or
\* there, unless a Write of its series replaced the buffer after its gap
\* (downsample.go:135-160).
NothingLost ==
  \A s \in 1 .. samples :
    \/ times[s] = 1 \/ Holding(s) # {} \/ s \in raced
    \/ \E w \in Writers : cur[w] = s /\ pc[w] \in {"forward", "store"}

\* A sample stored before Close reaches the inner sink, through another window,
\* the flusher or Close (downsample.go:164-181, 237-262).
SampleLeaves ==
  \A s \in Samples :
    closer = "open" /\ (\E b \in bufs : s \in b.samples)
      ~> times[s] = 1 \/ s \in raced
=============================================================================
