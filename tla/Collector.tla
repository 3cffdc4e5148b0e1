------------------------------ MODULE Collector ------------------------------
(***************************************************************************)
(* The collector: internal/collector/collector.go.                         *)
(*                                                                         *)
(* One goroutine polls the meter, a batch of properties (EPCs) per Get.    *)
(* Another, the probe, asks it once for what it implements and for the     *)
(* scale of its energy counters, and tries again until it gets a response. *)
(* They share the coefficient, the unit and the property map.              *)
(*                                                                         *)
(* The counters themselves are abstracted away: what is kept of an energy  *)
(* value is the scale it was computed with.  A Get is two steps, the       *)
(* request and its outcome; Client is what is inside.  The meter is        *)
(* external: it answers a property with a value or with none (PDC = 0), or *)
(* leaves it out, which stands for data that does not decode too.  What it *)
(* answers passes through the bytes of a frame and of the property map.    *)
(***************************************************************************)
EXTENDS Codec, FiniteSets, SequencesExt

CONSTANTS
  Instant, Cumulative, Scheduled,   \* the EPCs of the batches, in order
  Energy,                           \* those with a value in kWh
  Others,                           \* EPCs the meter has and nobody polls
  MeterScales,                      \* coefficients and units the meter may have
  MaxBatches                        \* bound on the batches

Epcs == ToSet(Instant) \cup ToSet(Cumulative) \cup ToSet(Scheduled)
Groups == {"instant", "cumulative", "scheduled"}

ASSUME EpcsAssumption ==
  /\ Epcs \cup Others \subseteq 128 .. 255 /\ Epcs \cap Others = {}
  /\ Energy \subseteq (ToSet(Cumulative) \cup ToSet(Scheduled)) \ ToSet(Instant)
\* A batch fits in one frame, which counts its properties in a byte.
ASSUME ListsAssumption ==
  \A b \in {Instant, Cumulative, Scheduled} : b \in Seq(Epcs) /\ Len(b) <= 255
ASSUME BatchesAssumption == MaxBatches \in Nat

\* A scale is a coefficient, 0 if unread, and a unit: 0 is unread, and also the
\* code of 1 kWh.
ASSUME ScaleAssumption == MeterScales \subseteq Nat \X Byte
Coefficients == {0} \cup {s[1] : s \in MeterScales}
Units == {0} \cup {s[2] : s \in MeterScales}
Scales == Coefficients \X Units
NoOutput == [epc |-> 0, scale |-> <<0, 0>>, informed |-> FALSE]

VARIABLES
  meter,                  \* the meter: what it implements, its scale
  probe,                  \* the probe's step
  coeff, unitByte, epcMap, haveOneShot, \* what it stores
  poll, plan, todo, asked, answer,      \* the poll: step, batches, EPCs, frame
  group, scale,           \* the batch, and the scale read for it
  unsupported,
  batches, cancelled,
  output,                 \* the last measurement written
  empties, complete, informed  \* history: empty answers, the probe had
                               \* everything, also before this batch began

probeVars == <<probe, coeff, unitByte, epcMap, haveOneShot, complete>>
batchVars == <<plan, todo, asked, group, informed, batches>>
pollVars == <<poll, batchVars, answer, scale, unsupported, output, empties>>
vars == <<meter, probeVars, pollVars, cancelled>>

Batch == [instant |-> Instant, cumulative |-> Cumulative, scheduled |-> Scheduled]

\* The members of a finite set of numbers in ascending order.
Sorted(S) ==
  [i \in 1 .. Cardinality(S) |->
     CHOOSE e \in S : Cardinality({d \in S : d <= e}) = i]

\* The property map a meter sends (external): a list of 15 at most, or 16 bytes
\* with a bit for each high nibble from 8.
MapData(E) ==
  <<Cardinality(E)>> \o
    IF Cardinality(E) <= 15 THEN Sorted(E)
    ELSE [i \in 1 .. 16 |->
            LET Has(h, weight) == IF 16 * h + i - 1 \in E THEN weight ELSE 0
            IN Has(8, 1) + Has(9, 2) + Has(10, 4) + Has(11, 8) + Has(12, 16)
                 + Has(13, 32) + Has(14, 64) + Has(15, 128)]

\* The data of a property of the meter, of the length its EPC has.
Data(e) == [i \in 1 .. IF e \in ToSet(Scheduled) THEN 11
                       ELSE IF e \in Energy \cup ToSet(Instant) THEN 4 ELSE 1 |-> e]

Init ==
  /\ meter \in [epcs : SUBSET Epcs, scale : MeterScales]
  /\ probe = "try"
  /\ coeff = 0 /\ unitByte = 0 /\ epcMap = NoMap /\ haveOneShot = FALSE
  /\ poll = "select" /\ plan = <<"instant", "cumulative">>
  /\ todo = <<>> /\ asked = {} /\ answer = <<>>
  /\ group = "instant" /\ scale = <<0, 0>>
  /\ unsupported = {}
  /\ batches = 0 /\ cancelled = FALSE
  /\ output = NoOutput /\ empties = {} /\ complete = FALSE /\ informed = FALSE

-----------------------------------------------------------------------------
(* The probe.                                                               *)

ProbeTry ==
  /\ probe = "try"
  /\ probe' = IF cancelled THEN "ended" ELSE "get"
  /\ UNCHANGED <<meter, coeff, unitByte, epcMap, haveOneShot, complete,
                 pollVars, cancelled>>

ProbeFails ==
  /\ probe = "get" /\ probe' = "wait"
  /\ UNCHANGED <<meter, coeff, unitByte, epcMap, haveOneShot, complete,
                 pollVars, cancelled>>

\* The timer and the end of the context, whichever the select takes.
AfterPause_SlipGivesUp == {"ended"}
AfterPause == {"try"} \cup (IF cancelled THEN {"ended"} ELSE {})

ProbeWaits ==
  /\ probe = "wait" /\ probe' \in AfterPause
  /\ UNCHANGED <<meter, coeff, unitByte, epcMap, haveOneShot, complete,
                 pollVars, cancelled>>

\* Any response will do; what it lacks keeps its initial value.
StoredCoeff(has) == IF "D3" \in has THEN meter.scale[1] ELSE coeff
StoredUnit(has) == IF "E1" \in has THEN meter.scale[2] ELSE unitByte

StoredMap(has) ==
  LET m == DecodeGetPropertyMap(MapData(meter.epcs \cup Others))
  IN IF "9F" \in has /\ m # NoMap THEN m ELSE epcMap

ProbeAnswered ==
  /\ probe = "get" /\ probe' = "done"
  /\ \E has \in SUBSET {"9F", "D3", "E1"} :
       /\ epcMap' = StoredMap(has)
       /\ coeff' = StoredCoeff(has)
       /\ unitByte' = StoredUnit(has)
       /\ complete' = ({"D3", "E1"} \subseteq has)
  /\ haveOneShot' = TRUE
  /\ UNCHANGED <<meter, pollVars, cancelled>>

-----------------------------------------------------------------------------
(* The polls.                                                               *)

FreshList_SlipReused == asked
FreshList == {}

\* The first two batches run at once, later ones when a ticker fires.
StartBatch(g) ==
  /\ poll = "select" /\ poll' = "build"
  /\ IF plan = <<>> THEN UNCHANGED plan
     ELSE g = Head(plan) /\ plan' = Tail(plan)
  /\ batches < MaxBatches /\ batches' = batches + 1
  /\ group' = g /\ todo' = Batch[g] /\ asked' = FreshList
  /\ informed' = complete
  /\ UNCHANGED <<meter, probeVars, answer, scale, unsupported, output, empties,
                 cancelled>>

Supports_SlipNilMap(e) ==
  /\ e \notin unsupported
  /\ haveOneShot => e \in epcMap
Supports(e) ==
  /\ e \notin unsupported
  /\ haveOneShot /\ epcMap # NoMap => e \in epcMap

Ask ==
  /\ poll = "build" /\ todo # <<>>
  /\ todo' = Tail(todo)
  /\ asked' = IF Supports(Head(todo)) THEN asked \cup {Head(todo)} ELSE asked
  /\ UNCHANGED <<meter, probeVars, poll, plan, group, informed, batches, answer,
                 scale, unsupported, output, empties, cancelled>>

Built ==
  /\ poll = "build" /\ todo = <<>>
  /\ poll' = IF asked = {} THEN "select" ELSE "get"
  /\ UNCHANGED <<meter, probeVars, batchVars, answer, scale, unsupported,
                 output, empties, cancelled>>

GetFails ==
  /\ poll = "get" /\ poll' = "select"
  /\ UNCHANGED <<meter, probeVars, batchVars, answer, scale, unsupported,
                 output, empties, cancelled>>

\* The meter answers part of what it is asked, in its order; it has a value for
\* an EPC it implements, except now and then.
Frame(part, empty) ==
  LET b == Batch[group]
      places == Sorted({i \in DOMAIN b : b[i] \in part})
  IN [i \in DOMAIN places |->
        LET e == b[places[i]]
        IN [epc |-> e, edt |-> IF e \in empty THEN <<>> ELSE Data(e)]]

GetAnswers ==
  /\ poll = "get"
  /\ \E part \in SUBSET asked : \E empty \in SUBSET part :
       /\ part \ empty \subseteq meter.epcs
       /\ answer' = Decode(Encode(Frame(part, empty))).props
  /\ poll' = IF group = "instant" THEN "emit" ELSE "snapshot"
  /\ UNCHANGED <<meter, probeVars, batchVars, scale, unsupported, output,
                 empties, cancelled>>

\* Coefficient and unit are read under one lock, after the response.
Snapshot_SlipNoCoefficient == <<0, unitByte>>
Snapshot == <<coeff, unitByte>>

ReadScale ==
  /\ poll = "snapshot" /\ poll' = "emit"
  /\ scale' = Snapshot
  /\ UNCHANGED <<meter, probeVars, batchVars, answer, unsupported, output,
                 empties, cancelled>>

\* CumulativeKWh: a value in kWh needs a known unit.
Written(e) ==
  IF e \notin Energy
  THEN [epc |-> e, scale |-> <<0, 0>>, informed |-> informed]
  ELSE IF KnownUnit(scale[2])
       THEN [epc |-> e, scale |-> Multiplier(scale[1], scale[2]),
             informed |-> informed]
       ELSE output

Dropped(e) == unsupported \cup {e}

Emit ==
  /\ poll = "emit" /\ answer # <<>>
  /\ answer' = Tail(answer)
  /\ LET p == Head(answer) IN
       IF p.edt = <<>>
       THEN /\ unsupported' = Dropped(p.epc) /\ empties' = empties \cup {p.epc}
            /\ UNCHANGED output
       ELSE output' = Written(p.epc) /\ UNCHANGED <<unsupported, empties>>
  /\ UNCHANGED <<meter, probeVars, poll, batchVars, scale, cancelled>>

BatchEnds ==
  /\ poll = "emit" /\ answer = <<>> /\ poll' = "select"
  /\ UNCHANGED <<meter, probeVars, batchVars, answer, scale, unsupported,
                 output, empties, cancelled>>

PollEnds_SlipNoCase == FALSE
PollEnds == cancelled

Stop ==
  /\ poll = "select" /\ plan = <<>> /\ PollEnds /\ poll' = "ended"
  /\ UNCHANGED <<meter, probeVars, batchVars, answer, scale, unsupported,
                 output, empties, cancelled>>

Cancel ==
  /\ ~cancelled /\ cancelled' = TRUE
  /\ UNCHANGED <<meter, probeVars, pollVars>>

-----------------------------------------------------------------------------
Probe == ProbeTry \/ ProbeFails \/ ProbeWaits \/ ProbeAnswered

\* Everything in a batch but the writes to the sinks.
BatchStep ==
  \/ Ask \/ Built \/ GetFails \/ GetAnswers \/ ReadScale \/ BatchEnds

InBatch == BatchStep \/ Emit

Next ==
  \/ Probe
  \/ \E g \in Groups : StartBatch(g)
  \/ InBatch \/ Stop \/ Cancel

Spec == Init /\ [][Next]_vars

\* The goroutines run, their timers fire and a Get returns by its timeout; a
\* select chooses among the ready cases at random, so that it takes each in the
\* end.  A write to the sinks is not among them: Multi.Write waits for all.
FairSpec ==
  /\ Spec
  /\ WF_vars(Probe) /\ WF_vars(BatchStep)
  /\ WF_vars(\E g \in Groups : plan # <<>> /\ StartBatch(g)) /\ SF_vars(Stop)

\* A meter that, however often it fails, answers in the end.
PatientMeter == SF_vars(ProbeAnswered)

\* Every write to the sinks returns.
SinksReturn == WF_vars(Emit)

-----------------------------------------------------------------------------
(* Properties.                                                              *)

\* The types of the variables, and what each step of the poll holds
\* (collector.go:35-57, 206-308).
TypeOK ==
  /\ meter \in [epcs : SUBSET Epcs, scale : MeterScales]
  /\ probe \in {"try", "get", "wait", "done", "ended"}
  /\ coeff \in Coefficients /\ unitByte \in Units
  /\ epcMap = NoMap \/ epcMap \subseteq Byte
  /\ haveOneShot = (probe = "done")
  /\ poll \in {"select", "build", "get", "snapshot", "emit", "ended"}
  /\ plan \in Seq(Groups) /\ todo \in Seq(Epcs) /\ group \in Groups
  /\ asked \subseteq ToSet(Batch[group])
  /\ {answer[i].epc : i \in DOMAIN answer} \subseteq asked
  /\ \A i \in DOMAIN answer : answer[i].edt \in {<<>>, Data(answer[i].epc)}
  /\ poll \in {"select", "build", "get"} => answer = <<>>
  /\ scale \in Scales
  /\ unsupported \subseteq Epcs /\ empties \subseteq Epcs
  /\ output = NoOutput \/ output.epc \in Epcs
  /\ batches \in 0 .. MaxBatches
  /\ {cancelled, complete, informed} \subseteq BOOLEAN

\* The factor and the power of ten of the meter; none if its unit is unknown.
MeterScale ==
  IF KnownUnit(meter.scale[2]) THEN Multiplier(meter.scale[1], meter.scale[2])
                               ELSE <<0, 0>>

\* The property map has two forms, and its bits a transposed order: what the
\* probe stored is what the meter advertised, on both sides of the limit of 15
\* (epc.go:193-224, collector.go:145-154).
MapAsAdvertised == epcMap \in {NoMap, meter.epcs \cup Others}

\* A value in kWh has the initial scale or the meter's own, never the
\* coefficient of one and the unit of the other, if the probe was answered in
\* full; and it has the meter's own if that was before the batch began
\* (collector.go:142-167, 232-238).
ScaleIsWhole ==
  output.epc \in Energy =>
    /\ complete => output.scale \in {<<1, 0>>, MeterScale}
    /\ output.informed => output.scale = MeterScale

\* What the comment in Run says (collector.go:82-86): no value at all is better
\* than one in the wrong scale.  Violated: the first cumulative batch runs
\* beside the probe and takes the initial scale for the meter's.
NeverWrongScale == output.epc \in Energy => output.scale = MeterScale

\* An EPC is left out of a batch only if the meter does not advertise it or has
\* answered it without data: no failed Get, no partial answer to the probe and
\* no other EPC's empty answer takes it away (collector.go:173-204).
AskedIfPresent ==
  poll = "build" /\ todo = <<>> =>
    (ToSet(Batch[group]) \cap meter.epcs) \ empties \subseteq asked

\* The probe is repeated until a meter that answers in the end has answered,
\* unless the collector is stopped (collector.go:117-134).
ProbeSucceeds == PatientMeter => <>(haveOneShot \/ cancelled)

\* Cancelling the context ends both goroutines, from every step of a batch and
\* of the probe, if the sinks' writes return (collector.go:99-131).  They need
\* not: collector.go:414-421 calls Multi.Write, which waits for every child
\* (sink.go:70), and one that does not return holds the poll for good.
CancelEnds ==
  SinksReturn =>
    (cancelled ~> poll = "ended" /\ probe \in {"ended", "done"})
=============================================================================
