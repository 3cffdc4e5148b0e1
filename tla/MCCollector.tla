---------------------------- MODULE MCCollector -----------------------------
(* Small instances of the collector for TLC. *)
EXTENDS Collector

InstantBatch == <<231>>              \* 0xE7
CumulativeBatch == <<224, 136>>      \* 0xE0, 0x88
ScheduledBatch == <<234>>            \* 0xEA
EnergyEpcs == {224, 234}
OddScales == {<<2, 1>>, <<1, 255>>}

\* With the four above a meter has 13 to 17 properties.
OtherEpcs == {128, 129, 130, 134, 138, 151, 152, 157, 158, 159, 211, 215, 225}
=============================================================================
