-------------------------------- MODULE Codec --------------------------------
(***************************************************************************)
(* The pure functions between the bytes of the meter and the collector:    *)
(* ECHONET Lite frames (internal/echonet/echonet.go) and the property map  *)
(* and units of internal/meter/epc.go.                                     *)
(*                                                                         *)
(* A byte string is a sequence of 0 .. 255.  The eleven bytes of a frame   *)
(* before its property count (EHD, TID, SEOJ, DEOJ, ESV) have fixed places *)
(* and no influence on the rest; they are left out.  Slices of Go count    *)
(* from 0, sequences from 1.                                               *)
(***************************************************************************)
EXTENDS Integers, Sequences

Byte == 0 .. 255
Failed == [ok |-> FALSE, at |-> 1, props |-> <<>>]

-----------------------------------------------------------------------------
(* Frames: a list of properties, each an EPC and its data (EDT).            *)

PropBytes(p) == <<p.epc, Len(p.edt) % 256>> \o p.edt

Encode(props) ==
  LET upTo[i \in 0 .. Len(props)] ==
        IF i = 0 THEN <<Len(props) % 256>>
                 ELSE upTo[i - 1] \o PropBytes(props[i])
  IN upTo[Len(props)]

\* Where the property after one at `at` with that much data begins.
After(at, pdc) == at + 2 + pdc

\* One turn of Decode's loop: a property is cut off at `at`, unless its head or
\* its data goes beyond the end.
DecodeProp(b, f) ==
  IF ~f.ok \/ f.at + 1 > Len(b) THEN Failed
  ELSE LET pdc == b[f.at + 1]
           edt == SubSeq(b, f.at + 2, f.at + 1 + pdc)
       IN IF f.at + 1 + pdc > Len(b) THEN Failed
          ELSE [ok |-> TRUE, at |-> After(f.at, pdc),
                props |-> Append(f.props, [epc |-> b[f.at], edt |-> edt])]

\* What follows the last property is not looked at.
Decode(b) ==
  IF b = <<>> THEN Failed
  ELSE LET upTo[i \in 0 .. b[1]] ==
             IF i = 0 THEN [ok |-> TRUE, at |-> 2, props |-> <<>>]
                      ELSE DecodeProp(b, upTo[i - 1])
       IN upTo[b[1]]

-----------------------------------------------------------------------------
(* The Get property map (EPC 0x9F): a count, then the EPCs themselves if    *)
(* there are 15 at most, or 16 bytes of one bit for each EPC.               *)

NoMap == {-1}      \* the nil map, also for data that is too short

ShortForm(n) == n <= 15

Masks == <<1, 2, 4, 8, 16, 32, 64, 128>>                     \* 1 << bit
Bit(byte, i) == (byte \div Masks[i + 1]) % 2

\* Bit b of byte i (from 0) stands for the EPC of high nibble b + 8, low i.
Listed_SlipSwapped(bit, i) == (i + 8) * 16 + bit
Listed(bit, i) == (bit + 8) * 16 + i

DecodeGetPropertyMap(edt) ==
  CASE edt = <<>> -> NoMap
    [] edt # <<>> /\ ShortForm(edt[1]) ->
         IF Len(edt) < 1 + edt[1] THEN NoMap
         ELSE {edt[i] : i \in 2 .. 1 + edt[1]}
    [] OTHER ->
         IF Len(edt) < 1 + 16 THEN NoMap
         ELSE {Listed(at[1], at[2]) :
                 at \in {x \in (0 .. 7) \X (0 .. 15) :
                           Bit(edt[x[2] + 2], x[1]) = 1}}

-----------------------------------------------------------------------------
(* Units (EPC 0xE1) as powers of ten of a kWh, and the scale of a counter.  *)

Exponent == [u \in (0 .. 4) \cup (10 .. 13) |-> IF u <= 4 THEN 0 - u ELSE u - 9]
KnownUnit(u) == u \in DOMAIN Exponent

\* CumulativeKWh multiplies by these two; a coefficient of 0 was never read.
Multiplier(coefficient, u) ==
  <<IF coefficient = 0 THEN 1 ELSE coefficient, Exponent[u]>>
=============================================================================
