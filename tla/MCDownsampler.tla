--------------------------- MODULE MCDownsampler ----------------------------
(* Small instances of the down-sampler for TLC. *)
EXTENDS Downsampler
=============================================================================
