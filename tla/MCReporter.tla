----------------------------- MODULE MCReporter -----------------------------
(* Finite instance of Reporter: three events fill the channel and a batch  *)
(* while a request is in flight, the map of two keys outgrows its limit,   *)
(* and the clock passes the window.                                        *)
EXTENDS Reporter

CONSTANTS k1, k2
=============================================================================
