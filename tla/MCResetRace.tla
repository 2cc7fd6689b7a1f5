----------------------------- MODULE MCResetRace -----------------------------
(* Finite instance of ResetRace: positions modulo 16 that wrap, payloads   *)
(* that stay within the offsets of a sweep and payloads that do not.       *)
EXTENDS ResetRace, TLC

MCClient == [ip |-> 1, port |-> 5]
MCServer == [ip |-> 9, port |-> 4]
MCConnections == {<<MCClient, MCServer>>}
MCStart == (MCClient :> 15) @@ (MCServer :> 5)
MCMaxData == (FALSE :> ((MCClient :> 2) @@ (MCServer :> 1)))
          @@ (TRUE :> ((MCClient :> 1) @@ (MCServer :> 1)))
MCLens == (MCClient :> {2}) @@ (MCServer :> {1, 3})
MCOffsets == <<0, 1>>

(* The theorem about quiet sweeps speaks of instances like this one. *)
ASSUME MCQuietAssumption == Centred /\ Short
=============================================================================
