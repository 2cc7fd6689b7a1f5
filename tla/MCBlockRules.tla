---------------------------- MODULE MCBlockRules ----------------------------
(* Finite instance of BlockRules: one domain with its two rules in two     *)
(* chains, and policies that block it, authorize it, only watch, or mix    *)
(* into one that blocks it.                                                *)
EXTENDS BlockRules

P(m, e, a) == [mode |-> m, enabled |-> e, authorized |-> a]
MCKnown == {"claude.ai"}
MCPlace == [k \in Kinds |-> [d \in MCKnown |-> 1]]
MCPolicies == {P("enforcement", TRUE, {}), P("enforcement", TRUE, {"claude.ai"}),
               P("monitoring", TRUE, {}), P("enforcement", FALSE, {})}
=============================================================================
