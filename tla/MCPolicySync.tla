---------------------------- MODULE MCPolicySync ----------------------------
(* Finite instance of PolicySync: a site and its subdomain, the same site   *)
(* spelled in capitals, and a site on the local blacklist that one policy   *)
(* authorizes.  The policies cover the three forms of the answer, an        *)
(* answer without categories, one whose only rule lists no names,           *)
(* categories that lose a domain, and an authorized name that is empty      *)
(* after normalisation.                                                     *)
EXTENDS PolicySync

MCNames == {"chat.ai", "api.chat.ai", "CHAT.AI", "bad.com", ".", ""}
MCNorm == [n \in MCNames |-> CASE n = "CHAT.AI" -> "chat.ai" [] n = "." -> "" [] OTHER -> n]
MCSupers == [n \in MCNames |-> IF n = "api.chat.ai" THEN {n, "chat.ai"} ELSE {n}]
MCTraffic == {"api.chat.ai", "bad.com"}
MCLocal == {"bad.com"}
MCModes == {"monitoring", "enforcement"}

Object(a, c) == [shape |-> "object", authorized |-> a, cats |-> c]
List(b, a) == [shape |-> "list", blocked |-> b, authorized |-> a]
MCPolicies ==
  { Object({}, {{"chat.ai"}}), Object({"CHAT.AI"}, {{"chat.ai"}, {}}),
    Object({"."}, {{"bad.com"}}), Object({}, {}), Object({}, {{}}),
    List({"api.chat.ai"}, {"bad.com"}) }
=============================================================================
