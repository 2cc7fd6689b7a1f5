---------------------------- MODULE MCDnsReport ----------------------------
(* Finite instance of DnsReport: queries for two domains, one of which the *)
(* second policy blocks, so that a window has several events and a buffer  *)
(* of one event overflows.                                                 *)
EXTENDS DnsReport

MCDomains == {"claude.ai", "coze.com"}
MCPolicies == {[mode |-> "enforcement", enabled |-> TRUE, authorized |-> {"coze.com"}]}
=============================================================================
