--------------------------- MODULE MCPolicyTokens ---------------------------
(* Small instances of PolicyTokens for TLC. *)
EXTENDS PolicyTokens

TwoProcesses == 0 .. 1
OneEndpoint  == {0, Authority}
DerivedRights == {{SEND, TRANSFER, REVOKE}}

(* What takes a capability away from a token and gives its object back. *)
TokenCalls ==
  {"YIELD", "CAP_TRANSFER", "CAP_REVOKE", "EXIT", "RESTART", "WAIT", "POLICY_PAUSE",
   "POLICY_RESUME"}
=============================================================================
