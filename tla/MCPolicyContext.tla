--------------------------- MODULE MCPolicyContext ---------------------------
(* Small instance of PolicyContext: two groups, so that an endpoint can move. *)
EXTENDS PolicyContext

CONSTANTS mac, g1, g2, p1, n1, alice, t1
==============================================================================
