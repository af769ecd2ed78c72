----------------------------- MODULE MCToolCalls -----------------------------
(* Small instances of ToolCalls and the configurations its runs start with. *)
EXTENDS ToolCalls, TLC

CONSTANTS s1, s2, c1, c2, alice, bob

MCSid == {s1, s2}
MCCall == {c1, c2}
MCUser == {alice, bob}
MCSymmetry == Permutations(MCSid) \cup Permutations(MCCall) \cup Permutations(MCUser)

\* The default environment, with a service account for API keys.
Passthrough0 ==
  [auth_mode |-> "passthrough", readonly |-> FALSE, dangerous |-> FALSE,
   allowed_tools |-> {}, disabled_tools |-> {}, api_key |-> TRUE,
   username |-> TRUE, encoded |-> FALSE]

MCPassthrough == {Passthrough0}

\* Every combination of modes, flags and credentials with lists of one tool.
MCList == {l \in SUBSET Tool : Cardinality(l) <= 1}
MCAllConfigs ==
  [auth_mode : {"passthrough", "service_account"}, readonly : BOOLEAN,
   dangerous : BOOLEAN, allowed_tools : MCList, disabled_tools : MCList,
   api_key : BOOLEAN, username : BOOLEAN, encoded : BOOLEAN]
==============================================================================
