---------------------------- MODULE MCOAuthServer ----------------------------
(* Small instance of OAuthServer: concurrent logins, two codes and two ids. *)
EXTENDS OAuthServer, TLC

CONSTANTS s1, s2, c1, c2, a1, a2, alice, bob, copilot, v1, v2, u1, u2

MCSid == {s1, s2}
MCCode == {c1, c2}
MCAttempt == {a1, a2}
MCUser == {alice, bob}
MCVerifier == {v1, v2}
MCUri == {u1, u2}

\* Interchangeable values; every run that uses it checks safety only.
MCSymmetry == Permutations(MCSid) \cup Permutations(MCCode)
              \cup Permutations(MCAttempt) \cup Permutations(MCUser)
              \cup Permutations(MCVerifier)
==============================================================================
