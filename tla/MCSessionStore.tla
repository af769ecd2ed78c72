---------------------------- MODULE MCSessionStore ----------------------------
(* Small instance of SessionStore: two ids, two users, limits a few ticks long. *)
EXTENDS SessionStore, TLC

CONSTANTS s1, s2, alice, bob

MCSid == {s1, s2}
MCUser == {alice, bob}

\* Every property of the run is a safety property.
MCSymmetry == Permutations(MCSid) \cup Permutations(MCUser)
===============================================================================
