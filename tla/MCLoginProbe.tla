---------------------------- MODULE MCLoginProbe ----------------------------
(* Small instance of LoginProbe: two overlapping logins to one account. *)
EXTENDS LoginProbe

CONSTANTS s1, s2, l1, l2, alice, p1, p2
=============================================================================
