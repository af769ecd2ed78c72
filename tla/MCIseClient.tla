----------------------------- MODULE MCIseClient -----------------------------
(* Small instance of IseClient: one request, the others are its environment. *)
EXTENDS IseClient

CONSTANT r1
==============================================================================
