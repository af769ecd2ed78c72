--------------------------- MODULE SessionContract ---------------------------
(***************************************************************************)
(* What a store of MCP sessions promises its callers, without clocks or    *)
(* tables: an id belongs to one owner for ever, a dead session stays dead, *)
(* and a caller is given an identity only for a live session and only the  *)
(* identity that logged in.  SessionStore is shown to implement it.        *)
(***************************************************************************)
CONSTANTS Sid,      \* session ids that can be handed out
          User,     \* ISE identities
          None      \* the absent value

VARIABLES status,   \* status[s]: "unborn", "live" or "dead"
          owner,    \* owner[s]: the identity that logged in, None before
          answer    \* the store's last answer to a caller

contractVars == <<status, owner, answer>>

Told(kind, s, u) == [kind |-> kind, sid |-> s, user |-> u]

\* Statuses after the sessions in S are over.
Kill(S) == [s \in Sid |-> IF s \in S /\ status[s] # "unborn" THEN "dead"
                                                              ELSE status[s]]

Init == /\ status = [s \in Sid |-> "unborn"]
        /\ owner = [s \in Sid |-> None]
        /\ answer = Told("none", None, None)

\* A login succeeded: a fresh id is handed to its owner.
Issue(s, u) == /\ status[s] = "unborn"
               /\ status' = [status EXCEPT ![s] = "live"]
               /\ owner' = [owner EXCEPT ![s] = u]
               /\ answer' = Told("created", s, u)

\* The caller is given the identity of the owner.
Grant(s) == /\ status[s] = "live"
            /\ answer' = Told("granted", s, owner[s])
            /\ UNCHANGED <<status, owner>>

\* The caller is told there is no such session; from then on there is none.
Refuse(s) == /\ status' = Kill({s})
             /\ answer' = Told("refused", s, None)
             /\ UNCHANGED owner

\* A logout; it reports whether there was something to delete.
Revoke(s) == /\ status' = Kill({s})
             /\ answer' = Told(IF status[s] = "live" THEN "deleted"
                                                     ELSE "absent", s, None)
             /\ UNCHANGED owner

\* Sessions end silently: a purge, or a restart of the process.
Lapse == \E S \in SUBSET Sid :
           /\ status' = Kill(S)
           /\ answer' = Told("none", None, None)
           /\ UNCHANGED owner

Next == \/ \E s \in Sid, u \in User : Issue(s, u)
        \/ \E s \in Sid : Grant(s) \/ Refuse(s) \/ Revoke(s)
        \/ Lapse

Spec == Init /\ [][Next]_contractVars
==============================================================================
