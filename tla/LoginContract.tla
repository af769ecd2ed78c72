---------------------------- MODULE LoginContract ----------------------------
(***************************************************************************)
(* What a login promises its callers, without the probes: a login is asked *)
(* for once, gets one verdict and keeps it, and with the verdict "session" *)
(* a session id that no other login has and that stands for the credential *)
(* the caller presented.  LoginProbe is shown to implement it; the logins  *)
(* of OAuthServer and ToolCalls are taken to be of this kind.              *)
(***************************************************************************)
CONSTANTS Login, Credential, Sid, None,
          Empty     \* a credential with its user name or password missing

VARIABLES verdict,   \* verdict[l]: what l's caller has been told
          asked,     \* asked[l]: the credential presented, Empty before
          session,   \* session[l]: the session id given to l's caller
          owner      \* owner[s]: the credential that s stands for

contractVars == <<verdict, asked, session, owner>>

Init == /\ verdict = [l \in Login |-> "new"]
        /\ asked = [l \in Login |-> Empty]
        /\ session = [l \in Login |-> None]
        /\ owner = [s \in Sid |-> None]

\* A credential is presented; without one there is nothing to wait for.
Ask(l, cred) == /\ verdict[l] = "new"
                /\ verdict' = [verdict EXCEPT ![l] = "pending"]
                /\ asked' = [asked EXCEPT ![l] = cred]
                /\ UNCHANGED <<session, owner>>

TurnAway(l) == /\ verdict[l] = "new"
               /\ verdict' = [verdict EXCEPT ![l] = "missing"]
               /\ UNCHANGED <<asked, session, owner>>

\* The caller gets a session id that nobody was ever given.
Admit(l, s) == /\ verdict[l] = "pending"
               /\ owner[s] = None
               /\ verdict' = [verdict EXCEPT ![l] = "session"]
               /\ session' = [session EXCEPT ![l] = s]
               /\ owner' = [owner EXCEPT ![s] = asked[l]]
               /\ UNCHANGED asked

Deny(l, why) == /\ verdict[l] = "pending"
                /\ verdict' = [verdict EXCEPT ![l] = why]
                /\ UNCHANGED <<asked, session, owner>>

\* Some callers gave up, or all were cut off by a restart: no session is left.
Abandon(L) == /\ \A l \in L : verdict[l] = "pending"
              /\ verdict' = [l \in Login |-> IF l \in L THEN "cancelled" ELSE verdict[l]]
              /\ UNCHANGED <<asked, session, owner>>

Next == \/ \E l \in Login : \/ \E cred \in Credential : Ask(l, cred)
                            \/ TurnAway(l)
                            \/ \E s \in Sid : Admit(l, s)
                            \/ \E why \in {"invalid", "failed"} : Deny(l, why)
        \/ \E L \in SUBSET Login : Abandon(L)

Spec == Init /\ [][Next]_contractVars
==============================================================================
