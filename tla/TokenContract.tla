---------------------------- MODULE TokenContract ----------------------------
(***************************************************************************)
(* What a token endpoint promises its callers, without clocks, tables or   *)
(* logins in flight: a code stands for one login for ever, yields its      *)
(* session on the first presentation by the client or never, and no        *)
(* session id is handed out twice, however it was obtained.  OAuthServer   *)
(* is shown to implement it.                                               *)
(***************************************************************************)
EXTENDS Sequences

CONSTANTS Code,     \* authorization codes
          Sid,      \* session ids, the tokens
          Mint,     \* logins that codes are minted for
          None      \* the absent value

VARIABLES login,    \* login[c]: the login that c stands for, None before
          past,     \* past[c]: what became of each presentation of c
          reply,    \* the endpoint's last answer
          known     \* session ids handed out so far

contractVars == <<login, past, reply, known>>

Reply(kind, grant, s) == [kind |-> kind, grant |-> grant, session_id |-> s]
NoReply == Reply("none", "none", None)

\* Nobody has been told s, and no code stands for it.
Fresh(s) == /\ s \notin known
            /\ \A c \in Code : login[c] # None => login[c].session_id # s

Live(c) == login[c] # None /\ past[c] = <<>>

Init == /\ login = [c \in Code |-> None]
        /\ past = [c \in Code |-> <<>>]
        /\ reply = NoReply
        /\ known = {}

\* A login is accepted and gets a code.
Issue(c, m) == /\ login[c] = None
               /\ Fresh(m.session_id)
               /\ login' = [login EXCEPT ![c] = m]
               /\ UNCHANGED <<past, reply, known>>

HandOut(s, grant) == /\ reply' = Reply("token", grant, s)
                     /\ known' = known \cup {s}

\* The client gets the session of the code's login, which nobody else has.
Redeem(c) == /\ Live(c)
             /\ login[c].session_id \notin known
             /\ HandOut(login[c].session_id, "authorization_code")
             /\ past' = [past EXCEPT ![c] = Append(@, "token")]
             /\ UNCHANGED login

\* The client presents its own credentials: it gets a session of no code.
Direct(s) == /\ Fresh(s)
             /\ HandOut(s, "client_credentials")
             /\ UNCHANGED <<login, past>>

\* The client is refused, and the code has been presented.
Refuse(c) == /\ login[c] # None
             /\ reply' = Reply("invalid_grant", "authorization_code", None)
             /\ past' = [past EXCEPT ![c] = Append(@, "invalid_grant")]
             /\ UNCHANGED <<login, known>>

\* Nobody is served, and no code is any the worse for it.
Reject(kind, grant) == /\ kind # "invalid_grant" \/ grant = "refresh_token"
                       /\ reply' = Reply(kind, grant, None)
                       /\ UNCHANGED <<login, past, known>>

\* The server forgets the codes that it has not been asked for.
Forget == /\ past' = [c \in Code |-> IF Live(c) THEN <<"lost">> ELSE past[c]]
          /\ reply' = NoReply
          /\ UNCHANGED <<login, known>>

Next == \/ \E c \in Code : Redeem(c) \/ Refuse(c) \/ \E m \in Mint : Issue(c, m)
        \/ \E s \in Sid : Direct(s)
        \/ \E kind \in {"invalid_client", "invalid_grant", "invalid_request"},
              grant \in {"authorization_code", "client_credentials", "refresh_token"} :
             Reject(kind, grant)
        \/ Forget

Spec == Init /\ [][Next]_contractVars
==============================================================================
