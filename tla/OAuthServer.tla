------------------------------ MODULE OAuthServer ------------------------------
(***************************************************************************)
(* The OAuth endpoints (oauth.py, the /authorize and /token routes of      *)
(* server.py) over the session store.  A login is awaited while ISE is     *)
(* asked, so several are in flight at once.  What follows the await runs   *)
(* without another, but the end of an /authorize login reads the clock     *)
(* twice, for the session and for the code: nothing happens in between,    *)
(* except that the clock moves or the process dies.  A code exchange is    *)
(* one step.  Codes and verifiers are unguessable: only minted codes are   *)
(* presented.  Scope and state are echoed and tell nothing apart here.     *)
(***************************************************************************)
EXTENDS Integers, Sequences

CONSTANTS Sid, User, None, Ttl, Idle, MaxTime, MaxStepBack,   \* SessionStore
          Code,          \* authorization codes that can be minted
          Attempt,       \* logins in flight at once (bound of the model)
          Client,        \* client ids that callers present
          NoClient,      \* the empty client id, as the environment default
          ClientId,      \* OAUTH_CLIENT_ID
          Uri,           \* redirect URIs that callers present
          RedirectUris,  \* OAUTH_REDIRECT_URIS
          Verifier,      \* PKCE verifiers
          CodeTtl,       \* CODE_TTL
          MaxLag,        \* the clock's advance between the two readings of a login
          MaxTries       \* bound of the model: presentations of one code

ASSUME OAuthAssumption == /\ ClientId \in Client \cup {NoClient}
                          /\ RedirectUris \subseteq Uri
                          /\ {CodeTtl, MaxLag} \subseteq Nat
                          /\ {Ttl, Idle} \subseteq Int
                          /\ {MaxTime, MaxStepBack} \subseteq Nat
                          /\ MaxTries \in Nat

VARIABLES now, sessions, answer, observed,   \* the session store's
          codes,      \* _codes: _Code or None for every code
          pending,    \* logins that await ISE, None for a free slot
          issuing,    \* a login with a session and no code yet, or None
          reply,      \* the last answer of the token endpoint
          known,      \* history: session ids that a caller was told
          minted,     \* history: the login that each code was minted for
          tries       \* history: how the presentations of each code ended

oauthVars == <<codes, pending, issuing, reply, known, minted, tries>>
vars == <<now, sessions, answer, observed, oauthVars>>

Store == INSTANCE SessionStore

-------------------------------------------------------------------------------
S256(v) == <<"S256", v>>
Challenge == {S256(v) : v \in Verifier} \cup {None}

FormLogin == [grant : {"authorization_code"}, client_id : {ClientId},
              redirect_uri : Uri, challenge : Challenge, user : User]
Login == FormLogin \cup [grant : {"client_credentials"}, user : User]
Accepted == [login : FormLogin, session_id : Sid]
CodeRecord == [client_id : {ClientId}, redirect_uri : Uri, session_id : Sid,
               challenge : Challenge, created : 0 .. MaxTime]
Mint == [user : User, session_id : Sid, redirect_uri : Uri, challenge : Challenge,
         created : 0 .. MaxTime]
Try == [outcome : {"token", "invalid_grant", "lost"},
        redirect_uri : Uri \cup {None}, verifier : Verifier \cup {None}]

ASSUME RecordAssumption ==
  None \notin CodeRecord \cup Mint \cup Accepted \cup Store!Session

Reply(kind, grant, s) == [kind |-> kind, grant |-> grant, session_id |-> s]
NoReply == Reply("none", "none", None)

TypeOK ==
  /\ codes \in [Code -> CodeRecord \cup {None}]
  /\ pending \in [Attempt -> Login \cup {None}]
  /\ issuing \in Accepted \cup {None}
  /\ reply \in [kind : {"none", "token", "invalid_client", "invalid_grant",
                        "invalid_request"},
                grant : {"none", "authorization_code", "client_credentials",
                         "refresh_token"},
                session_id : Sid \cup {None}]
  /\ known \subseteq Sid
  /\ minted \in [Code -> Mint \cup {None}]
  /\ tries \in [Code -> Seq(Try)]

Init == /\ Store!Init
        /\ codes = [c \in Code |-> None]
        /\ pending = [a \in Attempt |-> None]
        /\ issuing = None
        /\ reply = NoReply
        /\ known = {}
        /\ minted = [c \in Code |-> None]
        /\ tries = [c \in Code |-> <<>>]

-------------------------------------------------------------------------------
\* POST /authorize: the form is accepted and the login awaits ISE.  A form
\* with another client id or redirect URI is answered 400 and changes nothing.
BeginAuthorize(a, cid, uri, ch, u) ==
  /\ pending[a] = None
  /\ cid = ClientId
  /\ uri \in RedirectUris
  /\ pending' = [pending EXCEPT ![a] =
                  [grant |-> "authorization_code", client_id |-> cid,
                   redirect_uri |-> uri, challenge |-> ch, user |-> u]]
  /\ UNCHANGED <<now, sessions, answer, observed, codes, issuing, reply, known, minted,
                 tries>>

\* ISE accepts: a session is created for the login.
FinishAuthorize(a, s) ==
  /\ pending[a] # None
  /\ pending[a].grant = "authorization_code"
  /\ Store!Create(s, pending[a].user)
  /\ issuing' = [login |-> pending[a], session_id |-> s]
  /\ pending' = [pending EXCEPT ![a] = None]
  /\ UNCHANGED <<now, codes, reply, known, minted, tries>>

\* A code is minted that names the session, dated by a clock reading of its own.
IssueCode(c) ==
  /\ issuing # None
  /\ minted[c] = None
  /\ LET form == issuing.login
     IN  /\ codes' = [codes EXCEPT ![c] =
                       [client_id |-> form.client_id, redirect_uri |-> form.redirect_uri,
                        session_id |-> issuing.session_id, challenge |-> form.challenge,
                        created |-> now]]
         /\ minted' = [minted EXCEPT ![c] =
                        [user |-> form.user, session_id |-> issuing.session_id,
                         redirect_uri |-> form.redirect_uri,
                         challenge |-> form.challenge, created |-> now]]
  /\ issuing' = None
  /\ UNCHANGED <<now, sessions, answer, observed, pending, reply, known, tries>>

\* POST /token, client_credentials: the caller's own ISE credentials.
BeginClientCredentials(a, u) ==
  /\ pending[a] = None
  /\ pending' = [pending EXCEPT ![a] = [grant |-> "client_credentials", user |-> u]]
  /\ UNCHANGED <<now, sessions, answer, observed, codes, issuing, reply, known, minted,
                 tries>>

MutFinishClientCredentials(a, s) ==
  /\ pending[a] # None
  /\ pending[a].grant = "client_credentials"
  /\ Store!Create(s, pending[a].user)
  /\ reply' = Reply("token", "client_credentials", pending[a].user)
  /\ known' = known \cup {s}
  /\ pending' = [pending EXCEPT ![a] = None]
  /\ UNCHANGED <<now, codes, issuing, minted, tries>>

\* ISE accepts: the session id is the token.
FinishClientCredentials(a, s) ==
  /\ pending[a] # None
  /\ pending[a].grant = "client_credentials"
  /\ Store!Create(s, pending[a].user)
  /\ reply' = Reply("token", "client_credentials", s)
  /\ known' = known \cup {s}
  /\ pending' = [pending EXCEPT ![a] = None]
  /\ UNCHANGED <<now, codes, issuing, minted, tries>>

\* ISE refuses, or cannot be asked: the login page again, or invalid_client.
FailLogin(a) ==
  /\ pending[a] # None
  /\ pending' = [pending EXCEPT ![a] = None]
  /\ reply' = IF pending[a].grant = "client_credentials"
                THEN Reply("invalid_client", "client_credentials", None) ELSE reply
  /\ UNCHANGED <<now, sessions, answer, observed, codes, issuing, known, minted, tries>>

-------------------------------------------------------------------------------
\* client_ok: nothing matches an empty client id.
ClientOk(cid, secretOk) == cid # NoClient /\ cid = ClientId /\ secretOk

MutCodeFresh(rec) == now >= rec.created
CodeFresh(rec) == now - rec.created <= CodeTtl

MutPkceOk(rec, v) == v = None \/ S256(v) = rec.challenge
PkceOk(rec, v) == rec.challenge # None => v # None /\ S256(v) = rec.challenge

\* The code names a fresh grant to this client, at this URI, with this verifier.
Redeemable(c, cid, uri, v) == /\ codes[c] # None
                              /\ CodeFresh(codes[c])
                              /\ codes[c].client_id = cid
                              /\ codes[c].redirect_uri = uri
                              /\ PkceOk(codes[c], v)

Presented(c, outcome, uri, v) ==
  tries' = [tries EXCEPT ![c] =
             Append(@, [outcome |-> outcome, redirect_uri |-> uri, verifier |-> v])]

MutExchangeKeepsBadCode(c, cid, uri, v) ==
  /\ ClientOk(cid, TRUE)
  /\ IF Redeemable(c, cid, uri, v)
       THEN /\ reply' = Reply("token", "authorization_code", codes[c].session_id)
            /\ known' = known \cup {codes[c].session_id}
            /\ codes' = [codes EXCEPT ![c] = None]
            /\ Presented(c, "token", uri, v)
       ELSE /\ reply' = Reply("invalid_grant", "authorization_code", None)
            /\ Presented(c, "invalid_grant", uri, v)
            /\ UNCHANGED <<codes, known>>

\* POST /token, authorization_code, from the authenticated client: whatever
\* is wrong with the rest of the request, the code is used up.
Exchange(c, cid, uri, v) ==
  /\ ClientOk(cid, TRUE)
  /\ codes' = [codes EXCEPT ![c] = None]
  /\ IF Redeemable(c, cid, uri, v)
       THEN /\ reply' = Reply("token", "authorization_code", codes[c].session_id)
            /\ known' = known \cup {codes[c].session_id}
            /\ Presented(c, "token", uri, v)
       ELSE /\ reply' = Reply("invalid_grant", "authorization_code", None)
            /\ Presented(c, "invalid_grant", uri, v)
            /\ UNCHANGED known

MutRejectClient(c, cid, secretOk) ==
  /\ ~ClientOk(cid, secretOk)
  /\ reply' = Reply("invalid_client", "authorization_code", None)
  /\ codes' = [codes EXCEPT ![c] = None]
  /\ UNCHANGED <<known, tries>>

\* A caller that does not authenticate as the client never reaches the code.
RejectClient(c, cid, secretOk) ==
  /\ ~ClientOk(cid, secretOk)
  /\ reply' = Reply("invalid_client", "authorization_code", None)
  /\ UNCHANGED <<codes, known, tries>>

\* POST /token, refresh_token: there is no such grant.
Refresh(cid, secretOk) ==
  /\ reply' = Reply(IF ClientOk(cid, secretOk) THEN "invalid_grant"
                                               ELSE "invalid_client",
                    "refresh_token", None)
  /\ UNCHANGED <<codes, known, tries>>

\* POST /token, client_credentials, with the id or the secret missing.
MissingCredentials ==
  /\ reply' = Reply("invalid_request", "client_credentials", None)
  /\ UNCHANGED <<codes, known, tries>>

-------------------------------------------------------------------------------
\* Whoever was told a session id may use it, and may log out.
UseToken == \E s \in known : Store!Get(s) \/ Store!Delete(s)

\* Sessions, codes and requests in flight are in memory only.
Restart ==
  /\ Store!Restart
  /\ codes' = [c \in Code |-> None]
  /\ pending' = [a \in Attempt |-> None]
  /\ issuing' = None
  /\ reply' = NoReply
  /\ tries' = [c \in Code |->
                IF codes[c] = None THEN tries[c]
                ELSE Append(tries[c], [outcome |-> "lost", redirect_uri |-> None,
                                       verifier |-> None])]
  /\ UNCHANGED <<now, known, minted>>

Token == \/ \E c \in Code, cid \in Client \cup {NoClient} :
              /\ minted[c] # None
              /\ Len(tries[c]) < MaxTries
              /\ \/ \E uri \in Uri, v \in Verifier \cup {None} : Exchange(c, cid, uri, v)
                 \/ \E secretOk \in BOOLEAN : RejectClient(c, cid, secretOk)
         \/ \E cid \in Client \cup {NoClient}, secretOk \in BOOLEAN : Refresh(cid, secretOk)
         \/ MissingCredentials

\* A request is handled, or resumes after its await: never in the midst of
\* another that has not come to its next await.
Request ==
  \/ \E a \in Attempt :
       \/ \E cid \in Client \cup {NoClient}, uri \in Uri, ch \in Challenge, u \in User :
            BeginAuthorize(a, cid, uri, ch, u)
       \/ \E s \in Sid : FinishAuthorize(a, s)
       \/ \E u \in User : BeginClientCredentials(a, u)
       \/ \E s \in Sid : FinishClientCredentials(a, s)
       \/ FailLogin(a)
  \/ Token /\ UNCHANGED <<now, sessions, answer, observed, pending, issuing, minted>>
  \/ UseToken /\ UNCHANGED <<now, oauthVars>>

\* The clock moves, between the two readings of a login by at most MaxLag.
Clock == /\ Store!Tick \/ Store!ClockSetBack
         /\ issuing # None => now' - sessions[issuing.session_id].created_at <= MaxLag
         /\ UNCHANGED <<sessions, answer, observed, oauthVars>>

Next == \/ issuing = None /\ Request
        \/ \E c \in Code : IssueCode(c)
        \/ Clock
        \/ Restart

Spec == Init /\ [][Next]_vars

-------------------------------------------------------------------------------
\* A code survives until the authenticated client presents it or the server
\* restarts: nobody else's requests to /token can take it away.
CodesKept ==
  \A c \in Code : codes[c] # None <=> minted[c] # None /\ tries[c] = <<>>

\* A code is worth one presentation: it never yields a second token, and no
\* token after a presentation that failed, in whatever order the requests and
\* the restarts come.
OneTryPerCode ==
  \A c \in Code : \A i \in DOMAIN tries[c] : tries[c][i].outcome = "token" => i = 1

\* A token obtained with a code is the session of the user who logged in for
\* that code, and the presenter is the party that asked for it: it repeats the
\* redirect URI and, when the login used PKCE, knows the verifier.
Ended(c, outcome) == /\ tries'[c] # tries[c]
                     /\ tries'[c][Len(tries'[c])].outcome = outcome
Redeemed(c) == Ended(c, "token")
InitiatorsToken ==
  \A c \in Code : Redeemed(c) =>
    LET mint == minted[c]
        try == tries'[c][Len(tries'[c])]
    IN  /\ reply'.session_id = mint.session_id
        /\ sessions[mint.session_id].user = mint.user
        /\ try.redirect_uri = mint.redirect_uri
        /\ mint.challenge # None => mint.challenge = S256(try.verifier)
TokenGoesToInitiator == [][InitiatorsToken]_tries

\* A token obtained with a code is a session that the store accepts at that
\* moment.  exchange_code() never asks the store: this rests on the session
\* limits leaving room for CODE_TTL and for the time that passes between the
\* dates of the session and of its code, and on nobody knowing the id earlier.
LiveToken == \A c \in Code : Redeemed(c) => Store!Usable(reply'.session_id)
TokenIsLive == [][LiveToken]_tries

\* The client that presents a code for the first time, in time, at the login's
\* redirect URI and with its verifier is not refused: neither other requests
\* nor logins, token uses and logouts of others, nor the clock before the code
\* was minted, cost it the token.
FirstRefused(c) == tries[c] = <<>> /\ Ended(c, "invalid_grant")
DueRefusal ==
  \A c \in Code : FirstRefused(c) =>
    LET mint == minted[c]
        try == tries'[c][Len(tries'[c])]
    IN  \/ now - mint.created > CodeTtl
        \/ try.redirect_uri # mint.redirect_uri
        \/ /\ mint.challenge # None
           /\ try.verifier = None \/ mint.challenge # S256(try.verifier)
RefusalHasCause == [][DueRefusal]_tries

-------------------------------------------------------------------------------
\* Refinement: the table of codes is hidden, only how presentations end is seen.
Outcomes(c) == [i \in DOMAIN tries[c] |-> tries[c][i].outcome]

Contract == INSTANCE TokenContract
              WITH login <- minted, past <- [c \in Code |-> Outcomes(c)]

\* The token endpoint implements its contract: a code yields its session on the
\* first presentation or never, no session id is handed out twice by whatever
\* grants, and nobody but the client uses up a code.
ImplementsContract == Contract!Spec

-------------------------------------------------------------------------------
\* The environment's promise about OAUTH_CLIENT_ID: when it is empty, the
\* /authorize flow is off, so no code is ever minted.
NoCodeWhenDisabled == ClientId = NoClient => \A c \in Code : minted[c] = None

\* build_http_app()'s promise: the client renews an expired session silently
\* by a refresh, so the client that holds a session is not turned away.
RefreshRenews ==
  reply.grant = "refresh_token" /\ known # {} => reply.kind # "invalid_grant"
================================================================================
