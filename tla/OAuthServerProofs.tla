--------------------------- MODULE OAuthServerProofs ---------------------------
(***************************************************************************)
(* What an authorization code is good for, for every set of codes, ids,    *)
(* clients, verifiers and concurrent logins, every session limit and every *)
(* interleaving of logins, exchanges, token uses, clock steps and          *)
(* restarts: one try, for the party that started the login.                *)
(***************************************************************************)
EXTENDS OAuthServer, TLAPS

-------------------------------------------------------------------------------
\* The store's part: only an id that was created has an entry.
StoreOK == /\ now \in 0 .. MaxTime
           /\ sessions \in [Sid -> Store!Session \cup {None}]
           /\ observed \in [Sid -> Store!Observation]
           /\ \A s \in Sid : sessions[s] # None => observed[s].status # "unborn"

\* Whoever holds an id was told one that exists or existed.
KnownOK == \A s \in known : observed[s].status # "unborn"

\* Nobody was told the id s, whose session is as it was created, at most MaxLag
\* before t.
Untouched(s, user, t) ==
  /\ s \notin known
  /\ sessions[s] # None
  /\ sessions[s].user = user
  /\ sessions[s].last_used_at = sessions[s].created_at
  /\ t - sessions[s].created_at <= MaxLag

\* A code that can still be redeemed has not been tried, its record agrees with
\* the login it was minted for, and its session is untouched since then.
Pristine(c) ==
  /\ minted[c] # None /\ tries[c] = <<>>
  /\ codes[c].session_id = minted[c].session_id
  /\ codes[c].redirect_uri = minted[c].redirect_uri
  /\ codes[c].challenge = minted[c].challenge
  /\ codes[c].created = minted[c].created
  /\ Untouched(codes[c].session_id, minted[c].user, codes[c].created)

CodeOK(c) == /\ codes[c] # None => Pristine(c)
             /\ codes[c] = None => (minted[c] = None <=> tries[c] = <<>>)
             /\ \A i \in DOMAIN tries[c] : tries[c][i].outcome = "token" => i = 1

\* Two codes never name the same session.
Distinct == \A c, d \in Code :
  codes[c] # None /\ codes[d] # None /\ codes[c].session_id = codes[d].session_id => c = d

\* The session of a login that waits for its code is untouched and no code's.
IssuingOK == issuing # None =>
  /\ Untouched(issuing.session_id, issuing.login.user, now)
  /\ \A c \in Code : codes[c] # None => codes[c].session_id # issuing.session_id

IInv == /\ TypeOK /\ StoreOK /\ KnownOK /\ (\A c \in Code : CodeOK(c))
        /\ Distinct /\ IssuingOK

-------------------------------------------------------------------------------
LEMMA IInvInit == Init => IInv
<1> SUFFICES ASSUME Init PROVE IInv
  OBVIOUS
<1>1. TypeOK
  BY DEF Init, TypeOK, NoReply, Reply
<1>2. StoreOK
  BY OAuthAssumption DEF Init, Store!Init, StoreOK, Store!Unborn, Store!Observation,
     Store!Never, OAuthAssumption
<1> QED BY <1>1, <1>2 DEF Init, IInv, KnownOK, CodeOK, Distinct, IssuingOK

LEMMA CodeFacts ==
  ASSUME IInv, NEW c \in Code, codes[c] # None
  PROVE  /\ codes[c] \in CodeRecord /\ minted[c] \in Mint /\ Pristine(c)
         /\ codes[c].session_id \in Sid /\ sessions[codes[c].session_id] # None
<1>1. codes[c] \in CodeRecord /\ minted[c] \in Mint /\ Pristine(c)
  BY DEF IInv, TypeOK, CodeOK, Pristine
<1> QED BY <1>1 DEF CodeRecord, Pristine, Untouched

LEMMA IssuingFacts ==
  ASSUME IInv, issuing # None
  PROVE  /\ issuing.login \in FormLogin /\ issuing.session_id \in Sid
         /\ sessions[issuing.session_id] \in Store!Session
         /\ issuing.session_id \notin known
BY DEF IInv, TypeOK, Accepted, StoreOK, IssuingOK, Untouched

\* A login begins or fails: codes and sessions rest.
LEMMA LoginStep ==
  ASSUME IInv, NEW a \in Attempt,
         \/ \E cid \in Client \cup {NoClient}, uri \in Uri, ch \in Challenge, u \in User :
              BeginAuthorize(a, cid, uri, ch, u)
         \/ \E u \in User : BeginClientCredentials(a, u)
         \/ FailLogin(a)
  PROVE  IInv'
<1>1. UNCHANGED <<now, sessions, observed, codes, issuing, known, minted, tries>>
  BY DEF BeginAuthorize, BeginClientCredentials, FailLogin
<1>2. pending' \in [Attempt -> Login \cup {None}]
  <2>1. ASSUME NEW p, p \in Login, pending' = [pending EXCEPT ![a] = p]
        PROVE  pending' \in [Attempt -> Login \cup {None}]
    BY <2>1 DEF IInv, TypeOK
  <2>2. ASSUME NEW cid, NEW uri \in Uri, NEW ch \in Challenge, NEW u \in User,
               BeginAuthorize(a, cid, uri, ch, u)
        PROVE  pending' \in [Attempt -> Login \cup {None}]
    <3> DEFINE p == [grant |-> "authorization_code", client_id |-> cid,
                     redirect_uri |-> uri, challenge |-> ch, user |-> u]
    <3>1. cid = ClientId /\ pending' = [pending EXCEPT ![a] = p]
      BY <2>2 DEF BeginAuthorize
    <3>2. p \in Login
      BY <3>1 DEF Login, FormLogin
    <3> HIDE DEF p
    <3> QED BY <2>1, <3>1, <3>2
  <2>3. ASSUME NEW u \in User, BeginClientCredentials(a, u)
        PROVE  pending' \in [Attempt -> Login \cup {None}]
    BY <2>1, <2>3 DEF BeginClientCredentials, Login
  <2>4. CASE FailLogin(a)
    BY <2>4 DEF FailLogin, IInv, TypeOK
  <2> QED BY <2>2, <2>3, <2>4
<1>3. TypeOK'
  BY <1>1, <1>2
     DEF IInv, TypeOK, BeginAuthorize, BeginClientCredentials, FailLogin, Reply
<1> QED BY <1>1, <1>3 DEF IInv, StoreOK, KnownOK, CodeOK, Pristine, Distinct, IssuingOK,
                         Untouched

\* A session is created for the login in slot a.
LEMMA CreateKeeps ==
  ASSUME IInv, NEW a \in Attempt, pending[a] \in Login, NEW s \in Sid,
         Store!Create(s, pending[a].user), UNCHANGED now
  PROVE  /\ StoreOK'
         /\ sessions[s] = None /\ s \notin known
         /\ \A x \in Sid : x # s => sessions'[x] = sessions[x]
         /\ sessions'[s] = [user |-> pending[a].user, created_at |-> now,
                            last_used_at |-> now]
         /\ \A x \in Sid : observed[x].status # "unborn" => observed'[x].status # "unborn"
         /\ observed'[s].status = "held"
<1>1. pending[a].user \in User
  BY DEF Login, FormLogin
<1>2. [user |-> pending[a].user, created_at |-> now, last_used_at |-> now] \in Store!Session
  BY <1>1 DEF Store!Session, IInv, StoreOK
<1>3. Store!Held(pending[a].user) \in Store!Observation
  BY <1>1 DEF Store!Held, Store!Observation, Store!Never, IInv, StoreOK
<1> QED BY <1>2, <1>3 DEF Store!Create, Store!Held, IInv, StoreOK, KnownOK

\* A session that nobody was told of stays untouched while another is created.
LEMMA OthersUntouched ==
  ASSUME IInv, NEW a \in Attempt, pending[a] \in Login, NEW s \in Sid,
         Store!Create(s, pending[a].user), UNCHANGED <<now, codes, minted, tries>>,
         known' \subseteq known \cup {s}
  PROVE  /\ \A d \in Code : CodeOK(d)'
         /\ \A d \in Code : codes[d] # None => codes[d].session_id # s
<1>1. sessions[s] = None /\ \A x \in Sid : x # s => sessions'[x] = sessions[x]
  BY CreateKeeps
<1>2. \A d \in Code : codes[d] # None => codes[d].session_id \in Sid \ {s}
  BY <1>1, CodeFacts
<1>3. ASSUME NEW d \in Code, codes[d] # None PROVE Pristine(d)'
  BY <1>1, <1>2, <1>3, CodeFacts DEF Pristine, Untouched
<1> QED BY <1>2, <1>3 DEF IInv, CodeOK

\* ISE accepts an /authorize login: its session waits for a code.
LEMMA AcceptStep ==
  ASSUME IInv, issuing = None, NEW a \in Attempt, NEW s \in Sid, FinishAuthorize(a, s)
  PROVE  IInv'
<1>1. pending[a] \in FormLogin /\ pending[a] \in Login
  BY DEF FinishAuthorize, IInv, TypeOK, Login, FormLogin
<1>2. /\ Store!Create(s, pending[a].user)
      /\ issuing' = [login |-> pending[a], session_id |-> s]
      /\ pending' = [pending EXCEPT ![a] = None]
      /\ UNCHANGED <<now, codes, reply, known, minted, tries>>
  BY DEF FinishAuthorize
<1>3. /\ StoreOK'
      /\ sessions[s] = None /\ s \notin known
      /\ sessions'[s] = [user |-> pending[a].user, created_at |-> now, last_used_at |-> now]
      /\ \A x \in Sid : observed[x].status # "unborn" => observed'[x].status # "unborn"
  BY <1>1, <1>2, CreateKeeps
<1>4. TypeOK'
  BY <1>1, <1>2 DEF IInv, TypeOK, Accepted
<1>5. KnownOK'
  BY <1>2, <1>3 DEF IInv, TypeOK, KnownOK
<1>6. /\ \A d \in Code : CodeOK(d)'
      /\ \A d \in Code : codes[d] # None => codes[d].session_id # s
  BY <1>1, <1>2, OthersUntouched
<1>7. IssuingOK'
  <2>1. sessions'[s] \in Store!Session /\ sessions'[s] # None
    BY <1>3, <1>1, RecordAssumption
       DEF RecordAssumption, Store!Session, FormLogin, IInv, StoreOK
  <2>2. now - now <= MaxLag
    BY OAuthAssumption DEF OAuthAssumption, IInv, StoreOK
  <2> QED BY <1>2, <1>3, <1>6, <2>1, <2>2 DEF IssuingOK, Untouched
<1>8. Distinct'
  BY <1>2 DEF IInv, Distinct
<1> QED BY <1>3, <1>4, <1>5, <1>6, <1>7, <1>8 DEF IInv

\* The new code names the session that waited for it.
LEMMA MintStep ==
  ASSUME IInv, NEW c \in Code, IssueCode(c)
  PROVE  IInv'
<1>0. PICK P, s, t : P = issuing.login /\ s = issuing.session_id /\ t = now
  OBVIOUS
<1> DEFINE rec == [client_id |-> P.client_id, redirect_uri |-> P.redirect_uri,
                   session_id |-> s, challenge |-> P.challenge, created |-> t]
           mint == [user |-> P.user, session_id |-> s, redirect_uri |-> P.redirect_uri,
                    challenge |-> P.challenge, created |-> t]
<1>1. /\ issuing # None /\ minted[c] = None
      /\ codes' = [codes EXCEPT ![c] = rec]
      /\ minted' = [minted EXCEPT ![c] = mint]
      /\ issuing' = None
      /\ UNCHANGED <<now, sessions, answer, observed, pending, reply, known, tries>>
  BY <1>0 DEF IssueCode
<1>2. P \in FormLogin /\ s \in Sid /\ t \in 0 .. MaxTime
  BY <1>0, <1>1, IssuingFacts DEF IInv, StoreOK
<1>3. rec \in CodeRecord /\ mint \in Mint /\ rec # None /\ mint # None
  BY <1>2, RecordAssumption DEF CodeRecord, Mint, FormLogin, RecordAssumption
<1>4. TypeOK'
  <2> HIDE DEF rec, mint
  <2> QED BY <1>1, <1>3 DEF IInv, TypeOK
<1>5. StoreOK' /\ KnownOK' /\ IssuingOK'
  BY <1>1 DEF IInv, StoreOK, KnownOK, IssuingOK
<1>6. tries[c] = <<>>
  BY <1>1, RecordAssumption DEF IInv, CodeOK, Pristine
<1>7. \A d \in Code \ {c} : /\ codes'[d] = codes[d]
                              /\ minted'[d] = minted[d] /\ tries'[d] = tries[d]
  BY <1>1 DEF IInv, TypeOK
<1>8. ASSUME NEW d \in Code PROVE CodeOK(d)'
  <2>1. CASE d = c
    <3>1. codes'[c] = rec /\ minted'[c] = mint /\ tries'[c] = <<>>
      BY <1>1, <1>6 DEF IInv, TypeOK
    <3>2. Untouched(s, P.user, t)
      BY <1>0, <1>1 DEF IInv, IssuingOK
    <3>3. Untouched(s, P.user, t)'
      BY <1>1, <3>2 DEF Untouched
    <3>5. /\ rec.session_id = s /\ mint.user = P.user /\ rec.created = t
      OBVIOUS
    <3> HIDE DEF rec, mint
    <3>4. /\ rec.session_id = mint.session_id /\ rec.redirect_uri = mint.redirect_uri
          /\ rec.challenge = mint.challenge /\ rec.created = mint.created
      BY DEF rec, mint
    <3>7. Pristine(c)'
      BY <1>3, <3>1, <3>3, <3>4, <3>5 DEF Pristine, Untouched
    <3> QED BY <1>3, <2>1, <3>1, <3>7 DEF CodeOK
  <2>2. CASE d # c
    BY <1>1, <1>7, <2>2 DEF IInv, CodeOK, Pristine, Untouched
  <2> QED BY <2>1, <2>2
<1>9. Distinct'
  BY <1>0, <1>1 DEF IInv, TypeOK, Distinct, IssuingOK
<1> QED BY <1>4, <1>5, <1>8, <1>9 DEF IInv

\* ISE accepts a client_credentials login: the new id is told at once.
LEMMA ClientCredentialsStep ==
  ASSUME IInv, issuing = None, NEW a \in Attempt, NEW s \in Sid,
         FinishClientCredentials(a, s)
  PROVE  IInv'
<1>1. pending[a] \in Login
  BY DEF FinishClientCredentials, IInv, TypeOK
<1>2. /\ Store!Create(s, pending[a].user)
      /\ reply' = Reply("token", "client_credentials", s)
      /\ known' = known \cup {s}
      /\ pending' = [pending EXCEPT ![a] = None]
      /\ UNCHANGED <<now, codes, issuing, minted, tries>>
  BY DEF FinishClientCredentials
<1>3. /\ StoreOK'
      /\ sessions[s] = None /\ s \notin known
      /\ \A x \in Sid : x # s => sessions'[x] = sessions[x]
      /\ \A x \in Sid : observed[x].status # "unborn" => observed'[x].status # "unborn"
      /\ observed'[s].status = "held"
  BY <1>1, <1>2, CreateKeeps
<1>4. TypeOK'
  BY <1>2 DEF IInv, TypeOK, Reply
<1>5. KnownOK'
  BY <1>2, <1>3 DEF IInv, TypeOK, KnownOK
<1>6. \A d \in Code : CodeOK(d)'
  BY <1>1, <1>2, OthersUntouched
<1>7. Distinct' /\ IssuingOK'
  BY <1>2 DEF IInv, Distinct, IssuingOK
<1> QED BY <1>3, <1>4, <1>5, <1>6, <1>7 DEF IInv

-------------------------------------------------------------------------------
StoreRests == UNCHANGED <<now, sessions, answer, observed, pending, issuing, minted>>

\* The authenticated client presents a code.
LEMMA ExchangeStep ==
  ASSUME IInv, issuing = None, NEW c \in Code, NEW cid \in Client \cup {NoClient},
         NEW uri \in Uri, NEW v \in Verifier \cup {None}, Exchange(c, cid, uri, v),
         minted[c] # None, StoreRests
  PROVE  IInv'
<1>1. PICK outcome \in {"token", "invalid_grant"} :
        /\ Presented(c, outcome, uri, v)
        /\ outcome = "token" => codes[c] # None
        /\ known' = IF outcome = "token" THEN known \cup {codes[c].session_id} ELSE known
  BY DEF Exchange, Redeemable
<1> DEFINE try == [outcome |-> outcome, redirect_uri |-> uri, verifier |-> v]
<1>2. /\ codes' = [codes EXCEPT ![c] = None]
      /\ tries' = [tries EXCEPT ![c] = Append(@, try)]
      /\ try \in Try
  BY <1>1 DEF Exchange, Presented, Try
<1>3. tries[c] \in Seq(Try) /\ tries'[c] = Append(tries[c], try)
  BY <1>2 DEF IInv, TypeOK
<1>4. TypeOK'
  <2>1. known' \subseteq Sid
    BY <1>1, CodeFacts DEF IInv, TypeOK
  <2>2. reply' \in [kind : {"none", "token", "invalid_client", "invalid_grant",
                            "invalid_request"},
                    grant : {"none", "authorization_code", "client_credentials",
                             "refresh_token"},
                    session_id : Sid \cup {None}]
    BY CodeFacts DEF Exchange, Redeemable, Reply
  <2>3. tries' \in [Code -> Seq(Try)]
    BY <1>2, <1>3 DEF IInv, TypeOK
  <2> QED BY <1>2, <2>1, <2>2, <2>3 DEF IInv, TypeOK, StoreRests
<1>5. StoreOK' /\ KnownOK'
  BY <1>1, CodeFacts DEF IInv, StoreOK, KnownOK, StoreRests
<1>6. ASSUME NEW d \in Code PROVE CodeOK(d)'
  <2>1. CASE d = c
    <3>1. codes'[c] = None /\ minted'[c] # None
      BY <1>2 DEF IInv, TypeOK, StoreRests
    <3>2. tries'[c] # <<>>
      BY <1>2, <1>3
    <3>3. outcome = "token" => Len(tries[c]) = 0
      <4>1. outcome = "token" => tries[c] = <<>>
        BY <1>1, CodeFacts DEF Pristine
      <4>2. Len(<<>>) = 0
        OBVIOUS
      <4> QED BY <4>1, <4>2
    <3>4. \A i \in DOMAIN tries'[c] : tries'[c][i].outcome = "token" => i = 1
      <4> HIDE DEF try
      <4> SUFFICES ASSUME NEW i \in DOMAIN tries'[c], tries'[c][i].outcome = "token"
                   PROVE  i = 1
        OBVIOUS
      <4>1. CASE i = Len(tries[c]) + 1
        <5>1. tries'[c][i] = try
          BY <1>2, <1>3, <4>1
        <5> QED BY <3>3, <4>1, <5>1 DEF try
      <4>2. CASE i # Len(tries[c]) + 1
        <5>1. i \in DOMAIN tries[c] /\ tries'[c][i] = tries[c][i]
          BY <1>2, <1>3, <4>2
        <5> QED BY <5>1 DEF IInv, CodeOK
      <4> QED BY <4>1, <4>2
    <3> QED BY <2>1, <3>1, <3>2, <3>4 DEF CodeOK
  <2>2. CASE d # c
    <3>1. codes'[d] = codes[d] /\ minted'[d] = minted[d] /\ tries'[d] = tries[d]
      BY <1>2, <2>2 DEF IInv, TypeOK, StoreRests
    <3>2. codes[d] # None /\ codes[c] # None => codes[d].session_id # codes[c].session_id
      BY <2>2 DEF IInv, Distinct
    <3>3. codes[d] # None => Pristine(d)'
      BY <1>1, <3>1, <3>2, CodeFacts DEF Pristine, Untouched, StoreRests
    <3> QED BY <3>1, <3>3 DEF IInv, CodeOK
  <2> QED BY <2>1, <2>2
<1>7. Distinct' /\ IssuingOK'
  BY <1>2 DEF IInv, TypeOK, Distinct, IssuingOK, StoreRests
<1> QED BY <1>4, <1>5, <1>6, <1>7 DEF IInv

\* Nobody else's request to /token disturbs a code.
LEMMA RejectStep ==
  ASSUME IInv, StoreRests, NEW cid \in Client \cup {NoClient}, NEW secretOk \in BOOLEAN,
         \/ Refresh(cid, secretOk) \/ MissingCredentials
         \/ \E c \in Code : RejectClient(c, cid, secretOk)
  PROVE  IInv'
<1>1. UNCHANGED <<codes, known, tries>>
  BY DEF Refresh, RejectClient, MissingCredentials
<1>2. TypeOK'
  BY <1>1 DEF IInv, TypeOK, StoreRests, Refresh, RejectClient, MissingCredentials,
                    Reply
<1> QED BY <1>1, <1>2 DEF IInv, StoreOK, KnownOK, CodeOK, Pristine, Distinct, IssuingOK,
                         Untouched, StoreRests

\* The clock moves, or nothing does.
LEMMA ClockStep ==
  ASSUME IInv, UNCHANGED <<sessions, observed, oauthVars>>, now' \in 0 .. MaxTime,
         issuing # None => now' - sessions[issuing.session_id].created_at <= MaxLag
  PROVE  IInv'
<1>1. UNCHANGED <<sessions, observed, codes, pending, issuing, reply, known, minted, tries>>
  BY DEF oauthVars
<1>2. TypeOK' /\ StoreOK' /\ KnownOK' /\ Distinct'
  BY <1>1 DEF IInv, TypeOK, StoreOK, KnownOK, Distinct
<1>3. ASSUME NEW c \in Code PROVE CodeOK(c)'
  BY <1>1 DEF IInv, CodeOK, Pristine, Untouched
<1>4. IssuingOK'
  BY <1>1 DEF IInv, IssuingOK, Untouched
<1> QED BY <1>2, <1>3, <1>4 DEF IInv

\* A told session is used or ended: the session of a code that can be redeemed
\* is none of these.
LEMMA UseStep ==
  ASSUME IInv, UNCHANGED <<now, oauthVars>>, issuing = None, UseToken
  PROVE  IInv'
<1>1. PICK s \in known : Store!Get(s) \/ Store!Delete(s)
  BY DEF UseToken
<1>2. s \in Sid
  BY DEF IInv, TypeOK
<1>3. \/ /\ sessions[s] # None
         /\ sessions' = [sessions EXCEPT ![s].last_used_at = now]
         /\ observed' = [observed EXCEPT ![s].seen = now]
      \/ sessions' = [sessions EXCEPT ![s] = None] /\ observed' = Store!Gone({s})
  BY <1>1 DEF Store!Get, Store!Grant, Store!Refuse, Store!Delete, Store!Usable
<1>4. /\ sessions' \in [Sid -> Store!Session \cup {None}]
      /\ \A x \in Sid : x # s => sessions'[x] = sessions[x]
      /\ \A x \in Sid : sessions'[x] # None => sessions[x] # None
  <2>1. CASE sessions[s] # None /\ sessions' = [sessions EXCEPT ![s].last_used_at = now]
    <3>1. sessions[s] \in Store!Session /\ now \in Int
      BY <1>2, <2>1 DEF IInv, StoreOK
    <3>2. [sessions[s] EXCEPT !.last_used_at = now] \in Store!Session
      BY <3>1 DEF Store!Session
    <3> QED BY <1>2, <2>1, <3>2 DEF IInv, StoreOK
  <2>2. CASE sessions' = [sessions EXCEPT ![s] = None]
    BY <1>2, <2>2 DEF IInv, StoreOK
  <2> QED BY <1>3, <2>1, <2>2
<1>5. /\ observed' \in [Sid -> Store!Observation]
      /\ \A x \in Sid : observed[x].status # "unborn" <=> observed'[x].status # "unborn"
  BY <1>2, <1>3 DEF IInv, StoreOK, Store!Observation, Store!Gone
<1>6. StoreOK' /\ KnownOK' /\ TypeOK'
  BY <1>4, <1>5 DEF IInv, StoreOK, KnownOK, TypeOK, oauthVars
<1>7. ASSUME NEW c \in Code, codes[c] # None PROVE Pristine(c)'
  <2>1. Pristine(c) /\ codes[c].session_id \in Sid /\ codes[c].session_id # s
    BY <1>7, CodeFacts DEF Pristine, Untouched
  <2> QED BY <1>4, <2>1 DEF Pristine, Untouched, oauthVars
<1> QED BY <1>6, <1>7 DEF IInv, CodeOK, Distinct, IssuingOK, oauthVars

LEMMA RestartStep == ASSUME IInv, Restart PROVE IInv'
<1> DEFINE lost == [outcome |-> "lost", redirect_uri |-> None, verifier |-> None]
<1>1. lost \in Try
  BY DEF Try
<1>2. /\ codes' = [c \in Code |-> None]
      /\ pending' = [a \in Attempt |-> None]
      /\ issuing' = None
      /\ reply' = NoReply
      /\ UNCHANGED <<now, known, minted>>
      /\ sessions' = [s \in Sid |-> None] /\ observed' = Store!Gone(Sid)
      /\ tries' = [c \in Code |-> IF codes[c] = None THEN tries[c] ELSE Append(tries[c], lost)]
  BY DEF Restart, Store!Restart
<1> HIDE DEF lost
<1>3. /\ observed' \in [Sid -> Store!Observation]
      /\ \A x \in Sid : observed[x].status # "unborn" => observed'[x].status # "unborn"
  BY <1>2 DEF IInv, StoreOK, Store!Observation, Store!Gone
<1>4. StoreOK' /\ KnownOK'
  BY <1>2, <1>3 DEF IInv, StoreOK, KnownOK, TypeOK
<1>5. TypeOK'
  BY <1>1, <1>2 DEF IInv, TypeOK, NoReply, Reply
<1>6. ASSUME NEW c \in Code PROVE CodeOK(c)'
  <2>1. codes'[c] = None /\ minted'[c] = minted[c]
    BY <1>2
  <2>2. CASE codes[c] = None
    BY <1>2, <2>1, <2>2 DEF IInv, CodeOK
  <2>3. CASE codes[c] # None
    <3>1. minted[c] # None /\ tries[c] = <<>>
      BY <2>3, CodeFacts DEF Pristine
    <3>2. tries'[c] = Append(<<>>, lost)
      BY <1>2, <2>3, <3>1
    <3>3. tries'[c] = <<lost>>
      BY <3>2
    <3>4. tries'[c] # <<>> /\ DOMAIN tries'[c] = {1}
      BY <3>3
    <3> QED BY <2>1, <3>1, <3>4 DEF CodeOK
  <2> QED BY <2>2, <2>3
<1>7. Distinct' /\ IssuingOK'
  BY <1>2 DEF Distinct, IssuingOK
<1> QED BY <1>4, <1>5, <1>6, <1>7 DEF IInv

LEMMA IInvStep == ASSUME IInv, [Next]_vars PROVE IInv'
<1>1. CASE issuing = None /\ \E a \in Attempt :
       \/ \E cid \in Client \cup {NoClient}, uri \in Uri, ch \in Challenge, u \in User :
            BeginAuthorize(a, cid, uri, ch, u)
       \/ \E s \in Sid : FinishAuthorize(a, s)
       \/ \E u \in User : BeginClientCredentials(a, u)
       \/ \E s \in Sid : FinishClientCredentials(a, s)
       \/ FailLogin(a)
  BY <1>1, LoginStep, AcceptStep, ClientCredentialsStep
<1>2. CASE issuing = None /\ Token /\ StoreRests
  BY <1>2, ExchangeStep, RejectStep DEF Token
<1>3. CASE \/ issuing = None /\ UseToken /\ UNCHANGED <<now, oauthVars>>
           \/ Clock
           \/ UNCHANGED vars
  <2>1. now \in 0 .. MaxTime
    BY DEF IInv, StoreOK
  <2>2. now' \in 0 .. MaxTime
    BY <1>3, <2>1, OAuthAssumption
       DEF Clock, Store!Tick, Store!ClockSetBack, vars, OAuthAssumption
  <2>3. UNCHANGED vars /\ issuing # None
          => now' - sessions[issuing.session_id].created_at <= MaxLag
    BY DEF IInv, IssuingOK, Untouched, vars
  <2> QED BY <1>3, <2>2, <2>3, ClockStep, UseStep DEF Clock, vars
<1>4. CASE \E c \in Code : IssueCode(c)
  BY <1>4, MintStep
<1> QED
  BY <1>1, <1>2, <1>3, <1>4, RestartStep DEF Next, Request, StoreRests

\* The inductive invariant holds in every reachable state.
THEOREM IInvHolds == Spec => []IInv
<1>1. IInv /\ [Next]_vars => IInv'
  BY IInvStep
<1> QED BY IInvInit, <1>1, PTL DEF Spec

-------------------------------------------------------------------------------
\* A code survives whatever others send to /token.
THEOREM CodesSurvive == Spec => []CodesKept
<1>1. ASSUME IInv PROVE CodesKept
  BY <1>1 DEF IInv, CodeOK, Pristine, CodesKept
<1> QED BY IInvHolds, <1>1, PTL

\* A code yields at most one token, on its first presentation.
THEOREM OneTokenPerCode == Spec => []OneTryPerCode
<1>1. IInv => OneTryPerCode
  BY DEF IInv, CodeOK, OneTryPerCode
<1> QED BY IInvHolds, <1>1, PTL

\* The client presents c, with this outcome.
Answered(c, outcome, cid, uri, v) ==
  /\ Exchange(c, cid, uri, v)
  /\ minted[c] # None
  /\ Redeemable(c, cid, uri, v) <=> outcome = "token"
  /\ tries'[c][Len(tries'[c])] =
       [outcome |-> outcome, redirect_uri |-> uri, verifier |-> v]

\* No other kind of step ends a presentation with an answer.
LEMMA AnsweredBy ==
  ASSUME IInv, [Next]_vars, NEW c \in Code, NEW outcome \in {"token", "invalid_grant"},
         Ended(c, outcome)
  PROVE  \E cid \in Client \cup {NoClient}, uri \in Uri, v \in Verifier \cup {None} :
           Answered(c, outcome, cid, uri, v)
<1>1. tries[c] \in Seq(Try) /\ tries \in [Code -> Seq(Try)]
  BY DEF IInv, TypeOK
<1>2. ASSUME NEW try \in Try, tries'[c] = Append(tries[c], try)
      PROVE  tries'[c][Len(tries'[c])] = try /\ try.outcome = outcome
  <2>1. tries'[c][Len(tries'[c])] = try
    BY <1>1, <1>2
  <2> QED BY <2>1 DEF Ended
<1>3. ~UNCHANGED tries
  BY DEF Ended
<1>4. CASE Restart
  <2> DEFINE lost == [outcome |-> "lost", redirect_uri |-> None, verifier |-> None]
  <2>1. lost \in Try /\ lost.outcome = "lost"
    BY DEF Try
  <2>2. tries'[c] = Append(tries[c], lost)
    BY <1>4, <1>1 DEF Restart, Ended
  <2> HIDE DEF lost
  <2>3. "lost" = outcome
    BY <1>2, <2>1, <2>2
  <2> QED BY <2>3
<1>5. CASE Token
  <2>1. PICK d \in Code, cid \in Client \cup {NoClient}, uri \in Uri,
             v \in Verifier \cup {None} : Exchange(d, cid, uri, v) /\ minted[d] # None
    BY <1>3, <1>5 DEF Token, RejectClient, Refresh, MissingCredentials
  <2>2. PICK out \in {"token", "invalid_grant"} :
          /\ Presented(d, out, uri, v)
          /\ Redeemable(d, cid, uri, v) <=> out = "token"
    BY <2>1 DEF Exchange
  <2>3. d = c
    BY <1>1, <2>2 DEF Presented, Ended
  <2> DEFINE try == [outcome |-> out, redirect_uri |-> uri, verifier |-> v]
  <2>4. try \in Try /\ try.outcome = out
    BY DEF Try
  <2>5. tries'[c] = Append(tries[c], try)
    BY <1>1, <2>2, <2>3 DEF Presented
  <2>6. tries'[c][Len(tries'[c])] = try /\ out = outcome
    <3> HIDE DEF try
    <3> QED BY <1>2, <2>4, <2>5
  <2>7. Answered(c, outcome, cid, uri, v)
    BY <2>1, <2>2, <2>3, <2>6 DEF Answered
  <2> QED BY <2>7
<1> QED
  BY <1>3, <1>4, <1>5
     DEF Next, Request, Clock, vars, oauthVars, BeginAuthorize, FinishAuthorize, IssueCode,
         BeginClientCredentials, FinishClientCredentials, FailLogin, UseToken

LEMMA RedeemedBy ==
  ASSUME IInv, [Next]_vars, NEW c \in Code, Redeemed(c)
  PROVE  \E cid \in Client \cup {NoClient}, uri \in Uri, v \in Verifier \cup {None} :
           /\ Redeemable(c, cid, uri, v)
           /\ reply'.session_id = codes[c].session_id
           /\ tries'[c][Len(tries'[c])] =
                [outcome |-> "token", redirect_uri |-> uri, verifier |-> v]
<1>1. PICK cid \in Client \cup {NoClient}, uri \in Uri, v \in Verifier \cup {None} :
         Answered(c, "token", cid, uri, v)
  BY AnsweredBy DEF Redeemed
<1>2. /\ Redeemable(c, cid, uri, v)
      /\ tries'[c][Len(tries'[c])] =
           [outcome |-> "token", redirect_uri |-> uri, verifier |-> v]
  BY <1>1 DEF Answered
<1>3. reply'.session_id = codes[c].session_id
  BY <1>1, <1>2 DEF Answered, Exchange, Reply
<1> QED BY <1>2, <1>3

\* A token goes to the party that started the login, as the user who logged in.
THEOREM TokenForInitiator == Spec => TokenGoesToInitiator
<1>1. ASSUME IInv, [Next]_vars PROVE [InitiatorsToken]_tries
  <2> SUFFICES ASSUME NEW c \in Code, Redeemed(c)
      PROVE  LET mint == minted[c]
                 try == tries'[c][Len(tries'[c])]
             IN  /\ reply'.session_id = mint.session_id
                 /\ sessions[mint.session_id].user = mint.user
                 /\ try.redirect_uri = mint.redirect_uri
                 /\ mint.challenge # None => mint.challenge = S256(try.verifier)
    BY DEF InitiatorsToken
  <2>1. PICK cid \in Client \cup {NoClient}, uri \in Uri, v \in Verifier \cup {None} :
           /\ Redeemable(c, cid, uri, v)
           /\ reply'.session_id = codes[c].session_id
           /\ tries'[c][Len(tries'[c])] =
                [outcome |-> "token", redirect_uri |-> uri, verifier |-> v]
    BY <1>1, RedeemedBy
  <2>2. Pristine(c)
    BY <1>1, <2>1, CodeFacts DEF Redeemable
  <2> QED BY <2>1, <2>2 DEF Redeemable, Pristine, Untouched, PkceOk
<1> QED BY IInvHolds, <1>1, PTL DEF Spec, TokenGoesToInitiator

\* A token that a code yields is a session the store accepts, wherever the
\* session limits that are switched on leave room for CODE_TTL and the lag.
THEOREM TokenLives ==
  ASSUME Ttl # 0 => CodeTtl + MaxLag <= Ttl, Idle # 0 => CodeTtl + MaxLag <= Idle
  PROVE  Spec => TokenIsLive
<1>1. ASSUME IInv, [Next]_vars PROVE [LiveToken]_tries
  <2> SUFFICES ASSUME NEW c \in Code, Redeemed(c) PROVE Store!Usable(reply'.session_id)
    BY DEF LiveToken
  <2>1. /\ codes[c] # None /\ CodeFresh(codes[c])
        /\ reply'.session_id = codes[c].session_id
    BY <1>1, RedeemedBy DEF Redeemable
  <2>2. /\ Pristine(c) /\ codes[c] \in CodeRecord
        /\ sessions[codes[c].session_id] # None
    BY <1>1, <2>1, CodeFacts
  <2> DEFINE e == sessions[codes[c].session_id]
  <2>3. /\ now \in Int /\ codes[c].created \in Int /\ e.created_at \in Int
        /\ now - codes[c].created <= CodeTtl
        /\ codes[c].created - e.created_at <= MaxLag
        /\ e.last_used_at = e.created_at
    BY <1>1, <2>1, <2>2, OAuthAssumption
       DEF IInv, StoreOK, CodeRecord, CodeFresh, OAuthAssumption, Pristine, Untouched,
           Store!Session
  <2>4. now - e.created_at <= CodeTtl + MaxLag
    BY <2>3, OAuthAssumption DEF OAuthAssumption
  <2>5. /\ Ttl # 0 => now - e.created_at <= Ttl
        /\ Idle # 0 => now - e.last_used_at <= Idle
    BY <2>3, <2>4, OAuthAssumption DEF OAuthAssumption
  <2> QED BY <2>1, <2>2, <2>3, <2>5, OAuthAssumption
          DEF Store!Usable, Store!IsExpired, OAuthAssumption
<1> QED BY IInvHolds, <1>1, PTL DEF Spec, TokenIsLive

\* Nothing but lateness, another redirect URI or a wrong verifier costs the
\* client the token of its first presentation.
THEOREM RefusalsDue == Spec => RefusalHasCause
<1>1. ASSUME IInv, [Next]_vars PROVE [DueRefusal]_tries
  <2> SUFFICES ASSUME NEW c \in Code, FirstRefused(c)
      PROVE  LET mint == minted[c]
                 try == tries'[c][Len(tries'[c])]
             IN  \/ now - mint.created > CodeTtl
                 \/ try.redirect_uri # mint.redirect_uri
                 \/ /\ mint.challenge # None
                    /\ try.verifier = None \/ mint.challenge # S256(try.verifier)
    BY DEF DueRefusal
  <2>1. tries[c] = <<>> /\ Ended(c, "invalid_grant")
    BY DEF FirstRefused
  <2>2. PICK cid \in Client \cup {NoClient}, uri \in Uri, v \in Verifier \cup {None} :
           Answered(c, "invalid_grant", cid, uri, v)
    BY <1>1, <2>1, AnsweredBy
  <2>3. /\ ClientOk(cid, TRUE) /\ minted[c] # None
        /\ ~Redeemable(c, cid, uri, v)
        /\ tries'[c][Len(tries'[c])] =
             [outcome |-> "invalid_grant", redirect_uri |-> uri, verifier |-> v]
    BY <2>2 DEF Answered, Exchange
  <2>4. codes[c] # None
    BY <1>1, <2>1, <2>3 DEF IInv, CodeOK
  <2>5. codes[c] \in CodeRecord /\ Pristine(c)
    BY <1>1, <2>4, CodeFacts
  <2>6. codes[c].client_id = cid
    BY <2>3, <2>5 DEF ClientOk, CodeRecord
  <2>7. ~CodeFresh(codes[c]) \/ codes[c].redirect_uri # uri \/ ~PkceOk(codes[c], v)
    BY <2>3, <2>4, <2>6 DEF Redeemable
  <2>8. ~CodeFresh(codes[c]) => now - minted[c].created > CodeTtl
    BY <1>1, <2>5, OAuthAssumption
       DEF IInv, StoreOK, CodeRecord, CodeFresh, Pristine, OAuthAssumption
  <2> QED BY <2>3, <2>5, <2>7, <2>8 DEF PkceOk, Pristine
<1> QED BY IInvHolds, <1>1, PTL DEF Spec, RefusalHasCause

-------------------------------------------------------------------------------
\* Whatever the OAuth server does to the session table is a call of the store:
\* what is proved of the store can be said of the store in this server.
LEMMA UsesTheStore == Spec => Store!Spec
<1>1. Init => Store!Init
  BY DEF Init
<1>2. ASSUME IInv, [Next]_vars PROVE [Store!Next]_Store!vars
  <2>1. CASE UNCHANGED <<now, sessions, answer, observed>>
    BY <2>1 DEF Store!vars, Store!storeVars
  <2>2. ASSUME NEW a \in Attempt, NEW s \in Sid,
               FinishClientCredentials(a, s) \/ FinishAuthorize(a, s)
        PROVE  Store!Next
    <3>1. Store!Create(s, pending[a].user) /\ UNCHANGED now /\ pending[a] # None
      BY <2>2 DEF FinishClientCredentials, FinishAuthorize
    <3>2. pending[a].user \in User
      BY <1>2, <3>1 DEF IInv, TypeOK, Login, FormLogin
    <3> QED BY <3>1, <3>2 DEF Store!Next, Store!StoreCall
  <2>3. CASE UseToken /\ UNCHANGED <<now, oauthVars>>
    BY <1>2, <2>3 DEF UseToken, IInv, TypeOK, Store!Next, Store!StoreCall
  <2>4. CASE Clock
    BY <2>4 DEF Clock, Store!Next, Store!storeVars
  <2>5. CASE Restart
    BY <2>5 DEF Restart, Store!Next, Store!StoreCall
  <2> QED
    BY <1>2, <2>1, <2>2, <2>3, <2>4, <2>5
       DEF Next, Request, vars, BeginAuthorize, IssueCode, BeginClientCredentials, FailLogin
<1>3. IInv /\ [Next]_vars => [Store!Next]_Store!vars
  BY <1>2
<1> QED BY IInvHolds, <1>1, <1>3, PTL DEF Spec, Store!Spec

-------------------------------------------------------------------------------
Sessions == INSTANCE SessionStoreProofs

\* The store that the OAuth server calls is the store of the theorems.
LEMMA SameStore == /\ Store!Init => Sessions!Init
                   /\ [Store!Next]_Store!vars => [Sessions!Next]_Sessions!vars
<1>1. /\ Sessions!NoAnswer = Store!NoAnswer
      /\ Sessions!Unborn = Store!Unborn
      /\ \A u : Sessions!Held(u) = Store!Held(u)
      /\ \A S : Sessions!Gone(S) = Store!Gone(S)
      /\ \A k, s, u : Sessions!Told(k, s, u) = Store!Told(k, s, u)
      /\ \A e, t : Sessions!IsExpired(e, t) <=> Store!IsExpired(e, t)
  BY DEF Sessions!NoAnswer, Store!NoAnswer, Sessions!Told, Store!Told, Sessions!Unborn,
     Store!Unborn, Sessions!Never, Store!Never, Sessions!Held, Store!Held, Sessions!Gone,
     Store!Gone, Sessions!IsExpired, Store!IsExpired
<1>2. \A s \in Sid, u \in User : Store!Create(s, u) => Sessions!Create(s, u)
  BY <1>1 DEF Store!Create, Sessions!Create
<1>3. \A s \in Sid : /\ Store!Get(s) => Sessions!Get(s)
                     /\ Store!Delete(s) => Sessions!Delete(s)
  BY <1>1 DEF Store!Get, Sessions!Get, Store!Grant, Sessions!Grant, Store!Refuse,
     Sessions!Refuse, Store!Usable, Sessions!Usable, Store!Delete, Sessions!Delete
<1>4. /\ Store!PurgeExpired => Sessions!PurgeExpired
      /\ Store!Restart => Sessions!Restart
  BY <1>1 DEF Store!PurgeExpired, Sessions!PurgeExpired, Store!Drop, Sessions!Drop,
     Store!Restart, Sessions!Restart
<1>5. /\ Store!Tick => Sessions!Tick
      /\ Store!ClockSetBack => Sessions!ClockSetBack
  BY DEF Store!Tick, Sessions!Tick, Store!ClockSetBack, Sessions!ClockSetBack
<1> QED
  BY <1>1, <1>2, <1>3, <1>4, <1>5
     DEF Store!Init, Sessions!Init, Store!Next, Sessions!Next, Store!StoreCall,
         Sessions!StoreCall, Store!vars, Sessions!vars, Store!storeVars, Sessions!storeVars

LEMMA StoreSpec == Spec => Sessions!Spec
<1>1. Store!Spec => Sessions!Spec
  BY SameStore, PTL DEF Store!Spec, Sessions!Spec
<1> QED BY <1>1, UsesTheStore, PTL

LEMMA StoreAssumed == Sessions!StoreAssumption /\ Sessions!NoneAssumption
<1>1. Sessions!StoreAssumption
  BY OAuthAssumption DEF OAuthAssumption
<1>2. Sessions!NoneAssumption
  BY RecordAssumption DEF RecordAssumption, Store!Session, Sessions!Session
<1> QED BY <1>1, <1>2

\* Every variable of the OAuth server keeps its type, the store's included.
THEOREM TypeCorrect == Spec => [](TypeOK /\ Store!TypeOK)
<1>1. IInv => TypeOK
  BY DEF IInv
<1>2. Sessions!Spec => []Sessions!TypeOK
  BY StoreAssumed, Sessions!TypeCorrect
<1>3. Sessions!TypeOK => Store!TypeOK
  BY DEF Sessions!TypeOK, Store!TypeOK, Sessions!Session, Store!Session,
     Sessions!AnswerKind, Store!AnswerKind, Sessions!Observation, Store!Observation
<1> QED BY IInvHolds, StoreSpec, <1>1, <1>2, <1>3, PTL

\* Under logins, exchanges, token uses and restarts in any order, the sessions
\* of the OAuth server keep all that the store promises.
THEOREM SessionsKeepPromises ==
  Spec => /\ []Sessions!TableMatchesCallers
          /\ Sessions!GrantsAreFresh
          /\ Sessions!NoEarlyRefusal
          /\ Sessions!ImplementsContract
<1>1. Sessions!Spec => /\ []Sessions!TableMatchesCallers
                       /\ Sessions!GrantsAreFresh
                       /\ Sessions!NoEarlyRefusal
                       /\ Sessions!ImplementsContract
  BY StoreAssumed, Sessions!TableAgrees, Sessions!Freshness, Sessions!NeverEarly,
     Sessions!Refinement, PTL
<1> QED BY <1>1, StoreSpec, PTL

-------------------------------------------------------------------------------
\* A session belongs to one code at most, ever, and the one that waits for its
\* code to none before; no direct grant has it as well.
MintsOK ==
  /\ \A c \in Code : minted[c] # None => observed[minted[c].session_id].status # "unborn"
  /\ \A c, d \in Code : /\ minted[c] # None /\ minted[d] # None
                         /\ minted[c].session_id = minted[d].session_id
                         => c = d
  /\ issuing # None =>
       /\ observed[issuing.session_id].status # "unborn"
       /\ \A c \in Code : minted[c] # None => minted[c].session_id # issuing.session_id

\* An id that was issued stays issued, and only a mint makes a login of a code.
LEMMA IssuedStaysIssued ==
  ASSUME IInv, [Next]_vars, NEW s \in Sid, observed[s].status # "unborn"
  PROVE  observed'[s].status # "unborn"
<1>1. observed[s] \in Store!Observation /\ observed \in [Sid -> Store!Observation]
  BY DEF IInv, StoreOK
<1>2. CASE UNCHANGED observed
  BY <1>2
<1>3. ASSUME NEW t \in Sid, NEW u, Store!Create(t, u) PROVE observed'[s].status # "unborn"
  BY <1>1, <1>3 DEF Store!Create, Store!Held
<1>4. CASE UseToken \/ Store!Restart
  BY <1>1, <1>4
     DEF UseToken, Store!Get, Store!Grant, Store!Refuse, Store!Delete, Store!Restart,
         Store!Gone, Store!Observation
<1> QED
  BY <1>2, <1>3, <1>4
     DEF Next, Request, Clock, vars, BeginAuthorize, FinishAuthorize, IssueCode,
         BeginClientCredentials, FinishClientCredentials, FailLogin, Restart

LEMMA MintsStep == ASSUME IInv, MintsOK, [Next]_vars PROVE MintsOK'
<1>1. minted \in [Code -> Mint \cup {None}]
  BY DEF IInv, TypeOK
<1>2. \A c \in Code : minted[c] # None => minted[c].session_id \in Sid
  BY <1>1 DEF Mint
<1>3. CASE UNCHANGED minted /\ (UNCHANGED issuing \/ issuing' = None)
  BY <1>2, <1>3, IssuedStaysIssued, IssuingFacts DEF MintsOK
<1>4. ASSUME NEW a \in Attempt, NEW s \in Sid, FinishAuthorize(a, s)
      PROVE  MintsOK'
  <2>1. observed[s].status = "unborn" /\ observed'[s].status = "held"
    BY <1>4 DEF FinishAuthorize, Store!Create, Store!Held, IInv, StoreOK
  <2>2. issuing'.session_id = s /\ UNCHANGED minted
    BY <1>4 DEF FinishAuthorize
  <2>3. \A d \in Code : minted[d] # None =>
          /\ minted[d].session_id # s
          /\ observed'[minted[d].session_id].status # "unborn"
    BY <1>2, <2>1, IssuedStaysIssued DEF MintsOK
  <2> QED BY <2>1, <2>2, <2>3 DEF MintsOK
<1>5. ASSUME NEW c \in Code, IssueCode(c) PROVE MintsOK'
  <2>1. /\ issuing # None /\ issuing' = None /\ UNCHANGED observed
    BY <1>5 DEF IssueCode
  <2>2. PICK m : m.session_id = issuing.session_id /\ minted' = [minted EXCEPT ![c] = m]
    BY <1>5 DEF IssueCode
  <2>3. \A d \in Code \ {c} : minted'[d] = minted[d]
    BY <1>1, <2>2
  <2>4. minted'[c].session_id = issuing.session_id
    BY <1>1, <2>2
  <2> QED BY <2>1, <2>3, <2>4 DEF MintsOK
<1> QED
  BY <1>3, <1>4, <1>5
     DEF Next, Request, Clock, vars, oauthVars, BeginAuthorize, BeginClientCredentials,
         FinishClientCredentials, FailLogin, Restart

\* One more presentation is one more outcome, and no other code's.
LEMMA OutcomeAdded ==
  ASSUME IInv, NEW c \in Code, NEW try \in Try, NEW new,
         new = Append(tries[c], try)
  PROVE  [i \in DOMAIN new |-> new[i].outcome] = Append(Outcomes(c), try.outcome)
<1> DEFINE old == tries[c]
           was == [i \in 1 .. Len(old) |-> old[i].outcome]
           O == {"token", "invalid_grant", "lost"}
<1>1. old \in Seq(Try)
  BY DEF IInv, TypeOK
<1>2. /\ DOMAIN old = 1 .. Len(old) /\ Len(old) \in Nat
      /\ \A i \in 1 .. Len(old) : old[i] \in Try
  BY <1>1
<1>3. /\ DOMAIN new = 1 .. Len(old) + 1
      /\ \A i \in 1 .. Len(old) : new[i] = old[i]
      /\ new[Len(old) + 1] = try
  BY <1>1
<1>4. was \in Seq(O) /\ try.outcome \in O /\ Len(was) = Len(old)
  BY <1>2 DEF Try
<1>5. Append(was, try.outcome) =
        [i \in 1 .. Len(old) + 1 |-> IF i = Len(old) + 1 THEN try.outcome ELSE was[i]]
  <2> HIDE DEF was, O, old
  <2> QED BY <1>2, <1>4
<1>6. Outcomes(c) = was
  BY <1>2 DEF Outcomes
<1>7. [i \in DOMAIN new |-> new[i].outcome] =
        [i \in 1 .. Len(old) + 1 |-> IF i = Len(old) + 1 THEN try.outcome ELSE was[i]]
  BY <1>2, <1>3
<1> QED BY <1>5, <1>6, <1>7

Pasts == [c \in Code |-> Outcomes(c)]

LEMMA NoOutcome ==
  ASSUME IInv, NEW c \in Code
  PROVE  /\ Outcomes(c) = <<>> <=> tries[c] = <<>>
         /\ Contract!Live(c) <=> codes[c] # None
<1>1. tries[c] \in Seq(Try)
  BY DEF IInv, TypeOK
<1>2. Outcomes(c) = <<>> <=> tries[c] = <<>>
  <2>1. CASE tries[c] = <<>>
    <3>1. DOMAIN tries[c] = {} /\ DOMAIN Outcomes(c) = {}
      BY <2>1 DEF Outcomes
    <3> QED BY <2>1, <3>1 DEF Outcomes
  <2>2. CASE tries[c] # <<>>
    <3>1. 1 \in DOMAIN tries[c] /\ 1 \in DOMAIN Outcomes(c)
      BY <1>1, <2>2 DEF Outcomes
    <3>2. DOMAIN <<>> = {}
      OBVIOUS
    <3> QED BY <2>2, <3>1, <3>2
  <2> QED BY <2>1, <2>2
<1>3. codes[c] # None <=> minted[c] # None /\ tries[c] = <<>>
  BY DEF IInv, CodeOK, Pristine
<1>4. Pasts[c] = Outcomes(c)
  BY DEF Pasts
<1> QED BY <1>2, <1>3, <1>4 DEF Contract!Live, Pasts

LEMMA PastAdded ==
  ASSUME IInv, NEW c \in Code, NEW try \in Try,
         tries' = [tries EXCEPT ![c] = Append(@, try)]
  PROVE  Pasts' = [Pasts EXCEPT ![c] = Append(@, try.outcome)]
<1>1. tries \in [Code -> Seq(Try)]
  BY DEF IInv, TypeOK
<1>2. tries'[c] = Append(tries[c], try)
  BY <1>1
<1>3. Outcomes(c)' = Append(Outcomes(c), try.outcome)
  BY <1>2, OutcomeAdded DEF Outcomes
<1>4. \A d \in Code \ {c} : Outcomes(d)' = Outcomes(d)
  BY <1>1 DEF Outcomes
<1> QED BY <1>3, <1>4 DEF Pasts

\* The token endpoint implements its contract: every step is a step of the
\* contract or leaves what its callers can see alone.
THEOREM Refinement == Spec => ImplementsContract
<1>1. Init => MintsOK
  BY DEF Init, MintsOK
<1>2. MintsOK /\ IInv /\ [Next]_vars => MintsOK'
  BY MintsStep
<1>3. Init => Contract!Init
  <2> SUFFICES ASSUME Init PROVE Contract!Init
    OBVIOUS
  <2>1. \A c \in Code : Outcomes(c) = <<>>
    BY IInvInit, NoOutcome DEF Init
  <2> QED BY <2>1 DEF Init, NoReply, Reply, Contract!Init, Contract!NoReply, Contract!Reply
<1>4. ASSUME IInv, MintsOK, [Next]_vars PROVE [Contract!Next]_Contract!contractVars
  <2> USE <1>4
  <2>1. CASE UNCHANGED <<minted, tries, reply, known>>
    BY <2>1 DEF Contract!contractVars, Outcomes
  <2>2. CASE UNCHANGED <<minted, tries, known>> /\ \E grant \in {"authorization_code",
               "client_credentials", "refresh_token"},
               kind \in {"invalid_client", "invalid_grant", "invalid_request"} :
               /\ kind # "invalid_grant" \/ grant = "refresh_token"
               /\ reply' = Reply(kind, grant, None)
    BY <2>2 DEF Contract!Next, Contract!Reject, Contract!Reply, Reply, Outcomes
  <2>3. ASSUME NEW a \in Attempt, NEW s \in Sid, FinishClientCredentials(a, s)
        PROVE  Contract!Fresh(s)
    <3>1. observed[s].status = "unborn"
      BY <2>3 DEF FinishClientCredentials, Store!Create
    <3> QED BY <3>1 DEF IInv, KnownOK, MintsOK, Contract!Fresh
  <2>4. ASSUME NEW c \in Code, IssueCode(c)
        PROVE  Contract!Next
    <3> DEFINE form == issuing.login
               m == [user |-> form.user, session_id |-> issuing.session_id,
                     redirect_uri |-> form.redirect_uri, challenge |-> form.challenge,
                     created |-> now]
    <3>1. issuing # None /\ minted[c] = None /\ minted' = [minted EXCEPT ![c] = m]
          /\ UNCHANGED <<reply, known, tries>>
      BY <2>4 DEF IssueCode
    <3>2. m \in Mint /\ m.session_id = issuing.session_id
      BY <3>1, IssuingFacts DEF FormLogin, Mint, IInv, StoreOK
    <3>3. Contract!Fresh(m.session_id)
      BY <3>1, <3>2, IssuingFacts DEF MintsOK, Contract!Fresh
    <3>4. Contract!Issue(c, m)
      <4> HIDE DEF m
      <4> QED BY <3>1, <3>3 DEF Contract!Issue, Outcomes
    <3> QED BY <3>2, <3>4 DEF Contract!Next
  <2>5. ASSUME NEW a \in Attempt, NEW s \in Sid, FinishClientCredentials(a, s)
        PROVE  Contract!Next
    BY <2>3, <2>5
       DEF FinishClientCredentials, Reply, Outcomes, Contract!Next, Contract!Direct,
           Contract!HandOut, Contract!Reply
  <2>6. ASSUME NEW c \in Code, NEW cid \in Client \cup {NoClient}, NEW uri \in Uri,
               NEW v \in Verifier \cup {None}, Exchange(c, cid, uri, v),
               minted[c] # None, StoreRests
        PROVE  Contract!Next
    <3> DEFINE Presents(outcome) ==
                 Pasts' = [Pasts EXCEPT ![c] = Append(@, outcome)]
    <3>1. ASSUME NEW outcome \in {"token", "invalid_grant"}, Presented(c, outcome, uri, v)
          PROVE  Presents(outcome)
      <4> DEFINE try == [outcome |-> outcome, redirect_uri |-> uri, verifier |-> v]
      <4>1. try \in Try /\ try.outcome = outcome
        BY DEF Try
      <4>2. tries' = [tries EXCEPT ![c] = Append(@, try)]
        BY <3>1 DEF Presented
      <4> HIDE DEF try
      <4> QED BY <4>1, <4>2, PastAdded
    <3>2. CASE Redeemable(c, cid, uri, v)
      <4>1. /\ codes[c] # None
            /\ reply' = Reply("token", "authorization_code", codes[c].session_id)
            /\ known' = known \cup {codes[c].session_id}
            /\ Presented(c, "token", uri, v)
        BY <2>6, <3>2 DEF Exchange, Redeemable
      <4>2. Presents("token")
        BY <3>1, <4>1
      <4>3. /\ Contract!Live(c)
            /\ codes[c].session_id = minted[c].session_id
            /\ codes[c].session_id \notin known
        BY <4>1, CodeFacts, NoOutcome DEF Pristine, Untouched
      <4>4. Contract!Redeem(c)
        BY <2>6, <4>1, <4>2, <4>3
           DEF Contract!Redeem, Contract!HandOut, Contract!Reply, Reply, StoreRests, Pasts
      <4> QED BY <4>4 DEF Contract!Next
    <3>3. CASE ~Redeemable(c, cid, uri, v)
      <4>1. /\ reply' = Reply("invalid_grant", "authorization_code", None)
            /\ Presented(c, "invalid_grant", uri, v)
            /\ UNCHANGED known
        BY <2>6, <3>3 DEF Exchange
      <4>2. Presents("invalid_grant")
        BY <3>1, <4>1
      <4>3. Contract!Refuse(c)
        BY <2>6, <4>1, <4>2 DEF Contract!Refuse, Contract!Reply, Reply, StoreRests, Pasts
      <4> QED BY <4>3 DEF Contract!Next
    <3> QED BY <3>2, <3>3
  <2>7. CASE Restart
    <3> DEFINE lost == [outcome |-> "lost", redirect_uri |-> None, verifier |-> None]
    <3>1. lost \in Try /\ lost.outcome = "lost"
      BY DEF Try
    <3>2. \A c \in Code : tries'[c] = IF codes[c] = None THEN tries[c]
                                                       ELSE Append(tries[c], lost)
      BY <2>7 DEF Restart
    <3> HIDE DEF lost
    <3>3. ASSUME NEW c \in Code
          PROVE  Outcomes(c)' = IF Contract!Live(c) THEN <<"lost">> ELSE Outcomes(c)
      <4>1. CASE codes[c] = None
        BY <3>2, <4>1, NoOutcome DEF Outcomes
      <4>2. CASE codes[c] # None
        <5> DEFINE new == Append(tries[c], lost)
        <5>0. [i \in DOMAIN new |-> new[i].outcome] = Append(Outcomes(c), lost.outcome)
          BY <3>1, OutcomeAdded
        <5>1. Outcomes(c)' = Append(Outcomes(c), "lost")
          BY <3>1, <3>2, <4>2, <5>0 DEF Outcomes
        <5>2. Outcomes(c) = <<>> /\ Contract!Live(c)
          BY <4>2, NoOutcome, CodeFacts DEF Pristine
        <5> QED BY <5>1, <5>2
      <4> QED BY <4>1, <4>2
    <3>4. Pasts' = [c \in Code |-> IF Contract!Live(c) THEN <<"lost">> ELSE Pasts[c]]
      BY <3>3 DEF Pasts
    <3>5. Contract!Forget
      BY <2>7, <3>4
         DEF Restart, NoReply, Reply, Contract!Forget, Contract!NoReply, Contract!Reply, Pasts
    <3> QED BY <3>5 DEF Contract!Next
  <2>8. CASE \E a \in Attempt :
               \/ \E cid \in Client \cup {NoClient}, uri \in Uri, ch \in Challenge, u \in User :
                    BeginAuthorize(a, cid, uri, ch, u)
               \/ \E s \in Sid : FinishAuthorize(a, s)
               \/ \E u \in User : BeginClientCredentials(a, u)
               \/ FailLogin(a)
    BY <2>1, <2>2, <2>8
       DEF BeginAuthorize, FinishAuthorize, BeginClientCredentials, FailLogin
  <2>9. CASE Token /\ StoreRests
    BY <2>2, <2>6, <2>9 DEF Token, RejectClient, Refresh, MissingCredentials, StoreRests
  <2> QED
    BY <2>1, <2>4, <2>5, <2>7, <2>8, <2>9
       DEF Next, Request, Clock, vars, oauthVars, StoreRests
<1>5. IInv /\ MintsOK /\ [Next]_vars => [Contract!Next]_Contract!contractVars
  BY <1>4
<1> QED
  BY IInvHolds, <1>1, <1>2, <1>3, <1>5, PTL DEF Spec, ImplementsContract, Contract!Spec
================================================================================
