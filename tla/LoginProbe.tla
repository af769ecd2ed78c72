------------------------------ MODULE LoginProbe ------------------------------
(***************************************************************************)
(* A passthrough login (PassthroughProvider.login, auth/passthrough.py):   *)
(* IseClient.validate_credentials() asks ISE several times, each time on a *)
(* fresh connection, and the store then issues a session.  Every probe is  *)
(* awaited, so that logins overlap and the account changes in between; the *)
(* nodes behind ISE's VIP do not all enforce authentication, nor always.   *)
(***************************************************************************)
EXTENDS Integers

CONSTANTS Sid, None, Ttl, Idle, MaxTime, MaxStepBack,   \* SessionStore
          User,         \* ISE accounts
          Password,     \* passwords, other than the empty one
          Login,        \* calls of login(), each made once
          Probes        \* probes of a login (range(4) in the code)

ASSUME ProbeAssumption == /\ Probes \in Nat \ {0}
                          /\ {Ttl, Idle} \subseteq Int
                          /\ {MaxTime, MaxStepBack} \subseteq Nat

Credential == User \X Password
Empty == "empty"    \* user name or password missing
ASSUME EmptyAssumption == Empty \notin Credential

VARIABLES now, sessions, answer, observed,   \* the session store's
          password,   \* the password ISE has for every account
          login       \* the state of every login

storeVars == <<sessions, answer, observed>>
vars == <<now, storeVars, password, login>>

\* What a session holds of its owner (AuthContext) is the credential itself.
Store == INSTANCE SessionStore WITH User <- Credential

ASSUME AbsenceAssumption == None \notin Store!Session \cup Credential

-------------------------------------------------------------------------------
\* An answer to a probe: below 300, a redirect, 401, or any other failure.
Status == {"2xx", "3xx", "401", "error"}
Result == {"none", "session", "missing", "invalid", "failed"}

\* passed counts the probes whose answer let the login go on.  The last four
\* fields are history: probes that ISE answered having checked the password
\* and found it right or wrong, having checked nothing, or failed to answer.
NewLogin == [phase |-> "new", cred |-> Empty, inbox |-> "none", passed |-> 0,
             result |-> "none", session |-> None,
             right |-> 0, wrong |-> 0, unchecked |-> 0, trouble |-> 0]

LoginState == [phase : {"new", "probing", "done", "cancelled"},
               cred : Credential \cup {Empty}, inbox : Status \cup {"none"},
               passed : 0 .. Probes, result : Result, session : Sid \cup {None},
               right : 0 .. Probes, wrong : 0 .. Probes, unchecked : 0 .. Probes,
               trouble : 0 .. Probes]

TypeOK == /\ password \in [User -> Password]
          /\ login \in [Login -> LoginState]

Init == /\ Store!Init
        /\ password \in [User -> Password]
        /\ login = [l \in Login |-> NewLogin]

-------------------------------------------------------------------------------
MutBegin(l, cred) ==
  /\ login[l].phase = "new"
  /\ login' = IF cred = Empty
                THEN [login EXCEPT ![l].phase = "done", ![l].result = "missing"]
                ELSE [login EXCEPT ![l].phase = "probing", ![l].cred = cred]
  /\ IF cred = Empty THEN UNCHANGED storeVars ELSE \E s \in Sid : Store!Create(s, cred)
  /\ UNCHANGED <<now, password>>

\* login(): ISE is not asked about a missing user name or password.
Begin(l, cred) ==
  /\ login[l].phase = "new"
  /\ login' = IF cred = Empty
                THEN [login EXCEPT ![l].phase = "done", ![l].result = "missing"]
                ELSE [login EXCEPT ![l].phase = "probing", ![l].cred = cred]
  /\ UNCHANGED <<now, storeVars, password>>

Probing(l) == login[l].phase = "probing" /\ login[l].inbox = "none"

\* A node that enforces authentication has the probe's credential checked.
Checked(l) ==
  LET matches == password[login[l].cred[1]] = login[l].cred[2]
  IN  login' = [login EXCEPT ![l].inbox = IF matches THEN "2xx" ELSE "401",
                  ![l].right = @ + IF matches THEN 1 ELSE 0,
                  ![l].wrong = @ + IF matches THEN 0 ELSE 1]

\* A permissive node serves anybody, a gateway redirects.
Unchecked(l) ==
  \E status \in {"2xx", "3xx"} :
    login' = [login EXCEPT ![l].inbox = status, ![l].unchecked = @ + 1]

\* The node cannot answer, or the account may not use ERS (403).
Troubled(l) == login' = [login EXCEPT ![l].inbox = "error", ![l].trouble = @ + 1]

Answer(l) == /\ Probing(l)
             /\ Checked(l) \/ Unchecked(l) \/ Troubled(l)
             /\ UNCHANGED <<now, storeVars, password>>

End(l, result) == login' = [login EXCEPT ![l].phase = "done", ![l].inbox = "none",
                                         ![l].result = result]

MutTransportError(l) == Probing(l) /\ UNCHANGED vars

\* The connection fails or times out; login() reports an AuthError.
TransportError(l) ==
  /\ Probing(l)
  /\ login' = [login EXCEPT ![l].phase = "done", ![l].result = "failed",
                            ![l].trouble = @ + 1]
  /\ UNCHANGED <<now, storeVars, password>>

\* The answers after which the login goes on to the next probe.
Passes == {"2xx", "3xx"}

Judgeable(l) == login[l].phase = "probing" /\ login[l].inbox # "none"

MutRefused(l) ==
  /\ Judgeable(l)
  /\ login[l].inbox \notin Passes
  /\ End(l, "invalid")
  /\ UNCHANGED <<now, storeVars, password>>

\* 401 means invalid credentials, any other failure that they are not known.
Refused(l) ==
  /\ Judgeable(l)
  /\ login[l].inbox \notin Passes
  /\ End(l, IF login[l].inbox = "401" THEN "invalid" ELSE "failed")
  /\ UNCHANGED <<now, storeVars, password>>

MutNextProbe(l) ==
  /\ Judgeable(l)
  /\ login[l].inbox \in Passes
  /\ login' = [login EXCEPT ![l].inbox = "none", ![l].passed = @ + 1]
  /\ UNCHANGED <<now, storeVars, password>>

NextProbe(l) ==
  /\ Judgeable(l)
  /\ login[l].inbox \in Passes
  /\ login[l].passed + 1 < Probes
  /\ login' = [login EXCEPT ![l].inbox = "none", ![l].passed = @ + 1]
  /\ UNCHANGED <<now, storeVars, password>>

MutAccepted(l) ==
  /\ Judgeable(l)
  /\ login[l].inbox \in Passes
  /\ \E s \in Sid :
       /\ Store!Create(s, login[l].cred)
       /\ login' = [login EXCEPT ![l].phase = "done", ![l].inbox = "none",
                      ![l].passed = @ + 1, ![l].result = "session", ![l].session = s]
  /\ UNCHANGED <<now, password>>

\* The last probe passed as well: the session is created before anything else
\* runs.
Accepted(l) ==
  /\ Judgeable(l)
  /\ login[l].inbox \in Passes
  /\ login[l].passed + 1 = Probes
  /\ \E s \in Sid :
       /\ Store!Create(s, login[l].cred)
       /\ login' = [login EXCEPT ![l].phase = "done", ![l].inbox = "none",
                      ![l].passed = @ + 1, ![l].result = "session", ![l].session = s]
  /\ UNCHANGED <<now, password>>

\* The caller gives up: "except Exception" does not see the CancelledError.
Cancel(l) == /\ login[l].phase = "probing"
             /\ login' = [login EXCEPT ![l].phase = "cancelled", ![l].inbox = "none"]
             /\ UNCHANGED <<now, storeVars, password>>

-------------------------------------------------------------------------------
\* An administrator gives an account another password.
PasswordChanges == /\ \E u \in User, p \in Password : password' = [password EXCEPT ![u] = p]
                   /\ UNCHANGED <<now, storeVars, login>>

\* Sessions are used and end meanwhile.
SessionUsed == /\ \E s \in Sid : /\ observed[s].status # "unborn"
                                 /\ Store!Get(s) \/ Store!Delete(s)
               /\ UNCHANGED <<now, password, login>>

Restart == /\ Store!Restart
           /\ login' = [l \in Login |-> IF login[l].phase = "probing"
                          THEN [login[l] EXCEPT !.phase = "cancelled", !.inbox = "none"]
                          ELSE login[l]]
           /\ UNCHANGED <<now, password>>

Serves(l) == TransportError(l) \/ Refused(l) \/ NextProbe(l) \/ Accepted(l)

Next == \/ \E l \in Login : \/ \E cred \in Credential \cup {Empty} : Begin(l, cred)
                            \/ Answer(l) \/ Serves(l) \/ Cancel(l)
        \/ PasswordChanges \/ SessionUsed \/ Restart

\* The event loop runs every ready task, and httpx's timeout ends every wait.
Spec == Init /\ [][Next]_vars /\ \A l \in Login : WF_vars(Serves(l))

-------------------------------------------------------------------------------
\* validate_credentials() fails closed: a login gets a session only if every one
\* of its probes was answered, and each either had the password checked and
\* found right at that moment or met a node or gateway that checks nothing.  So
\* one enforcing node among the probes is enough to turn a wrong password away.
EveryProbeCounts ==
  \A l \in Login : login[l].session # None =>
    /\ login[l].right + login[l].unchecked = Probes
    /\ login[l].wrong = 0 /\ login[l].trouble = 0

\* Whatever else went on, a session in the store belongs to a login that ended
\* with it, and holds the very credential that was probed.
SessionsWereProbed ==
  \A s \in Sid : observed[s].status # "unborn" =>
    \E l \in Login : /\ login[l].session = s
                     /\ login[l].result = "session"
                     /\ observed[s].user = login[l].cred

\* A user is told that the credentials are invalid only if ISE found them wrong
\* at that moment, and that they could not be validated only if a probe failed:
\* an outage is never taken for a wrong password.
VerdictHasCause ==
  \A l \in Login : /\ login[l].result = "invalid" => login[l].wrong > 0
                   /\ login[l].result = "failed" => login[l].trouble > 0

\* Every login that started comes to an end, though ISE may never answer.
EveryLoginEnds ==
  \A l \in Login : login[l].phase = "probing" ~> login[l].phase \in {"done", "cancelled"}

-------------------------------------------------------------------------------
\* Refinement: the probes are hidden, only verdicts and sessions are seen.
Verdict(L) == CASE L.phase = "probing" -> "pending"
                [] L.phase = "done" -> L.result
                [] OTHER -> L.phase

Contract == INSTANCE LoginContract
              WITH verdict <- [l \in Login |-> Verdict(login[l])],
                   asked <- [l \in Login |-> login[l].cred],
                   session <- [l \in Login |-> login[l].session],
                   owner <- [s \in Sid |-> observed[s].user]

\* A login of several probes is to its caller one login: asked once, told one
\* verdict for ever, given a session nobody else has, whatever overlaps with it.
ImplementsContract == Contract!Spec
===============================================================================
