------------------------------- MODULE ToolCalls -------------------------------
(***************************************************************************)
(* MCP tool calls over HTTP: the gate in front of /mcp (server.py), the    *)
(* dispatch that all tools but three goes through (run() in               *)
(* tools/__init__.py), and the requests the call makes to ISE.  The server *)
(* is one event loop: a call runs without interruption from one await to   *)
(* the next, and other calls, logins, logouts, expiry and cancellations    *)
(* come in between.  The gate and the tool run in different tasks.         *)
(***************************************************************************)
EXTENDS Integers, Sequences, FiniteSets

CONSTANTS Sid, User, None, Ttl, Idle, MaxTime, MaxStepBack,   \* SessionStore
          Call,           \* calls of the model, each made once
          Tool,           \* the tools that are called
          ApiKey,         \* the token in MCP_API_KEYS
          Service,        \* ISE_USERNAME
          EncodedUser,    \* the user inside ISE_ENCODED_AUTH
          MaxEnrich,      \* questions an enriched tool adds (2 in the code)
          Configs         \* configurations the server may be started with

VARIABLES now, sessions, answer, observed,   \* the session store's
          cfg,      \* the Config, fixed at start
          calls,    \* what has become of every call
          sent,     \* history: requests made to ISE
          audits    \* history: audit records of every call

callVars == <<cfg, calls, sent, audits>>
storeVars == <<sessions, answer, observed>>
vars == <<now, storeVars, callVars>>

Store == INSTANCE SessionStore

-------------------------------------------------------------------------------
WriteTool == {"ise_create_endpoint", "ise_delete_endpoint", "ise_assign_endpoint_group"}
DangerousTool == {"ise_delete_endpoint"}
LocalTool == {"ise_auth_status", "ise_validate_session", "ise_whoami"}  \* no ISE request
UngatedTool == {"ise_health_check", "ise_login", "ise_logout"}  \* not through run()
EnrichedTool == {"ise_get_endpoint_by_mac"}     \* asks again, for group and profile

Config == [auth_mode : {"passthrough", "service_account"}, readonly : BOOLEAN,
           dangerous : BOOLEAN, allowed_tools : SUBSET Tool,
           disabled_tools : SUBSET Tool, api_key : BOOLEAN,
           username : BOOLEAN, encoded : BOOLEAN]

\* Config.validate(): the server does not start otherwise.
Startable(c) == /\ c.auth_mode = "service_account" => c.encoded \/ c.username
                /\ c.api_key => c.username

ASSUME CallsAssumption == /\ Configs \subseteq Config
                          /\ MaxEnrich \in Nat
                          /\ {Ttl, Idle} \subseteq Int
                          /\ {MaxTime, MaxStepBack} \subseteq Nat
                          /\ None \notin Store!Session

Token == Sid \cup {ApiKey, None}
Phase == {"new", "admitted", "waiting", "done", "cancelled"}
Result == {"none", "401", "ok", "tool_disabled", "write_not_allowed", "session_error",
           "validation_error", "ise_error", "auth_error", "unavailable"}
Actor == User \cup {Service, EncodedUser, "unknown", "(encoded)"}
Identity == [actor : Actor, ise : Actor]

NewCall == [phase |-> "new", tool |-> None, token |-> None, user |-> None,
            auth |-> None, requests |-> 0, result |-> "none"]

TypeOK ==
  /\ cfg \in Config
  /\ calls \in [Call -> [phase : Phase, tool : Tool \cup {None}, token : Token,
                         user : User \cup {None}, auth : Identity \cup {None},
                         requests : 0 .. 1 + MaxEnrich,
                         result : Result]]
  /\ sent \subseteq [call : Call, n : 1 .. 1 + MaxEnrich, tool : Tool, ise : Actor]
  /\ audits \in [Call -> Seq([actor : Actor, status : {"ok", "error"}])]

Init == /\ Store!Init
        /\ cfg \in {c \in Configs : Startable(c)}
        /\ calls = [c \in Call |-> NewCall]
        /\ sent = {}
        /\ audits = [c \in Call |-> <<>>]

-------------------------------------------------------------------------------
Passthrough == cfg.auth_mode = "passthrough"
IsApiKey(t) == cfg.api_key /\ t = ApiKey

\* is_tool_enabled: a denied tool stays denied; an allow list admits no other.
Enabled(t) == /\ t \notin cfg.disabled_tools
              /\ cfg.allowed_tools # {} => t \in cfg.allowed_tools

MutWriteAllowed(t) == t \in WriteTool => ~cfg.readonly
WriteAllowed(t) == /\ t \in WriteTool => ~cfg.readonly
                   /\ t \in DangerousTool => cfg.dangerous

MutTokenOf(c) == CHOOSE t \in {calls[d].token : d \in {e \in Call : calls[e].phase = "admitted"}} : TRUE
\* The token in the headers of the call's own request.
TokenOf(c) == calls[c].token

MutFixedIdentity == [actor |-> IF cfg.username THEN Service ELSE "(encoded)",
                     ise |-> IF cfg.username THEN Service ELSE EncodedUser]
\* The AuthContext that a token stands for: a name for the audit trail and the
\* user whose credentials ISE is shown.
FixedIdentity == [actor |-> IF cfg.username THEN Service ELSE "(encoded)",
                  ise |-> IF cfg.encoded THEN EncodedUser ELSE Service]
IdentityOf(t) == IF IsApiKey(t) THEN [actor |-> Service, ise |-> Service]
                 ELSE IF Passthrough THEN [actor |-> sessions[t].user, ise |-> sessions[t].user]
                 ELSE FixedIdentity

\* store.get(t): no token is never looked up, and a key is no session id.
Accepts(t) == t \in Sid /\ Store!Grant(t)
TurnsAway(t) == IF t \in Sid THEN Store!Refuse(t) ELSE UNCHANGED storeVars

MutResolves(t) == /\ \/ IsApiKey(t) \/ ~Passthrough
                     \/ t \in Sid /\ sessions[t] # None
                  /\ UNCHANGED storeVars
\* resolve_auth(): a key or a service account needs no session.
Resolves(t) == IF IsApiKey(t) \/ ~Passthrough THEN UNCHANGED storeVars ELSE Accepts(t)
FailsToResolve(t) == ~IsApiKey(t) /\ Passthrough /\ TurnsAway(t)

Finish(c, result) == calls' = [calls EXCEPT ![c].phase = "done", ![c].result = result]
Audit(c, actor, status) ==
  audits' = [audits EXCEPT ![c] = Append(@, [actor |-> actor, status |-> status])]
Send(c, auth) ==
  /\ calls' = [calls EXCEPT ![c].phase = "waiting", ![c].auth = auth, ![c].requests = @ + 1]
  /\ sent' = sent \cup {[call |-> c, n |-> calls[c].requests + 1, tool |-> calls[c].tool,
                         ise |-> auth.ise]}

-------------------------------------------------------------------------------
\* A client calls a tool with a token it was given, or with none.
Known(t) == t \in Sid => observed[t].status # "unborn"

\* RequireAuthOnMcp: the request passes, or is answered 401 and forgotten.
Arrives(c, tool, t, u, phase, result) ==
  calls' = [calls EXCEPT ![c] = [phase |-> phase, tool |-> tool, token |-> t, user |-> u,
                                 auth |-> None, requests |-> 0, result |-> result]]
GatePasses(c, tool, t, u) ==
  /\ Resolves(t)
  /\ Arrives(c, tool, t, u, "admitted", "none")
  /\ UNCHANGED <<now, cfg, sent, audits>>

GateRejects(c, tool, t, u) ==
  /\ FailsToResolve(t)
  /\ Arrives(c, tool, t, u, "done", "401")
  /\ UNCHANGED <<now, cfg, sent, audits>>

Gate(c) == /\ calls[c].phase = "new"
           /\ \E tool \in Tool, t \in Token, u \in User :
                /\ Known(t)
                /\ GatePasses(c, tool, t, u) \/ GateRejects(c, tool, t, u)

-------------------------------------------------------------------------------
\* run(): one uninterrupted stretch from the gating of the tool to the first
\* request to ISE, or to the audited error.
Runs(c) == calls[c].phase = "admitted" /\ calls[c].tool \notin UngatedTool
Permitted(c) == Enabled(calls[c].tool) /\ WriteAllowed(calls[c].tool)

RunRefused(c) ==
  /\ Runs(c)
  /\ ~Permitted(c)
  /\ Finish(c, IF Enabled(calls[c].tool) THEN "write_not_allowed" ELSE "tool_disabled")
  /\ Audit(c, "unknown", "error")
  /\ UNCHANGED <<now, storeVars, cfg, sent>>

MutRunNoSession(c) ==
  /\ Runs(c)
  /\ Permitted(c)
  /\ FailsToResolve(TokenOf(c))
  /\ UNCHANGED <<now, callVars>>

RunNoSession(c) ==
  /\ Runs(c)
  /\ Permitted(c)
  /\ FailsToResolve(TokenOf(c))
  /\ Finish(c, "session_error")
  /\ Audit(c, "unknown", "error")
  /\ UNCHANGED <<now, cfg, sent>>

\* The arguments are only looked at once the caller is known.
RunInvalid(c) ==
  /\ Runs(c)
  /\ Permitted(c)
  /\ calls[c].tool \notin LocalTool
  /\ Resolves(TokenOf(c))
  /\ Finish(c, "validation_error")
  /\ Audit(c, IdentityOf(TokenOf(c)).actor, "error")
  /\ UNCHANGED <<now, cfg, sent>>

RunLocal(c) ==
  /\ Runs(c)
  /\ Permitted(c)
  /\ calls[c].tool \in LocalTool
  /\ Resolves(TokenOf(c))
  /\ Finish(c, "ok")
  /\ Audit(c, IdentityOf(TokenOf(c)).actor, "ok")
  /\ UNCHANGED <<now, cfg, sent>>

RunSends(c) ==
  /\ Runs(c)
  /\ Permitted(c)
  /\ calls[c].tool \notin LocalTool
  /\ Resolves(TokenOf(c))
  /\ Send(c, IdentityOf(TokenOf(c)))
  /\ UNCHANGED <<now, cfg, audits>>

Run(c) == \/ RunRefused(c) \/ RunNoSession(c) \/ RunInvalid(c)
          \/ RunLocal(c) \/ RunSends(c)

\* ISE answered, or the client gave up on it; enrichment is optional.
Awaits(c) == calls[c].phase = "waiting" /\ calls[c].tool # "ise_login"

MutEnrich(c) ==
  /\ Awaits(c)
  /\ calls[c].tool \in EnrichedTool
  /\ calls[c].requests <= MaxEnrich
  /\ Send(c, calls[c].auth)
  /\ Audit(c, calls[c].auth.actor, "ok")
  /\ UNCHANGED <<now, storeVars, cfg>>

MutEnrichAgain(c) ==
  /\ Awaits(c)
  /\ calls[c].tool \in EnrichedTool
  /\ Send(c, calls[c].auth)
  /\ UNCHANGED <<now, storeVars, cfg, audits>>

\* The next question goes out with the identity resolved before the first.
Enrich(c) ==
  /\ Awaits(c)
  /\ calls[c].tool \in EnrichedTool
  /\ calls[c].requests <= MaxEnrich
  /\ Send(c, calls[c].auth)
  /\ UNCHANGED <<now, storeVars, cfg, audits>>

Succeeds(c) ==
  /\ Awaits(c)
  /\ Finish(c, "ok")
  /\ Audit(c, calls[c].auth.actor, "ok")
  /\ UNCHANGED <<now, storeVars, cfg, sent>>

IseFails(c) ==
  /\ Awaits(c)
  /\ calls[c].requests = 1
  /\ Finish(c, "ise_error")
  /\ Audit(c, calls[c].auth.actor, "error")
  /\ UNCHANGED <<now, storeVars, cfg, sent>>

-------------------------------------------------------------------------------
\* The three tools that are neither gated by the tool lists nor audited.
HealthCheck(c) ==
  /\ calls[c].phase = "admitted"
  /\ calls[c].tool = "ise_health_check"
  /\ Finish(c, "ok")
  /\ UNCHANGED <<now, storeVars, cfg, sent, audits>>

\* ise_login awaits ISE's verdict on the credentials in its arguments.
LoginStarts(c) ==
  /\ calls[c].phase = "admitted"
  /\ calls[c].tool = "ise_login"
  /\ IF Passthrough THEN calls' = [calls EXCEPT ![c].phase = "waiting"]
                    ELSE Finish(c, "unavailable")
  /\ UNCHANGED <<now, storeVars, cfg, sent, audits>>

LoginSucceeds(c) ==
  /\ calls[c].phase = "waiting"
  /\ calls[c].tool = "ise_login"
  /\ \E s \in Sid : Store!Create(s, calls[c].user)
  /\ Finish(c, "ok")
  /\ UNCHANGED <<now, cfg, sent, audits>>

LoginFails(c) ==
  /\ calls[c].phase = "waiting"
  /\ calls[c].tool = "ise_login"
  /\ Finish(c, "auth_error")
  /\ UNCHANGED <<now, storeVars, cfg, sent, audits>>

Logout(c) ==
  /\ calls[c].phase = "admitted"
  /\ calls[c].tool = "ise_logout"
  /\ IF Passthrough /\ TokenOf(c) \in Sid THEN Store!Delete(TokenOf(c))
                                          ELSE UNCHANGED storeVars
  /\ Finish(c, "ok")
  /\ UNCHANGED <<now, cfg, sent, audits>>

-------------------------------------------------------------------------------
\* A login through /token (OAuthServer) hands out a session as well.
TokenLogin == /\ Passthrough
              /\ \E s \in Sid, u \in User : Store!Create(s, u)
              /\ UNCHANGED <<now, callVars>>

\* The client cancels the request: the task gets a CancelledError at its next
\* await, which run()'s "except Exception" does not see.
Cancel(c) == /\ calls[c].phase \in {"admitted", "waiting"}
             /\ calls' = [calls EXCEPT ![c].phase = "cancelled"]
             /\ UNCHANGED <<now, storeVars, cfg, sent, audits>>

Restart == /\ Store!Restart
           /\ calls' = [c \in Call |->
                         IF calls[c].phase \in {"admitted", "waiting"}
                           THEN [calls[c] EXCEPT !.phase = "cancelled"] ELSE calls[c]]
           /\ UNCHANGED <<now, cfg, sent, audits>>

ClockMoves == (Store!Tick \/ Store!ClockSetBack) /\ UNCHANGED <<storeVars, callVars>>

\* What the server does for a call once it has been let in.
Serves(c) == \/ Run(c) \/ Enrich(c) \/ Succeeds(c) \/ IseFails(c)
             \/ LoginStarts(c) \/ LoginSucceeds(c) \/ LoginFails(c) \/ Logout(c)
             \/ HealthCheck(c)

Next == \/ \E c \in Call : Gate(c) \/ Serves(c) \/ Cancel(c)
        \/ TokenLogin \/ Restart \/ ClockMoves

\* The event loop runs every ready task, and httpx's timeout ends every wait.
Spec == Init /\ [][Next]_vars /\ \A c \in Call : WF_vars(Serves(c))

-------------------------------------------------------------------------------
\* Every request to ISE, the later ones of a call included, shows the user
\* whom the call's own token stands for: calls that run at the same time, and
\* a logout or a login meanwhile, never make one act as another.
ActsAsPresented ==
  \A r \in sent :
    LET t == calls[r.call].token
    IN  r.ise = IF IsApiKey(t) THEN Service
                ELSE IF Passthrough THEN observed[t].user
                ELSE IF cfg.encoded THEN EncodedUser ELSE Service

\* A call that went through run() is audited exactly once when it is over, with
\* the outcome its caller was given; until then, and when it never got that far,
\* there is no record.  The record names the user whom ISE saw in every request
\* of the call, unless that was the one inside ISE_ENCODED_AUTH, whose name the
\* server does not know.  Once a first request succeeded the call does not fail.
AuditedOnce ==
  \A c \in Call :
    LET call == calls[c]
        through == call.phase = "done" /\ call.tool \notin UngatedTool /\ call.result # "401"
    IN  /\ Len(audits[c]) = IF through THEN 1 ELSE 0
        /\ through =>
             /\ audits[c][1].status = "ok" <=> call.result = "ok"
             /\ \A r \in sent : r.call = c =>
                  r.ise = EncodedUser \/ audits[c][1].actor = r.ise
             /\ call.requests > 1 => call.result = "ok"

\* Under every configuration, a write reaches ISE only on a read-write server
\* on which its tool is enabled, and a delete only with the dangerous flag.
WritesPermitted ==
  \A r \in sent :
    /\ r.tool \notin cfg.disabled_tools
    /\ cfg.allowed_tools = {} \/ r.tool \in cfg.allowed_tools
    /\ r.tool \in WriteTool => ~cfg.readonly
    /\ r.tool = "ise_delete_endpoint" => cfg.dangerous

\* A call starts working at ISE only while its session is held and within its
\* limits at that moment: having passed the gate earlier is not enough, and a
\* logout or an expiry that came in between stops it.
StartsInSession ==
  \A r \in sent' \ sent :
    LET t == calls[r.call].token
    IN  r.n = 1 /\ Passthrough /\ ~IsApiKey(t) =>
          observed[t].status = "held" /\ Store!WithinLimits(observed[t])
NoStartAfterGone == [][StartsInSession]_sent

\* Every call that is let in comes to an end.
EveryCallEnds ==
  \A c \in Call : calls[c].phase \in {"admitted", "waiting"}
                    ~> calls[c].phase \in {"done", "cancelled"}

-------------------------------------------------------------------------------
\* build_http_app()'s promise: on a missing or expired session the client gets
\* a 401, never a soft error.
NoSoftSessionError == \A c \in Call : calls[c].result # "session_error"
================================================================================
