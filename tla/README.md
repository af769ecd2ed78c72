# Formal model of cisco-ise-mcp

TLA+ specifications of the parts of `cisco-ise-mcp` whose correctness depends on
order, time or failure: the in-memory session store, the OAuth endpoints, the
gate and dispatch of MCP tool calls, the logins with their probes, the ISE HTTP
client, the aggregated policy context, and what becomes of a monitoring
document. TLC checks small instances; TLAPS proves for every instance the safety
properties of the six state machines, the contracts they implement, and what
summary and redaction make of any document.
Paths below are relative to the package, `src/src/cisco_ise_mcp/`; `docs/` and
`.env.example` are at the root of the repository.

## The system

The server is one Python process with one asyncio event loop (streamable HTTP,
or stdio). Code between two `await`s runs without interruption; two locks
(`SessionStore._lock`, `OAuthServer._lock`) guard tables against threads that
the server itself does not start. Nothing is persisted: a restart loses every
session, code and call.

| component | state | operations | talks to |
|---|---|---|---|
| Session store, `auth/session_store.py` | `_sessions`: id → user, password, created, last used | `create`, `get` (records the use, drops an expired entry), `delete`, `purge_expired` | called by the auth providers |
| OAuth server, `oauth.py` and the routes of `server.py` | `_codes`: code → client, URI, session, PKCE challenge, time | GET/POST `/authorize`, `/token` with `authorization_code`, `client_credentials`, `refresh_token` | provider login (awaits ISE), then the session store |
| Gate, `server.py` `RequireAuthOnMcp` | none | 401 or pass, for `/mcp` in passthrough mode | `Deps.session_valid` → store |
| Dispatch, `tools/__init__.py` | the `AuthContext` of a running call | `run()`: tool lists, write gate, identity, the tool, audit, error shape | validation, providers, audit, ISE client |
| Auth providers, `auth/` | none of their own | `login`, `resolve`, `logout`, `session_valid`; fixed identity of a service account | session store, `validate_credentials` |
| Health and session tools, `tools/health.py` | none | health check, login, logout, three local tools | provider; only the three local ones go through `run()` |
| ISE client, `ise/client.py` | attempt counter of a request | `request()` with retries; `validate_credentials()` | ISE, through gateways and a VIP |
| ERS/MNT wrappers, `ise/ers.py`, `ise/mnt.py`, `ise/models.py` | none | one request each; XML flattening; summaries | ISE client |
| Query and write tools, `tools/*.py` | none | one request, or one and optional enrichments | dispatch, wrappers |
| Policy context, `tools/policy.py` | none | several requests, each of which may fail, and a narrative | wrappers |
| Validation, config, redaction, responses | none (`Config` is fixed at start) | gates, validators, masking, error shape | everything |

What is hard, and therefore what the properties are about:

* **Two looks at one session.** The gate checks the session in the request's
  task; the tool resolves it again in another task. Logout, expiry, a restart
  and other calls' uses (which move the idle limit) come in between. The
  identity is captured before the first request to ISE and used for all of them.
* **Time.** Sessions and codes expire by `time.time()`, which can be set back.
  Entries leave the table through four different operations.
* **Codes.** A code is popped before it is judged; the session it names was
  created earlier, dated by an earlier reading of the clock, and is never checked
  at the exchange.
* **Unreliable ISE.** Requests are retried after a lost answer, so a write may
  happen twice, late, or although its caller was told that it failed.
* **Probes.** A login asks ISE four times through a VIP whose nodes do not all
  enforce authentication; other logins, password changes and outages go on.
* **Reports.** A policy context is put together from five answers of different
  moments, any of which may be missing, while ISE changes.
* **Documents.** Repeated elements become lists, secrets sit at any depth.
* **Partial failure and cancellation.** Enrichments may fail, calls may be
  cancelled; the audit trail must still agree with what callers were told.

What makes each component correct: the *store* never forgets a use, never
revives an id and never refuses early; the *OAuth server* gives a code's token
once, to the party that asked, while it is usable; *dispatch* acts as the
call's own caller, only through the gates, audits once and always answers; the
*client* keeps to its budget and tells its caller the truth; a *login* fails
closed and its verdict names the cause; the *policy context* explains what it
lacks, reports what was true and loses nothing it learnt; *summaries* show what
is in the document, and *redaction* hides what stands under a secret's name, down
to its depth limit, and leaves ordinary fields alone.

## Modules

| module | models | notes |
|---|---|---|
| `SessionContract` | nothing in the code; what a session store promises | clock-free abstract specification |
| `SessionStore` | `auth/session_store.py` | implements `SessionContract` |
| `TokenContract` | nothing in the code; what a token endpoint promises its clients | codes and session ids, without logins in flight, clocks or tables |
| `OAuthServer` | `oauth.py`, `/authorize` and `/token` of `server.py` | composed with `SessionStore` (`Store == INSTANCE`), implements `TokenContract` |
| `ToolCalls` | gate, `run()`, providers, health tools, gating, audit | composed with `SessionStore` |
| `LoginContract` | nothing in the code; what a login promises its caller | one verdict, one session, no probes |
| `LoginProbe` | `PassthroughProvider.login`, `validate_credentials()` | composed with `SessionStore`, implements `LoginContract` |
| `IseClient` | `IseClient.request()`; ISE as an external actor | |
| `PolicyContext` | `tools/policy.py`, the endpoint summary of `ise/ers.py` | |
| `MntDocuments` | `_xml_to_dict` and `summarize_session` of `ise/mnt.py`, `redact` | pure functions |
| `MntSummaries` | nothing in the code; what a summary promises about its document | reference definition by the positions of leaves, a recursive function over documents |
| `SessionStoreProofs`, `OAuthServerProofs`, `ToolCallsProofs`, `LoginProbeProofs`, `IseClientProofs`, `PolicyContextProofs`, `MntDocumentsProofs`, `MntSummariesProofs` | – | theorems about the module they are named after |
| `MC...` | – | small instances for TLC |

`OAuthServer` and `ToolCalls` have the verdict of a login as one step
(`FinishAuthorize` or `FailLogin`, `LoginSucceeds` or `LoginFails`); `LoginProbe`
shows how it comes about. In the same way `ToolCalls` and `PolicyContext` have
the end of a request as one step, and `IseClient` shows that each request ends
and what its result means.

Definitions whose names begin with `Mut` are deliberately wrong variants of the
definition that follows them. They are used nowhere in a specification; each
exists to show that a property notices the error.

### SessionStore

`sessions` is `_sessions` (an entry or `None` for every id that
`token_urlsafe` can return), `now` the clock. `Create`, `Grant`/`Refuse` (the
two outcomes of `get`), `Delete` and `PurgeExpired` are the methods; each reads
the clock once and holds the lock, so each is one step. `Restart` empties the
table. `ClockSetBack` is an administrator or NTP. `answer` is what the last call
returned, and the history variable `observed` is what callers know of an id
(never issued, held, gone; who logged in, when, last accepted when), with the
moment at which a purge took its entry. Properties relate the table to
`observed`, not to itself.

`purge_expired` is modelled although nothing calls it: purging at any moment is
shown to cost no caller a session that was usable then. `public()` only formats.

### OAuthServer

`pending` are the logins that await ISE's verdict, several at a time;
`FinishAuthorize`, `FinishClientCredentials` and `FailLogin` are the code after
that await. An `/authorize` login reads the clock twice at its end: for the
session (`auth/session_store.py:56`) and then for the code (`oauth.py:83`).
`FinishAuthorize` creates the session, `IssueCode` the code, and `issuing` is a
login between the two. There is no `await` there, so that no other request is
handled meanwhile, but the clock may be set back, or advance until the session is
`MaxLag` old (`Clock`), and the process may die. `Exchange` is the whole of
`exchange_code` for the authenticated client (it contains no `await` on which
another task could run): the code is popped first, whatever is wrong with the
rest. `Refresh` is the refresh grant, which always fails; `MissingCredentials` is
a direct grant without an id or a secret. `minted`, `tries` and `known` are
history: the login each code belongs to, how its presentations ended, and which
ids were told to anybody. `ImplementsContract` hides `pending`, `issuing` and the
table of codes, and shows of `tries` the outcomes only. Random values are modelled
as fresh values; callers present minted codes only, with any client, URI and
verifier. Scope and `state` are echoed and left out; so are GET `/authorize` and
the metadata documents, which change nothing. A lost answer of `/token` needs no
action of its own: the client just does not use what `known` says it may.

### ToolCalls

A call is `new`, `admitted` (past the gate), `waiting` (for ISE) and then `done`
or `cancelled`. `Gate` is `RequireAuthOnMcp`; `Run*` is the stretch of `run()`
up to the first request or the audited error; `Enrich` is the next request of
`_enrich`; `Succeeds` and `IseFails` are the end of `run()`. `LoginStarts`,
`LoginSucceeds`, `LoginFails`, `Logout` and `HealthCheck` are the three tools
that bypass `run()`. `Cancel` is the `CancelledError` that `except Exception`
does not see. `cfg` is the `Config`, chosen once among those that `validate()`
accepts. `sent` and `audits` are history. Tools of the same shape are
represented by one of them: a tool with enrichment, a create, a delete, a local
tool, and the three ungated ones. Auditing is on (`AUDIT_LOG_ENABLED`).

### IseClient

`call[r]` is the state of one `request()`, `network` its attempts on the way to
ISE, `exists` ISE's record of the endpoint in question. `Ise` handles attempts
in any order, once or not at all, also after the client gave up on them; a
gateway may replace ISE's answer by its own, so a 502–504 says nothing about
whether the write happened. `Others` is any other request or ISE client that
touches the endpoint. `unsure` is history: the answers that left the effect
open. ISE, httpx and the gateways are external and modelled from how
`ise/client.py` uses them. `Doubling` tabulates min(2^n / 2, 8) for the attempts
the code makes.

### LoginProbe

`login[l]` is one run of `PassthroughProvider.login`. `Answer` is the VIP: the
node that gets the probe checks the password as ISE has it now, checks nothing
(or a gateway redirects), or fails; 403 is a failure of the latter kind.
`TransportError`, `Refused`, `NextProbe` and `Accepted` are the branches of the
loop; `Accepted` goes on to `store.create` without an `await`, so the session is
created in the same step. Every probe opens a connection of its own, so each may
meet another node. `Cancel` and `Restart` leave no session behind.
`PasswordChanges` is an administrator. `ImplementsContract` hides the probes: a
login that is probing is pending to its caller, and `owner` is what `observed`
says of a session id. `Cancel` and `Restart` are both `Abandon`, of one login or
of all. `right`, `wrong`, `unchecked` and
`trouble` are history: what the nodes knew, which the code does not.

### PolicyContext

`ctx` is the dataclass under construction, `todo` the requests that are left:
endpoint, its group and profile if it names them, session, authentication history.
(`_build_context` stores the endpoint after the enrichments; nothing reads it
before, so the model stores it at once.) Each request ends with what ISE has at
that moment, with an exception, or with a body that is not what was asked for: a
redirect, plain text, an empty object. An enrichment swallows its exception; the
other three leave a note. An unreadable body leaves none: the summary made of it
is an object of `None`s (`Blank`, `BlankSession`), which the `mac` of a summary
tells from one that describes an endpoint or a session, and `unread` records the
parts that ISE answered in this way. `IseChanges` is everything else that happens
to ISE, `past` all that it has held since the call began. `Narrative` is what
`_narrative` claims, as a set of claims.

### MntDocuments

A document is a tree of `[tag, text, kids]` with its text already stripped; a
Python value is a dict (its items in order), a list or a string. `Parse`,
`Summarize` and `Respond` are the three steps from the body to the client. The
code's recursive functions are recursive functions here as well: `elem` over
`Element` and `walk` over `Value`, sets that hold the parts of their members
(`ElementAssumption`), each with its loop (`Added` over the children, `Kept` over
the items) as a function of the number of turns, and `redact` over the depth, with
`Calls(root)[n]` for the calls that may go `n` levels further down and `Rebuilt`
for what one call does. What a client may see is said by levels: `Below(root)[n]`
is what lies `n` steps inside a value, with the keys on the way. The reference
definitions of the summary, in `MntSummaries`, speak of the positions of leaves
instead of dicts and lists. `Height` says how deep a document is; it is bounded by
`MaxHeight`, as Python's recursion is, whatever the bound. `username` stands for
the fields of the summary, which differ in their tags only.

`IsSensitive` matches as `_is_sensitive` does: the name in lower case is one of
`SENSITIVE_KEY_EXACT`, or has one of `SENSITIVE_KEY_PARTS` within it. A name is a
sequence of word fragments (`Spelled`), cut so that containment of the fragments is
containment of the text, and `Lower` lowers a fragment. Which names carry a secret
is not asked of the code: `SecretTag` and `OrdinaryTag` say it for the names of the
run, from the comment in `redaction.py:7-8` and `tests/test_redaction.py`. The
run has `accessToken` (a part, mixed case) and `Authorization` (a whole name, mixed
case) on one side, and on the other `authorization_rule`, which contains a whole
name but is none.

## Runs

| run | question | instance |
|---|---|---|
| `store_sessions` | Do table and callers agree, are sessions refused when and only when a limit has passed, is the contract implemented (which makes the end of a session final)? | 2 ids, 2 users, TTL 3, idle 2, 6 clock values, clock corrections of up to 3; symmetric |
| `oauth_concurrent` | Is the token contract implemented (one token for a code, no id handed out twice) and whom do tokens go to, under two concurrent logins, replays, wrong clients and verifiers, restarts? | 2 logins in flight, 2 codes, 2 ids, 2 users, no time; symmetric |
| `oauth_lifetime` | Is a token live when handed out, and given to the party that asked; is a first presentation refused with cause only? Type invariant | 1 login, 1 code, 2 URIs, 2 verifiers, CODE_TTL 1, lag up to 1, TTL = idle timeout = 2, 4 clock values, set back by up to 2 |
| `calls_concurrent` | Identity, and whether the session was alive at the start, with two calls | 2 calls, 2 users, 2 ids, 3 tools, logins and logouts in between; symmetric |
| `calls_configs` | Gates, identity and audit in every configuration; does every call end? | 1 call, 7 tools, every startable configuration with lists of at most one tool (2816 initial states) |
| `client_retries` | What does the caller of a failed, repeated or late request know, and when? | 1 request, all methods, 4 attempts as in the code, Retry-After 5, 60 or none |
| `login_probes` | Does a login fail closed, does its verdict have the cause it names, is the login contract implemented (no session without a login that passed)? | 2 logins, 1 account, 2 passwords, 4 probes as in the code, no time |
| `policy_report` | Is every part described, explained by one note or answered by ISE without content; was what is reported true, is anything lost? | 2 groups, 1 profile, 1 name, 1 user, 1 SGT, 1 change of ISE at any moment (560 initial states) |
| `mnt_documents` | Does the summary find the right user, are secrets masked down to the depth limit, and do ordinary fields come through as they are? | every document of up to two children with two children each, or three of a few kinds, and nested ones beyond a depth limit of 3 |

Why the bounds are enough. The limits of the store are compared with clock
differences only; TTL 3 over idle 2 over a clock of 0..5 has every order of
creation, use, purge and both expiries, one below, at and above each limit, and
two ids suffice because no operation relates more than one id. Limits of zero,
which switch a check off, are in `oauth_concurrent` and, with every other value, in
the theorems, not in `store_sessions`. The OAuth runs
divide the question: concurrency without time, and time without concurrency,
since codes do not interact except through the users and ids that the
concurrent run has two of. `oauth_lifetime` stands exactly on the boundary: with a
lag of 2 instead of 1, or an idle timeout of 1 instead of 2, TLC finds a token
whose session has expired. Replays are bounded by `MaxTries` = 2 presentations;
a third meets the same absent code as the second. For `ToolCalls`, gates depend
on one call and the configuration only, and calls affect one another only
through sessions, so that the configurations are explored with one call and the
interleavings with one configuration. The same argument makes one call enough
for liveness: no call waits for another. `MaxEnrich` is 1 in the runs (2 in
the code): the question whether later requests keep the identity needs one.
`IseClient` has a single request because the properties speak about one
request and `Others` lets the endpoint change arbitrarily around it; `WaitCap`
is above the 90 s that the property allows. Two logins are enough for
`LoginProbe`: they meet only in the store and in the account's password, and
four probes with two passwords have every position of an enforcing, permissive
or failing node. One change of ISE is enough for `PolicyContext` to separate any
two of the five requests; two groups let the endpoint move between them, and
names may come and go. In `MntDocuments` two levels under the root have every
pair of siblings and of nested values, three children a list that grows, and
`MaxDepth` = 3 (25 in the code) is passed by the nested documents; the names are
those where matching by whole and by part differ, and where case matters.

Expected violations, each a disagreement between the code and a sentence of the
documentation:

| run | what TLC shows |
|---|---|
| `oauth_disabled` | With an empty `OAUTH_CLIENT_ID`, POST `/authorize` accepts an empty client id and mints a code; `config.py:65` says that this disables `/authorize`. The code cannot be redeemed, but a session with its password stays behind. |
| `oauth_refresh` | `server.py:242-247` relies on a silent refresh, and `server.py:114` advertises the grant; `refresh()` always refuses. |
| `calls_soft_error` | The gate promises a 401 "instead of getting a soft error"; a logout between the gate and `run()` gives the soft error. |

Met while modelling, without a run of their own:

* `ISE_ALLOWED_ENDPOINT_GROUPS` is enforced by nothing: `assert_group_allowed`
  (`validation.py:106`) has no caller, against `.env.example:40-43`.
* With `ISE_ENCODED_AUTH` and `ISE_USERNAME` both set, the audit trail names the
  latter while ISE sees the former (`auth/service_account.py:17`);
  `docs/troubleshooting.md:18` says that the audit records the actor. `AuditedOnce`
  states this as its exception.
* In passthrough mode over HTTP the gate turns away `ise_login` for want of a
  session, against `docs/authentication.md:5-7`.
* The tool lists do not apply to the three tools that bypass `run()`, against
  `docs/mcp-tools.md:61`.
* Every answer below 400 counts as success in `_handle`, a 3xx included
  (`OkMeansApplied` excepts it); a redirect passes a probe of a login as well
  (`EveryProbeCounts` counts it as unchecked).
* The narrative says "not found in ISE" for any failed endpoint lookup. The
  note that stands beside it makes the text as a whole true, which is what
  `NarrativeHonest` says; the line alone is not.
* An endpoint or session that ISE answers with a redirect, plain text or an empty
  body becomes an object of `None`s (`ise/ers.py:92`, `ise/mnt.py:50-55`). It counts
  as found, the narrative prints "Endpoint: None", and no note says that anything
  is missing. `MissingIsExplained` states this as its exception.
* The session is dated before its code. Where CODE_TTL equals the idle timeout (or
  the TTL), a code that is redeemed in its last moment can yield a session that has
  just expired; `TokenIsLive` needs room for the difference as well.
* `SECURITY.md:15-17` lists `authorization`, `auth`, `credential`, `encoded` and
  `private` among the names that a masked key may contain. The code matches
  `authorization` and `credential` as whole names only, `encoded` and `private`
  only within `encoded_auth` and `private_key`, and `auth` not at all; the comment
  in `redaction.py:7-8` says that this is meant, so that policy fields survive.
  `OrdinaryFieldsShown` follows the code and the comment.
* `SECURITY.md:21` promises no secrets in responses; below 25 levels `redact` hands
  a value on as it is. `SecretsMasked` claims nothing below that limit.
* A leaf that a sibling repeats becomes a list, which the summary passes over
  (`ise/mnt.py:67`, `:85`); `SummarySound` states the exception.
* `ise_get_user_sessions_by_username` promises MNT sessions and asks ERS only
  (`tools/identity.py:10-20`).

## Properties worth a second look

* `TableMatchesCallers` is stated over what callers were told, so that a
  forgotten use or a silently replaced identity violates it only after several
  calls.
* `NoEarlyRefusal` holds under any clock because it says when the limit had
  passed: now, or at the moment of the purge. With a clock that is set back, a
  purge can take a session that would become valid again afterwards, and its
  holder is then refused within the limits of that later reading.
* `TokenIsLive` needs CODE_TTL (120 s), plus the time between the dates of session
  and code, to be within the TTL and the idle timeout. Nothing in
  `Config.validate()` requires it; the defaults satisfy it.
* `RefusalHasCause` is the other half: a client that presents its code in time, with
  the right URI and verifier, gets the token, whatever others sent before. Lateness
  is measured from the code's own date, so that a clock that is set forward may
  cost the token, and one that is set back never does.
* `ActsAsPresented` compares later requests of a call with the call's own token.
  It does not say that the session is still held: after a logout a call that
  already started finishes with the identity it captured, as the code does.
  `NoStartAfterGone` is the line that the code does draw.
* `AuditedOnce` fixes the extent of the audit trail: one record for a call that
  went through `run()` and ended, none for a cancelled one, although its write
  may have been applied. It ties the record to the requests: its actor is the user
  whom ISE saw in each of them, and a call whose first request succeeded is not
  reported as failed by an enrichment. The user inside `ISE_ENCODED_AUTH` is the
  exception, since the server never learns that name.
* `EveryProbeCounts` does not say that a session means a right password: four
  permissive answers in a row accept anybody, which the comment in
  `validate_credentials` concedes. It says that one enforcing answer is enough.
* `ReportWasTrue` relates each part to a moment of the call, not the whole to
  one: the group's name belongs to the id beside it, but the endpoint may have
  left that group, and session and endpoint may come from different moments.
* `MissingIsExplained` is what `docs/ise-permissions.md:20-22` promises an
  account without monitoring rights, for every failure and part: a part is
  described, or exactly one note names the error, never both. A part that ISE
  answered without describing it is excepted, and only that.
* `ReportWasTrue` and `NarrativeHonest` take a 404 to mean that a record is absent.
  `ise/ers.py:3-4` says that some resources are missing from some patches; there a
  404 says less, and "not found" with it.
* `VerdictHasCause` takes a 401 to mean that ISE found the password wrong.
* `SecretsMasked` and `OrdinaryFieldsShown` judge names that somebody outside the
  code has sorted. A name in neither set, such as `authentication`, is outside both.
* `SummarySound` and `FirstTextWins` together say which value wins: the first in
  document order where tags are unique among siblings, and never one that is
  not in the document.
* `RefusalIsHonest` and `TwiceOnlyIfUnsure` say precisely when the result of a
  write can be taken at its word. They do not say that writes happen at most
  once; the retries of POST, PUT and DELETE make that false.

## Fairness

Only the server's own steps are fair. `WF(Serves(c))` for every call: the event
loop runs every ready task, and httpx's timeout ends each wait for ISE, with an
answer or an error. `WF(Proceeds(r))` in `IseClient`: the loop wakes sleepers,
and the timeout makes `TransportError` possible in every wait. `WF(Serves(l))` in
`LoginProbe`: the same for the probes of one login. `WF(Answers)` in
`PolicyContext`: each of its requests ends, which `EveryRequestEnds` of
`IseClient` shows, and the task goes on. No fairness is assumed of clients, ISE,
the network, the clock, cancellation or restarts. The store and the OAuth server
have safety properties only, and a monitoring document is handled by functions.

## Proofs

Every safety property that a run checks of the six state machines is also a
theorem, for all ids, users, codes, calls, limits, probes, retries and changes,
and so are the two properties of redaction, for all documents and depths, and
the two of the summary, for all documents. Some theorems have no run's property
beside them: those that follow from a contract which a run checks, those about
the store inside another component, the bounds on what is left to do, and that
flattening XML loses no element (`NoChildLost`).

| module | theorem | states |
|---|---|---|
| `SessionStoreProofs` | `TypeCorrect`, `TableAgrees`, `Finality`, `Freshness`, `NeverEarly`, `Refinement` | `TypeOK`, `TableMatchesCallers`, `GoneIsFinal`, `GrantsAreFresh`, `NoEarlyRefusal`, `ImplementsContract` |
| `OAuthServerProofs` | `TypeCorrect`, `CodesSurvive`, `OneTokenPerCode`, `TokenForInitiator`, `TokenLives` | `TypeOK`, `CodesKept`, `OneTryPerCode`, `TokenGoesToInitiator`, `TokenIsLive` |
| | `RefusalsDue`, `Refinement`, `SessionsKeepPromises` | `RefusalHasCause`, `ImplementsContract`, and the store's theorems of its sessions |
| `ToolCallsProofs` | `TypeCorrect`, `NoCrossTalk`, `OneRecordEach`, `WritesGated`, `StartsGuarded` | `TypeOK`, `ActsAsPresented`, `AuditedOnce`, `WritesPermitted`, `NoStartAfterGone` |
| | `SessionsKeepPromises`, `CallsRunOut` | the store's theorems of its sessions, and `Left` |
| `IseClientProofs` | `TypeCorrect`, `OkIsApplied`, `RefusalIsFinal`, `AtMostOnceIfSure`, `WaitBounded`, `RetriesRunOut` | `TypeOK`, `OkMeansApplied`, `RefusalIsHonest`, `TwiceOnlyIfUnsure`, `PatienceBounded`, and `Left` |
| `LoginProbeProofs` | `TypeCorrect`, `FailsClosed`, `NoSessionUnprobed`, `VerdictIsJust` | `TypeOK`, `EveryProbeCounts`, `SessionsWereProbed`, `VerdictHasCause` |
| | `Refinement`, `ProbesRunOut` | `ImplementsContract`, and `Left` |
| `PolicyContextProofs` | `TypeCorrect`, `Explained`, `ReportTrue`, `Honest`, `NothingIsLost`, `RequestsRunOut` | `TypeOK`, `MissingIsExplained`, `ReportWasTrue`, `NarrativeHonest`, `ContextGrows`, and `Left` |
| `MntDocumentsProofs` | `NoSecretShown`, `RestIsShown` | `SecretsMasked`, `OrdinaryFieldsShown` |
| `MntSummariesProofs` | `SummaryIsSound`, `FirstWins`, `NoChildLost` | `SummarySound`, `FirstTextWins`, and what an element's dict holds |

The assumptions are those of the modules: limits and bounds are numbers (a login
has at least one probe), redirect URIs and the configured client id are of their
kinds, a configuration is one the server can start with, the methods are the
four HTTP methods, the parts of a document are documents and less high than it
(`ElementAssumption`, `HeightAssumption`), the two tags of the summary are among
the tags, and the stand-ins for absence are none of the values they stand beside
(`NoneAssumption`, `RecordAssumption`, `AbsenceAssumption`, `EmptyAssumption`,
`TagAssumption`). `TokenLives`
assumes besides that CODE_TTL and the lag between the two clock readings are
together within the TTL and the idle timeout, where these are on; nothing in
`Config.validate()` requires it, and without it the property is false.
`NoSecretShown` assumes that `IsSensitive` accepts the secrets' names, and
`RestIsShown` that it rejects the ordinary ones, for any names; that it sorts the
names of the run rightly is what the run shows. `TypeCorrect` of `OAuthServer` and
`ToolCalls` includes the type invariant of the store inside.

Each module proves one inductive invariant `IInv` (`IInvInit`, a lemma per
action, `IInvHolds`) and draws its theorems from it; in `MntSummariesProofs`,
where the work is in the functions, it is `UserInv`.

* **Store.** Types, `TableMatchesCallers` and `GoneIsFinal`. Finality is not
  inductive by itself: a grant looks at the table only, and that an entry is
  there for held ids alone is what `TableMatchesCallers` adds. `NeverEarly` adds
  `LossIsExpiry`: an id that is held without an entry had run out when a purge
  took it, which is recorded and hence does not depend on the clock afterwards.
  `Refinement` maps a session to "live" when it has an entry; purges, clock
  steps and restarts map to `Lapse` or a stutter.
* **OAuth.** A code that can still be redeemed is `Pristine`: never presented,
  in agreement with its login, and its session untouched because nobody was told
  the id. The last part is why `exchange_code` may skip the store, and needs that
  no two codes share a session (`Distinct`). A login between session and code has
  the same claim on its session, whose age is at most `MaxLag`; when the code is
  minted that age becomes the distance between their dates, on which `TokenLives`
  rests.
* **Calls.** A waiting call was permitted and acts as its token's user; a
  request that was sent did so, too; an ended call has its record. The store's
  part says that an entry names the user that the id stands for, and that an
  id's user never changes, so that later steps cannot falsify earlier requests.
* **Client.** `Position` bounds attempts and sleeps; `Certain` says that, as
  long as no answer left the effect open, only the attempt that is now on its
  way can have been carried out; `Earned` ties a good answer to an effect.
* **Logins.** `Sound` balances the counts of what the nodes knew against the
  probes that passed: a login that goes on has no wrong or failed probe behind
  it, whatever the number of probes.
* **Policy context.** `Progress` ties the queue of requests to what the context
  holds: each part is settled, with a value or one note, exactly when its request
  is behind. `UnreadOK` adds that an endpoint or session in the context has no MAC
  exactly if ISE's answer went unread, and that the last request leaves a history,
  a note or an unread answer, and only one of them. The rest is `ReportWasTrue` by
  parts; it is stable because `past` only grows.

Five arguments go beyond the invariant of one module.

* **Contracts.** Under the mapping, each step is one step of the abstract
  specification or a stutter. `OAuthServer`: the ends of logins are `Issue` or
  nothing, a presentation is `Redeem` or `Refuse`, a restart is `Forget` and
  empties no history; that a redeemed session is one nobody knew is `Pristine`
  again, and that a direct grant's is, `MintsOK`. `LoginProbe`: all probes but
  the last are stutters; `Admit` needs that an id which was never issued has no
  owner, the auxiliary invariant `OwnersOK`.
* **The store inside its users.** A step of `OAuthServer` or of `ToolCalls` is a call
  of the store or leaves it alone (the lemma `UsesTheStore`), by the way the actions
  are composed.
  `SessionsKeepPromises` instantiates the store's own theorems (`Sessions ==
  INSTANCE SessionStoreProofs`; `SameStore` identifies the two instances), so
  that freshness, no early refusal and the session contract hold under logins,
  exchanges, calls and restarts in any order.
* **Running out.** `Left` counts the steps that a call, request, login or report
  has before it at most. It is bounded, it is zero exactly when the work has
  ended, each step of the work itself lowers it, and nobody else raises it. Hence
  retries, enrichments, probes and enrichment requests cannot go on for ever, for
  every bound. The liveness properties need besides that the next step is
  possible and is taken.
* **Redaction.** By induction over the depth (`DepthInduction`, from the
  well-foundedness of `<`), `Below` and `Calls` satisfy their equations
  (`BelowEquation`, `CallsEquation`); by a second one, each level of what the
  client is given is the level of the parsed value as `Rebuilt` leaves it, below
  keys that hide nothing (`ResponseIsShown`). Nothing is used of documents: the
  theorems hold for any value that `redact` is given.
* **Summary.** Recursion and loops first have to be shown to compute what their
  definitions say: the loops by induction over the turns (`AddedEquation`,
  `KeptEquation`), `elem` and `leaves` by induction over the height
  (`ElemEquation`, `LeavesEquation`), `walk` by building up the set of values on
  which it is known, a level of documents and the lists of that level at a time
  (`WalkExtends`, `WalkEquation`). `AddedGrouped` says what the dict of an
  element looks like: one item for every tag, with the value of the only child
  that has it or the list of the values of all. A *claim* says for each key which
  texts are due there as long as the key is free; `Fills` says that a walk leaves
  what a claim allows and touches no key that is taken, and `WalkFills` that items
  which fill their claims make a dict or list which does, where the first item
  with a claim decides. Both theorems are then inductions over documents
  (`DocumentInduction`) for one claim each: `Alones`, the texts that no sibling
  hides, as the union of the children's shares (`AllSound`); and `Firsts`, the
  first text under each key, where unrepeated tags keep the items in the order of
  the children (`AddedInOrder`) and the first text of the first child that has one
  comes before all others (`FirstUnder`, `AllWin`). A claim that ignored the keys
  taken before would not be inductive, since one dict of results goes through the
  whole walk.

Only model-checked are the liveness properties `EveryCallEnds`,
`EveryRequestEnds`, `EveryLoginEnds` and `EveryCallAnswers`: they rest on fairness
and on ENABLED, which TLAPS does not handle. `Left` is their safety half.

## Not modelled

* Rendering and formatting: the login page, metadata documents, paging and error
  envelopes, logging set-up and the entry point.
* Argument validators (`normalize_mac`, `validate_ip`, page sizes, ...) and the
  parsing of the environment: functions of one string, character by character,
  that change no state. `ToolCalls` has their outcome (`RunInvalid`).
* The payloads of the query tools: one request, whose answer is passed on.
* Lock contention: no operation awaits while it holds a lock.
* stdio transport: `mcp_session_id` yields no token there, which the model has
  as a call with token `None`.
* The PKCE digest and random ids are ideal: equal only when made from equal
  values, never repeated.

## Plan

Done, in this order: `SessionContract`, `SessionStore` and its proofs;
`OAuthServer`; `ToolCalls`; `IseClient`; `LoginProbe`; `PolicyContext`;
`MntDocuments`; proofs about the five other state machines; `TokenContract` and
`LoginContract` with their refinements; the store's theorems inside its users; the
bounds on what is left to do; redaction; the summary. With that, every safety
property of a run is a theorem. Worth adding when the code changes: a caller of
`purge_expired` (an action of `ToolCalls`), an enforcement of
`ISE_ALLOWED_ENDPOINT_GROUPS` (a part of `WritesPermitted`), and a refresh grant
that renews (which turns `RefreshRenews` into a property that should hold).
