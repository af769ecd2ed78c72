---------------------------- MODULE ToolCallsProofs ----------------------------
(***************************************************************************)
(* What the gate and run() guarantee about tool calls, for every set of    *)
(* tools, calls, users and configurations, every session limit, and every  *)
(* interleaving of calls, logins, logouts, clock steps, cancellations and  *)
(* restarts: whose identity ISE sees, what it is asked, what is recorded.  *)
(***************************************************************************)
EXTENDS ToolCalls, TLAPS

CallState == [phase : Phase, tool : Tool \cup {None}, token : Token,
              user : User \cup {None}, auth : Identity \cup {None},
              requests : 0 .. 1 + MaxEnrich, result : Result]
Request == [call : Call, n : 1 .. 1 + MaxEnrich, tool : Tool, ise : Actor]
Record == [actor : Actor, status : {"ok", "error"}]

-------------------------------------------------------------------------------
\* The store's part: an entry says of its user and its times what its holder
\* knows of them.
StoreOK ==
  /\ now \in Int
  /\ sessions \in [Sid -> Store!Session \cup {None}]
  /\ observed \in [Sid -> Store!Observation]
  /\ \A s \in Sid : sessions[s] # None =>
       /\ observed[s].status = "held"
       /\ sessions[s] = [user |-> observed[s].user, created_at |-> observed[s].born,
                         last_used_at |-> observed[s].seen]

\* ise is the user that the token t stands for.
ActsFor(t, ise) == IF IsApiKey(t) THEN ise = Service
                   ELSE IF Passthrough
                     THEN t \in Sid /\ observed[t].status # "unborn" /\ ise = observed[t].user
                     ELSE ise = IF cfg.encoded THEN EncodedUser ELSE Service

\* A record in the name of actor is right for a call that ISE saw ise in.
Names(actor, ise) == ise = EncodedUser \/ actor = ise

\* The record of a call that is over.
Through(c) == /\ calls[c].phase = "done" /\ calls[c].tool \notin UngatedTool
              /\ calls[c].result # "401"
RecordOK(c) ==
  IF Through(c)
    THEN /\ Len(audits[c]) = 1
         /\ audits[c][1].status = "ok" <=> calls[c].result = "ok"
         /\ calls[c].requests >= 1 => Names(audits[c][1].actor, calls[c].auth.ise)
         /\ calls[c].requests > 1 => calls[c].result = "ok"
    ELSE audits[c] = <<>>

\* A call that waits for ISE was permitted and acts as its token's user; no
\* call starts twice.
Working(c) ==
  /\ calls[c].tool \notin UngatedTool /\ Permitted(c)
  /\ calls[c].auth \in Identity /\ ActsFor(calls[c].token, calls[c].auth.ise)
  /\ Names(calls[c].auth.actor, calls[c].auth.ise)
  /\ calls[c].requests >= 1
CallOK(c) ==
  /\ calls[c].phase = "new" => calls[c] = NewCall
  /\ calls[c].phase # "new" => /\ calls[c].tool \in Tool /\ calls[c].user \in User
                               /\ Known(calls[c].token)
  /\ calls[c].phase = "admitted" => calls[c].auth = None /\ calls[c].requests = 0
  /\ Awaits(c) => Working(c)
  /\ RecordOK(c)

\* A request was permitted and showed ISE the right user, the one of its call.
SentOK(r) ==
  /\ calls[r.call].auth \in Identity /\ calls[r.call].auth.ise = r.ise
  /\ calls[r.call].requests >= 1
  /\ calls[r.call].phase # "new" /\ ActsFor(calls[r.call].token, r.ise)
  /\ Enabled(r.tool) /\ WriteAllowed(r.tool)

IInv == /\ TypeOK /\ StoreOK /\ Startable(cfg)
        /\ \A c \in Call : CallOK(c)
        /\ \A r \in sent : SentOK(r)

-------------------------------------------------------------------------------
LEMMA IInvInit == Init => IInv
<1> SUFFICES ASSUME Init PROVE IInv
  OBVIOUS
<1>1. NewCall \in CallState
  BY CallsAssumption DEF NewCall, CallState, CallsAssumption, Phase, Result, Token
<1>2. TypeOK
  BY <1>1, CallsAssumption DEF Init, TypeOK, CallState, CallsAssumption
<1>3. StoreOK
  BY DEF Init, Store!Init, StoreOK, Store!Unborn, Store!Observation, Store!Never
<1>4. ASSUME NEW c \in Call PROVE CallOK(c)
  BY DEF Init, CallOK, NewCall, Awaits, RecordOK, Through
<1> QED BY <1>2, <1>3, <1>4 DEF Init, IInv

\* What is known of an id is never taken back.
IdentityKept ==
  \A x \in Sid : observed[x].status # "unborn" =>
    observed'[x].status # "unborn" /\ observed'[x].user = observed[x].user

LEMMA StoreStep ==
  ASSUME StoreOK, now' \in Int, now' = now \/ UNCHANGED <<sessions, observed>>,
         \/ \E s \in Sid, u \in User : Store!Create(s, u)
         \/ \E s \in Sid : Store!Grant(s) \/ Store!Refuse(s) \/ Store!Delete(s)
         \/ Store!Restart
         \/ UNCHANGED <<sessions, observed>>
  PROVE  StoreOK' /\ IdentityKept
<1>1. CASE UNCHANGED <<sessions, observed>>
  BY <1>1 DEF StoreOK, IdentityKept
<1>2. ASSUME NEW s \in Sid, NEW u \in User, Store!Create(s, u), now' = now
      PROVE  StoreOK' /\ IdentityKept
  <2>1. [user |-> u, created_at |-> now, last_used_at |-> now] \in Store!Session
    BY DEF Store!Session, StoreOK
  <2>2. Store!Held(u) \in Store!Observation
    BY DEF Store!Held, Store!Observation, Store!Never, StoreOK
  <2>3. /\ sessions' \in [Sid -> Store!Session \cup {None}]
        /\ observed' \in [Sid -> Store!Observation]
    BY <1>2, <2>1, <2>2 DEF Store!Create, StoreOK
  <2> QED BY <1>2, <2>3 DEF Store!Create, Store!Held, StoreOK, IdentityKept
<1>3. ASSUME NEW s \in Sid, Store!Grant(s), now' = now PROVE StoreOK' /\ IdentityKept
  <2>1. sessions[s] \in Store!Session /\ observed[s] \in Store!Observation
    BY <1>3 DEF Store!Grant, Store!Usable, StoreOK
  <2>2. /\ sessions' \in [Sid -> Store!Session \cup {None}]
        /\ observed' \in [Sid -> Store!Observation]
    BY <1>3, <2>1 DEF Store!Grant, StoreOK, Store!Session, Store!Observation
  <2>3. /\ sessions'[s] = [sessions[s] EXCEPT !.last_used_at = now]
        /\ observed'[s] = [observed[s] EXCEPT !.seen = now]
        /\ sessions[s] = [user |-> observed[s].user, created_at |-> observed[s].born,
                          last_used_at |-> observed[s].seen]
        /\ observed[s].status = "held"
        /\ \A x \in Sid \ {s} : sessions'[x] = sessions[x] /\ observed'[x] = observed[x]
    BY <1>3 DEF Store!Grant, Store!Usable, StoreOK
  <2>4. /\ observed'[s].status = "held" /\ observed'[s].user = observed[s].user
        /\ observed'[s].born = observed[s].born /\ observed'[s].seen = now
        /\ sessions'[s] = [user |-> observed[s].user, created_at |-> observed[s].born,
                           last_used_at |-> now]
    BY <2>1, <2>3 DEF Store!Observation
  <2> QED BY <1>3, <2>2, <2>3, <2>4 DEF StoreOK, IdentityKept
<1>4. ASSUME NEW S \in SUBSET Sid, observed' = Store!Gone(S), now' = now,
             sessions' \in [Sid -> Store!Session \cup {None}],
             \A s \in S : sessions'[s] = None,
             \A s \in Sid \ S : sessions'[s] = sessions[s]
      PROVE  StoreOK' /\ IdentityKept
  <2>1. observed' \in [Sid -> Store!Observation] /\ IdentityKept
    BY <1>4 DEF StoreOK, Store!Gone, Store!Observation, IdentityKept
  <2> QED BY <1>4, <2>1 DEF StoreOK, Store!Gone
<1>5. ASSUME NEW s \in Sid, Store!Refuse(s) \/ Store!Delete(s), now' = now
      PROVE  StoreOK' /\ IdentityKept
  BY <1>4, <1>5 DEF Store!Refuse, Store!Delete, StoreOK
<1>6. CASE Store!Restart /\ now' = now
  BY <1>4, <1>6 DEF Store!Restart
<1> QED BY <1>1, <1>2, <1>3, <1>5, <1>6

\* A token that resolves stands for a user: its session is held, within its
\* limits, and says who that is.
LEMMA ResolvesTo ==
  ASSUME IInv, NEW t \in Token, Resolves(t), UNCHANGED <<now, cfg>>
  PROVE  /\ StoreOK' /\ IdentityKept
         /\ IdentityOf(t) \in Identity /\ ActsFor(t, IdentityOf(t).ise)
         /\ Names(IdentityOf(t).actor, IdentityOf(t).ise)
         /\ Passthrough /\ ~IsApiKey(t) =>
              observed[t].status = "held" /\ Store!WithinLimits(observed[t])
<1>1. StoreOK' /\ IdentityKept
  BY StoreStep DEF Resolves, Accepts, storeVars, IInv, StoreOK
<1>2. CASE IsApiKey(t)
  BY <1>1, <1>2 DEF IdentityOf, Identity, Actor, ActsFor, Names
<1>3. CASE ~IsApiKey(t) /\ ~Passthrough
  <2>1. Startable(cfg) /\ cfg.auth_mode = "service_account"
    BY <1>3 DEF IInv, TypeOK, Config, Passthrough
  <2>2. cfg.encoded \/ cfg.username
    BY <2>1 DEF Startable
  <2> QED BY <1>1, <1>3, <2>2 DEF IdentityOf, FixedIdentity, Identity, Actor, ActsFor, Names
<1>4. CASE ~IsApiKey(t) /\ Passthrough
  <2>1. t \in Sid /\ sessions[t] # None /\ ~Store!IsExpired(sessions[t], now)
    BY <1>4 DEF Resolves, Accepts, Store!Grant, Store!Usable
  <2>2. /\ observed[t].status = "held" /\ observed[t] \in Store!Observation
        /\ sessions[t] \in Store!Session
        /\ sessions[t] = [user |-> observed[t].user, created_at |-> observed[t].born,
                          last_used_at |-> observed[t].seen]
    BY <2>1 DEF IInv, StoreOK
  <2>3. sessions[t].user \in User /\ sessions[t].user = observed[t].user
    BY <2>2 DEF Store!Session
  <2>4. Store!WithinLimits(observed[t])
    <3>1. observed[t].born \in Int /\ observed[t].seen \in Int /\ now \in Int
      BY <2>2 DEF Store!Observation, IInv, StoreOK
    <3> QED BY <2>1, <2>2, <3>1, CallsAssumption
            DEF CallsAssumption, Store!IsExpired, Store!WithinLimits, Store!WithinLimitsAt
  <2>5. IdentityOf(t) = [actor |-> sessions[t].user, ise |-> sessions[t].user]
    BY <1>4 DEF IdentityOf
  <2>6. /\ IdentityOf(t) \in Identity /\ ActsFor(t, IdentityOf(t).ise)
        /\ Names(IdentityOf(t).actor, IdentityOf(t).ise)
    BY <1>4, <2>1, <2>2, <2>3, <2>5 DEF Identity, Actor, ActsFor, Names
  <2> QED BY <1>1, <2>2, <2>4, <2>6
<1> QED BY <1>2, <1>3, <1>4, <1>1

LEMMA FailureKeeps ==
  ASSUME IInv, NEW t \in Token, FailsToResolve(t), UNCHANGED now
  PROVE  StoreOK' /\ IdentityKept
BY StoreStep DEF FailsToResolve, TurnsAway, storeVars, IInv, StoreOK

-------------------------------------------------------------------------------
\* What is known of a call and of a request outlives what the store does.
LEMMA CallKept ==
  ASSUME IdentityKept, UNCHANGED cfg,
         NEW d \in Call, CallOK(d), calls'[d] = calls[d], audits'[d] = audits[d]
  PROVE  CallOK(d)'
<1>1. Known(calls[d].token) => Known(calls[d].token)'
  BY DEF Known, IdentityKept
<1>2. Working(d) => Working(d)'
  BY DEF Working, ActsFor, IsApiKey, Passthrough, Permitted, Enabled, WriteAllowed, IdentityKept
<1> QED BY <1>1, <1>2 DEF CallOK, Awaits, RecordOK, Through

LEMMA RequestKept ==
  ASSUME IdentityKept, UNCHANGED cfg, NEW r \in sent, SentOK(r),
         calls'[r.call].token = calls[r.call].token, calls'[r.call].phase # "new",
         calls'[r.call].auth = calls[r.call].auth, calls'[r.call].requests >= 1
  PROVE  SentOK(r)'
BY DEF SentOK, ActsFor, IsApiKey, Passthrough, Enabled, WriteAllowed, IdentityKept

\* One call takes a step.
LEMMA OneCall ==
  ASSUME IInv, StoreOK', IdentityKept, UNCHANGED cfg,
         NEW c \in Call, NEW new \in CallState, calls' = [calls EXCEPT ![c] = new],
         new.phase # "new", calls[c].phase = "new" \/ new.token = calls[c].token,
         calls[c].requests = 0 \/ (new.auth = calls[c].auth /\ new.requests >= 1),
         audits' \in [Call -> Seq(Record)],
         \A d \in Call \ {c} : audits'[d] = audits[d],
         CallOK(c)',
         sent' \subseteq Request, \A r \in sent' \ sent : SentOK(r)'
  PROVE  IInv'
<1>1. calls \in [Call -> CallState] /\ sent \subseteq Request
  BY DEF IInv, TypeOK, CallState, Request
<1>2. TypeOK'
  BY <1>1 DEF IInv, TypeOK, CallState, Request, Record
<1>3. ASSUME NEW d \in Call PROVE CallOK(d)'
  BY <1>1, CallKept DEF IInv
<1>4. ASSUME NEW r \in sent' PROVE SentOK(r)'
  <2>1. CASE r \in sent
    <3>1. /\ r.call \in Call /\ SentOK(r) /\ calls[r.call].phase # "new"
          /\ calls[r.call].requests >= 1
      BY <1>1, <2>1 DEF IInv, SentOK, Request
    <3>2. /\ calls'[r.call].token = calls[r.call].token /\ calls'[r.call].phase # "new"
          /\ calls'[r.call].auth = calls[r.call].auth /\ calls'[r.call].requests >= 1
      BY <1>1, <3>1
    <3> QED BY <2>1, <3>1, <3>2, RequestKept
  <2> QED BY <2>1
<1> QED BY <1>2, <1>3, <1>4 DEF IInv

\* A call arrives at the gate.
LEMMA GateStep == ASSUME IInv, NEW c \in Call, Gate(c) PROVE IInv'
<1>1. PICK tool \in Tool, t \in Token, u \in User :
        Known(t) /\ (GatePasses(c, tool, t, u) \/ GateRejects(c, tool, t, u))
  BY DEF Gate
<1>2. calls[c].phase = "new" /\ UNCHANGED <<now, cfg, sent, audits>>
  BY <1>1 DEF Gate, GatePasses, GateRejects
<1>3. StoreOK' /\ IdentityKept
  BY <1>1, <1>2, ResolvesTo, FailureKeeps DEF GatePasses, GateRejects
<1>4. PICK phase \in {"admitted", "done"} :
        Arrives(c, tool, t, u, phase, IF phase = "done" THEN "401" ELSE "none")
  BY <1>1 DEF GatePasses, GateRejects
<1> DEFINE new == [phase |-> phase, tool |-> tool, token |-> t, user |-> u, auth |-> None,
                   requests |-> 0, result |-> IF phase = "done" THEN "401" ELSE "none"]
<1>5. new \in CallState
  BY CallsAssumption DEF CallState, CallsAssumption, Phase, Result
<1>6. calls' = [calls EXCEPT ![c] = new]
  BY <1>4 DEF Arrives
<1>7. calls'[c] = new
  BY <1>6 DEF IInv, TypeOK
<1>8. audits'[c] = <<>>
  BY <1>2 DEF IInv, CallOK, RecordOK, Through
<1>9. Known(t)'
  BY <1>1, <1>3 DEF Known, IdentityKept
<1>10. CallOK(c)'
  BY <1>7, <1>8, <1>9 DEF CallOK, Awaits, RecordOK, Through
<1>11. new.phase # "new" /\ calls[c].requests = 0
  BY <1>2 DEF IInv, CallOK, NewCall
<1> HIDE DEF new
<1> QED
  BY <1>2, <1>3, <1>5, <1>6, <1>10, <1>11, OneCall DEF IInv, TypeOK, Record, Request

-------------------------------------------------------------------------------
\* A call that has been let in and is not over.
Active(c) == calls[c].phase \in {"admitted", "waiting"}

LEMMA ActiveFacts ==
  ASSUME IInv, NEW c \in Call, Active(c)
  PROVE  /\ calls \in [Call -> CallState] /\ calls[c] \in CallState
         /\ CallOK(c) /\ audits[c] = <<>>
         /\ calls[c].tool \in Tool /\ calls[c].user \in User /\ Known(calls[c].token)
<1>1. calls \in [Call -> CallState] /\ CallOK(c)
  BY DEF IInv, TypeOK, CallState
<1> QED BY <1>1 DEF Active, CallOK, RecordOK, Through

\* A step of an active call that keeps its tool, token and user.
LEMMA Moves ==
  ASSUME IInv, StoreOK', IdentityKept, UNCHANGED cfg,
         NEW c \in Call, Active(c), NEW new \in CallState,
         calls' = [calls EXCEPT ![c] = new],
         new.phase # "new", new.phase # "admitted",
         new.tool = calls[c].tool, new.token = calls[c].token, new.user = calls[c].user,
         calls[c].requests = 0 \/ (new.auth = calls[c].auth /\ new.requests >= 1),
         audits' \in [Call -> Seq(Record)],
         \A d \in Call \ {c} : audits'[d] = audits[d],
         Awaits(c)' => Working(c)', RecordOK(c)',
         sent' \subseteq Request, \A r \in sent' \ sent : SentOK(r)'
  PROVE  IInv'
<1>1. calls'[c] = new
  BY ActiveFacts
<1>2. Known(calls[c].token)'
  BY <1>1, ActiveFacts DEF Known, IdentityKept
<1>3. CallOK(c)'
  BY <1>1, <1>2, ActiveFacts DEF CallOK
<1> QED BY <1>3, OneCall

LEMMA FinishFacts ==
  ASSUME IInv, NEW c \in Call, Active(c), NEW result \in Result, Finish(c, result)
  PROVE  /\ calls'[c] \in CallState /\ calls' = [calls EXCEPT ![c] = calls'[c]]
         /\ calls'[c].phase = "done" /\ calls'[c].result = result
         /\ calls'[c].tool = calls[c].tool /\ calls'[c].token = calls[c].token
         /\ calls'[c].user = calls[c].user /\ calls'[c].auth = calls[c].auth
         /\ calls'[c].requests = calls[c].requests
         /\ calls[c].requests = 0 \/ calls'[c].requests >= 1
<1>1. calls \in [Call -> CallState] /\ calls[c] \in CallState
  BY ActiveFacts
<1>2. calls'[c] \in CallState
  BY <1>1 DEF Finish, CallState, Phase
<1>3. calls' = [calls EXCEPT ![c] = calls'[c]]
  BY <1>1 DEF Finish
<1>4. calls[c].requests = 0 \/ calls[c].requests >= 1
  BY <1>1, CallsAssumption DEF CallState, CallsAssumption
<1> QED BY <1>1, <1>2, <1>3, <1>4 DEF Finish, CallState

\* One of the three ungated tools is done: no record is made.
LEMMA FinishUngated ==
  ASSUME IInv, StoreOK', IdentityKept, UNCHANGED <<cfg, sent, audits>>,
         NEW c \in Call, Active(c), NEW result \in Result, Finish(c, result),
         calls[c].tool \in UngatedTool
  PROVE  IInv'
<1>1. RecordOK(c)' /\ ~Awaits(c)'
  BY FinishFacts, ActiveFacts DEF RecordOK, Through, Awaits
<1>2. audits' \in [Call -> Seq(Record)] /\ sent' \subseteq Request
  BY DEF IInv, TypeOK, Record, Request
<1> QED BY <1>1, <1>2, FinishFacts, Moves

\* A tool that goes through run() is done: there is one record, of its outcome.
LEMMA FinishAudited ==
  ASSUME IInv, StoreOK', IdentityKept, UNCHANGED <<cfg, sent>>,
         NEW c \in Call, Active(c), NEW result \in Result \ {"401"}, Finish(c, result),
         calls[c].tool \notin UngatedTool,
         NEW actor \in Actor, NEW status \in {"ok", "error"}, Audit(c, actor, status),
         status = "ok" <=> result = "ok",
         calls[c].requests >= 1 => Names(actor, calls[c].auth.ise),
         calls[c].requests > 1 => result = "ok"
  PROVE  IInv'
<1> DEFINE rec == [actor |-> actor, status |-> status]
<1>1. rec \in Record /\ rec.actor = actor /\ rec.status = status
  BY DEF Record
<1>2. audits \in [Call -> Seq(Record)] /\ sent' \subseteq Request
  BY DEF IInv, TypeOK, Record, Request
<1>3. audits' = [audits EXCEPT ![c] = Append(@, rec)]
  BY DEF Audit
<1> HIDE DEF rec
<1>4. audits'[c] = Append(<<>>, rec)
  BY <1>2, <1>3, ActiveFacts
<1>5. Len(audits'[c]) = 1 /\ audits'[c][1] = rec /\ audits'[c] \in Seq(Record)
  BY <1>1, <1>4
<1>6. audits' \in [Call -> Seq(Record)] /\ \A d \in Call \ {c} : audits'[d] = audits[d]
  BY <1>2, <1>3, <1>5
<1>7. RecordOK(c)' /\ ~Awaits(c)'
  BY <1>1, <1>5, FinishFacts DEF RecordOK, Through, Awaits
<1> QED BY <1>2, <1>6, <1>7, FinishFacts, Moves

\* A request goes to ISE for a call that is permitted, with the identity of its
\* token's user.
LEMMA SendStep ==
  ASSUME IInv, StoreOK', IdentityKept, UNCHANGED <<cfg, audits>>,
         NEW c \in Call, Active(c), calls[c].tool \notin UngatedTool, Permitted(c),
         calls[c].requests <= MaxEnrich,
         NEW auth \in Identity, ActsFor(calls[c].token, auth.ise), Send(c, auth),
         Names(auth.actor, auth.ise), calls[c].requests = 0 \/ auth = calls[c].auth
  PROVE  IInv'
<1>1. calls \in [Call -> CallState] /\ calls[c] \in CallState /\ calls[c].requests \in Nat
  BY ActiveFacts, CallsAssumption DEF CallState, CallsAssumption
<1>2. calls'[c] \in CallState /\ calls' = [calls EXCEPT ![c] = calls'[c]]
  BY <1>1, CallsAssumption DEF Send, CallState, Phase, CallsAssumption
<1>3. /\ calls'[c].phase = "waiting" /\ calls'[c].auth = auth
      /\ calls'[c].tool = calls[c].tool /\ calls'[c].token = calls[c].token
      /\ calls'[c].user = calls[c].user /\ calls'[c].requests = calls[c].requests + 1
  BY <1>1 DEF Send, CallState
<1>4. auth.ise \in Actor
  BY DEF Identity
<1>5. PICK r \in Request : r = [call |-> c, n |-> calls[c].requests + 1,
                               tool |-> calls[c].tool, ise |-> auth.ise]
  <2>1. calls[c].requests + 1 \in 1 .. 1 + MaxEnrich /\ calls[c].tool \in Tool
    BY <1>1, ActiveFacts, CallsAssumption DEF CallsAssumption
  <2> QED BY <1>4, <2>1 DEF Request
<1>6. sent' = sent \cup {r} /\ r.call = c /\ r.tool = calls[c].tool /\ r.ise = auth.ise
  BY <1>5 DEF Send
<1>7. ActsFor(calls[c].token, auth.ise)'
  BY <1>3 DEF ActsFor, IsApiKey, Passthrough, IdentityKept
<1>8. SentOK(r)'
  BY <1>1, <1>3, <1>6, <1>7 DEF SentOK, Permitted, Enabled, WriteAllowed
<1>9. Working(c)'
  BY <1>1, <1>3, <1>7 DEF Working, Permitted, Enabled, WriteAllowed
<1>10. RecordOK(c)'
  BY <1>3, ActiveFacts DEF RecordOK, Through
<1>11. /\ sent' \subseteq Request /\ \A x \in sent' \ sent : SentOK(x)'
       /\ audits' \in [Call -> Seq(Record)] /\ \A d \in Call \ {c} : audits'[d] = audits[d]
  BY <1>5, <1>6, <1>8 DEF IInv, TypeOK, Request, Record
<1>12. calls[c].requests = 0 \/ (calls'[c].auth = calls[c].auth /\ calls'[c].requests >= 1)
  BY <1>1, <1>3
<1> QED BY <1>2, <1>3, <1>9, <1>10, <1>11, <1>12, Moves

\* run(), up to its first await or its end.
LEMMA RunStep == ASSUME IInv, NEW c \in Call, Run(c) PROVE IInv'
<1> DEFINE t == calls[c].token
<1>1. /\ Active(c) /\ calls[c].tool \notin UngatedTool /\ UNCHANGED <<now, cfg>>
      /\ calls[c].auth = None /\ calls[c].requests = 0 /\ TokenOf(c) = t /\ t \in Token
  <2>1. Runs(c) /\ UNCHANGED <<now, cfg>>
    BY DEF Run, RunRefused, RunNoSession, RunInvalid, RunLocal, RunSends
  <2>2. Active(c) /\ calls[c].phase = "admitted" /\ calls[c].tool \notin UngatedTool
    BY <2>1 DEF Runs, Active
  <2> QED BY <2>1, <2>2, ActiveFacts DEF CallOK, TokenOf, CallState
<1>2. CASE RunRefused(c)
  <2>1. StoreOK' /\ IdentityKept
    BY <1>2, StoreStep DEF RunRefused, storeVars, IInv, StoreOK
  <2> QED BY <1>1, <1>2, <2>1, FinishAudited DEF RunRefused, Result, Actor
<1>3. CASE RunNoSession(c)
  <2>1. StoreOK' /\ IdentityKept
    BY <1>1, <1>3, FailureKeeps DEF RunNoSession
  <2> QED BY <1>1, <1>3, <2>1, FinishAudited DEF RunNoSession, Result, Actor
<1>4. ASSUME Resolves(t)
      PROVE  /\ StoreOK' /\ IdentityKept /\ IdentityOf(t) \in Identity
             /\ IdentityOf(t).actor \in Actor /\ ActsFor(t, IdentityOf(t).ise)
             /\ Names(IdentityOf(t).actor, IdentityOf(t).ise)
  BY <1>1, <1>4, ResolvesTo DEF Identity
<1>5. CASE RunInvalid(c)
  BY <1>1, <1>4, <1>5, FinishAudited DEF RunInvalid, Result
<1>6. CASE RunLocal(c)
  BY <1>1, <1>4, <1>6, FinishAudited DEF RunLocal, Result
<1>7. CASE RunSends(c)
  BY <1>1, <1>4, <1>7, SendStep, CallsAssumption DEF RunSends, CallsAssumption
<1> QED BY <1>2, <1>3, <1>5, <1>6, <1>7 DEF Run

\* A call hears from ISE.
LEMMA AwaitStep ==
  ASSUME IInv, NEW c \in Call, Enrich(c) \/ Succeeds(c) \/ IseFails(c)
  PROVE  IInv'
<1>1. Awaits(c) /\ Active(c) /\ UNCHANGED <<now, storeVars, cfg>>
  BY DEF Enrich, Succeeds, IseFails, Awaits, Active
<1>2. Working(c) /\ calls[c].auth.actor \in Actor /\ calls[c].requests >= 1
  BY <1>1, ActiveFacts DEF CallOK, Working, Identity
<1>3. StoreOK' /\ IdentityKept
  BY <1>1, StoreStep DEF storeVars, IInv, StoreOK
<1>4. CASE Enrich(c)
  BY <1>1, <1>2, <1>3, <1>4, SendStep DEF Enrich, Working
<1>5. CASE Succeeds(c)
  BY <1>1, <1>2, <1>3, <1>5, FinishAudited DEF Succeeds, Working, Result
<1>6. CASE IseFails(c)
  BY <1>1, <1>2, <1>3, <1>6, FinishAudited DEF IseFails, Working, Result
<1> QED BY <1>4, <1>5, <1>6

\* The call's phase alone changes.
LEMMA PhaseStep ==
  ASSUME IInv, UNCHANGED <<now, storeVars, cfg, sent, audits>>, NEW c \in Call, Active(c),
         NEW phase \in {"waiting", "cancelled"}, calls' = [calls EXCEPT ![c].phase = phase],
         phase = "waiting" => calls[c].tool = "ise_login"
  PROVE  IInv'
<1>1. calls \in [Call -> CallState] /\ calls[c] \in CallState
  BY ActiveFacts
<1>2. calls'[c] \in CallState /\ calls' = [calls EXCEPT ![c] = calls'[c]]
  BY <1>1 DEF CallState, Phase
<1>3. /\ calls'[c].phase = phase
      /\ calls'[c].tool = calls[c].tool /\ calls'[c].token = calls[c].token
      /\ calls'[c].user = calls[c].user /\ calls'[c].auth = calls[c].auth
      /\ calls'[c].requests = calls[c].requests
      /\ calls[c].requests = 0 \/ calls'[c].requests >= 1
  BY <1>1, CallsAssumption DEF CallState, CallsAssumption
<1>4. RecordOK(c)' /\ ~Awaits(c)'
  BY <1>3, ActiveFacts DEF RecordOK, Through, Awaits
<1>5. StoreOK' /\ IdentityKept
  BY StoreStep DEF storeVars, IInv, StoreOK
<1>6. audits' \in [Call -> Seq(Record)] /\ sent' \subseteq Request
  BY DEF IInv, TypeOK, Record, Request
<1> QED BY <1>2, <1>3, <1>4, <1>5, <1>6, Moves

\* The three ungated tools.
LEMMA UngatedStep ==
  ASSUME IInv, NEW c \in Call,
         \/ HealthCheck(c) \/ LoginStarts(c) \/ LoginSucceeds(c) \/ LoginFails(c) \/ Logout(c)
  PROVE  IInv'
<1>1. /\ Active(c) /\ calls[c].tool \in UngatedTool /\ UNCHANGED <<now, cfg, sent, audits>>
  BY DEF HealthCheck, LoginStarts, LoginSucceeds, LoginFails, Logout, Active, UngatedTool
<1>2. StoreOK' /\ IdentityKept
  <2>1. calls[c].user \in User
    BY <1>1, ActiveFacts
  <2>2. \/ \E s \in Sid, u \in User : Store!Create(s, u)
        \/ \E s \in Sid : Store!Delete(s)
        \/ UNCHANGED <<sessions, observed>>
    BY <2>1 DEF HealthCheck, LoginStarts, LoginSucceeds, LoginFails, Logout, storeVars
  <2> QED BY <1>1, <2>2, StoreStep DEF IInv, StoreOK
<1>3. ASSUME NEW result \in Result, Finish(c, result) PROVE IInv'
  BY <1>1, <1>2, <1>3, FinishUngated
<1>4. CASE LoginStarts(c) /\ Passthrough
  <2>1. calls' = [calls EXCEPT ![c].phase = "waiting"] /\ UNCHANGED storeVars
    BY <1>4 DEF LoginStarts
  <2> QED BY <1>1, <1>4, <2>1, PhaseStep DEF LoginStarts
<1>5. CASE ~(LoginStarts(c) /\ Passthrough)
  BY <1>3, <1>5 DEF HealthCheck, LoginStarts, LoginSucceeds, LoginFails, Logout, Result
<1> QED BY <1>4, <1>5

\* Something else happens: no call takes a step, save that a restart cancels
\* those that are active.
LEMMA RestStep ==
  ASSUME IInv, TokenLogin \/ ClockMoves \/ UNCHANGED vars
  PROVE  IInv'
<1>1. UNCHANGED callVars /\ now' \in Int /\ (now' = now \/ UNCHANGED <<sessions, observed>>)
  BY DEF TokenLogin, ClockMoves, vars, callVars, storeVars, Store!Tick, Store!ClockSetBack,
         IInv, StoreOK
<1>2. StoreOK' /\ IdentityKept
  BY <1>1, StoreStep DEF TokenLogin, ClockMoves, vars, storeVars, IInv
<1>3. TypeOK'
  BY <1>1 DEF IInv, TypeOK, callVars
<1>4. ASSUME NEW c \in Call PROVE CallOK(c)'
  BY <1>1, <1>2, CallKept DEF IInv, callVars
<1>5. ASSUME NEW r \in sent' PROVE SentOK(r)'
  BY <1>1, <1>2, RequestKept DEF IInv, callVars, SentOK
<1>6. Startable(cfg)'
  BY <1>1 DEF IInv, callVars
<1> QED BY <1>2, <1>3, <1>4, <1>5, <1>6 DEF IInv

LEMMA RestartStep == ASSUME IInv, Restart PROVE IInv'
<1>1. /\ UNCHANGED <<now, cfg, sent, audits>> /\ Store!Restart
      /\ calls' = [c \in Call |-> IF Active(c) THEN [calls[c] EXCEPT !.phase = "cancelled"]
                                               ELSE calls[c]]
  BY DEF Restart, Active
<1>2. StoreOK' /\ IdentityKept
  BY <1>1, StoreStep DEF IInv, StoreOK
<1>3. ASSUME NEW c \in Call
      PROVE  /\ calls'[c] \in CallState /\ CallOK(c)'
             /\ calls'[c].token = calls[c].token /\ calls'[c].auth = calls[c].auth
             /\ calls'[c].requests = calls[c].requests
             /\ calls[c].phase # "new" => calls'[c].phase # "new"
  <2>1. CASE Active(c)
    <3>1. calls'[c] = [calls[c] EXCEPT !.phase = "cancelled"] /\ calls[c] \in CallState
      BY <1>1, <2>1, ActiveFacts
    <3>2. /\ calls'[c] \in CallState /\ calls'[c].phase = "cancelled"
          /\ calls'[c].tool = calls[c].tool /\ calls'[c].token = calls[c].token
          /\ calls'[c].user = calls[c].user /\ calls'[c].auth = calls[c].auth
          /\ calls'[c].requests = calls[c].requests
      BY <3>1 DEF CallState, Phase
    <3>3. Known(calls[c].token)'
      BY <1>2, <2>1, <3>2, ActiveFacts DEF Known, IdentityKept
    <3>4. CallOK(c)'
      BY <1>1, <2>1, <3>2, <3>3, ActiveFacts DEF CallOK, Awaits, RecordOK, Through
    <3> QED BY <3>2, <3>4
  <2>2. CASE ~Active(c)
    <3>1. calls'[c] = calls[c] /\ calls[c] \in CallState
      BY <1>1, <2>2 DEF IInv, TypeOK, CallState
    <3> QED BY <1>1, <1>2, <3>1, CallKept DEF IInv
  <2> QED BY <2>1, <2>2
<1>4. TypeOK'
  BY <1>1, <1>3 DEF IInv, TypeOK, CallState
<1>5. ASSUME NEW r \in sent' PROVE SentOK(r)'
  <2>1. /\ r \in sent /\ r.call \in Call /\ SentOK(r) /\ calls[r.call].phase # "new"
        /\ calls[r.call].requests >= 1
    BY <1>1 DEF IInv, TypeOK, SentOK
  <2> QED BY <1>1, <1>2, <1>3, <2>1, RequestKept
<1>6. Startable(cfg)'
  BY <1>1 DEF IInv
<1> QED BY <1>2, <1>3, <1>4, <1>5, <1>6 DEF IInv

LEMMA IInvStep == ASSUME IInv, [Next]_vars PROVE IInv'
<1>1. ASSUME NEW c \in Call, Cancel(c) PROVE IInv'
  BY <1>1, PhaseStep DEF Cancel, Active
<1> QED
  BY <1>1, GateStep, RunStep, AwaitStep, UngatedStep, RestStep, RestartStep
     DEF Next, Serves

\* The inductive invariant holds in every reachable state.
THEOREM IInvHolds == Spec => []IInv
<1>1. IInv /\ [Next]_vars => IInv'
  BY IInvStep
<1> QED BY IInvInit, <1>1, PTL DEF Spec

-------------------------------------------------------------------------------
\* Calls never act as one another, under every configuration.
THEOREM NoCrossTalk == Spec => []ActsAsPresented
<1>1. ASSUME IInv PROVE ActsAsPresented
  BY <1>1 DEF IInv, SentOK, ActsFor, ActsAsPresented
<1> QED BY IInvHolds, <1>1, PTL

\* One audit record for every call that run() has finished, none for others, in
\* the name of the user ISE saw.
THEOREM OneRecordEach == Spec => []AuditedOnce
<1>1. ASSUME IInv PROVE AuditedOnce
  <2> SUFFICES ASSUME NEW c \in Call, RecordOK(c)
               PROVE  LET call == calls[c]
                          through == /\ call.phase = "done" /\ call.tool \notin UngatedTool
                                     /\ call.result # "401"
                      IN  /\ Len(audits[c]) = IF through THEN 1 ELSE 0
                          /\ through =>
                               /\ audits[c][1].status = "ok" <=> call.result = "ok"
                               /\ \A r \in sent : r.call = c =>
                                    r.ise = EncodedUser \/ audits[c][1].actor = r.ise
                               /\ call.requests > 1 => call.result = "ok"
    BY <1>1 DEF IInv, CallOK, AuditedOnce
  <2>1. Len(<<>>) = 0
    OBVIOUS
  <2>2. ASSUME NEW r \in sent, r.call = c, Through(c)
        PROVE  r.ise = EncodedUser \/ audits[c][1].actor = r.ise
    <3>1. calls[c].requests >= 1 /\ calls[c].auth.ise = r.ise
      BY <1>1, <2>2 DEF IInv, SentOK
    <3> QED BY <2>2, <3>1 DEF RecordOK, Names
  <2> QED BY <2>1, <2>2 DEF RecordOK, Through
<1> QED BY IInvHolds, <1>1, PTL

\* No request that the server's flags and tool lists forbid reaches ISE.
THEOREM WritesGated == Spec => []WritesPermitted
<1>1. ASSUME IInv PROVE WritesPermitted
  BY <1>1 DEF IInv, SentOK, Enabled, WriteAllowed, WriteTool, DangerousTool, WritesPermitted
<1> QED BY IInvHolds, <1>1, PTL

\* A call starts only in a session that is held and within its limits.
THEOREM StartsGuarded == Spec => NoStartAfterGone
<1>1. ASSUME IInv, [Next]_vars PROVE [StartsInSession]_sent
  <2>1. ASSUME NEW c \in Call, RunSends(c) PROVE StartsInSession
    <3>1. /\ sent' \ sent \subseteq {[call |-> c, n |-> calls[c].requests + 1,
                                      tool |-> calls[c].tool,
                                      ise |-> IdentityOf(TokenOf(c)).ise]}
          /\ Resolves(TokenOf(c)) /\ UNCHANGED <<now, cfg>>
      BY <2>1 DEF RunSends, Send
    <3>2. TokenOf(c) = calls[c].token /\ calls[c].token \in Token
      BY <1>1 DEF IInv, TypeOK, TokenOf
    <3> QED BY <1>1, <3>1, <3>2, ResolvesTo DEF StartsInSession
  <2>2. ASSUME NEW c \in Call, Enrich(c) PROVE StartsInSession
    <3>1. calls[c].requests >= 1 /\ calls[c].requests \in Nat
      BY <1>1, <2>2, CallsAssumption
         DEF IInv, TypeOK, CallOK, Working, Enrich, CallsAssumption
    <3>2. sent' \ sent \subseteq {[call |-> c, n |-> calls[c].requests + 1,
                                   tool |-> calls[c].tool, ise |-> calls[c].auth.ise]}
      BY <2>2 DEF Enrich, Send
    <3>3. \A r \in sent' \ sent : r.n # 1
      BY <3>1, <3>2
    <3> QED BY <3>3 DEF StartsInSession
  <2>3. CASE UNCHANGED sent
    BY <2>3
  <2> QED
    BY <1>1, <2>1, <2>2, <2>3
       DEF Next, vars, callVars, Gate, GatePasses, GateRejects, Serves, Run, RunRefused,
           RunNoSession, RunInvalid, RunLocal, Succeeds, IseFails, HealthCheck, LoginStarts,
           LoginSucceeds, LoginFails, Logout, Cancel, TokenLogin, Restart, ClockMoves
<1> QED BY IInvHolds, <1>1, PTL DEF Spec, NoStartAfterGone

-------------------------------------------------------------------------------
\* What the gate, run() and the tools do to the table is what the store does in
\* one of its own calls: what is proved of the store can be said of it here.
LEMMA UsesTheStore == Spec => Store!Spec
<1>1. Init => Store!Init
  BY DEF Init
<1>2. ASSUME IInv, [Next]_vars PROVE [Store!Next]_Store!vars
  <2>1. CASE UNCHANGED <<now, storeVars>>
    BY <2>1 DEF storeVars, Store!vars, Store!storeVars
  <2>2. ASSUME NEW t \in Token, Resolves(t) \/ FailsToResolve(t), UNCHANGED now
        PROVE  [Store!Next]_Store!vars
    BY <2>1, <2>2
       DEF Resolves, FailsToResolve, Accepts, TurnsAway, Store!Next, Store!StoreCall, Store!Get
  <2>3. ASSUME NEW c \in Call, Gate(c) PROVE [Store!Next]_Store!vars
    BY <2>2, <2>3 DEF Gate, GatePasses, GateRejects
  <2>4. ASSUME NEW c \in Call, Run(c) PROVE [Store!Next]_Store!vars
    <3>1. TokenOf(c) \in Token
      BY <1>2, ActiveFacts DEF TokenOf, IInv, TypeOK
    <3> QED
      BY <2>1, <2>2, <2>4, <3>1
         DEF Run, RunRefused, RunNoSession, RunInvalid, RunLocal, RunSends
  <2>5. ASSUME NEW c \in Call, LoginSucceeds(c) PROVE [Store!Next]_Store!vars
    <3>1. calls[c].user \in User
      BY <1>2, <2>5, ActiveFacts DEF LoginSucceeds, Active
    <3> QED BY <2>5, <3>1 DEF LoginSucceeds, Store!Next, Store!StoreCall
  <2>6. ASSUME NEW c \in Call, Logout(c) PROVE [Store!Next]_Store!vars
    BY <2>1, <2>6 DEF Logout, Store!Next, Store!StoreCall
  <2>7. CASE TokenLogin \/ Restart
    BY <2>7 DEF TokenLogin, Restart, Store!Next, Store!StoreCall
  <2>8. CASE ClockMoves
    BY <2>8 DEF ClockMoves, storeVars, Store!Next, Store!storeVars
  <2> QED
    BY <1>2, <2>1, <2>3, <2>4, <2>5, <2>6, <2>7, <2>8
       DEF Next, Serves, vars, Enrich, Succeeds, IseFails, LoginStarts, LoginFails,
           HealthCheck, Cancel
<1>3. IInv /\ [Next]_vars => [Store!Next]_Store!vars
  BY <1>2
<1> QED BY IInvHolds, <1>1, <1>3, PTL DEF Spec, Store!Spec

-------------------------------------------------------------------------------
Sessions == INSTANCE SessionStoreProofs

\* The store that tool calls use is the store of the theorems.
LEMMA SameStore == /\ Store!Init => Sessions!Init
                   /\ [Store!Next]_Store!vars => [Sessions!Next]_Sessions!vars
<1>1. /\ Sessions!NoAnswer = Store!NoAnswer
      /\ Sessions!Unborn = Store!Unborn
      /\ \A u : Sessions!Held(u) = Store!Held(u)
      /\ \A S : Sessions!Gone(S) = Store!Gone(S)
      /\ \A k, s, u : Sessions!Told(k, s, u) = Store!Told(k, s, u)
      /\ \A e, t : Sessions!IsExpired(e, t) <=> Store!IsExpired(e, t)
  BY DEF Sessions!NoAnswer, Store!NoAnswer, Sessions!Told, Store!Told, Sessions!Unborn,
     Store!Unborn, Sessions!Never, Store!Never, Sessions!Held, Store!Held, Sessions!Gone,
     Store!Gone, Sessions!IsExpired, Store!IsExpired
<1>2. \A s \in Sid, u \in User : Store!Create(s, u) => Sessions!Create(s, u)
  BY <1>1 DEF Store!Create, Sessions!Create
<1>3. \A s \in Sid : /\ Store!Get(s) => Sessions!Get(s)
                     /\ Store!Delete(s) => Sessions!Delete(s)
  BY <1>1 DEF Store!Get, Sessions!Get, Store!Grant, Sessions!Grant, Store!Refuse,
     Sessions!Refuse, Store!Usable, Sessions!Usable, Store!Delete, Sessions!Delete
<1>4. /\ Store!PurgeExpired => Sessions!PurgeExpired
      /\ Store!Restart => Sessions!Restart
  BY <1>1 DEF Store!PurgeExpired, Sessions!PurgeExpired, Store!Drop, Sessions!Drop,
     Store!Restart, Sessions!Restart
<1>5. /\ Store!Tick => Sessions!Tick
      /\ Store!ClockSetBack => Sessions!ClockSetBack
  BY DEF Store!Tick, Sessions!Tick, Store!ClockSetBack, Sessions!ClockSetBack
<1> QED
  BY <1>1, <1>2, <1>3, <1>4, <1>5
     DEF Store!Init, Sessions!Init, Store!Next, Sessions!Next, Store!StoreCall,
         Sessions!StoreCall, Store!vars, Sessions!vars, Store!storeVars, Sessions!storeVars

LEMMA StoreSpec == Spec => Sessions!Spec
<1>1. Store!Spec => Sessions!Spec
  BY SameStore, PTL DEF Store!Spec, Sessions!Spec
<1> QED BY <1>1, UsesTheStore, PTL

LEMMA StoreAssumed == Sessions!StoreAssumption /\ Sessions!NoneAssumption
<1>1. Sessions!StoreAssumption
  BY CallsAssumption DEF CallsAssumption
<1>2. Sessions!NoneAssumption
  BY CallsAssumption DEF CallsAssumption, Store!Session, Sessions!Session
<1> QED BY <1>1, <1>2

\* Every variable of the dispatch keeps its type, the store's included: no call
\* asks ISE more than 1 + MaxEnrich times.
THEOREM TypeCorrect == Spec => [](TypeOK /\ Store!TypeOK)
<1>1. IInv => TypeOK
  BY DEF IInv
<1>2. Sessions!Spec => []Sessions!TypeOK
  BY StoreAssumed, Sessions!TypeCorrect
<1>3. Sessions!TypeOK => Store!TypeOK
  BY DEF Sessions!TypeOK, Store!TypeOK, Sessions!Session, Store!Session,
     Sessions!AnswerKind, Store!AnswerKind, Sessions!Observation, Store!Observation
<1> QED BY IInvHolds, StoreSpec, <1>1, <1>2, <1>3, PTL

\* Whatever calls, cancellations and logouts come in between, the sessions that
\* the tools resolve keep all that the store promises.
THEOREM SessionsKeepPromises ==
  Spec => /\ []Sessions!TableMatchesCallers
          /\ Sessions!GrantsAreFresh
          /\ Sessions!NoEarlyRefusal
          /\ Sessions!ImplementsContract
<1>1. Sessions!Spec => /\ []Sessions!TableMatchesCallers
                       /\ Sessions!GrantsAreFresh
                       /\ Sessions!NoEarlyRefusal
                       /\ Sessions!ImplementsContract
  BY StoreAssumed, Sessions!TableAgrees, Sessions!Freshness, Sessions!NeverEarly,
     Sessions!Refinement, PTL
<1> QED BY <1>1, StoreSpec, PTL

-------------------------------------------------------------------------------
\* How many steps a call can still take; an answer to its last question is one.
Left(c) == CASE calls[c].phase = "new" -> MaxEnrich + 4
             [] calls[c].phase = "admitted" -> MaxEnrich + 3
             [] calls[c].phase = "waiting" -> MaxEnrich + 2 - calls[c].requests
             [] OTHER -> 0

Remains == \A c \in Call : /\ Left(c) \in 0 .. MaxEnrich + 4
                           /\ Left(c) = 0 <=> calls[c].phase \in {"done", "cancelled"}
RunsOut == \A c \in Call : /\ Left(c)' <= Left(c)
                           /\ Gate(c) \/ Serves(c) => Left(c)' < Left(c)

LEMMA LeftValue ==
  ASSUME IInv, NEW c \in Call
  PROVE  /\ Left(c) \in 0 .. MaxEnrich + 4
         /\ Left(c) = 0 <=> calls[c].phase \in {"done", "cancelled"}
<1>1. calls[c].phase \in Phase /\ calls[c].requests \in 0 .. 1 + MaxEnrich
  BY DEF IInv, TypeOK
<1> QED BY <1>1, CallsAssumption DEF Left, Phase, CallsAssumption

\* No call is kept busy for ever by the server: each step of the gate, of run()
\* or of a tool leaves the call fewer to take, and neither another call nor the
\* store nor the clock gives it more.  At most MaxEnrich + 4 steps lead from the
\* gate to the answer.
THEOREM CallsRunOut == Spec => []Remains /\ [][RunsOut]_vars
<1>1. IInv => Remains
  BY LeftValue DEF Remains
<1>2. ASSUME IInv, Remains, Remains', [Next]_vars PROVE RunsOut
  <2> SUFFICES ASSUME NEW c \in Call
               PROVE  /\ Left(c)' <= Left(c)
                      /\ Gate(c) \/ Serves(c) => Left(c)' < Left(c)
    BY DEF RunsOut
  <2> USE CallsAssumption DEF CallsAssumption
  <2>1. /\ calls \in [Call -> CallState]
        /\ calls[c].phase \in Phase /\ calls[c].requests \in 0 .. 1 + MaxEnrich
        /\ Left(c) \in 0 .. MaxEnrich + 4 /\ Left(c)' \in 0 .. MaxEnrich + 4
        /\ Left(c) = 0 <=> calls[c].phase \in {"done", "cancelled"}
        /\ Left(c)' = 0 <=> calls'[c].phase \in {"done", "cancelled"}
    BY <1>2 DEF IInv, TypeOK, CallState, Remains
  <2>2. calls'[c] = calls[c] => Left(c)' = Left(c)
    BY DEF Left
  <2>3. ASSUME NEW d \in Call, Gate(d)
        PROVE  IF d = c THEN Left(c)' < Left(c) ELSE Left(c)' = Left(c)
    <3>1. /\ d # c => calls'[c] = calls[c]
          /\ calls'[d].phase \in {"admitted", "done"}
      BY <2>1, <2>3 DEF Gate, GatePasses, GateRejects, Arrives
    <3>2. CASE d = c
      <4>1. calls[c].phase = "new" /\ calls'[c].phase \in {"admitted", "done"}
        BY <2>3, <3>1, <3>2 DEF Gate
      <4> QED BY <2>1, <3>2, <4>1 DEF Left
    <3> QED BY <2>2, <3>1, <3>2
  <2>4. ASSUME NEW d \in Call, Active(d),
               \/ \E result : Finish(d, result)
               \/ calls' = [calls EXCEPT ![d].phase = "cancelled"]
        PROVE  IF d = c THEN Left(c)' < Left(c) ELSE Left(c)' = Left(c)
    <3>1. CASE d = c
      <4>1. calls'[c].phase \in {"done", "cancelled"}
        BY <2>1, <2>4, <3>1 DEF Finish, CallState
      <4> QED BY <2>1, <2>4, <3>1, <4>1 DEF Active
    <3>2. d # c => calls'[c] = calls[c]
      BY <2>1, <2>4 DEF Finish
    <3> QED BY <2>2, <3>1, <3>2
  <2>5. ASSUME NEW d \in Call, RunSends(d) \/ Enrich(d)
        PROVE  IF d = c THEN Left(c)' < Left(c) ELSE Left(c)' = Left(c)
    <3>1. PICK auth : calls' = [calls EXCEPT ![d].phase = "waiting", ![d].auth = auth,
                                             ![d].requests = @ + 1]
      BY <2>5 DEF RunSends, Enrich, Send
    <3>2. CASE d = c
      <4>1. calls'[c].phase = "waiting" /\ calls'[c].requests = calls[c].requests + 1
        BY <2>1, <3>1, <3>2 DEF CallState
      <4>2. Left(c)' = MaxEnrich + 2 - (calls[c].requests + 1)
        BY <4>1 DEF Left
      <4>3. calls[c].phase = "admitted" \/ calls[c].phase = "waiting"
        BY <2>5, <3>2 DEF RunSends, Runs, Enrich, Awaits
      <4> QED BY <2>1, <3>2, <4>2, <4>3 DEF Left
    <3>3. d # c => calls'[c] = calls[c]
      BY <2>1, <3>1
    <3> QED BY <2>2, <3>2, <3>3
  <2>6. ASSUME NEW d \in Call, LoginStarts(d)
        PROVE  IF d = c THEN Left(c)' < Left(c) ELSE Left(c)' = Left(c)
    <3>1. CASE calls' = [calls EXCEPT ![d].phase = "waiting"]
      <4>1. CASE d = c
        <5>1. calls[c].phase = "admitted" /\ calls[c].requests = 0
          BY <1>2, <2>6, <4>1 DEF LoginStarts, IInv, CallOK
        <5>2. calls'[c].phase = "waiting" /\ calls'[c].requests = 0
          BY <2>1, <3>1, <4>1, <5>1 DEF CallState
        <5> QED BY <4>1, <5>1, <5>2 DEF Left
      <4>2. d # c => calls'[c] = calls[c]
        BY <2>1, <3>1
      <4> QED BY <2>2, <4>1, <4>2
    <3> QED BY <2>4, <2>6, <3>1 DEF LoginStarts, Active
  <2>7. ASSUME NEW d \in Call, Serves(d) \/ Cancel(d)
        PROVE  IF d = c THEN Left(c)' < Left(c) ELSE Left(c)' = Left(c)
    BY <2>4, <2>5, <2>6, <2>7
       DEF Serves, Run, RunRefused, RunNoSession, RunInvalid, RunLocal, Runs, Succeeds, IseFails,
           Awaits, LoginSucceeds, LoginFails, Logout, HealthCheck, Cancel, Active
  <2>8. Restart => Left(c)' = Left(c) \/ Left(c)' = 0
    <3> SUFFICES ASSUME Restart PROVE Left(c)' = Left(c) \/ Left(c)' = 0
      OBVIOUS
    <3>1. calls'[c] = calls[c] \/ calls'[c].phase = "cancelled"
      BY <2>1 DEF Restart, CallState
    <3> QED BY <2>1, <3>1 DEF Left
  <2>9. TokenLogin \/ ClockMoves \/ UNCHANGED vars => Left(c)' = Left(c)
    BY DEF TokenLogin, ClockMoves, vars, callVars, Left
  <2>10. \/ Left(c)' < Left(c) \/ Left(c)' = Left(c) \/ Left(c)' = 0
    BY <1>2, <2>3, <2>7, <2>8, <2>9 DEF Next
  <2> QED BY <2>1, <2>3, <2>7, <2>10
<1>3. IInv /\ Remains /\ Remains' /\ [Next]_vars => RunsOut
  BY <1>2
<1> QED BY IInvHolds, <1>1, <1>3, PTL DEF Spec
================================================================================
