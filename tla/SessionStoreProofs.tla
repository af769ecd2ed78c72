-------------------------- MODULE SessionStoreProofs --------------------------
(***************************************************************************)
(* The session store's properties for every set of ids and users, every    *)
(* TTL and idle timeout and any length of run: type correctness, agreement *)
(* of the table with its callers, the finality of a refusal, freshness of  *)
(* every grant, no early refusal, and the refinement of SessionContract.   *)
(***************************************************************************)
EXTENDS SessionStore, TLAPS

\* What is inductive: the types, the table's agreement with its callers, and
\* that the last grant was for an id that is still held.
IInv == TypeOK /\ TableMatchesCallers /\ GoneIsFinal

\* An id that its holder lost silently had run out when a purge took it.
LossIsExpiry == \A s \in Sid :
  observed[s].status = "held" /\ sessions[s] = None
    => observed[s].purged # Never /\ ~WithinLimitsAt(observed[s], observed[s].purged)

-------------------------------------------------------------------------------
\* The store's expiry test and the callers' view of the limits are the same
\* test for an entry that agrees with its callers.
LEMMA ExpiryAgrees ==
  ASSUME IInv, NEW s \in Sid, sessions[s] # None
  PROVE  IsExpired(sessions[s], now) <=> ~WithinLimits(observed[s])
<1>1. sessions[s] = [user |-> observed[s].user, created_at |-> observed[s].born,
                     last_used_at |-> observed[s].seen]
  BY DEF IInv, TableMatchesCallers
<1>2. observed[s].born \in Int /\ observed[s].seen \in Int /\ now \in Int
  BY DEF IInv, TypeOK, Observation
<1> QED
  BY <1>1, <1>2, StoreAssumption
     DEF IsExpired, WithinLimits, WithinLimitsAt, StoreAssumption

\* Every step is one of these.
LEMMA StepCases ==
  ASSUME [Next]_vars
  PROVE  \/ UNCHANGED storeVars
         \/ /\ UNCHANGED now
            /\ \/ \E s \in Sid, u \in User : Create(s, u)
               \/ \E s \in Sid : Grant(s) \/ Refuse(s) \/ Delete(s)
               \/ PurgeExpired
               \/ Restart
BY DEF Next, StoreCall, Get, vars, storeVars

LEMMA NowIsTyped == ASSUME TypeOK, [Next]_vars PROVE now' \in 0 .. MaxTime
<1>1. CASE UNCHANGED now
  BY <1>1 DEF TypeOK
<1>2. CASE Tick
  BY <1>2, StoreAssumption DEF Tick, TypeOK, StoreAssumption
<1>3. CASE ClockSetBack
  <2>1. PICK d \in 1 .. MaxStepBack : d <= now /\ now' = now - d
    BY <1>3 DEF ClockSetBack
  <2> QED BY <2>1, StoreAssumption DEF StoreAssumption, TypeOK
<1> QED
  BY <1>1, <1>2, <1>3 DEF Next, vars

LEMMA IInvInit == Init => IInv
BY StoreAssumption DEF StoreAssumption, Init, IInv, TypeOK, TableMatchesCallers, GoneIsFinal,
   Unborn, Never, Observation, NoAnswer, Told, AnswerKind

LEMMA IInvStep == ASSUME IInv, [Next]_vars PROVE IInv'
<1> USE DEF IInv
<1>0. now' \in 0 .. MaxTime
  BY NowIsTyped
<1>1. CASE UNCHANGED storeVars
  BY <1>0, <1>1 DEF storeVars, TypeOK, TableMatchesCallers, GoneIsFinal
<1>2. ASSUME NEW s \in Sid, NEW u \in User, Create(s, u) PROVE IInv'
  <2>1. [user |-> u, created_at |-> now, last_used_at |-> now] \in Session
    BY DEF Session, TypeOK
  <2>2. Held(u) \in Observation
    BY DEF Held, Never, Observation, TypeOK
  <2>3. TypeOK'
    BY <1>0, <1>2, <2>1, <2>2 DEF Create, TypeOK, Told, AnswerKind
  <2>4. TableMatchesCallers'
    BY <1>2 DEF Create, Held, TypeOK, TableMatchesCallers
  <2> QED
    BY <1>2, <2>3, <2>4 DEF Create, Held, GoneIsFinal, Told
<1>3. ASSUME NEW s \in Sid, Grant(s) PROVE IInv'
  <2>1. sessions[s] \in Session /\ observed[s] \in Observation /\ observed[s].status = "held"
    BY <1>3 DEF Grant, Usable, TypeOK, TableMatchesCallers
  <2>2. TypeOK'
    BY <1>0, <1>3, <2>1 DEF Grant, TypeOK, Told, AnswerKind, Session, Observation
  <2>3. TableMatchesCallers'
    <3> SUFFICES ASSUME NEW x \in Sid
                 PROVE  /\ sessions'[x] # None =>
                            /\ observed'[x].status = "held"
                            /\ sessions'[x] = [user |-> observed'[x].user,
                                               created_at |-> observed'[x].born,
                                               last_used_at |-> observed'[x].seen]
                        /\ observed'[x].status = "unborn" => observed'[x].user = None
      BY DEF TableMatchesCallers
    <3>1. CASE x = s
      <4>1. sessions'[s] = [sessions[s] EXCEPT !.last_used_at = now]
        BY <1>3 DEF Grant, TypeOK
      <4>2. observed'[s] = [observed[s] EXCEPT !.seen = now]
        BY <1>3 DEF Grant, TypeOK
      <4>3. sessions[s] = [user |-> observed[s].user, created_at |-> observed[s].born,
                           last_used_at |-> observed[s].seen]
        BY <1>3 DEF Grant, Usable, TableMatchesCallers
      <4> QED BY <2>1, <3>1, <4>1, <4>2, <4>3 DEF Observation
    <3>2. CASE x # s
      <4>1. sessions'[x] = sessions[x] /\ observed'[x] = observed[x]
        BY <1>3, <3>2 DEF Grant, TypeOK
      <4> QED BY <4>1 DEF TableMatchesCallers
    <3> QED BY <3>1, <3>2
  <2>4. GoneIsFinal'
    BY <1>3, <2>1 DEF Grant, TypeOK, GoneIsFinal, Told, Observation
  <2> QED BY <2>2, <2>3, <2>4
<1>4. ASSUME NEW s \in Sid,
             sessions' = [sessions EXCEPT ![s] = None],
             observed' = Gone({s}),
             answer'.kind # "granted",
             answer' \in [kind : AnswerKind, sid : Sid \cup {None}, user : User \cup {None}]
      PROVE IInv'
  <2>1. TypeOK'
    BY <1>0, <1>4 DEF TypeOK, Gone, Observation
  <2>2. TableMatchesCallers'
    BY <1>4 DEF TypeOK, TableMatchesCallers, Gone, Observation
  <2> QED BY <1>4, <2>1, <2>2 DEF GoneIsFinal
<1>5. ASSUME NEW s \in Sid, Refuse(s) PROVE IInv'
  BY <1>4, <1>5 DEF Refuse, Told, AnswerKind
<1>6. ASSUME NEW s \in Sid, Delete(s) PROVE IInv'
  BY <1>4, <1>6 DEF Delete, Told, AnswerKind
<1>7. ASSUME NEW S, Drop(S) PROVE IInv'
  <2>1. TypeOK'
    BY <1>0, <1>7 DEF Drop, TypeOK, Observation, NoAnswer, Told, AnswerKind
  <2>2. TableMatchesCallers'
    BY <1>7 DEF Drop, TypeOK, TableMatchesCallers, Observation
  <2> QED BY <1>7, <2>1, <2>2 DEF Drop, GoneIsFinal, NoAnswer, Told
<1>8. CASE Restart
  <2>1. TypeOK'
    BY <1>0, <1>8 DEF Restart, TypeOK, Gone, Observation, NoAnswer, Told, AnswerKind
  <2>2. TableMatchesCallers'
    BY <1>8 DEF Restart, TypeOK, TableMatchesCallers, Gone, Observation
  <2> QED BY <1>8, <2>1, <2>2 DEF Restart, GoneIsFinal, NoAnswer, Told
<1> QED
  BY <1>1, <1>2, <1>3, <1>5, <1>6, <1>7, <1>8, StepCases DEF PurgeExpired

\* The inductive invariant holds in every reachable state.
THEOREM IInvHolds == Spec => []IInv
<1>1. IInv /\ [Next]_vars => IInv'
  BY IInvStep
<1> QED BY IInvInit, <1>1, PTL DEF Spec

-------------------------------------------------------------------------------
\* Every variable of the store keeps its type.
THEOREM TypeCorrect == Spec => []TypeOK
<1>1. IInv => TypeOK
  BY DEF IInv
<1> QED BY IInvHolds, <1>1, PTL

\* The session table and what its callers were told never drift apart.
THEOREM TableAgrees == Spec => []TableMatchesCallers
<1>1. IInv => TableMatchesCallers
  BY DEF IInv
<1> QED BY IInvHolds, <1>1, PTL

\* An id reported gone is never accepted again, whatever the clock does.
THEOREM Finality == Spec => []GoneIsFinal
<1>1. IInv => GoneIsFinal
  BY DEF IInv
<1> QED BY IInvHolds, <1>1, PTL

-------------------------------------------------------------------------------
\* get() never accepts an id past its TTL or idle timeout, as measured by the
\* login and the uses its caller knows of, and never returns another identity.
THEOREM Freshness == Spec => GrantsAreFresh
<1>1. ASSUME IInv, [Next]_vars PROVE [FreshGrant]_<<answer, observed>>
  <2>1. CASE UNCHANGED storeVars
    BY <2>1 DEF storeVars
  <2>2. ASSUME NEW s \in Sid, Grant(s) PROVE FreshGrant
    <3>1. sessions[s] # None /\ ~IsExpired(sessions[s], now)
      BY <2>2 DEF Grant, Usable
    <3>2. WithinLimits(observed[s])
      BY <1>1, <3>1, ExpiryAgrees
    <3>3. sessions[s].user = observed[s].user
      <4>1. sessions[s] = [user |-> observed[s].user, created_at |-> observed[s].born,
                           last_used_at |-> observed[s].seen]
        BY <1>1, <3>1 DEF IInv, TableMatchesCallers
      <4> QED BY <4>1
    <3>4. answer'.sid = s /\ answer'.user = sessions[s].user
      BY <2>2 DEF Grant, Told
    <3> QED BY <3>2, <3>3, <3>4 DEF FreshGrant
  <2>3. ASSUME NEW s \in Sid, NEW u \in User, Create(s, u) PROVE FreshGrant
    BY <2>3 DEF Create, Told, FreshGrant
  <2>4. ASSUME NEW s \in Sid, Refuse(s) \/ Delete(s) PROVE FreshGrant
    BY <2>4 DEF Refuse, Delete, Told, FreshGrant
  <2>5. CASE PurgeExpired \/ Restart
    BY <2>5 DEF PurgeExpired, Drop, Restart, NoAnswer, Told, FreshGrant
  <2> QED
    BY <1>1, <2>1, <2>2, <2>3, <2>4, <2>5, StepCases
<1>2. IInv /\ [Next]_vars => [FreshGrant]_<<answer, observed>>
  BY <1>1
<1> QED BY IInvHolds, <1>2, PTL DEF Spec, GrantsAreFresh

LEMMA LossIsExpiryStep ==
  ASSUME IInv, LossIsExpiry, [Next]_vars
  PROVE  LossIsExpiry'
<1> USE DEF IInv
<1> SUFFICES ASSUME NEW x \in Sid, observed'[x].status = "held", sessions'[x] = None
             PROVE  /\ observed'[x].purged # Never
                    /\ ~WithinLimitsAt(observed'[x], observed'[x].purged)
  BY DEF LossIsExpiry, WithinLimitsAt
<1>1. now \in Int /\ observed[x] \in Observation
  BY DEF TypeOK
<1>2. CASE observed'[x] = observed[x] /\ sessions[x] = None
  BY <1>2 DEF LossIsExpiry
<1>3. CASE UNCHANGED storeVars
  BY <1>2, <1>3 DEF storeVars
<1>4. ASSUME NEW s \in Sid, NEW u \in User, Create(s, u)
      PROVE  observed'[x] = observed[x] /\ sessions[x] = None
  <2>1. [user |-> u, created_at |-> now, last_used_at |-> now] # None
    BY <1>1, NoneAssumption DEF Session
  <2>2. x # s
    BY <1>4, <2>1 DEF Create, TypeOK
  <2> QED BY <1>4, <2>2 DEF Create, TypeOK
<1>5. ASSUME NEW s \in Sid, Grant(s)
      PROVE  observed'[x] = observed[x] /\ sessions[x] = None
  <2>1. sessions[s] \in Session
    BY <1>5 DEF Grant, Usable, TypeOK
  <2>2. sessions'[s] = [sessions[s] EXCEPT !.last_used_at = now]
    BY <1>5 DEF Grant, TypeOK
  <2>3. sessions'[s] \in Session
    BY <1>1, <2>1, <2>2 DEF Session
  <2>4. x # s
    BY <2>3, NoneAssumption
  <2> QED BY <1>5, <2>4 DEF Grant, TypeOK
<1>6. ASSUME NEW s \in Sid, Refuse(s) \/ Delete(s)
      PROVE  observed'[x] = observed[x] /\ sessions[x] = None
  BY <1>1, <1>6 DEF Refuse, Delete, Gone, TypeOK, Observation
<1>7. CASE PurgeExpired
  <2>1. CASE sessions[x] # None
    <3>1. IsExpired(sessions[x], now)
      BY <1>7, <2>1 DEF PurgeExpired, Drop
    <3>2. ~WithinLimitsAt(observed[x], now)
      BY <2>1, <3>1, ExpiryAgrees DEF WithinLimits
    <3>3. observed'[x] = [observed[x] EXCEPT !.purged = now]
      BY <1>7, <2>1, <3>1 DEF PurgeExpired, Drop
    <3>4. /\ observed'[x].purged = now
          /\ observed'[x].born = observed[x].born
          /\ observed'[x].seen = observed[x].seen
      BY <1>1, <3>3 DEF Observation
    <3> QED BY <3>2, <3>4 DEF TypeOK, Never, WithinLimitsAt
  <2>2. CASE sessions[x] = None
    <3>1. observed'[x] = observed[x]
      BY <1>7, <2>2 DEF PurgeExpired, Drop
    <3> QED BY <1>2, <2>2, <3>1
  <2> QED BY <2>1, <2>2
<1>8. CASE Restart
  BY <1>8 DEF Restart, Gone, TypeOK, Observation
<1> QED
  BY <1>2, <1>3, <1>4, <1>5, <1>6, <1>7, <1>8, StepCases

\* No caller loses a session before its TTL or idle timeout has passed, now or
\* when it was purged, in whatever order purges, uses and clock corrections come.
THEOREM NeverEarly == Spec => NoEarlyRefusal
<1>1. Init => LossIsExpiry
  BY DEF Init, LossIsExpiry, Unborn
<1>2. LossIsExpiry /\ IInv /\ [Next]_vars => LossIsExpiry'
  BY LossIsExpiryStep
<1>3. ASSUME IInv, LossIsExpiry, [Next]_vars PROVE [TimelyRefusal]_<<answer, observed>>
  <2>1. CASE UNCHANGED storeVars
    BY <2>1 DEF storeVars
  <2>2. ASSUME NEW s \in Sid, Refuse(s) PROVE TimelyRefusal
    <3>1. answer'.sid = s
      BY <2>2 DEF Refuse, Told
    <3>2. CASE sessions[s] = None
      BY <1>3, <3>1, <3>2 DEF LossIsExpiry, TimelyRefusal
    <3>3. CASE sessions[s] # None
      BY <1>3, <2>2, <3>1, <3>3, ExpiryAgrees DEF Refuse, Usable, TimelyRefusal
    <3> QED BY <3>2, <3>3
  <2>3. ASSUME NEW s \in Sid, NEW u \in User, Create(s, u) PROVE TimelyRefusal
    BY <2>3 DEF Create, Told, TimelyRefusal
  <2>4. ASSUME NEW s \in Sid, Grant(s) \/ Delete(s) PROVE TimelyRefusal
    BY <2>4 DEF Grant, Delete, Told, TimelyRefusal
  <2>5. CASE PurgeExpired \/ Restart
    BY <2>5 DEF PurgeExpired, Drop, Restart, NoAnswer, Told, TimelyRefusal
  <2> QED
    BY <1>3, <2>1, <2>2, <2>3, <2>4, <2>5, StepCases
<1>4. IInv /\ LossIsExpiry /\ [Next]_vars => [TimelyRefusal]_<<answer, observed>>
  BY <1>3
<1> QED BY IInvHolds, <1>1, <1>2, <1>4, PTL DEF Spec, NoEarlyRefusal

-------------------------------------------------------------------------------
\* The store implements SessionContract: each of its steps is a step of the
\* contract, or changes nothing the contract speaks of.
THEOREM Refinement == Spec => ImplementsContract
<1>1. Init => Contract!Init
  BY DEF Init, Unborn, NoAnswer, Told, Status, Contract!Init, Contract!Told
<1>2. ASSUME IInv, [Next]_vars PROVE [Contract!Next]_Contract!contractVars
  <2> DEFINE Statuses == [s \in Sid |-> Status(s)]
             Owners == [s \in Sid |-> observed[s].user]
  <2> USE <1>2 DEF IInv
  <2>1. CASE UNCHANGED storeVars
    BY <2>1 DEF storeVars, Status, Contract!contractVars
  <2>2. ASSUME NEW s \in Sid, NEW u \in User, Create(s, u) PROVE Contract!Issue(s, u)
    <3>1. [user |-> u, created_at |-> now, last_used_at |-> now] # None
      BY NoneAssumption DEF TypeOK, Session
    <3>2. Statuses[s] = "unborn"
      BY <2>2 DEF Create, Status
    <3>3. Statuses' = [Statuses EXCEPT ![s] = "live"]
      BY <2>2, <3>1 DEF Create, Held, Status, TypeOK
    <3>4. Owners' = [Owners EXCEPT ![s] = u]
      BY <2>2 DEF Create, Held, TypeOK
    <3> QED
      BY <2>2, <3>2, <3>3, <3>4 DEF Create, Told, Contract!Issue, Contract!Told
  <2>3. ASSUME NEW s \in Sid, Grant(s) PROVE Contract!Grant(s)
    <3>1. /\ sessions[s] # None
          /\ observed[s].status = "held"
          /\ sessions[s].user = observed[s].user
          /\ sessions[s] \in Session
      BY <2>3 DEF Grant, Usable, TypeOK, TableMatchesCallers
    <3>2. sessions'[s] = [sessions[s] EXCEPT !.last_used_at = now]
      BY <2>3 DEF Grant, TypeOK
    <3>3. sessions'[s] # None
      BY <3>1, <3>2, NoneAssumption DEF Session, TypeOK
    <3>4. Statuses[s] = "live"
      BY <3>1 DEF Status
    <3>5. Statuses' = Statuses
      BY <2>3, <3>1, <3>3 DEF Grant, Status, TypeOK, Observation
    <3>6. Owners' = Owners
      BY <2>3 DEF Grant, TypeOK, Observation
    <3> QED
      BY <2>3, <3>1, <3>4, <3>5, <3>6 DEF Grant, Told, Contract!Grant, Contract!Told
  <2>4. ASSUME NEW s \in Sid, Refuse(s) PROVE Contract!Refuse(s)
    <3>1. Statuses' = Contract!Kill({s})
      BY <2>4 DEF Refuse, Gone, Status, TypeOK, Observation, Contract!Kill
    <3>2. Owners' = Owners
      BY <2>4 DEF Refuse, Gone, TypeOK, Observation
    <3> QED
      BY <2>4, <3>1, <3>2 DEF Refuse, Told, Contract!Refuse, Contract!Told
  <2>5. ASSUME NEW s \in Sid, Delete(s) PROVE Contract!Revoke(s)
    <3>1. Statuses' = Contract!Kill({s})
      BY <2>5 DEF Delete, Gone, Status, TypeOK, Observation, Contract!Kill
    <3>2. Owners' = Owners
      BY <2>5 DEF Delete, Gone, TypeOK, Observation
    <3>3. Statuses[s] = "live" <=> sessions[s] # None
      BY DEF Status, TableMatchesCallers
    <3> QED
      BY <2>5, <3>1, <3>2, <3>3 DEF Delete, Told, Contract!Revoke, Contract!Told
  <2>6. CASE PurgeExpired
    <3> DEFINE S == {s \in Sid : sessions[s] # None /\ IsExpired(sessions[s], now)}
    <3>1. /\ sessions' = [s \in Sid |-> IF s \in S THEN None ELSE sessions[s]]
          /\ observed' = [s \in Sid |-> IF s \in S THEN [observed[s] EXCEPT !.purged = now]
                                                  ELSE observed[s]]
          /\ answer' = NoAnswer
      BY <2>6 DEF PurgeExpired, Drop
    <3> HIDE DEF S
    <3>2. \A s \in Sid : observed'[s].status = observed[s].status
                       /\ observed'[s].user = observed[s].user
      BY <3>1 DEF TypeOK, Observation
    <3>3. \A s \in S \cap Sid : sessions[s] # None
      BY DEF S
    <3>4. Statuses' = Contract!Kill(S)
      BY <3>1, <3>2, <3>3 DEF Status, TableMatchesCallers, Contract!Kill
    <3>5. Owners' = Owners
      BY <3>2
    <3>6. S \in SUBSET Sid
      BY DEF S
    <3> QED
      BY <3>1, <3>4, <3>5, <3>6 DEF NoAnswer, Told, Contract!Told, Contract!Next, Contract!Lapse
  <2>7. CASE Restart
    <3>1. Statuses' = Contract!Kill(Sid)
      BY <2>7 DEF Restart, Gone, Status, TypeOK, Observation, Contract!Kill
    <3>2. Owners' = Owners
      BY <2>7 DEF Restart, Gone, TypeOK, Observation
    <3>3. answer' = Contract!Told("none", None, None)
      BY <2>7 DEF Restart, NoAnswer, Told, Contract!Told
    <3> QED
      BY <3>1, <3>2, <3>3 DEF Contract!Next, Contract!Lapse
  <2> QED
    BY <2>1, <2>2, <2>3, <2>4, <2>5, <2>6, <2>7, StepCases DEF Contract!Next
<1>3. IInv /\ [Next]_vars => [Contract!Next]_Contract!contractVars
  BY <1>2
<1> QED
  BY IInvHolds, <1>1, <1>3, PTL DEF Spec, ImplementsContract, Contract!Spec
===============================================================================
