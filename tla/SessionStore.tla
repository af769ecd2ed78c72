----------------------------- MODULE SessionStore -----------------------------
(***************************************************************************)
(* The in-memory MCP session store (auth/session_store.py).  Every method  *)
(* reads the wall clock once and touches the table under one lock without  *)
(* awaiting, so each is one step; the clock moves between steps.  The      *)
(* clock is time.time(), which an administrator or NTP may set back.       *)
(***************************************************************************)
EXTENDS Integers

CONSTANTS Sid,          \* ids secrets.token_urlsafe(32) can return, never twice
          User,         \* ISE identities (AuthContext of a login)
          None,         \* Python's None
          Ttl,          \* ISE_SESSION_TTL_SECONDS, 0 switches it off
          Idle,         \* ISE_SESSION_IDLE_TIMEOUT_SECONDS, 0 switches it off
          MaxTime,      \* bound of the model: the last clock reading
          MaxStepBack   \* bound of the model: how far one clock correction goes

ASSUME StoreAssumption == /\ Ttl \in Int
                          /\ Idle \in Int
                          /\ MaxTime \in Nat
                          /\ MaxStepBack \in Nat

VARIABLES now,          \* the clock
          sessions,     \* _sessions: Session or None for every id
          answer,       \* what the last call returned to its caller
          observed      \* history: what callers know about every id

storeVars == <<sessions, answer, observed>>
vars == <<now, storeVars>>

-------------------------------------------------------------------------------
Session == [user : User, created_at : Int, last_used_at : Int]

ASSUME NoneAssumption == None \notin Session

AnswerKind == {"none", "created", "granted", "refused", "deleted", "absent"}
Told(kind, s, u) == [kind |-> kind, sid |-> s, user |-> u]
NoAnswer == Told("none", None, None)

\* A caller knows of an id that it was never issued, that it is held, or that
\* it is gone (refused, logged out, or the server restarted); who logged in,
\* when, and when the id was last accepted.  What they do not know is kept next
\* to it: when a purge dropped the entry.
Never == -1
Observation == [status : {"unborn", "held", "gone"}, user : User \cup {None},
                born : Int, seen : Int, purged : Int]
Unborn == [status |-> "unborn", user |-> None, born |-> 0, seen |-> 0,
           purged |-> Never]
Held(u) == [status |-> "held", user |-> u, born |-> now, seen |-> now,
            purged |-> Never]

TypeOK == /\ now \in 0 .. MaxTime
          /\ sessions \in [Sid -> Session \cup {None}]
          /\ answer \in [kind : AnswerKind, sid : Sid \cup {None},
                         user : User \cup {None}]
          /\ observed \in [Sid -> Observation]

Init == /\ now = 0
        /\ sessions = [s \in Sid |-> None]
        /\ answer = NoAnswer
        /\ observed = [s \in Sid |-> Unborn]

-------------------------------------------------------------------------------
MutIsExpiredEager(sess, t) == \/ Ttl # 0 /\ t - sess.created_at > Ttl
                              \/ Idle # 0 /\ t - sess.last_used_at >= Idle

IsExpired(sess, t) == \/ Ttl # 0 /\ t - sess.created_at > Ttl
                      \/ Idle # 0 /\ t - sess.last_used_at > Idle

Usable(s) == sessions[s] # None /\ ~IsExpired(sessions[s], now)

\* After an answer that says so, the callers of s know that it is gone.
Gone(S) == [s \in Sid |-> IF s \in S /\ observed[s].status # "unborn"
                            THEN [observed[s] EXCEPT !.status = "gone"]
                            ELSE observed[s]]

MutCreateWithoutUser(s, u) ==
  /\ observed[s].status = "unborn"
  /\ sessions' = [sessions EXCEPT
                    ![s] = [user |-> None, created_at |-> now, last_used_at |-> now]]
  /\ answer' = Told("created", s, u)
  /\ observed' = [observed EXCEPT ![s] = Held(u)]

\* create(): a fresh id for a login that ISE accepted.
Create(s, u) ==
  /\ observed[s].status = "unborn"
  /\ sessions' = [sessions EXCEPT
                    ![s] = [user |-> u, created_at |-> now, last_used_at |-> now]]
  /\ answer' = Told("created", s, u)
  /\ observed' = [observed EXCEPT ![s] = Held(u)]

MutGrantRenewsTtl(s) ==
  /\ Usable(s)
  /\ sessions' = [sessions EXCEPT ![s].created_at = now, ![s].last_used_at = now]
  /\ answer' = Told("granted", s, sessions[s].user)
  /\ observed' = [observed EXCEPT ![s].seen = now]

MutGrantForgetsUse(s) ==
  /\ Usable(s)
  /\ answer' = Told("granted", s, sessions[s].user)
  /\ observed' = [observed EXCEPT ![s].seen = now]
  /\ UNCHANGED sessions

\* get() of a usable session: the use is recorded and the session returned.
Grant(s) ==
  /\ Usable(s)
  /\ sessions' = [sessions EXCEPT ![s].last_used_at = now]
  /\ answer' = Told("granted", s, sessions[s].user)
  /\ observed' = [observed EXCEPT ![s].seen = now]

\* get() of an unknown id, or of an expired session, which is then dropped.
Refuse(s) ==
  /\ ~Usable(s)
  /\ sessions' = [sessions EXCEPT ![s] = None]
  /\ answer' = Told("refused", s, None)
  /\ observed' = Gone({s})

Get(s) == Grant(s) \/ Refuse(s)

MutDeleteExpiredOnly(s) ==
  /\ sessions' = [sessions EXCEPT ![s] = IF Usable(s) THEN @ ELSE None]
  /\ answer' = Told(IF sessions[s] # None THEN "deleted" ELSE "absent", s, None)
  /\ observed' = Gone({s})

\* delete(): reports whether an entry was there, expired or not.
Delete(s) ==
  /\ sessions' = [sessions EXCEPT ![s] = None]
  /\ answer' = Told(IF sessions[s] # None THEN "deleted" ELSE "absent", s, None)
  /\ observed' = Gone({s})

\* The entries in S leave the table; no caller of a session is told.
Drop(S) ==
  /\ sessions' = [s \in Sid |-> IF s \in S THEN None ELSE sessions[s]]
  /\ observed' = [s \in Sid |-> IF s \in S THEN [observed[s] EXCEPT !.purged = now]
                                          ELSE observed[s]]
  /\ answer' = NoAnswer

MutPurgeIdleAtLimit ==
  Drop({s \in Sid : sessions[s] # None /\ MutIsExpiredEager(sessions[s], now)})

\* purge_expired()
PurgeExpired ==
  Drop({s \in Sid : sessions[s] # None /\ IsExpired(sessions[s], now)})

\* The process restarts: the table is memory-only.
Restart == /\ sessions' = [s \in Sid |-> None]
           /\ answer' = NoAnswer
           /\ observed' = Gone(Sid)

Tick == /\ now < MaxTime
        /\ now' = now + 1

ClockSetBack == \E d \in 1 .. MaxStepBack : /\ d <= now
                                            /\ now' = now - d

-------------------------------------------------------------------------------
StoreCall == \/ \E s \in Sid, u \in User : Create(s, u)
             \/ \E s \in Sid : Get(s) \/ Delete(s)
             \/ PurgeExpired
             \/ Restart

Next == \/ StoreCall /\ UNCHANGED now
        \/ (Tick \/ ClockSetBack) /\ UNCHANGED storeVars

Spec == Init /\ [][Next]_vars

-------------------------------------------------------------------------------
\* From the callers' side: the login and the last accepted use are recent enough.
WithinLimitsAt(o, t) == /\ Ttl # 0 => t - o.born <= Ttl
                        /\ Idle # 0 => t - o.seen <= Idle
WithinLimits(o) == WithinLimitsAt(o, now)

\* The table and the callers agree: an entry belongs to an id that is held, and
\* records the identity, the login time and the last use its holder knows of.
\* No call, in any order and under any clock, lets the two drift apart.
TableMatchesCallers ==
  \A s \in Sid :
    LET o == observed[s]
    IN  /\ sessions[s] # None =>
             /\ o.status = "held"
             /\ sessions[s] = [user |-> o.user, created_at |-> o.born,
                               last_used_at |-> o.seen]
        /\ o.status = "unborn" => o.user = None

\* Once a caller has been told that a session is gone (it expired, was logged
\* out, or the server restarted) the id is never accepted again, even when the
\* wall clock is set back to a time at which the session had not expired.
GoneIsFinal ==
  answer.kind = "granted" => observed[answer.sid].status = "held"

\* get() accepts an id only within the absolute TTL of its login, however often
\* it was used since, and within the idle timeout of the previous accepted use,
\* and returns the identity that logged in.
FreshGrant ==
  answer'.kind = "granted" =>
    /\ WithinLimits(observed[answer'.sid])
    /\ answer'.user = observed[answer'.sid].user
GrantsAreFresh == [][FreshGrant]_<<answer, observed>>

\* The converse: get() turns away an id that its caller still holds only when
\* the TTL has passed since login or the idle timeout since the last accepted
\* use, now or when a purge dropped the entry: purging, in any order with uses
\* and clock corrections, costs no caller a session that was usable then.
TimelyRefusal ==
  answer'.kind = "refused" /\ observed[answer'.sid].status = "held"
    => LET o == observed[answer'.sid]
       IN  \/ ~WithinLimits(o)
           \/ o.purged # Never /\ ~WithinLimitsAt(o, o.purged)
NoEarlyRefusal == [][TimelyRefusal]_<<answer, observed>>

-------------------------------------------------------------------------------
\* Refinement: a session is live as long as its entry is in the table.
Status(s) == IF observed[s].status = "unborn" THEN "unborn"
             ELSE IF sessions[s] # None THEN "live" ELSE "dead"

Contract == INSTANCE SessionContract
              WITH status <- [s \in Sid |-> Status(s)],
                   owner <- [s \in Sid |-> observed[s].user]

\* The store implements the clock-free contract: ids are never reassigned, the
\* end of a session is final, every identity given out is the owner's.
ImplementsContract == Contract!Spec
===============================================================================
