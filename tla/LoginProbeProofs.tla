--------------------------- MODULE LoginProbeProofs ---------------------------
(***************************************************************************)
(* What a passthrough login may conclude from its probes, for any number   *)
(* of probes, of accounts and of overlapping logins, and any session       *)
(* limits: it fails closed, every session was probed for, and the verdict  *)
(* it returns has its cause at ISE.                                        *)
(***************************************************************************)
EXTENDS LoginProbe, TLAPS

-------------------------------------------------------------------------------
\* One login by itself.  While it probes, every answer it went on from is
\* counted, and the answer it has not judged yet is the only one that could
\* have been a refusal or a failure; once it has ended, the counts explain how.
Sound(L) ==
  /\ L.phase = "new" => L = NewLogin
  /\ L.inbox # "none" => L.phase = "probing"
  /\ L.phase = "probing" =>
       /\ L.cred \in Credential
       /\ L.result = "none"
       /\ L.passed < Probes
       /\ L.right + L.unchecked = L.passed + (IF L.inbox \in Passes THEN 1 ELSE 0)
       /\ L.wrong = (IF L.inbox = "401" THEN 1 ELSE 0)
       /\ L.trouble = (IF L.inbox = "error" THEN 1 ELSE 0)
  /\ L.result = "session" => /\ L.phase = "done"
                             /\ L.right + L.unchecked = Probes
                             /\ L.wrong = 0 /\ L.trouble = 0
  /\ L.session # None => L.result = "session"
  /\ L.result = "invalid" => L.wrong > 0
  /\ L.result = "failed" => L.trouble > 0

ObservedOK == now \in Int /\ observed \in [Sid -> Store!Observation]

IInv == /\ TypeOK
        /\ ObservedOK
        /\ \A l \in Login : Sound(login[l])
        /\ SessionsWereProbed

-------------------------------------------------------------------------------
LEMMA IInvInit == Init => IInv
<1> SUFFICES ASSUME Init PROVE IInv
  OBVIOUS
<1>1. NewLogin \in LoginState
  BY ProbeAssumption DEF NewLogin, LoginState, ProbeAssumption, Result
<1>2. TypeOK
  BY <1>1 DEF Init, TypeOK
<1>3. ObservedOK /\ SessionsWereProbed
  BY DEF Init, Store!Init, ObservedOK, SessionsWereProbed, Store!Unborn, Store!Never,
         Store!Observation
<1>4. Sound(NewLogin)
  BY DEF Sound, NewLogin
<1> QED BY <1>2, <1>3, <1>4 DEF Init, IInv

\* One login takes a step to a sound state of its own and the store rests.
LEMMA LoginStep ==
  ASSUME IInv, NEW l \in Login, NEW new \in LoginState, Sound(new),
         login' = [login EXCEPT ![l] = new],
         login[l].phase # "done",
         UNCHANGED <<now, storeVars, password>>
  PROVE  IInv'
<1>1. TypeOK' /\ ObservedOK'
  BY DEF IInv, TypeOK, ObservedOK, storeVars
<1>2. \A k \in Login : Sound(login'[k])
  BY DEF IInv, TypeOK
<1>3. SessionsWereProbed'
  <2> SUFFICES ASSUME NEW s \in Sid, observed[s].status # "unborn"
               PROVE  \E k \in Login : /\ login'[k].session = s
                                       /\ login'[k].result = "session"
                                       /\ observed[s].user = login'[k].cred
    BY DEF SessionsWereProbed, storeVars
  <2>1. PICK k \in Login : /\ login[k].session = s
                           /\ login[k].result = "session"
                           /\ observed[s].user = login[k].cred
    BY DEF IInv, SessionsWereProbed
  <2>2. k # l
    BY <2>1 DEF IInv, Sound
  <2> QED BY <2>1, <2>2 DEF IInv, TypeOK
<1> QED BY <1>1, <1>2, <1>3 DEF IInv

LEMMA BeginStep ==
  ASSUME IInv, NEW l \in Login, NEW cred \in Credential \cup {Empty}, Begin(l, cred)
  PROVE  IInv'
<1>1. login[l] = NewLogin
  BY DEF Begin, IInv, Sound
<1>2. CASE cred = Empty
  <2> DEFINE new == [phase |-> "done", cred |-> Empty, inbox |-> "none", passed |-> 0,
                     result |-> "missing", session |-> None,
                     right |-> 0, wrong |-> 0, unchecked |-> 0, trouble |-> 0]
  <2>1. new \in LoginState
    BY ProbeAssumption DEF LoginState, ProbeAssumption, Result
  <2>2. Sound(new)
    BY DEF Sound
  <2>3. login' = [login EXCEPT ![l] = new]
    BY <1>1, <1>2 DEF Begin, IInv, TypeOK, NewLogin
  <2> HIDE DEF new
  <2> QED BY <1>1, <2>1, <2>2, <2>3, LoginStep DEF Begin, NewLogin
<1>3. CASE cred \in Credential
  <2> DEFINE new == [phase |-> "probing", cred |-> cred, inbox |-> "none", passed |-> 0,
                     result |-> "none", session |-> None,
                     right |-> 0, wrong |-> 0, unchecked |-> 0, trouble |-> 0]
  <2>1. new \in LoginState
    BY <1>3, ProbeAssumption DEF LoginState, ProbeAssumption, Result
  <2>2. Sound(new)
    BY <1>3, ProbeAssumption DEF Sound, ProbeAssumption, Passes
  <2>3. login' = [login EXCEPT ![l] = new]
    BY <1>1, <1>3, EmptyAssumption DEF Begin, IInv, TypeOK, NewLogin, EmptyAssumption
  <2> HIDE DEF new
  <2> QED BY <1>1, <2>1, <2>2, <2>3, LoginStep DEF Begin, NewLogin
<1> QED BY <1>2, <1>3

\* A login that probes, as a record: a probe is out, or its answer waits.
Probe(cred, inbox, passed, right, wrong, unchecked, trouble) ==
  [phase |-> "probing", cred |-> cred, inbox |-> inbox, passed |-> passed,
   result |-> "none", session |-> None, right |-> right, wrong |-> wrong,
   unchecked |-> unchecked, trouble |-> trouble]

LEMMA ProbingState ==
  ASSUME IInv, NEW l \in Login, login[l].phase = "probing"
  PROVE  /\ login[l] \in LoginState /\ Sound(login[l])
         /\ login[l] = Probe(login[l].cred, login[l].inbox, login[l].passed, login[l].right,
                             login[l].wrong, login[l].unchecked, login[l].trouble)
         /\ login[l].passed \in 0 .. Probes - 1
         /\ login[l].right \in Nat /\ login[l].unchecked \in Nat
<1>1. login[l] \in LoginState /\ Sound(login[l])
  BY DEF IInv, TypeOK
<1>2. login[l].result = "none" /\ login[l].session = None
  BY <1>1 DEF Sound
<1> QED BY <1>1, <1>2, ProbeAssumption DEF LoginState, Probe, Sound, ProbeAssumption

\* An answer arrives.
LEMMA AnswerStep == ASSUME IInv, NEW l \in Login, Answer(l) PROVE IInv'
<1> DEFINE L == login[l]
<1>1. L.phase = "probing" /\ L.inbox = "none"
  BY DEF Answer, Probing
<1>2. /\ L \in LoginState /\ Sound(L) /\ L.passed \in 0 .. Probes - 1
      /\ L = Probe(L.cred, "none", L.passed, L.right, 0, L.unchecked, 0)
      /\ L.right \in Nat /\ L.unchecked \in Nat /\ L.right + L.unchecked = L.passed
      /\ L.cred \in Credential
  BY <1>1, ProbingState DEF Sound, Passes
<1>3. ASSUME NEW inbox \in Status, NEW right \in {0, 1}, NEW unchecked \in {0, 1},
             right + unchecked = IF inbox \in Passes THEN 1 ELSE 0,
             login' = [login EXCEPT ![l] =
               Probe(L.cred, inbox, L.passed, L.right + right, IF inbox = "401" THEN 1 ELSE 0,
                     L.unchecked + unchecked, IF inbox = "error" THEN 1 ELSE 0)]
      PROVE  IInv'
  <2> DEFINE new == Probe(L.cred, inbox, L.passed, L.right + right,
                          IF inbox = "401" THEN 1 ELSE 0,
                          L.unchecked + unchecked, IF inbox = "error" THEN 1 ELSE 0)
  <2>1. new \in LoginState
    BY <1>2, <1>3, ProbeAssumption DEF Probe, LoginState, ProbeAssumption, Result, Passes
  <2>2. Sound(new)
    BY <1>2, <1>3, ProbeAssumption DEF Probe, Sound, ProbeAssumption, Passes
  <2>3. UNCHANGED <<now, storeVars, password>>
    BY DEF Answer
  <2> HIDE DEF new
  <2> QED BY <1>1, <1>3, <2>1, <2>2, <2>3, LoginStep DEF new
<1>4. CASE Checked(l)
  <2> DEFINE matches == password[L.cred[1]] = L.cred[2]
  <2>1. CASE matches
    <3>1. login' = [login EXCEPT ![l] =
                     Probe(L.cred, "2xx", L.passed, L.right + 1, 0, L.unchecked + 0, 0)]
      BY <1>2, <1>4, <2>1 DEF Checked, Probe, LoginState, IInv, TypeOK
    <3> QED BY <1>3, <3>1 DEF Status, Passes
  <2>2. CASE ~matches
    <3>1. login' = [login EXCEPT ![l] =
                     Probe(L.cred, "401", L.passed, L.right + 0, 1, L.unchecked + 0, 0)]
      BY <1>2, <1>4, <2>2 DEF Checked, Probe, LoginState, IInv, TypeOK
    <3> QED BY <1>3, <3>1 DEF Status, Passes
  <2> QED BY <2>1, <2>2
<1>5. CASE Unchecked(l)
  <2>1. ASSUME NEW status \in {"2xx", "3xx"},
               login' = [login EXCEPT ![l].inbox = status, ![l].unchecked = @ + 1]
        PROVE  IInv'
    <3>1. login' = [login EXCEPT ![l] =
                     Probe(L.cred, status, L.passed, L.right + 0,
                           IF status = "401" THEN 1 ELSE 0, L.unchecked + 1,
                           IF status = "error" THEN 1 ELSE 0)]
      BY <1>2, <2>1 DEF Probe, LoginState, IInv, TypeOK
    <3>2. /\ status \in Status /\ 0 \in {0, 1} /\ 1 \in {0, 1}
          /\ 0 + 1 = IF status \in Passes THEN 1 ELSE 0
      BY DEF Status, Passes
    <3> QED BY <1>3, <3>1, <3>2
  <2> QED BY <1>5, <2>1 DEF Unchecked
<1>6. CASE Troubled(l)
  <2>1. login' = [login EXCEPT ![l] =
                     Probe(L.cred, "error", L.passed, L.right + 0, 0, L.unchecked + 0, 1)]
    BY <1>2, <1>6 DEF Troubled, Probe, LoginState, IInv, TypeOK
  <2> QED BY <1>3, <2>1 DEF Status, Passes
<1> QED BY <1>4, <1>5, <1>6 DEF Answer

\* The login goes on, or ends without a session.
LEMMA JudgeStep ==
  ASSUME IInv, NEW l \in Login,
         TransportError(l) \/ Refused(l) \/ NextProbe(l) \/ Cancel(l)
  PROVE  IInv'
<1> DEFINE L == login[l]
<1>1. L.phase = "probing" /\ UNCHANGED <<now, storeVars, password>>
  BY DEF TransportError, Refused, NextProbe, Cancel, Probing, Judgeable
<1>2. /\ L \in LoginState /\ Sound(L) /\ L.passed \in 0 .. Probes - 1
      /\ L = Probe(L.cred, L.inbox, L.passed, L.right, L.wrong, L.unchecked, L.trouble)
  BY <1>1, ProbingState
<1>3. ASSUME NEW result \in {"none", "invalid", "failed"}, NEW trouble \in 0 .. Probes,
             NEW phase \in {"done", "cancelled"},
             result = "invalid" => L.wrong > 0,
             result = "failed" => trouble > 0,
             login' = [login EXCEPT ![l] =
               [phase |-> phase, cred |-> L.cred, inbox |-> "none", passed |-> L.passed,
                result |-> result, session |-> None, right |-> L.right,
                wrong |-> L.wrong, unchecked |-> L.unchecked, trouble |-> trouble]]
      PROVE  IInv'
  <2> DEFINE new ==
               [phase |-> phase, cred |-> L.cred, inbox |-> "none", passed |-> L.passed,
                result |-> result, session |-> None, right |-> L.right,
                wrong |-> L.wrong, unchecked |-> L.unchecked, trouble |-> trouble]
  <2>1. new \in LoginState /\ Sound(new)
    BY <1>2, <1>3 DEF LoginState, Sound, Result
  <2> HIDE DEF new
  <2> QED BY <1>1, <1>3, <2>1, LoginStep DEF new
<1>4. CASE TransportError(l)
  <2>1. L.trouble = 0 /\ L.inbox = "none"
    BY <1>1, <1>2, <1>4 DEF Sound, TransportError, Probing
  <2>2. login' = [login EXCEPT ![l] =
               [phase |-> "done", cred |-> L.cred, inbox |-> "none", passed |-> L.passed,
                result |-> "failed", session |-> None, right |-> L.right,
                wrong |-> L.wrong, unchecked |-> L.unchecked, trouble |-> 1]]
    BY <1>2, <1>4, <2>1 DEF TransportError, Probe, LoginState, IInv, TypeOK
  <2>3. /\ 1 \in 0 .. Probes /\ 1 > 0
        /\ "done" \in {"done", "cancelled"} /\ "failed" # "invalid"
        /\ "failed" \in {"none", "invalid", "failed"}
    BY ProbeAssumption DEF ProbeAssumption
  <2> QED BY <1>3, <2>2, <2>3
<1>5. CASE Refused(l)
  <2> DEFINE verdict == IF L.inbox = "401" THEN "invalid" ELSE "failed"
  <2>1. login' = [login EXCEPT ![l] =
               [phase |-> "done", cred |-> L.cred, inbox |-> "none", passed |-> L.passed,
                result |-> verdict, session |-> None, right |-> L.right,
                wrong |-> L.wrong, unchecked |-> L.unchecked, trouble |-> L.trouble]]
    BY <1>2, <1>5 DEF Refused, End, Probe, LoginState, IInv, TypeOK
  <2>2. L.inbox \in {"401", "error"}
    BY <1>2, <1>5 DEF Refused, Judgeable, Passes, LoginState, Status
  <2>3. /\ verdict \in {"none", "invalid", "failed"}
        /\ verdict = "invalid" => L.wrong > 0
        /\ verdict = "failed" => L.trouble > 0
        /\ L.trouble \in 0 .. Probes
    BY <1>1, <1>2, <2>2, ProbeAssumption DEF Sound, ProbeAssumption
  <2> QED BY <1>3, <2>1, <2>3
<1>6. CASE NextProbe(l)
  <2> DEFINE new == Probe(L.cred, "none", L.passed + 1, L.right, L.wrong, L.unchecked,
                          L.trouble)
  <2>1. login' = [login EXCEPT ![l] = new]
    BY <1>2, <1>6 DEF NextProbe, Probe, LoginState, IInv, TypeOK
  <2>2. new \in LoginState /\ Sound(new)
    BY <1>1, <1>2, <1>6, ProbeAssumption
       DEF NextProbe, Judgeable, Passes, Probe, LoginState, Sound, ProbeAssumption
  <2> HIDE DEF new
  <2> QED BY <1>1, <2>1, <2>2, LoginStep
<1>7. CASE Cancel(l)
  <2>1. login' = [login EXCEPT ![l] =
               [phase |-> "cancelled", cred |-> L.cred, inbox |-> "none",
                passed |-> L.passed, result |-> "none", session |-> None,
                right |-> L.right, wrong |-> L.wrong, unchecked |-> L.unchecked,
                trouble |-> L.trouble]]
    <3>1. L.result = "none" /\ L.session = None
      BY <1>2 DEF Probe
    <3>2. login' = [login EXCEPT ![l].phase = "cancelled", ![l].inbox = "none"]
      BY <1>7 DEF Cancel
    <3>3. login \in [Login -> LoginState]
      BY DEF IInv, TypeOK
    <3>6. login'[l] \in LoginState
      BY <1>2, <3>2, <3>3 DEF LoginState
    <3>7. /\ login'[l].phase = "cancelled" /\ login'[l].inbox = "none"
          /\ login'[l].cred = L.cred /\ login'[l].passed = L.passed
          /\ login'[l].result = L.result /\ login'[l].session = L.session
          /\ login'[l].right = L.right /\ login'[l].wrong = L.wrong
          /\ login'[l].unchecked = L.unchecked /\ login'[l].trouble = L.trouble
      BY <1>2, <3>2, <3>3 DEF LoginState
    <3>4. login'[l] = [phase |-> "cancelled", cred |-> L.cred, inbox |-> "none",
                       passed |-> L.passed, result |-> "none", session |-> None,
                       right |-> L.right, wrong |-> L.wrong, unchecked |-> L.unchecked,
                       trouble |-> L.trouble]
      BY <3>1, <3>6, <3>7 DEF LoginState
    <3>5. login' = [login EXCEPT ![l] = login'[l]]
      BY <3>2, <3>3
    <3> QED BY <3>4, <3>5
  <2>2. L.trouble \in 0 .. Probes
    BY <1>1, <1>2, ProbeAssumption DEF Sound, ProbeAssumption
  <2> QED BY <1>3, <2>1, <2>2
<1> QED BY <1>4, <1>5, <1>6, <1>7

\* The last probe passed: the new session is the one of this login, and its
\* probes all count.
LEMMA AcceptStep == ASSUME IInv, NEW l \in Login, Accepted(l) PROVE IInv'
<1> DEFINE L == login[l]
<1>1. /\ L.phase = "probing" /\ L.inbox \in Passes /\ L.passed + 1 = Probes
      /\ UNCHANGED <<now, password>>
  BY DEF Accepted, Judgeable
<1>2. /\ L \in LoginState /\ Sound(L)
      /\ L = Probe(L.cred, L.inbox, L.passed, L.right, L.wrong, L.unchecked, L.trouble)
  BY <1>1, ProbingState
<1>3. PICK s \in Sid :
        /\ Store!Create(s, L.cred)
        /\ login' = [login EXCEPT ![l].phase = "done", ![l].inbox = "none",
                       ![l].passed = @ + 1, ![l].result = "session", ![l].session = s]
  BY DEF Accepted
<1> DEFINE new == [phase |-> "done", cred |-> L.cred, inbox |-> "none", passed |-> Probes,
                   result |-> "session", session |-> s, right |-> L.right,
                   wrong |-> L.wrong, unchecked |-> L.unchecked, trouble |-> L.trouble]
<1>4. login' = [login EXCEPT ![l] = new]
  BY <1>1, <1>2, <1>3 DEF Probe, LoginState, IInv, TypeOK
<1>5. new \in LoginState
  BY <1>2, ProbeAssumption DEF LoginState, ProbeAssumption, Result
<1>6. Sound(new)
  BY <1>1, <1>2 DEF Sound, Passes
<1>7. /\ new.session = s /\ new.result = "session" /\ new.cred = L.cred
      /\ L.cred \in Credential /\ L.result = "none"
  BY <1>1, <1>2 DEF Sound
<1> HIDE DEF new
<1>8. TypeOK'
  BY <1>1, <1>4, <1>5 DEF IInv, TypeOK
<1>9. \A k \in Login : Sound(login'[k])
  BY <1>4, <1>6 DEF IInv, TypeOK
<1>10. observed' = [observed EXCEPT ![s] = Store!Held(L.cred)]
  BY <1>3 DEF Store!Create
<1>11. ObservedOK'
  <2>1. Store!Held(L.cred) \in Store!Observation
    BY <1>7 DEF IInv, ObservedOK, Store!Held, Store!Observation, Store!Never
  <2> QED BY <1>1, <1>10, <2>1 DEF IInv, ObservedOK
<1>12. SessionsWereProbed'
  <2> SUFFICES ASSUME NEW x \in Sid, observed'[x].status # "unborn"
               PROVE  \E k \in Login : /\ login'[k].session = x
                                       /\ login'[k].result = "session"
                                       /\ observed'[x].user = login'[k].cred
    BY DEF SessionsWereProbed
  <2>1. CASE x = s
    BY <1>4, <1>7, <1>10, <2>1 DEF IInv, TypeOK, ObservedOK, Store!Held
  <2>2. CASE x # s
    <3>1. observed'[x] = observed[x]
      BY <1>10, <2>2 DEF IInv, ObservedOK
    <3>2. PICK k \in Login : /\ login[k].session = x
                             /\ login[k].result = "session"
                             /\ observed[x].user = login[k].cred
      BY <3>1 DEF IInv, SessionsWereProbed
    <3>3. login'[k] = login[k]
      BY <1>4, <1>7, <3>2 DEF IInv, TypeOK
    <3> QED BY <3>1, <3>2, <3>3
  <2> QED BY <2>1, <2>2
<1> QED BY <1>8, <1>9, <1>11, <1>12 DEF IInv

-------------------------------------------------------------------------------
\* What the store does after a login tells nothing new about who was probed.
LEMMA StoreKeeps ==
  ASSUME IInv, UNCHANGED <<now, password>>,
         \A x \in Sid : /\ observed'[x].user = observed[x].user
                        /\ observed'[x].status # "unborn" => observed[x].status # "unborn",
         observed' \in [Sid -> Store!Observation],
         login' \in [Login -> LoginState],
         \A l \in Login : /\ Sound(login'[l])
                          /\ login[l].result = "session" => login'[l] = login[l]
  PROVE  IInv'
<1>1. TypeOK' /\ ObservedOK'
  BY DEF IInv, TypeOK, ObservedOK
<1>2. SessionsWereProbed'
  <2> SUFFICES ASSUME NEW s \in Sid, observed'[s].status # "unborn"
               PROVE  \E k \in Login : /\ login'[k].session = s
                                       /\ login'[k].result = "session"
                                       /\ observed'[s].user = login'[k].cred
    BY DEF SessionsWereProbed
  <2>1. PICK k \in Login : /\ login[k].session = s
                           /\ login[k].result = "session"
                           /\ observed[s].user = login[k].cred
    BY DEF IInv, SessionsWereProbed
  <2> QED BY <2>1
<1> QED BY <1>1, <1>2 DEF IInv

LEMMA IInvStep == ASSUME IInv, [Next]_vars PROVE IInv'
<1>1. CASE UNCHANGED vars
  BY <1>1, StoreKeeps DEF vars, storeVars, IInv, TypeOK, ObservedOK
<1>2. CASE PasswordChanges
  <2>1. TypeOK'
    BY <1>2 DEF PasswordChanges, IInv, TypeOK
  <2> QED BY <1>2, <2>1
          DEF PasswordChanges, IInv, storeVars, ObservedOK, SessionsWereProbed
<1>3. CASE SessionUsed
  <2>1. PICK s \in Sid : Store!Get(s) \/ Store!Delete(s)
    BY <1>3 DEF SessionUsed
  <2>2. \/ observed' = [observed EXCEPT ![s].seen = now]
        \/ observed' = Store!Gone({s})
    BY <2>1 DEF Store!Get, Store!Grant, Store!Refuse, Store!Delete
  <2>3. /\ observed' \in [Sid -> Store!Observation]
        /\ \A x \in Sid : /\ observed'[x].user = observed[x].user
                          /\ observed'[x].status # "unborn" => observed[x].status # "unborn"
    BY <2>2 DEF IInv, ObservedOK, Store!Observation, Store!Gone
  <2> QED BY <1>3, <2>3, StoreKeeps DEF SessionUsed, IInv, TypeOK
<1>4. CASE Restart
  <2>1. observed' = Store!Gone(Sid)
    BY <1>4 DEF Restart, Store!Restart
  <2>2. /\ observed' \in [Sid -> Store!Observation]
        /\ \A x \in Sid : /\ observed'[x].user = observed[x].user
                          /\ observed'[x].status # "unborn" => observed[x].status # "unborn"
    BY <2>1 DEF IInv, ObservedOK, Store!Observation, Store!Gone
  <2>3. ASSUME NEW l \in Login
        PROVE  /\ login'[l] \in LoginState /\ Sound(login'[l])
               /\ login[l].result = "session" => login'[l] = login[l]
    <3>1. CASE login[l].phase # "probing"
      BY <1>4, <3>1 DEF Restart, IInv, TypeOK
    <3>2. CASE login[l].phase = "probing"
      <4>1. login'[l] = [login[l] EXCEPT !.phase = "cancelled", !.inbox = "none"]
        BY <1>4, <3>2 DEF Restart
      <4>2. /\ login[l] \in LoginState /\ Sound(login[l])
            /\ login[l].result = "none" /\ login[l].session = None
        BY <3>2, ProbingState DEF Sound
      <4>3. /\ login'[l] \in LoginState
            /\ login'[l].phase = "cancelled" /\ login'[l].inbox = "none"
            /\ login'[l].result = "none" /\ login'[l].session = None
        BY <4>1, <4>2 DEF LoginState
      <4> QED BY <4>2, <4>3 DEF Sound
    <3> QED BY <3>1, <3>2
  <2>4. login' \in [Login -> LoginState]
    BY <1>4, <2>3 DEF Restart
  <2> QED BY <1>4, <2>2, <2>3, <2>4, StoreKeeps DEF Restart
<1> QED
  BY <1>1, <1>2, <1>3, <1>4, BeginStep, AnswerStep, JudgeStep, AcceptStep DEF Next, Serves

\* The inductive invariant holds in every reachable state.
THEOREM IInvHolds == Spec => []IInv
<1>1. IInv /\ [Next]_vars => IInv'
  BY IInvStep
<1> QED BY IInvInit, <1>1, PTL DEF Spec

-------------------------------------------------------------------------------
\* Every login keeps its type: no more probes are counted than there are.
THEOREM TypeCorrect == Spec => []TypeOK
<1>1. IInv => TypeOK
  BY DEF IInv
<1> QED BY IInvHolds, <1>1, PTL

\* validate_credentials() fails closed: a session costs Probes answers, none of
\* which was a refusal or a failure.
THEOREM FailsClosed == Spec => []EveryProbeCounts
<1>1. IInv => EveryProbeCounts
  BY DEF IInv, Sound, EveryProbeCounts
<1> QED BY IInvHolds, <1>1, PTL

\* Every session of the store was probed for, with its own credential.
THEOREM NoSessionUnprobed == Spec => []SessionsWereProbed
<1>1. IInv => SessionsWereProbed
  BY DEF IInv
<1> QED BY IInvHolds, <1>1, PTL

\* A verdict has its cause: 401 for invalid, a failure for failed.
THEOREM VerdictIsJust == Spec => []VerdictHasCause
<1>1. IInv => VerdictHasCause
  BY DEF IInv, Sound, VerdictHasCause
<1> QED BY IInvHolds, <1>1, PTL

-------------------------------------------------------------------------------
\* What callers see of the logins, and of the store.
Verdicts == [l \in Login |-> Verdict(login[l])]
Asked == [l \in Login |-> login[l].cred]
Given == [l \in Login |-> login[l].session]
Owners == [s \in Sid |-> observed[s].user]

\* Nobody owns an id that was never issued.
OwnersOK == \A s \in Sid : observed[s].status = "unborn" => observed[s].user = None

\* A step of one login, as callers see it.
LEMMA OneLoginSeen ==
  ASSUME NEW l \in Login, NEW v, NEW c, NEW s,
         \A k \in Login \ {l} : login'[k] = login[k],
         Verdict(login'[l]) = v, login'[l].cred = c, login'[l].session = s
  PROVE  /\ Verdicts' = [Verdicts EXCEPT ![l] = v]
         /\ Asked' = [Asked EXCEPT ![l] = c]
         /\ Given' = [Given EXCEPT ![l] = s]
BY DEF Verdicts, Asked, Given

\* The store's own steps take no owner away.
LEMMA OwnersKept ==
  ASSUME IInv, OwnersOK,
         \/ UNCHANGED observed
         \/ \E s \in Sid : Store!Get(s) \/ Store!Delete(s)
         \/ Store!Restart
  PROVE  UNCHANGED Owners /\ OwnersOK'
<1>1. \/ UNCHANGED observed
      \/ \E s \in Sid : observed' = [observed EXCEPT ![s].seen = now]
      \/ \E S : observed' = Store!Gone(S)
  BY DEF Store!Get, Store!Grant, Store!Refuse, Store!Delete, Store!Restart
<1>2. \A s \in Sid : /\ observed'[s].user = observed[s].user
                     /\ observed'[s].status = "unborn" => observed[s].status = "unborn"
  BY <1>1 DEF IInv, ObservedOK, Store!Observation, Store!Gone
<1> QED BY <1>2 DEF Owners, OwnersOK

-------------------------------------------------------------------------------
\* Every step of a login is one of the contract's, or is not seen.
LEMMA BeginSeen ==
  ASSUME IInv, OwnersOK, NEW l \in Login, NEW cred \in Credential \cup {Empty}, Begin(l, cred)
  PROVE  Contract!Next /\ OwnersOK'
<1>1. login[l] = NewLogin /\ login \in [Login -> LoginState] /\ UNCHANGED storeVars
  BY DEF Begin, IInv, Sound, TypeOK
<1>2. UNCHANGED Owners /\ OwnersOK'
  BY <1>1, OwnersKept DEF storeVars
<1>3. Verdicts[l] = "new" /\ Asked[l] = Empty /\ Given[l] = None
  BY <1>1 DEF Verdicts, Asked, Given, Verdict, NewLogin
<1>4. \A k \in Login \ {l} : login'[k] = login[k]
  BY <1>1 DEF Begin
<1>5. CASE cred = Empty
  <2>1. Verdict(login'[l]) = "missing" /\ login'[l].cred = Empty /\ login'[l].session = None
    BY <1>1, <1>5 DEF Begin, Verdict, NewLogin
  <2>2. /\ Verdicts' = [Verdicts EXCEPT ![l] = "missing"]
        /\ Asked' = [Asked EXCEPT ![l] = Empty] /\ Given' = [Given EXCEPT ![l] = None]
    BY <1>4, <2>1, OneLoginSeen
  <2>3. UNCHANGED <<Asked, Given>>
    BY <1>3, <2>2 DEF Asked, Given
  <2>4. Contract!TurnAway(l)
    BY <1>2, <1>3, <2>2, <2>3 DEF Contract!TurnAway, Verdicts, Asked, Given, Owners
  <2> QED BY <1>2, <2>4 DEF Contract!Next
<1>6. CASE cred \in Credential
  <2>1. Verdict(login'[l]) = "pending" /\ login'[l].cred = cred /\ login'[l].session = None
    BY <1>1, <1>6, EmptyAssumption DEF Begin, Verdict, NewLogin, EmptyAssumption
  <2>2. /\ Verdicts' = [Verdicts EXCEPT ![l] = "pending"]
        /\ Asked' = [Asked EXCEPT ![l] = cred] /\ Given' = [Given EXCEPT ![l] = None]
    BY <1>4, <2>1, OneLoginSeen
  <2>3. UNCHANGED Given
    BY <1>3, <2>2 DEF Given
  <2>4. Contract!Ask(l, cred)
    BY <1>2, <1>3, <2>2, <2>3 DEF Contract!Ask, Verdicts, Asked, Given, Owners
  <2> QED BY <1>2, <1>6, <2>4 DEF Contract!Next
<1> QED BY <1>5, <1>6

LEMMA ProbeSeen ==
  ASSUME IInv, OwnersOK, NEW l \in Login, Answer(l) \/ NextProbe(l)
  PROVE  UNCHANGED <<Verdicts, Asked, Given, Owners>> /\ OwnersOK'
<1>1. login[l].phase = "probing" /\ UNCHANGED storeVars
  BY DEF Answer, Probing, NextProbe, Judgeable
<1>2. login[l] \in LoginState /\ login \in [Login -> LoginState]
  BY DEF IInv, TypeOK
<1>3. /\ \A k \in Login \ {l} : login'[k] = login[k]
      /\ login'[l].phase = "probing"
      /\ login'[l].cred = login[l].cred /\ login'[l].session = login[l].session
  <2>1. CASE Answer(l)
    BY <1>1, <1>2, <2>1 DEF Answer, Checked, Unchecked, Troubled, LoginState
  <2>2. CASE NextProbe(l)
    BY <1>1, <1>2, <2>2 DEF NextProbe, LoginState
  <2> QED BY <2>1, <2>2
<1>4. Verdict(login'[l]) = "pending" /\ Verdict(login[l]) = "pending"
  BY <1>1, <1>3 DEF Verdict
<1> QED BY <1>1, <1>3, <1>4, OwnersKept DEF storeVars, Verdicts, Asked, Given

\* The login ends without a session.
LEMMA EndSeen ==
  ASSUME IInv, OwnersOK, NEW l \in Login, TransportError(l) \/ Refused(l)
  PROVE  Contract!Next /\ OwnersOK'
<1>1. login[l].phase = "probing" /\ UNCHANGED storeVars
  BY DEF TransportError, Probing, Refused, Judgeable
<1>2. login[l] \in LoginState /\ login \in [Login -> LoginState]
  BY DEF IInv, TypeOK
<1>3. PICK why \in {"invalid", "failed"} :
        /\ \A k \in Login \ {l} : login'[k] = login[k]
        /\ login'[l].phase = "done" /\ login'[l].result = why
        /\ login'[l].cred = login[l].cred /\ login'[l].session = login[l].session
  BY <1>2 DEF TransportError, Refused, End, LoginState
<1>4. Verdict(login'[l]) = why
  BY <1>3 DEF Verdict
<1>5. /\ Verdicts' = [Verdicts EXCEPT ![l] = why]
      /\ Asked' = [Asked EXCEPT ![l] = login[l].cred]
      /\ Given' = [Given EXCEPT ![l] = login[l].session]
  BY <1>3, <1>4, OneLoginSeen
<1>6. Verdicts[l] = "pending" /\ UNCHANGED <<Asked, Given>>
  BY <1>1, <1>5 DEF Verdicts, Verdict, Asked, Given
<1>7. UNCHANGED Owners /\ OwnersOK'
  BY <1>1, OwnersKept DEF storeVars
<1>8. Contract!Deny(l, why)
  BY <1>5, <1>6, <1>7 DEF Contract!Deny, Verdicts, Asked, Given, Owners
<1> QED BY <1>7, <1>8 DEF Contract!Next

\* The login gets a session that nobody owned.
LEMMA AcceptSeen ==
  ASSUME IInv, OwnersOK, NEW l \in Login, Accepted(l)
  PROVE  Contract!Next /\ OwnersOK'
<1>1. /\ login[l].phase = "probing"
      /\ login[l] \in LoginState /\ login \in [Login -> LoginState]
  BY DEF Accepted, Judgeable, IInv, TypeOK
<1>2. PICK s \in Sid :
        /\ Store!Create(s, login[l].cred)
        /\ login' = [login EXCEPT ![l].phase = "done", ![l].inbox = "none",
                       ![l].passed = @ + 1, ![l].result = "session", ![l].session = s]
  BY DEF Accepted
<1>3. /\ \A k \in Login \ {l} : login'[k] = login[k]
      /\ login'[l].phase = "done" /\ login'[l].result = "session"
      /\ login'[l].cred = login[l].cred /\ login'[l].session = s
  BY <1>1, <1>2 DEF LoginState
<1>4. Verdict(login'[l]) = "session"
  BY <1>3 DEF Verdict
<1>5. /\ Verdicts' = [Verdicts EXCEPT ![l] = "session"]
      /\ Asked' = [Asked EXCEPT ![l] = login[l].cred]
      /\ Given' = [Given EXCEPT ![l] = s]
  BY <1>3, <1>4, OneLoginSeen
<1>6. Verdicts[l] = "pending" /\ Asked[l] = login[l].cred /\ UNCHANGED Asked
  BY <1>1, <1>5 DEF Verdicts, Verdict, Asked
<1>7. /\ observed[s].status = "unborn"
      /\ observed' = [observed EXCEPT ![s] = Store!Held(login[l].cred)]
  BY <1>2 DEF Store!Create
<1>8. Owners[s] = None /\ Owners' = [Owners EXCEPT ![s] = login[l].cred] /\ OwnersOK'
  BY <1>7 DEF OwnersOK, Owners, Store!Held, IInv, ObservedOK
<1>9. Contract!Admit(l, s)
  BY <1>5, <1>6, <1>8 DEF Contract!Admit, Verdicts, Asked, Given, Owners
<1> QED BY <1>8, <1>9 DEF Contract!Next

\* Callers give up, one of them or, at a restart, all that are waiting.
LEMMA GivenUp ==
  ASSUME IInv, NEW L \in SUBSET Login, UNCHANGED Owners,
         \A k \in L : login[k].phase = "probing",
         login' = [k \in Login |->
                     IF k \in L THEN [login[k] EXCEPT !.phase = "cancelled", !.inbox = "none"]
                     ELSE login[k]]
  PROVE  Contract!Next
<1>1. \A k \in Login : login[k] \in LoginState
  BY DEF IInv, TypeOK
<1>2. \A k \in Login : /\ login'[k].cred = login[k].cred
                       /\ login'[k].session = login[k].session
  BY <1>1 DEF LoginState
<1>3. \A k \in L : Verdict(login[k]) = "pending" /\ Verdict(login'[k]) = "cancelled"
  <2> SUFFICES ASSUME NEW k \in L
               PROVE  Verdict(login[k]) = "pending" /\ Verdict(login'[k]) = "cancelled"
    OBVIOUS
  <2>1. login[k].phase = "probing" /\ login'[k].phase = "cancelled"
    BY <1>1 DEF LoginState
  <2> QED BY <2>1 DEF Verdict
<1>4. \A k \in Login \ L : Verdict(login'[k]) = Verdict(login[k])
  OBVIOUS
<1>5. /\ \A k \in L : Verdicts[k] = "pending"
      /\ Verdicts' = [k \in Login |-> IF k \in L THEN "cancelled" ELSE Verdicts[k]]
      /\ UNCHANGED <<Asked, Given>>
  <2>1. \A k \in L : Verdicts[k] = "pending"
    BY <1>3 DEF Verdicts
  <2>2. Verdicts' = [k \in Login |-> IF k \in L THEN "cancelled" ELSE Verdicts[k]]
    BY <1>3, <1>4 DEF Verdicts
  <2>3. UNCHANGED Asked
    BY <1>2 DEF Asked
  <2>4. UNCHANGED Given
    BY <1>2 DEF Given
  <2> QED BY <2>1, <2>2, <2>3, <2>4
<1>6. Contract!Abandon(L)
  BY <1>5 DEF Contract!Abandon, Verdicts, Asked, Given, Owners
<1> QED BY <1>6 DEF Contract!Next

LEMMA StepSeen ==
  ASSUME IInv, OwnersOK, [Next]_vars
  PROVE  OwnersOK' /\ (Contract!Next \/ UNCHANGED <<Verdicts, Asked, Given, Owners>>)
<1> DEFINE Same == UNCHANGED <<Verdicts, Asked, Given, Owners>>
<1>1. CASE UNCHANGED vars \/ PasswordChanges \/ SessionUsed
  <2>1. UNCHANGED login /\ (UNCHANGED observed \/ \E s \in Sid : Store!Get(s) \/ Store!Delete(s))
    BY <1>1 DEF vars, storeVars, PasswordChanges, SessionUsed
  <2>2. UNCHANGED Owners /\ OwnersOK'
    BY <2>1, OwnersKept
  <2> QED BY <2>1, <2>2 DEF Verdicts, Asked, Given
<1>2. CASE Restart
  <2> DEFINE L == {k \in Login : login[k].phase = "probing"}
  <2>1. UNCHANGED Owners /\ OwnersOK'
    BY <1>2, OwnersKept DEF Restart
  <2>2. login' = [k \in Login |->
                   IF k \in L THEN [login[k] EXCEPT !.phase = "cancelled", !.inbox = "none"]
                   ELSE login[k]]
    BY <1>2 DEF Restart
  <2>3. L \in SUBSET Login /\ \A k \in L : login[k].phase = "probing"
    OBVIOUS
  <2> HIDE DEF L
  <2>4. Contract!Next
    BY <2>1, <2>2, <2>3, GivenUp
  <2> QED BY <2>1, <2>4
<1>3. ASSUME NEW l \in Login, Cancel(l)
      PROVE  Contract!Next /\ OwnersOK'
  <2>1. UNCHANGED Owners /\ OwnersOK'
    BY <1>3, OwnersKept DEF Cancel, storeVars
  <2>2. login' = [k \in Login |->
                   IF k \in {l} THEN [login[k] EXCEPT !.phase = "cancelled", !.inbox = "none"]
                   ELSE login[k]]
    BY <1>3 DEF Cancel, IInv, TypeOK
  <2>3. {l} \in SUBSET Login /\ \A k \in {l} : login[k].phase = "probing"
    BY <1>3 DEF Cancel
  <2>4. Contract!Next
    BY <2>1, <2>2, <2>3, GivenUp
  <2> QED BY <2>1, <2>4
<1> QED
  BY <1>1, <1>2, <1>3, BeginSeen, ProbeSeen, EndSeen, AcceptSeen DEF Next, Serves

LEMMA StartSeen == Init => OwnersOK /\ Contract!Init
<1> SUFFICES ASSUME Init PROVE OwnersOK /\ Contract!Init
  OBVIOUS
<1>1. \A s \in Sid : observed[s].user = None
  BY DEF Init, Store!Init, Store!Unborn
<1>2. Verdict(NewLogin) = "new" /\ NewLogin.cred = Empty /\ NewLogin.session = None
  BY DEF Verdict, NewLogin
<1> QED BY <1>1, <1>2 DEF Init, OwnersOK, Contract!Init

\* A login of any number of probes, overlapping with any number of others, is
\* to its callers a login of one step: asked, answered once, answered for ever.
THEOREM Refinement == Spec => ImplementsContract
<1>1. IInv /\ OwnersOK /\ [Next]_vars => OwnersOK'
  BY StepSeen
<1>2. Spec => [](IInv /\ OwnersOK)
  BY IInvHolds, StartSeen, <1>1, PTL DEF Spec
<1>3. IInv /\ OwnersOK /\ [Next]_vars => [Contract!Next]_(Contract!contractVars)
  BY StepSeen DEF Contract!contractVars, Verdicts, Asked, Given, Owners
<1> QED BY <1>2, <1>3, StartSeen, PTL DEF Spec, ImplementsContract, Contract!Spec

-------------------------------------------------------------------------------
\* How many steps a login can still take.
Left(l) == CASE login[l].phase = "new" -> 2 * Probes + 2
             [] login[l].phase = "probing" -> 2 * (Probes - login[l].passed)
                                              + (IF login[l].inbox = "none" THEN 1 ELSE 0)
             [] OTHER -> 0

Remains == \A l \in Login :
             /\ Left(l) \in 0 .. 2 * Probes + 2
             /\ Left(l) = 0 <=> login[l].phase \in {"done", "cancelled"}
RunsOut == \A l \in Login : /\ Left(l)' <= Left(l)
                            /\ Answer(l) \/ Serves(l) => Left(l)' < Left(l)

LEMMA LeftValue ==
  ASSUME IInv, NEW l \in Login
  PROVE  /\ Left(l) \in 0 .. 2 * Probes + 2
         /\ Left(l) = 0 <=> login[l].phase \in {"done", "cancelled"}
         /\ login[l].phase = "probing" => Left(l) >= 2 /\ login[l].passed \in 0 .. Probes - 1
<1>1. login[l].phase \in {"new", "probing", "done", "cancelled"}
  BY DEF IInv, TypeOK, LoginState
<1>2. login[l].phase = "probing" => login[l].passed \in 0 .. Probes - 1
  BY ProbingState
<1> QED BY <1>1, <1>2, ProbeAssumption DEF Left, ProbeAssumption

\* A login comes to its end: every answer and every step of the login leaves
\* fewer of them, and no other login, password change, use of a session or
\* restart adds any.
THEOREM ProbesRunOut == Spec => []Remains /\ [][RunsOut]_vars
<1>1. IInv => Remains
  BY LeftValue DEF Remains
<1>2. ASSUME IInv, Remains', [Next]_vars PROVE RunsOut
  <2> SUFFICES ASSUME NEW l \in Login
               PROVE  /\ Left(l)' <= Left(l)
                      /\ Answer(l) \/ Serves(l) => Left(l)' < Left(l)
    BY DEF RunsOut
  <2> USE ProbeAssumption DEF ProbeAssumption
  <2>1. /\ Left(l) \in Int /\ Left(l)' \in Int
        /\ login[l].phase = "probing" => Left(l) >= 2 /\ login[l].passed \in 0 .. Probes - 1
        /\ login[l] \in LoginState /\ login \in [Login -> LoginState]
    BY <1>2, LeftValue DEF Remains, IInv, TypeOK
  <2>2. ASSUME NEW k \in Login, k # l,
               \/ \E cred \in Credential \cup {Empty} : Begin(k, cred)
               \/ Answer(k) \/ Serves(k) \/ Cancel(k)
        PROVE  Left(l)' = Left(l)
    <3>1. login'[l] = login[l]
      BY <2>1, <2>2
         DEF Begin, Answer, Checked, Unchecked, Troubled, Serves, TransportError, Refused, End,
             NextProbe, Accepted, Cancel
    <3> QED BY <3>1 DEF Left
  <2>3. ASSUME NEW cred \in Credential \cup {Empty}, Begin(l, cred) PROVE Left(l)' <= Left(l)
    <3>1. login[l] = NewLogin
      BY <1>2, <2>3 DEF Begin, IInv, Sound
    <3>2. \/ login'[l].phase = "done"
          \/ login'[l].phase = "probing" /\ login'[l].passed = 0 /\ login'[l].inbox = "none"
      BY <2>1, <2>3, <3>1 DEF Begin, NewLogin
    <3> QED BY <3>1, <3>2 DEF Left, NewLogin
  <2>4. Answer(l) => Left(l)' < Left(l)
    <3> SUFFICES ASSUME Answer(l) PROVE Left(l)' < Left(l)
      OBVIOUS
    <3>1. login[l].phase = "probing" /\ login[l].inbox = "none"
      BY DEF Answer, Probing
    <3>2. /\ login'[l].phase = "probing" /\ login'[l].inbox # "none"
          /\ login'[l].passed = login[l].passed
      BY <2>1, <3>1 DEF Answer, Checked, Unchecked, Troubled, LoginState
    <3> QED BY <2>1, <3>1, <3>2 DEF Left
  <2>5. NextProbe(l) => Left(l)' < Left(l)
    <3> SUFFICES ASSUME NextProbe(l) PROVE Left(l)' < Left(l)
      OBVIOUS
    <3>1. login[l].phase = "probing" /\ login[l].inbox # "none"
      BY DEF NextProbe, Judgeable
    <3>2. /\ login'[l].phase = "probing" /\ login'[l].inbox = "none"
          /\ login'[l].passed = login[l].passed + 1
      BY <2>1, <3>1 DEF NextProbe, LoginState
    <3> QED BY <2>1, <3>1, <3>2 DEF Left
  <2>6. TransportError(l) \/ Refused(l) \/ Accepted(l) \/ Cancel(l) => Left(l)' < Left(l)
    <3> SUFFICES ASSUME TransportError(l) \/ Refused(l) \/ Accepted(l) \/ Cancel(l)
                 PROVE  Left(l)' < Left(l)
      OBVIOUS
    <3>1. login[l].phase = "probing"
      BY DEF TransportError, Probing, Refused, Accepted, Judgeable, Cancel
    <3>2. login'[l].phase \in {"done", "cancelled"}
      BY <2>1 DEF TransportError, Refused, End, Accepted, Cancel, LoginState
    <3> QED BY <2>1, <3>1, <3>2 DEF Left
  <2>7. Restart => Left(l)' <= Left(l)
    <3> SUFFICES ASSUME Restart PROVE Left(l)' <= Left(l)
      OBVIOUS
    <3>1. CASE login[l].phase = "probing"
      <4>1. login'[l].phase = "cancelled"
        BY <2>1, <3>1 DEF Restart, LoginState
      <4> QED BY <2>1, <3>1, <4>1 DEF Left
    <3>2. CASE login[l].phase # "probing"
      <4>1. login'[l] = login[l]
        BY <3>2 DEF Restart
      <4> QED BY <2>1, <4>1 DEF Left
    <3> QED BY <3>1, <3>2
  <2>8. PasswordChanges \/ SessionUsed \/ UNCHANGED vars => Left(l)' = Left(l)
    BY DEF PasswordChanges, SessionUsed, vars, Left
  <2>9. Answer(l) \/ Serves(l) => Left(l)' < Left(l)
    BY <2>4, <2>5, <2>6 DEF Serves
  <2>10. Left(l)' <= Left(l)
    <3>1. ASSUME NEW k \in Login,
                 \/ \E cred \in Credential \cup {Empty} : Begin(k, cred)
                 \/ Answer(k) \/ Serves(k) \/ Cancel(k)
          PROVE  Left(l)' <= Left(l)
      <4>1. CASE k # l
        BY <2>1, <2>2, <3>1, <4>1
      <4>2. CASE k = l
        <5>1. Left(l)' < Left(l) => Left(l)' <= Left(l)
          BY <2>1
        <5> QED BY <2>3, <2>6, <2>9, <3>1, <4>2, <5>1
      <4> QED BY <4>1, <4>2
    <3>2. Left(l)' = Left(l) => Left(l)' <= Left(l)
      BY <2>1
    <3> QED BY <1>2, <2>7, <2>8, <3>1, <3>2 DEF Next
  <2> QED BY <2>9, <2>10
<1>3. IInv /\ Remains' /\ [Next]_vars => RunsOut
  BY <1>2
<1> QED BY IInvHolds, <1>1, <1>3, PTL DEF Spec
================================================================================
