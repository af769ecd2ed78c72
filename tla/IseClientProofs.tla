----------------------------- MODULE IseClientProofs -----------------------------
(***************************************************************************)
(* What the caller of IseClient.request() may conclude from its result,    *)
(* for any number of concurrent requests, any retry budget and any         *)
(* Retry-After: an ok write was carried out, a certain failure was not and *)
(* never will be, and the waiting is bounded.                              *)
(***************************************************************************)
EXTENDS IseClient, FiniteSetTheorems, TLAPS

-------------------------------------------------------------------------------
\* Where a request stands: its attempts are numbered from 1, none of them is
\* ahead of it, an answered attempt is no longer on its way, and every sleep
\* so far took at most 30 s.
Position(r) ==
  /\ call[r].phase = "new" =>
       call[r] = NewCall /\ applied[r] = {} /\ unsure[r] = {} /\ InFlight(r) = {}
  /\ call[r].phase # "new" =>
       /\ call[r].attempt >= 1
       /\ call[r].waited <= 30 * (IF call[r].phase = "backoff" THEN call[r].attempt
                                                               ELSE call[r].attempt - 1)
  /\ call[r].phase = "backoff" => call[r].attempt <= MaxRetries
  /\ call[r].phase # "done" => call[r].result = "none"
  /\ call[r].inbox # "none" \/ call[r].retry_after # 0 => call[r].phase = "sent"
  /\ \A m \in InFlight(r) :
       m.n <= call[r].attempt /\ (call[r].inbox # "none" => m.n # call[r].attempt)

\* As long as no attempt went unanswered or failed at a gateway, only the
\* present attempt can have had an effect, and only until a refusal arrived.
Certain(r) ==
  unsure[r] \cap {Unanswered, "gateway"} = {} =>
    /\ applied[r] \subseteq {call[r].attempt}
    /\ \A m \in InFlight(r) : m.n = call[r].attempt /\ call[r].phase = "sent"
    /\ call[r].phase = "backoff" => applied[r] = {}
    /\ call[r].phase = "sent" /\ call[r].inbox \notin {"2xx", "empty"} \cup Open =>
         applied[r] = {}
    /\ call[r].phase = "done" /\ call[r].result # "ok" /\ unsure[r] = {} => applied[r] = {}

\* A good answer to a write is on its way only if the write was carried out.
Earned(r) ==
  /\ call[r].inbox \in {"2xx", "empty"} /\ Writes(r) => applied[r] # {}
  /\ call[r].result = "ok" /\ Writes(r) /\ "3xx" \notin unsure[r] => applied[r] # {}

ReqInv(r) == Position(r) /\ Certain(r) /\ Earned(r)
IInv == TypeOK /\ \A r \in Request : ReqInv(r)

-------------------------------------------------------------------------------
CallRecord == [phase : {"new", "sent", "backoff", "done"},
               method : Method \cup {"none"}, attempt : 0 .. MaxRetries + 1,
               inbox : Status \cup {"none"}, retry_after : RetryAfter \cup {0},
               waited : 0 .. WaitCap, result : Result]

\* A pause is a number of seconds, at most 30.
LEMMA BackoffBounded ==
  ASSUME NEW n \in Nat, n >= 1, NEW after \in Nat
  PROVE  Backoff(n, after) \in 0 .. 30
<1>1. CASE after # 0
  BY <1>1 DEF Backoff, LesserOf
<1>2. CASE after = 0
  <2>1. LesserOf(n, 4) \in 1 .. 4
    BY DEF LesserOf
  <2> QED BY <1>2, <2>1 DEF Backoff, Doubling
<1> QED BY <1>1, <1>2

\* What one request's step leaves of the others, and of what it does not touch.
LEMMA OthersKeep ==
  ASSUME NEW q \in Request, ReqInv(q),
         call'[q] = call[q], applied'[q] = applied[q], unsure'[q] = unsure[q],
         InFlight(q)' \subseteq InFlight(q)
  PROVE  ReqInv(q)'
<1>1. Position(q)'
  BY DEF ReqInv, Position
<1>2. Certain(q)'
  BY DEF ReqInv, Certain
<1>3. Earned(q)'
  BY DEF ReqInv, Earned, Writes
<1> QED BY <1>1, <1>2, <1>3 DEF ReqInv

LEMMA IInvInit == Init => IInv
<1> SUFFICES ASSUME Init PROVE IInv
  OBVIOUS
<1>1. NewCall \in CallRecord
  BY ClientAssumption DEF NewCall, CallRecord, ClientAssumption, Status, Result
<1>2. TypeOK
  BY <1>1 DEF Init, TypeOK, CallRecord
<1>3. ASSUME NEW r \in Request PROVE ReqInv(r)
  BY <1>3 DEF Init, ReqInv, Position, Certain, Earned, NewCall, InFlight
<1> QED BY <1>2, <1>3 DEF IInv

-------------------------------------------------------------------------------
\* An attempt goes out: the first one, or the next one after a pause.
LEMMA SendStep ==
  ASSUME IInv, NEW r \in Request, Begin(r) \/ WakeUp(r)
  PROVE  IInv'
<1> DEFINE n == call[r].attempt + 1
<1>1. call[r] \in CallRecord /\ ReqInv(r) /\ call[r].attempt \in 0 .. MaxRetries + 1
  BY DEF IInv, TypeOK, CallRecord
<1>2. PICK m \in Method \cup {"none"} :
        /\ call' = [call EXCEPT ![r] =
             [phase |-> "sent", method |-> m, attempt |-> n, inbox |-> "none",
              retry_after |-> 0, waited |-> call[r].waited, result |-> "none"]]
        /\ network' = network \cup {[req |-> r, n |-> n]}
  <2>1. PICK m \in Method \cup {"none"} : Send(r, m)
    BY <1>1 DEF Begin, WakeUp, CallRecord
  <2>2. /\ call[r].result = "none" /\ call[r].inbox = "none"
        /\ call[r].retry_after = 0
    BY <1>1 DEF Begin, WakeUp, ReqInv, Position
  <2> QED BY <1>1, <2>1, <2>2 DEF Send, CallRecord, IInv, TypeOK
<1>3. call[r].phase \in {"new", "backoff"} /\ UNCHANGED <<exists, applied, unsure>>
  BY DEF Begin, WakeUp
<1>4. n \in 1 .. MaxRetries + 1
  BY <1>1, <1>3, ClientAssumption DEF ClientAssumption, ReqInv, Position, NewCall
<1>5. TypeOK'
  BY <1>1, <1>2, <1>3, <1>4 DEF IInv, TypeOK, CallRecord, Status, Result
<1>6. InFlight(r)' = InFlight(r) \cup {[req |-> r, n |-> n]}
  BY <1>2 DEF InFlight
<1>7. Position(r)'
  BY <1>1, <1>2, <1>3, <1>4, <1>6, ClientAssumption
     DEF IInv, TypeOK, CallRecord, ReqInv, Position, NewCall, ClientAssumption, InFlight
<1>8. Certain(r)'
  BY <1>1, <1>2, <1>3, <1>4, <1>6
     DEF IInv, TypeOK, ReqInv, Position, Certain, NewCall, InFlight
<1>9. Earned(r)'
  BY <1>1, <1>2 DEF IInv, TypeOK, Earned, CallRecord
<1>10. ASSUME NEW q \in Request, q # r PROVE ReqInv(q)'
  BY <1>2, <1>3, <1>10, OthersKeep DEF IInv, TypeOK, InFlight
<1> QED BY <1>5, <1>7, <1>8, <1>9, <1>10 DEF IInv, ReqInv

\* What the client does about an attempt that failed or was answered: it sleeps,
\* or it ends the request.
LEMMA SettleStep ==
  ASSUME IInv, NEW r \in Request, call[r].phase = "sent",
         NEW open \in SUBSET (Open \cup {Unanswered}),
         unsure' = [unsure EXCEPT ![r] = @ \cup open],
         UNCHANGED <<exists, network, applied>>,
         call[r].inbox # "none" \/ Unanswered \in open,
         NEW after \in Nat, NEW result \in Result,
         \/ /\ MayRetry(r)
            /\ Sleep(r, after)
            /\ open \cap {Unanswered, "gateway"} # {} \/ call[r].inbox = "429"
         \/ /\ End(r, result)
            /\ open # {} \/ call[r].inbox \notin Open \cup {"none"}
            /\ result = "ok" => call[r].inbox \in {"2xx", "empty", "3xx"}
            /\ call[r].inbox \in {"2xx", "empty", "3xx"} => result = "ok" \/ Unanswered \in open
            /\ call[r].inbox = "3xx" /\ result = "ok" => "3xx" \in open
  PROVE  IInv'
<1>1. call[r] \in CallRecord /\ ReqInv(r) /\ call[r].attempt \in 1 .. MaxRetries + 1
  BY ClientAssumption DEF IInv, TypeOK, CallRecord, ReqInv, Position, ClientAssumption
<1>2. Backoff(call[r].attempt, after) \in 0 .. 30
  BY <1>1, BackoffBounded, ClientAssumption DEF ClientAssumption
<1>3. /\ InFlight(r)' = InFlight(r)
      /\ call'[r].attempt = call[r].attempt
      /\ call'[r].method = call[r].method
      /\ call'[r].inbox = "none"
      /\ call'[r].phase \in {"backoff", "done"}
  BY <1>1 DEF InFlight, Sleep, End, IInv, TypeOK, CallRecord
<1>4. CASE MayRetry(r) /\ Sleep(r, after)
           /\ (open \cap {Unanswered, "gateway"} # {} \/ call[r].inbox = "429")
  <2> DEFINE w == LesserOf(WaitCap, call[r].waited + Backoff(call[r].attempt, after))
  <2>1. w \in 0 .. WaitCap /\ w <= call[r].waited + 30
    BY <1>1, <1>2, ClientAssumption DEF CallRecord, LesserOf, ClientAssumption
  <2>2. call'[r] = [phase |-> "backoff", method |-> call[r].method,
                    attempt |-> call[r].attempt, inbox |-> "none", retry_after |-> 0,
                    waited |-> w, result |-> call[r].result]
    BY <1>1, <1>4 DEF Sleep, IInv, TypeOK, CallRecord
  <2>3. TypeOK'
    <3>1. call'[r] \in CallRecord
      BY <1>1, <2>1, <2>2 DEF CallRecord
    <3> QED BY <1>4, <3>1 DEF Sleep, IInv, TypeOK, CallRecord
  <2>4. Position(r)'
    BY <1>1, <1>3, <1>4, <2>1, <2>2, ClientAssumption
       DEF ClientAssumption, ReqInv, Position, MayRetry, CallRecord
  <2>5. Certain(r)'
    <3>1. unsure'[r] = unsure[r] \cup open /\ applied'[r] = applied[r]
      BY DEF IInv, TypeOK
    <3>2. SUFFICES ASSUME unsure'[r] \cap {Unanswered, "gateway"} = {} PROVE Certain(r)'
      BY DEF Certain
    <3>3. call[r].inbox = "429" /\ unsure[r] \cap {Unanswered, "gateway"} = {}
      BY <1>4, <3>1, <3>2
    <3>4. applied[r] = {}
      BY <1>1, <3>3 DEF ReqInv, Certain, Open
    <3>5. InFlight(r) = {}
      BY <1>1, <3>3 DEF ReqInv, Certain, Position
    <3> QED BY <1>3, <2>2, <3>1, <3>4, <3>5 DEF Certain
  <2>6. Earned(r)'
    BY <1>1, <2>2 DEF ReqInv, Earned, Position
  <2>7. ASSUME NEW q \in Request, q # r PROVE ReqInv(q)'
    BY <1>4, <2>7, OthersKeep DEF IInv, TypeOK, InFlight, Sleep
  <2> QED BY <2>3, <2>4, <2>5, <2>6, <2>7 DEF IInv, ReqInv
<1>5. CASE /\ End(r, result)
           /\ open # {} \/ call[r].inbox \notin Open \cup {"none"}
           /\ result = "ok" => call[r].inbox \in {"2xx", "empty", "3xx"}
           /\ call[r].inbox \in {"2xx", "empty", "3xx"} => result = "ok" \/ Unanswered \in open
           /\ call[r].inbox = "3xx" /\ result = "ok" => "3xx" \in open
  <2>2. call'[r] = [phase |-> "done", method |-> call[r].method,
                    attempt |-> call[r].attempt, inbox |-> "none", retry_after |-> 0,
                    waited |-> call[r].waited, result |-> result]
    BY <1>1, <1>5 DEF End, IInv, TypeOK, CallRecord
  <2>3. TypeOK'
    <3>1. call'[r] \in CallRecord
      BY <1>1, <2>2 DEF CallRecord
    <3> QED BY <1>5, <3>1 DEF End, IInv, TypeOK, CallRecord
  <2>4. Position(r)'
    BY <1>1, <1>3, <2>2 DEF ReqInv, Position, CallRecord
  <2>5. Certain(r)'
    <3>1. unsure'[r] = unsure[r] \cup open /\ applied'[r] = applied[r]
      BY DEF IInv, TypeOK
    <3>2. SUFFICES ASSUME unsure'[r] \cap {Unanswered, "gateway"} = {} PROVE Certain(r)'
      BY DEF Certain
    <3>3. open \cap {Unanswered, "gateway"} = {} /\ unsure[r] \cap {Unanswered, "gateway"} = {}
      BY <3>1, <3>2
    <3>6. InFlight(r) = {}
      BY <1>1, <3>3 DEF ReqInv, Certain, Position
    <3>4. CASE open = {} /\ result # "ok"
      <4>1. call[r].inbox \notin {"2xx", "empty"} \cup Open
        BY <1>5, <3>4 DEF Open
      <4> QED BY <1>1, <1>3, <1>5, <2>2, <3>1, <3>3, <3>6, <4>1 DEF ReqInv, Certain
    <3>5. CASE open # {} \/ result = "ok"
      BY <1>1, <1>3, <1>5, <2>2, <3>1, <3>3, <3>5, <3>6 DEF ReqInv, Certain, IInv, TypeOK
    <3> QED BY <3>4, <3>5
  <2>6. Earned(r)'
    BY <1>1, <1>5, <2>2 DEF ReqInv, Earned, Writes, IInv, TypeOK
  <2>7. ASSUME NEW q \in Request, q # r PROVE ReqInv(q)'
    BY <1>5, <2>7, OthersKeep DEF IInv, TypeOK, InFlight, End
  <2> QED BY <2>3, <2>4, <2>5, <2>6, <2>7 DEF IInv, ReqInv
<1> QED BY <1>4, <1>5

LEMMA ClientStep ==
  ASSUME IInv, NEW r \in Request, TransportError(r) \/ RateLimited(r) \/ Receive(r)
  PROVE  IInv'
<1>1. call[r] \in CallRecord /\ unsure[r] \in SUBSET (Open \cup {Unanswered})
  BY DEF IInv, TypeOK, CallRecord
<1>2. unsure = [unsure EXCEPT ![r] = @ \cup {}]
  BY DEF IInv, TypeOK
<1>3. CASE TransportError(r)
  <2>1. call[r].phase = "sent" /\ MayRetry(r) /\ Sleep(r, 0) => IInv'
    BY <1>3, SettleStep DEF TransportError, Result
  <2>2. call[r].phase = "sent" /\ End(r, "ise_api_error") => IInv'
    BY <1>3, SettleStep DEF TransportError, Result
  <2> QED BY <1>3, <2>1, <2>2 DEF TransportError
<1>4. CASE RateLimited(r)
  <2>1. /\ call[r].phase = "sent" /\ call[r].inbox = "429"
        /\ unsure' = [unsure EXCEPT ![r] = @ \cup {}]
        /\ UNCHANGED <<exists, network, applied>>
    BY <1>2, <1>4 DEF RateLimited, Answered
  <2>2. call[r].retry_after \in Nat
    <3>1. call[r].retry_after \in RetryAfter \cup {0}
      BY <1>1 DEF CallRecord
    <3>2. \A x \in RetryAfter : x \in Nat
      BY ClientAssumption DEF ClientAssumption
    <3> QED BY <3>1, <3>2
  <2>3. MayRetry(r) /\ Sleep(r, call[r].retry_after) => IInv'
    BY <2>1, <2>2, SettleStep DEF Result
  <2>4. End(r, "rate_limited") => IInv'
    BY <2>1, SettleStep DEF Result, Open
  <2> QED BY <1>4, <2>3, <2>4 DEF RateLimited
<1>5. CASE Receive(r)
  <2> DEFINE open == {call[r].inbox} \cap Open
  <2>1. /\ call[r].phase = "sent" /\ call[r].inbox \in Status \ {"429"}
        /\ unsure' = [unsure EXCEPT ![r] = @ \cup open]
        /\ UNCHANGED <<exists, network, applied>>
        /\ open \in SUBSET (Open \cup {Unanswered})
    BY <1>1, <1>5 DEF Receive, Answered, CallRecord
  <2>2. MayRetry(r) /\ Sleep(r, 0) /\ call[r].inbox = "gateway" => IInv'
    <3> SUFFICES ASSUME MayRetry(r), Sleep(r, 0), call[r].inbox = "gateway" PROVE IInv'
      OBVIOUS
    <3>1. "gateway" \in open
      BY DEF Open
    <3> QED BY <2>1, <3>1, SettleStep DEF Result, Status
  <2>3. End(r, Handle(call[r].inbox)) => IInv'
    <3>1. Handle(call[r].inbox) \in Result
      BY DEF Handle, Result
    <3>2. /\ open # {} \/ call[r].inbox \notin Open \cup {"none"}
          /\ call[r].inbox # "none"
          /\ Handle(call[r].inbox) = "ok" <=> call[r].inbox \in {"2xx", "empty", "3xx"}
          /\ call[r].inbox = "3xx" => "3xx" \in open
      BY <2>1 DEF Handle, Open, Status
    <3> QED BY <2>1, <3>1, <3>2, SettleStep
  <2> QED BY <1>5, <2>2, <2>3 DEF Receive, Transient
<1> QED BY <1>3, <1>4, <1>5

-------------------------------------------------------------------------------
\* ISE disposes of an attempt, and its answer is a good one to a write only if
\* it carried the write out.
LEMMA ArrivalStep ==
  ASSUME IInv, NEW m \in network, network' = network \ {m}, UNCHANGED unsure,
         exists' \in BOOLEAN,
         NEW status \in Status, NEW after \in RetryAfter \cup {0}, Answer(m, status, after),
         NEW effect \in {{}, {m.n}}, applied' = [applied EXCEPT ![m.req] = @ \cup effect],
         effect # {} => status \in {"empty", "gateway", "error"},
         status \in {"2xx", "empty"} /\ Writes(m.req) => effect # {}
  PROVE  IInv'
<1> DEFINE r == m.req
<1>1. /\ r \in Request /\ m.n \in 1 .. MaxRetries + 1 /\ m \in InFlight(r)
      /\ call[r] \in CallRecord /\ ReqInv(r)
  BY DEF IInv, TypeOK, CallRecord, InFlight
<1>2. \A q \in Request : InFlight(q)' = InFlight(q) \ {m}
  BY DEF InFlight
<1>3. ASSUME NEW q \in Request, q # r PROVE ReqInv(q)'
  BY <1>1, <1>2, <1>3, OthersKeep DEF IInv, TypeOK, Answer
<1>4. \A k \in InFlight(r) : k.n = m.n => k = m
  BY <1>1 DEF InFlight, IInv, TypeOK
<1>5. applied'[r] = applied[r] \cup effect /\ unsure'[r] = unsure[r]
  BY <1>1 DEF IInv, TypeOK
<1>6. CASE call[r].phase = "sent" /\ call[r].attempt = m.n
  <2>1. call'[r] = [call[r] EXCEPT !.inbox = status, !.retry_after = after]
    BY <1>1, <1>6 DEF Answer, IInv, TypeOK
  <2>2. call'[r] \in CallRecord /\ TypeOK'
    BY <1>1, <1>6, <2>1, ClientAssumption
       DEF IInv, TypeOK, CallRecord, Answer, ClientAssumption
  <2>3. /\ call'[r].inbox = status /\ call'[r].attempt = m.n /\ call'[r].phase = "sent"
        /\ call'[r].method = call[r].method /\ call'[r].result = call[r].result
        /\ call'[r].waited = call[r].waited
    BY <1>1, <1>6, <2>1 DEF CallRecord
  <2>4. call[r].inbox = "none"
    BY <1>1, <1>6 DEF ReqInv, Position
  <2>5. Position(r)'
    BY <1>1, <1>2, <1>4, <1>6, <2>3 DEF ReqInv, Position
  <2>6. Certain(r)'
    BY <1>1, <1>2, <1>5, <1>6, <2>3, <2>4 DEF ReqInv, Certain, Open
  <2>7. Earned(r)'
    BY <1>1, <1>5, <1>6, <2>3 DEF ReqInv, Earned, Writes
  <2> QED BY <1>3, <2>2, <2>5, <2>6, <2>7 DEF IInv, ReqInv
<1>7. CASE ~(call[r].phase = "sent" /\ call[r].attempt = m.n)
  <2>1. call' = call
    BY <1>7 DEF Answer
  <2>2. TypeOK'
    BY <1>1, <2>1 DEF IInv, TypeOK
  <2>3. Position(r)'
    BY <1>1, <1>2, <1>5, <2>1 DEF ReqInv, Position
  <2>4. Certain(r)'
    BY <1>1, <1>5, <1>7 DEF ReqInv, Certain
  <2>5. Earned(r)'
    BY <1>1, <1>5, <2>1 DEF ReqInv, Earned, Writes
  <2> QED BY <1>3, <2>2, <2>3, <2>4, <2>5 DEF IInv, ReqInv
<1> QED BY <1>6, <1>7

LEMMA IseStep == ASSUME IInv, Ise PROVE IInv'
<1>1. PICK m \in network : /\ network' = network \ {m}
                           /\ CarriesOut(m) \/ TurnsAway(m) \/ Loses(m)
                           /\ UNCHANGED unsure
  BY DEF Ise
<1>2. /\ exists \in BOOLEAN /\ m.req \in Request
      /\ applied = [applied EXCEPT ![m.req] = @ \cup {}]
  BY DEF IInv, TypeOK
<1>3. CASE CarriesOut(m)
  <2> DEFINE method == call[m.req].method
             fits == IF method = "POST" THEN ~exists ELSE exists
             effect == IF fits /\ method # "GET" THEN {m.n} ELSE {}
             outcome == IF fits THEN IF method = "GET" THEN "2xx" ELSE "empty"
                        ELSE IF method = "POST" THEN "conflict" ELSE "404"
  <2>1. PICK status \in {outcome, "gateway", "error"} : Answer(m, status, 0)
    BY <1>3 DEF CarriesOut
  <2>2. status \in Status /\ exists' \in BOOLEAN
    BY <1>2, <1>3 DEF CarriesOut, Status
  <2>3. /\ applied' = [applied EXCEPT ![m.req] = @ \cup effect]
        /\ effect \in {{}, {m.n}}
        /\ effect # {} => status \in {"empty", "gateway", "error"}
        /\ status \in {"2xx", "empty"} /\ Writes(m.req) => effect # {}
    BY <1>3 DEF CarriesOut, Writes
  <2> QED BY <1>1, <2>1, <2>2, <2>3, ArrivalStep
<1>4. CASE TurnsAway(m)
  <2>1. PICK status \in {"denied", "3xx", "gateway", "429"}, after \in RetryAfter \cup {0} :
          Answer(m, status, after)
    BY <1>4 DEF TurnsAway
  <2>2. status \in Status /\ exists' \in BOOLEAN /\ applied' = [applied EXCEPT ![m.req] = @ \cup {}]
    BY <1>2, <1>4 DEF TurnsAway, Status
  <2> QED BY <1>1, <2>1, <2>2, ArrivalStep
<1>5. CASE Loses(m)
  <2>1. TypeOK'
    BY <1>1, <1>5 DEF Loses, IInv, TypeOK
  <2>2. \A q \in Request : InFlight(q)' \subseteq InFlight(q)
    BY <1>1 DEF InFlight
  <2> QED BY <1>1, <1>5, <2>1, <2>2, OthersKeep DEF Loses, IInv
<1> QED BY <1>1, <1>3, <1>4, <1>5

LEMMA IInvStep == ASSUME IInv, [Next]_vars PROVE IInv'
<1>1. ASSUME UNCHANGED <<network, call, applied, unsure>>, exists' \in BOOLEAN PROVE IInv'
  BY <1>1, OthersKeep DEF IInv, TypeOK, InFlight
<1>2. CASE Others \/ UNCHANGED vars
  BY <1>1, <1>2 DEF Others, vars, IInv, TypeOK
<1> QED BY <1>2, SendStep, ClientStep, IseStep DEF Next, Proceeds

-------------------------------------------------------------------------------
\* The inductive invariant holds in every reachable state.
THEOREM IInvHolds == Spec => []IInv
<1>1. IInv /\ [Next]_vars => IInv'
  BY IInvStep
<1> QED BY IInvInit, <1>1, PTL DEF Spec

\* Every variable of the client keeps its type; an attempt is never numbered
\* past the retry budget.
THEOREM TypeCorrect == Spec => []TypeOK
<1>1. IInv => TypeOK
  BY DEF IInv
<1> QED BY IInvHolds, <1>1, PTL

\* A write that is reported as done was carried out.
THEOREM OkIsApplied == Spec => []OkMeansApplied
<1>1. IInv => OkMeansApplied
  BY DEF IInv, ReqInv, Earned, OkMeansApplied
<1> QED BY IInvHolds, <1>1, PTL

\* A failure that no 5xx and no silence made doubtful is final.
THEOREM RefusalIsFinal == Spec => []RefusalIsHonest
<1>1. IInv => RefusalIsHonest
  BY DEF IInv, ReqInv, Certain, RefusalIsHonest
<1> QED BY IInvHolds, <1>1, PTL

\* No write is carried out twice without an attempt that went unanswered or
\* failed at a gateway.
THEOREM AtMostOnceIfSure == Spec => []TwiceOnlyIfUnsure
<1>1. ASSUME IInv PROVE TwiceOnlyIfUnsure
  <2> SUFFICES ASSUME NEW r \in Request, unsure[r] \cap {Unanswered, "gateway"} = {}
               PROVE  ~(Cardinality(applied[r]) > 1)
    BY DEF TwiceOnlyIfUnsure
  <2>1. applied[r] = {} \/ applied[r] = {call[r].attempt}
    BY <1>1 DEF IInv, ReqInv, Certain
  <2>2. Cardinality(applied[r]) \in {0, 1}
    BY <2>1, FS_EmptySet, FS_Singleton
  <2> QED BY <2>2
<1> QED BY IInvHolds, <1>1, PTL

\* A request sleeps for at most 30 * MaxRetries seconds.
THEOREM WaitBounded == Spec => []PatienceBounded
<1>1. ASSUME IInv PROVE PatienceBounded
  <2> SUFFICES ASSUME NEW r \in Request PROVE call[r].waited <= 30 * MaxRetries
    BY DEF PatienceBounded
  <2>1. Position(r) /\ call[r].attempt \in 0 .. MaxRetries + 1 /\ call[r].waited \in Nat
    BY <1>1, ClientAssumption DEF IInv, ReqInv, TypeOK, ClientAssumption
  <2>2. call[r].phase = "new" => call[r].waited = 0
    BY <2>1 DEF Position, NewCall
  <2> QED BY <2>1, <2>2, ClientAssumption DEF Position, ClientAssumption
<1> QED BY IInvHolds, <1>1, PTL

-------------------------------------------------------------------------------
\* How many steps of its own a request can still take.
Left(r) == CASE call[r].phase = "new" -> 2 * (MaxRetries + 1)
             [] call[r].phase = "sent" -> 2 * (MaxRetries + 1 - call[r].attempt) + 1
             [] call[r].phase = "backoff" -> 2 * (MaxRetries + 1 - call[r].attempt)
             [] call[r].phase = "done" -> 0

Remains == \A r \in Request : /\ Left(r) \in 0 .. 2 * (MaxRetries + 1)
                              /\ Left(r) = 0 <=> call[r].phase = "done"
RunsOut == \A r \in Request : /\ Left(r)' <= Left(r)
                              /\ Begin(r) \/ Proceeds(r) => Left(r)' < Left(r)

LEMMA LeftValue ==
  ASSUME IInv, NEW r \in Request
  PROVE  /\ call[r] \in CallRecord /\ call[r].attempt \in 0 .. MaxRetries + 1
         /\ Left(r) \in 0 .. 2 * (MaxRetries + 1)
         /\ Left(r) = 0 <=> call[r].phase = "done"
<1>1. call[r] \in CallRecord /\ call[r].attempt \in 0 .. MaxRetries + 1
  BY DEF IInv, TypeOK, CallRecord
<1>2. /\ call[r].phase \in {"sent", "backoff"} => call[r].attempt >= 1
      /\ call[r].phase = "backoff" => call[r].attempt <= MaxRetries
      /\ call[r].phase \in {"new", "sent", "backoff", "done"}
  BY <1>1 DEF IInv, ReqInv, Position, CallRecord
<1> QED BY <1>1, <1>2, ClientAssumption DEF Left, ClientAssumption

\* The retry loop runs out.  Every step that a request takes, sleeping and
\* waking included, leaves it fewer to take, and nothing that ISE or another
\* request does gives it more: with the event loop that EveryRequestEnds
\* assumes, it ends after at most 2 * (MaxRetries + 1) steps, whatever the mix of
\* transport errors, rate limits and gateway errors.
THEOREM RetriesRunOut == Spec => []Remains /\ [][RunsOut]_vars
<1>1. IInv => Remains
  BY LeftValue DEF Remains
<1>2. ASSUME IInv, Remains', [Next]_vars PROVE RunsOut
  <2> SUFFICES ASSUME NEW r \in Request
               PROVE  /\ Left(r)' <= Left(r)
                      /\ Begin(r) \/ Proceeds(r) => Left(r)' < Left(r)
    BY DEF RunsOut
  <2> USE ClientAssumption DEF ClientAssumption
  <2>1. /\ call[r] \in CallRecord /\ call[r].attempt \in 0 .. MaxRetries + 1
        /\ call \in [Request -> CallRecord]
        /\ Left(r) \in Int /\ Left(r)' \in Int
    BY <1>2, LeftValue DEF Remains, IInv, TypeOK, CallRecord
  <2>2. ASSUME NEW q \in Request, Begin(q) \/ WakeUp(q)
        PROVE  IF q = r THEN Left(r)' < Left(r) ELSE Left(r)' = Left(r)
    <3>1. CASE q # r
      BY <1>2, <2>2, <3>1 DEF Begin, WakeUp, Send, Left, IInv, TypeOK
    <3>2. CASE q = r
      <4>1. /\ call[r].phase = "new" => call[r].attempt = 0
            /\ call[r].phase \in {"new", "backoff"}
        BY <1>2, <2>2, <3>2 DEF IInv, ReqInv, Position, NewCall, Begin, WakeUp
      <4>2. call'[r].phase = "sent" /\ call'[r].attempt = call[r].attempt + 1
        <5>1. PICK m : call' = [call EXCEPT ![r].phase = "sent", ![r].method = m,
                                            ![r].attempt = @ + 1]
          BY <2>2, <3>2 DEF Begin, WakeUp, Send
        <5> QED BY <2>1, <5>1 DEF CallRecord
      <4> QED BY <2>1, <3>2, <4>1, <4>2 DEF Left
    <3> QED BY <3>1, <3>2
  <2>3. ASSUME NEW q \in Request, TransportError(q) \/ RateLimited(q) \/ Receive(q)
        PROVE  IF q = r THEN Left(r)' < Left(r) ELSE Left(r)' = Left(r)
    <3>1. CASE q # r
      BY <1>2, <2>3, <3>1
         DEF TransportError, RateLimited, Receive, Sleep, End, Left, IInv, TypeOK
    <3>2. CASE q = r
      <4>1. call[r].phase = "sent" /\ Left(r) >= 1
        <5>1. call[r].phase = "sent"
          BY <2>3, <3>2 DEF TransportError, RateLimited, Receive, Answered
        <5>2. Left(r) = 2 * (MaxRetries + 1 - call[r].attempt) + 1
          BY <5>1 DEF Left
        <5> QED BY <2>1, <5>1, <5>2
      <4>2. call'[r].phase \in {"backoff", "done"} /\ call'[r].attempt = call[r].attempt
        <5>1. \/ \E w : call' = [call EXCEPT ![r].phase = "backoff", ![r].inbox = "none",
                                 ![r].retry_after = 0, ![r].waited = w]
              \/ \E x : call' = [call EXCEPT ![r].phase = "done", ![r].inbox = "none",
                                 ![r].retry_after = 0, ![r].result = x]
          BY <2>3, <3>2 DEF TransportError, RateLimited, Receive, Sleep, End
        <5> QED BY <2>1, <5>1 DEF CallRecord
      <4> QED BY <2>1, <3>2, <4>1, <4>2 DEF Left
    <3> QED BY <3>1, <3>2
  <2>4. ASSUME Ise \/ Others \/ UNCHANGED vars PROVE Left(r)' = Left(r)
    <3>1. call'[r].phase = call[r].phase /\ call'[r].attempt = call[r].attempt
      <4>1. CASE Ise
        <5>1. PICK m \in network : CarriesOut(m) \/ TurnsAway(m) \/ Loses(m)
          BY <4>1 DEF Ise
        <5>2. PICK status, after :
                \/ call' = [call EXCEPT ![m.req].inbox = status, ![m.req].retry_after = after]
                \/ call' = call
          BY <5>1 DEF CarriesOut, TurnsAway, Loses, Answer
        <5> QED BY <2>1, <5>2 DEF CallRecord
      <4> QED BY <2>4, <4>1 DEF Others, vars
    <3> QED BY <3>1 DEF Left
  <2>5. Left(r)' <= Left(r)
    <3>1. Left(r)' < Left(r) \/ Left(r)' = Left(r)
      BY <1>2, <2>2, <2>3, <2>4 DEF Next, Proceeds
    <3> QED BY <2>1, <3>1
  <2>6. Begin(r) \/ Proceeds(r) => Left(r)' < Left(r)
    BY <2>2, <2>3 DEF Proceeds
  <2> QED BY <2>5, <2>6
<1>3. IInv /\ Remains' /\ [Next]_vars => RunsOut
  BY <1>2
<1> QED BY IInvHolds, <1>1, <1>3, PTL DEF Spec
================================================================================
