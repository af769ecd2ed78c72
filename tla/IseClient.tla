------------------------------- MODULE IseClient -------------------------------
(***************************************************************************)
(* IseClient.request() (ise/client.py): requests to ISE about one endpoint *)
(* record, each sent up to 1 + MaxRetries times.  An attempt that the      *)
(* client gave up on may still be on its way: ISE can carry it out after   *)
(* the next attempt, or after the caller was told of a failure.            *)
(***************************************************************************)
EXTENDS Integers, FiniteSets

CONSTANTS Request,        \* calls of request(), each made once
          Method,         \* the methods that are used
          MaxRetries,     \* _MAX_RETRIES
          RateLimitWait,  \* ISE_RATE_LIMIT_WAIT
          RetryAfter,     \* values of a numeric Retry-After header, 0 for none
          WaitCap         \* bound of the model: longer waits are not told apart

ASSUME ClientAssumption == /\ MaxRetries \in Nat
                           /\ RateLimitWait \in BOOLEAN
                           /\ RetryAfter \subseteq Nat
                           /\ WaitCap \in Nat
                           /\ Method \subseteq {"GET", "POST", "PUT", "DELETE"}

VARIABLES exists,    \* whether ISE has the endpoint
          network,   \* attempts on their way to ISE
          call,      \* the state of every request()
          applied,   \* history: attempts of every request that changed ISE
          unsure     \* history: answers to it that leave its effect open

vars == <<exists, network, call, applied, unsure>>

-------------------------------------------------------------------------------
\* What comes back from ISE, or from the gateways in front of it.  "2xx" has a
\* body, "empty" has none; "conflict" stands for the other 4xx, "gateway" for
\* 502-504, "error" for the other 5xx.
Status == {"2xx", "empty", "3xx", "404", "denied", "conflict", "429", "gateway", "error"}
Open == {"3xx", "gateway", "error"}
Unanswered == "unanswered"    \* an httpx.TransportError instead
Result == {"none", "ok", "not_found", "rate_limited", "ise_api_error"}

NewCall == [phase |-> "new", method |-> "none", attempt |-> 0, inbox |-> "none",
            retry_after |-> 0, waited |-> 0, result |-> "none"]

TypeOK ==
  /\ exists \in BOOLEAN
  /\ network \subseteq [req : Request, n : 1 .. MaxRetries + 1]
  /\ call \in [Request -> [phase : {"new", "sent", "backoff", "done"},
                           method : Method \cup {"none"}, attempt : 0 .. MaxRetries + 1,
                           inbox : Status \cup {"none"}, retry_after : RetryAfter \cup {0},
                           waited : 0 .. WaitCap, result : Result]]
  /\ applied \in [Request -> SUBSET (1 .. MaxRetries + 1)]
  /\ unsure \in [Request -> SUBSET (Open \cup {Unanswered})]

Init == /\ exists \in BOOLEAN
        /\ network = {}
        /\ call = [r \in Request |-> NewCall]
        /\ applied = [r \in Request |-> {}]
        /\ unsure = [r \in Request |-> {}]

-------------------------------------------------------------------------------
LesserOf(a, b) == IF a <= b THEN a ELSE b

Doubling == <<1, 2, 4, 8>>    \* min(2 ** n * 0.5, 8) for n = 1, 2, ...

MutBackoff(n, after) == IF after # 0 THEN after ELSE Doubling[LesserOf(n, 4)]
\* _backoff(): seconds of sleep after attempt n.
Backoff(n, after) == IF after # 0 THEN LesserOf(after, 30) ELSE Doubling[LesserOf(n, 4)]

MutTransient == {"gateway", "error"}
Transient == {"gateway"}

MutHandle(status) ==
  IF status \in {"2xx", "empty", "3xx", "gateway"} THEN "ok"
  ELSE IF status = "404" THEN "not_found" ELSE "ise_api_error"
MutHandleNeedsBody(status) ==
  IF status \in {"2xx", "3xx"} THEN "ok"
  ELSE IF status = "404" THEN "not_found" ELSE "ise_api_error"
\* _handle(): what the caller of request() gets for an answer that ends it.
\* Whatever is below 400 passes for success, a redirect included.
Handle(status) == IF status \in {"2xx", "empty", "3xx"} THEN "ok"
                  ELSE IF status = "404" THEN "not_found" ELSE "ise_api_error"

MayRetry(r) == call[r].attempt <= MaxRetries

\* The next attempt of r goes out.
Send(r, method) ==
  /\ call' = [call EXCEPT ![r].phase = "sent", ![r].method = method, ![r].attempt = @ + 1]
  /\ network' = network \cup {[req |-> r, n |-> call[r].attempt + 1]}

Sleep(r, after) ==
  call' = [call EXCEPT ![r].phase = "backoff", ![r].inbox = "none", ![r].retry_after = 0,
             ![r].waited = LesserOf(WaitCap, @ + Backoff(call[r].attempt, after))]

End(r, result) == call' = [call EXCEPT ![r].phase = "done", ![r].inbox = "none",
                                       ![r].retry_after = 0, ![r].result = result]

Begin(r) == /\ call[r].phase = "new"
            /\ \E m \in Method : Send(r, m)
            /\ UNCHANGED <<exists, applied, unsure>>

WakeUp(r) == /\ call[r].phase = "backoff"
             /\ Send(r, call[r].method)
             /\ UNCHANGED <<exists, applied, unsure>>

MutTransportError(r) ==
  /\ call[r].phase = "sent"
  /\ IF call[r].attempt <= MaxRetries + 1 THEN Sleep(r, 0) ELSE End(r, "ise_api_error")
  /\ unsure' = [unsure EXCEPT ![r] = @ \cup {Unanswered}]
  /\ UNCHANGED <<exists, network, applied>>

\* The connection failed or timed out, before or after ISE saw the attempt.
TransportError(r) ==
  /\ call[r].phase = "sent"
  /\ IF MayRetry(r) THEN Sleep(r, 0) ELSE End(r, "ise_api_error")
  /\ unsure' = [unsure EXCEPT ![r] = @ \cup {Unanswered}]
  /\ UNCHANGED <<exists, network, applied>>

Answered(r) == call[r].phase = "sent" /\ call[r].inbox # "none"

MutRateLimited(r) ==
  /\ Answered(r)
  /\ call[r].inbox = "429"
  /\ IF RateLimitWait
       THEN call' = [call EXCEPT ![r].phase = "backoff", ![r].inbox = "none",
                                 ![r].retry_after = 0, ![r].attempt = @ - 1]
       ELSE End(r, "rate_limited")
  /\ UNCHANGED <<exists, network, applied, unsure>>

RateLimited(r) ==
  /\ Answered(r)
  /\ call[r].inbox = "429"
  /\ IF RateLimitWait /\ MayRetry(r) THEN Sleep(r, call[r].retry_after)
                                     ELSE End(r, "rate_limited")
  /\ UNCHANGED <<exists, network, applied, unsure>>

\* Any other answer: wait and retry, or hand it to the caller.
Receive(r) ==
  /\ Answered(r)
  /\ call[r].inbox # "429"
  /\ IF call[r].inbox \in Transient /\ MayRetry(r) THEN Sleep(r, 0)
                                                   ELSE End(r, Handle(call[r].inbox))
  /\ unsure' = [unsure EXCEPT ![r] = @ \cup ({call[r].inbox} \cap Open)]
  /\ UNCHANGED <<exists, network, applied>>

-------------------------------------------------------------------------------
\* An answer reaches the client if it still waits for this attempt.
Answer(m, status, after) ==
  call' = IF call[m.req].phase = "sent" /\ call[m.req].attempt = m.n
            THEN [call EXCEPT ![m.req].inbox = status, ![m.req].retry_after = after]
            ELSE call

\* ISE carries out an attempt: a create needs the endpoint absent, all else
\* needs it present.  A gateway may replace the answer by its own.
CarriesOut(m) ==
  LET method == call[m.req].method
      fits == IF method = "POST" THEN ~exists ELSE exists
      refusal == IF method = "POST" THEN "conflict" ELSE "404"
      done == IF method = "GET" THEN "2xx" ELSE "empty"
  IN  /\ exists' = IF fits THEN method # "DELETE" ELSE exists
      /\ applied' = [applied EXCEPT ![m.req] = @ \cup
                      IF fits /\ method # "GET" THEN {m.n} ELSE {}]
      /\ \E status \in {IF fits THEN done ELSE refusal, "gateway", "error"} :
           Answer(m, status, 0)

\* It is turned away: not this account, not here, not now, or no node up.
TurnsAway(m) ==
  /\ \/ \E status \in {"denied", "3xx", "gateway"} : Answer(m, status, 0)
     \/ \E after \in RetryAfter \cup {0} : Answer(m, "429", after)
  /\ UNCHANGED <<exists, applied>>

\* The attempt never arrives; the client will find out.
Loses(m) == UNCHANGED <<exists, applied, call>>

Ise == \E m \in network : /\ network' = network \ {m}
                          /\ CarriesOut(m) \/ TurnsAway(m) \/ Loses(m)
                          /\ UNCHANGED unsure

\* Another client of ISE, or another request of this server, adds or removes
\* the endpoint in between.
Others == exists' = ~exists /\ UNCHANGED <<network, call, applied, unsure>>

Proceeds(r) == WakeUp(r) \/ TransportError(r) \/ RateLimited(r) \/ Receive(r)

Next == (\E r \in Request : Begin(r) \/ Proceeds(r)) \/ Ise \/ Others

\* The event loop wakes sleepers, and httpx's timeout ends every wait for ISE,
\* which itself owes nobody an answer.
Spec == Init /\ [][Next]_vars /\ \A r \in Request : WF_vars(Proceeds(r))

-------------------------------------------------------------------------------
Writes(r) == call[r].method \in Method \ {"GET"}
InFlight(r) == {m \in network : m.req = r}

\* A write that is reported as done was carried out, on whichever attempt,
\* except where a redirect was taken for success.
OkMeansApplied ==
  \A r \in Request : call[r].result = "ok" /\ Writes(r) /\ "3xx" \notin unsure[r]
                       => applied[r] # {}

\* The converse: a failure is final unless some attempt went unanswered or was
\* answered by a 5xx.  Otherwise a write reported as failed has not happened,
\* and no attempt of it is left that could still make it happen.
RefusalIsHonest ==
  \A r \in Request :
    call[r].phase = "done" /\ call[r].result # "ok" /\ unsure[r] = {}
      => applied[r] = {} /\ InFlight(r) = {}

\* A write is carried out twice only when an earlier attempt of it went
\* unanswered or failed at a gateway: no other answer is followed by a retry.
TwiceOnlyIfUnsure ==
  \A r \in Request :
    Cardinality(applied[r]) > 1 => unsure[r] \cap {Unanswered, "gateway"} # {}

\* Transport errors, rate limits and gateway errors share one budget: whatever
\* their mix and whatever Retry-After asks for, a request sleeps at most
\* MaxRetries times, 30 s each.
PatienceBounded == \A r \in Request : call[r].waited <= 30 * MaxRetries

\* Every request comes to an end, though ISE may never answer, or answer 429
\* for ever.
EveryRequestEnds ==
  \A r \in Request : call[r].phase = "sent" ~> call[r].phase = "done"
================================================================================
