-------------------------- MODULE PolicyContextProofs --------------------------
(***************************************************************************)
(* What the policy context and its narrative may be relied on for, for     *)
(* every set of groups, profiles and sessions and any number of changes of *)
(* ISE during the call: what is missing is explained, what is reported was *)
(* true, and nothing that was learnt is lost.                              *)
(***************************************************************************)
EXTENDS PolicyContext, FiniteSetTheorems, SequenceTheorems, TLAPS

-------------------------------------------------------------------------------
\* Where the call stands, by the requests that are left.
AtStart == todo = <<"endpoint", "session", "auth">>
AtGroup == todo \in {<<"group", "profile", "session", "auth">>, <<"group", "session", "auth">>}
AtProfile == todo = <<"profile", "session", "auth">>
AtSession == todo = <<"session", "auth">>
AtAuth == todo = <<"auth">>
AtEnd == todo = <<>>

\* The outcome of a request is there, or one note says what became of it.
Settled(part, v) ==
  IF v = None THEN \E e \in Error : NotesOn(part) = {[part |-> part, error |-> e]}
              ELSE NotesOn(part) = {}

Progress ==
  /\ AtStart \/ AtGroup \/ AtProfile \/ AtSession \/ AtAuth \/ AtEnd
  /\ outcome = "ok" => AtEnd
  /\ IF AtStart THEN ctx.endpoint = None /\ NotesOn("endpoint") = {}
                ELSE Settled("endpoint", ctx.endpoint)
  /\ IF AtAuth \/ AtEnd THEN Settled("session", ctx.active_session)
                        ELSE /\ ctx.active_session = None /\ ctx.security_group = None
                             /\ NotesOn("session") = {}
  /\ ~AtEnd => NotesOn("auth") = {} /\ ctx.recent_auth = "empty"
  /\ NotesOn("auth") # {} => ctx.recent_auth = "empty"
  /\ AtGroup => ctx.endpoint # None /\ ctx.endpoint.identity_group_id # None
  /\ AtProfile \/ todo = <<"group", "profile", "session", "auth">> =>
       ctx.endpoint # None /\ ctx.endpoint.profile_id # None

\* The parts of ReportWasTrue.
EndpointTrue ==
  ctx.endpoint # None /\ ctx.endpoint.mac # None =>
    /\ \E i \in past : i.endpoint = [mac |-> ctx.endpoint.mac,
                                    group |-> ctx.endpoint.identity_group_id,
                                    profile |-> ctx.endpoint.profile_id]
    /\ ctx.endpoint.identity_group # None =>
         \E i \in past : i.group[ctx.endpoint.identity_group_id] = ctx.endpoint.identity_group
    /\ ctx.endpoint.profile # None =>
         \E i \in past : i.profile[ctx.endpoint.profile_id] = ctx.endpoint.profile
SessionTrue ==
  /\ ctx.active_session # None /\ ctx.active_session.mac # None =>
       \E i \in past : i.session = ctx.active_session
  /\ ctx.security_group # None =>
       ctx.active_session # None /\ ctx.security_group = ctx.active_session.sgt
HistoryTrue == ctx.recent_auth = "records" => \E i \in past : i.history
Absent(i, part) == CASE part = "endpoint" -> i.endpoint = None
                     [] part = "session" -> i.session = None
                     [] part = "auth" -> ~i.history
NotesTrue == \A n \in ctx.notes : n.error = "NotFoundError" => \E i \in past : Absent(i, n.part)

IInv == /\ TypeOK /\ ise \in past /\ Progress
        /\ EndpointTrue /\ SessionTrue /\ HistoryTrue /\ NotesTrue

-------------------------------------------------------------------------------
LEMMA IInvInit == Init => IInv
<1> SUFFICES ASSUME Init PROVE IInv
  OBVIOUS
<1>1. TypeOK
  BY DEF Init, TypeOK, Context
<1> QED BY <1>1 DEF Init, IInv, Progress, AtStart, AtGroup, AtProfile, AtSession, AtAuth,
        AtEnd, NotesOn, EndpointTrue, SessionTrue, HistoryTrue, NotesTrue

\* A note is added about a request that failed.
LEMMA NotedFacts ==
  ASSUME TypeOK, NEW part \in Part, NEW error \in Error, ctx' = Noted(part, error)
  PROVE  /\ ctx' \in Context
         /\ ctx'.notes = ctx.notes \cup {[part |-> part, error |-> error]}
         /\ ctx'.endpoint = ctx.endpoint /\ ctx'.active_session = ctx.active_session
         /\ ctx'.security_group = ctx.security_group /\ ctx'.recent_auth = ctx.recent_auth
         /\ NotesOn(part)' = NotesOn(part) \cup {[part |-> part, error |-> error]}
         /\ \A p \in Part : p # part => NotesOn(p)' = NotesOn(p)
<1>1. [part |-> part, error |-> error] \in Note
  BY DEF Note
<1>2. ctx \in Context
  BY DEF TypeOK
<1>3. /\ ctx' \in Context
      /\ ctx'.notes = ctx.notes \cup {[part |-> part, error |-> error]}
      /\ ctx'.endpoint = ctx.endpoint /\ ctx'.active_session = ctx.active_session
      /\ ctx'.security_group = ctx.security_group /\ ctx'.recent_auth = ctx.recent_auth
  BY <1>1, <1>2 DEF Noted, Context
<1> QED BY <1>3 DEF NotesOn

\* What stays true while ISE changes, or when a note is added that is true.
LEMMA NotedTrue ==
  ASSUME IInv, NEW part \in Part, NEW error \in Error, ctx' = Noted(part, error),
         UNCHANGED <<ise, past>>,
         error = "NotFoundError" => Absent(ise, part)
  PROVE  EndpointTrue' /\ SessionTrue' /\ HistoryTrue' /\ NotesTrue'
<1> DEFINE n == [part |-> part, error |-> error]
<1>1. ctx'.notes = ctx.notes \cup {n} /\ n.part = part /\ n.error = error
  BY NotedFacts DEF IInv
<1>2. EndpointTrue' /\ SessionTrue' /\ HistoryTrue'
  BY NotedFacts DEF IInv, EndpointTrue, SessionTrue, HistoryTrue
<1> HIDE DEF n
<1>3. NotesTrue'
  BY <1>1 DEF IInv, NotesTrue, Absent
<1> QED BY <1>2, <1>3

-------------------------------------------------------------------------------
\* What the next request is and what remains after it.
LEMMA Queue ==
  ASSUME Progress
  PROVE  /\ Asks("endpoint") => AtStart /\ Tail(todo) = <<"session", "auth">>
         /\ Asks("group") => /\ AtGroup
                             /\ Tail(todo) = IF todo = <<"group", "session", "auth">>
                                  THEN <<"session", "auth">>
                                  ELSE <<"profile", "session", "auth">>
         /\ Asks("profile") => AtProfile /\ Tail(todo) = <<"session", "auth">>
         /\ Asks("session") => AtSession /\ Tail(todo) = <<"auth">>
         /\ Asks("auth") => AtAuth /\ Tail(todo) = <<>>
<1>1. CASE AtStart
  BY <1>1 DEF AtStart, Asks
<1>2. CASE todo = <<"group", "profile", "session", "auth">>
  BY <1>2 DEF AtGroup, Asks
<1>3. CASE todo = <<"group", "session", "auth">>
  BY <1>3 DEF AtGroup, Asks
<1>4. CASE AtProfile
  BY <1>4 DEF AtProfile, Asks
<1>5. CASE AtSession
  BY <1>5 DEF AtSession, Asks
<1>6. CASE AtAuth
  BY <1>6 DEF AtAuth, Asks
<1>7. CASE AtEnd
  BY <1>7 DEF AtEnd, Asks
<1> QED BY <1>1, <1>2, <1>3, <1>4, <1>5, <1>6, <1>7 DEF Progress, AtGroup

\* The stages are different queues.
LEMMA Apart ==
  /\ AtStart => ~AtGroup /\ ~AtProfile /\ ~AtSession /\ ~AtAuth /\ ~AtEnd
  /\ AtGroup => ~AtProfile /\ ~AtSession /\ ~AtAuth /\ ~AtEnd
  /\ AtProfile => ~AtSession /\ ~AtAuth /\ ~AtEnd
  /\ AtSession => ~AtAuth /\ ~AtEnd
  /\ AtAuth => ~AtEnd
BY DEF AtStart, AtGroup, AtProfile, AtSession, AtAuth, AtEnd

LEMMA StageOf ==
  ASSUME todo' = <<"profile", "session", "auth">> \/ todo' = <<"session", "auth">>
  PROVE  ~AtStart' /\ ~AtGroup' /\ ~AtAuth' /\ ~AtEnd'
         /\ todo' # <<"group", "profile", "session", "auth">>
<1>1. CASE todo' = <<"profile", "session", "auth">>
  BY <1>1 DEF AtStart, AtGroup, AtAuth, AtEnd
<1>2. CASE todo' = <<"session", "auth">>
  BY <1>2 DEF AtStart, AtGroup, AtAuth, AtEnd
<1> QED BY <1>1, <1>2

LEMMA QueueTyped ==
  LET Rest == Seq({"endpoint", "group", "profile", "session", "auth"})
  IN  /\ <<"group", "profile", "session", "auth">> \in Rest
      /\ <<"group", "session", "auth">> \in Rest
      /\ <<"profile", "session", "auth">> \in Rest
      /\ <<"session", "auth">> \in Rest
      /\ <<"auth">> \in Rest
      /\ <<>> \in Rest
OBVIOUS

LEMMA EndpointFailsStep == ASSUME IInv, EndpointFails PROVE IInv'
<1>1. PICK error \in Raises(ise.endpoint # None) \cup {"AttributeError"} :
        ctx' = Noted("endpoint", error)
  BY DEF EndpointFails
<1>2. error \in Error /\ (error = "NotFoundError" => ise.endpoint = None)
  BY DEF Raises, Error
<1>3. UNCHANGED <<ise, past, unread, outcome>> /\ todo' = Tail(todo) /\ Asks("endpoint")
  BY DEF EndpointFails, Untouched
<1>4. AtStart /\ AtSession' /\ outcome' = "none"
  BY <1>3, Queue DEF IInv, AtSession, Asks
<1>5. EndpointTrue' /\ SessionTrue' /\ HistoryTrue' /\ NotesTrue'
  BY <1>1, <1>2, <1>3, NotedTrue DEF Part, Absent
<1>6. /\ ctx' \in Context
      /\ ctx'.endpoint = None /\ ctx'.active_session = None /\ ctx'.security_group = None
      /\ ctx'.recent_auth = "empty"
      /\ NotesOn("endpoint")' = {[part |-> "endpoint", error |-> error]}
      /\ NotesOn("session")' = {} /\ NotesOn("auth")' = {}
  BY <1>1, <1>2, <1>4, Apart, NotedFacts DEF IInv, Progress, Part
<1>7. TypeOK'
  <2>1. todo' \in Seq({"endpoint", "group", "profile", "session", "auth"})
    BY <1>4, QueueTyped DEF AtSession
  <2> QED BY <1>3, <1>6, <2>1 DEF IInv, TypeOK
<1>8. Settled("endpoint", ctx.endpoint)'
  BY <1>2, <1>6 DEF Settled
<1>9. ~AtStart' /\ ~AtGroup' /\ ~AtProfile' /\ ~AtAuth' /\ ~AtEnd'
      /\ ~(todo' = <<"group", "profile", "session", "auth">>)
  BY <1>4 DEF AtStart, AtGroup, AtProfile, AtSession, AtAuth, AtEnd
<1>10. Progress'
  BY <1>4, <1>6, <1>8, <1>9 DEF Progress
<1> QED BY <1>3, <1>5, <1>7, <1>10 DEF IInv

\* The summary of what ISE answered: its ids are those of the record.
LEMMA Summarized ==
  ASSUME NEW ep \in Endpoint
  PROVE  /\ Summarize(ep) \in Summary /\ Summarize(ep) # None
         /\ Summarize(ep).mac = ep.mac /\ ep.mac = Mac
         /\ Summarize(ep).identity_group_id = ep.group /\ Summarize(ep).profile_id = ep.profile
         /\ Summarize(ep).identity_group = None /\ Summarize(ep).profile = None
         /\ ep = [mac |-> ep.mac, group |-> ep.group, profile |-> ep.profile]
<1>1. Blank \in Summary
  BY DEF Blank, Summary
<1>2. /\ Summarize(ep) \in Summary /\ Summarize(ep).mac = ep.mac /\ ep.mac = Mac
      /\ Summarize(ep).identity_group_id = ep.group /\ Summarize(ep).profile_id = ep.profile
      /\ Summarize(ep).identity_group = Blank.identity_group
      /\ Summarize(ep).profile = Blank.profile
  BY <1>1 DEF Summarize, Endpoint, Summary
<1>3. Blank.identity_group = None /\ Blank.profile = None
  BY DEF Blank
<1> QED BY <1>2, <1>3, RecordAssumption DEF Endpoint

\* A sequence is known by its parts.
LEMMA Joined ==
  ASSUME NEW S, NEW s \in Seq(S), NEW t \in Seq(S), NEW u \in Seq(S),
         Len(u) = Len(s) + Len(t),
         \A i \in 1 .. Len(s) : u[i] = s[i],
         \A i \in 1 .. Len(t) : u[Len(s) + i] = t[i]
  PROVE  s \o t = u
<1>1. /\ s \o t \in Seq(S) /\ Len(s \o t) = Len(u)
      /\ \A i \in 1 .. Len(s) + Len(t) : (s \o t)[i] = IF i <= Len(s) THEN s[i]
                                                        ELSE t[i - Len(s)]
  BY ConcatProperties
<1>2. ASSUME NEW i \in 1 .. Len(u) PROVE (s \o t)[i] = u[i]
  <2>1. CASE i <= Len(s)
    BY <1>1, <2>1, LenProperties
  <2>2. CASE ~(i <= Len(s))
    <3>1. i - Len(s) \in 1 .. Len(t) /\ i = Len(s) + (i - Len(s))
      BY <2>2, LenProperties
    <3>2. u[Len(s) + (i - Len(s))] = t[i - Len(s)]
      BY <3>1
    <3> QED BY <1>1, <2>2, <3>1, <3>2
  <2> QED BY <2>1, <2>2
<1> QED BY <1>1, <1>2, SeqEqual

LEMMA Prepended ==
  ASSUME NEW S, NEW a \in S, NEW t \in Seq(S), NEW u \in Seq(S), Len(u) = Len(t) + 1,
         u[1] = a, \A i \in 1 .. Len(t) : u[1 + i] = t[i]
  PROVE  <<a>> \o t = u
<1>1. PICK s : s = <<a>>
  OBVIOUS
<1>2. s \in Seq(S) /\ Len(s) = 1 /\ s[1] = a
  BY <1>1
<1>3. \A i \in 1 .. Len(s) : u[i] = s[i]
  BY <1>2
<1>4. \A i \in 1 .. Len(t) : u[Len(s) + i] = t[i]
  BY <1>2
<1>5. Len(u) = Len(s) + Len(t)
  BY <1>2, LenProperties
<1> QED BY <1>1, <1>2, <1>3, <1>4, <1>5, Joined, Zenon

LEMMA PrependedToTwo ==
  ASSUME NEW S, NEW a \in S, NEW b \in S, NEW c \in S
  PROVE  <<a>> \o <<b, c>> = <<a, b, c>>
<1>1. PICK t, u : t = <<b, c>> /\ u = <<a, b, c>>
  OBVIOUS
<1>2. /\ t \in Seq(S) /\ Len(t) = 2 /\ t[1] = b /\ t[2] = c
      /\ u \in Seq(S) /\ Len(u) = 3 /\ u[1] = a /\ u[2] = b /\ u[3] = c
  BY <1>1
<1>3. Len(u) = Len(t) + 1 /\ \A i \in 1 .. Len(t) : u[1 + i] = t[i]
  BY <1>2
<1> QED BY <1>1, <1>2, <1>3, Prepended, Zenon

LEMMA PrependedToThree ==
  ASSUME NEW S, NEW a \in S, NEW b \in S, NEW c \in S, NEW d \in S
  PROVE  <<a>> \o <<b, c, d>> = <<a, b, c, d>>
<1>1. PICK t, u : t = <<b, c, d>> /\ u = <<a, b, c, d>>
  OBVIOUS
<1>2. /\ t \in Seq(S) /\ Len(t) = 3 /\ t[1] = b /\ t[2] = c /\ t[3] = d
      /\ u \in Seq(S) /\ Len(u) = 4 /\ u[1] = a /\ u[2] = b /\ u[3] = c /\ u[4] = d
  BY <1>1
<1>3. Len(u) = Len(t) + 1 /\ \A i \in 1 .. Len(t) : u[1 + i] = t[i]
  BY <1>2
<1> QED BY <1>1, <1>2, <1>3, Prepended, Zenon

\* The requests that are left once the endpoint is known.
LEMMA Enriched ==
  LET rest == <<"session", "auth">>
  IN  /\ (<<>> \o <<>>) \o rest = rest
      /\ (<<"group">> \o <<>>) \o rest = <<"group", "session", "auth">>
      /\ (<<>> \o <<"profile">>) \o rest = <<"profile", "session", "auth">>
      /\ (<<"group">> \o <<"profile">>) \o rest = <<"group", "profile", "session", "auth">>
<1> DEFINE rest == <<"session", "auth">>
           Tag == {"endpoint", "group", "profile", "session", "auth"}
<1>1. rest \in Seq(Tag) /\ <<"group">> \in Seq(Tag) /\ <<"profile">> \in Seq(Tag)
      /\ <<>> \in Seq(Tag)
  OBVIOUS
<1>2. <<>> \o <<>> = <<>> /\ <<"group">> \o <<>> = <<"group">>
      /\ <<>> \o <<"profile">> = <<"profile">> /\ <<>> \o rest = rest
  BY <1>1, ConcatEmptySeq
<1>3. (<<"group">> \o <<"profile">>) \o rest = <<"group">> \o (<<"profile">> \o rest)
  BY <1>1, ConcatAssociative
<1>4. /\ <<"group">> \o rest = <<"group", "session", "auth">>
      /\ <<"profile">> \o rest = <<"profile", "session", "auth">>
      /\ <<"group">> \o <<"profile", "session", "auth">>
           = <<"group", "profile", "session", "auth">>
  <2>1. "group" \in Tag /\ "profile" \in Tag /\ "session" \in Tag /\ "auth" \in Tag
    OBVIOUS
  <2> HIDE DEF Tag
  <2>2. <<"group">> \o <<"session", "auth">> = <<"group", "session", "auth">>
    BY <2>1, PrependedToTwo, Zenon
  <2>3. <<"profile">> \o <<"session", "auth">> = <<"profile", "session", "auth">>
    BY <2>1, PrependedToTwo, Zenon
  <2>4. <<"group">> \o <<"profile", "session", "auth">>
          = <<"group", "profile", "session", "auth">>
    BY <2>1, PrependedToThree, Zenon
  <2> QED BY <2>2, <2>3, <2>4, Zenon
<1> QED BY <1>2, <1>3, <1>4, Zenon

LEMMA EndpointFoundStep == ASSUME IInv, EndpointFound PROVE IInv'
<1>1. UNCHANGED <<ise, past, outcome>> /\ Asks("endpoint") /\ unread' \subseteq Part
  BY DEF EndpointFound, IInv, TypeOK, Part
<1>2. AtStart /\ Tail(todo) = <<"session", "auth">> /\ outcome' = "none"
  BY <1>1, Queue DEF IInv, Asks
<1>3. ctx \in Context /\ NotesOn("endpoint") = {} /\ NotesOn("session") = {}
      /\ NotesOn("auth") = {} /\ ctx.active_session = None /\ ctx.security_group = None
      /\ ctx.recent_auth = "empty"
  BY <1>2, Apart DEF IInv, TypeOK, Progress
<1>4. PICK a \in Found(ise.endpoint) \cup Other :
        IF a.kind = "found"
          THEN /\ ctx' = [ctx EXCEPT !.endpoint = Summarize(a.value)]
               /\ todo' = Enrichments(a.value) \o Tail(todo)
          ELSE /\ ctx' = [ctx EXCEPT !.endpoint = Blank]
               /\ todo' = Tail(todo)
  BY DEF EndpointFound
<1>5. ASSUME NEW v \in Summary, ctx' = [ctx EXCEPT !.endpoint = v]
      PROVE  /\ ctx' \in Context /\ ctx'.endpoint = v /\ v # None
             /\ NotesOn("endpoint")' = {} /\ NotesOn("session")' = {} /\ NotesOn("auth")' = {}
             /\ ctx'.active_session = None /\ ctx'.security_group = None
             /\ ctx'.recent_auth = "empty" /\ Settled("endpoint", ctx.endpoint)'
             /\ SessionTrue' /\ HistoryTrue' /\ NotesTrue'
  <2>1. /\ ctx' \in Context /\ ctx'.endpoint = v /\ v # None
        /\ ctx'.active_session = None /\ ctx'.security_group = None
        /\ ctx'.recent_auth = "empty" /\ ctx'.notes = ctx.notes
    BY <1>3, <1>5, RecordAssumption DEF Context
  <2>2. NotesOn("endpoint")' = {} /\ NotesOn("session")' = {} /\ NotesOn("auth")' = {}
    BY <1>3, <2>1 DEF NotesOn
  <2>3. SessionTrue' /\ HistoryTrue' /\ NotesTrue'
    BY <1>1, <2>1 DEF IInv, SessionTrue, HistoryTrue, NotesTrue, Absent
  <2> QED BY <2>1, <2>2, <2>3 DEF Settled
<1>6. ASSUME NEW v \in Summary, ctx' = [ctx EXCEPT !.endpoint = v], EndpointTrue',
             \/ todo' = <<"session", "auth">>
             \/ todo' = <<"group", "session", "auth">> /\ v.identity_group_id # None
             \/ todo' = <<"profile", "session", "auth">> /\ v.profile_id # None
             \/ /\ todo' = <<"group", "profile", "session", "auth">>
                /\ v.identity_group_id # None /\ v.profile_id # None
      PROVE  IInv'
  <2>1. TypeOK'
    BY <1>1, <1>5, <1>6, QueueTyped DEF IInv, TypeOK
  <2>2. ~AtStart' /\ ~AtAuth' /\ ~AtEnd' /\ (AtGroup' \/ AtProfile' \/ AtSession')
        /\ (AtGroup' => v.identity_group_id # None)
        /\ (AtProfile' \/ todo' = <<"group", "profile", "session", "auth">>
              => v.profile_id # None)
    BY <1>6 DEF AtStart, AtGroup, AtProfile, AtSession, AtAuth, AtEnd
  <2>3. Progress'
    BY <1>2, <1>5, <1>6, <2>2 DEF Progress
  <2> QED BY <1>1, <1>5, <1>6, <2>1, <2>3 DEF IInv
<1>7. CASE a.kind = "found"
  <2>1. a.value = ise.endpoint /\ a.value \in Endpoint
    <3>1. a.value = ise.endpoint /\ ise.endpoint # None
      BY <1>7 DEF Found, Other
    <3> QED BY <3>1 DEF IInv, TypeOK, IseState
  <2>2. PICK v : v = Summarize(a.value)
    OBVIOUS
  <2>3. ctx' = [ctx EXCEPT !.endpoint = v] /\ v \in Summary
    BY <1>4, <1>7, <2>1, <2>2, Summarized
  <2>4. EndpointTrue'
    <3>1. ctx'.endpoint = v
      BY <1>5, <2>3
    <3>2. ise.endpoint = [mac |-> v.mac, group |-> v.identity_group_id,
                          profile |-> v.profile_id]
          /\ v.identity_group = None /\ v.profile = None
      BY <2>1, <2>2, Summarized
    <3> QED BY <1>1, <3>1, <3>2 DEF IInv, EndpointTrue
  <2>5. todo' = Enrichments(a.value) \o <<"session", "auth">>
    BY <1>2, <1>4, <1>7
  <2>6. v.identity_group_id = a.value.group /\ v.profile_id = a.value.profile
    BY <2>1, <2>2, Summarized
  <2>7. \/ todo' = <<"session", "auth">>
        \/ todo' = <<"group", "session", "auth">> /\ v.identity_group_id # None
        \/ todo' = <<"profile", "session", "auth">> /\ v.profile_id # None
        \/ /\ todo' = <<"group", "profile", "session", "auth">>
           /\ v.identity_group_id # None /\ v.profile_id # None
    <3>1. Enrichments(a.value) = (IF v.identity_group_id # None THEN <<"group">> ELSE <<>>)
                                 \o (IF v.profile_id # None THEN <<"profile">> ELSE <<>>)
      BY <2>6 DEF Enrichments
    <3> QED BY <2>5, <3>1, Enriched
  <2> QED BY <1>6, <2>3, <2>4, <2>7
<1>8. CASE a.kind # "found"
  <2>1. ctx' = [ctx EXCEPT !.endpoint = Blank] /\ Blank \in Summary
        /\ todo' = <<"session", "auth">>
    BY <1>2, <1>4, <1>8 DEF Blank, Summary
  <2>2. EndpointTrue'
    BY <1>5, <2>1 DEF EndpointTrue, Blank
  <2> QED BY <1>6, <2>1, <2>2
<1> QED BY <1>7, <1>8

-------------------------------------------------------------------------------
\* A name of the group or the profile is filled in, or left out.
LEMMA NameStep ==
  ASSUME IInv, NEW v \in Summary, ctx' = [ctx EXCEPT !.endpoint = v], EndpointTrue',
         UNCHANGED <<ise, past, unread, outcome>>, todo' = Tail(todo), ctx.endpoint # None,
         v.profile_id = ctx.endpoint.profile_id,
         Asks("group") \/ Asks("profile")
  PROVE  IInv'
<1>1. /\ AtGroup \/ AtProfile
      /\ Tail(todo) = IF todo = <<"group", "profile", "session", "auth">>
                        THEN <<"profile", "session", "auth">> ELSE <<"session", "auth">>
      /\ outcome' = "none"
  BY Queue DEF IInv, Asks, AtGroup, AtProfile
<1>2. /\ ctx \in Context /\ NotesOn("endpoint") = {} /\ NotesOn("session") = {}
      /\ NotesOn("auth") = {} /\ ctx.active_session = None /\ ctx.security_group = None
      /\ ctx.recent_auth = "empty"
  BY <1>1, Apart DEF IInv, TypeOK, Progress, Settled
<1>3. /\ ctx' \in Context /\ ctx'.endpoint = v /\ v # None
      /\ ctx'.active_session = None /\ ctx'.security_group = None
      /\ ctx'.recent_auth = "empty" /\ ctx'.notes = ctx.notes
  BY <1>2, RecordAssumption DEF Context
<1>4. NotesOn("endpoint")' = {} /\ NotesOn("session")' = {} /\ NotesOn("auth")' = {}
  BY <1>2, <1>3 DEF NotesOn
<1>5. SessionTrue' /\ HistoryTrue' /\ NotesTrue'
  BY <1>3 DEF IInv, SessionTrue, HistoryTrue, NotesTrue, Absent
<1>6. TypeOK'
  BY <1>1, <1>3, QueueTyped DEF IInv, TypeOK
<1>7. AtProfile' => v.profile_id # None
  BY <1>1 DEF IInv, Progress, AtProfile, AtGroup
<1>8. /\ ~AtStart' /\ ~AtGroup' /\ ~AtAuth' /\ ~AtEnd' /\ (AtProfile' \/ AtSession')
      /\ todo' # <<"group", "profile", "session", "auth">>
  <2>1. todo' = <<"profile", "session", "auth">> \/ todo' = <<"session", "auth">>
    BY <1>1
  <2>2. AtProfile' \/ AtSession'
    BY <2>1 DEF AtProfile, AtSession
  <2> QED BY <2>1, <2>2, StageOf
<1>9. Settled("endpoint", ctx.endpoint)'
  BY <1>3, <1>4 DEF Settled
<1>10. Progress'
  BY <1>1, <1>3, <1>4, <1>7, <1>8, <1>9 DEF Progress
<1> QED BY <1>5, <1>6, <1>10 DEF IInv

LEMMA GroupAnswerStep == ASSUME IInv, GroupAnswer PROVE IInv'
<1>1. UNCHANGED <<ise, past, unread, outcome>> /\ todo' = Tail(todo) /\ Asks("group")
  BY DEF GroupAnswer, Untouched
<1>2. AtGroup
  BY <1>1, Queue DEF IInv
<1>3. PICK ep : ep = ctx.endpoint
  OBVIOUS
<1>4. ep # None /\ ep \in Summary /\ ep.identity_group_id \in GroupId
  BY <1>2, <1>3 DEF IInv, TypeOK, Context, Summary, Progress
<1>5. PICK name \in {ise.group[ep.identity_group_id], None} :
        ctx' = [ctx EXCEPT !.endpoint.identity_group = name]
  BY <1>3 DEF GroupAnswer
<1>6. PICK v : v = [ep EXCEPT !.identity_group = name]
  OBVIOUS
<1>7. name \in Name \cup {None}
  BY <1>4, <1>5 DEF IInv, TypeOK, IseState
<1>8. /\ v \in Summary /\ v.identity_group = name /\ v.profile = ep.profile
      /\ v.identity_group_id = ep.identity_group_id /\ v.profile_id = ep.profile_id
      /\ v.mac = ep.mac
  BY <1>4, <1>6, <1>7 DEF Summary
<1>9. ctx' = [ctx EXCEPT !.endpoint = v] /\ ctx'.endpoint = v
  <2>1. ctx \in Context
    BY DEF IInv, TypeOK
  <2> QED BY <1>3, <1>5, <1>6, <2>1 DEF Context
<1>10. EndpointTrue'
  BY <1>1, <1>3, <1>4, <1>5, <1>8, <1>9 DEF IInv, EndpointTrue
<1> QED BY <1>1, <1>3, <1>4, <1>8, <1>9, <1>10, NameStep

LEMMA ProfileAnswerStep == ASSUME IInv, ProfileAnswer PROVE IInv'
<1>1. UNCHANGED <<ise, past, unread, outcome>> /\ todo' = Tail(todo) /\ Asks("profile")
  BY DEF ProfileAnswer, Untouched
<1>2. AtProfile
  BY <1>1, Queue DEF IInv
<1>3. PICK ep : ep = ctx.endpoint
  OBVIOUS
<1>4. ep # None /\ ep \in Summary /\ ep.profile_id \in ProfileId
  BY <1>2, <1>3 DEF IInv, TypeOK, Context, Summary, Progress
<1>5. PICK name \in {ise.profile[ep.profile_id], None} :
        ctx' = [ctx EXCEPT !.endpoint.profile = name]
  BY <1>3 DEF ProfileAnswer
<1>6. PICK v : v = [ep EXCEPT !.profile = name]
  OBVIOUS
<1>7. name \in Name \cup {None}
  BY <1>4, <1>5 DEF IInv, TypeOK, IseState
<1>8. /\ v \in Summary /\ v.profile = name /\ v.identity_group = ep.identity_group
      /\ v.identity_group_id = ep.identity_group_id /\ v.profile_id = ep.profile_id
      /\ v.mac = ep.mac
  BY <1>4, <1>6, <1>7 DEF Summary
<1>9. ctx' = [ctx EXCEPT !.endpoint = v] /\ ctx'.endpoint = v
  <2>1. ctx \in Context
    BY DEF IInv, TypeOK
  <2> QED BY <1>3, <1>5, <1>6, <2>1 DEF Context
<1>10. EndpointTrue'
  BY <1>1, <1>3, <1>4, <1>5, <1>8, <1>9 DEF IInv, EndpointTrue
<1> QED BY <1>1, <1>3, <1>4, <1>8, <1>9, <1>10, NameStep

-------------------------------------------------------------------------------
LEMMA SessionFailsStep == ASSUME IInv, SessionFails PROVE IInv'
<1>1. PICK error \in Raises(ise.session # None) : ctx' = Noted("session", error)
  BY DEF SessionFails
<1>2. error \in Error /\ (error = "NotFoundError" => ise.session = None)
  BY DEF Raises, Error
<1>3. UNCHANGED <<ise, past, unread, outcome>> /\ todo' = Tail(todo) /\ Asks("session")
  BY DEF SessionFails, Untouched
<1>4. AtSession /\ AtAuth' /\ outcome' = "none"
  BY <1>3, Queue DEF IInv, AtAuth, Asks
<1>5. EndpointTrue' /\ SessionTrue' /\ HistoryTrue' /\ NotesTrue'
  BY <1>1, <1>2, <1>3, NotedTrue DEF Part, Absent
<1>6. /\ ctx' \in Context
      /\ ctx'.endpoint = ctx.endpoint /\ ctx'.active_session = None
      /\ ctx'.recent_auth = "empty" /\ NotesOn("endpoint")' = NotesOn("endpoint")
      /\ NotesOn("session")' = {[part |-> "session", error |-> error]}
      /\ NotesOn("auth")' = {}
  BY <1>1, <1>2, <1>4, Apart, NotedFacts DEF IInv, Progress, Part
<1>7. TypeOK'
  BY <1>3, <1>4, <1>6, QueueTyped DEF IInv, TypeOK, AtAuth
<1>8. Settled("session", ctx.active_session)'
  BY <1>2, <1>6 DEF Settled
<1>9. Settled("endpoint", ctx.endpoint)'
  BY <1>4, <1>6, Apart DEF IInv, Progress, Settled
<1>10. ~AtStart' /\ ~AtGroup' /\ ~AtProfile' /\ ~AtSession' /\ ~AtEnd'
       /\ todo' # <<"group", "profile", "session", "auth">>
  BY <1>4 DEF AtStart, AtGroup, AtProfile, AtSession, AtAuth, AtEnd
<1>11. Progress'
  BY <1>4, <1>6, <1>8, <1>9, <1>10 DEF Progress
<1> QED BY <1>3, <1>5, <1>7, <1>11 DEF IInv

LEMMA SessionFoundStep == ASSUME IInv, SessionFound PROVE IInv'
<1>1. UNCHANGED <<ise, past, outcome>> /\ todo' = Tail(todo) /\ Asks("session")
      /\ unread' \subseteq Part
  BY DEF SessionFound, IInv, TypeOK, Part
<1>2. AtSession /\ AtAuth' /\ outcome' = "none"
  BY <1>1, Queue DEF IInv, AtAuth, Asks
<1>3. PICK s \in {ise.session, BlankSession} :
        /\ ctx' = [ctx EXCEPT !.active_session = s, !.security_group = s.sgt]
        /\ (s = ise.session /\ s # None) \/ s = BlankSession
  <2>1. PICK a \in Found(ise.session) \cup Other :
          LET s == IF a.kind = "found" THEN a.value ELSE BlankSession
          IN  ctx' = [ctx EXCEPT !.active_session = s, !.security_group = s.sgt]
    BY DEF SessionFound
  <2>2. CASE a.kind = "found"
    <3>1. a.value = ise.session /\ ise.session # None
      BY <2>2 DEF Found, Other
    <3> QED BY <2>1, <2>2, <3>1
  <2>3. CASE a.kind # "found"
    BY <2>1, <2>3
  <2> QED BY <2>2, <2>3
<1>4. s \in SessionSummary /\ s # None
  <2>1. s \in Session \cup {BlankSession}
    BY <1>3 DEF IInv, TypeOK, IseState
  <2> QED BY <2>1, RecordAssumption DEF SessionSummary
<1>5. s.sgt \in Sgt \cup {None} /\ ctx \in Context
  BY <1>4 DEF SessionSummary, Session, BlankSession, IInv, TypeOK
<1>6. /\ ctx' \in Context /\ ctx'.active_session = s /\ ctx'.security_group = s.sgt
      /\ ctx'.endpoint = ctx.endpoint /\ ctx'.recent_auth = ctx.recent_auth
      /\ ctx'.notes = ctx.notes
  BY <1>3, <1>4, <1>5 DEF Context
<1>7. \A part : NotesOn(part)' = NotesOn(part)
  BY <1>6 DEF NotesOn
<1>8. EndpointTrue' /\ HistoryTrue' /\ NotesTrue'
  BY <1>1, <1>6 DEF IInv, EndpointTrue, HistoryTrue, NotesTrue, Absent
<1>9. SessionTrue'
  BY <1>1, <1>3, <1>4, <1>6 DEF IInv, SessionTrue, BlankSession
<1>10. TypeOK'
  BY <1>1, <1>2, <1>6, QueueTyped DEF IInv, TypeOK, AtAuth
<1>11. /\ Settled("endpoint", ctx.endpoint)' /\ Settled("session", ctx.active_session)'
       /\ NotesOn("auth")' = {} /\ ctx'.recent_auth = "empty"
  BY <1>2, <1>4, <1>6, <1>7, Apart DEF IInv, Progress, Settled
<1>12. ~AtStart' /\ ~AtGroup' /\ ~AtProfile' /\ ~AtSession' /\ ~AtEnd'
       /\ todo' # <<"group", "profile", "session", "auth">>
  BY <1>2 DEF AtStart, AtGroup, AtProfile, AtSession, AtAuth, AtEnd
<1>13. Progress'
  BY <1>2, <1>11, <1>12 DEF Progress
<1> QED BY <1>1, <1>8, <1>9, <1>10, <1>13 DEF IInv

LEMMA AuthAnswerStep == ASSUME IInv, AuthAnswer PROVE IInv'
<1>1. UNCHANGED <<ise, past>> /\ outcome' = "ok" /\ todo' = Tail(todo) /\ Asks("auth")
      /\ unread' \subseteq Part
  BY DEF AuthAnswer, IInv, TypeOK, Part
<1>2. AtAuth /\ AtEnd'
  BY <1>1, Queue DEF IInv, AtEnd
<1>3. ctx \in Context /\ NotesOn("auth") = {} /\ ctx.recent_auth = "empty"
      /\ Settled("endpoint", ctx.endpoint) /\ Settled("session", ctx.active_session)
  BY <1>2, Apart DEF IInv, TypeOK, Progress
<1>4. ~AtStart' /\ ~AtGroup' /\ ~AtProfile' /\ ~AtSession' /\ ~AtAuth'
      /\ todo' # <<"group", "profile", "session", "auth">>
  BY <1>2 DEF AtStart, AtGroup, AtProfile, AtSession, AtAuth, AtEnd
<1>5. ASSUME ctx' \in Context, ctx'.endpoint = ctx.endpoint,
             ctx'.active_session = ctx.active_session,
             NotesOn("endpoint")' = NotesOn("endpoint"),
             NotesOn("session")' = NotesOn("session"),
             NotesOn("auth")' = {} \/ ctx'.recent_auth = "empty",
             EndpointTrue' /\ SessionTrue' /\ HistoryTrue' /\ NotesTrue'
      PROVE  IInv'
  <2>1. TypeOK'
    BY <1>1, <1>2, <1>5, QueueTyped DEF IInv, TypeOK, AtEnd
  <2>2. Settled("endpoint", ctx.endpoint)' /\ Settled("session", ctx.active_session)'
    BY <1>3, <1>5 DEF Settled
  <2>3. Progress'
    BY <1>2, <1>4, <1>5, <2>2 DEF Progress
  <2> QED BY <1>1, <1>5, <2>1, <2>3 DEF IInv
<1>6. ASSUME NEW r \in {"empty", "records", "other"}, ctx' = [ctx EXCEPT !.recent_auth = r],
             r = "records" => ise.history
      PROVE  IInv'
  <2>1. /\ ctx' \in Context /\ ctx'.endpoint = ctx.endpoint /\ ctx'.recent_auth = r
        /\ ctx'.active_session = ctx.active_session /\ ctx'.notes = ctx.notes
        /\ ctx'.security_group = ctx.security_group
    BY <1>3, <1>6 DEF Context
  <2>2. \A part : NotesOn(part)' = NotesOn(part)
    BY <2>1 DEF NotesOn
  <2>3. EndpointTrue' /\ SessionTrue' /\ NotesTrue'
    BY <1>1, <2>1 DEF IInv, EndpointTrue, SessionTrue, NotesTrue, Absent
  <2>4. HistoryTrue'
    BY <1>1, <1>6, <2>1 DEF IInv, HistoryTrue
  <2> QED BY <1>3, <1>5, <2>1, <2>2, <2>3, <2>4
<1>7. ASSUME NEW error \in Raises(ise.history),
             ctx' = Noted("auth", error)
      PROVE  IInv'
  <2>1. error \in Error /\ (error = "NotFoundError" => ~ise.history)
    BY <1>7 DEF Raises, Error
  <2>2. EndpointTrue' /\ SessionTrue' /\ HistoryTrue' /\ NotesTrue'
    BY <1>1, <1>7, <2>1, NotedTrue DEF Part, Absent
  <2>3. /\ ctx' \in Context /\ ctx'.endpoint = ctx.endpoint
        /\ ctx'.active_session = ctx.active_session /\ ctx'.recent_auth = "empty"
        /\ NotesOn("endpoint")' = NotesOn("endpoint")
        /\ NotesOn("session")' = NotesOn("session")
    BY <1>3, <1>7, <2>1, NotedFacts DEF IInv, Part
  <2> QED BY <1>5, <2>2, <2>3
<1>8. ctx = [ctx EXCEPT !.recent_auth = "empty"]
  BY <1>3 DEF Context
<1> QED BY <1>6, <1>7, <1>8 DEF AuthAnswer

\* ISE changes: what it held stays in the past of the call.
LEMMA IseChangesStep == ASSUME IInv, IseChanges PROVE IInv'
<1>1. UNCHANGED <<todo, ctx, unread, outcome>> /\ past' = past \cup {ise'}
  BY DEF IseChanges
<1>2. ise' \in IseState
  <2>1. ise \in IseState
    BY DEF IInv, TypeOK
  <2>2. CASE \E e \in Endpoint \cup {None} : ise' = [ise EXCEPT !.endpoint = e]
    BY <2>1, <2>2 DEF IseState
  <2>3. CASE \E s \in Session \cup {None} : ise' = [ise EXCEPT !.session = s]
    BY <2>1, <2>3 DEF IseState
  <2>4. CASE \E h \in BOOLEAN : ise' = [ise EXCEPT !.history = h]
    BY <2>1, <2>4 DEF IseState
  <2>5. CASE \E g \in GroupId, n \in Name \cup {None} : ise' = [ise EXCEPT !.group[g] = n]
    BY <2>1, <2>5 DEF IseState
  <2>6. CASE \E q \in ProfileId, n \in Name \cup {None} :
               ise' = [ise EXCEPT !.profile[q] = n]
    BY <2>1, <2>6 DEF IseState
  <2> QED BY <2>2, <2>3, <2>4, <2>5, <2>6 DEF IseChanges
<1>3. TypeOK'
  BY <1>1, <1>2 DEF IInv, TypeOK
<1>4. Progress'
  BY <1>1 DEF IInv, Progress, Settled, NotesOn, AtStart, AtGroup, AtProfile, AtSession,
      AtAuth, AtEnd
<1>5. EndpointTrue' /\ SessionTrue' /\ HistoryTrue'
  BY <1>1 DEF IInv, EndpointTrue, SessionTrue, HistoryTrue
<1>6. NotesTrue'
  BY <1>1 DEF IInv, NotesTrue, Absent
<1> QED BY <1>1, <1>3, <1>4, <1>5, <1>6 DEF IInv

LEMMA QuietStep == ASSUME IInv, Cancel \/ UNCHANGED vars PROVE IInv'
<1>1. UNCHANGED <<ise, past, todo, ctx, unread>> /\ outcome' \in {"cancelled", outcome}
  BY DEF Cancel, vars
<1>2. TypeOK'
  BY <1>1 DEF IInv, TypeOK
<1>3. Progress'
  BY <1>1 DEF IInv, Progress, Settled, NotesOn, AtStart, AtGroup, AtProfile, AtSession,
      AtAuth, AtEnd
<1>4. EndpointTrue' /\ SessionTrue' /\ HistoryTrue' /\ NotesTrue'
  BY <1>1 DEF IInv, EndpointTrue, SessionTrue, HistoryTrue, NotesTrue, Absent
<1> QED BY <1>1, <1>2, <1>3, <1>4 DEF IInv

LEMMA IInvStep == IInv /\ [Next]_vars => IInv'
BY EndpointFailsStep, EndpointFoundStep, GroupAnswerStep, ProfileAnswerStep,
   SessionFailsStep, SessionFoundStep, AuthAnswerStep, IseChangesStep, QuietStep
   DEF Next, Answers

-------------------------------------------------------------------------------
\* The invariant that the theorems below rest on.
THEOREM IInvHolds == Spec => []IInv
BY IInvInit, IInvStep, PTL DEF Spec

\* Every variable keeps its type, whatever ISE answers.
THEOREM TypeCorrect == Spec => []TypeOK
<1>1. IInv => TypeOK
  BY DEF IInv
<1> QED BY <1>1, IInvHolds, PTL

\* What is unread, and that the last request leaves a history, a note, or this.
UnreadOK ==
  /\ "endpoint" \in unread <=> ctx.endpoint # None /\ ctx.endpoint.mac = None
  /\ "session" \in unread <=> ctx.active_session # None /\ ctx.active_session.mac = None
  /\ ~AtEnd => "auth" \notin unread
  /\ outcome = "ok" =>
       \/ "auth" \notin unread /\ ctx.recent_auth # "empty" /\ NotesOn("auth") = {}
       \/ "auth" \in unread /\ NotesOn("auth") = {}
       \/ /\ "auth" \notin unread /\ ctx.recent_auth = "empty"
          /\ \E e \in Error : NotesOn("auth") = {[part |-> "auth", error |-> e]}

\* A note leaves the parts as they are.
LEMMA NotedUnread ==
  ASSUME IInv, UnreadOK, NEW part \in Part, NEW error \in Error,
         ctx' = Noted(part, error), unread' = unread, ~AtEnd, outcome' = "none"
  PROVE  UnreadOK'
BY NotedFacts DEF IInv, UnreadOK

LEMMA EndpointUnread == ASSUME IInv, UnreadOK, EndpointFound PROVE UnreadOK'
<1>1. AtStart /\ "auth" \notin unread /\ outcome' = "none" /\ ctx \in Context
      /\ "endpoint" \notin unread
  BY Queue, Apart DEF EndpointFound, Asks, IInv, TypeOK, Progress, UnreadOK
<1>2. PICK a \in Found(ise.endpoint) \cup Other :
        IF a.kind = "found"
          THEN ctx' = [ctx EXCEPT !.endpoint = Summarize(a.value)] /\ unread' = unread
          ELSE ctx' = [ctx EXCEPT !.endpoint = Blank] /\ unread' = unread \cup {"endpoint"}
  BY DEF EndpointFound
<1>3. ASSUME NEW v, ctx' = [ctx EXCEPT !.endpoint = v]
      PROVE  ctx'.endpoint = v /\ ctx'.active_session = ctx.active_session
  BY <1>1, <1>3 DEF Context
<1>4. CASE a.kind = "found"
  <2>1. a.value \in Endpoint
    BY <1>4 DEF Found, Other, IInv, TypeOK, IseState
  <2>2. PICK v : v = Summarize(a.value)
    OBVIOUS
  <2>3. v # None /\ v.mac # None
    BY <2>1, <2>2, Summarized, RecordAssumption
  <2>4. ctx' = [ctx EXCEPT !.endpoint = v] /\ unread' = unread
    BY <1>2, <1>4, <2>2
  <2> QED BY <1>1, <1>3, <2>3, <2>4 DEF UnreadOK
<1>5. CASE a.kind # "found"
  <2>1. Blank # None /\ Blank.mac = None
    BY RecordAssumption DEF Blank, Summary
  <2>2. ctx' = [ctx EXCEPT !.endpoint = Blank] /\ unread' = unread \cup {"endpoint"}
    BY <1>2, <1>5
  <2> QED BY <1>1, <1>3, <2>1, <2>2 DEF UnreadOK
<1> QED BY <1>4, <1>5

LEMMA NameUnread == ASSUME IInv, UnreadOK, GroupAnswer \/ ProfileAnswer PROVE UnreadOK'
<1>1. /\ AtGroup \/ AtProfile
      /\ unread' = unread /\ outcome' = "none" /\ "auth" \notin unread
  BY Queue, Apart DEF GroupAnswer, ProfileAnswer, Asks, Untouched, IInv, UnreadOK
<1>2. ctx \in Context /\ ctx.endpoint \in Summary /\ ctx.endpoint # None
  BY <1>1 DEF IInv, TypeOK, Context, Progress
<1>3. \/ \E name : ctx' = [ctx EXCEPT !.endpoint.identity_group = name]
      \/ \E name : ctx' = [ctx EXCEPT !.endpoint.profile = name]
  BY DEF GroupAnswer, ProfileAnswer
<1>4. ctx'.active_session = ctx.active_session /\ ctx'.endpoint # None
      /\ ctx'.endpoint.mac = ctx.endpoint.mac
  <2>1. IInv'
    BY GroupAnswerStep, ProfileAnswerStep
  <2>2. ctx' \in Context
    BY <2>1 DEF IInv, TypeOK
  <2>3. ctx'.active_session = ctx.active_session /\ ctx'.endpoint.mac = ctx.endpoint.mac
    BY <1>2, <1>3 DEF Context, Summary
  <2>4. ctx'.endpoint # None
    <3>1. ~AtStart' /\ NotesOn("endpoint")' = NotesOn("endpoint")
      <4>1. ctx'.notes = ctx.notes
        BY <1>2, <1>3 DEF Context
      <4>2. todo' = <<"profile", "session", "auth">> \/ todo' = <<"session", "auth">>
        BY Queue DEF GroupAnswer, ProfileAnswer, IInv
      <4> QED BY <4>1, <4>2 DEF NotesOn, AtStart
    <3>2. NotesOn("endpoint") = {} /\ Settled("endpoint", ctx.endpoint)'
      BY <1>1, <1>2, <2>1, <3>1, Apart DEF IInv, Progress, Settled
    <3> QED BY <3>1, <3>2 DEF Settled
  <2> QED BY <2>3, <2>4
<1> QED BY <1>1, <1>2, <1>4 DEF UnreadOK

LEMMA SessionUnread == ASSUME IInv, UnreadOK, SessionFound PROVE UnreadOK'
<1>1. AtSession /\ "auth" \notin unread /\ outcome' = "none" /\ ctx \in Context
      /\ "session" \notin unread
  BY Queue, Apart DEF SessionFound, Asks, IInv, TypeOK, Progress, UnreadOK
<1>2. PICK a \in Found(ise.session) \cup Other :
        LET s == IF a.kind = "found" THEN a.value ELSE BlankSession
        IN  /\ ctx' = [ctx EXCEPT !.active_session = s, !.security_group = s.sgt]
            /\ unread' = unread \cup IF a.kind = "found" THEN {} ELSE {"session"}
  BY DEF SessionFound
<1>3. ASSUME NEW s, ctx' = [ctx EXCEPT !.active_session = s, !.security_group = s.sgt]
      PROVE  ctx'.active_session = s /\ ctx'.endpoint = ctx.endpoint
  BY <1>1, <1>3 DEF Context
<1>4. CASE a.kind = "found"
  <2>1. PICK s : s = a.value
    OBVIOUS
  <2>2. s \in Session /\ s # None
    BY <1>4, <2>1 DEF Found, Other, IInv, TypeOK, IseState
  <2>3. s # None /\ s.mac # None
    BY <2>2, RecordAssumption DEF Session
  <2>4. ctx' = [ctx EXCEPT !.active_session = s, !.security_group = s.sgt]
        /\ unread' = unread
    BY <1>2, <1>4, <2>1
  <2> QED BY <1>1, <1>3, <2>3, <2>4 DEF UnreadOK
<1>5. CASE a.kind # "found"
  <2>1. BlankSession # None /\ BlankSession.mac = None
    BY RecordAssumption DEF BlankSession, SessionSummary
  <2>2. /\ ctx' = [ctx EXCEPT !.active_session = BlankSession,
                              !.security_group = BlankSession.sgt]
        /\ unread' = unread \cup {"session"}
    BY <1>2, <1>5
  <2> QED BY <1>1, <1>3, <2>1, <2>2 DEF UnreadOK
<1> QED BY <1>4, <1>5

LEMMA AuthUnread == ASSUME IInv, UnreadOK, AuthAnswer PROVE UnreadOK'
<1>1. AtAuth /\ AtEnd'
  BY Queue DEF AuthAnswer, IInv, AtEnd
<1>2. ctx \in Context /\ NotesOn("auth") = {} /\ ctx.recent_auth = "empty"
      /\ "auth" \notin unread
  BY <1>1, Apart DEF IInv, TypeOK, Progress, UnreadOK
<1>3. CASE ctx' = ctx /\ unread' = unread \cup {"auth"}
  BY <1>1, <1>2, <1>3 DEF UnreadOK, NotesOn
<1>4. ASSUME NEW r \in {"records", "other"}, ctx' = [ctx EXCEPT !.recent_auth = r],
             unread' = unread
      PROVE  UnreadOK'
  <2>1. /\ ctx'.endpoint = ctx.endpoint /\ ctx'.active_session = ctx.active_session
        /\ ctx'.notes = ctx.notes /\ ctx'.recent_auth = r
    BY <1>2, <1>4 DEF Context
  <2>2. NotesOn("auth")' = {}
    BY <1>2, <2>1 DEF NotesOn
  <2> QED BY <1>1, <1>2, <1>4, <2>1, <2>2 DEF UnreadOK
<1>5. ASSUME NEW error \in Error, ctx' = Noted("auth", error), unread' = unread
      PROVE  UnreadOK'
  <2>1. /\ ctx'.endpoint = ctx.endpoint /\ ctx'.active_session = ctx.active_session
        /\ ctx'.recent_auth = "empty"
        /\ NotesOn("auth")' = {[part |-> "auth", error |-> error]}
    BY <1>2, <1>5, NotedFacts DEF IInv, Part
  <2> QED BY <1>1, <1>2, <1>5, <2>1 DEF UnreadOK
<1>6. Raises(ise.history) \subseteq Error
  BY DEF Raises, Error
<1> QED BY <1>3, <1>4, <1>5, <1>6 DEF AuthAnswer

LEMMA UnreadStep == IInv /\ UnreadOK /\ [Next]_vars => UnreadOK'
<1> SUFFICES ASSUME IInv, UnreadOK, [Next]_vars PROVE UnreadOK'
  OBVIOUS
<1>1. CASE EndpointFails \/ SessionFails
  <2>1. ~AtEnd /\ unread' = unread /\ outcome' = "none"
    BY <1>1, Queue, Apart DEF EndpointFails, SessionFails, Asks, Untouched, IInv
  <2>2. PICK part \in Part, error \in Error : ctx' = Noted(part, error)
    BY <1>1 DEF EndpointFails, SessionFails, Raises, Error, Part
  <2> QED BY <2>1, <2>2, NotedUnread
<1>2. CASE Cancel \/ IseChanges \/ UNCHANGED vars
  <2>1. UNCHANGED <<ctx, todo, unread>> /\ (outcome' = "ok" => outcome = "ok")
    BY <1>2 DEF Cancel, IseChanges, vars
  <2> QED BY <2>1 DEF UnreadOK, AtEnd, NotesOn
<1> QED BY <1>1, <1>2, EndpointUnread, NameUnread, SessionUnread, AuthUnread DEF Next, Answers

\* Each part of an answered call is described by the context, or was answered by
\* ISE without a description, or one note names the error that cost it.
THEOREM Explained == Spec => []MissingIsExplained
<1>1. Init => UnreadOK
  BY DEF Init, UnreadOK
<1>2. IInv /\ UnreadOK => MissingIsExplained
  <2> SUFFICES ASSUME IInv, UnreadOK, outcome = "ok" PROVE MissingIsExplained
    BY DEF MissingIsExplained
  <2>1. AtEnd /\ Settled("endpoint", ctx.endpoint) /\ Settled("session", ctx.active_session)
    BY Apart DEF IInv, Progress
  <2>2. ASSUME NEW part, NotesOn(part) = {} PROVE Cardinality(NotesOn(part)) = 0
    BY <2>2, FS_EmptySet
  <2>3. ASSUME NEW part, \E n : NotesOn(part) = {n} PROVE Cardinality(NotesOn(part)) = 1
    BY <2>3, FS_Singleton
  <2>4. Cardinality(NotesOn("endpoint")) = IF "endpoint" \in Described \cup unread THEN 0 ELSE 1
    BY <2>1, <2>2, <2>3 DEF Settled, UnreadOK, Described, Part
  <2>5. Cardinality(NotesOn("session")) = IF "session" \in Described \cup unread THEN 0 ELSE 1
    BY <2>1, <2>2, <2>3 DEF Settled, UnreadOK, Described, Part
  <2>6. Cardinality(NotesOn("auth")) = IF "auth" \in Described \cup unread THEN 0 ELSE 1
    <3>1. "auth" \in Described <=> ctx.recent_auth # "empty"
      BY DEF Described, Part
    <3> QED BY <2>2, <2>3, <3>1 DEF UnreadOK
  <2> QED BY <2>4, <2>5, <2>6 DEF MissingIsExplained, Part
<1> QED BY <1>1, <1>2, UnreadStep, IInvHolds, PTL DEF Spec

\* Each part of the report was true at some moment of the call.
THEOREM ReportTrue == Spec => []ReportWasTrue
<1>1. IInv => ReportWasTrue
  BY DEF IInv, ReportWasTrue, Described, Part, EndpointTrue, SessionTrue, HistoryTrue, NotesTrue, Absent
<1> QED BY <1>1, IInvHolds, PTL

\* "not found in ISE" is true, or a note beside it says what really happened.
THEOREM Honest == Spec => []NarrativeHonest
<1>1. IInv => NarrativeHonest
  <2> SUFFICES ASSUME IInv, outcome = "ok", <<"not found in ISE">> \in Narrative(ctx)
               PROVE  \/ \E i \in past : i.endpoint = None
                      \/ \E e \in Error \ {"NotFoundError"} :
                           <<"note", [part |-> "endpoint", error |-> e]>> \in Narrative(ctx)
    BY DEF NarrativeHonest
  <2>1. ctx.endpoint = None
    BY DEF Narrative
  <2>2. PICK e \in Error : NotesOn("endpoint") = {[part |-> "endpoint", error |-> e]}
    BY <2>1, Apart DEF IInv, Progress, Settled
  <2>3. PICK n \in ctx.notes : n = [part |-> "endpoint", error |-> e]
    BY <2>2 DEF NotesOn
  <2>4. <<"note", n>> \in Narrative(ctx)
    BY DEF Narrative
  <2>5. e = "NotFoundError" => \E i \in past : i.endpoint = None
    BY <2>3 DEF IInv, NotesTrue, Absent
  <2> QED BY <2>3, <2>4, <2>5
<1> QED BY <1>1, IInvHolds, PTL

\* No later failure costs what was already learnt.
THEOREM NothingIsLost == Spec => ContextGrows
<1>1. IInv /\ [Next]_vars => [Grows]_ctx
  <2> SUFFICES ASSUME IInv, Next, ctx' # ctx PROVE Grows
    BY DEF vars, Grows
  <2>1. ctx \in Context
    BY DEF IInv, TypeOK
  <2>2. ASSUME NEW part \in Part, NEW error \in Error, ctx' = Noted(part, error) PROVE Grows
    BY <2>2, NotedFacts DEF Grows, IInv
  <2>3. CASE EndpointFails
    BY <2>2, <2>3 DEF EndpointFails, Raises, Error, Part
  <2>4. CASE EndpointFound
    <3>1. ctx.endpoint = None
      BY <2>4, Queue, Apart DEF EndpointFound, IInv, Progress
    <3>2. ctx'.active_session = ctx.active_session /\ ctx'.notes = ctx.notes
      BY <2>1, <2>4 DEF EndpointFound, Context
    <3> QED BY <3>1, <3>2 DEF Grows
  <2>5. CASE GroupAnswer
    <3>1. PICK ep \in Summary : ep = ctx.endpoint /\ ep.identity_group_id \in GroupId
      BY <2>1, <2>5, Queue DEF GroupAnswer, IInv, Progress, Context, Summary
    <3>2. PICK name \in {ise.group[ep.identity_group_id], None} :
            ctx' = [ctx EXCEPT !.endpoint.identity_group = name]
      BY <2>5, <3>1 DEF GroupAnswer
    <3>3. name \in Name \cup {None}
      BY <3>1, <3>2 DEF IInv, TypeOK, IseState
    <3>4. PICK v : v = [ep EXCEPT !.identity_group = name]
      OBVIOUS
    <3>5. /\ v \in Summary /\ v.identity_group_id = ep.identity_group_id
          /\ v.profile_id = ep.profile_id
      BY <3>1, <3>3, <3>4 DEF Summary
    <3>6. ctx'.endpoint = v /\ ctx'.active_session = ctx.active_session
          /\ ctx'.notes = ctx.notes
      BY <2>1, <3>1, <3>2, <3>4 DEF Context
    <3> QED BY <3>1, <3>5, <3>6, RecordAssumption DEF Grows
  <2>6. CASE ProfileAnswer
    <3>1. PICK ep \in Summary : ep = ctx.endpoint /\ ep.profile_id \in ProfileId
      BY <2>1, <2>6, Queue DEF ProfileAnswer, IInv, Progress, Context, Summary
    <3>2. PICK name \in {ise.profile[ep.profile_id], None} :
            ctx' = [ctx EXCEPT !.endpoint.profile = name]
      BY <2>6, <3>1 DEF ProfileAnswer
    <3>3. name \in Name \cup {None}
      BY <3>1, <3>2 DEF IInv, TypeOK, IseState
    <3>4. PICK v : v = [ep EXCEPT !.profile = name]
      OBVIOUS
    <3>5. /\ v \in Summary /\ v.identity_group_id = ep.identity_group_id
          /\ v.profile_id = ep.profile_id
      BY <3>1, <3>3, <3>4 DEF Summary
    <3>6. ctx'.endpoint = v /\ ctx'.active_session = ctx.active_session
          /\ ctx'.notes = ctx.notes
      BY <2>1, <3>1, <3>2, <3>4 DEF Context
    <3> QED BY <3>1, <3>5, <3>6, RecordAssumption DEF Grows
  <2>7. CASE SessionFails
    BY <2>2, <2>7 DEF SessionFails, Raises, Error, Part
  <2>8. CASE SessionFound
    <3>1. ctx.active_session = None
      BY <2>8, Queue, Apart DEF SessionFound, IInv, Progress
    <3>2. ctx'.endpoint = ctx.endpoint /\ ctx'.notes = ctx.notes
      BY <2>1, <2>8 DEF SessionFound, Context
    <3> QED BY <3>1, <3>2 DEF Grows
  <2>9. CASE AuthAnswer
    BY <2>1, <2>2, <2>9 DEF AuthAnswer, Raises, Error, Part, Context, Grows
  <2> QED BY <2>3, <2>4, <2>5, <2>6, <2>7, <2>8, <2>9 DEF Next, Answers, Cancel, IseChanges
<1> QED BY <1>1, IInvHolds, PTL DEF Spec, ContextGrows

-------------------------------------------------------------------------------
\* How many requests the call can still make: a found endpoint may ask for two
\* names, which its failure saves.
Left == IF outcome # "none" THEN 0 ELSE IF AtStart THEN 5 ELSE Len(todo)

Remains == Left \in 0 .. 5 /\ (Left = 0 <=> outcome # "none")
RunsOut == Left' <= Left /\ (Answers => Left' < Left)

\* What is left once a request has been answered.
LEMMA LeftValue ==
  /\ outcome # "none" => Left = 0
  /\ outcome = "none" =>
       /\ AtStart => Left = 5
       /\ todo = <<"group", "profile", "session", "auth">> => Left = 4
       /\ todo = <<"group", "session", "auth">> \/ AtProfile => Left = 3
       /\ AtSession => Left = 2
       /\ AtAuth => Left = 1
BY Apart DEF Left, AtStart, AtGroup, AtProfile, AtSession, AtAuth

\* An answered request is not asked again, and the last one ends the call.
LEMMA AnswerStep ==
  ASSUME IInv, Remains, Answers
  PROVE  Remains' /\ Left' < Left
<1>1. outcome = "none"
  BY DEF Answers, EndpointFails, EndpointFound, GroupAnswer, ProfileAnswer, SessionFails,
         SessionFound, AuthAnswer, Asks
<1>2. CASE AuthAnswer
  BY <1>1, <1>2 DEF AuthAnswer, Left, Remains
<1>3. ASSUME Left' \in 1 .. 4, Left' < Left, outcome' = "none"
      PROVE  Remains' /\ Left' < Left
  BY <1>3 DEF Remains
<1>4. CASE EndpointFails \/ EndpointFound
  <2>1. Left = 5 /\ Tail(todo) = <<"session", "auth">> /\ outcome' = "none"
    BY <1>1, <1>4, Queue, LeftValue DEF EndpointFails, EndpointFound, IInv, Untouched
  <2>2. \/ todo' = <<"session", "auth">>
        \/ \E ep : todo' = Enrichments(ep) \o <<"session", "auth">>
    BY <1>4, <2>1 DEF EndpointFails, EndpointFound
  <2>3. todo' \in {<<"session", "auth">>, <<"group", "session", "auth">>,
                   <<"profile", "session", "auth">>, <<"group", "profile", "session", "auth">>}
    <3>1. ASSUME NEW ep, todo' = Enrichments(ep) \o <<"session", "auth">>
          PROVE  \/ todo' = <<"session", "auth">> \/ todo' = <<"group", "session", "auth">>
                 \/ todo' = <<"profile", "session", "auth">>
                 \/ todo' = <<"group", "profile", "session", "auth">>
      <4>1. Enrichments(ep) = (IF ep.group # None THEN <<"group">> ELSE <<>>)
                              \o (IF ep.profile # None THEN <<"profile">> ELSE <<>>)
        BY DEF Enrichments
      <4> QED BY <3>1, <4>1, Enriched
    <3> QED BY <2>2, <3>1
  <2>4. ~AtStart' /\ Len(todo') \in 2 .. 4
    BY <2>3 DEF AtStart
  <2>5. Left' = Len(todo')
    BY <2>1, <2>4 DEF Left
  <2> QED BY <1>3, <2>1, <2>4, <2>5
<1>5. CASE GroupAnswer \/ ProfileAnswer \/ SessionFails \/ SessionFound
  <2>1. todo' = Tail(todo) /\ outcome' = "none"
    BY <1>1, <1>5 DEF GroupAnswer, ProfileAnswer, SessionFails, SessionFound, Untouched
  <2>2. todo \in {<<"group", "profile", "session", "auth">>, <<"group", "session", "auth">>,
                  <<"profile", "session", "auth">>, <<"session", "auth">>}
    BY <1>5, Queue DEF GroupAnswer, ProfileAnswer, SessionFails, SessionFound, IInv, AtGroup,
                       AtProfile, AtSession
  <2>3. ~AtStart /\ ~AtStart' /\ Len(todo) \in 2 .. 4 /\ Len(todo') = Len(todo) - 1
    <3>1. CASE todo = <<"group", "profile", "session", "auth">>
      BY <2>1, <3>1 DEF AtStart
    <3>2. CASE todo = <<"group", "session", "auth">>
      BY <2>1, <3>2 DEF AtStart
    <3>3. CASE todo = <<"profile", "session", "auth">>
      BY <2>1, <3>3 DEF AtStart
    <3>4. CASE todo = <<"session", "auth">>
      BY <2>1, <3>4 DEF AtStart
    <3> QED BY <2>2, <3>1, <3>2, <3>3, <3>4
  <2>4. Left = Len(todo) /\ Left' = Len(todo')
    BY <1>1, <2>1, <2>3 DEF Left
  <2> QED BY <1>3, <2>1, <2>3, <2>4
<1> QED BY <1>2, <1>4, <1>5 DEF Answers

\* The call makes five requests at most, in whatever way each of them ends and
\* however ISE changes meanwhile, and then it is answered.
THEOREM RequestsRunOut == Spec => []Remains /\ [][RunsOut]_vars
<1>1. Init => Remains
  BY LeftValue DEF Init, AtStart, Remains
<1>2. ASSUME IInv, Remains, [Next]_vars PROVE Remains' /\ RunsOut
  <2>1. CASE Answers
    BY <2>1, <1>2, AnswerStep DEF RunsOut, Remains
  <2>2. CASE Cancel
    BY <2>2, <1>2 DEF Cancel, Left, Remains, RunsOut, Answers, EndpointFails, EndpointFound,
           GroupAnswer, ProfileAnswer, SessionFails, SessionFound, AuthAnswer, Untouched
  <2>3. CASE IseChanges \/ UNCHANGED vars
    <3>1. UNCHANGED <<todo, outcome>>
      BY <2>3 DEF IseChanges, vars
    <3>2. UNCHANGED Left
      BY <3>1 DEF Left, AtStart
    <3>3. Remains' /\ Left' <= Left
      BY <1>2, <3>1, <3>2 DEF Remains
    <3>4. Answers => Left' < Left
      BY <1>2, AnswerStep
    <3> QED BY <3>3, <3>4 DEF RunsOut
  <2> QED BY <1>2, <2>1, <2>2, <2>3 DEF Next
<1>3. Init /\ [][Next]_vars => []Remains /\ [][RunsOut]_vars
  <2>1. IInv /\ Remains /\ [Next]_vars => Remains'
    BY <1>2
  <2>2. IInv /\ Remains /\ [Next]_vars => RunsOut
    BY <1>2
  <2> QED BY IInvInit, IInvStep, <1>1, <2>1, <2>2, PTL
<1> QED BY <1>3, PTL DEF Spec
================================================================================
