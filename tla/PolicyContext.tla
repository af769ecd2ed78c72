----------------------------- MODULE PolicyContext -----------------------------
(***************************************************************************)
(* One call of ise_get_policy_context_by_mac or of                         *)
(* ise_get_incident_summary_by_mac (tools/policy.py): up to five requests  *)
(* to ISE, one after another, each of which may fail without failing the   *)
(* call, while ISE changes between them.  The narrative is derived from    *)
(* what is left.  Requests go through IseClient, which ends each of them   *)
(* with an answer or an error.                                             *)
(***************************************************************************)
EXTENDS Naturals, Sequences, FiniteSets

CONSTANTS Mac,                  \* the MAC that was asked about
          GroupId, ProfileId,   \* ids of endpoint groups and profiles
          Name,                 \* their names
          Caller,               \* user, NAS or state of a session
          Sgt,                  \* security groups
          None,                 \* Python's None
          MaxChanges            \* bound of the model: changes of ISE in a call

ASSUME ChangesAssumption == MaxChanges \in Nat

VARIABLES ise,      \* what ISE holds about the MAC, and the groups and profiles
          past,     \* history: everything that ISE has held during the call
          todo,     \* the requests that are still to be made
          ctx,      \* the PolicyContext under construction
          unread,   \* history: the parts that ISE answered without describing them
          outcome   \* "none", then "ok" or "cancelled"

vars == <<ise, past, todo, ctx, unread, outcome>>

-------------------------------------------------------------------------------
\* An ERS endpoint record, and the summary made of it (summarize_endpoint): the
\* names are filled in by later requests.
Endpoint == [mac : {Mac}, group : GroupId \cup {None}, profile : ProfileId \cup {None}]
Session == [mac : {Mac}, who : Caller \cup {None}, sgt : Sgt \cup {None}]
IseState == [endpoint : Endpoint \cup {None}, session : Session \cup {None},
             history : BOOLEAN, group : [GroupId -> Name \cup {None}],
             profile : [ProfileId -> Name \cup {None}]]

\* Blank and BlankSession are made of a body that does not describe what was
\* asked for.
Summary == [mac : {Mac, None},
            identity_group_id : GroupId \cup {None}, identity_group : Name \cup {None},
            profile_id : ProfileId \cup {None}, profile : Name \cup {None}]
Blank == [mac |-> None, identity_group_id |-> None, identity_group |-> None,
          profile_id |-> None, profile |-> None]
BlankSession == [mac |-> None, who |-> None, sgt |-> None]
SessionSummary == Session \cup {BlankSession}

ASSUME RecordAssumption == Mac # None /\ None \notin Summary \cup SessionSummary

Part == {"endpoint", "session", "auth"}
Error == {"NotFoundError", "IseApiError", "RateLimitError", "AttributeError"}
Note == [part : Part, error : Error]
Context == [endpoint : Summary \cup {None}, active_session : SessionSummary \cup {None},
            security_group : Sgt \cup {None}, recent_auth : {"empty", "records", "other"},
            notes : SUBSET Note]

TypeOK == /\ ise \in IseState
          /\ past \subseteq IseState
          /\ todo \in Seq({"endpoint", "group", "profile", "session", "auth"})
          /\ ctx \in Context
          /\ unread \subseteq Part
          /\ outcome \in {"none", "ok", "cancelled"}

Init == /\ ise \in IseState
        /\ past = {ise}
        /\ todo = <<"endpoint", "session", "auth">>
        /\ ctx = [endpoint |-> None, active_session |-> None, security_group |-> None,
                  recent_auth |-> "empty", notes |-> {}]
        /\ unread = {}
        /\ outcome = "none"

-------------------------------------------------------------------------------
\* How a request about v, which is None if ISE has no such thing, can end: only
\* what is not there is answered with a 404.  A body that cannot be read as what
\* was asked for is "other": a redirect, plain text, a list, an empty object.
Found(v) == IF v # None THEN {[kind |-> "found", value |-> v]} ELSE {}
Raises(there) == {"IseApiError", "RateLimitError"}
                 \cup (IF there THEN {} ELSE {"NotFoundError"})
Other == {[kind |-> "other", value |-> None]}

Asks(part) == outcome = "none" /\ todo # <<>> /\ Head(todo) = part
Noted(part, error) == [ctx EXCEPT !.notes = @ \cup {[part |-> part, error |-> error]}]
Untouched == UNCHANGED <<ise, past, unread, outcome>>

MutSummarize(ep) == [Blank EXCEPT !.mac = ep.mac, !.identity_group_id = ep.group,
                                  !.identity_group = ep.group, !.profile_id = ep.profile]
Summarize(ep) == [Blank EXCEPT !.mac = ep.mac, !.identity_group_id = ep.group,
                               !.profile_id = ep.profile]

\* The names that the summary still lacks, asked for in this order.
Enrichments(ep) == (IF ep.group # None THEN <<"group">> ELSE <<>>)
                   \o (IF ep.profile # None THEN <<"profile">> ELSE <<>>)

\* A body whose ERSEndPoint is no object ends in an AttributeError.
EndpointFails ==
  /\ Asks("endpoint")
  /\ \E error \in Raises(ise.endpoint # None) \cup {"AttributeError"} :
       ctx' = Noted("endpoint", error)
  /\ todo' = Tail(todo)
  /\ Untouched

EndpointFound ==
  /\ Asks("endpoint")
  /\ \E a \in Found(ise.endpoint) \cup Other :
       IF a.kind = "found"
         THEN /\ ctx' = [ctx EXCEPT !.endpoint = Summarize(a.value)]
              /\ todo' = Enrichments(a.value) \o Tail(todo)
              /\ unread' = unread
         ELSE /\ ctx' = [ctx EXCEPT !.endpoint = Blank]
              /\ todo' = Tail(todo)
              /\ unread' = unread \cup {"endpoint"}
  /\ UNCHANGED <<ise, past, outcome>>

MutGroupAnswer ==
  /\ Asks("group")
  /\ ctx' = [ctx EXCEPT !.endpoint.identity_group =
              IF ise.endpoint # None /\ ise.endpoint.group # None
                THEN ise.group[ise.endpoint.group] ELSE None]
  /\ todo' = Tail(todo)
  /\ Untouched

MutGroupAnswerRetries ==
  /\ Asks("group")
  /\ \E name \in {ise.group[ctx.endpoint.identity_group_id], None} :
       /\ ctx' = [ctx EXCEPT !.endpoint.identity_group = name]
       /\ todo' = IF name = None THEN todo ELSE Tail(todo)
  /\ Untouched

\* Enrichment: a failure, or a body without a name, leaves the name out.
GroupAnswer ==
  /\ Asks("group")
  /\ \E name \in {ise.group[ctx.endpoint.identity_group_id], None} :
       ctx' = [ctx EXCEPT !.endpoint.identity_group = name]
  /\ todo' = Tail(todo)
  /\ Untouched

MutProfileAnswer ==
  /\ Asks("profile")
  /\ \/ \E name \in {ise.profile[ctx.endpoint.profile_id], None} :
          ctx' = [ctx EXCEPT !.endpoint.profile = name]
     \/ ctx' = [ctx EXCEPT !.endpoint = None]
  /\ todo' = Tail(todo)
  /\ Untouched

ProfileAnswer ==
  /\ Asks("profile")
  /\ \E name \in {ise.profile[ctx.endpoint.profile_id], None} :
       ctx' = [ctx EXCEPT !.endpoint.profile = name]
  /\ todo' = Tail(todo)
  /\ Untouched

\* MNT may answer 401 for want of monitoring rights, an IseApiError.
SessionFails ==
  /\ Asks("session")
  /\ \E error \in Raises(ise.session # None) : ctx' = Noted("session", error)
  /\ todo' = Tail(todo)
  /\ Untouched

MutSessionFound ==
  /\ Asks("session")
  /\ \E a \in Found(ise.session) \cup Other :
       /\ ctx' = [ctx EXCEPT !.security_group = IF a.kind = "found" THEN a.value.sgt ELSE None]
       /\ unread' = unread \cup IF a.kind = "found" THEN {} ELSE {"session"}
  /\ todo' = Tail(todo)
  /\ UNCHANGED <<ise, past, outcome>>

SessionFound ==
  /\ Asks("session")
  /\ \E a \in Found(ise.session) \cup Other :
       LET s == IF a.kind = "found" THEN a.value ELSE BlankSession
       IN  /\ ctx' = [ctx EXCEPT !.active_session = s, !.security_group = s.sgt]
           /\ unread' = unread \cup IF a.kind = "found" THEN {} ELSE {"session"}
  /\ todo' = Tail(todo)
  /\ UNCHANGED <<ise, past, outcome>>

\* The last request.  recent_auth is empty only for an empty body: a document
\* without records, or one that is no XML, is reported as it is.
AuthAnswer ==
  /\ Asks("auth")
  /\ \/ ise.history /\ ctx' = [ctx EXCEPT !.recent_auth = "records"] /\ unread' = unread
     \/ ctx' = [ctx EXCEPT !.recent_auth = "other"] /\ unread' = unread
     \/ ctx' = ctx /\ unread' = unread \cup {"auth"}
     \/ \E error \in Raises(ise.history) :
          ctx' = Noted("auth", error) /\ unread' = unread
  /\ todo' = Tail(todo)
  /\ outcome' = "ok"
  /\ UNCHANGED <<ise, past>>

\* run()'s task is cancelled at an await, which no "except Exception" stops.
Cancel == /\ outcome = "none"
          /\ outcome' = "cancelled"
          /\ UNCHANGED <<ise, past, todo, ctx, unread>>

\* Other clients of ISE, and the network's users, go on meanwhile.
IseChanges ==
  /\ outcome = "none"
  /\ Cardinality(past) <= MaxChanges
  /\ \/ \E e \in Endpoint \cup {None} : ise' = [ise EXCEPT !.endpoint = e]
     \/ \E s \in Session \cup {None} : ise' = [ise EXCEPT !.session = s]
     \/ \E h \in BOOLEAN : ise' = [ise EXCEPT !.history = h]
     \/ \E g \in GroupId, n \in Name \cup {None} : ise' = [ise EXCEPT !.group[g] = n]
     \/ \E p \in ProfileId, n \in Name \cup {None} : ise' = [ise EXCEPT !.profile[p] = n]
  /\ past' = past \cup {ise'}
  /\ UNCHANGED <<todo, ctx, unread, outcome>>

Answers == \/ EndpointFails \/ EndpointFound \/ GroupAnswer \/ ProfileAnswer
           \/ SessionFails \/ SessionFound \/ AuthAnswer

Next == Answers \/ Cancel \/ IseChanges

\* Every request ends (IseClient) and the event loop resumes the task.
Spec == Init /\ [][Next]_vars /\ WF_vars(Answers)

-------------------------------------------------------------------------------
MutNarrative(c) ==
  {IF c.endpoint # None THEN <<"endpoint", c.endpoint>> ELSE <<"not found in ISE">>}
  \cup {<<"session", c.active_session>>}
  \cup {<<"sgt", c.security_group>>}

\* The lines of _narrative(), as what they claim.
Narrative(c) ==
  {IF c.endpoint # None THEN <<"endpoint", c.endpoint>> ELSE <<"not found in ISE">>}
  \cup {IF c.active_session # None /\ c.active_session.who # None
           THEN <<"session", c.active_session>> ELSE <<"none reported">>}
  \cup {<<"sgt", g>> : g \in {c.security_group} \ {None}}
  \cup {<<"note", n>> : n \in c.notes}

NotesOn(part) == {n \in ctx.notes : n.part = part}

\* The parts that the context describes: a summary or a session with its MAC, and
\* an authentication history that is not empty.
Described ==
  {part \in Part : CASE part = "endpoint" -> ctx.endpoint # None /\ ctx.endpoint.mac # None
                     [] part = "session" -> /\ ctx.active_session # None
                                            /\ ctx.active_session.mac # None
                     [] part = "auth" -> ctx.recent_auth # "empty"}

\* No part is lost without a word: the context describes it, or exactly one note
\* names the error that cost it, never both.  The one exception is a part that
\* ISE itself answered with a success whose body does not describe it (a
\* redirect, plain text, nothing): summarize_endpoint and summarize_session make
\* an object of Nones of it, and no note tells (the narrative says "Endpoint:
\* None").
MissingIsExplained ==
  outcome = "ok" =>
    \A part \in Part :
      Cardinality(NotesOn(part)) = IF part \in Described \cup unread THEN 0 ELSE 1

\* Although ISE changes between the requests, so that the context as a whole may
\* never have been true, each part was true at some moment of the call: the
\* endpoint's group and profile had these names, and what is noted as not found
\* was not there.
ReportWasTrue ==
  LET ep == ctx.endpoint
      s == ctx.active_session
  IN  /\ "endpoint" \in Described =>
           /\ \E i \in past : i.endpoint = [mac |-> ep.mac, group |-> ep.identity_group_id,
                                           profile |-> ep.profile_id]
           /\ ep.identity_group # None =>
                \E i \in past : i.group[ep.identity_group_id] = ep.identity_group
           /\ ep.profile # None => \E i \in past : i.profile[ep.profile_id] = ep.profile
      /\ "session" \in Described => \E i \in past : i.session = s
      /\ ctx.security_group # None => s # None /\ ctx.security_group = s.sgt
      /\ ctx.recent_auth = "records" => \E i \in past : i.history
      /\ \A n \in ctx.notes : n.error = "NotFoundError" =>
           \E i \in past : CASE n.part = "endpoint" -> i.endpoint = None
                            [] n.part = "session" -> i.session = None
                            [] n.part = "auth" -> ~i.history

\* The narrative says "not found in ISE" whenever the lookup failed, whatever
\* the reason.  A reader of the whole text is not misled: either ISE really had
\* no such endpoint during the call, or a note next to it names another error.
NarrativeHonest ==
  outcome = "ok" /\ <<"not found in ISE">> \in Narrative(ctx)
    => \/ \E i \in past : i.endpoint = None
       \/ \E e \in Error \ {"NotFoundError"} :
            <<"note", [part |-> "endpoint", error |-> e]>> \in Narrative(ctx)

\* A later failure never costs what was already learnt: the endpoint ISE
\* described stays, under the same ids, when its group or profile cannot be
\* named or MNT fails, and so do the session and every note.
Grows ==
  /\ ctx.endpoint # None =>
       /\ ctx'.endpoint # None
       /\ ctx'.endpoint.identity_group_id = ctx.endpoint.identity_group_id
       /\ ctx'.endpoint.profile_id = ctx.endpoint.profile_id
  /\ ctx.active_session # None => ctx'.active_session = ctx.active_session
  /\ ctx.notes \subseteq ctx'.notes
ContextGrows == [][Grows]_ctx

\* The call is answered though every request of it may fail.
EveryCallAnswers == <>(outcome # "none")
================================================================================
