------------------------------ MODULE MntDocuments ------------------------------
(***************************************************************************)
(* What becomes of an answer of ISE's monitoring API: the XML is turned    *)
(* into dicts (ise/mnt.py), a summary is picked out of them, and the       *)
(* caller gets them with secrets masked (redaction.py, responses.py).      *)
(* Each step is a pure function, recursive in the code; here recursion is  *)
(* over a set of documents or values, over the turns of a loop or over the *)
(* depth, so that what it computes can be reasoned about.  One field of    *)
(* the summary stands for all: they differ in their tags only.             *)
(***************************************************************************)
EXTENDS Naturals, Sequences, Functions

Seqs == INSTANCE SequencesExt

CONSTANTS Tag,         \* element names
          SecretTag,   \* names that carry a secret, for a reader of them
          OrdinaryTag, \* names that do not, however alike they look
          Spelled(_),  \* a name as a sequence of its word fragments
          Lower(_),    \* a fragment in lower case
          Element,     \* documents and their parts: [tag, text, kids]
          Nothing,     \* an empty body
          NotXml,      \* a body that is no well-formed XML
          None,        \* Python's None
          Height(_),   \* how many levels a document or part has below it
          MaxHeight,   \* a bound of it: Python's recursion ends at some depth
          MaxDepth     \* the depth that redact() stops at, 25 in the code

ASSUME DepthAssumption == MaxDepth \in Nat
ASSUME TagAssumption == /\ {"user_name", "userName"} \subseteq Tag
                        /\ SecretTag \cup OrdinaryTag \subseteq Tag
                        /\ None \notin Tag \cup {"_text"}
ASSUME ElementAssumption == /\ UNION {Range(node.kids) : node \in Element} \subseteq Element
                            /\ \A node \in Element : /\ node.tag \in Tag
                                                     /\ node.kids \in Seq(Range(node.kids))
ASSUME HeightAssumption ==
  /\ MaxHeight \in Nat
  /\ \A node \in Element : /\ Height(node) \in 0 .. MaxHeight
                           /\ \A kid \in Range(node.kids) : Height(kid) < Height(node)

VARIABLES body,       \* the text of the answer: an element, or what is none
          parsed,     \* the dicts made of it
          user,       \* SessionSummary.username
          response    \* what the MCP client is given of the dicts

vars == <<body, parsed, user, response>>

-------------------------------------------------------------------------------
\* Python values: a string or None, a dict as its items in order of insertion,
\* a list as items without a key.
Item(k, v) == [key |-> k, value |-> v]
Text(t) == [kind |-> "text", text |-> t, at |-> <<>>]
Dict(items) == [kind |-> "dict", text |-> None, at |-> items]
List(items) == [kind |-> "list", text |-> None, at |-> items]
Parts(value) == {value.at[i].value : i \in DOMAIN value.at}

Mask == Text("***REDACTED***")

-------------------------------------------------------------------------------
MutAddChild(items, tag, value) ==
  LET here == {i \in DOMAIN items : items[i].key = tag}
  IN  IF here = {} THEN Append(items, Item(tag, value))
      ELSE [i \in DOMAIN items |-> IF i \in here THEN Item(tag, value) ELSE items[i]]

\* A tag that a sibling has used already becomes a list at the sibling's place.
AddChild(items, tag, value) ==
  LET Joined(old) == List(Append(IF old.kind = "list" THEN old.at ELSE <<Item(None, old)>>,
                                 Item(None, value)))
      here == {i \in DOMAIN items : items[i].key = tag}
  IN  IF here = {} THEN Append(items, Item(tag, value))
      ELSE [i \in DOMAIN items |->
             IF i \in here THEN Item(tag, Joined(items[i].value)) ELSE items[i]]

\* The loop of _elem(): the dict after n of the children, given what they are
\* made into.
Added(kids, made) ==
  LET out[n \in 0 .. Len(kids)] ==
        IF n = 0 THEN <<>> ELSE AddChild(out[n - 1], kids[n].tag, made[kids[n]])
  IN  out

\* _elem(): text counts only where there are no children.
elem[node \in Element] ==
  IF node.kids = <<>> THEN Text(node.text)
  ELSE Dict(Added(node.kids, [kid \in Range(node.kids) |-> elem[kid]])[Len(node.kids)])

\* _xml_to_dict()
XmlToDict(doc) == CASE doc = Nothing -> Dict(<<>>)
                    [] doc = NotXml -> Dict(<<Item("_text", Text("raw"))>>)
                    [] OTHER -> Dict(<<Item(doc.tag, elem[doc])>>)

\* The values that documents are made into, and their parts.
Value == LET made == {XmlToDict(doc) : doc \in Element \cup {Nothing, NotXml}}
                     \cup {elem[node] : node \in Element}
         IN  made \cup UNION {Parts(value) : value \in made}

-------------------------------------------------------------------------------
MutKeep(flat, key, text) ==
  IF key # None /\ text # None THEN [flat EXCEPT ![key] = text] ELSE flat

\* The first string under a key is kept; a string inside a list is passed over.
Keep(flat, key, text) ==
  IF key # None /\ text # None /\ flat[key] = None THEN [flat EXCEPT ![key] = text] ELSE flat

Key == Tag \cup {"_text"}
Flat == [Key -> {node.text : node \in Element} \cup {None, "raw"}]

\* The loop of summarize_session()'s walk: what is known after n of the items,
\* given what the walks through them do.
Kept(items, flat, walks) ==
  LET found[n \in 0 .. Len(items)] ==
        IF n = 0 THEN flat
        ELSE IF items[n].value.kind = "text"
             THEN Keep(found[n - 1], items[n].key, items[n].value.text)
             ELSE walks[items[n].value][found[n - 1]]
  IN  found

walk[value \in Value] ==
  [flat \in Flat |-> Kept(value.at, flat, [part \in Parts(value) |-> walk[part]])[Len(value.at)]]

Username(value) ==
  LET flat == walk[value][[k \in Key |-> None]]
  IN  IF flat["user_name"] # None THEN flat["user_name"] ELSE flat["userName"]

-------------------------------------------------------------------------------
\* The names and the parts of names to mask, as fragments: one lies within
\* another as text exactly if it does as a sequence of fragments.
SensitiveExact ==
  {<<"auth", "orization">>, <<"password">>, <<"passwd">>, <<"credential">>,
   <<"credential", "s">>, <<"api", "key">>, <<"encoded", "_", "auth">>,
   <<"x", "-", "mcp", "-", "session">>}
SensitiveParts ==
  {<<"password">>, <<"passwd">>, <<"secret">>, <<"token">>, <<"api", "_", "key">>,
   <<"api", "key">>, <<"private", "_", "key">>, <<"encoded", "_", "auth">>,
   <<"client", "_", "secret">>}

Lowered(key) == [i \in DOMAIN Spelled(key) |-> Lower(Spelled(key)[i])]

MutIsSensitive(key) ==
  key # None /\ Seqs!SubSeqs(Lowered(key)) \cap (SensitiveExact \cup SensitiveParts) # {}

\* _is_sensitive(): the whole name, or any part of it, in lower case.  The items
\* of a list have no name.
IsSensitive(key) ==
  /\ key # None
  /\ \/ Lowered(key) \in SensitiveExact
     \/ Seqs!SubSeqs(Lowered(key)) \cap SensitiveParts # {}

\* What lies n steps inside a value, with the path to it: a step is a position
\* and the key there; a list is a step, too.
Inside(f) ==
  {[path |-> Append(f.path, [at |-> i, key |-> f.value.at[i].key]),
    value |-> f.value.at[i].value] : i \in DOMAIN f.value.at}
Depths == 0 .. MaxDepth + 1
Below(root) ==
  LET below[n \in Depths] == IF n = 0 THEN {[path |-> <<>>, value |-> root]}
                             ELSE UNION {Inside(f) : f \in below[n - 1]}
  IN  below
Level(root, n) == {f.value : f \in Below(root)[n]}

MutRebuilt(value, redacted) ==
  IF value.kind = "list" THEN value
  ELSE [kind |-> value.kind, text |-> value.text,
        at |-> [i \in DOMAIN value.at |->
                 Item(value.at[i].key, IF IsSensitive(value.at[i].key) THEN Mask
                                       ELSE redacted[value.at[i].value])]]

\* One level of redact(): a sensitive key hides whatever is under it.
Rebuilt(value, redacted) ==
  [kind |-> value.kind, text |-> value.text,
   at |-> [i \in DOMAIN value.at |->
            Item(value.at[i].key, IF IsSensitive(value.at[i].key) THEN Mask
                                  ELSE redacted[value.at[i].value])]]

\* redact(), from its deepest calls upwards: Calls(root)[n] is what the calls
\* return that may go n more levels down.  Below that nothing is looked at.
Calls(root) ==
  LET calls[n \in Depths] ==
        [value \in Level(root, MaxDepth + 1 - n) |->
          IF n = 0 THEN value ELSE Rebuilt(value, calls[n - 1])]
  IN  calls
Redact(root) == Calls(root)[MaxDepth + 1][root]

-------------------------------------------------------------------------------
Unset == Text("unset")

Init == /\ body \in Element \cup {Nothing, NotXml}
        /\ parsed = Unset
        /\ user = "unset"
        /\ response = Unset

Parse == /\ parsed = Unset
         /\ parsed' = XmlToDict(body)
         /\ UNCHANGED <<body, user, response>>

Summarize == /\ parsed # Unset
             /\ user = "unset"
             /\ user' = Username(parsed)
             /\ UNCHANGED <<body, parsed, response>>

\* responses.ok(): the dicts as raw, or as recent_auth of a policy context.
Respond == /\ user # "unset"
           /\ response = Unset
           /\ response' = Redact(parsed)
           /\ UNCHANGED <<body, parsed, user>>

Next == Parse \/ Summarize \/ Respond

Spec == Init /\ [][Next]_vars

-------------------------------------------------------------------------------
\* No string reaches the client under the name of a secret, however the name is
\* cased or extended, on whatever level, inside lists as well, down to the depth
\* where redact() stops.
SecretsMasked ==
  response # Unset =>
    \A n \in Depths \ {0} : \A f \in Below(response)[n] :
      f.path[n].key \in SecretTag => f.value = Mask

\* A policy field is not clobbered because its name resembles a secret's, as
\* "authorization_rule" does: what lies under ordinary names only, lists
\* included, reaches the client in its place and as it is, and nothing is added.
Ordinary(path) == \A i \in DOMAIN path : path[i].key \in OrdinaryTag \cup {None}
OrdinaryFieldsShown ==
  response # Unset =>
    \A n \in Depths :
      /\ \A f \in Below(parsed)[n] : Ordinary(f.path) =>
           \E g \in Below(response)[n] :
             /\ g.path = f.path
             /\ g.value.kind = f.value.kind /\ g.value.text = f.value.text
      /\ \A g \in Below(response)[n] : \E f \in Below(parsed)[n] : g.path = f.path
================================================================================
