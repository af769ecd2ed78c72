------------------------------ MODULE MntSummaries ------------------------------
(***************************************************************************)
(* What the summary of a monitoring answer promises about the document it  *)
(* was made from, stated by a definition that speaks of the positions of   *)
(* leaves in the document instead of dicts and lists.                      *)
(***************************************************************************)
EXTENDS MntDocuments

-------------------------------------------------------------------------------
\* The reference: the leaves of a document by the positions that lead to them,
\* whether no sibling has the same tag, and whether that is so all the way down.
Alone(kids, i) == \A j \in DOMAIN kids \ {i} : kids[j].tag # kids[i].tag

Leaf(path, tag, text, alone, single) ==
  [path |-> path, tag |-> tag, text |-> text, alone |-> alone, single |-> single]

\* A leaf of the i-th child, as one of the parent's.
Under(kids, i, l) == Leaf(<<i>> \o l.path, l.tag, l.text,
                          IF l.path = <<>> THEN Alone(kids, i) ELSE l.alone,
                          l.single /\ Alone(kids, i))

leaves[node \in Element] ==
  IF node.kids = <<>> THEN {Leaf(<<>>, node.tag, node.text, TRUE, TRUE)}
  ELSE UNION {{Under(node.kids, i, l) : l \in leaves[node.kids[i]]} : i \in DOMAIN node.kids}

\* p comes before q in the document.
Before(p, q) == \E i \in DOMAIN p \cap DOMAIN q :
                  /\ p[i] < q[i]
                  /\ \A j \in 1 .. i - 1 : p[j] = q[j]

Texts(node, tag) == {l \in leaves[node] : l.tag = tag /\ l.text # None}
First(node, tag) == {l \in Texts(node, tag) :
                      \A m \in Texts(node, tag) \ {l} : Before(l.path, m.path)}
Unrepeated(node) == \A l \in leaves[node] : l.single
IsDocument == body \notin {Nothing, NotXml}

-------------------------------------------------------------------------------
\* Where no element repeats a sibling's tag, the summary names the user by the
\* first non-empty user_name of the document, wherever it is nested, and by the
\* first userName only if there is no user_name at all.
FirstTextWins ==
  user # "unset" /\ IsDocument /\ Unrepeated(body) =>
    LET best == IF Texts(body, "user_name") # {} THEN First(body, "user_name")
                                                 ELSE First(body, "userName")
    IN  IF best = {} THEN user = None ELSE \E l \in best : user = l.text

\* In every document, repeated elements included: the summary shows a text of
\* the document, and it misses one only where a sibling repeats its tag, so that
\* it went into a list.
SummarySound ==
  user # "unset" =>
    LET candidates == IF IsDocument
                        THEN {l \in Texts(body, "user_name") \cup Texts(body, "userName") : l.alone}
                        ELSE {}
    IN  IF candidates = {} THEN user = None ELSE \E l \in candidates : user = l.text
================================================================================
