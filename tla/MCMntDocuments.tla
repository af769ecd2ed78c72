---------------------------- MODULE MCMntDocuments ----------------------------
(* The documents of the run: up to two children of any kind, or three of a     *)
(* few kinds, under a root; children have up to two children of their own.     *)
EXTENDS MntSummaries

Node(tag, text, kids) == [tag |-> tag, text |-> text, kids |-> kids]

MCSecretTag == {"accessToken", "Authorization"}
MCOrdinaryTag == {"user_name", "userName", "authorization_rule", "session", "root"}
MCTag == MCSecretTag \cup MCOrdinaryTag

\* The names as the code sees them, mixed case included.
MCSpelled(key) ==
  CASE key = "accessToken" -> <<"access", "Token">>
    [] key = "Authorization" -> <<"Auth", "orization">>
    [] key = "authorization_rule" -> <<"auth", "orization", "_", "rule">>
    [] key = "user_name" -> <<"user", "_", "name">>
    [] key = "userName" -> <<"user", "Name">>
    [] OTHER -> <<key>>
MCLower(word) == CASE word = "Token" -> "token" [] word = "Auth" -> "auth"
                   [] word = "Name" -> "name" [] OTHER -> word

MCLeaf == {Node("user_name", t, <<>>) : t \in {None, "x", "y"}}
          \cup {Node("userName", t, <<>>) : t \in {None, "x"}}
          \cup {Node(k, "x", <<>>) : k \in {"accessToken", "Authorization", "authorization_rule"}}
UpToTwo(S) == {<<a>> : a \in S} \cup (S \X S)
MCInner == {Node("session", None, kids) : kids \in UpToTwo(MCLeaf)}
           \cup {Node("accessToken", None, kids) :
                   kids \in UpToTwo({n \in MCLeaf : n.text = "x" /\ n.tag \in MCOrdinaryTag})}

MCFew == {n \in MCLeaf : n.tag = "user_name"}
         \cup {Node("session", None, <<n>>) : n \in {m \in MCLeaf : m.tag # "authorization_rule"}}

\* A secret that lies deeper and deeper.
MCSecret == Node("accessToken", "x", <<>>)
MCOne == Node("session", None, <<MCSecret>>)
MCTwo == Node("session", None, <<MCOne>>)
MCThree == Node("session", None, <<MCTwo>>)
MCNested == {MCTwo, MCThree} \cup {Node("root", None, <<n>>) : n \in {MCTwo, MCThree}}

MCElement == MCLeaf \cup MCInner
             \cup {Node("root", None, kids) : kids \in UpToTwo(MCLeaf \cup MCInner)}
             \cup {Node("root", None, kids) : kids \in MCFew \X MCFew \X MCFew}
             \cup MCNested

MCMaxHeight == 4
RECURSIVE MCHeight(_)
MCHeight(node) ==
  IF node.kids = <<>> THEN 0
  ELSE CHOOSE h \in 1 .. MCMaxHeight :
         /\ \A kid \in Range(node.kids) : MCHeight(kid) < h
         /\ \E kid \in Range(node.kids) : MCHeight(kid) = h - 1
===============================================================================
