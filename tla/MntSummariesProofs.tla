-------------------------- MODULE MntSummariesProofs --------------------------
(***************************************************************************)
(* The summary of a monitoring answer shows what its document says: which  *)
(* text becomes the user, for every document that ISE may send.  The       *)
(* arguments are inductions over the height of a document; the recursive   *)
(* functions are first shown to compute what their definitions say.        *)
(***************************************************************************)
EXTENDS MntSummaries, MntDocumentsProofs

-------------------------------------------------------------------------------
\* The loops over children and items compute what they say.
LEMMA AddedEquation ==
  ASSUME NEW kids, Len(kids) \in Nat, NEW made
  PROVE  Added(kids, made) =
           [n \in 0 .. Len(kids) |->
             IF n = 0 THEN <<>>
             ELSE AddChild(Added(kids, made)[n - 1], kids[n].tag, made[kids[n]])]
<1> DEFINE N == Len(kids)
           Turn(b, n) == IF n = 0 THEN <<>> ELSE AddChild(b[n - 1], kids[n].tag, made[kids[n]])
           S == {m \in 0 .. N : \E b : b = [n \in 0 .. m |-> Turn(b, n)]}
<1>1. 0 \in S
  <2> DEFINE b == [n \in 0 .. 0 |-> <<>>]
  <2>1. \A n \in 0 .. 0 : b[n] = Turn(b, n)
    OBVIOUS
  <2>2. b = [n \in 0 .. 0 |-> b[n]]
    OBVIOUS
  <2>3. b = [n \in 0 .. 0 |-> Turn(b, n)]
    <3> HIDE DEF b, Turn
    <3> QED BY <2>1, <2>2
  <2> HIDE DEF b, Turn
  <2> QED BY <2>3
<1>2. ASSUME NEW m \in 0 .. N, m \in S, m + 1 \in 0 .. N PROVE m + 1 \in S
  <2>1. PICK b : b = [n \in 0 .. m |-> Turn(b, n)]
    BY <1>2
  <2> DEFINE c == [n \in 0 .. m + 1 |->
                    IF n = m + 1 THEN AddChild(b[m], kids[n].tag, made[kids[n]]) ELSE b[n]]
  <2>2. ASSUME NEW n \in 0 .. m + 1 PROVE c[n] = Turn(c, n)
    <3>1. CASE n = m + 1
      <4>1. c[n - 1] = b[m] /\ n # 0
        BY <3>1
      <4>2. c[n] = AddChild(b[m], kids[n].tag, made[kids[n]])
        BY <3>1
      <4> HIDE DEF c
      <4> QED BY <4>1, <4>2
    <3>2. CASE n \in 0 .. m
      <4>1. n # m + 1 /\ (n # 0 => n - 1 \in 0 .. m + 1 /\ n - 1 # m + 1)
        BY <3>2
      <4>2. c[n] = b[n] /\ (n # 0 => c[n - 1] = b[n - 1])
        BY <4>1
      <4>3. b[n] = Turn(b, n)
        BY <2>1, <3>2
      <4> HIDE DEF c
      <4> QED BY <4>2, <4>3
    <3> QED BY <3>1, <3>2
  <2>3. c = [n \in 0 .. m + 1 |-> c[n]]
    OBVIOUS
  <2>4. c = [n \in 0 .. m + 1 |-> Turn(c, n)]
    <3> HIDE DEF c, Turn
    <3> QED BY <2>2, <2>3
  <2> HIDE DEF c, Turn
  <2> QED BY <1>2, <2>4
<1> HIDE DEF S
<1>3. 0 .. N \subseteq S
  BY <1>1, <1>2, CountInduction
<1>4. PICK b : b = [n \in 0 .. N |-> Turn(b, n)]
  BY <1>3 DEF S
<1> QED BY <1>4 DEF Added

\* What one turn of walk()'s loop does.
OneKept(item, found, walks) ==
  IF item.value.kind = "text" THEN Keep(found, item.key, item.value.text)
  ELSE walks[item.value][found]

LEMMA KeptEquation ==
  ASSUME NEW items, Len(items) \in Nat, NEW flat, NEW walks
  PROVE  Kept(items, flat, walks) =
           [n \in 0 .. Len(items) |->
             IF n = 0 THEN flat
             ELSE OneKept(items[n], Kept(items, flat, walks)[n - 1], walks)]
<1> DEFINE N == Len(items)
           Turn(b, n) == IF n = 0 THEN flat ELSE OneKept(items[n], b[n - 1], walks)
           S == {m \in 0 .. N : \E b : b = [n \in 0 .. m |-> Turn(b, n)]}
<1>1. 0 \in S
  <2> DEFINE b == [n \in 0 .. 0 |-> flat]
  <2>1. \A n \in 0 .. 0 : b[n] = Turn(b, n)
    OBVIOUS
  <2>2. b = [n \in 0 .. 0 |-> b[n]]
    OBVIOUS
  <2>3. b = [n \in 0 .. 0 |-> Turn(b, n)]
    <3> HIDE DEF b, Turn
    <3> QED BY <2>1, <2>2
  <2> HIDE DEF b, Turn
  <2> QED BY <2>3
<1>2. ASSUME NEW m \in 0 .. N, m \in S, m + 1 \in 0 .. N PROVE m + 1 \in S
  <2>1. PICK b : b = [n \in 0 .. m |-> Turn(b, n)]
    BY <1>2
  <2> DEFINE c == [n \in 0 .. m + 1 |->
                    IF n = m + 1 THEN OneKept(items[n], b[m], walks) ELSE b[n]]
  <2>2. ASSUME NEW n \in 0 .. m + 1 PROVE c[n] = Turn(c, n)
    <3>1. CASE n = m + 1
      <4>1. c[n - 1] = b[m] /\ n # 0
        BY <3>1
      <4>2. c[n] = OneKept(items[n], b[m], walks)
        BY <3>1
      <4> HIDE DEF c
      <4> QED BY <4>1, <4>2
    <3>2. CASE n \in 0 .. m
      <4>1. n # m + 1 /\ (n # 0 => n - 1 \in 0 .. m + 1 /\ n - 1 # m + 1)
        BY <3>2
      <4>2. c[n] = b[n] /\ (n # 0 => c[n - 1] = b[n - 1])
        BY <4>1
      <4>3. b[n] = Turn(b, n)
        BY <2>1, <3>2
      <4> HIDE DEF c
      <4> QED BY <4>2, <4>3
    <3> QED BY <3>1, <3>2
  <2>3. c = [n \in 0 .. m + 1 |-> c[n]]
    OBVIOUS
  <2>4. c = [n \in 0 .. m + 1 |-> Turn(c, n)]
    <3> HIDE DEF c, Turn
    <3> QED BY <2>2, <2>3
  <2> HIDE DEF c, Turn
  <2> QED BY <1>2, <2>4
<1> HIDE DEF S
<1>3. 0 .. N \subseteq S
  BY <1>1, <1>2, CountInduction
<1>4. PICK b : b = [n \in 0 .. N |-> Turn(b, n)]
  BY <1>3 DEF S
<1> QED BY <1>4 DEF Kept, OneKept

LEMMA KeptTurns ==
  ASSUME NEW items, Len(items) \in Nat, NEW flat, NEW walks
  PROVE  /\ Kept(items, flat, walks)[0] = flat
         /\ \A n \in 0 .. Len(items) : n + 1 \in 0 .. Len(items) =>
              Kept(items, flat, walks)[n + 1] =
                OneKept(items[n + 1], Kept(items, flat, walks)[n], walks)
<1>1. Kept(items, flat, walks)[0] = flat
  BY KeptEquation
<1>2. ASSUME NEW n \in 0 .. Len(items), n + 1 \in 0 .. Len(items)
      PROVE  Kept(items, flat, walks)[n + 1] =
               OneKept(items[n + 1], Kept(items, flat, walks)[n], walks)
  <2>1. n + 1 # 0 /\ (n + 1) - 1 = n
    OBVIOUS
  <2> QED BY <1>2, <2>1, KeptEquation
<1> QED BY <1>1, <1>2

-------------------------------------------------------------------------------
\* Documents of limited height, and the two recursions over them.
Low(m) == {node \in Element : Height(node) <= m}

LEMMA KidsOf ==
  ASSUME NEW node \in Element
  PROVE  /\ Len(node.kids) \in Nat /\ DOMAIN node.kids = 1 .. Len(node.kids)
         /\ \A i \in 1 .. Len(node.kids) : /\ node.kids[i] \in Element
                                           /\ node.kids[i] \in Range(node.kids)
         /\ Range(node.kids) \subseteq Element
         /\ \A kid \in Range(node.kids) : \E i \in 1 .. Len(node.kids) : kid = node.kids[i]
         /\ node.kids = <<>> <=> Len(node.kids) = 0
<1>1. node.kids \in Seq(Range(node.kids))
  BY ElementAssumption DEF ElementAssumption
<1>2. Len(node.kids) \in Nat /\ DOMAIN node.kids = 1 .. Len(node.kids)
  BY <1>1
<1>3. Range(node.kids) \subseteq Element
  BY ElementAssumption DEF ElementAssumption
<1>4. node.kids = <<>> <=> Len(node.kids) = 0
  BY <1>1
<1> QED BY <1>2, <1>3, <1>4 DEF Range

LEMMA KidsAreLower ==
  ASSUME NEW m \in 0 .. MaxHeight, NEW node \in Low(m)
  PROVE  /\ node \in Element
         /\ m = 0 => node.kids = <<>>
         /\ m # 0 => Range(node.kids) \subseteq Low(m - 1)
<1>1. /\ Height(node) \in 0 .. MaxHeight /\ Height(node) <= m
      /\ \A kid \in Range(node.kids) : /\ kid \in Element /\ Height(kid) \in 0 .. MaxHeight
                                       /\ Height(kid) < Height(node)
  BY HeightAssumption, KidsOf DEF HeightAssumption, Low
<1>2. m = 0 => Len(node.kids) = 0
  <2> SUFFICES ASSUME m = 0, Len(node.kids) # 0 PROVE FALSE
    OBVIOUS
  <2>1. node.kids[1] \in Range(node.kids)
    BY KidsOf DEF Low
  <2> QED BY <1>1, <2>1, HeightAssumption DEF HeightAssumption
<1>3. m # 0 => \A kid \in Range(node.kids) : Height(kid) <= m - 1
  BY <1>1, HeightAssumption DEF HeightAssumption
<1> QED BY <1>1, <1>2, <1>3, KidsOf DEF Low

LEMMA AllAreLow == Element = Low(MaxHeight) /\ MaxHeight \in Nat
BY HeightAssumption DEF HeightAssumption, Low

LEMMA ElemEquation ==
  elem = [node \in Element |->
           IF node.kids = <<>> THEN Text(node.text)
           ELSE Dict(Added(node.kids, [kid \in Range(node.kids) |-> elem[kid]])[Len(node.kids)])]
<1> DEFINE Made(b, node) ==
             IF node.kids = <<>> THEN Text(node.text)
             ELSE Dict(Added(node.kids, [kid \in Range(node.kids) |-> b[kid]])[Len(node.kids)])
           S == {m \in 0 .. MaxHeight : \E b : b = [node \in Low(m) |-> Made(b, node)]}
<1>0. MaxHeight \in Nat
  BY AllAreLow
<1>1. 0 \in S
  <2> DEFINE b == [node \in Low(0) |-> Text(node.text)]
  <2>1. \A node \in Low(0) : b[node] = Made(b, node)
    BY <1>0, KidsAreLower
  <2>2. b = [node \in Low(0) |-> b[node]]
    OBVIOUS
  <2>3. b = [node \in Low(0) |-> Made(b, node)]
    <3> HIDE DEF b, Made
    <3> QED BY <2>1, <2>2
  <2> HIDE DEF b, Made
  <2> QED BY <1>0, <2>3
<1>2. ASSUME NEW m \in 0 .. MaxHeight, m \in S, m + 1 \in 0 .. MaxHeight PROVE m + 1 \in S
  <2>1. PICK b : b = [node \in Low(m) |-> Made(b, node)]
    BY <1>2
  <2> DEFINE c == [node \in Low(m + 1) |-> Made(b, node)]
  <2>2. \A node \in Low(m) : node \in Low(m + 1) /\ c[node] = b[node]
    <3>1. Low(m) \subseteq Low(m + 1)
      BY <1>0, HeightAssumption DEF Low, HeightAssumption
    <3>2. \A node \in Low(m) : b[node] = Made(b, node)
      <4> HIDE DEF Made
      <4> QED BY <2>1
    <3> HIDE DEF Made
    <3> QED BY <3>1, <3>2
  <2>3. ASSUME NEW node \in Low(m + 1) PROVE c[node] = Made(c, node)
    <3>1. Range(node.kids) \subseteq Low(m)
      <4>1. m + 1 \in 0 .. MaxHeight /\ m + 1 # 0 /\ (m + 1) - 1 = m
        BY <1>2
      <4>2. Range(node.kids) \subseteq Low((m + 1) - 1)
        BY <4>1, KidsAreLower
      <4> QED BY <4>1, <4>2
    <3>2. [kid \in Range(node.kids) |-> b[kid]] = [kid \in Range(node.kids) |-> c[kid]]
      <4> HIDE DEF c
      <4> QED BY <2>2, <3>1
    <3>3. Made(b, node) = Made(c, node)
      <4> HIDE DEF c
      <4> QED BY <3>2
    <3>4. c[node] = Made(b, node)
      <4> HIDE DEF Made
      <4> QED OBVIOUS
    <3> QED BY <3>3, <3>4
  <2>4. c = [node \in Low(m + 1) |-> c[node]]
    <3> HIDE DEF Made
    <3> QED OBVIOUS
  <2>5. c = [node \in Low(m + 1) |-> Made(c, node)]
    <3> HIDE DEF c, Made
    <3> QED BY <2>3, <2>4
  <2> HIDE DEF c, Made
  <2> QED BY <1>2, <2>5
<1> HIDE DEF S
<1>3. 0 .. MaxHeight \subseteq S
  BY <1>0, <1>1, <1>2, CountInduction
<1>4. PICK b : b = [node \in Element |-> Made(b, node)]
  <2>1. MaxHeight \in S
    BY <1>0, <1>3
  <2> HIDE DEF Made
  <2> QED BY <2>1, AllAreLow DEF S
<1> QED BY <1>4 DEF elem

LEMMA LeavesEquation ==
  leaves = [node \in Element |->
           IF node.kids = <<>> THEN {Leaf(<<>>, node.tag, node.text, TRUE, TRUE)}
           ELSE UNION {{Under(node.kids, i, l) : l \in leaves[node.kids[i]]} :
                        i \in DOMAIN node.kids}]
<1> DEFINE Of(b, node, i) == {Under(node.kids, i, l) : l \in b[node.kids[i]]}
           All(b, node) == IF node.kids = <<>> THEN {Leaf(<<>>, node.tag, node.text, TRUE, TRUE)}
                           ELSE UNION {Of(b, node, i) : i \in DOMAIN node.kids}
           S == {m \in 0 .. MaxHeight : \E b : b = [node \in Low(m) |-> All(b, node)]}
<1>0. MaxHeight \in Nat
  BY AllAreLow
<1>1. 0 \in S
  <2> DEFINE b == [node \in Low(0) |-> {Leaf(<<>>, node.tag, node.text, TRUE, TRUE)}]
  <2>1. \A node \in Low(0) : b[node] = All(b, node)
    <3>1. \A node \in Low(0) : node.kids = <<>>
      BY <1>0, KidsAreLower
    <3> HIDE DEF Of
    <3> QED BY <3>1
  <2>2. b = [node \in Low(0) |-> b[node]]
    OBVIOUS
  <2>3. b = [node \in Low(0) |-> All(b, node)]
    <3> HIDE DEF b, All
    <3> QED BY <2>1, <2>2
  <2> HIDE DEF b, All
  <2> QED BY <1>0, <2>3
<1>2. ASSUME NEW m \in 0 .. MaxHeight, m \in S, m + 1 \in 0 .. MaxHeight PROVE m + 1 \in S
  <2>1. PICK b : b = [node \in Low(m) |-> All(b, node)]
    BY <1>2
  <2> DEFINE c == [node \in Low(m + 1) |-> All(b, node)]
  <2>2. \A node \in Low(m) : node \in Low(m + 1) /\ c[node] = b[node]
    <3>1. Low(m) \subseteq Low(m + 1)
      BY <1>0, HeightAssumption DEF Low, HeightAssumption
    <3>2. \A node \in Low(m) : b[node] = All(b, node)
      <4> HIDE DEF All
      <4> QED BY <2>1
    <3> HIDE DEF All
    <3> QED BY <3>1, <3>2
  <2>3. ASSUME NEW node \in Low(m + 1) PROVE c[node] = All(c, node)
    <3>1. Range(node.kids) \subseteq Low(m)
      <4>1. m + 1 \in 0 .. MaxHeight /\ m + 1 # 0 /\ (m + 1) - 1 = m
        BY <1>2
      <4>2. Range(node.kids) \subseteq Low((m + 1) - 1)
        BY <4>1, KidsAreLower
      <4> QED BY <4>1, <4>2
    <3>2. \A i \in DOMAIN node.kids : b[node.kids[i]] = c[node.kids[i]]
      <4> HIDE DEF c
      <4> QED BY <2>2, <3>1 DEF Range
    <3>3. All(b, node) = All(c, node)
      <4>1. \A i \in DOMAIN node.kids : Of(b, node, i) = Of(c, node, i)
        <5> HIDE DEF c
        <5> QED BY <3>2
      <4> HIDE DEF c, Of
      <4> QED BY <4>1
    <3>4. c[node] = All(b, node)
      <4> HIDE DEF All
      <4> QED OBVIOUS
    <3> QED BY <3>3, <3>4
  <2>4. c = [node \in Low(m + 1) |-> c[node]]
    <3> HIDE DEF All
    <3> QED OBVIOUS
  <2>5. c = [node \in Low(m + 1) |-> All(c, node)]
    <3> HIDE DEF c, All
    <3> QED BY <2>3, <2>4
  <2> HIDE DEF c, All
  <2> QED BY <1>2, <2>5
<1> HIDE DEF S
<1>3. 0 .. MaxHeight \subseteq S
  BY <1>0, <1>1, <1>2, CountInduction
<1>4. PICK b : b = [node \in Element |-> All(b, node)]
  <2>1. MaxHeight \in S
    BY <1>0, <1>3
  <2> HIDE DEF All
  <2> QED BY <2>1, AllAreLow DEF S
<1> QED BY <1>4 DEF leaves

-------------------------------------------------------------------------------
\* Sequences of anything.
IsSeq(s) == s \in Seq(Range(s))

LEMMA SeqFacts == ASSUME NEW s, IsSeq(s)
                  PROVE  Len(s) \in Nat /\ DOMAIN s = 1 .. Len(s)
BY DEF IsSeq

LEMMA ListIsSeq ==
  ASSUME NEW n \in Nat, NEW s, DOMAIN s = 1 .. n, s = [i \in 1 .. n |-> s[i]]
  PROVE  IsSeq(s) /\ Len(s) = n
<1>1. s \in [1 .. n -> Range(s)]
  BY DEF Range
<1> QED BY <1>1 DEF IsSeq

LEMMA SeqOfIsSeq == ASSUME NEW T, NEW s \in Seq(T) PROVE IsSeq(s)
<1>1. Len(s) \in Nat /\ s \in [1 .. Len(s) -> T]
  OBVIOUS
<1>2. DOMAIN s = 1 .. Len(s) /\ s = [i \in 1 .. Len(s) |-> s[i]]
  BY <1>1
<1> QED BY <1>1, <1>2, ListIsSeq

LEMMA AppendFacts ==
  ASSUME NEW s, IsSeq(s), NEW e, NEW t, t = Append(s, e)
  PROVE  /\ IsSeq(t) /\ Len(t) = Len(s) + 1
         /\ \A i \in 1 .. Len(s) : t[i] = s[i]
         /\ t[Len(t)] = e
<1>1. s \in Seq(Range(s) \cup {e})
  <2>1. Len(s) \in Nat /\ s \in [1 .. Len(s) -> Range(s)]
    BY DEF IsSeq
  <2>2. s \in [1 .. Len(s) -> Range(s) \cup {e}]
    BY <2>1
  <2> QED BY <2>1, <2>2
<1>2. /\ t \in Seq(Range(s) \cup {e}) /\ Len(t) = Len(s) + 1
      /\ \A i \in 1 .. Len(s) : t[i] = s[i]
      /\ t[Len(s) + 1] = e
  BY <1>1
<1>3. IsSeq(t)
  BY <1>2, SeqOfIsSeq
<1> QED BY <1>2, <1>3

LEMMA OneFacts == ASSUME NEW e, NEW s, s = <<e>>
                  PROVE  IsSeq(s) /\ Len(s) = 1 /\ s[1] = e
<1>1. Len(s) = 1 /\ s[1] = e /\ s \in Seq({e})
  OBVIOUS
<1> QED BY <1>1, SeqOfIsSeq

-------------------------------------------------------------------------------
\* What the dict holds after n children: one item for every tag, with the value
\* of the only child that has it, or with the list of their values.
Twins(kids, n, tag) == {j \in 1 .. n : kids[j].tag = tag}

Holds(value, kids, made, J) ==
  \/ \E j \in J : J = {j} /\ value = made[kids[j]]
  \/ /\ value = List(value.at) /\ IsSeq(value.at)
     /\ \A j \in J : J # {j}
     /\ \A m \in 1 .. Len(value.at) : \E j \in J : value.at[m] = Item(None, made[kids[j]])
     /\ \A j \in J : \E m \in 1 .. Len(value.at) : value.at[m] = Item(None, made[kids[j]])

Grouped(out, kids, made, n) ==
  /\ IsSeq(out)
  /\ \A i \in 1 .. Len(out) :
       /\ out[i] = Item(out[i].key, out[i].value)
       /\ Twins(kids, n, out[i].key) # {}
       /\ Holds(out[i].value, kids, made, Twins(kids, n, out[i].key))
       /\ \A h \in 1 .. Len(out) : out[h].key = out[i].key => h = i
  /\ \A j \in 1 .. n : \E i \in 1 .. Len(out) : out[i].key = kids[j].tag

LEMMA ItemFacts == ASSUME NEW k, NEW v, NEW e, e = Item(k, v)
                   PROVE  e.key = k /\ e.value = v /\ e = Item(e.key, e.value)
BY DEF Item

\* The value of a further child with a tag joins those of its siblings.
LEMMA JoinedHolds ==
  ASSUME NEW kids, NEW made, NEW n \in Nat, NEW tag,
         \A j \in 1 .. n + 1 : made[kids[j]].kind # "list",
         kids[n + 1].tag = tag, Twins(kids, n, tag) # {},
         NEW old, Holds(old, kids, made, Twins(kids, n, tag)),
         NEW value, value = List(Append(IF old.kind = "list" THEN old.at ELSE <<Item(None, old)>>,
                                        Item(None, made[kids[n + 1]])))
  PROVE  Holds(value, kids, made, Twins(kids, n + 1, tag))
<1> DEFINE J == Twins(kids, n, tag)
           K == Twins(kids, n + 1, tag)
           before == IF old.kind = "list" THEN old.at ELSE <<Item(None, old)>>
<1>1. K = J \cup {n + 1} /\ n + 1 \notin J /\ J \subseteq 1 .. n
  BY DEF Twins
<1>2. /\ IsSeq(before) /\ Len(before) \in Nat
      /\ \A m \in 1 .. Len(before) : \E j \in J : before[m] = Item(None, made[kids[j]])
      /\ \A j \in J : \E m \in 1 .. Len(before) : before[m] = Item(None, made[kids[j]])
  <2>1. CASE \E j \in J : J = {j} /\ old = made[kids[j]]
    <3>1. PICK j \in J : J = {j} /\ old = made[kids[j]]
      BY <2>1
    <3>2. old.kind # "list"
      BY <1>1, <3>1
    <3>3. before = <<Item(None, old)>>
      BY <3>2
    <3>4. IsSeq(before) /\ Len(before) = 1 /\ before[1] = Item(None, old)
      <4> HIDE DEF before
      <4> QED BY <3>3, OneFacts
    <3> HIDE DEF before, J
    <3> QED BY <3>1, <3>4
  <2>2. CASE old = List(old.at) /\ IsSeq(old.at)
             /\ (\A m \in 1 .. Len(old.at) : \E j \in J : old.at[m] = Item(None, made[kids[j]]))
             /\ (\A j \in J : \E m \in 1 .. Len(old.at) : old.at[m] = Item(None, made[kids[j]]))
    <3>1. old.kind = "list"
      BY <2>2 DEF List
    <3> QED BY <2>2, <3>1, SeqFacts
  <2> QED BY <2>1, <2>2 DEF Holds
<1>3. value = List(value.at) /\ value.at = Append(before, Item(None, made[kids[n + 1]]))
  BY DEF List
<1> HIDE DEF before, J, K
<1>4. /\ IsSeq(value.at) /\ Len(value.at) = Len(before) + 1
      /\ \A m \in 1 .. Len(before) : value.at[m] = before[m]
      /\ value.at[Len(value.at)] = Item(None, made[kids[n + 1]])
  <2> DEFINE e == Item(None, made[kids[n + 1]])
  <2>1. IsSeq(before) /\ value.at = Append(before, e)
    BY <1>2, <1>3
  <2> HIDE DEF e
  <2>2. /\ IsSeq(value.at) /\ Len(value.at) = Len(before) + 1
        /\ \A m \in 1 .. Len(before) : value.at[m] = before[m]
        /\ value.at[Len(value.at)] = e
    BY <2>1, AppendFacts
  <2> QED BY <2>2 DEF e
<1>5. \A m \in 1 .. Len(value.at) : \E j \in K : value.at[m] = Item(None, made[kids[j]])
  <2> SUFFICES ASSUME NEW m \in 1 .. Len(value.at)
               PROVE  \E j \in K : value.at[m] = Item(None, made[kids[j]])
    OBVIOUS
  <2>1. CASE m \in 1 .. Len(before)
    <3>1. PICK j \in J : before[m] = Item(None, made[kids[j]])
      BY <1>2, <2>1
    <3>2. j \in K /\ value.at[m] = before[m]
      BY <1>1, <1>4, <2>1
    <3> QED BY <3>1, <3>2
  <2>2. CASE m = Len(value.at)
    <3>1. n + 1 \in K
      BY <1>1
    <3>2. value.at[m] = Item(None, made[kids[n + 1]])
      BY <1>4, <2>2
    <3> QED BY <3>1, <3>2
  <2> QED BY <1>2, <1>4, <2>1, <2>2
<1>6. \A j \in K : \E m \in 1 .. Len(value.at) : value.at[m] = Item(None, made[kids[j]])
  <2>1. \A j \in J : \E m \in 1 .. Len(value.at) : value.at[m] = Item(None, made[kids[j]])
    <3> SUFFICES ASSUME NEW j \in J
                 PROVE  \E m \in 1 .. Len(value.at) : value.at[m] = Item(None, made[kids[j]])
      OBVIOUS
    <3>1. PICK m \in 1 .. Len(before) : before[m] = Item(None, made[kids[j]])
      BY <1>2
    <3>2. m \in 1 .. Len(value.at)
      BY <1>2, <1>4
    <3> QED BY <1>4, <3>1, <3>2
  <2>2. Len(value.at) \in 1 .. Len(value.at)
    BY <1>2, <1>4
  <2> QED BY <1>1, <1>4, <2>1, <2>2
<1>7. \A j \in K : K # {j}
  <2>1. J # {}
    BY DEF J
  <2> SUFFICES ASSUME NEW j \in K, K = {j} PROVE FALSE
    OBVIOUS
  <2> QED BY <1>1, <2>1
<1> QED BY <1>3, <1>4, <1>5, <1>6, <1>7 DEF Holds, K

LEMMA AppendItem ==
  ASSUME NEW items, IsSeq(items), NEW k, NEW v
  PROVE  LET out == Append(items, Item(k, v))
         IN  /\ IsSeq(out) /\ Len(out) = Len(items) + 1
             /\ \A i \in 1 .. Len(items) : out[i] = items[i]
             /\ out[Len(items) + 1] = Item(k, v)
<1> DEFINE e == Item(k, v)
<1>1. \A t : t = Append(items, e) => /\ IsSeq(t) /\ Len(t) = Len(items) + 1
                                     /\ \A i \in 1 .. Len(items) : t[i] = items[i]
                                     /\ t[Len(t)] = e
  <2> HIDE DEF e
  <2> SUFFICES ASSUME NEW t, t = Append(items, e)
               PROVE  /\ IsSeq(t) /\ Len(t) = Len(items) + 1
                      /\ \A i \in 1 .. Len(items) : t[i] = items[i]
                      /\ t[Len(t)] = e
    OBVIOUS
  <2>1. IsSeq(t)
    BY AppendFacts
  <2>2. Len(t) = Len(items) + 1
    BY AppendFacts
  <2>3. \A i \in 1 .. Len(items) : t[i] = items[i]
    BY AppendFacts
  <2>4. t[Len(t)] = e
    BY AppendFacts
  <2> QED BY <2>1, <2>2, <2>3, <2>4
<1> QED BY <1>1, SeqFacts

\* A child more is a new item at the end, or a longer list at its siblings' item.
LEMMA GroupedStep ==
  ASSUME NEW kids, NEW made, NEW n \in Nat,
         \A j \in 1 .. n + 1 : made[kids[j]].kind # "list",
         NEW items, Grouped(items, kids, made, n),
         NEW out, out = AddChild(items, kids[n + 1].tag, made[kids[n + 1]])
  PROVE  Grouped(out, kids, made, n + 1)
<1> DEFINE tag == kids[n + 1].tag
           value == made[kids[n + 1]]
           here == {i \in DOMAIN items : items[i].key = tag}
           Joined(old) == List(Append(IF old.kind = "list" THEN old.at ELSE <<Item(None, old)>>,
                                      Item(None, value)))
<1>0. IsSeq(items) /\ Len(items) \in Nat /\ DOMAIN items = 1 .. Len(items)
  BY SeqFacts DEF Grouped
<1>1. \A t : t # tag => Twins(kids, n + 1, t) = Twins(kids, n, t)
  BY DEF Twins
<1>2. Twins(kids, n + 1, tag) = Twins(kids, n, tag) \cup {n + 1}
  BY DEF Twins
<1>3. CASE here = {}
  <2>1. out = Append(items, Item(tag, value))
    BY <1>3 DEF AddChild
  <2>2. /\ IsSeq(out) /\ Len(out) = Len(items) + 1
        /\ \A i \in 1 .. Len(items) : out[i] = items[i]
        /\ out[Len(items) + 1] = Item(tag, value)
    BY <1>0, <2>1, AppendItem
  <2>3. Twins(kids, n, tag) = {}
    BY <1>0, <1>3 DEF Grouped, Twins
  <2>4. \A i \in 1 .. Len(items) : out[i].key # tag
    BY <1>0, <1>3, <2>2
  <2>5. /\ out[Len(items) + 1].key = tag /\ out[Len(items) + 1].value = value
        /\ out[Len(items) + 1] = Item(tag, value)
    BY <2>2 DEF Item
  <2>6. Holds(value, kids, made, {n + 1})
    BY DEF Holds
  <2> HIDE DEF tag, value, here
  <2>7. ASSUME NEW i \in 1 .. Len(items)
        PROVE  /\ out[i] = Item(out[i].key, out[i].value)
               /\ Twins(kids, n + 1, out[i].key) # {}
               /\ Holds(out[i].value, kids, made, Twins(kids, n + 1, out[i].key))
               /\ \A h \in 1 .. Len(out) : out[h].key = out[i].key => h = i
    BY <1>0, <1>1, <2>2, <2>4, <2>5 DEF Grouped
  <2>8. \A h \in 1 .. Len(out) : out[h].key = tag => h = Len(items) + 1
    BY <1>0, <2>2, <2>4
  <2>9. \A j \in 1 .. n + 1 : \E i \in 1 .. Len(out) : out[i].key = kids[j].tag
    <3> SUFFICES ASSUME NEW j \in 1 .. n + 1
                 PROVE  \E i \in 1 .. Len(out) : out[i].key = kids[j].tag
      OBVIOUS
    <3>1. CASE j \in 1 .. n
      <4>1. PICK i \in 1 .. Len(items) : items[i].key = kids[j].tag
        BY <3>1 DEF Grouped
      <4> QED BY <1>0, <2>2, <4>1
    <3>2. CASE j = n + 1
      <4>1. Len(items) + 1 \in 1 .. Len(out)
        BY <1>0, <2>2
      <4> QED BY <2>5, <3>2, <4>1 DEF tag
    <3> QED BY <3>1, <3>2
  <2>10. \A i \in 1 .. Len(out) : i \in 1 .. Len(items) \/ i = Len(items) + 1
    BY <1>0, <2>2
  <2> QED BY <1>2, <2>2, <2>3, <2>5, <2>6, <2>7, <2>8, <2>9, <2>10 DEF Grouped
<1>4. CASE here # {}
  <2>1. out = [i \in DOMAIN items |->
                IF i \in here THEN Item(tag, Joined(items[i].value)) ELSE items[i]]
    BY <1>4 DEF AddChild
  <2>2. PICK i0 \in here : TRUE
    BY <1>4
  <2>3. here = {i0} /\ i0 \in 1 .. Len(items) /\ items[i0].key = tag
    BY <1>0, <2>2 DEF Grouped
  <2>4. IsSeq(out) /\ Len(out) = Len(items)
    <3> HIDE DEF Joined, tag, value, here
    <3>1. DOMAIN out = 1 .. Len(items) /\ out = [i \in 1 .. Len(items) |-> out[i]]
      BY <1>0, <2>1
    <3> QED BY <1>0, <3>1, ListIsSeq
  <2>5. /\ out[i0] = Item(tag, Joined(items[i0].value))
        /\ \A i \in 1 .. Len(items) : i # i0 => out[i] = items[i]
    <3> HIDE DEF Joined, tag, value, here
    <3> QED BY <1>0, <2>1, <2>3
  <2>6. out[i0].key = tag /\ out[i0].value = Joined(items[i0].value)
    <3> HIDE DEF Joined, tag, value, here
    <3> QED BY <2>5 DEF Item
  <2>7. Holds(out[i0].value, kids, made, Twins(kids, n + 1, tag))
    <3>1. Twins(kids, n, tag) # {} /\ Holds(items[i0].value, kids, made, Twins(kids, n, tag))
      BY <2>3 DEF Grouped
    <3>2. kids[n + 1].tag = tag
      OBVIOUS
    <3> HIDE DEF tag
    <3> QED BY <2>6, <3>1, <3>2, JoinedHolds
  <2> HIDE DEF tag, value, here, Joined
  <2>8. \A i \in 1 .. Len(items) : out[i].key = items[i].key
    BY <2>3, <2>5, <2>6
  <2>9. ASSUME NEW i \in 1 .. Len(out)
        PROVE  /\ out[i] = Item(out[i].key, out[i].value)
               /\ Twins(kids, n + 1, out[i].key) # {}
               /\ Holds(out[i].value, kids, made, Twins(kids, n + 1, out[i].key))
               /\ \A h \in 1 .. Len(out) : out[h].key = out[i].key => h = i
    <3>1. \A h \in 1 .. Len(out) : out[h].key = out[i].key => h = i
      BY <2>4, <2>8 DEF Grouped
    <3>2. CASE i = i0
      BY <1>2, <2>5, <2>6, <2>7, <3>1, <3>2
    <3>3. CASE i # i0
      <4>1. out[i] = items[i] /\ items[i].key # tag
        BY <2>3, <2>4, <2>5, <3>3 DEF Grouped
      <4> QED BY <1>1, <2>4, <3>1, <4>1 DEF Grouped
    <3> QED BY <3>2, <3>3
  <2>10. \A j \in 1 .. n + 1 : \E i \in 1 .. Len(out) : out[i].key = kids[j].tag
    <3> SUFFICES ASSUME NEW j \in 1 .. n + 1
                 PROVE  \E i \in 1 .. Len(out) : out[i].key = kids[j].tag
      OBVIOUS
    <3>1. CASE j \in 1 .. n
      <4>1. PICK i \in 1 .. Len(items) : items[i].key = kids[j].tag
        BY <3>1 DEF Grouped
      <4> QED BY <2>4, <2>8, <4>1
    <3>2. CASE j = n + 1
      BY <2>3, <2>4, <2>6, <3>2 DEF tag
    <3> QED BY <3>1, <3>2
  <2> QED BY <2>4, <2>9, <2>10 DEF Grouped
<1> QED BY <1>3, <1>4

LEMMA AddedGrouped ==
  ASSUME NEW kids, Len(kids) \in Nat, NEW made,
         \A j \in 1 .. Len(kids) : made[kids[j]].kind # "list"
  PROVE  \A n \in 0 .. Len(kids) : Grouped(Added(kids, made)[n], kids, made, n)
<1> DEFINE N == Len(kids)
           S == {n \in 0 .. N : Grouped(Added(kids, made)[n], kids, made, n)}
<1>1. 0 \in S
  <2>1. Added(kids, made)[0] = <<>>
    BY AddedEquation
  <2>2. IsSeq(<<>>) /\ Len(<<>>) = 0
    BY DEF IsSeq
  <2>3. Grouped(<<>>, kids, made, 0)
    <3>1. 1 .. 0 = {} /\ 1 .. Len(<<>>) = {}
      BY <2>2
    <3> QED BY <2>2, <3>1 DEF Grouped
  <2> QED BY <2>1, <2>3
<1>2. ASSUME NEW n \in 0 .. N, n \in S, n + 1 \in 0 .. N PROVE n + 1 \in S
  <2>1. Added(kids, made)[n + 1] =
          AddChild(Added(kids, made)[n], kids[n + 1].tag, made[kids[n + 1]])
    <3>1. n + 1 # 0 /\ (n + 1) - 1 = n
      OBVIOUS
    <3> QED BY <1>2, <3>1, AddedEquation
  <2>2. \A j \in 1 .. n + 1 : made[kids[j]].kind # "list"
    BY <1>2
  <2>3. Grouped(Added(kids, made)[n], kids, made, n) /\ n \in Nat
    BY <1>2
  <2>4. Grouped(Added(kids, made)[n + 1], kids, made, n + 1)
    BY <2>1, <2>2, <2>3, GroupedStep
  <2> QED BY <1>2, <2>4
<1> HIDE DEF S
<1>3. 0 .. N \subseteq S
  BY <1>1, <1>2, CountInduction
<1> QED BY <1>3 DEF S

-------------------------------------------------------------------------------
\* What the parts of a document are made into.
ElemOf(node) == [kid \in Range(node.kids) |-> elem[kid]]
ItemsOf(node) == Added(node.kids, ElemOf(node))[Len(node.kids)]

LEMMA ElemIs ==
  ASSUME NEW node \in Element
  PROVE  /\ node.kids = <<>> => elem[node] = Text(node.text)
         /\ node.kids # <<>> => elem[node] = Dict(ItemsOf(node))
BY ElemEquation DEF ElemOf, ItemsOf

LEMMA ElemKind == ASSUME NEW node \in Element
                  PROVE  /\ elem[node].kind = "text" <=> node.kids = <<>>
                         /\ elem[node].kind # "list"
                         /\ node.kids # <<>> => elem[node].at = ItemsOf(node)
                         /\ node.kids = <<>> => elem[node].at = <<>> /\ elem[node].text = node.text
<1>1. CASE node.kids = <<>>
  <2>1. elem[node] = Text(node.text)
    BY <1>1, ElemIs
  <2> QED BY <1>1, <2>1 DEF Text
<1>2. CASE node.kids # <<>>
  <2>1. elem[node] = Dict(ItemsOf(node))
    BY <1>2, ElemIs
  <2> QED BY <1>2, <2>1 DEF Dict
<1> QED BY <1>1, <1>2

LEMMA ItemsGrouped ==
  ASSUME NEW node \in Element
  PROVE  Grouped(ItemsOf(node), node.kids, ElemOf(node), Len(node.kids))
<1>1. Len(node.kids) \in Nat /\ Len(node.kids) \in 0 .. Len(node.kids)
  BY KidsOf
<1>2. \A j \in 1 .. Len(node.kids) : ElemOf(node)[node.kids[j]].kind # "list"
  BY KidsOf, ElemKind DEF ElemOf
<1> QED BY <1>1, <1>2, AddedGrouped DEF ItemsOf

LEMMA PartsAre == ASSUME NEW value, IsSeq(value.at)
                  PROVE  Parts(value) = {value.at[i].value : i \in 1 .. Len(value.at)}
BY SeqFacts DEF Parts

\* Flattening loses no child and makes nothing up: an element's dict has its
\* children's tags as keys, each once; under a key stands the value of the only
\* child with that tag, or a list with the values of all of them and no other.
THEOREM NoChildLost ==
  \A node \in Element : node.kids # <<>> =>
    LET items == elem[node].at
        Kids(tag) == {node.kids[j] : j \in Twins(node.kids, Len(node.kids), tag)}
    IN  /\ \A j \in 1 .. Len(node.kids) :
             \E i \in 1 .. Len(items) : items[i].key = node.kids[j].tag
        /\ \A i, h \in 1 .. Len(items) : items[h].key = items[i].key => h = i
        /\ \A i \in 1 .. Len(items) :
             /\ Kids(items[i].key) # {}
             /\ \/ \E kid \in Kids(items[i].key) :
                     Kids(items[i].key) = {kid} /\ items[i].value = elem[kid]
                \/ /\ items[i].value.kind = "list"
                   /\ Parts(items[i].value) = {elem[kid] : kid \in Kids(items[i].key)}
<1> SUFFICES ASSUME NEW node \in Element, node.kids # <<>>
             PROVE  LET items == elem[node].at
                        Kids(tag) == {node.kids[j] : j \in Twins(node.kids, Len(node.kids), tag)}
                    IN  /\ \A j \in 1 .. Len(node.kids) :
                             \E i \in 1 .. Len(items) : items[i].key = node.kids[j].tag
                        /\ \A i, h \in 1 .. Len(items) : items[h].key = items[i].key => h = i
                        /\ \A i \in 1 .. Len(items) :
                             /\ Kids(items[i].key) # {}
                             /\ \/ \E kid \in Kids(items[i].key) :
                                     Kids(items[i].key) = {kid} /\ items[i].value = elem[kid]
                                \/ /\ items[i].value.kind = "list"
                                   /\ Parts(items[i].value) =
                                        {elem[kid] : kid \in Kids(items[i].key)}
  OBVIOUS
<1> DEFINE items == elem[node].at
           N == Len(node.kids)
           Kids(tag) == {node.kids[j] : j \in Twins(node.kids, N, tag)}
<1>1. Grouped(items, node.kids, ElemOf(node), N)
  BY ItemsGrouped, ElemKind
<1>2. \A j \in 1 .. N : ElemOf(node)[node.kids[j]] = elem[node.kids[j]]
  BY KidsOf DEF ElemOf
<1> HIDE DEF items
<1>3. ASSUME NEW i \in 1 .. Len(items)
      PROVE  /\ Kids(items[i].key) # {}
             /\ \/ \E kid \in Kids(items[i].key) :
                     Kids(items[i].key) = {kid} /\ items[i].value = elem[kid]
                \/ /\ items[i].value.kind = "list"
                   /\ Parts(items[i].value) = {elem[kid] : kid \in Kids(items[i].key)}
  <2> DEFINE J == Twins(node.kids, N, items[i].key)
             value == items[i].value
  <2>1. J # {} /\ Holds(value, node.kids, ElemOf(node), J) /\ J \subseteq 1 .. N
    BY <1>1 DEF Grouped, Twins
  <2>2. Kids(items[i].key) = {node.kids[j] : j \in J}
    OBVIOUS
  <2> HIDE DEF J, value, Kids
  <2>3. CASE \E j \in J : J = {j} /\ value = ElemOf(node)[node.kids[j]]
    <3>1. PICK j \in J : J = {j} /\ value = ElemOf(node)[node.kids[j]]
      BY <2>3
    <3>2. Kids(items[i].key) = {node.kids[j]} /\ value = elem[node.kids[j]]
      BY <1>2, <2>1, <2>2, <3>1
    <3> QED BY <3>2 DEF value
  <2>4. CASE /\ value = List(value.at) /\ IsSeq(value.at)
             /\ \A m \in 1 .. Len(value.at) :
                  \E j \in J : value.at[m] = Item(None, ElemOf(node)[node.kids[j]])
             /\ \A j \in J : \E m \in 1 .. Len(value.at) :
                  value.at[m] = Item(None, ElemOf(node)[node.kids[j]])
    <3>1. value.kind = "list"
      BY <2>4 DEF List
    <3>2. Parts(value) = {value.at[m].value : m \in 1 .. Len(value.at)}
      BY <2>4, PartsAre
    <3>3. ASSUME NEW m \in 1 .. Len(value.at)
          PROVE  \E j \in J : value.at[m].value = elem[node.kids[j]]
      <4>1. PICK j \in J : value.at[m] = Item(None, ElemOf(node)[node.kids[j]])
        BY <2>4
      <4> QED BY <1>2, <2>1, <4>1, ItemFacts
    <3>4. ASSUME NEW j \in J
          PROVE  \E m \in 1 .. Len(value.at) : value.at[m].value = elem[node.kids[j]]
      <4>1. PICK m \in 1 .. Len(value.at) : value.at[m] = Item(None, ElemOf(node)[node.kids[j]])
        BY <2>4
      <4> QED BY <1>2, <2>1, <4>1, ItemFacts
    <3>5. Parts(value) = {elem[node.kids[j]] : j \in J}
      <4>1. Parts(value) \subseteq {elem[node.kids[j]] : j \in J}
        BY <3>2, <3>3
      <4>2. {elem[node.kids[j]] : j \in J} \subseteq Parts(value)
        <5> SUFFICES ASSUME NEW j \in J PROVE elem[node.kids[j]] \in Parts(value)
          OBVIOUS
        <5>1. PICK m \in 1 .. Len(value.at) : value.at[m].value = elem[node.kids[j]]
          BY <3>4
        <5> QED BY <3>2, <5>1
      <4> QED BY <4>1, <4>2
    <3>6. {elem[node.kids[j]] : j \in J} = {elem[kid] : kid \in Kids(items[i].key)}
      BY <2>2
    <3>7. Kids(items[i].key) # {}
      BY <2>1, <2>2
    <3> QED BY <3>1, <3>5, <3>6, <3>7 DEF value
  <2> QED BY <2>1, <2>3, <2>4 DEF Holds
<1> HIDE DEF Kids
<1>4. \A j \in 1 .. N : \E i \in 1 .. Len(items) : items[i].key = node.kids[j].tag
  BY <1>1 DEF Grouped
<1>5. \A i, h \in 1 .. Len(items) : items[h].key = items[i].key => h = i
  BY <1>1 DEF Grouped
<1> QED BY <1>3, <1>4, <1>5 DEF items, Kids

LEMMA ElemParts ==
  ASSUME NEW node \in Element, NEW v \in Parts(elem[node])
  PROVE  \/ \E kid \in Range(node.kids) : v = elem[kid]
         \/ Parts(v) \subseteq {elem[kid] : kid \in Range(node.kids)}
<1> DEFINE made == ElemOf(node)
           N == Len(node.kids)
<1>1. node.kids # <<>>
  BY ElemKind DEF Parts
<1>2. Grouped(ItemsOf(node), node.kids, made, N) /\ elem[node].at = ItemsOf(node)
  BY <1>1, ItemsGrouped, ElemKind
<1>3. PICK i \in 1 .. Len(ItemsOf(node)) : v = ItemsOf(node)[i].value
  BY <1>2, PartsAre DEF Grouped
<1> DEFINE J == Twins(node.kids, N, ItemsOf(node)[i].key)
<1>4. Holds(v, node.kids, made, J)
  BY <1>2, <1>3 DEF Grouped
<1>5. \A j \in J : node.kids[j] \in Range(node.kids) /\ made[node.kids[j]] = elem[node.kids[j]]
  BY KidsOf DEF Twins, ElemOf
<1> HIDE DEF J, made
<1>6. CASE \E j \in J : v = made[node.kids[j]]
  BY <1>5, <1>6
<1>7. CASE /\ IsSeq(v.at)
           /\ \A m \in 1 .. Len(v.at) : \E j \in J : v.at[m] = Item(None, made[node.kids[j]])
  <2>1. \A m \in 1 .. Len(v.at) : \E kid \in Range(node.kids) : v.at[m].value = elem[kid]
    <3> SUFFICES ASSUME NEW m \in 1 .. Len(v.at)
                 PROVE  \E kid \in Range(node.kids) : v.at[m].value = elem[kid]
      OBVIOUS
    <3>1. PICK j \in J : v.at[m] = Item(None, made[node.kids[j]])
      BY <1>7
    <3>2. v.at[m].value = made[node.kids[j]]
      BY <3>1, ItemFacts
    <3> QED BY <1>5, <3>2
  <2>2. Parts(v) = {v.at[m].value : m \in 1 .. Len(v.at)}
    BY <1>7, PartsAre
  <2> QED BY <2>1, <2>2
<1> QED BY <1>4, <1>6, <1>7 DEF Holds

-------------------------------------------------------------------------------
\* The values are closed under taking parts, and walk() computes what it says
\* on all of them: values are built level by level, as documents are.
MadeOf(doc) == doc \in Element \cup {Nothing, NotXml}

LEMMA XmlParts ==
  ASSUME NEW doc, MadeOf(doc)
  PROVE  /\ IsSeq(XmlToDict(doc).at)
         /\ \/ Parts(XmlToDict(doc)) = {}
            \/ Parts(XmlToDict(doc)) = {Text("raw")}
            \/ doc \in Element /\ Parts(XmlToDict(doc)) = {elem[doc]}
<1>1. ASSUME NEW k, NEW v, XmlToDict(doc) = Dict(<<Item(k, v)>>)
      PROVE  IsSeq(XmlToDict(doc).at) /\ Parts(XmlToDict(doc)) = {v}
  <2>1. XmlToDict(doc).at = <<Item(k, v)>>
    BY <1>1 DEF Dict
  <2>2. /\ IsSeq(XmlToDict(doc).at) /\ Len(XmlToDict(doc).at) = 1
        /\ XmlToDict(doc).at[1] = Item(k, v)
    BY <2>1, OneFacts
  <2> QED BY <2>2, PartsAre DEF Item
<1>2. CASE XmlToDict(doc) = Dict(<<>>)
  <2>1. XmlToDict(doc).at = <<>>
    BY <1>2 DEF Dict
  <2> QED BY <2>1 DEF Parts, IsSeq
<1> QED BY <1>1, <1>2 DEF XmlToDict, MadeOf

LEMMA ElemIsValue == \A node \in Element : elem[node] \in Value
BY DEF Value

LEMMA XmlIsValue == ASSUME NEW doc, MadeOf(doc) PROVE XmlToDict(doc) \in Value
BY DEF Value, MadeOf

LEMMA ValueCases ==
  ASSUME NEW v \in Value
  PROVE  \/ \E doc : MadeOf(doc) /\ v = XmlToDict(doc)
         \/ \E node \in Element : v = elem[node] \/ v \in Parts(elem[node])
         \/ v = Text("raw")
<1>1. ASSUME NEW w, v \in Parts(w), NEW doc, MadeOf(doc), w = XmlToDict(doc)
      PROVE  v = Text("raw") \/ \E node \in Element : v = elem[node]
  BY <1>1, XmlParts
<1> QED BY <1>1 DEF Value, MadeOf

LEMMA ValueParts == ASSUME NEW v \in Value PROVE Parts(v) \subseteq Value
<1>1. Parts(Text("raw")) = {}
  BY DEF Text, Parts
<1>2. \A node \in Element : Parts(elem[node]) \subseteq Value
  BY DEF Value
<1>3. \A doc : MadeOf(doc) => Parts(XmlToDict(doc)) \subseteq Value
  BY DEF Value, MadeOf
<1>4. ASSUME NEW node \in Element, v \in Parts(elem[node]) PROVE Parts(v) \subseteq Value
  <2>1. \A kid \in Range(node.kids) : kid \in Element
    BY KidsOf
  <2> QED BY <1>2, <1>4, <2>1, ElemParts, ElemIsValue
<1> QED BY <1>1, <1>2, <1>3, <1>4, ValueCases

\* One call of walk(), given those it makes.
OneWalk(value, w) ==
  [flat \in Flat |-> Kept(value.at, flat, [part \in Parts(value) |-> w[part]])[Len(value.at)]]

IsWalk(W) == /\ W \subseteq Value
             /\ \A value \in W : Parts(value) \subseteq W
             /\ \E w : w = [value \in W |-> OneWalk(value, w)]

LEMMA WalkExtends ==
  ASSUME NEW W, IsWalk(W), NEW X \in SUBSET Value, \A value \in X : Parts(value) \subseteq W
  PROVE  IsWalk(W \cup X)
<1>1. PICK w : w = [value \in W |-> OneWalk(value, w)]
  BY DEF IsWalk
<1>2. \A value \in W \cup X : Parts(value) \subseteq W
  BY DEF IsWalk
<1> DEFINE u == [value \in W \cup X |-> OneWalk(value, w)]
<1>3. \A value \in W : u[value] = w[value]
  <2>1. \A value \in W : w[value] = OneWalk(value, w)
    BY <1>1
  <2> QED BY <2>1
<1>4. ASSUME NEW value \in W \cup X PROVE u[value] = OneWalk(value, u)
  <2>1. [part \in Parts(value) |-> u[part]] = [part \in Parts(value) |-> w[part]]
    <3> HIDE DEF u
    <3> QED BY <1>2, <1>3
  <2>2. OneWalk(value, u) = OneWalk(value, w)
    <3> HIDE DEF u
    <3> QED BY <2>1 DEF OneWalk
  <2>3. u[value] = OneWalk(value, w)
    OBVIOUS
  <2> QED BY <2>2, <2>3
<1>5. u = [value \in W \cup X |-> u[value]]
  OBVIOUS
<1>6. u = [value \in W \cup X |-> OneWalk(value, u)]
  <2> HIDE DEF u
  <2> QED BY <1>4, <1>5
<1> HIDE DEF u
<1> QED BY <1>2, <1>6 DEF IsWalk

\* What documents up to height m are made into, and lists of that.
LowMade(m) == {elem[node] : node \in Low(m)}
LowLists(m) == {value \in Value : Parts(value) \subseteq LowMade(m)}
IsWalkUpTo(m) == \E W : IsWalk(W) /\ LowMade(m) \subseteq W /\ LowLists(m) \subseteq W

LEMMA AddLists ==
  ASSUME NEW m, NEW W, IsWalk(W), LowMade(m) \subseteq W
  PROVE  IsWalkUpTo(m)
<1>1. IsWalk(W \cup LowLists(m))
  BY WalkExtends DEF LowLists
<1> QED BY <1>1 DEF IsWalkUpTo

LEMMA WalkUpTo == IsWalkUpTo(MaxHeight)
<1> DEFINE S == {m \in 0 .. MaxHeight : IsWalkUpTo(m)}
<1>0. MaxHeight \in Nat
  BY AllAreLow
<1>1. 0 \in S
  <2>1. IsWalk({})
    <3> DEFINE w == [value \in {} |-> {}]
    <3>1. w = [value \in {} |-> OneWalk(value, w)]
      OBVIOUS
    <3> QED BY <3>1 DEF IsWalk
  <2>2. \A value \in LowMade(0) : value \in Value /\ Parts(value) \subseteq {}
    <3>1. \A node \in Low(0) : node \in Element /\ node.kids = <<>>
      BY <1>0, KidsAreLower
    <3> QED BY <3>1, ElemIsValue, ElemKind DEF LowMade, Parts
  <2>3. IsWalk({} \cup LowMade(0))
    BY <2>1, <2>2, WalkExtends
  <2>4. IsWalkUpTo(0)
    BY <2>3, AddLists
  <2> QED BY <1>0, <2>4
<1>2. ASSUME NEW m \in 0 .. MaxHeight, m \in S, m + 1 \in 0 .. MaxHeight PROVE m + 1 \in S
  <2>1. PICK W : IsWalk(W) /\ LowMade(m) \subseteq W /\ LowLists(m) \subseteq W
    BY <1>2 DEF IsWalkUpTo
  <2>2. ASSUME NEW node \in Low(m + 1)
        PROVE  elem[node] \in Value /\ Parts(elem[node]) \subseteq W
    <3>1. node \in Element /\ Range(node.kids) \subseteq Low(m)
      <4>1. m + 1 \in 0 .. MaxHeight /\ m + 1 # 0 /\ (m + 1) - 1 = m
        BY <1>2
      <4>2. node \in Element /\ Range(node.kids) \subseteq Low((m + 1) - 1)
        BY <4>1, KidsAreLower
      <4> QED BY <4>1, <4>2
    <3>2. \A kid \in Range(node.kids) : elem[kid] \in LowMade(m)
      BY <3>1 DEF LowMade
    <3>3. ASSUME NEW v \in Parts(elem[node]) PROVE v \in W
      <4>1. v \in Value
        BY <3>1, ElemIsValue, ValueParts
      <4>2. v \in LowMade(m) \/ Parts(v) \subseteq LowMade(m)
        BY <3>1, <3>2, ElemParts
      <4> QED BY <2>1, <4>1, <4>2 DEF LowLists
    <3> QED BY <3>1, <3>3, ElemIsValue
  <2>3. IsWalk(W \cup LowMade(m + 1))
    <3>1. \A value \in LowMade(m + 1) : value \in Value /\ Parts(value) \subseteq W
      BY <2>2 DEF LowMade
    <3> QED BY <2>1, <3>1, WalkExtends
  <2>4. IsWalkUpTo(m + 1)
    BY <2>3, AddLists
  <2> QED BY <1>2, <2>4
<1> HIDE DEF S
<1>3. 0 .. MaxHeight \subseteq S
  BY <1>0, <1>1, <1>2, CountInduction
<1> QED BY <1>0, <1>3 DEF S

LEMMA WalkEquation == walk = [value \in Value |-> OneWalk(value, walk)]
<1>1. PICK W : /\ IsWalk(W)
               /\ \A node \in Element : elem[node] \in W
               /\ \A v \in Value : Parts(v) \subseteq {elem[node] : node \in Element} => v \in W
  BY WalkUpTo, AllAreLow DEF IsWalkUpTo, LowMade, LowLists
<1>2. Text("raw") \in Value => Text("raw") \in W
  BY <1>1 DEF Text, Parts
<1>3. ASSUME NEW v \in Value PROVE Parts(v) \subseteq W
  <2>1. ASSUME NEW node \in Element, v = elem[node] \/ v \in Parts(elem[node])
        PROVE  Parts(v) \subseteq W
    BY <1>1, <2>1 DEF IsWalk
  <2>2. ASSUME NEW doc, MadeOf(doc), v = XmlToDict(doc) PROVE Parts(v) \subseteq W
    <3>1. Parts(v) \subseteq Value
      BY ValueParts
    <3> QED BY <1>1, <1>2, <2>2, <3>1, XmlParts
  <2> QED BY <2>1, <2>2, ValueCases DEF Text, Parts
<1>4. IsWalk(W \cup Value) /\ W \cup Value = Value
  BY <1>1, <1>3, WalkExtends DEF IsWalk
<1>5. PICK w : w = [value \in Value |-> OneWalk(value, w)]
  BY <1>4 DEF IsWalk
<1> QED BY <1>5 DEF walk, OneWalk

-------------------------------------------------------------------------------
\* What a walk may leave in the summary.  A claim says, for every key, which
\* texts are due there if the key is still free; a key that is taken stays so.
Claims == [Key -> SUBSET ({node.text : node \in Element} \cup {"raw"})]
NoNone(c) == c \in Claims /\ \A k \in Key : None \notin c[k]

Fills(r, flat, c) ==
  /\ r \in Flat
  /\ \A k \in Key : /\ flat[k] # None => r[k] = flat[k]
                    /\ flat[k] = None /\ c[k] = {} => r[k] = None
                    /\ flat[k] = None /\ c[k] # {} => r[k] \in c[k]

\* The same of a loop over n items: the first item with a claim provides.
FillsFirst(r, flat, cs, n) ==
  /\ r \in Flat
  /\ \A k \in Key :
       /\ flat[k] # None => r[k] = flat[k]
       /\ flat[k] = None =>
            \/ r[k] = None /\ \A i \in 1 .. n : cs[i][k] = {}
            \/ \E i \in 1 .. n : r[k] \in cs[i][k] /\ \A j \in 1 .. i - 1 : cs[j][k] = {}

LEMMA FillsNext ==
  ASSUME NEW flat \in Flat, NEW found, NEW r, NEW cs, NEW n \in Nat,
         FillsFirst(found, flat, cs, n), Fills(r, found, cs[n + 1]),
         \A i \in 1 .. n + 1 : NoNone(cs[i])
  PROVE  FillsFirst(r, flat, cs, n + 1)
<1>1. r \in Flat
  BY DEF Fills
<1> SUFFICES ASSUME NEW k \in Key
             PROVE  /\ flat[k] # None => r[k] = flat[k]
                    /\ flat[k] = None =>
                         \/ r[k] = None /\ \A i \in 1 .. n + 1 : cs[i][k] = {}
                         \/ \E i \in 1 .. n + 1 : /\ r[k] \in cs[i][k]
                                                  /\ \A j \in 1 .. i - 1 : cs[j][k] = {}
  BY <1>1 DEF FillsFirst
<1>2. CASE flat[k] # None
  BY <1>2 DEF FillsFirst, Fills
<1>3. CASE flat[k] = None /\ found[k] # None
  <2>1. r[k] = found[k]
    BY <1>3 DEF Fills
  <2>2. PICK i \in 1 .. n : found[k] \in cs[i][k] /\ \A j \in 1 .. i - 1 : cs[j][k] = {}
    BY <1>3 DEF FillsFirst
  <2>3. i \in 1 .. n + 1
    OBVIOUS
  <2> QED BY <1>3, <2>1, <2>2, <2>3
<1>4. CASE flat[k] = None /\ found[k] = None
  <2>1. \A i \in 1 .. n : cs[i][k] = {}
    <3>1. \A i \in 1 .. n : None \notin cs[i][k]
      BY DEF NoNone
    <3> QED BY <1>4, <3>1 DEF FillsFirst
  <2>2. CASE cs[n + 1][k] = {}
    <3>1. r[k] = None
      BY <1>4, <2>2 DEF Fills
    <3>2. \A i \in 1 .. n + 1 : cs[i][k] = {}
      BY <2>1, <2>2
    <3> QED BY <1>4, <3>1, <3>2
  <2>3. CASE cs[n + 1][k] # {}
    <3>1. r[k] \in cs[n + 1][k]
      BY <1>4, <2>3 DEF Fills
    <3>2. n + 1 \in 1 .. n + 1 /\ (n + 1) - 1 = n
      OBVIOUS
    <3> QED BY <1>4, <2>1, <3>1, <3>2
  <2> QED BY <2>2, <2>3
<1> QED BY <1>2, <1>3, <1>4

\* A walk through a value whose items fill their claims.
LEMMA WalkFirst ==
  ASSUME NEW v \in Value, IsSeq(v.at), NEW cs,
         \A i \in 1 .. Len(v.at) :
           NoNone(cs[i]) /\ \A flat \in Flat : Fills(OneKept(v.at[i], flat, walk), flat, cs[i]),
         NEW flat \in Flat
  PROVE  FillsFirst(walk[v][flat], flat, cs, Len(v.at))
<1> DEFINE N == Len(v.at)
           walks == [part \in Parts(v) |-> walk[part]]
           found == Kept(v.at, flat, walks)
           S == {n \in 0 .. N : FillsFirst(found[n], flat, cs, n)}
<1>0. N \in Nat /\ DOMAIN v.at = 1 .. N
  BY SeqFacts
<1>1. walk[v][flat] = found[N]
  <2>1. walk[v] = OneWalk(v, walk)
    BY WalkEquation
  <2> QED BY <2>1 DEF OneWalk
<1>2. \A i \in 1 .. N : \A f : OneKept(v.at[i], f, walks) = OneKept(v.at[i], f, walk)
  <2>1. \A i \in 1 .. N : v.at[i].value \in Parts(v)
    BY <1>0 DEF Parts
  <2> QED BY <2>1 DEF OneKept
<1>3. /\ found[0] = flat
      /\ \A n \in 0 .. N : n + 1 \in 0 .. N =>
           found[n + 1] = OneKept(v.at[n + 1], found[n], walks)
  <2> HIDE DEF walks
  <2> QED BY <1>0, KeptTurns
<1> HIDE DEF found, walks
<1>4. 0 \in S
  <2>1. FillsFirst(flat, flat, cs, 0)
    BY DEF FillsFirst
  <2> QED BY <1>0, <1>3, <2>1
<1>5. ASSUME NEW n \in 0 .. N, n \in S, n + 1 \in 0 .. N PROVE n + 1 \in S
  <2>1. n \in Nat /\ n + 1 \in 1 .. N /\ \A i \in 1 .. n + 1 : i \in 1 .. N
    BY <1>0, <1>5
  <2>2. FillsFirst(found[n], flat, cs, n) /\ found[n] \in Flat
    BY <1>5 DEF FillsFirst
  <2>3. Fills(found[n + 1], found[n], cs[n + 1])
    BY <1>2, <1>3, <1>5, <2>1, <2>2
  <2>4. FillsFirst(found[n + 1], flat, cs, n + 1)
    BY <2>1, <2>2, <2>3, FillsNext
  <2> QED BY <1>5, <2>4
<1> HIDE DEF S
<1>6. 0 .. N \subseteq S
  BY <1>0, <1>4, <1>5, CountInduction
<1> QED BY <1>0, <1>1, <1>6 DEF S

\* The claim of a dict or list, from those of its items.
Firstly(c, cs, n) ==
  \A k \in Key : /\ \A i \in 1 .. n :
                      (\A j \in 1 .. i - 1 : cs[j][k] = {}) => cs[i][k] \subseteq c[k]
                 /\ (\A i \in 1 .. n : cs[i][k] = {}) => c[k] = {}

LEMMA WalkFills ==
  ASSUME NEW v \in Value, IsSeq(v.at), NEW cs,
         \A i \in 1 .. Len(v.at) :
           NoNone(cs[i]) /\ \A flat \in Flat : Fills(OneKept(v.at[i], flat, walk), flat, cs[i]),
         NEW c, Firstly(c, cs, Len(v.at)),
         NEW flat \in Flat
  PROVE  Fills(walk[v][flat], flat, c)
<1> DEFINE r == walk[v][flat]
<1>1. FillsFirst(r, flat, cs, Len(v.at))
  BY WalkFirst
<1> HIDE DEF r
<1>2. r \in Flat
  BY <1>1 DEF FillsFirst
<1>3. ASSUME NEW k \in Key
      PROVE  /\ flat[k] # None => r[k] = flat[k]
             /\ flat[k] = None /\ c[k] = {} => r[k] = None
             /\ flat[k] = None /\ c[k] # {} => r[k] \in c[k]
  <2>1. CASE flat[k] # None
    BY <1>1, <2>1 DEF FillsFirst
  <2>2. CASE r[k] = None /\ \A i \in 1 .. Len(v.at) : cs[i][k] = {}
    BY <1>1, <2>2 DEF FillsFirst, Firstly
  <2>3. CASE \E i \in 1 .. Len(v.at) : r[k] \in cs[i][k] /\ \A j \in 1 .. i - 1 : cs[j][k] = {}
    <3>1. r[k] \in c[k]
      BY <2>3 DEF Firstly
    <3> QED BY <1>1, <3>1 DEF FillsFirst
  <2> QED BY <1>1, <2>1, <2>2, <2>3 DEF FillsFirst
<1> QED BY <1>2, <1>3 DEF Fills, r

\* The claim of an item with a string; one inside a list has no key.
TextClaim(key, text) == [k \in Key |-> IF k = key /\ text # None THEN {text} ELSE {}]

LEMMA TextFills ==
  ASSUME NEW item, item.value.kind = "text", item.key \in Key \cup {None},
         item.value.text \in {node.text : node \in Element} \cup {None, "raw"}
  PROVE  /\ NoNone(TextClaim(item.key, item.value.text))
         /\ \A flat \in Flat :
              Fills(OneKept(item, flat, walk), flat, TextClaim(item.key, item.value.text))
<1> DEFINE key == item.key
           text == item.value.text
           c == TextClaim(key, text)
<1>1. \A k \in Key : c[k] = IF k = key /\ text # None THEN {text} ELSE {}
  BY DEF TextClaim
<1>2. NoNone(c)
  BY DEF NoNone, Claims, TextClaim
<1>3. ASSUME NEW flat \in Flat PROVE Fills(Keep(flat, key, text), flat, c)
  <2> HIDE DEF c, key, text
  <2>1. None \notin Key
    BY TagAssumption DEF TagAssumption, Key
  <2>2. CASE key # None /\ text # None /\ flat[key] = None
    <3>1. Keep(flat, key, text) = [flat EXCEPT ![key] = text] /\ key \in Key
      BY <2>2 DEF Keep, key
    <3>2. [flat EXCEPT ![key] = text] \in Flat
      BY <3>1 DEF Flat, text
    <3>3. \A k \in Key : [flat EXCEPT ![key] = text][k] = IF k = key THEN text ELSE flat[k]
      BY <3>1 DEF Flat
    <3> QED BY <1>1, <2>2, <3>1, <3>2, <3>3 DEF Fills
  <2>3. CASE ~(key # None /\ text # None /\ flat[key] = None)
    <3>1. Keep(flat, key, text) = flat
      BY <2>3 DEF Keep
    <3> QED BY <1>1, <2>1, <2>3, <3>1 DEF Fills
  <2> QED BY <2>2, <2>3
<1> QED BY <1>2, <1>3 DEF OneKept

-------------------------------------------------------------------------------
\* Induction over documents.
LEMMA DocumentInduction ==
  ASSUME NEW S, \A node \in Element : Range(node.kids) \subseteq S => node \in S
  PROVE  Element \subseteq S
<1> DEFINE T == {m \in 0 .. MaxHeight : Low(m) \subseteq S}
<1>0. MaxHeight \in Nat
  BY AllAreLow
<1>1. 0 \in T
  <2> SUFFICES ASSUME NEW node \in Low(0) PROVE node \in S
    BY <1>0
  <2>1. node \in Element /\ node.kids = <<>>
    BY <1>0, KidsAreLower
  <2>2. \A kid \in Range(node.kids) : \E i \in 1 .. Len(node.kids) : kid = node.kids[i]
    BY <2>1, KidsOf
  <2>3. Len(node.kids) = 0
    BY <2>1, KidsOf
  <2> QED BY <2>1, <2>2, <2>3
<1>2. ASSUME NEW m \in 0 .. MaxHeight, m \in T, m + 1 \in 0 .. MaxHeight PROVE m + 1 \in T
  <2> SUFFICES ASSUME NEW node \in Low(m + 1) PROVE node \in S
    BY <1>2
  <2>1. m + 1 \in 0 .. MaxHeight /\ m + 1 # 0 /\ (m + 1) - 1 = m
    BY <1>2
  <2>2. node \in Element /\ Range(node.kids) \subseteq Low((m + 1) - 1)
    BY <2>1, KidsAreLower
  <2> QED BY <1>2, <2>1, <2>2
<1> HIDE DEF T
<1>3. 0 .. MaxHeight \subseteq T
  BY <1>0, <1>1, <1>2, CountInduction
<1> QED BY <1>0, <1>3, AllAreLow DEF T

\* The leaves of a document: those of its children, or itself.
LEMMA LeavesAre ==
  ASSUME NEW node \in Element
  PROVE  /\ node.kids = <<>> => leaves[node] = {Leaf(<<>>, node.tag, node.text, TRUE, TRUE)}
         /\ node.kids # <<>> =>
              \A l : l \in leaves[node] <=>
                       \E i \in 1 .. Len(node.kids) : \E m \in leaves[node.kids[i]] :
                         l = Under(node.kids, i, m)
<1>1. node.kids = <<>> => leaves[node] = {Leaf(<<>>, node.tag, node.text, TRUE, TRUE)}
  BY LeavesEquation
<1>2. ASSUME node.kids # <<>>
      PROVE  leaves[node] = UNION {{Under(node.kids, i, m) : m \in leaves[node.kids[i]]} :
                                    i \in DOMAIN node.kids}
  BY <1>2, LeavesEquation
<1>3. DOMAIN node.kids = 1 .. Len(node.kids)
  BY KidsOf
<1>4. ASSUME node.kids # <<>>, NEW l
      PROVE  l \in leaves[node] <=>
               \E i \in 1 .. Len(node.kids) : \E m \in leaves[node.kids[i]] :
                 l = Under(node.kids, i, m)
  BY <1>2, <1>3, <1>4
<1> QED BY <1>1, <1>4

LEMMA LeafIs ==
  ASSUME NEW node, NEW l, l = Leaf(<<>>, node.tag, node.text, TRUE, TRUE)
  PROVE  l.path = <<>> /\ l.tag = node.tag /\ l.text = node.text /\ l.alone /\ l.single
BY DEF Leaf

LEMMA PathUnder ==
  ASSUME NEW i \in Nat, NEW p \in Seq(Nat), NEW q, q = <<i>> \o p
  PROVE  /\ q \in Seq(Nat) /\ Len(q) = Len(p) + 1 /\ q # <<>> /\ q[1] = i
         /\ \A t \in 1 .. Len(p) : q[t + 1] = p[t]
<1>1. <<i>> \in Seq(Nat) /\ Len(<<i>>) = 1
  OBVIOUS
<1>2. q \in Seq(Nat) /\ Len(q) = Len(p) + 1
  BY <1>1
<1>3. q[1] = i
  BY <1>1
<1>4. \A t \in 1 .. Len(p) : q[t + 1] = p[t]
  BY <1>1
<1>5. q # <<>>
  BY <1>2
<1> QED BY <1>2, <1>3, <1>4, <1>5

\* A document has leaves, its only leaf is itself only if it has no children.
Leafy(node) ==
  /\ leaves[node] # {}
  /\ \A l \in leaves[node] : /\ l.path \in Seq(Nat)
                             /\ l.path = <<>> <=> node.kids = <<>>
                             /\ l.text \in {e.text : e \in Element}

LEMMA AllLeafy == \A node \in Element : Leafy(node)
<1> DEFINE S == {node \in Element : Leafy(node)}
<1>1. ASSUME NEW node \in Element, Range(node.kids) \subseteq S PROVE node \in S
  <2>1. CASE node.kids = <<>>
    <3>1. leaves[node] = {Leaf(<<>>, node.tag, node.text, TRUE, TRUE)}
      BY <2>1, LeavesAre
    <3>2. ASSUME NEW l \in leaves[node] PROVE l.path = <<>> /\ l.text = node.text
      BY <3>1, LeafIs
    <3>3. <<>> \in Seq(Nat)
      OBVIOUS
    <3> QED BY <2>1, <3>1, <3>2, <3>3 DEF Leafy
  <2>2. CASE node.kids # <<>>
    <3>1. \A l : l \in leaves[node] <=>
                   \E i \in 1 .. Len(node.kids) : \E m \in leaves[node.kids[i]] :
                     l = Under(node.kids, i, m)
      BY <2>2, LeavesAre
    <3>2. \A i \in 1 .. Len(node.kids) : Leafy(node.kids[i])
      BY <1>1, KidsOf
    <3>3. 1 \in 1 .. Len(node.kids) /\ Len(node.kids) \in Nat
      BY <2>2, KidsOf
    <3>4. leaves[node] # {}
      BY <3>1, <3>2, <3>3 DEF Leafy
    <3>5. ASSUME NEW l \in leaves[node]
          PROVE  l.path \in Seq(Nat) /\ l.path # <<>> /\ l.text \in {e.text : e \in Element}
      <4>0. PICK i \in 1 .. Len(node.kids) :
              \E m \in leaves[node.kids[i]] : l = Under(node.kids, i, m)
        BY <3>1
      <4>1. PICK m \in leaves[node.kids[i]] : l = Under(node.kids, i, m)
        BY <4>0
      <4>2. l.path = <<i>> \o m.path /\ l.text = m.text
        BY <4>1 DEF Under, Leaf
      <4>3. m.path \in Seq(Nat) /\ m.text \in {e.text : e \in Element} /\ i \in Nat
        BY <3>2, <3>3, <4>1 DEF Leafy
      <4> QED BY <4>2, <4>3, PathUnder
    <3> QED BY <2>2, <3>4, <3>5 DEF Leafy
  <2> QED BY <2>1, <2>2
<1> HIDE DEF S
<1>2. Element \subseteq S
  BY <1>1, DocumentInduction
<1> QED BY <1>2 DEF S

-------------------------------------------------------------------------------
\* The claim of a document: the texts of the leaves that no sibling's tag hides.
AloneAt(node, k) == {l \in Texts(node, k) : l.alone}
Alones(node) == [k \in Key |-> {l.text : l \in AloneAt(node, k)}]

\* The j-th child's share of it.
Shares(node, j, k) == {m \in leaves[node.kids[j]] :
                        LET l == Under(node.kids, j, m)
                        IN  l.tag = k /\ l.text # None /\ l.alone}
Share(node, j) == [k \in Key |-> {m.text : m \in Shares(node, j, k)}]

LEMMA ShareIs ==
  ASSUME NEW node \in Element, NEW j \in 1 .. Len(node.kids), NEW k,
         NEW m \in leaves[node.kids[j]]
  PROVE  m \in Shares(node, j, k) <=>
           /\ m.tag = k /\ m.text # None
           /\ m.path = <<>> => Alone(node.kids, j)
           /\ m.path # <<>> => m.alone
<1> DEFINE l == Under(node.kids, j, m)
<1>1. l.tag = m.tag /\ l.text = m.text
  BY DEF Under, Leaf
<1>2. CASE m.path = <<>>
  <2>1. l.alone <=> Alone(node.kids, j)
    BY <1>2 DEF Under, Leaf
  <2> HIDE DEF l
  <2> QED BY <1>1, <1>2, <2>1 DEF Shares, l
<1>3. CASE m.path # <<>>
  <2>1. l.alone <=> m.alone
    BY <1>3 DEF Under, Leaf
  <2> HIDE DEF l
  <2> QED BY <1>1, <1>3, <2>1 DEF Shares, l
<1> QED BY <1>2, <1>3

\* A child without children shares its text, if no sibling has its tag; another
\* one all that is alone in it.
LEMMA LeafShare ==
  ASSUME NEW node \in Element, NEW j \in 1 .. Len(node.kids), node.kids[j].kids = <<>>
  PROVE  LET kid == node.kids[j]
         IN  /\ Alone(node.kids, j) => Share(node, j) = TextClaim(kid.tag, kid.text)
             /\ ~Alone(node.kids, j) => Share(node, j) = [k \in Key |-> {}]
<1> DEFINE kid == node.kids[j]
           m0 == Leaf(<<>>, kid.tag, kid.text, TRUE, TRUE)
<1>1. leaves[kid] = {m0} /\ m0.path = <<>> /\ m0.tag = kid.tag /\ m0.text = kid.text
  <2>1. kid \in Element
    BY KidsOf
  <2>2. leaves[kid] = {m0}
    BY <2>1, LeavesAre
  <2>3. m0.path = <<>> /\ m0.tag = kid.tag /\ m0.text = kid.text
    BY DEF Leaf
  <2> QED BY <2>2, <2>3
<1> HIDE DEF m0
<1>2. ASSUME NEW k
      PROVE  m0 \in Shares(node, j, k) <=>
               kid.tag = k /\ kid.text # None /\ Alone(node.kids, j)
  <2>1. m0 \in leaves[node.kids[j]]
    BY <1>1
  <2> QED BY <1>1, <2>1, ShareIs
<1>3. ASSUME NEW k
      PROVE  Shares(node, j, k) =
               IF kid.tag = k /\ kid.text # None /\ Alone(node.kids, j) THEN {m0} ELSE {}
  <2>1. Shares(node, j, k) \subseteq {m0}
    BY <1>1 DEF Shares
  <2> QED BY <1>2, <2>1
<1>4. ASSUME NEW k
      PROVE  {m.text : m \in Shares(node, j, k)} =
               IF k = kid.tag /\ kid.text # None /\ Alone(node.kids, j) THEN {kid.text} ELSE {}
  BY <1>1, <1>3
<1> HIDE DEF kid
<1>5. ASSUME Alone(node.kids, j) PROVE Share(node, j) = TextClaim(kid.tag, kid.text)
  BY <1>4, <1>5 DEF Share, TextClaim
<1>6. ASSUME ~Alone(node.kids, j) PROVE Share(node, j) = [k \in Key |-> {}]
  BY <1>4, <1>6 DEF Share
<1> QED BY <1>5, <1>6 DEF kid

LEMMA InnerShare ==
  ASSUME NEW node \in Element, NEW j \in 1 .. Len(node.kids), node.kids[j].kids # <<>>
  PROVE  Share(node, j) = Alones(node.kids[j])
<1> DEFINE kid == node.kids[j]
<1>1. kid \in Element
  BY KidsOf
<1>2. \A m \in leaves[kid] : m.path # <<>>
  BY <1>1, AllLeafy DEF Leafy
<1>3. ASSUME NEW k PROVE Shares(node, j, k) = AloneAt(kid, k)
  <2>1. \A m \in leaves[kid] :
          m \in Shares(node, j, k) <=> m.tag = k /\ m.text # None /\ m.alone
    BY <1>2, ShareIs
  <2>2. Shares(node, j, k) \subseteq leaves[kid]
    BY DEF Shares
  <2> QED BY <2>1, <2>2 DEF AloneAt, Texts
<1> QED BY <1>3 DEF Share, Alones

\* All shares together.
LEMMA AlonesAre ==
  ASSUME NEW node \in Element, node.kids # <<>>, NEW k \in Key
  PROVE  /\ \A j \in 1 .. Len(node.kids) : Share(node, j)[k] \subseteq Alones(node)[k]
         /\ \A t \in Alones(node)[k] : \E j \in 1 .. Len(node.kids) : t \in Share(node, j)[k]
<1>1. \A l : l \in leaves[node] <=>
               \E i \in 1 .. Len(node.kids) : \E m \in leaves[node.kids[i]] :
                 l = Under(node.kids, i, m)
  BY LeavesAre
<1>2. \A i, m : Under(node.kids, i, m).text = m.text
  BY DEF Under, Leaf
<1>3. ASSUME NEW j \in 1 .. Len(node.kids), NEW t \in Share(node, j)[k]
      PROVE  t \in Alones(node)[k]
  <2>1. PICK m \in Shares(node, j, k) : t = m.text
    BY <1>3 DEF Share
  <2> DEFINE l == Under(node.kids, j, m)
  <2>2. l \in leaves[node]
    BY <1>1, <2>1 DEF Shares
  <2>3. l.tag = k /\ l.text # None /\ l.alone
    BY <2>1 DEF Shares
  <2>4. l.text = t
    BY <1>2, <2>1
  <2> HIDE DEF l
  <2>5. l \in AloneAt(node, k)
    BY <2>2, <2>3 DEF AloneAt, Texts
  <2> QED BY <2>4, <2>5 DEF Alones
<1>4. ASSUME NEW t \in Alones(node)[k]
      PROVE  \E j \in 1 .. Len(node.kids) : t \in Share(node, j)[k]
  <2>1. PICK l \in AloneAt(node, k) : t = l.text
    BY <1>4 DEF Alones
  <2>2. l \in leaves[node] /\ l.tag = k /\ l.text # None /\ l.alone
    BY <2>1 DEF AloneAt, Texts
  <2>3. PICK j \in 1 .. Len(node.kids) : \E m \in leaves[node.kids[j]] : l = Under(node.kids, j, m)
    BY <1>1, <2>2
  <2>4. PICK m \in leaves[node.kids[j]] : l = Under(node.kids, j, m)
    BY <2>3
  <2>5. m \in Shares(node, j, k)
    BY <2>2, <2>4 DEF Shares
  <2>6. m.text = t
    BY <1>2, <2>1, <2>4
  <2> QED BY <2>5, <2>6 DEF Share
<1> QED BY <1>3, <1>4

LEMMA ShareNoNone ==
  ASSUME NEW node \in Element, NEW j \in 1 .. Len(node.kids)
  PROVE  NoNone(Share(node, j))
<1>1. node.kids[j] \in Element
  BY KidsOf
<1>2. ASSUME NEW k, NEW m \in Shares(node, j, k)
      PROVE  m.text \in {e.text : e \in Element} /\ m.text # None
  <2>1. m \in leaves[node.kids[j]]
    BY DEF Shares
  <2> QED BY <1>1, <2>1, ShareIs, AllLeafy DEF Leafy
<1> QED BY <1>2 DEF Share, NoNone, Claims

-------------------------------------------------------------------------------
\* Several children's shares as one claim.
SharesOf(node, J) == [k \in Key |-> UNION {Share(node, j)[k] : j \in J}]

LEMMA SharesFill ==
  ASSUME NEW node \in Element, NEW J \in SUBSET (1 .. Len(node.kids)), J # {},
         NEW r, NEW flat, \A j \in J : Fills(r, flat, Share(node, j))
  PROVE  Fills(r, flat, SharesOf(node, J))
<1>1. r \in Flat
  BY DEF Fills
<1> SUFFICES ASSUME NEW k \in Key
             PROVE  /\ flat[k] # None => r[k] = flat[k]
                    /\ flat[k] = None /\ SharesOf(node, J)[k] = {} => r[k] = None
                    /\ flat[k] = None /\ SharesOf(node, J)[k] # {} => r[k] \in SharesOf(node, J)[k]
  BY <1>1 DEF Fills
<1>2. SharesOf(node, J)[k] = UNION {Share(node, j)[k] : j \in J}
  BY DEF SharesOf
<1>3. \A j \in J : /\ flat[k] # None => r[k] = flat[k]
                   /\ flat[k] = None /\ Share(node, j)[k] = {} => r[k] = None
                   /\ flat[k] = None /\ Share(node, j)[k] # {} => r[k] \in Share(node, j)[k]
  BY DEF Fills
<1>4. CASE \A j \in J : Share(node, j)[k] = {}
  <2>1. SharesOf(node, J)[k] = {}
    BY <1>2, <1>4
  <2>2. PICK j \in J : Share(node, j)[k] = {}
    BY <1>4
  <2> QED BY <1>3, <2>1, <2>2
<1>5. CASE \E j \in J : Share(node, j)[k] # {}
  <2>1. PICK j \in J : Share(node, j)[k] # {}
    BY <1>5
  <2>2. flat[k] = None => r[k] \in SharesOf(node, J)[k]
    BY <1>2, <1>3, <2>1
  <2>3. SharesOf(node, J)[k] # {}
    BY <1>2, <2>1
  <2> QED BY <1>3, <2>2, <2>3
<1> QED BY <1>4, <1>5

LEMMA SharesNoNone ==
  ASSUME NEW node \in Element, NEW J \in SUBSET (1 .. Len(node.kids))
  PROVE  NoNone(SharesOf(node, J))
<1>1. ASSUME NEW k \in Key, NEW t \in SharesOf(node, J)[k]
      PROVE  t \in {e.text : e \in Element} \cup {"raw"} /\ t # None
  <2>1. PICK j \in J : t \in Share(node, j)[k]
    BY <1>1 DEF SharesOf
  <2>2. NoNone(Share(node, j))
    BY ShareNoNone
  <2> QED BY <2>1, <2>2 DEF NoNone, Claims
<1>2. SharesOf(node, J) = [k \in Key |-> SharesOf(node, J)[k]]
  BY DEF SharesOf
<1>3. \A k \in Key : SharesOf(node, J)[k] \in SUBSET ({e.text : e \in Element} \cup {"raw"})
  BY <1>1
<1>4. SharesOf(node, J) \in Claims
  BY <1>2, <1>3 DEF Claims
<1> QED BY <1>1, <1>4 DEF NoNone

\* What a walk through a document with children leaves in the summary.
Sound(node) ==
  node.kids # <<>> => \A flat \in Flat : Fills(walk[elem[node]][flat], flat, Alones(node))

LEMMA KidFills ==
  ASSUME NEW node \in Element, NEW j \in 1 .. Len(node.kids), Sound(node.kids[j]),
         NEW item, item.value = elem[node.kids[j]],
         \/ item.key = node.kids[j].tag /\ Alone(node.kids, j)
         \/ item.key = None /\ ~Alone(node.kids, j),
         NEW flat \in Flat
  PROVE  Fills(OneKept(item, flat, walk), flat, Share(node, j))
<1> DEFINE kid == node.kids[j]
<1>0. kid \in Element /\ kid.tag \in Key
  <2>1. kid \in Element
    BY KidsOf
  <2>2. kid.tag \in Tag
    BY <2>1, ElementAssumption DEF ElementAssumption
  <2> QED BY <2>1, <2>2 DEF Key
<1>1. CASE kid.kids = <<>>
  <2>1. item.value.kind = "text" /\ item.value.text = kid.text
    BY <1>0, <1>1, ElemKind
  <2>2. Fills(OneKept(item, flat, walk), flat, TextClaim(item.key, kid.text))
    BY <1>0, <2>1, TextFills
  <2>3. None \notin Key
    BY TagAssumption DEF TagAssumption, Key
  <2>4. TextClaim(None, kid.text) = [k \in Key |-> {}]
    BY <2>3 DEF TextClaim
  <2>5. TextClaim(item.key, kid.text) = Share(node, j)
    BY <1>1, <2>4, LeafShare
  <2> QED BY <2>2, <2>5
<1>2. CASE kid.kids # <<>>
  <2>1. item.value.kind # "text"
    BY <1>0, <1>2, ElemKind
  <2>2. OneKept(item, flat, walk) = walk[elem[kid]][flat]
    BY <2>1 DEF OneKept
  <2>3. Fills(walk[elem[kid]][flat], flat, Alones(kid))
    BY <1>2 DEF Sound
  <2>4. Share(node, j) = Alones(kid)
    BY <1>2, InnerShare
  <2> QED BY <2>2, <2>3, <2>4
<1> QED BY <1>1, <1>2

\* An item of a document's dict stands for all the children that have its key.
LEMMA ItemFills ==
  ASSUME NEW node \in Element, node.kids # <<>>, \A kid \in Range(node.kids) : Sound(kid),
         NEW i \in 1 .. Len(ItemsOf(node)), NEW flat \in Flat,
         NEW J, J = Twins(node.kids, Len(node.kids), ItemsOf(node)[i].key)
  PROVE  Fills(OneKept(ItemsOf(node)[i], flat, walk), flat, SharesOf(node, J))
<1> DEFINE item == ItemsOf(node)[i]
           N == Len(node.kids)
<1>1. Grouped(ItemsOf(node), node.kids, ElemOf(node), N) /\ elem[node].at = ItemsOf(node)
  BY ItemsGrouped, ElemKind
<1>2. J # {} /\ Holds(item.value, node.kids, ElemOf(node), J)
  BY <1>1 DEF Grouped
<1>3. J \in SUBSET (1 .. N) /\ \A j \in 1 .. N : j \in J <=> node.kids[j].tag = item.key
  BY DEF Twins
<1>4. \A j \in 1 .. N : /\ ElemOf(node)[node.kids[j]] = elem[node.kids[j]]
                        /\ Sound(node.kids[j])
  BY KidsOf DEF ElemOf
<1>5. \A j \in J : Alone(node.kids, j) <=> J = {j}
  <2>1. DOMAIN node.kids = 1 .. N
    BY KidsOf
  <2> QED BY <1>3, <2>1 DEF Alone
<1> HIDE DEF item
<1>6. CASE \E j \in J : J = {j} /\ item.value = ElemOf(node)[node.kids[j]]
  <2>1. PICK j \in J : J = {j} /\ item.value = ElemOf(node)[node.kids[j]]
    BY <1>6
  <2>2. /\ j \in 1 .. N /\ Sound(node.kids[j]) /\ item.value = elem[node.kids[j]]
        /\ item.key = node.kids[j].tag /\ Alone(node.kids, j)
    BY <1>3, <1>4, <1>5, <2>1
  <2>3. Fills(OneKept(item, flat, walk), flat, Share(node, j))
    BY <2>2, KidFills
  <2> QED BY <1>2, <1>3, <2>1, <2>3, SharesFill DEF item
<1>7. CASE /\ item.value = List(item.value.at) /\ IsSeq(item.value.at)
           /\ \A j \in J : J # {j}
           /\ \A m \in 1 .. Len(item.value.at) :
                \E j \in J : item.value.at[m] = Item(None, ElemOf(node)[node.kids[j]])
           /\ \A j \in J : \E m \in 1 .. Len(item.value.at) :
                item.value.at[m] = Item(None, ElemOf(node)[node.kids[j]])
  <2> DEFINE at == item.value.at
             From(m) == {j \in J : at[m] = Item(None, elem[node.kids[j]])}
             cs == [m \in 1 .. Len(at) |-> SharesOf(node, From(m))]
  <2>1. OneKept(item, flat, walk) = walk[item.value][flat]
    <3>1. item.value.kind = "list"
      BY <1>7 DEF List
    <3> QED BY <3>1 DEF OneKept
  <2>2. item.value \in Value
    <3>1. item.value \in Parts(elem[node])
      BY <1>1, PartsAre DEF item, Grouped
    <3>2. Parts(elem[node]) \subseteq Value
      BY ValueParts, ElemIsValue
    <3> QED BY <3>1, <3>2
  <2>3. ASSUME NEW m \in 1 .. Len(at)
        PROVE  From(m) \in SUBSET (1 .. N) /\ From(m) # {}
    <3>1. PICK j \in J : at[m] = Item(None, ElemOf(node)[node.kids[j]])
      BY <1>7
    <3>2. j \in From(m)
      BY <1>3, <1>4, <3>1
    <3> QED BY <1>3, <3>2
  <2>4. ASSUME NEW m \in 1 .. Len(at), NEW f \in Flat
        PROVE  Fills(OneKept(at[m], f, walk), f, cs[m])
    <3>1. ASSUME NEW j \in From(m) PROVE Fills(OneKept(at[m], f, walk), f, Share(node, j))
      <4>1. j \in J /\ j \in 1 .. N /\ at[m] = Item(None, elem[node.kids[j]])
        BY <1>3
      <4>2. at[m].key = None /\ at[m].value = elem[node.kids[j]]
        BY <4>1, ItemFacts
      <4>3. Sound(node.kids[j]) /\ ~Alone(node.kids, j)
        BY <1>4, <1>5, <1>7, <4>1
      <4> HIDE DEF at
      <4> QED BY <4>1, <4>2, <4>3, KidFills
    <3>2. cs[m] = SharesOf(node, From(m))
      OBVIOUS
    <3> HIDE DEF cs, From, at
    <3> QED BY <2>3, <3>1, <3>2, SharesFill
  <2>5. ASSUME NEW m \in 1 .. Len(at) PROVE NoNone(cs[m])
    <3>1. cs[m] = SharesOf(node, From(m))
      OBVIOUS
    <3> HIDE DEF cs, From, at
    <3> QED BY <2>3, <3>1, SharesNoNone
  <2>6. Firstly(SharesOf(node, J), cs, Len(at))
    <3> SUFFICES ASSUME NEW k \in Key
                 PROVE  /\ \A m \in 1 .. Len(at) : cs[m][k] \subseteq SharesOf(node, J)[k]
                        /\ (\A m \in 1 .. Len(at) : cs[m][k] = {}) => SharesOf(node, J)[k] = {}
      BY DEF Firstly
    <3>1. SharesOf(node, J)[k] = UNION {Share(node, j)[k] : j \in J}
      BY DEF SharesOf
    <3>2. \A m \in 1 .. Len(at) : cs[m][k] = UNION {Share(node, j)[k] : j \in From(m)}
      BY DEF SharesOf
    <3>3. \A m \in 1 .. Len(at) : From(m) \subseteq J
      OBVIOUS
    <3>4. \A j \in J : \E m \in 1 .. Len(at) : j \in From(m)
      BY <1>3, <1>4, <1>7
    <3> HIDE DEF cs, From, at
    <3>5. \A m \in 1 .. Len(at) : cs[m][k] \subseteq SharesOf(node, J)[k]
      BY <3>1, <3>2, <3>3
    <3>6. ASSUME \A m \in 1 .. Len(at) : cs[m][k] = {}, NEW t \in SharesOf(node, J)[k]
          PROVE  FALSE
      <4>1. PICK j \in J : t \in Share(node, j)[k]
        BY <3>1
      <4>2. PICK m \in 1 .. Len(at) : j \in From(m)
        BY <3>4
      <4> QED BY <3>2, <3>6, <4>1, <4>2
    <3> QED BY <3>5, <3>6
  <2>7. IsSeq(item.value.at) /\ at = item.value.at
    BY <1>7
  <2> HIDE DEF cs, From, at
  <2> QED BY <2>1, <2>2, <2>4, <2>5, <2>6, <2>7, WalkFills DEF item
<1> QED BY <1>2, <1>6, <1>7 DEF Holds

LEMMA AllSound == \A node \in Element : Sound(node)
<1> DEFINE S == {node \in Element : Sound(node)}
<1>1. ASSUME NEW node \in Element, Range(node.kids) \subseteq S PROVE node \in S
  <2> SUFFICES ASSUME node.kids # <<>>, NEW flat \in Flat
               PROVE  Fills(walk[elem[node]][flat], flat, Alones(node))
    BY DEF Sound
  <2> DEFINE items == ItemsOf(node)
             N == Len(node.kids)
             J(i) == Twins(node.kids, N, items[i].key)
             cs == [i \in 1 .. Len(items) |-> SharesOf(node, J(i))]
  <2>1. Grouped(items, node.kids, ElemOf(node), N) /\ elem[node].at = items /\ elem[node] \in Value
    BY ItemsGrouped, ElemKind, ElemIsValue
  <2>2. IsSeq(elem[node].at)
    BY <2>1 DEF Grouped
  <2>3. \A kid \in Range(node.kids) : Sound(kid)
    BY <1>1
  <2>4. \A i \in 1 .. Len(items) : J(i) \in SUBSET (1 .. N)
    BY DEF Twins
  <2>5. \A i \in 1 .. Len(items) : cs[i] = SharesOf(node, J(i))
    OBVIOUS
  <2>6. ASSUME NEW i \in 1 .. Len(items), NEW f \in Flat
        PROVE  Fills(OneKept(items[i], f, walk), f, cs[i])
    <3> HIDE DEF cs
    <3> QED BY <2>3, <2>5, ItemFills
  <2>7. ASSUME NEW i \in 1 .. Len(items) PROVE NoNone(cs[i])
    <3> HIDE DEF cs, J
    <3> QED BY <2>4, <2>5, SharesNoNone
  <2>8. Firstly(Alones(node), cs, Len(items))
    <3> SUFFICES ASSUME NEW k \in Key
                 PROVE  /\ \A i \in 1 .. Len(items) : cs[i][k] \subseteq Alones(node)[k]
                        /\ (\A i \in 1 .. Len(items) : cs[i][k] = {}) => Alones(node)[k] = {}
      BY DEF Firstly
    <3>1. \A i \in 1 .. Len(items) : cs[i][k] = UNION {Share(node, j)[k] : j \in J(i)}
      BY DEF SharesOf
    <3>2. \A j \in 1 .. N : \E i \in 1 .. Len(items) : j \in J(i)
      <4> SUFFICES ASSUME NEW j \in 1 .. N PROVE \E i \in 1 .. Len(items) : j \in J(i)
        OBVIOUS
      <4>1. PICK i \in 1 .. Len(items) : items[i].key = node.kids[j].tag
        BY <2>1 DEF Grouped
      <4> QED BY <4>1 DEF Twins
    <3> HIDE DEF cs, J, items
    <3>3. \A i \in 1 .. Len(items) : cs[i][k] \subseteq Alones(node)[k]
      BY <2>4, <3>1, AlonesAre
    <3>4. ASSUME \A i \in 1 .. Len(items) : cs[i][k] = {}, NEW t \in Alones(node)[k]
          PROVE  FALSE
      <4>1. PICK j \in 1 .. N : t \in Share(node, j)[k]
        BY AlonesAre
      <4>2. PICK i \in 1 .. Len(items) : j \in J(i)
        BY <3>2
      <4> QED BY <3>1, <3>4, <4>1, <4>2
    <3> QED BY <3>3, <3>4
  <2> HIDE DEF cs, J
  <2> QED BY <2>1, <2>2, <2>6, <2>7, <2>8, WalkFills
<1> HIDE DEF S
<1>2. Element \subseteq S
  BY <1>1, DocumentInduction
<1> QED BY <1>2 DEF S

-------------------------------------------------------------------------------
\* From a claim to the user of the summary.
LEMMA UserIs ==
  ASSUME NEW v, NEW c, NoNone(c), \A flat \in Flat : Fills(walk[v][flat], flat, c)
  PROVE  /\ c["user_name"] # {} => Username(v) \in c["user_name"]
         /\ c["user_name"] = {} /\ c["userName"] # {} => Username(v) \in c["userName"]
         /\ c["user_name"] = {} /\ c["userName"] = {} => Username(v) = None
<1> DEFINE free == [k \in Key |-> None]
           r == walk[v][free]
<1>1. "user_name" \in Key /\ "userName" \in Key
  BY TagAssumption DEF TagAssumption, Key
<1>2. free \in Flat /\ \A k \in Key : free[k] = None
  BY DEF Flat
<1>3. Username(v) = IF r["user_name"] # None THEN r["user_name"] ELSE r["userName"]
  BY DEF Username
<1>4. Fills(r, free, c)
  <2> HIDE DEF free
  <2> QED BY <1>2
<1> HIDE DEF free, r
<1>5. \A k \in Key : /\ c[k] = {} => r[k] = None
                     /\ c[k] # {} => r[k] \in c[k] /\ r[k] # None
  BY <1>2, <1>4 DEF Fills, NoNone
<1> QED BY <1>1, <1>3, <1>5

\* The dict around the document, or around a body that is no XML.
LEMMA RootFills ==
  ASSUME NEW doc, MadeOf(doc), NEW item, XmlToDict(doc) = Dict(<<item>>),
         NEW c, NoNone(c), \A flat \in Flat : Fills(OneKept(item, flat, walk), flat, c)
  PROVE  \A flat \in Flat : Fills(walk[XmlToDict(doc)][flat], flat, c)
<1> DEFINE v == XmlToDict(doc)
           cs == [i \in 1 .. 1 |-> c]
<1>1. v.at = <<item>>
  BY DEF Dict
<1>2. IsSeq(v.at) /\ Len(v.at) = 1 /\ v.at[1] = item
  BY <1>1, OneFacts
<1>3. v \in Value
  BY XmlIsValue
<1>4. cs[1] = c
  OBVIOUS
<1> HIDE DEF v, cs
<1>5. \A i \in 1 .. Len(v.at) : i = 1
  BY <1>2
<1>6. Firstly(c, cs, Len(v.at))
  BY <1>2, <1>4, <1>5 DEF Firstly
<1>7. \A i \in 1 .. Len(v.at) :
        NoNone(cs[i]) /\ \A flat \in Flat : Fills(OneKept(v.at[i], flat, walk), flat, cs[i])
  BY <1>2, <1>4, <1>5
<1>8. \A flat \in Flat : Fills(walk[v][flat], flat, c)
  BY <1>2, <1>3, <1>6, <1>7, WalkFills
<1> QED BY <1>8 DEF v

\* The root of a document, whichever claim its content fills: the document has
\* a text of its own or children.
LEMMA DocumentFills ==
  ASSUME NEW doc \in Element, doc \notin {Nothing, NotXml}, NEW c, NoNone(c),
         doc.kids = <<>> => c = TextClaim(doc.tag, doc.text),
         doc.kids # <<>> => \A flat \in Flat : Fills(walk[elem[doc]][flat], flat, c)
  PROVE  \A flat \in Flat : Fills(walk[XmlToDict(doc)][flat], flat, c)
<1> DEFINE item == Item(doc.tag, elem[doc])
<1>1. XmlToDict(doc) = Dict(<<item>>)
  BY DEF XmlToDict
<1>2. item.key = doc.tag /\ item.value = elem[doc]
  BY DEF Item
<1> HIDE DEF item
<1>3. \A flat \in Flat : Fills(OneKept(item, flat, walk), flat, c)
  <2>1. CASE doc.kids = <<>>
    <3>1. item.value.kind = "text" /\ item.value.text = doc.text
      BY <1>2, <2>1, ElemKind
    <3>2. item.key \in Key
      BY <1>2, ElementAssumption DEF ElementAssumption, Key
    <3>3. c = TextClaim(item.key, item.value.text)
      BY <1>2, <2>1, <3>1
    <3> QED BY <3>1, <3>2, <3>3, TextFills
  <2>2. CASE doc.kids # <<>>
    <3>1. item.value.kind # "text"
      BY <1>2, <2>2, ElemKind
    <3>2. \A flat \in Flat : OneKept(item, flat, walk) = walk[elem[doc]][flat]
      BY <1>2, <3>1 DEF OneKept
    <3> QED BY <2>2, <3>2
  <2> QED BY <2>1, <2>2
<1>4. MadeOf(doc)
  BY DEF MadeOf
<1> QED BY <1>1, <1>3, <1>4, RootFills

\* A body that is no document names no user.
LEMMA NoUser == ASSUME NEW doc \in {Nothing, NotXml} PROVE Username(XmlToDict(doc)) = None
<1>0. MadeOf(doc)
  BY DEF MadeOf
<1>1. CASE XmlToDict(doc) = Dict(<<>>)
  <2> DEFINE v == XmlToDict(doc)
             c == [k \in Key |-> {}]
  <2>1. v.at = <<>> /\ Len(v.at) = 0 /\ IsSeq(v.at) /\ v \in Value
    BY <1>0, <1>1, XmlIsValue, XmlParts DEF Dict
  <2>2. NoNone(c) /\ \A k \in Key : c[k] = {}
    BY DEF NoNone, Claims
  <2> HIDE DEF v, c
  <2>3. \A i \in 1 .. Len(v.at) : FALSE
    BY <2>1
  <2>4. \A flat \in Flat : Fills(walk[v][flat], flat, c)
    <3>1. PICK cs : cs = c
      OBVIOUS
    <3>2. Firstly(c, cs, Len(v.at))
      BY <2>2, <2>3 DEF Firstly
    <3> QED BY <2>1, <2>3, <3>2, WalkFills
  <2>5. "user_name" \in Key /\ "userName" \in Key
    BY TagAssumption DEF TagAssumption, Key
  <2>6. Username(v) = None
    BY <2>2, <2>4, <2>5, UserIs
  <2> QED BY <2>6 DEF v
<1>2. CASE XmlToDict(doc) = Dict(<<Item("_text", Text("raw"))>>)
  <2> DEFINE item == Item("_text", Text("raw"))
             c == TextClaim("_text", "raw")
  <2>1. item.key = "_text" /\ item.value.kind = "text" /\ item.value.text = "raw"
    BY DEF Item, Text
  <2>2. "_text" \in Key
    BY DEF Key
  <2> HIDE DEF item
  <2>3. NoNone(c) /\ \A flat \in Flat : Fills(OneKept(item, flat, walk), flat, c)
    BY <2>1, <2>2, TextFills
  <2>4. c["user_name"] = {} /\ c["userName"] = {}
    BY TagAssumption DEF TagAssumption, Key, TextClaim
  <2> HIDE DEF c
  <2>5. \A flat \in Flat : Fills(walk[XmlToDict(doc)][flat], flat, c)
    BY <1>0, <1>2, <2>3, RootFills DEF item
  <2> QED BY <2>3, <2>4, <2>5, UserIs
<1> QED BY <1>1, <1>2 DEF XmlToDict

\* The user is picked out of the dicts that were made of the body.
UserInv == /\ body \in Element \cup {Nothing, NotXml}
           /\ parsed = Unset => user = "unset"
           /\ parsed # Unset => parsed = XmlToDict(body)
           /\ user # "unset" => user = Username(XmlToDict(body))

LEMMA UserInvHolds == Spec => []UserInv
<1>1. Init => UserInv
  BY DEF Init, UserInv
<1>2. ASSUME UserInv, [Next]_vars PROVE UserInv'
  <2>1. CASE Parse
    BY <1>2, <2>1 DEF Parse, UserInv
  <2>2. CASE Summarize
    BY <1>2, <2>2 DEF Summarize, UserInv
  <2>3. CASE Respond
    BY <1>2, <2>3 DEF Respond, UserInv
  <2>4. CASE UNCHANGED vars
    BY <1>2, <2>4 DEF vars, UserInv
  <2> QED BY <1>2, <2>1, <2>2, <2>3, <2>4 DEF Next
<1>3. UserInv /\ [Next]_vars => UserInv'
  BY <1>2
<1> QED BY <1>1, <1>3, PTL DEF Spec

LEMMA AlonesNoNone == ASSUME NEW node \in Element PROVE NoNone(Alones(node))
<1>1. \A k : \A l \in AloneAt(node, k) : l.text \in {e.text : e \in Element} /\ l.text # None
  BY AllLeafy DEF AloneAt, Texts, Leafy
<1> QED BY <1>1 DEF Alones, NoNone, Claims

LEMMA AlonesOfLeaf ==
  ASSUME NEW node \in Element, node.kids = <<>>
  PROVE  Alones(node) = TextClaim(node.tag, node.text)
<1> DEFINE m0 == Leaf(<<>>, node.tag, node.text, TRUE, TRUE)
<1>1. leaves[node] = {m0}
  BY LeavesAre
<1>2. m0.tag = node.tag /\ m0.text = node.text /\ m0.alone
  BY LeafIs
<1> HIDE DEF m0
<1>3. ASSUME NEW k
      PROVE  AloneAt(node, k) = IF k = node.tag /\ node.text # None THEN {m0} ELSE {}
  BY <1>1, <1>2 DEF AloneAt, Texts
<1>4. ASSUME NEW k
      PROVE  {l.text : l \in AloneAt(node, k)} =
               IF k = node.tag /\ node.text # None THEN {node.text} ELSE {}
  BY <1>2, <1>3
<1> QED BY <1>4 DEF Alones, TextClaim

\* Whatever ISE answers: the user of the summary is a text of the document's,
\* under one of the two tags, whose tag no sibling repeats, and it is missing
\* only if there is none.
THEOREM SummaryIsSound == Spec => []SummarySound
<1>1. ASSUME UserInv, user # "unset", body \in {Nothing, NotXml} PROVE user = None
  BY <1>1, NoUser DEF UserInv
<1>2. ASSUME UserInv, user # "unset", body \notin {Nothing, NotXml}
      PROVE  LET candidates == AloneAt(body, "user_name") \cup AloneAt(body, "userName")
             IN  IF candidates = {} THEN user = None ELSE \E l \in candidates : user = l.text
  <2> DEFINE c == Alones(body)
  <2>1. body \in Element /\ user = Username(XmlToDict(body))
    BY <1>2 DEF UserInv
  <2>2. /\ c["user_name"] = {l.text : l \in AloneAt(body, "user_name")}
        /\ c["userName"] = {l.text : l \in AloneAt(body, "userName")}
    BY TagAssumption DEF TagAssumption, Key, Alones
  <2>3. \A flat \in Flat : Fills(walk[XmlToDict(body)][flat], flat, c)
    BY <1>2, <2>1, AlonesNoNone, AlonesOfLeaf, AllSound, DocumentFills DEF Sound
  <2>4. NoNone(c)
    BY <2>1, AlonesNoNone
  <2> HIDE DEF c
  <2>5. /\ c["user_name"] # {} => user \in c["user_name"]
        /\ c["user_name"] = {} /\ c["userName"] # {} => user \in c["userName"]
        /\ c["user_name"] = {} /\ c["userName"] = {} => user = None
    BY <2>1, <2>3, <2>4, UserIs
  <2> QED BY <2>2, <2>5
<1>3. UserInv => SummarySound
  <2> SUFFICES ASSUME UserInv, user # "unset"
               PROVE  LET candidates ==
                            IF IsDocument
                              THEN {l \in Texts(body, "user_name") \cup Texts(body, "userName") :
                                     l.alone}
                              ELSE {}
                      IN  IF candidates = {} THEN user = None
                          ELSE \E l \in candidates : user = l.text
    BY DEF SummarySound
  <2>1. {l \in Texts(body, "user_name") \cup Texts(body, "userName") : l.alone}
          = AloneAt(body, "user_name") \cup AloneAt(body, "userName")
    BY DEF AloneAt
  <2> QED BY <1>1, <1>2, <2>1 DEF IsDocument
<1> QED BY <1>3, UserInvHolds, PTL

-------------------------------------------------------------------------------
\* The order of leaves.
LEMMA LeastIndex ==
  ASSUME NEW n \in Nat, NEW I \in SUBSET (1 .. n), I # {}
  PROVE  \E i \in I : \A j \in I : i <= j
<1> DEFINE R == OpToRel(<, Nat)
<1>1. I \subseteq Nat
  OBVIOUS
<1>2. \A i, j \in Nat : i < j => <<i, j>> \in R
  BY DEF OpToRel
<1>3. \E x \in I : \A y \in I : ~(<<y, x>> \in R)
  <2> HIDE DEF R
  <2> QED BY <1>1, NatLessThanWellFounded, WFMin DEF R
<1>4. PICK x \in I : \A y \in I : ~(<<y, x>> \in R)
  BY <1>3
<1>5. ASSUME NEW j \in I PROVE x <= j
  <2>1. j \in Nat /\ x \in Nat
    BY <1>1
  <2>2. ~(j < x)
    <3> HIDE DEF R
    <3> QED BY <1>2, <1>4, <2>1
  <2> QED BY <2>1, <2>2
<1> QED BY <1>5

LEMMA BeforeWithin ==
  ASSUME NEW i \in Nat, NEW p \in Seq(Nat), NEW q \in Seq(Nat), Before(p, q),
         NEW x, x = <<i>> \o p, NEW y, y = <<i>> \o q
  PROVE  Before(x, y)
<1>1. PICK t \in DOMAIN p \cap DOMAIN q : p[t] < q[t] /\ \A j \in 1 .. t - 1 : p[j] = q[j]
  BY DEF Before
<1>2. t \in 1 .. Len(p) /\ t \in 1 .. Len(q)
  BY <1>1
<1>3. /\ x \in Seq(Nat) /\ Len(x) = Len(p) + 1 /\ x[1] = i
      /\ \A s \in 1 .. Len(p) : x[s + 1] = p[s]
  BY PathUnder
<1>4. /\ y \in Seq(Nat) /\ Len(y) = Len(q) + 1 /\ y[1] = i
      /\ \A s \in 1 .. Len(q) : y[s + 1] = q[s]
  BY PathUnder
<1>5. t + 1 \in DOMAIN x \cap DOMAIN y /\ x[t + 1] < y[t + 1]
  BY <1>1, <1>2, <1>3, <1>4
<1>6. ASSUME NEW j \in 1 .. (t + 1) - 1 PROVE x[j] = y[j]
  <2>1. CASE j = 1
    BY <1>3, <1>4, <2>1
  <2>2. CASE j # 1
    <3>1. /\ j - 1 \in 1 .. t - 1 /\ j - 1 \in 1 .. Len(p) /\ j - 1 \in 1 .. Len(q)
          /\ (j - 1) + 1 = j
      BY <1>2, <2>2
    <3> QED BY <1>1, <1>3, <1>4, <3>1
  <2> QED BY <2>1, <2>2
<1> QED BY <1>5, <1>6 DEF Before

LEMMA BeforeAcross ==
  ASSUME NEW i \in Nat, NEW j \in Nat, i < j, NEW p \in Seq(Nat), NEW q \in Seq(Nat),
         NEW x, x = <<i>> \o p, NEW y, y = <<j>> \o q
  PROVE  Before(x, y)
<1>1. x \in Seq(Nat) /\ Len(x) = Len(p) + 1 /\ x[1] = i
  BY PathUnder
<1>2. y \in Seq(Nat) /\ Len(y) = Len(q) + 1 /\ y[1] = j
  BY PathUnder
<1>3. 1 \in DOMAIN x \cap DOMAIN y /\ x[1] < y[1]
  BY <1>1, <1>2
<1>4. \A s \in 1 .. 1 - 1 : x[s] = y[s]
  OBVIOUS
<1> QED BY <1>3, <1>4 DEF Before

\* The texts of a document are its children's.
LEMMA TextsAre ==
  ASSUME NEW node \in Element, node.kids # <<>>, NEW k
  PROVE  \A l : l \in Texts(node, k) <=>
                  \E i \in 1 .. Len(node.kids) : \E m \in Texts(node.kids[i], k) :
                    l = Under(node.kids, i, m)
<1>1. \A l : l \in leaves[node] <=>
               \E i \in 1 .. Len(node.kids) : \E m \in leaves[node.kids[i]] :
                 l = Under(node.kids, i, m)
  BY LeavesAre
<1>2. \A i, m : Under(node.kids, i, m).text = m.text /\ Under(node.kids, i, m).tag = m.tag
  BY DEF Under, Leaf
<1> QED BY <1>1, <1>2 DEF Texts

\* The first text of the first child that has any is the first of all.
LEMMA FirstUnder ==
  ASSUME NEW node \in Element, node.kids # <<>>, NEW k, NEW i \in 1 .. Len(node.kids),
         \A j \in 1 .. i - 1 : Texts(node.kids[j], k) = {},
         NEW m \in First(node.kids[i], k)
  PROVE  Under(node.kids, i, m) \in First(node, k)
<1> DEFINE l == Under(node.kids, i, m)
<1>0. m \in Texts(node.kids[i], k)
  BY DEF First
<1>1. l \in Texts(node, k)
  BY <1>0, TextsAre
<1>2. \A j \in 1 .. Len(node.kids) : \A e \in Texts(node.kids[j], k) :
        /\ e.path \in Seq(Nat) /\ j \in Nat
        /\ Under(node.kids, j, e).path = <<j>> \o e.path
  <2>1. \A j \in 1 .. Len(node.kids) : node.kids[j] \in Element /\ Len(node.kids) \in Nat
    BY KidsOf
  <2>2. \A j, e : Under(node.kids, j, e).path = <<j>> \o e.path
    BY DEF Under, Leaf
  <2> QED BY <2>1, <2>2, AllLeafy DEF Texts, Leafy
<1>3. ASSUME NEW o \in Texts(node, k) \ {l} PROVE Before(l.path, o.path)
  <2>1. PICK j \in 1 .. Len(node.kids) :
          \E e \in Texts(node.kids[j], k) : o = Under(node.kids, j, e)
    BY TextsAre
  <2>2. PICK e \in Texts(node.kids[j], k) : o = Under(node.kids, j, e)
    BY <2>1
  <2>3. /\ l.path = <<i>> \o m.path /\ o.path = <<j>> \o e.path
        /\ m.path \in Seq(Nat) /\ e.path \in Seq(Nat) /\ i \in Nat /\ j \in Nat
    BY <1>0, <1>2, <2>2
  <2>4. CASE j = i
    <3>1. e # m
      BY <2>2, <2>4
    <3>2. Before(m.path, e.path)
      BY <2>4, <3>1 DEF First
    <3> HIDE DEF l
    <3> QED BY <2>3, <2>4, <3>2, BeforeWithin
  <2>5. CASE j # i
    <3>1. ~(j \in 1 .. i - 1)
      BY <2>2
    <3>2. i < j
      BY <2>3, <2>5, <3>1
    <3> HIDE DEF l
    <3> QED BY <2>3, <3>2, BeforeAcross
  <2> QED BY <2>4, <2>5
<1> QED BY <1>1, <1>3 DEF First

LEMMA TextsOfLeaf ==
  ASSUME NEW node \in Element, node.kids = <<>>, NEW k
  PROVE  /\ Texts(node, k) = {} \/ \E m : Texts(node, k) = {m}
         /\ {l.text : l \in Texts(node, k)}
              = IF k = node.tag /\ node.text # None THEN {node.text} ELSE {}
<1> DEFINE m0 == Leaf(<<>>, node.tag, node.text, TRUE, TRUE)
<1>1. leaves[node] = {m0}
  BY LeavesAre
<1>2. m0.tag = node.tag /\ m0.text = node.text
  BY LeafIs
<1> HIDE DEF m0
<1>3. Texts(node, k) = IF k = node.tag /\ node.text # None THEN {m0} ELSE {}
  BY <1>1, <1>2 DEF Texts
<1> QED BY <1>2, <1>3

\* If there is a text there is a first one.
HasFirst(node) == \A k \in Key : Texts(node, k) # {} => First(node, k) # {}

LEMMA AllHaveFirst == \A node \in Element : HasFirst(node)
<1> DEFINE S == {node \in Element : HasFirst(node)}
<1>1. ASSUME NEW node \in Element, Range(node.kids) \subseteq S PROVE node \in S
  <2> SUFFICES ASSUME NEW k \in Key, Texts(node, k) # {} PROVE First(node, k) # {}
    BY DEF HasFirst
  <2>1. CASE node.kids = <<>>
    <3>1. PICK m : Texts(node, k) = {m}
      BY <2>1, TextsOfLeaf
    <3> QED BY <3>1 DEF First
  <2>2. CASE node.kids # <<>>
    <3> DEFINE I == {i \in 1 .. Len(node.kids) : Texts(node.kids[i], k) # {}}
    <3>1. Len(node.kids) \in Nat /\ \A i \in 1 .. Len(node.kids) : HasFirst(node.kids[i])
      BY <1>1, KidsOf
    <3>2. I # {}
      BY <2>2, TextsAre
    <3>3. PICK i \in I : \A j \in I : i <= j
      <4> HIDE DEF I
      <4>1. I \in SUBSET (1 .. Len(node.kids))
        BY DEF I
      <4> QED BY <3>1, <3>2, <4>1, LeastIndex
    <3>4. \A j \in 1 .. i - 1 : Texts(node.kids[j], k) = {}
      <4> SUFFICES ASSUME NEW j \in 1 .. i - 1, Texts(node.kids[j], k) # {} PROVE FALSE
        OBVIOUS
      <4>1. i \in 1 .. Len(node.kids) /\ j \in 1 .. Len(node.kids) /\ ~(i <= j)
        BY <3>1
      <4>2. j \in I
        BY <4>1
      <4> HIDE DEF I
      <4> QED BY <3>3, <4>1, <4>2
    <3>5. PICK m : m \in First(node.kids[i], k)
      BY <3>1 DEF HasFirst
    <3>6. Under(node.kids, i, m) \in First(node, k)
      BY <2>2, <3>4, <3>5, FirstUnder
    <3> QED BY <3>6
  <2> QED BY <2>1, <2>2
<1> HIDE DEF S
<1>2. Element \subseteq S
  BY <1>1, DocumentInduction
<1> QED BY <1>2 DEF S

-------------------------------------------------------------------------------
\* Documents where no element repeats a sibling's tag: their dicts have one item
\* for every child, in order.
InOrder(items, kids, made, n) ==
  /\ IsSeq(items) /\ Len(items) = n
  /\ \A i \in 1 .. n : items[i] = Item(kids[i].tag, made[kids[i]])

LEMMA AddedInOrder ==
  ASSUME NEW kids, Len(kids) \in Nat, NEW made,
         \A i, j \in 1 .. Len(kids) : kids[i].tag = kids[j].tag => i = j
  PROVE  \A n \in 0 .. Len(kids) : InOrder(Added(kids, made)[n], kids, made, n)
<1> DEFINE N == Len(kids)
           S == {n \in 0 .. N : InOrder(Added(kids, made)[n], kids, made, n)}
<1>1. 0 \in S
  <2>1. Added(kids, made)[0] = <<>>
    BY AddedEquation
  <2>2. IsSeq(<<>>) /\ Len(<<>>) = 0
    BY DEF IsSeq
  <2>3. InOrder(<<>>, kids, made, 0)
    BY <2>2 DEF InOrder
  <2> QED BY <2>1, <2>3
<1>2. ASSUME NEW n \in 0 .. N, n \in S, n + 1 \in 0 .. N PROVE n + 1 \in S
  <2> DEFINE items == Added(kids, made)[n]
             out == Added(kids, made)[n + 1]
             tag == kids[n + 1].tag
             value == made[kids[n + 1]]
  <2>1. out = AddChild(items, tag, value)
    <3>1. n + 1 # 0 /\ (n + 1) - 1 = n
      OBVIOUS
    <3> QED BY <1>2, <3>1, AddedEquation
  <2>2. /\ IsSeq(items) /\ Len(items) = n
        /\ \A i \in 1 .. n : items[i] = Item(kids[i].tag, made[kids[i]])
    BY <1>2 DEF InOrder
  <2> HIDE DEF items, out
  <2>3. DOMAIN items = 1 .. n
    BY <2>2, SeqFacts
  <2>4. \A i \in 1 .. n : items[i].key # tag
    <3>1. \A i \in 1 .. n : items[i].key = kids[i].tag
      BY <2>2 DEF Item
    <3>2. \A i \in 1 .. n : i \in 1 .. N /\ n + 1 \in 1 .. N /\ i # n + 1
      BY <1>2
    <3> QED BY <3>1, <3>2
  <2>5. out = Append(items, Item(tag, value))
    <3>1. {i \in DOMAIN items : items[i].key = tag} = {}
      BY <2>3, <2>4
    <3> HIDE DEF tag, value
    <3> QED BY <2>1, <3>1 DEF AddChild
  <2>6. /\ IsSeq(out) /\ Len(out) = n + 1 /\ \A i \in 1 .. n : out[i] = items[i]
        /\ out[n + 1] = Item(tag, value)
    <3> HIDE DEF tag, value
    <3> QED BY <2>2, <2>5, AppendItem
  <2>7. \A i \in 1 .. n + 1 : out[i] = Item(kids[i].tag, made[kids[i]])
    BY <2>2, <2>6
  <2>8. InOrder(out, kids, made, n + 1)
    BY <2>6, <2>7 DEF InOrder
  <2> QED BY <1>2, <2>8 DEF out
<1> HIDE DEF S
<1>3. 0 .. N \subseteq S
  BY <1>1, <1>2, CountInduction
<1> QED BY <1>3 DEF S

LEMMA UnrepeatedKids ==
  ASSUME NEW node \in Element, node.kids # <<>>, Unrepeated(node), NEW j \in 1 .. Len(node.kids)
  PROVE  Alone(node.kids, j) /\ Unrepeated(node.kids[j])
<1>1. ASSUME NEW m \in leaves[node.kids[j]] PROVE m.single /\ Alone(node.kids, j)
  <2> DEFINE l == Under(node.kids, j, m)
  <2>1. l \in leaves[node]
    BY LeavesAre
  <2>2. l.single
    BY <2>1 DEF Unrepeated
  <2>3. l.single <=> m.single /\ Alone(node.kids, j)
    BY DEF Under, Leaf
  <2> QED BY <2>2, <2>3
<1>2. leaves[node.kids[j]] # {}
  BY KidsOf, AllLeafy DEF Leafy
<1> QED BY <1>1, <1>2 DEF Unrepeated

LEMMA UnrepeatedItems ==
  ASSUME NEW node \in Element, node.kids # <<>>, Unrepeated(node)
  PROVE  /\ IsSeq(elem[node].at) /\ Len(elem[node].at) = Len(node.kids)
         /\ \A i \in 1 .. Len(node.kids) :
              elem[node].at[i] = Item(node.kids[i].tag, elem[node.kids[i]])
<1> DEFINE N == Len(node.kids)
<1>1. N \in Nat /\ DOMAIN node.kids = 1 .. N /\ N \in 0 .. N
  BY KidsOf
<1>2. ASSUME NEW i \in 1 .. N, NEW j \in 1 .. N, node.kids[i].tag = node.kids[j].tag PROVE i = j
  BY <1>1, <1>2, UnrepeatedKids DEF Alone
<1>3. InOrder(ItemsOf(node), node.kids, ElemOf(node), N)
  BY <1>1, <1>2, AddedInOrder DEF ItemsOf
<1>4. \A i \in 1 .. N : ElemOf(node)[node.kids[i]] = elem[node.kids[i]]
  BY KidsOf DEF ElemOf
<1>5. elem[node].at = ItemsOf(node)
  BY ElemKind
<1> QED BY <1>3, <1>4, <1>5 DEF InOrder

\* Their claim: the first text under every key.
Firsts(node) == [k \in Key |-> {l.text : l \in First(node, k)}]

LEMMA FirstsNoNone == ASSUME NEW node \in Element PROVE NoNone(Firsts(node))
<1>1. \A k : \A l \in First(node, k) : l.text \in {e.text : e \in Element} /\ l.text # None
  BY AllLeafy DEF First, Texts, Leafy
<1> QED BY <1>1 DEF Firsts, NoNone, Claims

LEMMA FirstsOfLeaf ==
  ASSUME NEW node \in Element, node.kids = <<>>
  PROVE  Firsts(node) = TextClaim(node.tag, node.text)
<1>1. ASSUME NEW k PROVE First(node, k) = Texts(node, k)
  <2>1. Texts(node, k) = {} \/ \E m : Texts(node, k) = {m}
    BY TextsOfLeaf
  <2> QED BY <2>1 DEF First
<1>2. ASSUME NEW k
      PROVE  {l.text : l \in First(node, k)}
               = IF k = node.tag /\ node.text # None THEN {node.text} ELSE {}
  BY <1>1, TextsOfLeaf
<1> QED BY <1>2 DEF Firsts, TextClaim

Wins(node) ==
  Unrepeated(node) /\ node.kids # <<>> =>
    \A flat \in Flat : Fills(walk[elem[node]][flat], flat, Firsts(node))

LEMMA KidWins ==
  ASSUME NEW kid \in Element, Unrepeated(kid), Wins(kid),
         NEW item, item = Item(kid.tag, elem[kid]), NEW flat \in Flat
  PROVE  Fills(OneKept(item, flat, walk), flat, Firsts(kid))
<1>1. item.key = kid.tag /\ item.value = elem[kid]
  BY ItemFacts
<1>2. CASE kid.kids = <<>>
  <2>1. item.value.kind = "text" /\ item.value.text = kid.text
    BY <1>1, <1>2, ElemKind
  <2>2. item.key \in Key
    BY <1>1, ElementAssumption DEF ElementAssumption, Key
  <2>3. Firsts(kid) = TextClaim(item.key, item.value.text)
    BY <1>1, <1>2, <2>1, FirstsOfLeaf
  <2> QED BY <2>1, <2>2, <2>3, TextFills
<1>3. CASE kid.kids # <<>>
  <2>1. item.value.kind # "text"
    BY <1>1, <1>3, ElemKind
  <2>2. OneKept(item, flat, walk) = walk[elem[kid]][flat]
    BY <1>1, <2>1 DEF OneKept
  <2> QED BY <1>3, <2>2 DEF Wins
<1> QED BY <1>2, <1>3

\* The first child with a claim has the document's first text.
LEMMA FirstsFirstly ==
  ASSUME NEW node \in Element, node.kids # <<>>, NEW cs,
         \A i \in 1 .. Len(node.kids) : cs[i] = Firsts(node.kids[i])
  PROVE  Firstly(Firsts(node), cs, Len(node.kids))
<1> DEFINE N == Len(node.kids)
<1> SUFFICES ASSUME NEW k \in Key
             PROVE  /\ \A i \in 1 .. N : (\A j \in 1 .. i - 1 : cs[j][k] = {}) =>
                                         cs[i][k] \subseteq Firsts(node)[k]
                    /\ (\A i \in 1 .. N : cs[i][k] = {}) => Firsts(node)[k] = {}
  BY DEF Firstly
<1>0. N \in Nat /\ \A i \in 1 .. N : node.kids[i] \in Element
  BY KidsOf
<1>1. \A i \in 1 .. N : cs[i][k] = {l.text : l \in First(node.kids[i], k)}
  BY DEF Firsts
<1>2. \A i \in 1 .. N : cs[i][k] = {} => Texts(node.kids[i], k) = {}
  <2> SUFFICES ASSUME NEW i \in 1 .. N, cs[i][k] = {} PROVE Texts(node.kids[i], k) = {}
    OBVIOUS
  <2>1. First(node.kids[i], k) = {}
    <3> SUFFICES ASSUME NEW m \in First(node.kids[i], k) PROVE FALSE
      OBVIOUS
    <3>1. cs[i][k] = {l.text : l \in First(node.kids[i], k)}
      BY <1>1
    <3>2. m.text \in cs[i][k]
      BY <3>1
    <3> QED BY <3>2
  <2> QED BY <1>0, <2>1, AllHaveFirst DEF HasFirst
<1>3. ASSUME NEW i \in 1 .. N, \A j \in 1 .. i - 1 : cs[j][k] = {}, NEW t \in cs[i][k]
      PROVE  t \in Firsts(node)[k]
  <2>1. PICK m \in First(node.kids[i], k) : t = m.text
    BY <1>1, <1>3
  <2>2. \A j \in 1 .. i - 1 : Texts(node.kids[j], k) = {}
    <3>1. \A j \in 1 .. i - 1 : j \in 1 .. N
      BY <1>0
    <3> QED BY <1>2, <1>3, <3>1
  <2>3. Under(node.kids, i, m) \in First(node, k)
    BY <2>2, FirstUnder
  <2>4. Under(node.kids, i, m).text = t
    BY <2>1 DEF Under, Leaf
  <2> QED BY <2>3, <2>4 DEF Firsts
<1>4. ASSUME \A i \in 1 .. N : cs[i][k] = {} PROVE Firsts(node)[k] = {}
  <2>1. Texts(node, k) = {}
    BY <1>2, <1>4, TextsAre
  <2> QED BY <2>1 DEF First, Firsts
<1> QED BY <1>3, <1>4

LEMMA AllWin == \A node \in Element : Wins(node)
<1> DEFINE S == {node \in Element : Wins(node)}
<1>1. ASSUME NEW node \in Element, Range(node.kids) \subseteq S PROVE node \in S
  <2> SUFFICES ASSUME Unrepeated(node), node.kids # <<>>, NEW flat \in Flat
               PROVE  Fills(walk[elem[node]][flat], flat, Firsts(node))
    BY DEF Wins
  <2> DEFINE N == Len(node.kids)
             v == elem[node]
             cs == [i \in 1 .. N |-> Firsts(node.kids[i])]
  <2>1. /\ IsSeq(v.at) /\ Len(v.at) = N
        /\ \A i \in 1 .. N : v.at[i] = Item(node.kids[i].tag, elem[node.kids[i]])
    BY UnrepeatedItems
  <2>2. v \in Value
    BY ElemIsValue
  <2>3. \A i \in 1 .. N : cs[i] = Firsts(node.kids[i])
    OBVIOUS
  <2> HIDE DEF cs, v
  <2>4. \A i \in 1 .. N : /\ node.kids[i] \in Element /\ Wins(node.kids[i])
                          /\ Unrepeated(node.kids[i])
    BY <1>1, KidsOf, UnrepeatedKids
  <2>5. ASSUME NEW i \in 1 .. N, NEW f \in Flat
        PROVE  NoNone(cs[i]) /\ Fills(OneKept(v.at[i], f, walk), f, cs[i])
    <3>1. NoNone(cs[i])
      BY <2>3, <2>4, FirstsNoNone
    <3>2. Fills(OneKept(v.at[i], f, walk), f, cs[i])
      BY <2>1, <2>3, <2>4, KidWins
    <3> QED BY <3>1, <3>2
  <2>6. Firstly(Firsts(node), cs, Len(v.at))
    BY <2>1, <2>3, FirstsFirstly
  <2>7. \A i \in 1 .. Len(v.at) :
          NoNone(cs[i]) /\ \A f \in Flat : Fills(OneKept(v.at[i], f, walk), f, cs[i])
    BY <2>1, <2>5
  <2>8. Fills(walk[v][flat], flat, Firsts(node))
    BY <2>1, <2>2, <2>6, <2>7, WalkFills
  <2> QED BY <2>8 DEF v
<1> HIDE DEF S
<1>2. Element \subseteq S
  BY <1>1, DocumentInduction
<1> QED BY <1>2 DEF S

\* Whatever ISE answers, as long as no element repeats a sibling's tag: the
\* user is the document's first text under user_name, or, if there is none, its
\* first under userName.
THEOREM FirstWins == Spec => []FirstTextWins
<1>1. ASSUME UserInv, user # "unset", IsDocument, Unrepeated(body)
      PROVE  LET best == IF Texts(body, "user_name") # {} THEN First(body, "user_name")
                                                           ELSE First(body, "userName")
             IN  IF best = {} THEN user = None ELSE \E l \in best : user = l.text
  <2> DEFINE c == Firsts(body)
  <2>1. body \in Element /\ body \notin {Nothing, NotXml} /\ user = Username(XmlToDict(body))
    BY <1>1 DEF UserInv, IsDocument
  <2>2. "user_name" \in Key /\ "userName" \in Key
    BY TagAssumption DEF TagAssumption, Key
  <2>3. /\ c["user_name"] = {l.text : l \in First(body, "user_name")}
        /\ c["userName"] = {l.text : l \in First(body, "userName")}
    BY <2>2 DEF Firsts
  <2>4. NoNone(c)
    BY <2>1, FirstsNoNone
  <2>5. \A flat \in Flat : Fills(walk[XmlToDict(body)][flat], flat, c)
    BY <1>1, <2>1, <2>4, FirstsOfLeaf, AllWin, DocumentFills DEF Wins
  <2>6. Texts(body, "user_name") # {} => First(body, "user_name") # {}
    BY <2>1, <2>2, AllHaveFirst DEF HasFirst
  <2>7. First(body, "user_name") \subseteq Texts(body, "user_name")
    BY DEF First
  <2> HIDE DEF c
  <2>8. /\ c["user_name"] # {} => user \in c["user_name"]
        /\ c["user_name"] = {} /\ c["userName"] # {} => user \in c["userName"]
        /\ c["user_name"] = {} /\ c["userName"] = {} => user = None
    BY <2>1, <2>4, <2>5, UserIs
  <2>9. CASE Texts(body, "user_name") # {}
    BY <2>3, <2>6, <2>8, <2>9
  <2>10. CASE Texts(body, "user_name") = {}
    BY <2>3, <2>7, <2>8, <2>10
  <2> QED BY <2>9, <2>10
<1>2. UserInv => FirstTextWins
  BY <1>1 DEF FirstTextWins
<1> QED BY <1>2, UserInvHolds, PTL

===============================================================================
