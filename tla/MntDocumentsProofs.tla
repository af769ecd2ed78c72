-------------------------- MODULE MntDocumentsProofs --------------------------
(***************************************************************************)
(* What redact() does to any Python value, however it is nested, whatever  *)
(* names are sensitive and wherever it stops: secrets are masked, ordinary *)
(* fields are not.  The argument is an induction over the depth.           *)
(***************************************************************************)
EXTENDS MntDocuments, WellFoundedInduction, TLAPS

-------------------------------------------------------------------------------
\* Induction up to a bound, for a set.
LEMMA CountInduction ==
  ASSUME NEW N \in Nat, NEW S, 0 \in S,
         \A n \in 0 .. N : n \in S /\ n + 1 \in 0 .. N => n + 1 \in S
  PROVE  0 .. N \subseteq S
<1> SUFFICES ASSUME (0 .. N) \ S # {} PROVE FALSE
  OBVIOUS
<1> DEFINE T == (0 .. N) \ S
           R == OpToRel(<, Nat)
<1>1. T \subseteq Nat /\ T # {}
  OBVIOUS
<1>2. \A i, j \in Nat : i < j => <<i, j>> \in R
  BY DEF OpToRel
<1>3. \E x \in T : \A y \in T : ~(<<y, x>> \in R)
  <2> HIDE DEF T, R
  <2> QED BY <1>1, NatLessThanWellFounded, WFMin DEF R
<1>4. PICK x \in T : \A y \in T : ~(<<y, x>> \in R)
  BY <1>3
<1>5. x \in Nat /\ x # 0 /\ x - 1 \in 0 .. N /\ x - 1 < x /\ (x - 1) + 1 = x
  OBVIOUS
<1>6. x - 1 \in T
  BY <1>4, <1>5
<1>7. <<x - 1, x>> \in R
  <2> HIDE DEF T, R
  <2> QED BY <1>2, <1>5, <1>6, <1>1
<1> QED BY <1>4, <1>6, <1>7

LEMMA DepthInduction ==
  ASSUME NEW S, 0 \in S, \A n \in Depths : n \in S /\ n + 1 \in Depths => n + 1 \in S
  PROVE  Depths \subseteq S
BY CountInduction, DepthAssumption DEF Depths, DepthAssumption

-------------------------------------------------------------------------------
\* The two recursions over the depth compute what they say.
LEMMA BelowEquation ==
  ASSUME NEW root
  PROVE  Below(root) = [n \in Depths |-> IF n = 0 THEN {[path |-> <<>>, value |-> root]}
                                         ELSE UNION {Inside(f) : f \in Below(root)[n - 1]}]
<1> DEFINE Next0(b, n) == IF n = 0 THEN {[path |-> <<>>, value |-> root]}
                          ELSE UNION {Inside(f) : f \in b[n - 1]}
           S == {m \in Depths : \E b : b = [n \in 0 .. m |-> Next0(b, n)]}
<1>1. 0 \in S
  <2> DEFINE b == [n \in 0 .. 0 |-> {[path |-> <<>>, value |-> root]}]
  <2>1. b = [n \in 0 .. 0 |-> Next0(b, n)]
    <3>1. \A n \in 0 .. 0 : n = 0 /\ b[n] = {[path |-> <<>>, value |-> root]}
      OBVIOUS
    <3>2. b = [n \in 0 .. 0 |-> b[n]]
      OBVIOUS
    <3>3. \A n \in 0 .. 0 : b[n] = Next0(b, n)
      <4> HIDE DEF b
      <4> QED BY <3>1
    <3> HIDE DEF b, Next0
    <3> QED BY <3>2, <3>3
  <2> HIDE DEF b
  <2> QED BY <2>1, DepthAssumption DEF Depths, DepthAssumption
<1>2. ASSUME NEW m \in Depths, m \in S, m + 1 \in Depths PROVE m + 1 \in S
  <2>1. PICK b : b = [n \in 0 .. m |-> Next0(b, n)]
    BY <1>2
  <2> DEFINE c == [n \in 0 .. m + 1 |-> IF n = m + 1 THEN UNION {Inside(f) : f \in b[m]}
                                        ELSE b[n]]
  <2>2. m \in Nat
    BY DEF Depths
  <2>3. ASSUME NEW n \in 0 .. m + 1 PROVE c[n] = Next0(c, n)
    <3>1. CASE n = m + 1
      <4>1. /\ c[n - 1] = b[m] /\ n # 0
            /\ c[n] = UNION {Inside(f) : f \in b[m]}
        BY <2>2, <3>1
      <4> HIDE DEF c
      <4> QED BY <4>1
    <3>2. CASE n \in 0 .. m
      <4>1. /\ c[n] = b[n]
            /\ n # 0 => c[n - 1] = b[n - 1]
        <5>1. n # m + 1 /\ (n # 0 => n - 1 \in 0 .. m + 1 /\ n - 1 # m + 1)
          BY <2>2, <3>2
        <5> QED BY <5>1
      <4>2. b[n] = Next0(b, n)
        BY <2>1, <3>2
      <4> HIDE DEF c
      <4> QED BY <4>1, <4>2
    <3> QED BY <2>2, <3>1, <3>2
  <2>4. c = [n \in 0 .. m + 1 |-> c[n]]
    OBVIOUS
  <2>5. c = [n \in 0 .. m + 1 |-> Next0(c, n)]
    <3> HIDE DEF c, Next0
    <3> QED BY <2>3, <2>4
  <2> HIDE DEF c
  <2> QED BY <1>2, <2>5
<1> HIDE DEF S
<1>3. Depths \subseteq S
  BY <1>1, <1>2, DepthInduction
<1>4. PICK b : b = [n \in Depths |-> Next0(b, n)]
  <2>1. MaxDepth + 1 \in S
    BY <1>3, DepthAssumption DEF Depths, DepthAssumption
  <2> QED BY <2>1 DEF S, Depths
<1> QED BY <1>4 DEF Below

LEMMA BelowStart == ASSUME NEW root
                    PROVE  Below(root)[0] = {[path |-> <<>>, value |-> root]}
<1>1. 0 \in Depths
  BY DepthAssumption DEF Depths, DepthAssumption
<1> QED BY <1>1, BelowEquation

LEMMA BelowStep == ASSUME NEW root, NEW n \in Depths, n + 1 \in Depths
                   PROVE  Below(root)[n + 1] = UNION {Inside(f) : f \in Below(root)[n]}
<1>1. n \in Nat /\ (n + 1) - 1 = n /\ n + 1 # 0
  BY DEF Depths
<1> HIDE DEF Depths
<1> QED BY <1>1, BelowEquation

LEMMA CallsEquation ==
  ASSUME NEW root
  PROVE  Calls(root) = [n \in Depths |->
                         [value \in Level(root, MaxDepth + 1 - n) |->
                           IF n = 0 THEN value ELSE Rebuilt(value, Calls(root)[n - 1])]]
<1> DEFINE Call(b, n) == [value \in Level(root, MaxDepth + 1 - n) |->
                           IF n = 0 THEN value ELSE Rebuilt(value, b[n - 1])]
           S == {m \in Depths : \E b : b = [n \in 0 .. m |-> Call(b, n)]}
<1>1. 0 \in S
  <2> DEFINE b == [n \in 0 .. 0 |-> [value \in Level(root, MaxDepth + 1 - n) |-> value]]
  <2>1. b = [n \in 0 .. 0 |-> Call(b, n)]
    <3>1. \A n \in 0 .. 0 : /\ n = 0
                            /\ b[n] = [value \in Level(root, MaxDepth + 1 - n) |-> value]
      OBVIOUS
    <3>2. b = [n \in 0 .. 0 |-> b[n]]
      OBVIOUS
    <3>3. \A n \in 0 .. 0 : b[n] = Call(b, n)
      <4> HIDE DEF b
      <4> QED BY <3>1
    <3> HIDE DEF b, Call
    <3> QED BY <3>2, <3>3
  <2> HIDE DEF b
  <2> QED BY <2>1, DepthAssumption DEF Depths, DepthAssumption
<1>2. ASSUME NEW m \in Depths, m \in S, m + 1 \in Depths PROVE m + 1 \in S
  <2>1. PICK b : b = [n \in 0 .. m |-> Call(b, n)]
    BY <1>2
  <2> DEFINE c == [n \in 0 .. m + 1 |->
                    IF n = m + 1 THEN [value \in Level(root, MaxDepth + 1 - n) |->
                                        Rebuilt(value, b[m])]
                    ELSE b[n]]
  <2>2. m \in Nat
    BY DEF Depths
  <2>3. ASSUME NEW n \in 0 .. m + 1 PROVE c[n] = Call(c, n)
    <3>1. CASE n = m + 1
      <4>1. c[n - 1] = b[m] /\ n # 0
        BY <2>2, <3>1
      <4>2. c[n] = [value \in Level(root, MaxDepth + 1 - n) |-> Rebuilt(value, b[m])]
        BY <2>2, <3>1
      <4> HIDE DEF c
      <4> QED BY <4>1, <4>2
    <3>2. CASE n \in 0 .. m
      <4>1. /\ c[n] = b[n]
            /\ n # 0 => c[n - 1] = b[n - 1]
        <5>1. n # m + 1 /\ (n # 0 => n - 1 \in 0 .. m + 1 /\ n - 1 # m + 1)
          BY <2>2, <3>2
        <5> QED BY <5>1
      <4>2. b[n] = Call(b, n)
        BY <2>1, <3>2
      <4> HIDE DEF c
      <4> QED BY <4>1, <4>2
    <3> QED BY <2>2, <3>1, <3>2
  <2>4. c = [n \in 0 .. m + 1 |-> c[n]]
    OBVIOUS
  <2>5. c = [n \in 0 .. m + 1 |-> Call(c, n)]
    <3> HIDE DEF c, Call
    <3> QED BY <2>3, <2>4
  <2> HIDE DEF c
  <2> QED BY <1>2, <2>5
<1> HIDE DEF S
<1>3. Depths \subseteq S
  BY <1>1, <1>2, DepthInduction
<1>4. PICK b : b = [n \in Depths |-> Call(b, n)]
  <2>1. MaxDepth + 1 \in S
    BY <1>3, DepthAssumption DEF Depths, DepthAssumption
  <2> QED BY <2>1 DEF S, Depths
<1> QED BY <1>4 DEF Calls

\* What the calls return, level by level from the top.
LEMMA CallsAt ==
  ASSUME NEW root, NEW n \in Depths, NEW f \in Below(root)[n]
  PROVE  Calls(root)[MaxDepth + 1 - n][f.value] =
           IF n = MaxDepth + 1 THEN f.value
           ELSE Rebuilt(f.value, Calls(root)[MaxDepth - n])
<1> DEFINE k == MaxDepth + 1 - n
<1>1. /\ k \in Depths /\ MaxDepth + 1 - k = n /\ k - 1 = MaxDepth - n
      /\ k = 0 <=> n = MaxDepth + 1
  BY DepthAssumption DEF Depths, DepthAssumption
<1>2. f.value \in Level(root, n)
  BY DEF Level
<1>3. Calls(root)[k] = [value \in Level(root, n) |->
                         IF k = 0 THEN value ELSE Rebuilt(value, Calls(root)[k - 1])]
  <2> HIDE DEF k
  <2> QED BY <1>1, CallsEquation
<1> HIDE DEF k
<1>4. Calls(root)[k][f.value] = IF k = 0 THEN f.value ELSE Rebuilt(f.value, Calls(root)[k - 1])
  BY <1>2, <1>3
<1>5. Calls(root)[k - 1] = Calls(root)[MaxDepth - n]
  BY <1>1
<1> QED BY <1>1, <1>4, <1>5 DEF k

-------------------------------------------------------------------------------
\* A path n steps inside a value has n steps.
IsPath(p, n) == \E S : p \in Seq(S) /\ Len(p) = n

Extends(q, p, x) == q = Append(p, x)

LEMMA PathGrows ==
  ASSUME NEW n \in Nat, NEW p, IsPath(p, n), NEW x, NEW q, Extends(q, p, x)
  PROVE  /\ IsPath(q, n + 1)
         /\ q[n + 1] = x
         /\ \A i \in 1 .. n : q[i] = p[i]
<1>1. PICK S : p \in Seq(S) /\ Len(p) = n
  BY DEF IsPath
<1> DEFINE T == S \cup {x}
<1>2. p \in Seq(T) /\ x \in T
  BY <1>1
<1> HIDE DEF T
<1>3. /\ Append(p, x) \in Seq(T) /\ Len(Append(p, x)) = n + 1
      /\ Append(p, x)[n + 1] = x
      /\ \A i \in 1 .. n : Append(p, x)[i] = p[i]
  BY <1>1, <1>2
<1> QED BY <1>3 DEF IsPath, Extends

\* The step from f to its part at position i.
At(f, i) == [path |-> Append(f.path, [at |-> i, key |-> f.value.at[i].key]),
             value |-> f.value.at[i].value]

LEMMA AtFields ==
  ASSUME NEW f, NEW i
  PROVE  /\ At(f, i).path = Append(f.path, [at |-> i, key |-> f.value.at[i].key])
         /\ At(f, i).value = f.value.at[i].value
BY DEF At

LEMMA AtPath ==
  ASSUME NEW n \in Nat, NEW f, IsPath(f.path, n), NEW i
  PROVE  /\ IsPath(At(f, i).path, n + 1)
         /\ At(f, i).path[n + 1].key = f.value.at[i].key
         /\ \A j \in 1 .. n : At(f, i).path[j] = f.path[j]
<1> DEFINE x == [at |-> i, key |-> f.value.at[i].key]
<1>1. At(f, i).path = Append(f.path, x) /\ x.key = f.value.at[i].key
  BY AtFields
<1> HIDE DEF x
<1>2. PICK q : q = Append(f.path, x)
  OBVIOUS
<1>3. Extends(q, f.path, x)
  BY <1>2 DEF Extends
<1>4. IsPath(q, n + 1) /\ q[n + 1] = x /\ \A j \in 1 .. n : q[j] = f.path[j]
  BY <1>3, PathGrows
<1> QED BY <1>1, <1>2, <1>4

LEMMA InsideIs == ASSUME NEW f PROVE Inside(f) = {At(f, i) : i \in DOMAIN f.value.at}
BY DEF Inside, At

LEMMA Paths == ASSUME NEW root, NEW n \in Depths, NEW f \in Below(root)[n]
               PROVE  IsPath(f.path, n)
<1> DEFINE S == {m \in Depths : \A g \in Below(root)[m] : IsPath(g.path, m)}
<1>1. 0 \in S
  <2>1. <<>> \in Seq({}) /\ Len(<<>>) = 0
    OBVIOUS
  <2>2. IsPath(<<>>, 0)
    BY <2>1 DEF IsPath
  <2>3. \A g \in Below(root)[0] : g.path = <<>>
    BY BelowStart
  <2> QED BY <2>2, <2>3, DepthAssumption DEF Depths, DepthAssumption
<1>2. ASSUME NEW m \in Depths, m \in S, m + 1 \in Depths PROVE m + 1 \in S
  <2> SUFFICES ASSUME NEW g \in Below(root)[m + 1] PROVE IsPath(g.path, m + 1)
    BY <1>2
  <2>1. PICK h \in Below(root)[m] : g \in Inside(h)
    BY <1>2, BelowStep
  <2>2. PICK i : g = At(h, i)
    BY <2>1, InsideIs
  <2>3. IsPath(h.path, m) /\ m \in Nat
    BY <1>2 DEF Depths
  <2> QED BY <2>2, <2>3, AtPath
<1> HIDE DEF S
<1>3. Depths \subseteq S
  BY <1>1, <1>2, DepthInduction
<1> QED BY <1>3 DEF S

-------------------------------------------------------------------------------
\* What redact() shows of a part f that lies n steps inside a value: nothing at
\* all if a sensitive key comes before its own, the mask if its own is sensitive.
Open(f, n) == \A i \in 1 .. n - 1 : ~IsSensitive(f.path[i].key)
Shown(root, f, n) ==
  [path |-> f.path,
   value |-> IF n # 0 /\ IsSensitive(f.path[n].key) THEN Mask
             ELSE Calls(root)[MaxDepth + 1 - n][f.value]]

\* One step further down, in the value and in what is shown of it.
LEMMA ShownStep ==
  ASSUME NEW root, NEW n \in Depths, n + 1 \in Depths, NEW f \in Below(root)[n],
         n # 0 => ~IsSensitive(f.path[n].key)
  PROVE  Inside(Shown(root, f, n)) = {Shown(root, e, n + 1) : e \in Inside(f)}
<1>1. n \in Nat /\ n # MaxDepth + 1 /\ MaxDepth + 1 - (n + 1) = MaxDepth - n
  BY DepthAssumption DEF Depths, DepthAssumption
<1> DEFINE g == Shown(root, f, n)
           red == Calls(root)[MaxDepth - n]
<1>2. g.path = f.path /\ g.value = Rebuilt(f.value, red)
  BY <1>1, CallsAt DEF Shown
<1>3. /\ DOMAIN g.value.at = DOMAIN f.value.at
      /\ \A i \in DOMAIN f.value.at :
           /\ g.value.at[i].key = f.value.at[i].key
           /\ g.value.at[i].value = IF IsSensitive(f.value.at[i].key) THEN Mask
                                    ELSE red[f.value.at[i].value]
  <2> HIDE DEF g, red
  <2>1. g.value.at = [i \in DOMAIN f.value.at |->
                       Item(f.value.at[i].key,
                            IF IsSensitive(f.value.at[i].key) THEN Mask
                            ELSE red[f.value.at[i].value])]
    BY <1>2 DEF Rebuilt
  <2>2. \A k, v : Item(k, v).key = k /\ Item(k, v).value = v
    BY DEF Item
  <2> QED BY <2>1, <2>2
<1>4. ASSUME NEW i \in DOMAIN f.value.at
      PROVE  At(g, i) = Shown(root, At(f, i), n + 1)
  <2>1. /\ At(f, i).path = Append(f.path, [at |-> i, key |-> f.value.at[i].key])
        /\ At(f, i).value = f.value.at[i].value
    BY AtFields
  <2>2. At(f, i).path[n + 1].key = f.value.at[i].key
    BY <1>1, Paths, AtPath
  <2>3. Shown(root, At(f, i), n + 1) =
          [path |-> At(f, i).path,
           value |-> IF IsSensitive(f.value.at[i].key) THEN Mask
                     ELSE red[f.value.at[i].value]]
    <3>1. /\ n + 1 # 0 /\ MaxDepth + 1 - (n + 1) = MaxDepth - n
          /\ At(f, i).path[n + 1].key = f.value.at[i].key
      BY <1>1, <2>2
    <3>2. Shown(root, At(f, i), n + 1) =
            [path |-> At(f, i).path,
             value |-> IF n + 1 # 0 /\ IsSensitive(At(f, i).path[n + 1].key) THEN Mask
                       ELSE Calls(root)[MaxDepth + 1 - (n + 1)][At(f, i).value]]
      BY DEF Shown
    <3> HIDE DEF g
    <3> QED BY <2>1, <3>1, <3>2
  <2>4. At(g, i) = [path |-> At(f, i).path, value |-> g.value.at[i].value]
    <3> HIDE DEF g
    <3> QED BY <1>2, <1>3, <2>1 DEF At
  <2> HIDE DEF g, red
  <2> QED BY <1>3, <2>3, <2>4
<1> HIDE DEF g
<1>5. Inside(g) = {At(g, i) : i \in DOMAIN f.value.at}
  BY <1>3, InsideIs
<1>6. Inside(f) = {At(f, i) : i \in DOMAIN f.value.at}
  BY InsideIs
<1> QED BY <1>4, <1>5, <1>6 DEF g

\* What reaches the client, n steps inside the response, is just what is shown
\* of the open parts n steps inside the data.
LEMMA ResponseIsShown ==
  ASSUME NEW root, NEW n \in Depths
  PROVE  Below(Redact(root))[n] =
           {Shown(root, f, n) : f \in {e \in Below(root)[n] : Open(e, n)}}
<1> DEFINE Shows(m) == Below(Redact(root))[m] =
                         {Shown(root, f, m) : f \in {e \in Below(root)[m] : Open(e, m)}}
           S == {m \in Depths : Shows(m)}
<1>1. 0 \in S
  <2> DEFINE top == [path |-> <<>>, value |-> root]
  <2>1. Below(root)[0] = {top} /\ Below(Redact(root))[0] = {[path |-> <<>>, value |-> Redact(root)]}
    BY BelowStart
  <2>2. Shown(root, top, 0) = [path |-> <<>>, value |-> Redact(root)]
    BY DepthAssumption DEF Shown, Redact, DepthAssumption
  <2>3. Open(top, 0)
    BY DEF Open
  <2>4. 0 \in Depths
    BY DepthAssumption DEF Depths, DepthAssumption
  <2> HIDE DEF top
  <2> QED BY <2>1, <2>2, <2>3, <2>4
<1>2. ASSUME NEW m \in Depths, m \in S, m + 1 \in Depths PROVE m + 1 \in S
  <2>0. m \in Nat
    BY DEF Depths
  <2>1. Shows(m)
    BY <1>2
  <2>2. /\ Below(Redact(root))[m + 1] = UNION {Inside(g) : g \in Below(Redact(root))[m]}
        /\ Below(root)[m + 1] = UNION {Inside(f) : f \in Below(root)[m]}
    BY <1>2, BelowStep
  <2> DEFINE Secret(f) == m # 0 /\ IsSensitive(f.path[m].key)
  <2>3. ASSUME NEW f \in Below(root)[m], Secret(f) PROVE Inside(Shown(root, f, m)) = {}
    <3>1. Shown(root, f, m).value = Mask
      BY <2>3 DEF Shown
    <3>2. DOMAIN Mask.at = {}
      BY DEF Mask, Text
    <3> QED BY <3>1, <3>2, InsideIs
  <2>4. ASSUME NEW f \in Below(root)[m], NEW e \in Inside(f)
        PROVE  Open(e, m + 1) <=> Open(f, m) /\ ~Secret(f)
    <3>1. PICK i : e = At(f, i)
      BY InsideIs
    <3>2. \A j \in 1 .. m : e.path[j] = f.path[j]
      BY <2>0, <3>1, Paths, AtPath
    <3>3. 1 .. (m + 1) - 1 = 1 .. m /\ (m # 0 => 1 .. m = (1 .. m - 1) \cup {m})
      BY <2>0
    <3>4. m = 0 => 1 .. m = {} /\ 1 .. m - 1 = {}
      OBVIOUS
    <3> QED BY <3>2, <3>3, <3>4 DEF Open
  <2> HIDE DEF Secret
  <2>5. ASSUME NEW f \in Below(root)[m], Open(f, m), ~Secret(f)
        PROVE  Inside(Shown(root, f, m)) = {Shown(root, e, m + 1) : e \in Inside(f)}
    BY <1>2, <2>5, ShownStep DEF Secret
  <2>6. Shows(m + 1)
    BY <2>1, <2>2, <2>3, <2>4, <2>5
  <2> QED BY <1>2, <2>6
<1> HIDE DEF S
<1>3. Depths \subseteq S
  BY <1>1, <1>2, DepthInduction
<1> QED BY <1>3 DEF S

-------------------------------------------------------------------------------
\* The response is made of the dicts that were parsed, which stay as they are.
IInv == /\ parsed = Unset => user = "unset"
        /\ user = "unset" => response = Unset
        /\ response # Unset => response = Redact(parsed)

LEMMA IInvHolds == Spec => []IInv
<1>1. Init => IInv
  BY DEF Init, IInv
<1>2. ASSUME IInv, [Next]_vars PROVE IInv'
  <2>1. CASE Parse
    BY <1>2, <2>1 DEF Parse, IInv
  <2>2. CASE Summarize
    BY <1>2, <2>2 DEF Summarize, IInv
  <2>3. CASE Respond
    BY <1>2, <2>3 DEF Respond, IInv
  <2>4. CASE UNCHANGED vars
    BY <1>2, <2>4 DEF vars, IInv
  <2> QED BY <1>2, <2>1, <2>2, <2>3, <2>4 DEF Next
<1>3. IInv /\ [Next]_vars => IInv'
  BY <1>2
<1> QED BY <1>1, <1>3, PTL DEF Spec

\* Whatever the document, the limit and the names, if _is_sensitive() knows the
\* names of secrets: no secret is shown down to that depth.
THEOREM NoSecretShown ==
  ASSUME \A tag \in SecretTag : IsSensitive(tag)
  PROVE  Spec => []SecretsMasked
<1>1. ASSUME IInv PROVE SecretsMasked
  <2> SUFFICES ASSUME response = Redact(parsed), NEW n \in Depths \ {0},
                      NEW g \in Below(response)[n], g.path[n].key \in SecretTag
               PROVE  g.value = Mask
    BY <1>1 DEF IInv, SecretsMasked
  <2>1. PICK f \in Below(parsed)[n] : g = Shown(parsed, f, n)
    BY ResponseIsShown
  <2>2. g.path = f.path
    BY <2>1 DEF Shown
  <2>3. IsSensitive(f.path[n].key)
    BY <2>2
  <2> QED BY <2>1, <2>3 DEF Shown
<1> QED BY IInvHolds, <1>1, PTL

\* Whatever the document, the limit and the names, if _is_sensitive() lets the
\* ordinary ones pass: what lies under these is shown as it is, in its place.
THEOREM RestIsShown ==
  ASSUME \A tag \in OrdinaryTag : ~IsSensitive(tag)
  PROVE  Spec => []OrdinaryFieldsShown
<1>1. ASSUME IInv PROVE OrdinaryFieldsShown
  <2> SUFFICES ASSUME response = Redact(parsed), NEW n \in Depths
               PROVE  /\ \A f \in Below(parsed)[n] : Ordinary(f.path) =>
                           \E g \in Below(response)[n] :
                             /\ g.path = f.path
                             /\ g.value.kind = f.value.kind /\ g.value.text = f.value.text
                      /\ \A g \in Below(response)[n] :
                           \E f \in Below(parsed)[n] : g.path = f.path
    BY <1>1 DEF IInv, OrdinaryFieldsShown
  <2>1. ASSUME NEW f \in Below(parsed)[n], Ordinary(f.path)
        PROVE  \E g \in Below(response)[n] :
                 /\ g.path = f.path
                 /\ g.value.kind = f.value.kind /\ g.value.text = f.value.text
    <3>1. \A i \in 1 .. n : ~IsSensitive(f.path[i].key)
      <4>1. DOMAIN f.path = 1 .. n
        BY Paths DEF IsPath
      <4>2. ~IsSensitive(None)
        BY DEF IsSensitive
      <4> QED BY <2>1, <4>1, <4>2 DEF Ordinary
    <3>2. Open(f, n) /\ (n # 0 => ~IsSensitive(f.path[n].key))
      <4>1. n \in Nat /\ (n # 0 => n \in 1 .. n) /\ 1 .. n - 1 \subseteq 1 .. n
        BY DEF Depths
      <4> QED BY <3>1, <4>1 DEF Open
    <3> DEFINE g == Shown(parsed, f, n)
    <3>3. g \in Below(response)[n]
      BY <3>2, ResponseIsShown
    <3>4. g.path = f.path /\ g.value = Calls(parsed)[MaxDepth + 1 - n][f.value]
      BY <3>2 DEF Shown
    <3> HIDE DEF g
    <3>5. \/ g.value = f.value
          \/ g.value = Rebuilt(f.value, Calls(parsed)[MaxDepth - n])
      BY <3>4, CallsAt
    <3>6. g.value.kind = f.value.kind /\ g.value.text = f.value.text
      BY <3>5 DEF Rebuilt
    <3> QED BY <3>3, <3>4, <3>6
  <2>2. ASSUME NEW g \in Below(response)[n]
        PROVE  \E f \in Below(parsed)[n] : g.path = f.path
    BY ResponseIsShown DEF Shown
  <2> QED BY <2>1, <2>2
<1> QED BY IInvHolds, <1>1, PTL
================================================================================
