----------------------------- MODULE ViewProofs -----------------------------
(***************************************************************************)
(* A view from its source to its nodes, for any names, functions and       *)
(* number of nodes: what the check accepts the host's validator accepts,   *)
(* and what the VM makes of a view that compiles is sound and ends.        *)
(***************************************************************************)
EXTENDS ViewTree, Integers, FiniteSetTheorems, SequenceTheorems, WellFoundedInduction, TLAPS

-----------------------------------------------------------------------------
(* Induction on the numbers below a bound, from the least counterexample.  *)
LEMMA StrongInduction ==
    ASSUME NEW S \in SUBSET Nat, \A n \in Nat : 0 .. n - 1 \subseteq S => n \in S
    PROVE  S = Nat
  <1>1. SUFFICES ASSUME Nat \ S # {} PROVE FALSE
    OBVIOUS
  <1>2. PICK R : R = OpToRel(<, Nat)
    OBVIOUS
  <1>3. IsWellFoundedOn(R, Nat)
    BY <1>2, NatLessThanWellFounded
  <1>4. PICK x \in Nat \ S : \A y \in Nat \ S : ~(<<y, x>> \in R)
    <2>1. PICK T : T = Nat \ S
      OBVIOUS
    <2>2. T \subseteq Nat /\ T # {}
      BY <1>1, <2>1
    <2>3. \E x \in T : \A y \in T : ~(<<y, x>> \in R)
      BY <1>3, <2>2, WFMin
    <2> QED  BY <2>1, <2>3
  <1>5. 0 .. x - 1 \subseteq S
    <2>1. SUFFICES ASSUME NEW y \in 0 .. x - 1, y \notin S PROVE FALSE
      OBVIOUS
    <2>2. y \in Nat /\ x \in Nat /\ y < x
      BY <1>4
    <2>3. <<y, x>> \in R
      BY <1>2, <2>2 DEF OpToRel
    <2> QED  BY <1>4, <2>1, <2>2, <2>3
  <1> QED  BY <1>4, <1>5

(* A walk that puts out one value at each step: what it has put out.       *)
LEMMA PutOut ==
    ASSUME NEW s, NEW n \in Nat, s = [i \in 1 .. n |-> s[i]], NEW x
    PROVE  /\ Len(s) = n
           /\ Append(s, x) = [i \in 1 .. n + 1 |-> IF i = n + 1 THEN x ELSE s[i]]
  <1>1. PICK S : S = {s[i] : i \in 1 .. n} \cup {x}
    OBVIOUS
  <1>2. s \in Seq(S) /\ Len(s) = n
    <2>1. \A i \in 1 .. n : s[i] \in S
      BY <1>1
    <2>2. s \in [1 .. n -> S]
      BY <2>1
    <2> QED  BY <2>2, SeqDef
  <1>3. x \in S
    BY <1>1
  <1> QED  BY <1>2, <1>3, AppendProperties

Walks(to, v) == to[0] = <<>> /\ \A k \in Nat \ {0} : to[k] = Append(to[k - 1], v[k])

LEMMA Walk ==
    ASSUME NEW to, NEW v, Walks(to, v)
    PROVE  \A k \in Nat : to[k] = [i \in 1 .. k |-> v[i]]
  <1> USE DEF Walks
  <1> DEFINE S == {k \in Nat : to[k] = [i \in 1 .. k |-> v[i]]}
  <1>1. 0 \in S
    <2>1. [i \in 1 .. 0 |-> v[i]] = <<>>
      OBVIOUS
    <2> QED  BY <2>1
  <1>2. ASSUME NEW k \in Nat, 0 .. k - 1 \subseteq S PROVE k \in S
    <2>1. CASE k = 0
      BY <1>1, <2>1
    <2>2. CASE k # 0
      <3>1. k - 1 \in S /\ k - 1 \in Nat /\ (k - 1) + 1 = k
        BY <1>2, <2>2
      <3>2. to[k - 1] = [i \in 1 .. k - 1 |-> v[i]]
        BY <3>1
      <3>3. to[k - 1] = [i \in 1 .. k - 1 |-> to[k - 1][i]]
        BY <3>2
      <3>4. Append(to[k - 1], v[k]) =
              [i \in 1 .. k |-> IF i = k THEN v[k] ELSE to[k - 1][i]]
        BY <3>1, <3>3, PutOut
      <3>5. to[k] = Append(to[k - 1], v[k])
        BY <2>2
      <3>6. \A i \in 1 .. k : i # k => to[k - 1][i] = v[i]
        BY <3>1, <3>2
      <3>7. to[k] = [i \in 1 .. k |-> v[i]]
        BY <3>4, <3>5, <3>6
      <3> QED  BY <3>7
    <2> QED  BY <2>1, <2>2
  <1>3. S = Nat
    <2>1. S \in SUBSET Nat
      OBVIOUS
    <2> HIDE DEF S
    <2> QED  BY <1>2, <2>1, StrongInduction
  <1> QED  BY <1>3


-----------------------------------------------------------------------------
(* What every source of the author is: each node is of a known form and    *)
(* under an earlier one, and what lies between the two is in the latter.   *)
Tags == {"component", "view", "box", "text", "span", "icon", "if", "else-if", "else", "for",
         "slot", "c1", "c2"}
Formed(n) ==
    /\ n.tag \in Tags
    /\ n.tag = "component" => n.item \in DOMAIN Props
    /\ n.tag \in {"for", "if", "else-if"} => n.expr # NoExpr
    /\ n.tag \in {"component", "view", "slot"} => n.expr = NoExpr
    /\ n.tag = "for" <=> n.key # NoExpr
    /\ n.on # NoExpr => n.tag \in ElementNames
    /\ n.tag \in DOMAIN Props /\ n.expr # NoExpr => n.item # ""
Tree(nodes) ==
    /\ Len(nodes) \in Nat /\ DOMAIN nodes = 1 .. Len(nodes)
    /\ \A i \in DOMAIN nodes :
         /\ Formed(nodes[i])
         /\ nodes[i].under \in 0 .. i - 1
         /\ nodes[i].under = 0 <=> nodes[i].tag \in {"component", "view"}
         /\ \A j \in nodes[i].under + 1 .. i - 1 : nodes[j].under >= nodes[i].under

(* The recursive definitions of the walks, step by step.                   *)
LEMMA PlacesStep ==
    ASSUME NEW nodes
    PROVE  /\ PlacesTo(nodes)[0] = <<>>
           /\ \A k \in Nat \ {0} :
                PlacesTo(nodes)[k] =
                  Append(PlacesTo(nodes)[k - 1],
                         IF nodes[k].under = 0 THEN Outside
                         ELSE Nested(nodes[nodes[k].under], PlacesTo(nodes)[k - 1][nodes[k].under]))
  <1> DEFINE Def(to, k) ==
        LET u == nodes[k].under IN
        Append(to, IF u = 0 THEN Outside ELSE Nested(nodes[u], to[u]))
  <1>1. NatInductiveDefHypothesis(PlacesTo(nodes), <<>>, Def)
    BY DEF NatInductiveDefHypothesis, PlacesTo
  <1>2. NatInductiveDefConclusion(PlacesTo(nodes), <<>>, Def)
    <2> HIDE DEF Def
    <2> QED  BY <1>1, NatInductiveDef
  <1> QED  BY <1>2 DEF NatInductiveDefConclusion

LEMMA ContextsStep ==
    ASSUME NEW nodes
    PROVE  /\ ContextsTo(nodes)[0] = <<>>
           /\ \A k \in Nat \ {0} :
                ContextsTo(nodes)[k] =
                  Append(ContextsTo(nodes)[k - 1],
                         IF nodes[k].under = 0 THEN Context("none", "", FALSE)
                         ELSE NestedContext(nodes[nodes[k].under],
                                            ContextsTo(nodes)[k - 1][nodes[k].under]))
  <1> DEFINE Def(to, k) ==
        LET u == nodes[k].under IN
        Append(to, IF u = 0 THEN Context("none", "", FALSE) ELSE NestedContext(nodes[u], to[u]))
  <1>1. NatInductiveDefHypothesis(ContextsTo(nodes), <<>>, Def)
    BY DEF NatInductiveDefHypothesis, ContextsTo
  <1>2. NatInductiveDefConclusion(ContextsTo(nodes), <<>>, Def)
    <2> HIDE DEF Def
    <2> QED  BY <1>1, NatInductiveDef
  <1> QED  BY <1>2 DEF NatInductiveDefConclusion

LEMMA EmittingStep ==
    ASSUME NEW nodes
    PROVE  /\ Emitting(nodes)[0] = [out |-> <<>>, table |-> <<>>, scope |-> <<>>]
           /\ \A k \in Nat \ {0} :
                Emitting(nodes)[k] = EmitNode(nodes, Emitting(nodes)[k - 1], k)
  <1> DEFINE Def(to, k) == EmitNode(nodes, to, k)
  <1> DEFINE nothing == [out |-> <<>>, table |-> <<>>, scope |-> <<>>]
  <1>1. NatInductiveDefHypothesis(Emitting(nodes), nothing, Def)
    BY DEF NatInductiveDefHypothesis, Emitting
  <1>2. NatInductiveDefConclusion(Emitting(nodes), nothing, Def)
    <2> HIDE DEF Def, nothing
    <2> QED  BY <1>1, NatInductiveDef
  <1> QED  BY <1>2 DEF NatInductiveDefConclusion

LEMMA InstancesStep ==
    ASSUME NEW json
    PROVE  /\ Instances(json)[0] = Made(ViewNodes(json.nodes), <<>>, "box", <<>>, <<>>)
           /\ \A k \in Nat \ {0} :
                Instances(json)[k] = UNION {MadeOf(json, made) : made \in Instances(json)[k - 1]}
  <1> DEFINE Def(to, k) == UNION {MadeOf(json, made) : made \in to}
  <1> DEFINE first == Made(ViewNodes(json.nodes), <<>>, "box", <<>>, <<>>)
  <1>1. NatInductiveDefHypothesis(Instances(json), first, Def)
    BY DEF NatInductiveDefHypothesis, Instances
  <1>2. NatInductiveDefConclusion(Instances(json), first, Def)
    <2> HIDE DEF Def, first
    <2> QED  BY <1>1, NatInductiveDef
  <1> QED  BY <1>2 DEF NatInductiveDefConclusion

(* The place of a node is made of the place of the one it is under.        *)
LEMMA PlaceOfNode ==
    ASSUME NEW nodes, Tree(nodes)
    PROVE  /\ DOMAIN PlacesOf(nodes) = DOMAIN nodes
           /\ \A i \in DOMAIN nodes :
                PlacesOf(nodes)[i] =
                  IF nodes[i].under = 0 THEN Outside
                  ELSE Nested(nodes[nodes[i].under], PlacesOf(nodes)[nodes[i].under])
  <1> DEFINE to == PlacesTo(nodes)
  <1> DEFINE v == [k \in Nat |-> IF nodes[k].under = 0 THEN Outside
                                 ELSE Nested(nodes[nodes[k].under], to[k - 1][nodes[k].under])]
  <1>1. to[0] = <<>> /\ \A k \in Nat \ {0} : to[k] = Append(to[k - 1], v[k])
    BY PlacesStep
  <1>2. \A k \in Nat : to[k] = [i \in 1 .. k |-> v[i]]
    <2>1. PICK t, w : t = to /\ w = v
      OBVIOUS
    <2>2. t[0] = <<>> /\ \A k \in Nat \ {0} : t[k] = Append(t[k - 1], w[k])
      <3> HIDE DEF to, v
      <3> QED  BY <1>1, <2>1
    <2>3. \A k \in Nat : t[k] = [i \in 1 .. k |-> w[i]]
      <3>1. Walks(t, w)
        BY <2>2 DEF Walks
      <3> QED  BY <3>1, Walk
    <2> HIDE DEF to, v
    <2> QED  BY <2>1, <2>3
  <1>3. Len(nodes) \in Nat /\ DOMAIN nodes = 1 .. Len(nodes)
    BY DEF Tree
  <1>4. PlacesOf(nodes) = [i \in 1 .. Len(nodes) |-> v[i]]
    <2> HIDE DEF v
    <2> QED  BY <1>2, <1>3 DEF PlacesOf
  <1>5. ASSUME NEW i \in DOMAIN nodes
        PROVE  PlacesOf(nodes)[i] =
                 IF nodes[i].under = 0 THEN Outside
                 ELSE Nested(nodes[nodes[i].under], PlacesOf(nodes)[nodes[i].under])
    <2>1. i \in Nat /\ i - 1 \in Nat /\ nodes[i].under \in 0 .. i - 1 /\ nodes[i].under <= Len(nodes)
      BY <1>3 DEF Tree
    <2>2. PlacesOf(nodes)[i] = v[i]
      <3> HIDE DEF v
      <3> QED  BY <1>3, <1>4
    <2>3. nodes[i].under # 0 => to[i - 1][nodes[i].under] = PlacesOf(nodes)[nodes[i].under]
      <3>1. PICK u : u = nodes[i].under
        OBVIOUS
      <3>2. u # 0 => u \in 1 .. i - 1 /\ u \in 1 .. Len(nodes)
        BY <1>3, <2>1, <3>1
      <3>3. u # 0 => to[i - 1][u] = v[u]
        <4> HIDE DEF v, to
        <4> QED  BY <1>2, <2>1, <3>2
      <3>4. u # 0 => PlacesOf(nodes)[u] = v[u]
        <4> HIDE DEF v
        <4> QED  BY <1>4, <3>2
      <3> HIDE DEF v, to
      <3> QED  BY <3>1, <3>3, <3>4
    <2> QED  BY <2>1, <2>2, <2>3
  <1> QED  BY <1>3, <1>4, <1>5

LEMMA ContextOfNode ==
    ASSUME NEW nodes, Len(nodes) \in Nat, DOMAIN nodes = 1 .. Len(nodes),
           \A i \in DOMAIN nodes : nodes[i].under \in 0 .. i - 1
    PROVE  /\ DOMAIN Contexts(nodes) = DOMAIN nodes
           /\ \A i \in DOMAIN nodes :
                Contexts(nodes)[i] =
                  IF nodes[i].under = 0 THEN Context("none", "", FALSE)
                  ELSE NestedContext(nodes[nodes[i].under], Contexts(nodes)[nodes[i].under])
  <1> DEFINE to == ContextsTo(nodes)
  <1> DEFINE v == [k \in Nat |-> IF nodes[k].under = 0 THEN Context("none", "", FALSE)
                                 ELSE NestedContext(nodes[nodes[k].under], to[k - 1][nodes[k].under])]
  <1>1. to[0] = <<>> /\ \A k \in Nat \ {0} : to[k] = Append(to[k - 1], v[k])
    BY ContextsStep
  <1>2. \A k \in Nat : to[k] = [i \in 1 .. k |-> v[i]]
    <2>1. PICK t, w : t = to /\ w = v
      OBVIOUS
    <2>2. t[0] = <<>> /\ \A k \in Nat \ {0} : t[k] = Append(t[k - 1], w[k])
      <3> HIDE DEF to, v
      <3> QED  BY <1>1, <2>1
    <2>3. \A k \in Nat : t[k] = [i \in 1 .. k |-> w[i]]
      <3>1. Walks(t, w)
        BY <2>2 DEF Walks
      <3> QED  BY <3>1, Walk
    <2> HIDE DEF to, v
    <2> QED  BY <2>1, <2>3
  <1>4. Contexts(nodes) = [i \in 1 .. Len(nodes) |-> v[i]]
    <2> HIDE DEF v
    <2> QED  BY <1>2 DEF Contexts
  <1>5. ASSUME NEW i \in DOMAIN nodes
        PROVE  Contexts(nodes)[i] =
                 IF nodes[i].under = 0 THEN Context("none", "", FALSE)
                 ELSE NestedContext(nodes[nodes[i].under], Contexts(nodes)[nodes[i].under])
    <2>1. i \in Nat /\ i - 1 \in Nat /\ nodes[i].under \in 0 .. i - 1 /\ nodes[i].under <= Len(nodes)
      OBVIOUS
    <2>2. Contexts(nodes)[i] = v[i]
      <3> HIDE DEF v
      <3> QED  BY <1>4
    <2>3. nodes[i].under # 0 => to[i - 1][nodes[i].under] = Contexts(nodes)[nodes[i].under]
      <3>1. PICK u : u = nodes[i].under
        OBVIOUS
      <3>2. u # 0 => u \in 1 .. i - 1 /\ u \in 1 .. Len(nodes)
        BY <2>1, <3>1
      <3>3. u # 0 => to[i - 1][u] = v[u]
        <4> HIDE DEF v, to
        <4> QED  BY <1>2, <2>1, <3>2
      <3>4. u # 0 => Contexts(nodes)[u] = v[u]
        <4> HIDE DEF v
        <4> QED  BY <1>4, <3>2
      <3> HIDE DEF v, to
      <3> QED  BY <3>1, <3>3, <3>4
    <2> QED  BY <2>1, <2>2, <2>3
  <1> QED  BY <1>4, <1>5

LEMMA NodeInduction ==
    ASSUME NEW nodes, Tree(nodes), NEW S \in SUBSET DOMAIN nodes,
           \A i \in DOMAIN nodes : nodes[i].under = 0 \/ nodes[i].under \in S => i \in S
    PROVE  S = DOMAIN nodes
  <1> DEFINE T == {n \in Nat : n \in DOMAIN nodes => n \in S}
  <1>1. ASSUME NEW n \in Nat, 0 .. n - 1 \subseteq T PROVE n \in T
    <2>1. SUFFICES ASSUME n \in DOMAIN nodes PROVE n \in S
      OBVIOUS
    <2>2. nodes[n].under \in 0 .. n - 1 /\ DOMAIN nodes = 1 .. Len(nodes) /\ Len(nodes) \in Nat
      BY <2>1 DEF Tree
    <2>3. nodes[n].under \in T
      BY <1>1, <2>2
    <2>4. nodes[n].under # 0 => nodes[n].under \in DOMAIN nodes
      BY <2>1, <2>2
    <2> QED  BY <2>1, <2>3, <2>4
  <1>2. T = Nat
    <2>1. T \in SUBSET Nat
      OBVIOUS
    <2> HIDE DEF T
    <2> QED  BY <1>1, <2>1, StrongInduction
  <1>3. DOMAIN nodes \subseteq Nat
    BY DEF Tree
  <1>4. \A i \in DOMAIN nodes : i \in T
    <2> HIDE DEF T
    <2> QED  BY <1>2, <1>3
  <1>5. \A i \in DOMAIN nodes : i \in S
    BY <1>3, <1>4
  <1> QED  BY <1>5

Items(nodes) == {nodes[i].item : i \in DOMAIN nodes} \cup {"x"}
PlaceType(nodes) ==
    [parent : ElementNames \cup {"none"}, scope : Seq(Items(nodes)),
     home : {"", "view"} \cup DOMAIN Props, repeated : BOOLEAN]

LEMMA PropsAre == DOMAIN Props = {"c1", "c2"} /\ Props["c1"] = <<"x">> /\ Props["c2"] = <<>>
  <1>1. "c1" # "c2"
    OBVIOUS
  <1> QED  BY <1>1 DEF Props

(* What is nested in a node, field by field.                               *)
LEMMA NestedIs ==
    ASSUME NEW nodes, NEW p \in PlaceType(nodes), NEW n, n.tag \in Tags,
           n.tag = "component" => n.item \in DOMAIN Props
    PROVE  /\ Nested(n, p).parent = IF n.tag \in {"component", "view"} THEN "box"
                                    ELSE IF n.tag \in ElementNames THEN n.tag ELSE p.parent
           /\ Nested(n, p).scope = IF n.tag = "component" THEN Props[n.item]
                                   ELSE IF n.tag = "view" THEN <<>>
                                   ELSE IF n.tag = "for" THEN Append(p.scope, n.item) ELSE p.scope
           /\ Nested(n, p).home = IF n.tag = "component" THEN n.item
                                  ELSE IF n.tag = "view" THEN "view" ELSE p.home
           /\ Nested(n, p).repeated = IF n.tag = "component" THEN TRUE
                                      ELSE IF n.tag = "view" THEN FALSE
                                      ELSE IF n.tag = "for" THEN TRUE ELSE p.repeated
           /\ n.item \in Items(nodes) => Nested(n, p) \in PlaceType(nodes)
  <1>1. CASE n.tag = "component"
    <2>1. n.tag # "view" /\ n.tag # "for" /\ n.tag \notin ElementNames /\ n.tag \notin Transparent
      BY <1>1, PropsAre DEF ElementNames, Transparent, Branches
    <2>2. Nested(n, p) = Place("box", Props[n.item], n.item, TRUE)
      BY <1>1, <2>1, Zenon DEF Nested
    <2>3. Props[n.item] \in Seq(Items(nodes))
      <3>1. "x" \in Items(nodes)
        BY DEF Items
      <3>2. <<"x">> \in Seq(Items(nodes)) /\ <<>> \in Seq(Items(nodes))
        BY <3>1
      <3> QED  BY <1>1, <3>2, PropsAre
    <2>4. Place("box", Props[n.item], n.item, TRUE) \in PlaceType(nodes)
      BY <1>1, <2>3, PropsAre DEF ElementNames, PlaceType, Place
    <2> QED  BY <1>1, <2>1, <2>2, <2>4 DEF Place
  <1>2. CASE n.tag = "view"
    <2>1. n.tag # "component" /\ n.tag # "for" /\ n.tag \notin ElementNames /\ n.tag \notin Transparent
      BY <1>2, PropsAre DEF ElementNames, Transparent, Branches
    <2>2. Nested(n, p) = Place("box", <<>>, "view", FALSE)
      BY <1>2, <2>1, Zenon DEF Nested
    <2>3. Place("box", <<>>, "view", FALSE) \in PlaceType(nodes)
      <3>1. <<>> \in Seq(Items(nodes))
        OBVIOUS
      <3> QED  BY <3>1 DEF ElementNames, PlaceType, Place
    <2> QED  BY <1>2, <2>1, <2>2, <2>3 DEF Place
  <1>3. CASE n.tag = "for"
    <2>1. n.tag # "component" /\ n.tag # "view" /\ n.tag \notin ElementNames /\ n.tag \notin Transparent
      BY <1>3, PropsAre DEF ElementNames, Transparent, Branches
    <2>2. Nested(n, p) = ForPlace(n, p)
      BY <1>3, <2>1, Zenon DEF Nested
    <2>3. p.scope \in Seq(Items(nodes))
      BY DEF PlaceType
    <2>4. n.item \in Items(nodes) => Append(p.scope, n.item) \in Seq(Items(nodes))
      BY <2>3
    <2> QED  BY <1>3, <2>1, <2>2, <2>4 DEF ElementNames, PlaceType, Place, ForPlace
  <1>4. CASE n.tag \in ElementNames
    <2>1. n.tag # "component" /\ n.tag # "view" /\ n.tag # "for" /\ n.tag \notin Transparent
      BY <1>4, PropsAre DEF ElementNames, Transparent, Branches
    <2>2. Nested(n, p) = [p EXCEPT !.parent = n.tag]
      BY <1>4, <2>1, Zenon DEF Nested
    <2> QED  BY <1>4, <2>1, <2>2 DEF ElementNames, PlaceType, Place, ForPlace
  <1>5. CASE n.tag \in Transparent
    <2>1. n.tag # "component" /\ n.tag # "view" /\ n.tag # "for" /\ n.tag \notin ElementNames
      BY <1>5, PropsAre DEF ElementNames, Transparent, Branches
    <2>2. Nested(n, p) = p
      BY <1>5, <2>1, Zenon DEF Nested
    <2> QED  BY <1>5, <2>1, <2>2 DEF ElementNames, PlaceType, Place, ForPlace
  <1>6. n.tag \in {"component", "view", "for"} \cup ElementNames \cup Transparent
    BY PropsAre DEF Tags, ElementNames, Transparent, Branches
  <1> QED  BY <1>1, <1>2, <1>3, <1>4, <1>5, <1>6

LEMMA PlaceTyped ==
    ASSUME NEW nodes, Tree(nodes)
    PROVE  \A i \in DOMAIN nodes : PlacesOf(nodes)[i] \in PlaceType(nodes)
  <1> DEFINE S == {i \in DOMAIN nodes : PlacesOf(nodes)[i] \in PlaceType(nodes)}
  <1>1. Outside \in PlaceType(nodes)
    BY DEF Outside, Place, PlaceType
  <1>2. ASSUME NEW i \in DOMAIN nodes, nodes[i].under = 0 \/ nodes[i].under \in S PROVE i \in S
    <2>1. PlacesOf(nodes)[i] =
            IF nodes[i].under = 0 THEN Outside
            ELSE Nested(nodes[nodes[i].under], PlacesOf(nodes)[nodes[i].under])
      BY PlaceOfNode
    <2>2. CASE nodes[i].under = 0
      BY <1>1, <2>1, <2>2
    <2>3. CASE nodes[i].under \in S /\ nodes[i].under # 0
      <3>1. PICK u \in DOMAIN nodes : u = nodes[i].under /\ PlacesOf(nodes)[u] \in PlaceType(nodes)
        BY <2>3
      <3>2. Formed(nodes[u]) /\ nodes[u].item \in Items(nodes)
        BY <3>1 DEF Tree, Items
      <3>3. Nested(nodes[u], PlacesOf(nodes)[u]) \in PlaceType(nodes)
        BY <3>1, <3>2, NestedIs DEF Formed
      <3> QED  BY <2>1, <2>3, <3>1, <3>3
    <2> QED  BY <1>2, <2>2, <2>3
  <1>3. S = DOMAIN nodes
    <2>1. S \in SUBSET DOMAIN nodes
      OBVIOUS
    <2> HIDE DEF S
    <2> QED  BY <1>2, <2>1, NodeInduction
  <1> QED  BY <1>3

(* The scope of what is under a node, and the `for`s between an open node  *)
(* and a later one: the scope grows by the item of each.                   *)
ScopeIn(nodes, i) == Nested(nodes[i], PlacesOf(nodes)[i]).scope
OpenAt(nodes, u, k) == u \in 1 .. k /\ \A j \in u + 1 .. k : nodes[j].under >= u
ForsIn(nodes, u, k) ==
    {i \in u + 1 .. k : nodes[i].tag = "for" /\ \A j \in i + 1 .. k : nodes[j].under >= i}
Grown(s, t, n) ==
    Len(t) = Len(s) + n /\ \A i \in 1 .. Len(s) : t[i] = s[i]

LEMMA ScopeInIs ==
    ASSUME NEW nodes, Tree(nodes), NEW i \in DOMAIN nodes
    PROVE  /\ ScopeIn(nodes, i) \in Seq(Items(nodes))
           /\ ScopeIn(nodes, i) = IF nodes[i].tag = "component" THEN Props[nodes[i].item]
                                  ELSE IF nodes[i].tag = "view" THEN <<>>
                                  ELSE IF nodes[i].tag = "for"
                                    THEN Append(PlacesOf(nodes)[i].scope, nodes[i].item)
                                    ELSE PlacesOf(nodes)[i].scope
           /\ PlacesOf(nodes)[i].scope \in Seq(Items(nodes))
           /\ nodes[i].under # 0 =>
                /\ nodes[i].under \in DOMAIN nodes
                /\ PlacesOf(nodes)[i].scope = ScopeIn(nodes, nodes[i].under)
  <1>1. Formed(nodes[i]) /\ nodes[i].item \in Items(nodes)
    BY DEF Tree, Items
  <1>2. PlacesOf(nodes)[i] \in PlaceType(nodes)
    BY PlaceTyped
  <1>3. PlacesOf(nodes)[i].scope \in Seq(Items(nodes))
    BY <1>2 DEF PlaceType
  <1>4. Nested(nodes[i], PlacesOf(nodes)[i]) \in PlaceType(nodes)
    BY <1>1, <1>2, NestedIs DEF Formed
  <1>5. ScopeIn(nodes, i) \in Seq(Items(nodes))
    BY <1>4 DEF PlaceType, ScopeIn
  <1>6. ScopeIn(nodes, i) = IF nodes[i].tag = "component" THEN Props[nodes[i].item]
                            ELSE IF nodes[i].tag = "view" THEN <<>>
                            ELSE IF nodes[i].tag = "for"
                              THEN Append(PlacesOf(nodes)[i].scope, nodes[i].item)
                              ELSE PlacesOf(nodes)[i].scope
    BY <1>1, <1>2, NestedIs DEF Formed, ScopeIn
  <1>7. nodes[i].under # 0 =>
          /\ nodes[i].under \in DOMAIN nodes
          /\ PlacesOf(nodes)[i].scope = ScopeIn(nodes, nodes[i].under)
    <2>1. nodes[i].under # 0 => nodes[i].under \in DOMAIN nodes
      BY DEF Tree
    <2> QED  BY <2>1, PlaceOfNode DEF ScopeIn
  <1> QED  BY <1>3, <1>5, <1>6, <1>7

LEMMA ForsAreFinite ==
    ASSUME NEW nodes, NEW u \in Nat, NEW k \in Nat
    PROVE  IsFiniteSet(ForsIn(nodes, u, k)) /\ Cardinality(ForsIn(nodes, u, k)) \in Nat
  <1>1. IsFiniteSet(u + 1 .. k)
    BY FS_Interval
  <1>2. IsFiniteSet(ForsIn(nodes, u, k))
    BY <1>1, FS_Subset DEF ForsIn
  <1> QED  BY <1>2, FS_CardinalityType

LEMMA ForsStep ==
    ASSUME NEW nodes, Tree(nodes), NEW u, NEW k \in DOMAIN nodes, OpenAt(nodes, u, k), u # k
    PROVE  /\ nodes[k].under \in u .. k - 1 /\ nodes[k].under \in DOMAIN nodes
           /\ OpenAt(nodes, u, nodes[k].under)
           /\ ForsIn(nodes, u, k) = ForsIn(nodes, u, nodes[k].under) \cup
                                    (IF nodes[k].tag = "for" THEN {k} ELSE {})
  <1>1. PICK p : p = nodes[k].under
    OBVIOUS
  <1>2. k \in Nat /\ u \in 1 .. k - 1 /\ p \in u .. k - 1 /\ p \in DOMAIN nodes
    BY <1>1 DEF Tree, OpenAt
  <1>3. \A j \in p + 1 .. k - 1 : nodes[j].under >= p
    BY <1>1 DEF Tree
  <1>4. \A j \in 1 .. k : nodes[j].under \in Int
    BY DEF Tree
  <1>5. OpenAt(nodes, u, p)
    BY <1>2 DEF OpenAt
  <1>6. \A i : i \in ForsIn(nodes, u, k) <=>
          i \in ForsIn(nodes, u, p) \/ (i = k /\ nodes[k].tag = "for")
    <2>1. ASSUME NEW i \in ForsIn(nodes, u, k), i # k PROVE i \in ForsIn(nodes, u, p)
      <3>1. i \in u + 1 .. k - 1 /\ nodes[i].tag = "for" /\ \A j \in i + 1 .. k : nodes[j].under >= i
        BY <1>2, <2>1 DEF ForsIn
      <3>2. i <= p
        BY <1>1, <1>2, <3>1
      <3> QED  BY <1>2, <3>1, <3>2 DEF ForsIn
    <2>2. k \in ForsIn(nodes, u, k) => nodes[k].tag = "for"
      BY DEF ForsIn
    <2>3. ASSUME NEW i \in ForsIn(nodes, u, p) PROVE i \in ForsIn(nodes, u, k)
      <3>1. i \in u + 1 .. p /\ nodes[i].tag = "for" /\ \A j \in i + 1 .. p : nodes[j].under >= i
        BY DEF ForsIn
      <3>2. ASSUME NEW j \in i + 1 .. k PROVE nodes[j].under >= i
        <4>1. CASE j <= p
          BY <1>2, <3>1, <4>1
        <4>2. CASE j > p /\ j < k
          <5>1. nodes[j].under >= p /\ nodes[j].under \in Int
            BY <1>2, <1>3, <1>4, <3>1, <4>2
          <5> QED  BY <1>2, <3>1, <5>1
        <4>3. CASE j = k
          BY <1>1, <1>2, <3>1, <4>3
        <4> QED  BY <1>2, <3>1, <4>1, <4>2, <4>3
      <3>3. i \in u + 1 .. k
        BY <1>2, <3>1
      <3> QED  BY <3>1, <3>2, <3>3 DEF ForsIn
    <2>4. nodes[k].tag = "for" => k \in ForsIn(nodes, u, k)
      <3>1. k \in u + 1 .. k /\ k + 1 .. k = {}
        BY <1>2
      <3> QED  BY <3>1 DEF ForsIn
    <2> QED  BY <2>1, <2>2, <2>3, <2>4
  <1>7. ForsIn(nodes, u, k) = ForsIn(nodes, u, p) \cup (IF nodes[k].tag = "for" THEN {k} ELSE {})
    BY <1>6
  <1> QED  BY <1>1, <1>2, <1>5, <1>7

LEMMA ScopeGrows ==
    ASSUME NEW nodes, Tree(nodes), NEW u
    PROVE  \A k \in DOMAIN nodes : OpenAt(nodes, u, k) =>
             Grown(ScopeIn(nodes, u), ScopeIn(nodes, k), Cardinality(ForsIn(nodes, u, k)))
  <1> DEFINE P(k) == OpenAt(nodes, u, k) =>
             Grown(ScopeIn(nodes, u), ScopeIn(nodes, k), Cardinality(ForsIn(nodes, u, k)))
  <1> DEFINE S == {k \in Nat : k \in DOMAIN nodes => P(k)}
  <1>1. ASSUME NEW k \in Nat, 0 .. k - 1 \subseteq S PROVE k \in S
    <2>1. SUFFICES ASSUME k \in DOMAIN nodes, OpenAt(nodes, u, k)
                   PROVE  Grown(ScopeIn(nodes, u), ScopeIn(nodes, k), Cardinality(ForsIn(nodes, u, k)))
      OBVIOUS
    <2>2. u \in Nat /\ u \in DOMAIN nodes
      BY <2>1 DEF OpenAt, Tree
    <2>3. ScopeIn(nodes, u) \in Seq(Items(nodes)) /\ ScopeIn(nodes, k) \in Seq(Items(nodes))
      BY <2>1, <2>2, ScopeInIs
    <2>4. CASE u = k
      <3>1. ForsIn(nodes, u, k) = {}
        BY <2>2, <2>4 DEF ForsIn
      <3>2. Cardinality(ForsIn(nodes, u, k)) = 0
        BY <3>1, FS_EmptySet
      <3> QED  BY <2>3, <2>4, <3>2 DEF Grown
    <2>5. CASE u # k
      <3>1. PICK p : p = nodes[k].under
        OBVIOUS
      <3>2. /\ p \in u .. k - 1 /\ p \in DOMAIN nodes /\ OpenAt(nodes, u, p)
            /\ ForsIn(nodes, u, k) = ForsIn(nodes, u, p) \cup
                                     (IF nodes[k].tag = "for" THEN {k} ELSE {})
        BY <2>1, <2>5, <3>1, ForsStep
      <3>3. p \in 0 .. k - 1 /\ p # 0 /\ p \in Nat
        BY <2>1, <2>2, <3>2 DEF OpenAt
      <3>4. Grown(ScopeIn(nodes, u), ScopeIn(nodes, p), Cardinality(ForsIn(nodes, u, p)))
        <4>1. p \in S
          BY <1>1, <3>3
        <4> QED  BY <3>2, <4>1
      <3>5. /\ ScopeIn(nodes, p) \in Seq(Items(nodes))
            /\ PlacesOf(nodes)[k].scope = ScopeIn(nodes, p)
        BY <2>1, <3>1, <3>2, <3>3, ScopeInIs
      <3>6. nodes[k].tag \notin {"component", "view"}
        BY <2>1, <3>1, <3>3 DEF Tree
      <3>7. IsFiniteSet(ForsIn(nodes, u, p)) /\ Cardinality(ForsIn(nodes, u, p)) \in Nat
        BY <2>2, <3>3, ForsAreFinite
      <3>8. CASE nodes[k].tag = "for"
        <4>1. ScopeIn(nodes, k) = Append(ScopeIn(nodes, p), nodes[k].item)
          BY <2>1, <3>5, <3>8, ScopeInIs
        <4>2. k \notin ForsIn(nodes, u, p)
          BY <2>1, <3>2 DEF ForsIn
        <4>3. Cardinality(ForsIn(nodes, u, k)) = Cardinality(ForsIn(nodes, u, p)) + 1
          BY <3>2, <3>7, <3>8, <4>2, FS_AddElement
        <4>4. nodes[k].item \in Items(nodes)
          BY <2>1 DEF Items
        <4>5. Grown(ScopeIn(nodes, p), Append(ScopeIn(nodes, p), nodes[k].item), 1)
          BY <3>5, <4>4 DEF Grown
        <4>6. Len(ScopeIn(nodes, u)) \in Nat /\ Len(ScopeIn(nodes, p)) \in Nat
          BY <2>3, <3>5
        <4> QED  BY <3>4, <3>7, <4>1, <4>3, <4>5, <4>6 DEF Grown
      <3>9. CASE nodes[k].tag # "for"
        <4>1. ScopeIn(nodes, k) = ScopeIn(nodes, p)
          BY <2>1, <3>5, <3>6, <3>9, ScopeInIs
        <4>2. ForsIn(nodes, u, k) = ForsIn(nodes, u, p)
          BY <3>2, <3>9
        <4> QED  BY <3>4, <4>1, <4>2
      <3> QED  BY <3>8, <3>9
    <2> QED  BY <2>4, <2>5
  <1>2. S = Nat
    <2>1. S \in SUBSET Nat
      OBVIOUS
    <2> HIDE DEF S
    <2> QED  BY <1>1, <2>1, StrongInduction
  <1>3. DOMAIN nodes \subseteq Nat
    BY DEF Tree
  <1>4. \A k \in DOMAIN nodes : k \in S
    <2> HIDE DEF S
    <2> QED  BY <1>2, <1>3
  <1>5. \A k \in DOMAIN nodes : P(k)
    BY <1>3, <1>4
  <1> QED  BY <1>5

(* The scope the emitter goes back to is that of the node's place.         *)
LEMMA ScopeRestored ==
    ASSUME NEW nodes, Tree(nodes), NEW k \in DOMAIN nodes, NEW e,
           k # 1 => e.scope = ScopeIn(nodes, k - 1)
    PROVE  ScopeAt(nodes, e, k) = IF nodes[k].under = 0 THEN ScopeIn(nodes, k)
                                  ELSE PlacesOf(nodes)[k].scope
  <1>1. CASE nodes[k].under = 0
    <2>1. nodes[k].tag \in {"component", "view"}
      BY <1>1 DEF Tree
    <2>2. ScopeIn(nodes, k) = IF nodes[k].tag = "component" THEN Props[nodes[k].item] ELSE <<>>
      BY <2>1, ScopeInIs
    <2> QED  BY <1>1, <2>1, <2>2 DEF ScopeAt
  <1>2. CASE nodes[k].under # 0
    <2>1. PICK u : u = nodes[k].under
      OBVIOUS
    <2>2. /\ k \in Nat /\ u \in 1 .. k - 1 /\ k - 1 \in DOMAIN nodes /\ k # 1 /\ u \in DOMAIN nodes
          /\ \A j \in u + 1 .. k - 1 : nodes[j].under >= u
      BY <1>2, <2>1 DEF Tree
    <2>3. OpenAt(nodes, u, k - 1)
      BY <2>2 DEF OpenAt
    <2>4. PICK s, t, n : s = ScopeIn(nodes, u) /\ t = ScopeIn(nodes, k - 1)
                         /\ n = Cardinality(ForsIn(nodes, u, k - 1))
      OBVIOUS
    <2>5. Grown(s, t, n)
      BY <2>2, <2>3, <2>4, ScopeGrows
    <2>6. s \in Seq(Items(nodes)) /\ t \in Seq(Items(nodes)) /\ n \in Nat
      BY <2>2, <2>4, ScopeInIs, ForsAreFinite
    <2>7. ForsLeft(nodes, k) = ForsIn(nodes, u, k - 1)
      BY <2>1 DEF ForsLeft, ForsIn
    <2>8. Popped(t, ForsIn(nodes, u, k - 1)) = s
      <3>1. Len(t) - n = Len(s) /\ Len(s) \in Nat
        BY <2>5, <2>6 DEF Grown
      <3>2. SubSeq(t, 1, Len(s)) = [i \in 1 .. Len(s) |-> t[i]]
        BY <2>6, <3>1
      <3>3. \A i \in 1 .. Len(s) : t[i] = s[i]
        BY <2>5 DEF Grown
      <3>4. s = [i \in 1 .. Len(s) |-> s[i]]
        BY <2>6
      <3>5. SubSeq(t, 1, Len(s)) = s
        BY <3>2, <3>3, <3>4
      <3> QED  BY <2>4, <3>1, <3>5 DEF Popped
    <2>9. nodes[k].tag \notin {"component", "view"}
      BY <1>2 DEF Tree
    <2>10. ScopeAt(nodes, e, k) = s
      BY <2>2, <2>4, <2>7, <2>8, <2>9 DEF ScopeAt
    <2>11. PlacesOf(nodes)[k].scope = s
      BY <2>1, <2>2, <2>4, ScopeInIs
    <2> QED  BY <1>2, <2>10, <2>11
  <1> QED  BY <1>1, <1>2

-----------------------------------------------------------------------------
(* Lists that only grow, and the entry of an expression in one.            *)
Lists(t) == Len(t) \in Nat /\ t = [i \in 1 .. Len(t) |-> t[i]]
Extends(t, u) == Lists(u) /\ Len(u) >= Len(t) /\ \A i \in 1 .. Len(t) : u[i] = t[i]
EntryIs(table, index, expr, entry) ==
    /\ index \in 0 .. Len(table)
    /\ index = 0 <=> expr = NoExpr
    /\ expr # NoExpr => table[index] = entry

LEMMA Appended ==
    ASSUME NEW t, Lists(t), NEW x
    PROVE  /\ Extends(t, Append(t, x)) /\ Len(Append(t, x)) = Len(t) + 1
           /\ Append(t, x)[Len(t) + 1] = x
  <1>1. PICK n \in Nat : n = Len(t) /\ t = [i \in 1 .. n |-> t[i]]
    BY DEF Lists
  <1>2. PICK a : a = Append(t, x)
    OBVIOUS
  <1>3. a = [i \in 1 .. n + 1 |-> IF i = n + 1 THEN x ELSE t[i]]
    BY <1>1, <1>2, PutOut
  <1>4. PICK S : S = {t[i] : i \in 1 .. n} \cup {x}
    OBVIOUS
  <1>5. a \in Seq(S) /\ Len(a) = n + 1
    <2>1. \A i \in 1 .. n + 1 : a[i] \in S
      BY <1>3, <1>4
    <2>2. a \in [1 .. n + 1 -> S]
      BY <1>3, <2>1
    <2> QED  BY <2>2, SeqDef
  <1>6. a = [i \in 1 .. Len(a) |-> a[i]] /\ Len(a) \in Nat
    BY <1>5
  <1>7. Lists(a)
    BY <1>6 DEF Lists
  <1>8. a[n + 1] = x /\ \A i \in 1 .. n : a[i] = t[i]
    BY <1>3
  <1> QED  BY <1>1, <1>2, <1>5, <1>7, <1>8 DEF Extends

LEMMA EntryPut ==
    ASSUME NEW t, Lists(t), NEW expr, NEW entry, NEW u,
           u = IF expr = NoExpr THEN t ELSE Append(t, entry)
    PROVE  Extends(t, u) /\ EntryIs(u, IF expr = NoExpr THEN 0 ELSE Len(u), expr, entry)
  <1>1. CASE expr = NoExpr
    <2>1. Len(t) \in Nat
      BY DEF Lists
    <2> QED  BY <1>1, <2>1 DEF Extends, EntryIs
  <1>2. CASE expr # NoExpr
    <2>1. Extends(t, u) /\ Len(u) = Len(t) + 1 /\ u[Len(t) + 1] = entry /\ Len(t) \in Nat
      BY <1>2, Appended DEF Lists
    <2> QED  BY <1>2, <2>1 DEF EntryIs
  <1> QED  BY <1>1, <1>2

LEMMA EntryKept ==
    ASSUME NEW t, Lists(t), NEW u, Extends(t, u), NEW index, NEW expr, NEW entry,
           EntryIs(t, index, expr, entry)
    PROVE  EntryIs(u, index, expr, entry)
  BY DEF EntryIs, Extends, Lists

LEMMA ExtendsAgain ==
    ASSUME NEW t, NEW u, NEW w, Lists(t), Extends(t, u), Extends(u, w)
    PROVE  Extends(t, w)
  BY DEF Extends, Lists

(* What the emission has put out after k nodes: each with its entries.     *)
BindEntry(nodes, i) ==
    [role |-> RoleOf(nodes[i].tag), expr |-> nodes[i].expr, scope |-> PlacesOf(nodes)[i].scope]
OnEntry(nodes, i) ==
    [role |-> "handler", expr |-> Handler(nodes[i].on, PlacesOf(nodes)[i].scope),
     scope |-> Append(PlacesOf(nodes)[i].scope, "event")]
KeyEntry(nodes, i) ==
    [role |-> "key", expr |-> nodes[i].key,
     scope |-> Append(PlacesOf(nodes)[i].scope, nodes[i].item)]
NodeOut(nodes, i, c, table) ==
    /\ c = Compiled(nodes[i], c.bind, c.on, c.key)
    /\ EntryIs(table, c.bind, nodes[i].expr, BindEntry(nodes, i))
    /\ EntryIs(table, c.on, nodes[i].on, OnEntry(nodes, i))
    /\ EntryIs(table, c.key, nodes[i].key, KeyEntry(nodes, i))
EmittedTo(nodes, e, k) ==
    /\ e = [out |-> e.out, table |-> e.table, scope |-> e.scope]
    /\ Lists(e.out) /\ Len(e.out) = k /\ Lists(e.table)
    /\ k # 0 => e.scope = ScopeIn(nodes, k)
    /\ \A i \in 1 .. k : NodeOut(nodes, i, e.out[i], e.table)

LEMMA RoleOfIs ==
    ASSUME NEW tag \in Tags \ {"component", "view", "slot"}
    PROVE  RoleOf(tag) # "handler"
  <1>1. CASE tag = "for"
    <2>1. tag \notin Branches /\ tag \notin ElementNames /\ tag \notin DOMAIN Props
      BY <1>1, PropsAre DEF Branches, ElementNames
    <2>2. RoleOf(tag) = "list"
      BY <1>1, <2>1, Zenon DEF RoleOf
    <2> QED  BY <2>2
  <1>2. CASE tag \in Branches
    <2>1. tag # "for" /\ tag \notin ElementNames /\ tag \notin DOMAIN Props
      BY <1>2, PropsAre DEF Branches, ElementNames
    <2>2. RoleOf(tag) = "test"
      BY <1>2, <2>1, Zenon DEF RoleOf
    <2> QED  BY <2>2
  <1>3. CASE tag \in ElementNames
    <2>1. tag # "for" /\ tag \notin Branches /\ tag \notin DOMAIN Props
      BY <1>3, PropsAre DEF Branches, ElementNames
    <2>2. RoleOf(tag) = "attribute"
      BY <1>3, <2>1, Zenon DEF RoleOf
    <2> QED  BY <2>2
  <1>4. CASE tag \in DOMAIN Props
    <2>1. tag # "for" /\ tag \notin Branches /\ tag \notin ElementNames
      BY <1>4, PropsAre DEF Branches, ElementNames
    <2>2. RoleOf(tag) = "prop"
      BY <1>4, <2>1, Zenon DEF RoleOf
    <2> QED  BY <2>2
  <1> QED  BY <1>1, <1>2, <1>3, <1>4, PropsAre DEF Tags, Branches, ElementNames

LEMMA EmitNodeIs ==
    ASSUME NEW nodes, Tree(nodes), NEW k \in DOMAIN nodes, NEW e, EmittedTo(nodes, e, k - 1)
    PROVE  EmittedTo(nodes, EmitNode(nodes, e, k), k)
  <1>1. PICK n : n = nodes[k]
    OBVIOUS
  <1>2. PICK o, t : o = e.out /\ t = e.table
    OBVIOUS
  <1>3. PICK s : s = ScopeAt(nodes, e, k)
    OBVIOUS
  <1>4. Formed(n) /\ k \in Nat /\ k > 0
    BY <1>1 DEF Tree
  <1>5. s = IF n.under = 0 THEN ScopeIn(nodes, k) ELSE PlacesOf(nodes)[k].scope
    <2>1. k # 1 => e.scope = ScopeIn(nodes, k - 1)
      BY <1>4 DEF EmittedTo
    <2> QED  BY <1>1, <1>3, <2>1, ScopeRestored
  <1>6. n.expr # NoExpr => s = PlacesOf(nodes)[k].scope /\ RoleOf(n.tag) # "handler"
    <2>1. n.expr # NoExpr => n.tag \in Tags \ {"component", "view", "slot"}
      BY <1>4 DEF Formed
    <2>2. n.expr # NoExpr => n.under # 0
      BY <1>1, <2>1 DEF Tree
    <2> QED  BY <1>5, <2>1, <2>2, RoleOfIs
  <1>7. n.on # NoExpr => s = PlacesOf(nodes)[k].scope /\ n.tag # "for"
    <2>1. n.on # NoExpr => n.tag \notin {"component", "view", "for"}
      BY <1>4 DEF Formed, ElementNames
    <2> QED  BY <1>1, <1>5, <2>1 DEF Tree
  <1>8. n.key # NoExpr <=> n.tag = "for"
    BY <1>4 DEF Formed
  <1>9. n.tag = "for" => s = PlacesOf(nodes)[k].scope
    BY <1>1, <1>5 DEF Tree
  <1>10. PICK t1 : t1 = IF n.expr = NoExpr THEN t ELSE Append(t, BindEntry(nodes, k))
    OBVIOUS
  <1>11. PICK t2 : t2 = IF n.key = NoExpr THEN t1 ELSE Append(t1, KeyEntry(nodes, k))
    OBVIOUS
  <1>12. PICK t3 : t3 = IF n.on = NoExpr THEN t2 ELSE Append(t2, OnEntry(nodes, k))
    OBVIOUS
  <1>13. PICK c : c = Compiled(n, IF n.expr = NoExpr THEN 0 ELSE Len(t1),
                                  IF n.on = NoExpr THEN 0 ELSE Len(t3),
                                  IF n.key = NoExpr THEN 0 ELSE Len(t2))
    OBVIOUS
  <1>14. EmitNode(nodes, e, k) =
           [out |-> Append(o, c), table |-> t3,
            scope |-> IF n.tag = "for" THEN Append(s, n.item) ELSE s]
    <2>1. [e EXCEPT !.scope = s] = [out |-> o, table |-> t, scope |-> s]
      BY <1>2 DEF EmittedTo
    <2>2. PICK r : r = RoleOf(n.tag)
      OBVIOUS
    <2>3. PICK s1 : s1 = Given([out |-> o, table |-> t, scope |-> s], r, n.expr)
      OBVIOUS
    <2>4. s1 = [out |-> o, table |-> t1, scope |-> s]
      <3>1. CASE n.expr = NoExpr
        BY <1>10, <2>3, <3>1 DEF Given
      <3>2. CASE n.expr # NoExpr
        <4>1. BindEntry(nodes, k) = [role |-> r, expr |-> n.expr, scope |-> s] /\ r # "handler"
          BY <1>1, <1>6, <2>2, <3>2 DEF BindEntry
        <4>2. s1 = PutExpression([out |-> o, table |-> t, scope |-> s], r, n.expr)
          BY <2>3, <3>2 DEF Given
        <4> QED  BY <1>10, <3>2, <4>1, <4>2 DEF PutExpression
      <3> QED  BY <3>1, <3>2
    <2>5. PICK s2 : s2 = IF n.tag = "for" THEN PutExpression(Pushed(s1, n.item), "key", n.key)
                         ELSE GivenHandler(s1, n.on)
      OBVIOUS
    <2>6. s2 = [out |-> o, table |-> t3,
                scope |-> IF n.tag = "for" THEN Append(s, n.item) ELSE s]
      <3>1. CASE n.tag = "for"
        <4>1. n.key # NoExpr /\ n.on = NoExpr
          BY <1>7, <1>8, <3>1
        <4>2. KeyEntry(nodes, k) = [role |-> "key", expr |-> n.key, scope |-> Append(s, n.item)]
          BY <1>1, <1>9, <3>1 DEF KeyEntry
        <4>3. Pushed(s1, n.item) = [out |-> o, table |-> t1, scope |-> Append(s, n.item)]
          BY <2>4 DEF Pushed
        <4>4. PutExpression(Pushed(s1, n.item), "key", n.key) =
                [out |-> o, table |-> Append(t1, KeyEntry(nodes, k)), scope |-> Append(s, n.item)]
          <5>1. PICK w : w = Append(s, n.item)
            OBVIOUS
          <5>2. PutExpression([out |-> o, table |-> t1, scope |-> w], "key", n.key) =
                  [out |-> o, table |-> Append(t1, [role |-> "key", expr |-> n.key, scope |-> w]),
                   scope |-> w]
            <6>1. "key" # "handler"
              OBVIOUS
            <6> QED  BY <6>1 DEF PutExpression
          <5> QED  BY <4>2, <4>3, <5>1, <5>2
        <4> QED  BY <1>11, <1>12, <2>5, <3>1, <4>1, <4>4
      <3>2. CASE n.tag # "for" /\ n.on = NoExpr
        BY <1>8, <1>11, <1>12, <2>4, <2>5, <3>2 DEF GivenHandler
      <3>3. CASE n.tag # "for" /\ n.on # NoExpr
        <4>1. OnEntry(nodes, k) =
                [role |-> "handler", expr |-> Handler(n.on, s), scope |-> Append(s, "event")]
          BY <1>1, <1>7, <3>3 DEF OnEntry
        <4>2. s1.scope = s
          BY <2>4
        <4>3. s2 = PutExpression(s1, "handler", Handler(n.on, s))
          BY <2>5, <3>3, <4>2 DEF GivenHandler
        <4>4. s2 = [out |-> o, table |-> Append(t1, OnEntry(nodes, k)), scope |-> s]
          BY <2>4, <4>1, <4>3 DEF PutExpression
        <4> QED  BY <1>8, <1>11, <1>12, <3>3, <4>4
      <3> QED  BY <3>1, <3>2, <3>3
    <2>7. EntryOf(s1, n.expr) = (IF n.expr = NoExpr THEN 0 ELSE Len(t1))
      BY <2>4 DEF EntryOf
    <2>8. EntryOf(s2, n.on) = (IF n.on = NoExpr THEN 0 ELSE Len(t3))
      BY <2>6 DEF EntryOf
    <2>9. EntryOf(s2, n.key) = (IF n.key = NoExpr THEN 0 ELSE Len(t2))
      <3>1. n.key # NoExpr => t3 = t2
        BY <1>7, <1>8, <1>12
      <3> QED  BY <2>6, <3>1 DEF EntryOf
    <2>10. c = Compiled(n, EntryOf(s1, n.expr), EntryOf(s2, n.on), EntryOf(s2, n.key))
      BY <1>13, <2>7, <2>8, <2>9
    <2>11. EmitNode(nodes, e, k) = [s2 EXCEPT !.out = Append(@, c)]
      BY <1>1, <1>3, <2>1, <2>2, <2>3, <2>5, <2>10 DEF EmitNode
    <2> QED  BY <2>6, <2>11
  <1>15. Lists(o) /\ Len(o) = k - 1 /\ Lists(t) /\ \A i \in 1 .. k - 1 : NodeOut(nodes, i, o[i], t)
    BY <1>2 DEF EmittedTo
  <1>16. Extends(t, t1) /\ EntryIs(t1, IF n.expr = NoExpr THEN 0 ELSE Len(t1), n.expr, BindEntry(nodes, k))
    BY <1>10, <1>15, EntryPut
  <1>17. Extends(t1, t2) /\ EntryIs(t2, IF n.key = NoExpr THEN 0 ELSE Len(t2), n.key, KeyEntry(nodes, k))
    <2>1. Lists(t1)
      BY <1>16 DEF Extends
    <2> QED  BY <1>11, <2>1, EntryPut
  <1>18. Extends(t2, t3) /\ EntryIs(t3, IF n.on = NoExpr THEN 0 ELSE Len(t3), n.on, OnEntry(nodes, k))
    <2>1. Lists(t2)
      BY <1>17 DEF Extends
    <2> QED  BY <1>12, <2>1, EntryPut
  <1>19. Lists(t1) /\ Lists(t2) /\ Lists(t3) /\ Extends(t1, t3) /\ Extends(t, t3)
    <2>1. Lists(t1) /\ Lists(t2) /\ Lists(t3)
      BY <1>16, <1>17, <1>18 DEF Extends
    <2>2. Extends(t1, t3)
      BY <1>17, <1>18, <2>1, ExtendsAgain
    <2> QED  BY <1>15, <1>16, <2>1, <2>2, ExtendsAgain
  <1>20. NodeOut(nodes, k, c, t3)
    <2>1. /\ c.bind = (IF n.expr = NoExpr THEN 0 ELSE Len(t1))
          /\ c.on = (IF n.on = NoExpr THEN 0 ELSE Len(t3))
          /\ c.key = (IF n.key = NoExpr THEN 0 ELSE Len(t2))
          /\ c = Compiled(n, c.bind, c.on, c.key)
      BY <1>13 DEF Compiled
    <2>2. EntryIs(t3, c.bind, n.expr, BindEntry(nodes, k))
      BY <1>16, <1>19, <2>1, EntryKept
    <2>3. EntryIs(t3, c.key, n.key, KeyEntry(nodes, k))
      BY <1>17, <1>18, <1>19, <2>1, EntryKept
    <2>4. EntryIs(t3, c.on, n.on, OnEntry(nodes, k))
      BY <1>18, <2>1
    <2> QED  BY <1>1, <2>1, <2>2, <2>3, <2>4 DEF NodeOut
  <1>21. \A i \in 1 .. k - 1 : NodeOut(nodes, i, o[i], t3)
    <2>1. ASSUME NEW i \in 1 .. k - 1 PROVE NodeOut(nodes, i, o[i], t3)
      <3>1. NodeOut(nodes, i, o[i], t)
        BY <1>15
      <3>2. EntryIs(t3, o[i].bind, nodes[i].expr, BindEntry(nodes, i))
        BY <1>15, <1>19, <3>1, EntryKept DEF NodeOut
      <3>3. EntryIs(t3, o[i].on, nodes[i].on, OnEntry(nodes, i))
        BY <1>15, <1>19, <3>1, EntryKept DEF NodeOut
      <3>4. EntryIs(t3, o[i].key, nodes[i].key, KeyEntry(nodes, i))
        BY <1>15, <1>19, <3>1, EntryKept DEF NodeOut
      <3> QED  BY <3>1, <3>2, <3>3, <3>4 DEF NodeOut
    <2> QED  BY <2>1
  <1>22. PICK o2 : o2 = Append(o, c)
    OBVIOUS
  <1>23. Lists(o2) /\ Len(o2) = k /\ o2[k] = c /\ \A i \in 1 .. k - 1 : o2[i] = o[i]
    <2>1. Extends(o, o2) /\ Len(o2) = Len(o) + 1 /\ o2[Len(o) + 1] = c
      BY <1>15, <1>22, Appended
    <2> QED  BY <1>4, <1>15, <2>1 DEF Extends
  <1>24. \A i \in 1 .. k : NodeOut(nodes, i, o2[i], t3)
    <2>1. ASSUME NEW i \in 1 .. k PROVE NodeOut(nodes, i, o2[i], t3)
      <3>1. CASE i = k
        BY <1>20, <1>23, <3>1
      <3>2. CASE i # k
        <4>1. i \in 1 .. k - 1
          BY <1>4, <3>2
        <4> QED  BY <1>21, <1>23, <4>1
      <3> QED  BY <3>1, <3>2
    <2> QED  BY <2>1
  <1>25. (IF n.tag = "for" THEN Append(s, n.item) ELSE s) = ScopeIn(nodes, k)
    <2>1. ScopeIn(nodes, k) = IF n.tag = "component" THEN Props[n.item]
                              ELSE IF n.tag = "view" THEN <<>>
                              ELSE IF n.tag = "for" THEN Append(PlacesOf(nodes)[k].scope, n.item)
                              ELSE PlacesOf(nodes)[k].scope
      BY <1>1, ScopeInIs
    <2>2. n.under = 0 <=> n.tag \in {"component", "view"}
      BY <1>1 DEF Tree
    <2> QED  BY <1>5, <2>1, <2>2
  <1>26. EmitNode(nodes, e, k) = [out |-> o2, table |-> t3, scope |-> ScopeIn(nodes, k)]
    BY <1>14, <1>22, <1>25
  <1> QED  BY <1>4, <1>19, <1>23, <1>24, <1>26 DEF EmittedTo

LEMMA EmitIs ==
    ASSUME NEW nodes, Tree(nodes)
    PROVE  /\ Emit(nodes) = [nodes |-> Emit(nodes).nodes, table |-> Emit(nodes).table]
           /\ Len(Emit(nodes).nodes) = Len(nodes) /\ DOMAIN Emit(nodes).nodes = DOMAIN nodes
           /\ Len(Emit(nodes).table) \in Nat
           /\ \A i \in DOMAIN nodes : NodeOut(nodes, i, Emit(nodes).nodes[i], Emit(nodes).table)
  <1>1. Len(nodes) \in Nat /\ DOMAIN nodes = 1 .. Len(nodes)
    BY DEF Tree
  <1> DEFINE S == {k \in Nat : k <= Len(nodes) => EmittedTo(nodes, Emitting(nodes)[k], k)}
  <1>2. ASSUME NEW k \in Nat, 0 .. k - 1 \subseteq S PROVE k \in S
    <2>1. SUFFICES ASSUME k <= Len(nodes) PROVE EmittedTo(nodes, Emitting(nodes)[k], k)
      OBVIOUS
    <2>2. CASE k = 0
      <3>1. Emitting(nodes)[0] = [out |-> <<>>, table |-> <<>>, scope |-> <<>>]
        BY EmittingStep
      <3>2. Lists(<<>>) /\ Len(<<>>) = 0
        BY DEF Lists
      <3> QED  BY <2>2, <3>1, <3>2 DEF EmittedTo
    <2>3. CASE k # 0
      <3>1. k \in DOMAIN nodes /\ k - 1 \in 0 .. k - 1 /\ k - 1 <= Len(nodes)
        BY <1>1, <2>1, <2>3
      <3>2. EmittedTo(nodes, Emitting(nodes)[k - 1], k - 1)
        BY <1>2, <3>1
      <3>3. Emitting(nodes)[k] = EmitNode(nodes, Emitting(nodes)[k - 1], k)
        BY <2>3, EmittingStep
      <3> QED  BY <3>1, <3>2, <3>3, EmitNodeIs
    <2> QED  BY <2>2, <2>3
  <1>3. S = Nat
    <2>1. S \in SUBSET Nat
      OBVIOUS
    <2> HIDE DEF S
    <2> QED  BY <1>2, <2>1, StrongInduction
  <1>4. PICK e : e = Emitting(nodes)[Len(nodes)]
    OBVIOUS
  <1>5. EmittedTo(nodes, e, Len(nodes))
    BY <1>1, <1>3, <1>4
  <1>6. Emit(nodes) = [nodes |-> e.out, table |-> e.table]
    BY <1>4 DEF Emit
  <1>7. Lists(e.out) /\ Len(e.out) = Len(nodes) /\ Lists(e.table)
        /\ \A i \in DOMAIN nodes : NodeOut(nodes, i, e.out[i], e.table)
    BY <1>1, <1>5 DEF EmittedTo
  <1>8. DOMAIN e.out = DOMAIN nodes /\ Len(e.table) \in Nat
    BY <1>1, <1>7 DEF Lists
  <1> QED  BY <1>6, <1>7, <1>8

-----------------------------------------------------------------------------
(* The validator's context of a node is what the check of the source took  *)
(* for its place, and so the two checks agree.                             *)
ContextOf(place) == Context(place.parent, place.home, place.repeated)
SameTree(nodes, out) ==
    /\ DOMAIN out = DOMAIN nodes /\ Len(out) = Len(nodes)
    /\ \A i \in DOMAIN nodes :
         /\ out[i].tag = nodes[i].tag /\ out[i].ref = nodes[i].ref
         /\ out[i].item = nodes[i].item /\ out[i].under = nodes[i].under

LEMMA NestedContextIs ==
    ASSUME NEW nodes, NEW p \in PlaceType(nodes), NEW n, n.tag \in Tags,
           n.tag = "component" => n.item \in DOMAIN Props,
           NEW m, m.tag = n.tag, m.item = n.item
    PROVE  NestedContext(m, ContextOf(p)) = ContextOf(Nested(n, p))
  <1> DEFINE q == Nested(n, p)
  <1>1. PICK c : c = ContextOf(p) /\ c = [parent |-> p.parent, home |-> p.home, repeated |-> p.repeated]
    BY DEF ContextOf, Context
  <1>2. /\ q.parent = IF n.tag \in {"component", "view"} THEN "box"
                      ELSE IF n.tag \in ElementNames THEN n.tag ELSE p.parent
        /\ q.home = IF n.tag = "component" THEN n.item
                    ELSE IF n.tag = "view" THEN "view" ELSE p.home
        /\ q.repeated = IF n.tag = "component" THEN TRUE
                        ELSE IF n.tag = "view" THEN FALSE
                        ELSE IF n.tag = "for" THEN TRUE ELSE p.repeated
    BY NestedIs
  <1> HIDE DEF q
  <1>3. CASE n.tag = "component"
    <2>1. m.tag = "component" /\ m.tag # "view" /\ m.tag # "for" /\ m.tag \notin ElementNames
          /\ m.tag \notin Transparent
      BY <1>3, PropsAre DEF ElementNames, Transparent, Branches
    <2>2. NestedContext(m, c) = Context("box", m.item, TRUE)
      BY <2>1, Zenon DEF NestedContext
    <2>3. q.parent = "box" /\ q.home = m.item /\ q.repeated = TRUE
      BY <1>2, <1>3
    <2> QED  BY <1>1, <2>2, <2>3 DEF ContextOf, q
  <1>4. CASE n.tag = "view"
    <2>1. m.tag = "view" /\ m.tag # "component" /\ m.tag # "for" /\ m.tag \notin ElementNames
          /\ m.tag \notin Transparent
      BY <1>4, PropsAre DEF ElementNames, Transparent, Branches
    <2>2. NestedContext(m, c) = Context("box", "view", FALSE)
      BY <2>1, Zenon DEF NestedContext
    <2>3. q.parent = "box" /\ q.home = "view" /\ q.repeated = FALSE
      BY <1>2, <1>4
    <2> QED  BY <1>1, <2>2, <2>3 DEF ContextOf, q
  <1>5. CASE n.tag = "for"
    <2>1. m.tag = "for" /\ m.tag # "component" /\ m.tag # "view" /\ m.tag \notin ElementNames
          /\ m.tag \notin Transparent
      BY <1>5, PropsAre DEF ElementNames, Transparent, Branches
    <2>2. NestedContext(m, c) = [c EXCEPT !.repeated = TRUE]
      BY <2>1, Zenon DEF NestedContext
    <2>3. q.parent = p.parent /\ q.home = p.home /\ q.repeated = TRUE
      BY <1>2, <1>5, <2>1
    <2>4. [c EXCEPT !.repeated = TRUE] = Context(p.parent, p.home, TRUE)
      <3>1. PICK a, h, r : a = p.parent /\ h = p.home /\ r = p.repeated
        OBVIOUS
      <3>2. \A v : [[parent |-> a, home |-> h, repeated |-> r] EXCEPT !.repeated = v] = Context(a, h, v)
        BY DEF Context
      <3> QED  BY <1>1, <3>1, <3>2
    <2> QED  BY <1>1, <2>2, <2>3, <2>4 DEF ContextOf, q
  <1>6. CASE n.tag \in ElementNames
    <2>1. m.tag \in ElementNames /\ m.tag # "component" /\ m.tag # "view" /\ m.tag # "for"
          /\ m.tag \notin Transparent
      BY <1>6, PropsAre DEF ElementNames, Transparent, Branches
    <2>2. NestedContext(m, c) = [c EXCEPT !.parent = m.tag]
      BY <2>1, Zenon DEF NestedContext
    <2>3. q.parent = m.tag /\ q.home = p.home /\ q.repeated = p.repeated
      BY <1>2, <1>6, <2>1
    <2>4. [c EXCEPT !.parent = m.tag] = Context(m.tag, p.home, p.repeated)
      BY <1>1 DEF Context
    <2> QED  BY <1>1, <2>2, <2>3, <2>4 DEF ContextOf, q
  <1>7. CASE n.tag \in Transparent
    <2>1. m.tag \in Transparent /\ m.tag # "component" /\ m.tag # "view" /\ m.tag # "for"
          /\ m.tag \notin ElementNames
      BY <1>7, PropsAre DEF ElementNames, Transparent, Branches
    <2>2. NestedContext(m, c) = c
      BY <2>1, Zenon DEF NestedContext
    <2>3. q.parent = p.parent /\ q.home = p.home /\ q.repeated = p.repeated
      BY <1>2, <2>1
    <2> QED  BY <1>1, <2>2, <2>3 DEF ContextOf, q
  <1> QED  BY <1>3, <1>4, <1>5, <1>6, <1>7, PropsAre DEF Tags, ElementNames, Transparent, Branches

LEMMA ContextsAre ==
    ASSUME NEW nodes, Tree(nodes), NEW out, SameTree(nodes, out)
    PROVE  \A i \in DOMAIN nodes : Contexts(out)[i] = ContextOf(PlacesOf(nodes)[i])
  <1> DEFINE S == {i \in DOMAIN nodes : Contexts(out)[i] = ContextOf(PlacesOf(nodes)[i])}
  <1>1. /\ Len(out) \in Nat /\ DOMAIN out = 1 .. Len(out) /\ DOMAIN out = DOMAIN nodes
        /\ \A i \in DOMAIN out : out[i].under \in 0 .. i - 1
    BY DEF Tree, SameTree
  <1>2. ASSUME NEW i \in DOMAIN nodes, nodes[i].under = 0 \/ nodes[i].under \in S PROVE i \in S
    <2>1. Contexts(out)[i] = IF out[i].under = 0 THEN Context("none", "", FALSE)
                             ELSE NestedContext(out[out[i].under], Contexts(out)[out[i].under])
      BY <1>1, ContextOfNode
    <2>2. PlacesOf(nodes)[i] = IF nodes[i].under = 0 THEN Outside
                               ELSE Nested(nodes[nodes[i].under], PlacesOf(nodes)[nodes[i].under])
      BY PlaceOfNode
    <2>3. PICK u : u = nodes[i].under /\ u = out[i].under
      BY DEF SameTree
    <2>4. CASE u = 0
      <3>1. ContextOf(Outside) = Context("none", "", FALSE)
        BY DEF ContextOf, Outside, Place
      <3> QED  BY <2>1, <2>2, <2>3, <2>4, <3>1
    <2>5. CASE u # 0
      <3>1. u \in DOMAIN nodes /\ Contexts(out)[u] = ContextOf(PlacesOf(nodes)[u])
        BY <1>2, <2>3, <2>5
      <3>2. PlacesOf(nodes)[u] \in PlaceType(nodes)
        BY <3>1, PlaceTyped
      <3>3. Formed(nodes[u]) /\ out[u].tag = nodes[u].tag /\ out[u].item = nodes[u].item
        BY <3>1 DEF Tree, SameTree
      <3>4. NestedContext(out[u], ContextOf(PlacesOf(nodes)[u])) = ContextOf(Nested(nodes[u], PlacesOf(nodes)[u]))
        BY <3>2, <3>3, NestedContextIs DEF Formed
      <3> QED  BY <2>1, <2>2, <2>3, <2>5, <3>1, <3>4
    <2> QED  BY <2>4, <2>5
  <1>3. S = DOMAIN nodes
    <2>1. S \in SUBSET DOMAIN nodes
      OBVIOUS
    <2> HIDE DEF S
    <2> QED  BY <1>2, <2>1, NodeInduction
  <1> QED  BY <1>3

LEMMA EmittedTree ==
    ASSUME NEW nodes, Tree(nodes)
    PROVE  /\ SameTree(nodes, Emit(nodes).nodes)
           /\ \A i \in DOMAIN nodes : LET n == Emit(nodes).nodes[i] IN
                /\ {n.bind, n.on, n.key} \subseteq 0 .. Len(Emit(nodes).table)
                /\ n.bind = 0 <=> nodes[i].expr = NoExpr
                /\ n.key = 0 <=> nodes[i].key = NoExpr
  <1>1. PICK o, t : o = Emit(nodes).nodes /\ t = Emit(nodes).table
    OBVIOUS
  <1>2. DOMAIN o = DOMAIN nodes /\ Len(o) = Len(nodes) /\ \A i \in DOMAIN nodes : NodeOut(nodes, i, o[i], t)
    BY <1>1, EmitIs
  <1>3. ASSUME NEW i \in DOMAIN nodes
        PROVE  /\ o[i].tag = nodes[i].tag /\ o[i].ref = nodes[i].ref
               /\ o[i].item = nodes[i].item /\ o[i].under = nodes[i].under
               /\ {o[i].bind, o[i].on, o[i].key} \subseteq 0 .. Len(t)
               /\ o[i].bind = 0 <=> nodes[i].expr = NoExpr
               /\ o[i].key = 0 <=> nodes[i].key = NoExpr
    <2>1. PICK b, h, k : b = o[i].bind /\ h = o[i].on /\ k = o[i].key
      OBVIOUS
    <2>2. o[i] = Compiled(nodes[i], b, h, k)
      BY <1>2, <2>1 DEF NodeOut
    <2>3. /\ o[i].tag = nodes[i].tag /\ o[i].ref = nodes[i].ref
          /\ o[i].item = nodes[i].item /\ o[i].under = nodes[i].under
      BY <2>2 DEF Compiled
    <2>4. /\ o[i].bind \in 0 .. Len(t) /\ o[i].on \in 0 .. Len(t) /\ o[i].key \in 0 .. Len(t)
          /\ o[i].bind = 0 <=> nodes[i].expr = NoExpr
          /\ o[i].key = 0 <=> nodes[i].key = NoExpr
      BY <1>2 DEF NodeOut, EntryIs
    <2> QED  BY <2>3, <2>4
  <1> QED  BY <1>1, <1>2, <1>3 DEF SameTree

LEMMA SameChildren ==
    ASSUME NEW nodes, NEW out, SameTree(nodes, out), NEW i
    PROVE  /\ Children(out, i) = Children(nodes, i)
           /\ \A j \in DOMAIN nodes : i \in DOMAIN nodes /\ Tree(nodes) =>
                Precedes(out, j, i) <=> Precedes(nodes, j, i)
  <1>1. Children(out, i) = Children(nodes, i)
    BY DEF SameTree, Children
  <1>2. ASSUME NEW j \in DOMAIN nodes, i \in DOMAIN nodes, Tree(nodes)
        PROVE  Precedes(out, j, i) <=> Precedes(nodes, j, i)
    <2>1. \A k \in j + 1 .. i - 1 : k \in DOMAIN nodes
      BY <1>2 DEF Tree
    <2> QED  BY <1>2, <2>1 DEF SameTree, Precedes
  <1> QED  BY <1>1, <1>2

(* What the check of the source asked of a node, by its tag.               *)
LEMMA Checked ==
    ASSUME NEW nodes, NEW i \in DOMAIN nodes, NEW p, CheckNode(nodes, i, p), nodes[i].tag \in Tags
    PROVE  /\ nodes[i].tag \in Branches => CheckBranch(nodes, i, p)
           /\ nodes[i].tag = "for" => CheckFor(nodes[i], p)
           /\ nodes[i].tag = "slot" =>
                p.home \in DOMAIN Props /\ p.parent = "box" /\ Children(nodes, i) = {}
           /\ nodes[i].tag \in ElementNames => CheckElement(nodes, i, p)
           /\ nodes[i].tag \in DOMAIN Props => CheckUse(nodes[i], p)
  <1> DEFINE tag == nodes[i].tag
  <1>1. ASSUME tag \in Branches PROVE CheckBranch(nodes, i, p)
    <2>1. tag \notin {"component", "view"} /\ tag # "for" /\ tag # "slot" /\ tag \notin ElementNames
          /\ tag \notin DOMAIN Props
      BY <1>1, PropsAre DEF ElementNames, Branches
    <2> QED  BY <1>1, <2>1, Zenon DEF CheckNode
  <1>2. ASSUME tag = "for" PROVE CheckFor(nodes[i], p)
    <2>1. tag \notin {"component", "view"} /\ tag \notin Branches /\ tag # "slot" /\ tag \notin ElementNames
          /\ tag \notin DOMAIN Props
      BY <1>2, PropsAre DEF ElementNames, Branches
    <2> QED  BY <1>2, <2>1, Zenon DEF CheckNode
  <1>3. ASSUME tag = "slot"
        PROVE  p.home \in DOMAIN Props /\ p.parent = "box" /\ Children(nodes, i) = {}
    <2>1. tag \notin {"component", "view"} /\ tag \notin Branches /\ tag # "for" /\ tag \notin ElementNames
          /\ tag \notin DOMAIN Props
      BY <1>3, PropsAre DEF ElementNames, Branches
    <2> QED  BY <1>3, <2>1, Zenon DEF CheckNode
  <1>4. ASSUME tag \in ElementNames PROVE CheckElement(nodes, i, p)
    <2>1. tag \notin {"component", "view"} /\ tag \notin Branches /\ tag # "for" /\ tag # "slot"
          /\ tag \notin DOMAIN Props
      BY <1>4, PropsAre DEF ElementNames, Branches
    <2> QED  BY <1>4, <2>1, Zenon DEF CheckNode
  <1>5. ASSUME tag \in DOMAIN Props PROVE CheckUse(nodes[i], p)
    <2>1. tag \notin {"component", "view"} /\ tag \notin Branches /\ tag # "for" /\ tag # "slot"
          /\ tag \notin ElementNames
      BY <1>5, PropsAre DEF ElementNames, Branches
    <2> QED  BY <1>5, <2>1, Zenon DEF CheckNode
  <1> QED  BY <1>1, <1>2, <1>3, <1>4, <1>5

LEMMA NodeIsValid ==
    ASSUME NEW json, NEW i, NEW c, json.nodes[i].tag \in Tags,
           {json.nodes[i].bind, json.nodes[i].on, json.nodes[i].key} \subseteq 0 .. Len(json.table),
           json.nodes[i].tag \in Branches => ValidBranch(json.nodes, i),
           json.nodes[i].tag = "for" => json.nodes[i].bind > 0 /\ json.nodes[i].key > 0,
           json.nodes[i].tag = "slot" =>
             c.home \in DOMAIN Props /\ c.parent = "box" /\ Children(json.nodes, i) = {},
           json.nodes[i].tag \in ElementNames => ValidElement(json.nodes, i, c),
           json.nodes[i].tag \in DOMAIN Props =>
             /\ c.parent = "box"
             /\ json.nodes[i].bind > 0 => json.nodes[i].item \in Range(Props[json.nodes[i].tag])
    PROVE  ValidNode(json, i, c)
  <1> DEFINE tag == json.nodes[i].tag
  <1>1. CASE tag \in {"component", "view"}
    <2>1. tag \notin Branches /\ tag # "for" /\ tag # "slot" /\ tag \notin ElementNames
          /\ tag \notin DOMAIN Props
      BY <1>1, PropsAre DEF ElementNames, Branches
    <2> QED  BY <1>1, <2>1, Zenon DEF ValidNode
  <1>2. CASE tag \in Branches
    <2>1. tag \notin {"component", "view"} /\ tag # "for" /\ tag # "slot" /\ tag \notin ElementNames
          /\ tag \notin DOMAIN Props
      BY <1>2, PropsAre DEF ElementNames, Branches
    <2> QED  BY <1>2, <2>1, Zenon DEF ValidNode
  <1>3. CASE tag = "for"
    <2>1. tag \notin {"component", "view"} /\ tag \notin Branches /\ tag # "slot" /\ tag \notin ElementNames
          /\ tag \notin DOMAIN Props
      BY <1>3, PropsAre DEF ElementNames, Branches
    <2> QED  BY <1>3, <2>1, Zenon DEF ValidNode
  <1>4. CASE tag = "slot"
    <2>1. tag \notin {"component", "view"} /\ tag \notin Branches /\ tag # "for" /\ tag \notin ElementNames
          /\ tag \notin DOMAIN Props
      BY <1>4, PropsAre DEF ElementNames, Branches
    <2> QED  BY <1>4, <2>1, Zenon DEF ValidNode
  <1>5. CASE tag \in ElementNames
    <2>1. tag \notin {"component", "view"} /\ tag \notin Branches /\ tag # "for" /\ tag # "slot"
          /\ tag \notin DOMAIN Props
      BY <1>5, PropsAre DEF ElementNames, Branches
    <2> QED  BY <1>5, <2>1, Zenon DEF ValidNode
  <1>6. CASE tag \in DOMAIN Props
    <2>1. tag \notin {"component", "view"} /\ tag \notin Branches /\ tag # "for" /\ tag # "slot"
          /\ tag \notin ElementNames
      BY <1>6, PropsAre DEF ElementNames, Branches
    <2> QED  BY <1>6, <2>1, Zenon DEF ValidNode
  <1> QED  BY <1>1, <1>2, <1>3, <1>4, <1>5, <1>6, PropsAre DEF Tags, ElementNames, Branches

LEMMA CheckedIsValid ==
    ASSUME NEW nodes, Tree(nodes), CheckDocument(nodes)
    PROVE  ValidView(Emit(nodes))
  <1>1. PICK json : json = Emit(nodes)
    OBVIOUS
  <1>2. PICK o, places, contexts : o = json.nodes /\ places = PlacesOf(nodes) /\ contexts = Contexts(o)
    OBVIOUS
  <1>3. SameTree(nodes, o)
    BY <1>1, <1>2, EmittedTree
  <1>4. \A i \in DOMAIN nodes :
          /\ {o[i].bind, o[i].on, o[i].key} \subseteq 0 .. Len(json.table)
          /\ o[i].bind = 0 <=> nodes[i].expr = NoExpr
          /\ o[i].key = 0 <=> nodes[i].key = NoExpr
    BY <1>1, <1>2, EmittedTree
  <1>5. \A i \in DOMAIN nodes : contexts[i] = ContextOf(places[i])
    BY <1>2, <1>3, ContextsAre
  <1>6. /\ \A i \in DOMAIN nodes : CheckNode(nodes, i, places[i])
        /\ OneSlot(nodes, places) /\ RefsUnique(nodes)
    BY <1>2 DEF CheckDocument
  <1>7. \A i \in DOMAIN nodes :
          /\ contexts[i].parent = places[i].parent /\ contexts[i].home = places[i].home
          /\ contexts[i].repeated = places[i].repeated
    <2>1. ASSUME NEW i \in DOMAIN nodes
          PROVE  /\ contexts[i].parent = places[i].parent /\ contexts[i].home = places[i].home
                 /\ contexts[i].repeated = places[i].repeated
      <3>1. PICK a, h, r : a = places[i].parent /\ h = places[i].home /\ r = places[i].repeated
        OBVIOUS
      <3>2. contexts[i] = [parent |-> a, home |-> h, repeated |-> r]
        BY <1>5, <3>1 DEF ContextOf, Context
      <3> QED  BY <3>1, <3>2
    <2> QED  BY <2>1
  <1>8. ASSUME NEW i \in DOMAIN nodes PROVE ValidNode(json, i, contexts[i])
    <2>1. Formed(nodes[i]) /\ o[i].tag = nodes[i].tag /\ nodes[i].tag \in Tags
      BY <1>3 DEF Tree, SameTree, Formed
    <2>2. /\ nodes[i].tag \in Branches => CheckBranch(nodes, i, places[i])
          /\ nodes[i].tag = "slot" =>
               places[i].home \in DOMAIN Props /\ places[i].parent = "box" /\ Children(nodes, i) = {}
          /\ nodes[i].tag \in ElementNames => CheckElement(nodes, i, places[i])
          /\ nodes[i].tag \in DOMAIN Props => CheckUse(nodes[i], places[i])
      BY <1>6, <2>1, Checked
    <2>3. o[i].tag \in Branches => ValidBranch(o, i)
      <3>1. SUFFICES ASSUME o[i].tag \in Branches, o[i].tag # "if"
                     PROVE  \E j \in DOMAIN o :
                              Precedes(o, j, i) /\ o[j].tag \in Branches /\ o[j].bind > 0
        BY DEF ValidBranch
      <3>2. PICK j \in DOMAIN nodes : Precedes(nodes, j, i) /\ nodes[j].tag \in {"if", "else-if"}
        BY <2>1, <2>2, <3>1 DEF CheckBranch
      <3>3. nodes[j].expr # NoExpr /\ o[j].tag \in Branches
        BY <1>3, <3>2 DEF Tree, Formed, SameTree, Branches
      <3>4. o[j].bind \in Nat /\ o[j].bind # 0
        BY <1>4, <3>3
      <3>5. Precedes(o, j, i) /\ j \in DOMAIN o
        BY <1>3, <3>2, SameChildren DEF SameTree
      <3> QED  BY <3>3, <3>4, <3>5
    <2>4. o[i].tag = "for" => o[i].bind > 0 /\ o[i].key > 0
      <3>1. o[i].bind \in Nat /\ o[i].key \in Nat
        BY <1>4
      <3>2. o[i].tag = "for" => o[i].bind # 0 /\ o[i].key # 0
        BY <1>4, <2>1 DEF Formed
      <3> QED  BY <3>1, <3>2
    <2>5. o[i].tag = "slot" =>
            contexts[i].home \in DOMAIN Props /\ contexts[i].parent = "box" /\ Children(o, i) = {}
      <3>1. Children(o, i) = Children(nodes, i)
        BY <1>3, SameChildren DEF SameTree
      <3> QED  BY <1>7, <2>1, <2>2, <3>1
    <2>6. o[i].tag \in ElementNames => ValidElement(o, i, contexts[i])
      <3>1. SUFFICES ASSUME nodes[i].tag \in ElementNames PROVE ValidElement(o, i, contexts[i])
        BY <2>1
      <3>2. /\ Accepts(places[i].parent, nodes[i].tag)
            /\ nodes[i].ref # NoRef => ~places[i].repeated
            /\ Children(nodes, i) # {} => nodes[i].tag \in {"box", "text"}
        BY <2>2, <3>1 DEF CheckElement
      <3>3. Children(o, i) = Children(nodes, i) /\ o[i].ref = nodes[i].ref
        BY <1>3, SameChildren DEF SameTree
      <3>4. contexts[i].parent = places[i].parent /\ (contexts[i].repeated <=> places[i].repeated)
        BY <1>7
      <3> QED  BY <2>1, <3>2, <3>3, <3>4 DEF ValidElement
    <2>7. o[i].tag \in DOMAIN Props =>
            /\ contexts[i].parent = "box"
            /\ o[i].bind > 0 => o[i].item \in Range(Props[o[i].tag])
      <3>1. SUFFICES ASSUME nodes[i].tag \in DOMAIN Props
                     PROVE  /\ contexts[i].parent = "box"
                            /\ o[i].bind > 0 => o[i].item \in Range(Props[o[i].tag])
        BY <2>1
      <3>2. contexts[i].parent = "box"
        BY <1>7, <2>2, <3>1 DEF CheckUse
      <3>3. o[i].bind > 0 => nodes[i].expr # NoExpr
        BY <1>4
      <3>4. o[i].bind > 0 => nodes[i].item # ""
        BY <2>1, <3>1, <3>3 DEF Formed
      <3>5. nodes[i].item = o[i].item
        BY <1>3 DEF SameTree
      <3> QED  BY <2>1, <2>2, <3>1, <3>2, <3>4, <3>5 DEF CheckUse
    <2> QED  BY <1>2, <1>4, <2>1, <2>3, <2>4, <2>5, <2>6, <2>7, NodeIsValid
  <1>9. OneSlot(o, contexts)
    BY <1>3, <1>6, <1>7 DEF OneSlot, SameTree
  <1>10. RefsUnique(o)
    BY <1>3, <1>6 DEF RefsUnique, SameTree
  <1>11. DOMAIN o = DOMAIN nodes
    BY <1>3 DEF SameTree
  <1> QED  BY <1>1, <1>2, <1>8, <1>9, <1>10, <1>11 DEF ValidView

-----------------------------------------------------------------------------
(* What the author writes is such a tree.                                  *)
NodeRecord(n) ==
    n = [tag |-> n.tag, ref |-> n.ref, expr |-> n.expr, on |-> n.on, item |-> n.item,
         key |-> n.key, under |-> n.under]
TreeInv ==
    /\ view = [nodes |-> view.nodes, left |-> view.left]
    /\ Tree(view.nodes) /\ Lists(view.nodes) /\ TreeTypeOK

LEMMA TagIs ==
    ASSUME NEW name
    PROVE  Tag(name) = [tag |-> name, ref |-> NoRef, expr |-> NoExpr, on |-> NoExpr, item |-> "",
                        key |-> NoExpr, under |-> 0]
  BY DEF Tag

LEMMA DeclaredIs ==
    ASSUME NEW c
    PROVE  Declared(c) = [tag |-> "component", ref |-> NoRef, expr |-> NoExpr, on |-> NoExpr,
                          item |-> c, key |-> NoExpr, under |-> 0]
  <1>1. PICK m : m = Declared(c)
    OBVIOUS
  <1>2. m = [tag |-> "component", ref |-> NoRef, expr |-> NoExpr, on |-> NoExpr,
             item |-> c, key |-> NoExpr, under |-> 0]
    BY <1>1, TagIs DEF Declared
  <1> QED  BY <1>1, <1>2

LEMMA ExprsDiffer ==
    ASSUME NEW name
    PROVE  ReadsName(name) # NoExpr /\ CallsName(name, {}) # NoExpr
  <1>1. {name} # {}
    OBVIOUS
  <1>2. ReadsName(name).reads # NoExpr.reads
    BY <1>1 DEF ReadsName, NoExpr
  <1>3. CallsName(name, {}).calls # NoExpr.calls
    BY <1>1 DEF CallsName, NoExpr
  <1> QED  BY <1>2, <1>3

FormGood(n) ==
    /\ NodeRecord(n) /\ n.under = 0
    /\ \A i : NodeRecord([n EXCEPT !.under = i]) /\ Formed([n EXCEPT !.under = i])

LEMMA FormsAre ==
    ASSUME NEW n \in Forms \cup {Tag("view")} \cup {Declared(c) : c \in DOMAIN Props}
    PROVE  /\ FormGood(n)
           /\ n.tag \in {"component", "view"} <=> n \notin Forms
  <1>1. ASSUME NEW m, NEW name, NEW ref, NEW expr, NEW on, NEW item, NEW key,
               m = [tag |-> name, ref |-> ref, expr |-> expr, on |-> on, item |-> item,
                    key |-> key, under |-> 0],
               Formed(m)
        PROVE  FormGood(m) /\ m.tag = name
    <2>1. \A i : [m EXCEPT !.under = i] =
                   [tag |-> name, ref |-> ref, expr |-> expr, on |-> on, item |-> item,
                    key |-> key, under |-> i]
      BY <1>1
    <2> QED  BY <1>1, <2>1 DEF NodeRecord, Formed, FormGood
  <1>2. ASSUME NEW name \in {"box", "span", "slot", "else", "c1", "c2", "text", "view"}
        PROVE  FormGood(Tag(name)) /\ Tag(name).tag = name
    <2>1. Formed(Tag(name))
      BY TagIs, PropsAre DEF Formed, Tags, ElementNames
    <2> QED  BY <1>1, <2>1, TagIs
  <1>3. ASSUME NEW c \in DOMAIN Props PROVE FormGood(Declared(c)) /\ Declared(c).tag = "component"
    <2>1. Declared(c) = [tag |-> "component", ref |-> NoRef, expr |-> NoExpr, on |-> NoExpr,
                         item |-> c, key |-> NoExpr, under |-> 0]
      BY DeclaredIs
    <2>2. Formed(Declared(c))
      BY <2>1, PropsAre DEF Formed, Tags, ElementNames
    <2> QED  BY <1>1, <2>1, <2>2
  <1>4. FormGood([Tag("text") EXCEPT !.ref = "r"]) /\ [Tag("text") EXCEPT !.ref = "r"].tag = "text"
    <2>1. PICK m : m = [Tag("text") EXCEPT !.ref = "r"]
      OBVIOUS
    <2>2. m = [tag |-> "text", ref |-> "r", expr |-> NoExpr, on |-> NoExpr,
               item |-> "", key |-> NoExpr, under |-> 0]
      BY <2>1, TagIs
    <2>3. Formed(m)
      BY <2>2, PropsAre DEF Formed, Tags, ElementNames
    <2>4. FormGood(m) /\ m.tag = "text"
      BY <1>1, <2>2, <2>3
    <2> QED  BY <2>1, <2>4, Zenon
  <1>5. ASSUME NEW expr, expr # NoExpr, NEW name \in {"icon", "if"}
        PROVE  FormGood([Tag(name) EXCEPT !.expr = expr]) /\ [Tag(name) EXCEPT !.expr = expr].tag = name
    <2>1. PICK m : m = [Tag(name) EXCEPT !.expr = expr]
      OBVIOUS
    <2>2. m = [tag |-> name, ref |-> NoRef, expr |-> expr, on |-> NoExpr,
               item |-> "", key |-> NoExpr, under |-> 0]
      BY <2>1, TagIs
    <2>3. Formed(m)
      BY <1>5, <2>2, PropsAre DEF Formed, Tags, ElementNames
    <2>4. FormGood(m) /\ m.tag = name
      BY <1>1, <2>2, <2>3
    <2> QED  BY <2>1, <2>4, Zenon
  <1>6. ASSUME NEW expr, expr # NoExpr
        PROVE  FormGood([Tag("icon") EXCEPT !.on = expr]) /\ [Tag("icon") EXCEPT !.on = expr].tag = "icon"
    <2>1. PICK m : m = [Tag("icon") EXCEPT !.on = expr]
      OBVIOUS
    <2>2. m = [tag |-> "icon", ref |-> NoRef, expr |-> NoExpr, on |-> expr,
               item |-> "", key |-> NoExpr, under |-> 0]
      BY <2>1, TagIs
    <2>3. Formed(m)
      BY <1>6, <2>2, PropsAre DEF Formed, Tags, ElementNames
    <2>4. FormGood(m) /\ m.tag = "icon"
      BY <1>1, <2>2, <2>3
    <2> QED  BY <2>1, <2>4, Zenon
  <1>7. ASSUME NEW expr, expr # NoExpr
        PROVE  /\ FormGood([Tag("c1") EXCEPT !.item = "x", !.expr = expr])
               /\ [Tag("c1") EXCEPT !.item = "x", !.expr = expr].tag = "c1"
    <2>1. PICK m : m = [Tag("c1") EXCEPT !.item = "x", !.expr = expr]
      OBVIOUS
    <2>2. m = [tag |-> "c1", ref |-> NoRef, expr |-> expr, on |-> NoExpr,
               item |-> "x", key |-> NoExpr, under |-> 0]
      BY <2>1, TagIs
    <2>3. Formed(m)
      <3>1. "x" # ""
        OBVIOUS
      <3> QED  BY <1>7, <2>2, <3>1, PropsAre DEF Formed, Tags, ElementNames
    <2>4. FormGood(m) /\ m.tag = "c1"
      BY <1>1, <2>2, <2>3
    <2> QED  BY <2>1, <2>4, Zenon
  <1>8. ASSUME NEW item, NEW key PROVE FormGood(Repeat(item, key)) /\ Repeat(item, key).tag = "for"
    <2>1. PICK m : m = Repeat(item, key)
      OBVIOUS
    <2>2. m = [tag |-> "for", ref |-> NoRef, expr |-> ReadsName("state"), on |-> NoExpr,
               item |-> item, key |-> ReadsName(key), under |-> 0]
      BY <2>1, TagIs DEF Repeat
    <2>3. Formed(m)
      BY <2>2, PropsAre, ExprsDiffer DEF Formed, Tags, ElementNames
    <2>4. FormGood(m) /\ m.tag = "for"
      BY <1>1, <2>2, <2>3
    <2> QED  BY <2>1, <2>4, Zenon
  <1>9. ASSUME NEW m \in Forms PROVE FormGood(m) /\ m.tag \notin {"component", "view"}
    <2> DEFINE Plain == {Tag(name) : name \in {"box", "span", "slot", "else", "c1", "c2"}}
    <2> DEFINE Named == {[Tag("text") EXCEPT !.ref = "r"]}
    <2> DEFINE Reading == {[Tag("icon") EXCEPT !.expr = ReadsName(name)] : name \in NamesTried}
    <2> DEFINE Calling == {[Tag("icon") EXCEPT !.expr = CallsName(name, {})] : name \in ScopeNames}
    <2> DEFINE Handling == {[Tag("icon") EXCEPT !.on = ReadsName(name)] : name \in NamesTried}
    <2> DEFINE Testing == {[Tag("if") EXCEPT !.expr = ReadsName("state")]}
    <2> DEFINE Using == {[Tag("c1") EXCEPT !.item = "x", !.expr = ReadsName(name)] : name \in ScopeNames}
    <2> DEFINE Repeating == {Repeat(names[1], names[2]) : names \in ScopeNames \X ScopeNames}
    <2> HIDE DEF Plain, Named, Reading, Calling, Handling, Testing, Using, Repeating
    <2>1. CASE m \in Plain
      <3> QED  BY <1>2, <2>1 DEF Plain
    <2>2. CASE m \in Named
      <3> QED  BY <1>4, <2>2 DEF Named
    <2>3. CASE m \in Reading
      <3>1. PICK name : m = [Tag("icon") EXCEPT !.expr = ReadsName(name)]
        BY <2>3 DEF Reading
      <3>2. PICK expr : expr = ReadsName(name) /\ expr # NoExpr
        BY ExprsDiffer
      <3> QED  BY <1>5, <3>1, <3>2
    <2>4. CASE m \in Calling
      <3>1. PICK name : m = [Tag("icon") EXCEPT !.expr = CallsName(name, {})]
        BY <2>4 DEF Calling
      <3>2. PICK expr : expr = CallsName(name, {}) /\ expr # NoExpr
        BY ExprsDiffer
      <3> QED  BY <1>5, <3>1, <3>2
    <2>5. CASE m \in Handling
      <3>1. PICK name : m = [Tag("icon") EXCEPT !.on = ReadsName(name)]
        BY <2>5 DEF Handling
      <3>2. PICK expr : expr = ReadsName(name) /\ expr # NoExpr
        BY ExprsDiffer
      <3> QED  BY <1>6, <3>1, <3>2
    <2>6. CASE m \in Testing
      <3>1. PICK expr, name : expr = ReadsName("state") /\ expr # NoExpr /\ name = "if"
        BY ExprsDiffer
      <3>2. FormGood([Tag(name) EXCEPT !.expr = expr]) /\ [Tag(name) EXCEPT !.expr = expr].tag = name
        BY <1>5, <3>1, Zenon
      <3>3. m = [Tag(name) EXCEPT !.expr = expr] /\ name \notin {"component", "view"}
        BY <2>6, <3>1, Zenon DEF Testing
      <3> QED  BY <3>2, <3>3, Zenon
    <2>7. CASE m \in Using
      <3>1. PICK name : m = [Tag("c1") EXCEPT !.item = "x", !.expr = ReadsName(name)]
        BY <2>7 DEF Using
      <3>2. PICK expr : expr = ReadsName(name) /\ expr # NoExpr
        BY ExprsDiffer
      <3>3. FormGood(m) /\ m.tag = "c1"
        BY <1>7, <3>1, <3>2, Zenon
      <3> QED  BY <3>3
    <2>8. CASE m \in Repeating
      <3>1. PICK item, key : m = Repeat(item, key)
        BY <2>8 DEF Repeating
      <3> QED  BY <1>8, <3>1
    <2>9. Forms = Plain \cup Named \cup Reading \cup Calling
                  \cup Handling \cup Testing \cup Using \cup Repeating
      BY Zenon DEF Forms, Plain, Named, Reading, Calling, Handling, Testing, Using, Repeating
    <2> QED  BY <2>1, <2>2, <2>3, <2>4, <2>5, <2>6, <2>7, <2>8, <2>9
  <1>10. FormGood(n) /\ (n.tag \in {"component", "view"} <=> n \notin Forms)
    <2>1. CASE n \in Forms
      BY <1>9, <2>1
    <2>2. CASE n \notin Forms
      BY <1>2, <1>3, <2>2
    <2> QED  BY <2>1, <2>2
  <1> QED  BY <1>10

(* A node written in a tree leaves it one.                                 *)
LEMMA TreeGrows ==
    ASSUME NEW nodes, Tree(nodes), Lists(nodes), NEW n, Formed(n),
           n.under = 0 <=> n.tag \in {"component", "view"},
           n.under = 0 \/ Open(nodes, n.under)
    PROVE  Tree(Append(nodes, n)) /\ Lists(Append(nodes, n))
  <1>1. PICK more : more = Append(nodes, n)
    OBVIOUS
  <1>2. PICK size \in Nat : size = Len(nodes) /\ DOMAIN nodes = 1 .. size
    BY DEF Tree
  <1>3. /\ Lists(more) /\ Len(more) = size + 1 /\ more[size + 1] = n
        /\ \A i \in 1 .. size : more[i] = nodes[i]
    BY <1>1, <1>2, Appended DEF Extends
  <1>4. DOMAIN more = 1 .. size + 1
    BY <1>3 DEF Lists
  <1>5. n.under \in 0 .. size /\ \A j \in n.under + 1 .. size : nodes[j].under >= n.under
    <2>1. CASE n.under = 0
      BY <1>2, <2>1 DEF Tree
    <2>2. CASE n.under # 0
      BY <1>2, <2>2 DEF Open
    <2> QED  BY <2>1, <2>2
  <1>6. ASSUME NEW i \in 1 .. size + 1
        PROVE  /\ Formed(more[i]) /\ more[i].under \in 0 .. i - 1
               /\ more[i].under = 0 <=> more[i].tag \in {"component", "view"}
               /\ \A j \in more[i].under + 1 .. i - 1 : more[j].under >= more[i].under
    <2>1. CASE i = size + 1
      <3>1. more[i] = n /\ i - 1 = size
        BY <1>2, <1>3, <2>1
      <3>2. \A j \in n.under + 1 .. size : more[j] = nodes[j]
        BY <1>3, <1>5
      <3> QED  BY <1>5, <3>1, <3>2
    <2>2. CASE i # size + 1
      <3>1. i \in 1 .. size /\ more[i] = nodes[i]
        BY <1>2, <1>3, <2>2
      <3>2. /\ Formed(nodes[i]) /\ nodes[i].under \in 0 .. i - 1
            /\ nodes[i].under = 0 <=> nodes[i].tag \in {"component", "view"}
            /\ \A j \in nodes[i].under + 1 .. i - 1 : nodes[j].under >= nodes[i].under
        BY <1>2, <3>1 DEF Tree
      <3>3. \A j \in nodes[i].under + 1 .. i - 1 : more[j] = nodes[j]
        BY <1>2, <1>3, <3>1, <3>2
      <3> QED  BY <3>1, <3>2, <3>3
    <2> QED  BY <2>1, <2>2
  <1> QED  BY <1>1, <1>2, <1>3, <1>4, <1>6 DEF Tree

LEMMA WrittenTree ==
    ASSUME NEW nodes, Tree(nodes), Lists(nodes), NEW i, Open(nodes, i), NEW n \in Forms
    PROVE  /\ Tree(Append(nodes, [n EXCEPT !.under = i]))
           /\ Lists(Append(nodes, [n EXCEPT !.under = i]))
  <1>1. PICK m : m = [n EXCEPT !.under = i]
    OBVIOUS
  <1>2. NodeRecord(n) /\ Formed(m) /\ n.tag \notin {"component", "view"}
    BY <1>1, FormsAre DEF FormGood
  <1>3. m.under = i /\ m.tag = n.tag
    BY <1>1, <1>2 DEF NodeRecord
  <1>4. i # 0
    BY DEF Open, Tree
  <1> QED  BY <1>1, <1>2, <1>3, <1>4, TreeGrows

LEMMA UnderIs ==
    ASSUME NEW n, NodeRecord(n), NEW i
    PROVE  /\ [[n EXCEPT !.under = i] EXCEPT !.under = 0] = [n EXCEPT !.under = 0]
           /\ n.under = 0 => [n EXCEPT !.under = 0] = n
  <1>1. PICK t, r, e, o, m, k, u :
          n = [tag |-> t, ref |-> r, expr |-> e, on |-> o, item |-> m, key |-> k, under |-> u]
    BY DEF NodeRecord
  <1>2. \A j : [n EXCEPT !.under = j] =
                 [tag |-> t, ref |-> r, expr |-> e, on |-> o, item |-> m, key |-> k, under |-> j]
    BY <1>1
  <1>3. PICK w : w = [n EXCEPT !.under = i]
    OBVIOUS
  <1>4. [w EXCEPT !.under = 0] =
          [tag |-> t, ref |-> r, expr |-> e, on |-> o, item |-> m, key |-> k, under |-> 0]
    BY <1>2, <1>3
  <1> QED  BY <1>1, <1>2, <1>3, <1>4

Known == Forms \cup {Tag("view")} \cup {Declared(c) : c \in DOMAIN Props}
NodesTyped(nodes) == \A i \in DOMAIN nodes : [nodes[i] EXCEPT !.under = 0] \in Known

LEMMA TypedGrows ==
    ASSUME NEW nodes, Lists(nodes), NodesTyped(nodes), NEW n \in Known, NEW i
    PROVE  NodesTyped(Append(nodes, [n EXCEPT !.under = i]))
  <1>1. PICK m, more : m = [n EXCEPT !.under = i] /\ more = Append(nodes, m)
    OBVIOUS
  <1>2. Extends(nodes, more) /\ Len(more) = Len(nodes) + 1 /\ more[Len(nodes) + 1] = m
    BY <1>1, Appended
  <1>3. DOMAIN more = 1 .. Len(nodes) + 1 /\ DOMAIN nodes = 1 .. Len(nodes) /\ Len(nodes) \in Nat
        /\ \A j \in 1 .. Len(nodes) : more[j] = nodes[j]
    BY <1>2 DEF Extends, Lists
  <1>4. [m EXCEPT !.under = 0] \in Known
    <2>1. NodeRecord(n) /\ n.under = 0
      BY FormsAre DEF FormGood, Known
    <2>2. [m EXCEPT !.under = 0] = n
      BY <1>1, <2>1, UnderIs, Zenon
    <2> QED  BY <2>2
  <1>5. ASSUME NEW j \in DOMAIN more PROVE [more[j] EXCEPT !.under = 0] \in Known
    <2>1. CASE j = Len(nodes) + 1
      <3>1. more[j] = m
        BY <1>2, <2>1
      <3> QED  BY <1>4, <3>1, Zenon
    <2>2. CASE j # Len(nodes) + 1
      <3>1. j \in DOMAIN nodes /\ more[j] = nodes[j]
        BY <1>3, <2>2
      <3> QED  BY <3>1, Zenon DEF NodesTyped
    <2> QED  BY <2>1, <2>2
  <1> QED  BY <1>1, <1>5, Zenon DEF NodesTyped

LEMMA ViewRoot ==
    ASSUME NEW n \in {Tag("view")} \cup {Declared(c) : c \in DOMAIN Props}
    PROVE  /\ n \in Known /\ Formed(n) /\ n.under = 0 /\ n.tag \in {"component", "view"}
           /\ [n EXCEPT !.under = 0] = n
  <1>1. n \in Known /\ FormGood(n)
    BY FormsAre DEF Known
  <1>2. n.tag \in {"component", "view"}
    <2>1. CASE n = Tag("view")
      BY <2>1, TagIs
    <2>2. CASE n \in {Declared(c) : c \in DOMAIN Props}
      <3>1. PICK c : n = Declared(c)
        BY <2>2
      <3> QED  BY <3>1, DeclaredIs
    <2> QED  BY <2>1, <2>2
  <1>3. [n EXCEPT !.under = 0] = n
    BY <1>1, UnderIs DEF FormGood
  <1>4. Formed([n EXCEPT !.under = 0]) /\ n.under = 0
    BY <1>1 DEF FormGood
  <1> QED  BY <1>1, <1>2, <1>3, <1>4

LEMMA RootWritten ==
    ASSUME NEW nodes, Tree(nodes), Lists(nodes), NodesTyped(nodes),
           NEW n \in {Tag("view")} \cup {Declared(c) : c \in DOMAIN Props}
    PROVE  Tree(Append(nodes, n)) /\ Lists(Append(nodes, n)) /\ NodesTyped(Append(nodes, n))
  <1>1. n \in Known /\ Formed(n) /\ n.under = 0 /\ n.tag \in {"component", "view"}
        /\ [n EXCEPT !.under = 0] = n
    BY ViewRoot
  <1>2. Tree(Append(nodes, n)) /\ Lists(Append(nodes, n))
    BY <1>1, TreeGrows
  <1>3. NodesTyped(Append(nodes, [n EXCEPT !.under = 0]))
    BY <1>1, TypedGrows
  <1> QED  BY <1>1, <1>2, <1>3, Zenon

LEMMA NodeWritten ==
    ASSUME NEW nodes, Tree(nodes), Lists(nodes), NodesTyped(nodes),
           NEW n \in Forms, NEW i, Open(nodes, i)
    PROVE  LET more == Append(nodes, [n EXCEPT !.under = i]) IN
           Tree(more) /\ Lists(more) /\ NodesTyped(more)
  <1>1. n \in Known
    BY DEF Known
  <1> QED  BY <1>1, WrittenTree, TypedGrows

(* The second component's body is written in the same way.                 *)
LEMMA InitTree ==
    ASSUME NEW body \in SecondBodies
    PROVE  LET nodes == <<Declared("c2")>> \o body \o <<Declared("c1")>> IN
           Tree(nodes) /\ Lists(nodes) /\ NodesTyped(nodes)
  <1> DEFINE Good(nodes) == Tree(nodes) /\ Lists(nodes) /\ NodesTyped(nodes)
  <1>1. PICK a, b : a = Declared("c2") /\ b = Declared("c1")
    OBVIOUS
  <1>2. {a, b} \subseteq {Tag("view")} \cup {Declared(c) : c \in DOMAIN Props}
    BY <1>1, PropsAre
  <1>3. Good(<<>>)
    BY DEF Tree, Lists, NodesTyped
  <1>4. Good(<<a>>)
    <2>1. Good(Append(<<>>, a))
      BY <1>2, <1>3, RootWritten
    <2>2. Append(<<>>, a) = <<a>>
      OBVIOUS
    <2> HIDE DEF Good
    <2> QED  BY <2>1, <2>2
  <1>5. CASE body = <<>>
    <2>1. Good(Append(<<a>>, b))
      BY <1>2, <1>4, RootWritten
    <2>2. <<a>> \o <<>> \o <<b>> = Append(<<a>>, b)
      OBVIOUS
    <2> HIDE DEF Good
    <2>3. Good(<<a>> \o <<>> \o <<b>>)
      BY <2>1, <2>2
    <2>4. Good(<<Declared("c2")>> \o body \o <<Declared("c1")>>)
      BY <1>1, <1>5, <2>3, Zenon
    <2> QED  BY <2>4 DEF Good
  <1>6. CASE body = <<[Tag("c1") EXCEPT !.under = 1]>>
    <2>1. PICK m : m = [Tag("c1") EXCEPT !.under = 1]
      OBVIOUS
    <2>2. Tag("c1") \in Forms
      BY Zenon DEF Forms
    <2>3. Open(<<a>>, 1)
      BY DEF Open
    <2>4. Good(Append(<<a>>, m))
      BY <1>4, <2>1, <2>2, <2>3, NodeWritten
    <2>5. Good(Append(Append(<<a>>, m), b))
      BY <1>2, <2>4, RootWritten
    <2>6. <<a>> \o <<m>> \o <<b>> = Append(Append(<<a>>, m), b)
      OBVIOUS
    <2> HIDE DEF Good
    <2>7. Good(<<a>> \o <<m>> \o <<b>>)
      BY <2>5, <2>6
    <2>8. Good(<<Declared("c2")>> \o body \o <<Declared("c1")>>)
      BY <1>1, <1>6, <2>1, <2>7, Zenon
    <2> QED  BY <2>8 DEF Good
  <1>7. CASE body = <<[Repeat("y", "y") EXCEPT !.under = 1], [Tag("slot") EXCEPT !.under = 2]>>
    <2>1. PICK m, n : m = [Repeat("y", "y") EXCEPT !.under = 1] /\ n = [Tag("slot") EXCEPT !.under = 2]
      OBVIOUS
    <2>2. Tag("slot") \in Forms
      BY Zenon DEF Forms
    <2>3. Repeat("y", "y") \in Forms
      <3>1. PICK names : names = <<"y", "y">> /\ names \in ScopeNames \X ScopeNames
        <4>1. PICK y : y = "y" /\ y \in ScopeNames
          BY ScopeNamesAssumption
        <4>2. <<y, y>> \in ScopeNames \X ScopeNames
          BY <4>1
        <4> QED  BY <4>1, <4>2
      <3>2. names[1] = "y" /\ names[2] = "y"
        BY <3>1
      <3>3. Repeat(names[1], names[2]) \in Forms
        BY <3>1, Zenon DEF Forms
      <3> QED  BY <3>2, <3>3, Zenon
    <2>4. Good(Append(<<a>>, m))
      <3>1. Open(<<a>>, 1)
        BY DEF Open
      <3> QED  BY <1>4, <2>1, <2>3, <3>1, NodeWritten
    <2>5. Good(Append(Append(<<a>>, m), n))
      <3>1. PICK s : s = Append(<<a>>, m)
        OBVIOUS
      <3>3. Open(s, 2)
        <4>1. Lists(<<a>>) /\ Len(<<a>>) = 1
          BY <1>4
        <4>2. Len(s) = 2 /\ Lists(s)
          BY <3>1, <4>1, Appended DEF Extends
        <4>3. DOMAIN s = 1 .. 2
          BY <4>2 DEF Lists
        <4> QED  BY <4>2, <4>3 DEF Open
      <3> QED  BY <2>1, <2>2, <2>4, <3>1, <3>3, NodeWritten
    <2>6. Good(Append(Append(Append(<<a>>, m), n), b))
      BY <1>2, <2>5, RootWritten
    <2>7. <<a>> \o <<m, n>> \o <<b>> = Append(Append(Append(<<a>>, m), n), b)
      OBVIOUS
    <2> HIDE DEF Good
    <2>8. Good(<<a>> \o <<m, n>> \o <<b>>)
      BY <2>6, <2>7
    <2>9. Good(<<Declared("c2")>> \o body \o <<Declared("c1")>>)
      BY <1>1, <1>7, <2>1, <2>8, Zenon
    <2> QED  BY <2>9 DEF Good
  <1>8. \/ body = <<>>
        \/ body = <<[Tag("c1") EXCEPT !.under = 1]>>
        \/ body = <<[Repeat("y", "y") EXCEPT !.under = 1], [Tag("slot") EXCEPT !.under = 2]>>
    BY Zenon DEF SecondBodies
  <1> QED  BY <1>5, <1>6, <1>7, <1>8

(* What is written so far is a tree in the order of the document, as       *)
(* ocml.rs:950 `Checker::children` walks it; its nodes have their types,   *)
(* and nothing follows the rest of the document, which is written last.    *)
THEOREM TreeInvariant == TreeSpec => []TreeInv
  <1>1. TreeInit => TreeInv
    <2>1. SUFFICES ASSUME TreeInit PROVE TreeInv
      OBVIOUS
    <2>2. PICK body \in SecondBodies :
            view = [nodes |-> <<Declared("c2")>> \o body \o <<Declared("c1")>>, left |-> MaxNodes]
      BY <2>1 DEF TreeInit
    <2>3. PICK nodes : nodes = <<Declared("c2")>> \o body \o <<Declared("c1")>>
      OBVIOUS
    <2>4. view.nodes = nodes /\ view.left = MaxNodes
      BY <2>2, <2>3
    <2>5. Tree(nodes) /\ Lists(nodes) /\ NodesTyped(nodes)
      BY <2>3, InitTree
    <2>6. MaxNodes \in 0 .. MaxNodes
      BY MaxNodesAssumption
    <2>7. view = [nodes |-> view.nodes, left |-> view.left]
      BY <2>2
    <2> QED  BY <2>4, <2>5, <2>6, <2>7, Zenon DEF TreeInv, TreeTypeOK, NodesTyped, Known
  <1>2. TreeInv /\ [TreeNext]_treeVars => TreeInv'
    <2>1. SUFFICES ASSUME TreeInv, [TreeNext]_treeVars PROVE TreeInv'
      OBVIOUS
    <2>2. PICK nodes, left : nodes = view.nodes /\ left = view.left
      OBVIOUS
    <2>3. Tree(nodes) /\ Lists(nodes) /\ NodesTyped(nodes) /\ left \in 0 .. MaxNodes
          /\ view = [nodes |-> nodes, left |-> left]
      BY <2>1, <2>2, Zenon DEF TreeInv, TreeTypeOK, NodesTyped, Known
    <2>4. ASSUME NEW more, NEW fewer, view' = [nodes |-> more, left |-> fewer],
                 Tree(more), Lists(more), NodesTyped(more), fewer \in 0 .. MaxNodes
          PROVE  TreeInv'
      <3>1. view'.nodes = more /\ view'.left = fewer
        BY <2>4
      <3> QED  BY <2>4, <3>1, Zenon DEF TreeInv, TreeTypeOK, NodesTyped, Known
    <2>5. CASE NextPart
      <3>1. view' = [view EXCEPT !.nodes = Append(nodes, Tag("view"))]
        BY <2>2, <2>5 DEF NextPart
      <3>2. Tree(Append(nodes, Tag("view"))) /\ Lists(Append(nodes, Tag("view")))
            /\ NodesTyped(Append(nodes, Tag("view")))
        BY <2>3, RootWritten
      <3>3. view' = [nodes |-> Append(nodes, Tag("view")), left |-> left]
        <4>1. PICK more : more = Append(nodes, Tag("view"))
          OBVIOUS
        <4>2. [[nodes |-> nodes, left |-> left] EXCEPT !.nodes = more] = [nodes |-> more, left |-> left]
          OBVIOUS
        <4> QED  BY <2>3, <3>1, <4>1, <4>2, Zenon
      <3> QED  BY <2>3, <2>4, <3>2, <3>3
    <2>6. CASE WriteNode
      <3>1. PICK n \in Forms, i \in DOMAIN nodes :
              /\ Open(nodes, i) /\ left > 0
              /\ view' = [nodes |-> Append(nodes, [n EXCEPT !.under = i]), left |-> left - 1]
        BY <2>2, <2>6 DEF WriteNode
      <3>2. PICK more : more = Append(nodes, [n EXCEPT !.under = i])
        OBVIOUS
      <3>3. Tree(more) /\ Lists(more) /\ NodesTyped(more)
        BY <2>3, <3>1, <3>2, NodeWritten
      <3>4. left - 1 \in 0 .. MaxNodes
        BY <2>3, <3>1, MaxNodesAssumption
      <3>5. view' = [nodes |-> more, left |-> left - 1]
        BY <3>1, <3>2
      <3> QED  BY <2>4, <3>3, <3>4, <3>5
    <2>7. CASE UNCHANGED treeVars
      BY <2>1, <2>7 DEF treeVars, TreeInv, TreeTypeOK
    <2> QED  BY <2>1, <2>5, <2>6, <2>7 DEF TreeNext
  <1> QED  BY <1>1, <1>2, PTL DEF TreeSpec

(* What the author writes has the type stated for it.                      *)
THEOREM TreeTypeCorrect == TreeSpec => []TreeTypeOK
  <1>1. TreeInv => TreeTypeOK
    BY DEF TreeInv
  <1> QED  BY <1>1, TreeInvariant, PTL

(* ocml.rs:328: the validator of the host accepts what the emitter puts    *)
(* out of every source the check accepts.                                  *)
THEOREM ValidatorAccepts == TreeSpec => []ValidatorAgrees
  <1>1. TreeInv => ValidatorAgrees
    BY CheckedIsValid DEF TreeInv, ValidatorAgrees
  <1> QED  BY <1>1, TreeInvariant, PTL

-----------------------------------------------------------------------------
(* The names in scope are each there once, and none is a name of the VM.   *)
Clear(s) == IsInjective(s) /\ "state" \notin Range(s) /\ "event" \notin Range(s)

LEMMA AppendNames ==
    ASSUME NEW X, NEW s \in Seq(X), NEW x
    PROVE  /\ Range(Append(s, x)) = Range(s) \cup {x}
           /\ IsInjective(s) /\ x \notin Range(s) => IsInjective(Append(s, x))
  <1>0. PICK n \in Nat : n = Len(s)
    <2>1. Len(s) \in Nat
      OBVIOUS
    <2> QED  BY <2>1
  <1>1. PICK a : n = Len(s) /\ a = Append(s, x)
    BY <1>0
  <1>2. DOMAIN s = 1 .. n /\ s = [i \in 1 .. n |-> s[i]]
    BY <1>1
  <1>3. a = [i \in 1 .. n + 1 |-> IF i = n + 1 THEN x ELSE s[i]]
    BY <1>1, <1>2, PutOut
  <1>4. DOMAIN a = 1 .. n + 1 /\ a[n + 1] = x /\ \A i \in 1 .. n : a[i] = s[i]
    BY <1>3
  <1>5. Range(a) = Range(s) \cup {x}
    <2>1. ASSUME NEW y \in Range(a) PROVE y \in Range(s) \cup {x}
      <3>1. PICK i \in 1 .. n + 1 : y = a[i]
        BY <1>4, <2>1 DEF Range
      <3>2. i # n + 1 => i \in 1 .. n
        BY <3>1
      <3> QED  BY <1>2, <1>4, <3>1, <3>2 DEF Range
    <2>2. x \in Range(a)
      <3>1. n + 1 \in 1 .. n + 1
        OBVIOUS
      <3> QED  BY <1>4, <3>1 DEF Range
    <2>3. ASSUME NEW y \in Range(s) PROVE y \in Range(a)
      <3>1. PICK i \in 1 .. n : y = s[i]
        BY <1>2, <2>3 DEF Range
      <3>2. i \in 1 .. n + 1 /\ a[i] = y
        BY <1>4, <3>1
      <3> QED  BY <1>4, <3>2 DEF Range
    <2> QED  BY <2>1, <2>2, <2>3
  <1>6. ASSUME IsInjective(s), x \notin Range(s) PROVE IsInjective(a)
    <2>1. \A i \in 1 .. n : s[i] # x
      BY <1>2, <1>6 DEF Range
    <2>2. \A i, j \in 1 .. n : s[i] = s[j] => i = j
      BY <1>2, <1>6 DEF IsInjective
    <2>3. ASSUME NEW i \in 1 .. n + 1, NEW j \in 1 .. n + 1, a[i] = a[j] PROVE i = j
      <3>1. (i = n + 1 \/ i \in 1 .. n) /\ (j = n + 1 \/ j \in 1 .. n)
        OBVIOUS
      <3> QED  BY <1>4, <2>1, <2>2, <2>3, <3>1
    <2> QED  BY <1>4, <2>3 DEF IsInjective
  <1> QED  BY <1>1, <1>5, <1>6

LEMMA StateBound ==
    ASSUME NEW X, NEW s \in Seq(X)
    PROVE  /\ Range(<<"state">> \o s) = Range(s) \cup {"state"}
           /\ IsInjective(s) /\ "state" \notin Range(s) => IsInjective(<<"state">> \o s)
  <1>1. PICK st : st = "state"
    OBVIOUS
  <1>0. PICK n \in Nat : n = Len(s)
    <2>1. Len(s) \in Nat
      OBVIOUS
    <2> QED  BY <2>1
  <1>2. PICK a, Y : n = Len(s) /\ a = <<st>> \o s /\ Y = X \cup {st}
    BY <1>0
  <1>3. <<st>> \in Seq(Y) /\ s \in Seq(Y) /\ Len(<<st>>) = 1 /\ <<st>>[1] = st
    <2>1. st \in Y
      BY <1>2
    <2>2. \A i \in 1 .. n : s[i] \in Y
      BY <1>2
    <2>3. s \in Seq(Y)
      BY <1>2, <2>2
    <2> QED  BY <2>1, <2>3
  <1>4. a \in Seq(Y) /\ Len(a) = n + 1 /\ a[1] = st /\ \A i \in 2 .. n + 1 : a[i] = s[i - 1]
    <2>1. /\ a \in Seq(Y) /\ Len(a) = 1 + n
          /\ \A i \in 1 .. 1 + n : a[i] = IF i <= 1 THEN <<st>>[i] ELSE s[i - 1]
      BY <1>2, <1>3, ConcatProperties
    <2> QED  BY <1>3, <2>1
  <1>5. DOMAIN a = 1 .. n + 1 /\ DOMAIN s = 1 .. n
    BY <1>2, <1>4
  <1>6. Range(a) = Range(s) \cup {st}
    <2>1. ASSUME NEW y \in Range(a) PROVE y \in Range(s) \cup {st}
      <3>1. PICK i \in 1 .. n + 1 : y = a[i]
        BY <1>5, <2>1 DEF Range
      <3>2. i # 1 => i \in 2 .. n + 1 /\ i - 1 \in 1 .. n
        BY <3>1
      <3> QED  BY <1>4, <1>5, <3>1, <3>2 DEF Range
    <2>2. st \in Range(a)
      <3>1. 1 \in 1 .. n + 1
        OBVIOUS
      <3> QED  BY <1>4, <1>5, <3>1 DEF Range
    <2>3. ASSUME NEW y \in Range(s) PROVE y \in Range(a)
      <3>1. PICK i \in 1 .. n : y = s[i]
        BY <1>5, <2>3 DEF Range
      <3>2. i + 1 \in 1 .. n + 1 /\ i + 1 \in 2 .. n + 1 /\ (i + 1) - 1 = i
        BY <3>1
      <3>3. a[i + 1] = y
        BY <1>4, <3>1, <3>2
      <3> QED  BY <1>5, <3>2, <3>3 DEF Range
    <2> QED  BY <2>1, <2>2, <2>3
  <1>7. ASSUME IsInjective(s), st \notin Range(s) PROVE IsInjective(a)
    <2>1. \A i \in 1 .. n : s[i] # st
      BY <1>5, <1>7 DEF Range
    <2>2. \A i, j \in 1 .. n : s[i] = s[j] => i = j
      BY <1>5, <1>7 DEF IsInjective
    <2>3. ASSUME NEW i \in 1 .. n + 1, NEW j \in 1 .. n + 1, a[i] = a[j] PROVE i = j
      <3>1. (i = 1 \/ (i \in 2 .. n + 1 /\ i - 1 \in 1 .. n))
            /\ (j = 1 \/ (j \in 2 .. n + 1 /\ j - 1 \in 1 .. n))
        OBVIOUS
      <3>2. i \in 2 .. n + 1 => a[i] = s[i - 1] /\ a[i] # st
        BY <1>4, <2>1, <3>1
      <3>3. j \in 2 .. n + 1 => a[j] = s[j - 1] /\ a[j] # st
        BY <1>4, <2>1, <3>1
      <3>4. i \in 2 .. n + 1 /\ j \in 2 .. n + 1 => i - 1 = j - 1
        BY <2>2, <2>3, <3>1, <3>2, <3>3
      <3> QED  BY <1>4, <2>3, <3>1, <3>2, <3>3, <3>4
    <2> QED  BY <1>5, <2>3 DEF IsInjective
  <1> QED  BY <1>1, <1>2, <1>6, <1>7

(* The place of a child.                                                   *)
LEMMA ChildPlace ==
    ASSUME NEW nodes, Tree(nodes), NEW i \in DOMAIN nodes, NEW j \in Children(nodes, i)
    PROVE  /\ j \in DOMAIN nodes /\ nodes[j].under = i /\ i \in Nat /\ j \in Nat /\ i < j /\ i # 0
           /\ PlacesOf(nodes)[j].parent =
                IF nodes[i].tag \in {"component", "view"} THEN "box"
                ELSE IF nodes[i].tag \in ElementNames THEN nodes[i].tag
                ELSE PlacesOf(nodes)[i].parent
           /\ PlacesOf(nodes)[j].scope =
                IF nodes[i].tag = "component" THEN Props[nodes[i].item]
                ELSE IF nodes[i].tag = "view" THEN <<>>
                ELSE IF nodes[i].tag = "for"
                  THEN Append(PlacesOf(nodes)[i].scope, nodes[i].item)
                  ELSE PlacesOf(nodes)[i].scope
           /\ PlacesOf(nodes)[j].home =
                IF nodes[i].tag = "component" THEN nodes[i].item
                ELSE IF nodes[i].tag = "view" THEN "view" ELSE PlacesOf(nodes)[i].home
  <1>1. j \in DOMAIN nodes /\ nodes[j].under = i
    BY DEF Children
  <1>2. i \in Nat /\ j \in Nat /\ i < j /\ i # 0
    BY <1>1 DEF Tree
  <1>3. PlacesOf(nodes)[j] = Nested(nodes[i], PlacesOf(nodes)[i])
    BY <1>1, <1>2, PlaceOfNode
  <1>4. PlacesOf(nodes)[i] \in PlaceType(nodes) /\ Formed(nodes[i])
    BY PlaceTyped DEF Tree
  <1>5. PICK n, p : n = nodes[i] /\ p = PlacesOf(nodes)[i]
    OBVIOUS
  <1>6. /\ Nested(n, p).parent = IF n.tag \in {"component", "view"} THEN "box"
                                 ELSE IF n.tag \in ElementNames THEN n.tag ELSE p.parent
        /\ Nested(n, p).scope = IF n.tag = "component" THEN Props[n.item]
                                ELSE IF n.tag = "view" THEN <<>>
                                ELSE IF n.tag = "for" THEN Append(p.scope, n.item) ELSE p.scope
        /\ Nested(n, p).home = IF n.tag = "component" THEN n.item
                               ELSE IF n.tag = "view" THEN "view" ELSE p.home
    <2>1. p \in PlaceType(nodes)
      BY <1>4, <1>5
    <2>2. n.tag \in Tags /\ (n.tag = "component" => n.item \in DOMAIN Props)
      BY <1>4, <1>5 DEF Formed
    <2> QED  BY <2>1, <2>2, NestedIs
  <1> QED  BY <1>1, <1>2, <1>3, <1>5, <1>6

LEMMA ScopesClear ==
    ASSUME NEW nodes, Tree(nodes), CheckDocument(nodes)
    PROVE  \A i \in DOMAIN nodes : Clear(PlacesOf(nodes)[i].scope)
  <1> DEFINE S == {i \in DOMAIN nodes : Clear(PlacesOf(nodes)[i].scope)}
  <1>1. Clear(<<>>)
    BY DEF Clear, IsInjective, Range
  <1>2. Clear(<<"x">>)
    <2>1. "x" # "state" /\ "x" # "event"
      OBVIOUS
    <2>2. PICK s, x : x = "x" /\ s = <<x>>
      OBVIOUS
    <2>3. DOMAIN s = {1} /\ s[1] = x
      BY <2>2
    <2>4. Clear(s)
      BY <2>1, <2>2, <2>3 DEF Clear, IsInjective, Range
    <2> QED  BY <2>2, <2>4
  <1>3. ASSUME NEW i \in DOMAIN nodes, nodes[i].under = 0 \/ nodes[i].under \in S PROVE i \in S
    <2>1. CASE nodes[i].under = 0
      <3>1. PlacesOf(nodes)[i] = Outside
        BY <2>1, PlaceOfNode
      <3>2. PlacesOf(nodes)[i].scope = <<>>
        <4>1. \A v : Place("none", <<>>, "", v).scope = <<>>
          BY DEF Place
        <4> QED  BY <3>1, <4>1, Zenon DEF Outside
      <3> QED  BY <1>1, <3>2
    <2>2. CASE nodes[i].under # 0
      <3>1. PICK u \in DOMAIN nodes : u = nodes[i].under /\ Clear(PlacesOf(nodes)[u].scope)
        BY <1>3, <2>2
      <3>2. i \in Children(nodes, u)
        BY <3>1 DEF Children
      <3>3. PlacesOf(nodes)[i].scope =
              IF nodes[u].tag = "component" THEN Props[nodes[u].item]
              ELSE IF nodes[u].tag = "view" THEN <<>>
              ELSE IF nodes[u].tag = "for"
                THEN Append(PlacesOf(nodes)[u].scope, nodes[u].item)
                ELSE PlacesOf(nodes)[u].scope
        BY <3>2, ChildPlace
      <3>4. Formed(nodes[u])
        BY DEF Tree
      <3>5. CASE nodes[u].tag = "component"
        <4>1. Props[nodes[u].item] \in {<<>>, <<"x">>}
          BY <3>4, <3>5, PropsAre DEF Formed
        <4> QED  BY <1>1, <1>2, <3>3, <3>5, <4>1
      <3>6. CASE nodes[u].tag = "for"
        <4>1. PICK s, x : s = PlacesOf(nodes)[u].scope /\ x = nodes[u].item
          OBVIOUS
        <4>2. CheckNode(nodes, u, PlacesOf(nodes)[u])
          BY DEF CheckDocument
        <4>3. CheckFor(nodes[u], PlacesOf(nodes)[u])
          BY <3>4, <3>6, <4>2, Checked DEF Formed
        <4>4. x \notin Range(s) /\ x # "state" /\ x # "event"
          BY <4>1, <4>3 DEF CheckFor
        <4>5. s \in Seq(Items(nodes)) /\ Clear(s)
          BY <3>1, <4>1, ScopeInIs
        <4>6. Clear(Append(s, x))
          BY <4>4, <4>5, AppendNames DEF Clear
        <4> QED  BY <3>3, <3>6, <4>1, <4>6
      <3>7. CASE nodes[u].tag \notin {"component", "for"}
        BY <1>1, <3>1, <3>3, <3>7
      <3> QED  BY <3>5, <3>6, <3>7
    <2> QED  BY <2>1, <2>2
  <1>4. S = DOMAIN nodes
    <2>1. S \in SUBSET DOMAIN nodes
      OBVIOUS
    <2> HIDE DEF S
    <2> QED  BY <1>3, <2>1, NodeInduction
  <1> QED  BY <1>4

-----------------------------------------------------------------------------
(* The VM's frames are each at a node in that node's place: the first of   *)
(* the view, every other of the body of what the one before it uses.       *)
FrameOk(nodes, frame) ==
    /\ frame.node \in DOMAIN nodes /\ nodes[frame.node].under # 0
    /\ frame.parent = PlacesOf(nodes)[frame.node].parent
    /\ frame.scope = PlacesOf(nodes)[frame.node].scope
HomeAt(nodes, f, q) == IF q = 1 THEN "view" ELSE nodes[f[q - 1].node].tag
StackOk(nodes, f) ==
    /\ Lists(f) /\ Len(f) > 0
    /\ \A q \in 1 .. Len(f) :
         /\ FrameOk(nodes, f[q])
         /\ PlacesOf(nodes)[f[q].node].home = HomeAt(nodes, f, q)
    /\ \A q \in 1 .. Len(f) - 1 : nodes[f[q].node].tag \in DOMAIN Props

(* A step goes further in the body of one of the last two frames, or into  *)
(* the body of what the last one uses.                                     *)
FrameOf(nodes, j) == FrameAt(j, PlacesOf(nodes)[j].parent, PlacesOf(nodes)[j].scope)
MovesTo(nodes, f, g) ==
    \E b \in 0 .. Len(f), j \in DOMAIN nodes :
      /\ g = Append(SubSeq(f, 1, b), FrameOf(nodes, j))
      /\ nodes[j].under # 0
      /\ \/ /\ b = Len(f) /\ nodes[f[b].node].tag \in DOMAIN Props
            /\ PlacesOf(nodes)[j].home = nodes[f[b].node].tag
         \/ /\ b < Len(f) /\ b >= Len(f) - 2 /\ j > f[b + 1].node
            /\ PlacesOf(nodes)[j].home = PlacesOf(nodes)[f[b + 1].node].home

LEMMA Prefix ==
    ASSUME NEW f, Lists(f), NEW b \in 0 .. Len(f)
    PROVE  /\ Lists(SubSeq(f, 1, b)) /\ Len(SubSeq(f, 1, b)) = b
           /\ \A i \in 1 .. b : SubSeq(f, 1, b)[i] = f[i]
           /\ SubSeq(f, 1, b) = [i \in 1 .. b |-> f[i]]
  <1>1. PICK n \in Nat : n = Len(f) /\ f = [i \in 1 .. n |-> f[i]]
    BY DEF Lists
  <1>2. PICK S : S = {f[i] : i \in 1 .. n}
    OBVIOUS
  <1>3. f \in Seq(S)
    <2>1. \A i \in 1 .. n : f[i] \in S
      BY <1>2
    <2>2. f \in [1 .. n -> S]
      BY <1>1, <2>1
    <2> QED  BY <2>2, SeqDef
  <1>4. PICK a : a = SubSeq(f, 1, b)
    OBVIOUS
  <1>5. a = [i \in 1 .. b |-> f[i]]
    BY <1>1, <1>3, <1>4
  <1>6. a \in Seq(S) /\ Len(a) = b
    <2>1. \A i \in 1 .. b : a[i] \in S
      BY <1>1, <1>2, <1>5
    <2>2. a \in [1 .. b -> S]
      BY <1>5, <2>1
    <2>3. b \in Nat
      BY <1>1
    <2> QED  BY <2>2, <2>3, SeqDef
  <1>7. a = [i \in 1 .. Len(a) |-> a[i]] /\ Len(a) \in Nat
    BY <1>6
  <1> QED  BY <1>4, <1>5, <1>6, <1>7 DEF Lists

LEMMA StackMoves ==
    ASSUME NEW nodes, Tree(nodes), NEW f, StackOk(nodes, f), NEW g, MovesTo(nodes, f, g)
    PROVE  StackOk(nodes, g)
  <1>1. PICK b \in 0 .. Len(f), j \in DOMAIN nodes :
          /\ g = Append(SubSeq(f, 1, b), FrameOf(nodes, j))
          /\ nodes[j].under # 0
          /\ \/ /\ b = Len(f) /\ nodes[f[b].node].tag \in DOMAIN Props
                /\ PlacesOf(nodes)[j].home = nodes[f[b].node].tag
             \/ /\ b < Len(f) /\ b >= Len(f) - 2 /\ j > f[b + 1].node
                /\ PlacesOf(nodes)[j].home = PlacesOf(nodes)[f[b + 1].node].home
    BY DEF MovesTo
  <1>2. PICK n \in Nat : n = Len(f) /\ n > 0
    BY DEF StackOk, Lists
  <1>3. PICK s, fr : s = SubSeq(f, 1, b) /\ fr = FrameOf(nodes, j)
    OBVIOUS
  <1>4. Lists(s) /\ Len(s) = b /\ b \in Nat /\ b <= n /\ \A i \in 1 .. b : s[i] = f[i]
    <2>1. Lists(f)
      BY DEF StackOk
    <2> QED  BY <1>2, <1>3, <2>1, Prefix
  <1>5. /\ Lists(g) /\ Len(g) = b + 1 /\ g[b + 1] = fr
        /\ \A i \in 1 .. b : g[i] = f[i]
    <2>1. Extends(s, g) /\ Len(g) = b + 1 /\ g[b + 1] = fr
      BY <1>1, <1>3, <1>4, Appended
    <2> QED  BY <1>4, <2>1 DEF Extends
  <1>6. FrameOk(nodes, fr) /\ fr.node = j
    BY <1>1, <1>3 DEF FrameOk, FrameOf, FrameAt
  <1>7. \A q \in 1 .. b : nodes[f[q].node].tag \in DOMAIN Props
    <2>1. ASSUME NEW q \in 1 .. b PROVE nodes[f[q].node].tag \in DOMAIN Props
      <3>1. q = n => b = Len(f) /\ q = b
        BY <1>2, <1>4, <2>1
      <3>2. q # n => q \in 1 .. Len(f) - 1
        BY <1>2, <1>4, <2>1
      <3> QED  BY <1>1, <1>2, <3>1, <3>2 DEF StackOk
    <2> QED  BY <2>1
  <1>8. PlacesOf(nodes)[j].home = HomeAt(nodes, g, b + 1)
    <2>1. HomeAt(nodes, g, b + 1) = IF b = 0 THEN "view" ELSE nodes[f[b].node].tag
      <3>1. b # 0 => (b + 1) - 1 = b /\ b \in 1 .. b /\ b + 1 # 1
        BY <1>4
      <3>2. b # 0 => g[(b + 1) - 1] = f[b]
        BY <1>5, <3>1
      <3> QED  BY <1>4, <3>1, <3>2 DEF HomeAt
    <2>2. CASE b = n
      BY <1>1, <1>2, <2>1, <2>2
    <2>3. CASE b # n
      <3>1. b + 1 \in 1 .. Len(f) /\ b # Len(f)
        BY <1>2, <1>4, <2>3
      <3>2. PlacesOf(nodes)[j].home = HomeAt(nodes, f, b + 1)
        BY <1>1, <3>1 DEF StackOk
      <3>3. HomeAt(nodes, f, b + 1) = IF b = 0 THEN "view" ELSE nodes[f[b].node].tag
        <4>1. b # 0 => (b + 1) - 1 = b /\ b + 1 # 1
          BY <1>4
        <4> QED  BY <1>4, <4>1 DEF HomeAt
      <3> QED  BY <2>1, <3>2, <3>3
    <2> QED  BY <2>2, <2>3
  <1>9. ASSUME NEW q \in 1 .. b + 1
        PROVE  FrameOk(nodes, g[q]) /\ PlacesOf(nodes)[g[q].node].home = HomeAt(nodes, g, q)
    <2>1. CASE q = b + 1
      BY <1>5, <1>6, <1>8, <2>1
    <2>2. CASE q # b + 1
      <3>1. q \in 1 .. b /\ q \in 1 .. Len(f) /\ (q # 1 => q - 1 \in 1 .. b)
        BY <1>2, <1>4, <2>2
      <3>2. g[q] = f[q] /\ HomeAt(nodes, g, q) = HomeAt(nodes, f, q)
        BY <1>5, <3>1 DEF HomeAt
      <3> QED  BY <3>1, <3>2 DEF StackOk
    <2> QED  BY <2>1, <2>2
  <1>10. \A q \in 1 .. Len(g) - 1 : nodes[g[q].node].tag \in DOMAIN Props
    <2>1. Len(g) - 1 = b
      BY <1>4, <1>5
    <2> QED  BY <1>5, <1>7, <2>1
  <1>11. Len(g) > 0
    BY <1>4, <1>5
  <1> QED  BY <1>5, <1>9, <1>10, <1>11 DEF StackOk

(* What is made of a stack of frames, by the tag of the last one's node.   *)
LEMMA MadeByTag ==
    ASSUME NEW json, NEW made, NEW tag, tag = json.nodes[Top(made.frames).node].tag,
           NEW frame, frame = Top(made.frames), NEW below, below = Below(made.frames),
           NEW inside, inside = Children(json.nodes, frame.node)
    PROVE  /\ tag \in ElementNames =>
                MadeOf(json, made) = Made(inside, below, tag, frame.scope, made.rounds)
           /\ tag \in Branches =>
                MadeOf(json, made) = Made(inside, below, frame.parent, frame.scope, made.rounds)
           /\ tag = "for" =>
                MadeOf(json, made) =
                  UNION {Made(inside, below, frame.parent,
                              Append(frame.scope, json.nodes[frame.node].item),
                              Append(made.rounds, round)) : round \in Rounds}
           /\ tag = "slot" =>
                MadeOf(json, made) =
                  IF below = <<>> THEN {}
                  ELSE Made(Children(json.nodes, Top(below).node), Below(below), frame.parent,
                            Top(below).scope, made.rounds)
           /\ tag \in DOMAIN Props =>
                MadeOf(json, made) =
                  Made(Body(json.nodes, tag), made.frames, frame.parent, Props[tag], made.rounds)
  <1>1. ASSUME tag \in ElementNames
        PROVE  MadeOf(json, made) = Made(inside, below, tag, frame.scope, made.rounds)
    <2>1. tag \notin Branches /\ tag # "for" /\ tag # "slot" /\ tag \notin DOMAIN Props
      BY <1>1, PropsAre DEF ElementNames, Branches
    <2> QED  BY <1>1, <2>1, Zenon DEF MadeOf
  <1>2. ASSUME tag \in Branches
        PROVE  MadeOf(json, made) = Made(inside, below, frame.parent, frame.scope, made.rounds)
    <2>1. tag \notin ElementNames /\ tag # "for" /\ tag # "slot" /\ tag \notin DOMAIN Props
      BY <1>2, PropsAre DEF ElementNames, Branches
    <2> QED  BY <1>2, <2>1, Zenon DEF MadeOf
  <1>3. ASSUME tag = "for"
        PROVE  MadeOf(json, made) =
                 UNION {Made(inside, below, frame.parent,
                             Append(frame.scope, json.nodes[frame.node].item),
                             Append(made.rounds, round)) : round \in Rounds}
    <2>1. tag \notin ElementNames /\ tag \notin Branches /\ tag # "slot" /\ tag \notin DOMAIN Props
      BY <1>3, PropsAre DEF ElementNames, Branches
    <2> QED  BY <1>3, <2>1, Zenon DEF MadeOf
  <1>4. ASSUME tag = "slot"
        PROVE  MadeOf(json, made) =
                 IF below = <<>> THEN {}
                 ELSE Made(Children(json.nodes, Top(below).node), Below(below), frame.parent,
                           Top(below).scope, made.rounds)
    <2>1. tag \notin ElementNames /\ tag \notin Branches /\ tag # "for" /\ tag \notin DOMAIN Props
      BY <1>4, PropsAre DEF ElementNames, Branches
    <2> QED  BY <1>4, <2>1, Zenon DEF MadeOf
  <1>5. ASSUME tag \in DOMAIN Props
        PROVE  MadeOf(json, made) =
                 Made(Body(json.nodes, tag), made.frames, frame.parent, Props[tag], made.rounds)
    <2>1. tag \notin ElementNames /\ tag \notin Branches /\ tag # "for" /\ tag # "slot"
      BY <1>5, PropsAre DEF ElementNames, Branches
    <2> QED  BY <1>5, <2>1, Zenon DEF MadeOf
  <1> QED  BY <1>1, <1>2, <1>3, <1>4, <1>5

LEMMA MadeAre ==
    ASSUME NEW inside, NEW below, NEW parent, NEW scope, NEW rounds,
           NEW more \in Made(inside, below, parent, scope, rounds)
    PROVE  \E j \in inside : more.frames = Append(below, FrameAt(j, parent, scope))
  <1>1. PICK j \in inside : more = Instance(Append(below, FrameAt(j, parent, scope)), rounds)
    BY DEF Made
  <1>2. more.frames = Append(below, FrameAt(j, parent, scope))
    BY <1>1 DEF Instance
  <1> QED  BY <1>2

LEMMA ChildMoves ==
    ASSUME NEW nodes, Tree(nodes), NEW f, StackOk(nodes, f), NEW b \in 0 .. Len(f),
           b < Len(f), b >= Len(f) - 2, NEW u, u = f[b + 1].node,
           NEW j \in Children(nodes, u), NEW parent, parent = PlacesOf(nodes)[j].parent,
           NEW scope, scope = PlacesOf(nodes)[j].scope
    PROVE  MovesTo(nodes, f, Append(SubSeq(f, 1, b), FrameAt(j, parent, scope)))
  <1>1. b + 1 \in 1 .. Len(f)
    BY DEF StackOk, Lists
  <1>2. u \in DOMAIN nodes /\ nodes[u].under # 0
    BY <1>1 DEF StackOk, FrameOk
  <1>3. nodes[u].tag \notin {"component", "view"}
    BY <1>2 DEF Tree
  <1>4. j \in DOMAIN nodes /\ j > u /\ nodes[j].under # 0
        /\ PlacesOf(nodes)[j].home = PlacesOf(nodes)[u].home
    BY <1>2, <1>3, ChildPlace
  <1>5. FrameAt(j, parent, scope) = FrameOf(nodes, j)
    BY DEF FrameOf
  <1> QED  BY <1>4, <1>5 DEF MovesTo

LEMMA MadeMoves ==
    ASSUME NEW nodes, Tree(nodes), CheckDocument(nodes), NEW json, SameTree(nodes, json.nodes),
           NEW made, StackOk(nodes, made.frames), NEW more \in MadeOf(json, made)
    PROVE  MovesTo(nodes, made.frames, more.frames)
  <1>1. PICK f, g : f = made.frames /\ g = more.frames
    OBVIOUS
  <1>2. PICK n \in Nat : n = Len(f) /\ n > 0 /\ Lists(f) /\ StackOk(nodes, f)
    BY <1>1 DEF StackOk, Lists
  <1>3. PICK frame, below : frame = Top(f) /\ frame = f[n] /\ below = Below(f)
                            /\ below = SubSeq(f, 1, n - 1)
    BY <1>2 DEF Top, Below
  <1>4. PICK i : i = frame.node
    OBVIOUS
  <1>5. /\ i \in DOMAIN nodes /\ nodes[i].under # 0
        /\ frame.parent = PlacesOf(nodes)[i].parent /\ frame.scope = PlacesOf(nodes)[i].scope
    <2>1. n \in 1 .. Len(f)
      BY <1>2
    <2> QED  BY <1>2, <1>3, <1>4, <2>1 DEF StackOk, FrameOk
  <1>6. PICK tag : tag = nodes[i].tag /\ tag = json.nodes[i].tag
    BY <1>5 DEF SameTree
  <1>7. tag \notin {"component", "view"} /\ tag \in Tags
    BY <1>5, <1>6 DEF Tree, Formed
  <1>8. PICK inside : inside = Children(json.nodes, i) /\ inside = Children(nodes, i)
    BY SameChildren
  <1>9. \A u \in DOMAIN nodes : CheckNode(nodes, u, PlacesOf(nodes)[u])
    BY DEF CheckDocument
  <1>10. \A u \in DOMAIN nodes : nodes[u].tag \in DOMAIN Props => PlacesOf(nodes)[u].parent = "box"
    <2>1. ASSUME NEW u \in DOMAIN nodes, nodes[u].tag \in DOMAIN Props
          PROVE  PlacesOf(nodes)[u].parent = "box"
      <3>1. nodes[u].tag \in Tags
        BY DEF Tree, Formed
      <3>2. CheckUse(nodes[u], PlacesOf(nodes)[u])
        BY <1>9, <2>1, <3>1, Checked
      <3> QED  BY <3>2 DEF CheckUse
    <2> QED  BY <2>1
  <1>11. n - 1 \in 0 .. Len(f) /\ n - 1 < Len(f) /\ n - 1 >= Len(f) - 2 /\ (n - 1) + 1 = n
    BY <1>2
  <1>12. ASSUME NEW j \in inside, NEW parent, NEW scope,
                parent = PlacesOf(nodes)[j].parent, scope = PlacesOf(nodes)[j].scope,
                g = Append(below, FrameAt(j, parent, scope))
         PROVE  MovesTo(nodes, f, g)
    <2>1. i = f[(n - 1) + 1].node
      BY <1>3, <1>4, <1>11
    <2>2. j \in Children(nodes, i)
      BY <1>8
    <2>3. MovesTo(nodes, f, Append(SubSeq(f, 1, n - 1), FrameAt(j, parent, scope)))
      BY <1>2, <1>11, <1>12, <2>1, <2>2, ChildMoves
    <2> QED  BY <1>3, <1>12, <2>3
  <1>13. \A j \in inside :
           /\ PlacesOf(nodes)[j].parent = IF tag \in ElementNames THEN tag ELSE frame.parent
           /\ PlacesOf(nodes)[j].scope =
                IF tag = "for" THEN Append(frame.scope, nodes[i].item) ELSE frame.scope
    <2>1. ASSUME NEW j \in inside
          PROVE  /\ PlacesOf(nodes)[j].parent = IF tag \in ElementNames THEN tag ELSE frame.parent
                 /\ PlacesOf(nodes)[j].scope =
                      IF tag = "for" THEN Append(frame.scope, nodes[i].item) ELSE frame.scope
      <3>1. j \in Children(nodes, i)
        BY <1>8
      <3>2. /\ PlacesOf(nodes)[j].parent =
                 IF nodes[i].tag \in {"component", "view"} THEN "box"
                 ELSE IF nodes[i].tag \in ElementNames THEN nodes[i].tag
                 ELSE PlacesOf(nodes)[i].parent
            /\ PlacesOf(nodes)[j].scope =
                 IF nodes[i].tag = "component" THEN Props[nodes[i].item]
                 ELSE IF nodes[i].tag = "view" THEN <<>>
                 ELSE IF nodes[i].tag = "for"
                   THEN Append(PlacesOf(nodes)[i].scope, nodes[i].item)
                   ELSE PlacesOf(nodes)[i].scope
        BY <1>5, <3>1, ChildPlace
      <3> QED  BY <1>5, <1>6, <1>7, <3>2
    <2> QED  BY <2>1
  <1>14. PICK made2 : made2 = MadeOf(json, made) /\ more \in made2
    OBVIOUS
  <1>20. /\ tag = json.nodes[Top(made.frames).node].tag /\ frame = Top(made.frames)
         /\ below = Below(made.frames) /\ inside = Children(json.nodes, frame.node)
    BY <1>1, <1>3, <1>4, <1>6, <1>8
  <1>15. CASE tag \in ElementNames
    <2>1. made2 = Made(inside, below, tag, frame.scope, made.rounds)
      BY <1>1, <1>4, <1>14, <1>15, <1>20, MadeByTag
    <2>2. PICK j \in inside : g = Append(below, FrameAt(j, tag, frame.scope))
      BY <1>1, <1>14, <2>1, MadeAre
    <2>3. tag # "for"
      BY <1>15 DEF ElementNames
    <2>4. MovesTo(nodes, f, g)
      BY <1>12, <1>13, <1>15, <2>2, <2>3
    <2> QED  BY <1>1, <2>4
  <1>16. CASE tag \in Branches
    <2>1. made2 = Made(inside, below, frame.parent, frame.scope, made.rounds)
      BY <1>1, <1>4, <1>14, <1>16, <1>20, MadeByTag
    <2>2. PICK j \in inside : g = Append(below, FrameAt(j, frame.parent, frame.scope))
      BY <1>1, <1>14, <2>1, MadeAre
    <2>3. tag # "for" /\ tag \notin ElementNames
      BY <1>16 DEF ElementNames, Branches
    <2>4. MovesTo(nodes, f, g)
      BY <1>12, <1>13, <2>2, <2>3
    <2> QED  BY <1>1, <2>4
  <1>17. CASE tag = "for"
    <2>1. made2 = UNION {Made(inside, below, frame.parent, Append(frame.scope, json.nodes[i].item),
                              Append(made.rounds, round)) : round \in Rounds}
      BY <1>1, <1>4, <1>14, <1>17, <1>20, MadeByTag
    <2>2. PICK round \in Rounds :
            more \in Made(inside, below, frame.parent, Append(frame.scope, json.nodes[i].item),
                          Append(made.rounds, round))
      BY <1>14, <2>1
    <2>3. json.nodes[i].item = nodes[i].item
      BY <1>5 DEF SameTree
    <2>4. PICK scope : scope = Append(frame.scope, nodes[i].item)
      OBVIOUS
    <2>5. PICK j \in inside : g = Append(below, FrameAt(j, frame.parent, scope))
      BY <1>1, <2>2, <2>3, <2>4, MadeAre
    <2>6. tag \notin ElementNames
      BY <1>17 DEF ElementNames
    <2>7. MovesTo(nodes, f, g)
      BY <1>12, <1>13, <1>17, <2>4, <2>5, <2>6
    <2> QED  BY <1>1, <2>7
  <1>18. CASE tag = "slot"
    <2>1. made2 = IF below = <<>> THEN {}
                  ELSE Made(Children(json.nodes, Top(below).node), Below(below), frame.parent,
                            Top(below).scope, made.rounds)
      BY <1>1, <1>4, <1>14, <1>18, <1>20, MadeByTag
    <2>2. Lists(below) /\ Len(below) = n - 1 /\ below = [q \in 1 .. n - 1 |-> f[q]]
      BY <1>2, <1>3, <1>11, Prefix
    <2>3. n >= 2
      <3>1. n = 1 => below = <<>>
        BY <2>2
      <3> QED  BY <1>2, <1>14, <2>1, <3>1
    <2>4. n - 2 \in 0 .. Len(f) /\ n - 2 < Len(f) /\ n - 2 >= Len(f) - 2 /\ (n - 2) + 1 = n - 1
          /\ n - 1 \in 1 .. n - 1 /\ n - 1 \in 1 .. Len(f) - 1 /\ n - 1 \in 1 .. Len(f)
          /\ n - 2 \in 0 .. n - 1
      BY <1>2, <2>3
    <2>5. PICK u : u = f[n - 1].node /\ u = Top(below).node /\ f[n - 1] = Top(below)
      BY <2>2, <2>4 DEF Top
    <2>6. /\ u \in DOMAIN nodes /\ nodes[u].tag \in DOMAIN Props
          /\ f[n - 1].scope = PlacesOf(nodes)[u].scope
      BY <1>2, <2>4, <2>5 DEF StackOk, FrameOk
    <2>7. Below(below) = SubSeq(f, 1, n - 2)
      <3>1. Below(below) = SubSeq(below, 1, n - 2)
        BY <2>2, <2>4 DEF Below
      <3>2. SubSeq(below, 1, n - 2) = [q \in 1 .. n - 2 |-> below[q]]
        BY <2>2, <2>4, Prefix
      <3>3. SubSeq(f, 1, n - 2) = [q \in 1 .. n - 2 |-> f[q]]
        BY <1>2, <2>4, Prefix
      <3>4. \A q \in 1 .. n - 2 : below[q] = f[q]
        BY <2>2, <2>4
      <3> QED  BY <3>1, <3>2, <3>3, <3>4
    <2>8. more \in Made(Children(nodes, u), SubSeq(f, 1, n - 2), frame.parent,
                        f[n - 1].scope, made.rounds)
      <3>1. more \in Made(Children(json.nodes, u), Below(below), frame.parent,
                          f[n - 1].scope, made.rounds)
        BY <1>14, <2>1, <2>5
      <3>2. Children(json.nodes, u) = Children(nodes, u)
        BY SameChildren
      <3> QED  BY <2>7, <3>1, <3>2
    <2>9. PICK j \in Children(nodes, u) :
            g = Append(SubSeq(f, 1, n - 2), FrameAt(j, frame.parent, f[n - 1].scope))
      <3>1. PICK base, parent, scope, rounds, kids :
              base = SubSeq(f, 1, n - 2) /\ parent = frame.parent /\ scope = f[n - 1].scope
              /\ rounds = made.rounds /\ kids = Children(nodes, u)
        OBVIOUS
      <3>2. more \in Made(kids, base, parent, scope, rounds)
        BY <2>8, <3>1
      <3>3. \E j \in kids : more.frames = Append(base, FrameAt(j, parent, scope))
        BY <3>2, MadeAre
      <3> QED  BY <1>1, <3>1, <3>3
    <2>10. frame.parent = "box" /\ PlacesOf(nodes)[u].parent = "box"
      <3>1. PlacesOf(nodes)[i].parent = "box"
        BY <1>5, <1>6, <1>7, <1>9, <1>18, Checked
      <3> QED  BY <1>5, <1>10, <2>6, <3>1
    <2>11. nodes[u].tag \notin {"component", "view", "for"} /\ nodes[u].tag \notin ElementNames
      BY <2>6, PropsAre DEF ElementNames
    <2>12. PlacesOf(nodes)[j].parent = frame.parent /\ PlacesOf(nodes)[j].scope = f[n - 1].scope
      BY <2>6, <2>10, <2>11, ChildPlace
    <2>13. u = f[(n - 2) + 1].node
      BY <2>4, <2>5
    <2>14. PICK parent, scope : parent = frame.parent /\ scope = f[n - 1].scope
      OBVIOUS
    <2>15. MovesTo(nodes, f, Append(SubSeq(f, 1, n - 2), FrameAt(j, parent, scope)))
      BY <1>2, <2>4, <2>12, <2>13, <2>14, ChildMoves
    <2> QED  BY <1>1, <2>9, <2>14, <2>15
  <1>19. CASE tag \in DOMAIN Props
    <2>1. made2 = Made(Body(json.nodes, tag), f, frame.parent, Props[tag], made.rounds)
      BY <1>1, <1>4, <1>14, <1>19, <1>20, MadeByTag
    <2>2. PICK j \in Body(json.nodes, tag) : g = Append(f, FrameAt(j, frame.parent, Props[tag]))
      BY <1>1, <1>14, <2>1, MadeAre
    <2>3. PICK r \in DOMAIN json.nodes :
            json.nodes[r].tag = "component" /\ json.nodes[r].item = tag /\ j \in Children(json.nodes, r)
      BY DEF Body
    <2>4. r \in DOMAIN nodes /\ nodes[r].tag = "component" /\ nodes[r].item = tag
          /\ j \in Children(nodes, r)
      BY <2>3, SameChildren DEF SameTree
    <2>5. /\ j \in DOMAIN nodes /\ nodes[j].under # 0 /\ PlacesOf(nodes)[j].parent = "box"
          /\ PlacesOf(nodes)[j].scope = Props[tag] /\ PlacesOf(nodes)[j].home = tag
      BY <2>4, ChildPlace
    <2>6. frame.parent = "box"
      BY <1>5, <1>6, <1>10, <1>19
    <2>7. FrameAt(j, frame.parent, Props[tag]) = FrameOf(nodes, j)
      BY <2>5, <2>6 DEF FrameOf
    <2>8. n \in 0 .. Len(f) /\ SubSeq(f, 1, n) = f
      <3>1. n \in 0 .. Len(f)
        BY <1>2
      <3>2. SubSeq(f, 1, n) = [q \in 1 .. n |-> f[q]]
        BY <1>2, <3>1, Prefix
      <3>3. f = [q \in 1 .. n |-> f[q]]
        BY <1>2 DEF Lists
      <3> QED  BY <3>1, <3>2, <3>3
    <2>9. nodes[f[n].node].tag = tag
      BY <1>3, <1>4, <1>6
    <2>10. MovesTo(nodes, f, g)
      BY <1>2, <1>19, <2>2, <2>5, <2>7, <2>8, <2>9 DEF MovesTo
    <2> QED  BY <1>1, <2>10
  <1> QED  BY <1>7, <1>15, <1>16, <1>17, <1>18, <1>19, PropsAre DEF Tags, ElementNames, Branches

LEMMA FirstStack ==
    ASSUME NEW nodes, Tree(nodes), NEW out, SameTree(nodes, out),
           NEW made \in Made(ViewNodes(out), <<>>, "box", <<>>, <<>>)
    PROVE  StackOk(nodes, made.frames)
  <1>1. PICK kids, nothing, box : kids = ViewNodes(out) /\ nothing = <<>> /\ box = "box"
    OBVIOUS
  <1>2. made \in Made(kids, nothing, box, nothing, nothing)
    BY <1>1
  <1>3. PICK j \in kids : made.frames = Append(nothing, FrameAt(j, box, nothing))
    BY <1>2, MadeAre
  <1>4. PICK r \in DOMAIN out : out[r].tag = "view" /\ j \in Children(out, r)
    BY <1>1 DEF ViewNodes
  <1>5. r \in DOMAIN nodes /\ nodes[r].tag = "view" /\ j \in Children(nodes, r)
    BY <1>4, SameChildren DEF SameTree
  <1>6. /\ j \in DOMAIN nodes /\ nodes[j].under # 0 /\ PlacesOf(nodes)[j].parent = box
        /\ PlacesOf(nodes)[j].scope = nothing /\ PlacesOf(nodes)[j].home = "view"
    BY <1>1, <1>5, ChildPlace
  <1>7. PICK f, fr : f = made.frames /\ fr = FrameAt(j, box, nothing)
    OBVIOUS
  <1>8. FrameOk(nodes, fr) /\ fr.node = j
    BY <1>6, <1>7 DEF FrameOk, FrameAt
  <1>9. Lists(f) /\ Len(f) = 1 /\ f[1] = fr
    <2>1. Lists(nothing) /\ Len(nothing) = 0
      BY <1>1 DEF Lists
    <2>2. Extends(nothing, f) /\ Len(f) = Len(nothing) + 1 /\ f[Len(nothing) + 1] = fr
      BY <1>3, <1>7, <2>1, Appended
    <2> QED  BY <2>1, <2>2 DEF Extends
  <1>10. \A q \in 1 .. Len(f) : q = 1
    BY <1>9
  <1>11. HomeAt(nodes, f, 1) = "view"
    BY DEF HomeAt
  <1> QED  BY <1>6, <1>7, <1>8, <1>9, <1>10, <1>11 DEF StackOk

(* What a function of the table binds, where the VM calls it.              *)
LEMMA BoundIs ==
    ASSUME NEW X, NEW s \in Seq(X), Clear(s), NEW json, NEW index, NEW entry,
           json.table[index] = entry, entry.scope = s, entry.role # "handler",
           Resolves(entry.expr, Range(s))
    PROVE  Bound(json, index, s)
  <1>1. TableEntry(entry).takes = s /\ TableEntry(entry).binds = <<"state">> \o s
    BY DEF TableEntry
  <1>2. /\ IsInjective(<<"state">> \o s)
        /\ Range(<<"state">> \o s) = Range(s) \cup {"state"}
    BY StateBound DEF Clear
  <1>3. /\ entry.expr.reads \subseteq Range(s) \cup {"state"}
        /\ entry.expr.calls \cap (Range(s) \cup {"state"}) = {}
    BY DEF Resolves
  <1> QED  BY <1>1, <1>2, <1>3 DEF Bound

LEMMA BoundHandler ==
    ASSUME NEW X, NEW s \in Seq(X), Clear(s), NEW json, NEW index, NEW entry,
           json.table[index] = entry, entry.scope = Append(s, "event"), entry.role = "handler",
           Resolves(entry.expr, Range(s) \cup {"event"})
    PROVE  Bound(json, index, s)
  <1>1. PICK ev, t, Y : ev = "event" /\ t = Append(s, ev) /\ Y = X \cup {ev}
    OBVIOUS
  <1>2. s \in Seq(Y) /\ ev \in Y
    <2>1. \A i \in 1 .. Len(s) : s[i] \in Y
      BY <1>1
    <2> QED  BY <1>1, <2>1
  <1>3. t \in Seq(Y) /\ Len(t) = Len(s) + 1 /\ \A i \in 1 .. Len(s) : t[i] = s[i]
    BY <1>1, <1>2, AppendProperties
  <1>4. SubSeq(t, 1, Len(t) - 1) = s
    <2>1. Len(t) - 1 = Len(s) /\ Len(s) \in Nat
      BY <1>3
    <2>2. SubSeq(t, 1, Len(s)) = [i \in 1 .. Len(s) |-> t[i]]
      BY <1>3, <2>1
    <2>3. s = [i \in 1 .. Len(s) |-> s[i]]
      OBVIOUS
    <2> QED  BY <1>3, <2>1, <2>2, <2>3
  <1>5. TableEntry(entry).takes = s /\ TableEntry(entry).binds = <<"state">> \o t
    BY <1>1, <1>4 DEF TableEntry
  <1>6. Range(t) = Range(s) \cup {ev} /\ IsInjective(t)
    BY <1>1, AppendNames DEF Clear
  <1>7. "state" \notin Range(t)
    <2>1. "state" # "event"
      OBVIOUS
    <2> QED  BY <1>1, <1>6, <2>1 DEF Clear
  <1>8. /\ IsInjective(<<"state">> \o t)
        /\ Range(<<"state">> \o t) = Range(t) \cup {"state"}
    BY <1>3, <1>6, <1>7, StateBound
  <1>9. /\ entry.expr.reads \subseteq Range(t) \cup {"state"}
        /\ entry.expr.calls \cap (Range(t) \cup {"state"}) = {}
    BY <1>1, <1>6 DEF Resolves
  <1> QED  BY <1>5, <1>8, <1>9 DEF Bound

LEMMA ForScope ==
    ASSUME NEW nodes, NEW p \in PlaceType(nodes), NEW n
    PROVE  ForPlace(n, p).scope = Append(p.scope, n.item)
  BY DEF ForPlace, PlaceType

LEMMA StackSound ==
    ASSUME NEW nodes, Tree(nodes), CheckDocument(nodes), NEW json, json = Emit(nodes),
           NEW made, StackOk(nodes, made.frames)
    PROVE  Sound(json, made)
  <1>1. PICK frame, i : frame = Top(made.frames) /\ i = frame.node
    OBVIOUS
  <1>2. FrameOk(nodes, frame)
    <2>1. Len(made.frames) \in 1 .. Len(made.frames)
      BY DEF StackOk, Lists
    <2> QED  BY <1>1, <2>1 DEF StackOk, Top
  <1>3. PICK n, p, s : n = nodes[i] /\ p = PlacesOf(nodes)[i] /\ s = p.scope
    OBVIOUS
  <1>4. i \in DOMAIN nodes /\ frame.parent = p.parent /\ frame.scope = s
    BY <1>1, <1>2, <1>3 DEF FrameOk
  <1>5. Formed(n) /\ n.tag \in Tags /\ CheckNode(nodes, i, p) /\ p \in PlaceType(nodes)
        /\ s \in Seq(Items(nodes)) /\ Clear(s)
    <2>1. Formed(n) /\ n.tag \in Tags
      BY <1>3, <1>4 DEF Tree, Formed
    <2>2. CheckNode(nodes, i, p)
      BY <1>3, <1>4 DEF CheckDocument
    <2>3. p \in PlaceType(nodes) /\ s \in Seq(Items(nodes)) /\ Clear(s)
      BY <1>3, <1>4, PlaceTyped, ScopeInIs, ScopesClear
    <2> QED  BY <2>1, <2>2, <2>3
  <1>6. PICK o : o = json.nodes[i]
    OBVIOUS
  <1>7. /\ NodeOut(nodes, i, o, json.table)
        /\ o.tag = n.tag /\ o.item = n.item
    BY <1>3, <1>4, <1>6, EmitIs, EmittedTree DEF SameTree
  <1>8. /\ n.tag \in Branches => CheckBranch(nodes, i, p)
        /\ n.tag = "for" => CheckFor(n, p)
        /\ n.tag \in ElementNames => CheckElement(nodes, i, p)
        /\ n.tag \in DOMAIN Props => CheckUse(n, p)
    BY <1>3, <1>4, <1>5, Checked
  <1>9. n.tag \in ElementNames => Accepts(frame.parent, n.tag)
    BY <1>3, <1>4, <1>8 DEF CheckElement
  <1>10. ASSUME o.bind > 0 PROVE Bound(json, o.bind, s)
    <2>1. n.expr # NoExpr /\ json.table[o.bind] = BindEntry(nodes, i)
      BY <1>3, <1>7, <1>10 DEF NodeOut, EntryIs
    <2>2. n.tag \in Tags \ {"component", "view", "slot"}
      BY <1>5, <2>1 DEF Formed
    <2>3. Resolves(n.expr, Range(s))
      <3>1. CASE n.tag \in Branches
        BY <1>3, <1>8, <3>1 DEF CheckBranch
      <3>2. CASE n.tag = "for"
        BY <1>3, <1>8, <3>2 DEF CheckFor
      <3>3. CASE n.tag \in ElementNames
        BY <1>3, <1>8, <3>3 DEF CheckElement
      <3>4. CASE n.tag \in DOMAIN Props
        BY <1>3, <1>8, <3>4 DEF CheckUse
      <3> QED  BY <2>2, <3>1, <3>2, <3>3, <3>4, PropsAre DEF Tags, ElementNames, Branches
    <2>4. PICK entry : entry = BindEntry(nodes, i)
      OBVIOUS
    <2>5. entry.scope = s /\ entry.expr = n.expr /\ entry.role # "handler"
      BY <1>3, <2>2, <2>4, RoleOfIs DEF BindEntry
    <2> QED  BY <1>5, <2>1, <2>3, <2>4, <2>5, BoundIs
  <1>11. ASSUME o.on > 0 PROVE Bound(json, o.on, s)
    <2>1. n.on # NoExpr /\ json.table[o.on] = OnEntry(nodes, i)
      BY <1>3, <1>7, <1>11 DEF NodeOut, EntryIs
    <2>2. n.tag \in ElementNames
      BY <1>5, <2>1 DEF Formed
    <2>3. HandlerOk(n.on, s)
      BY <1>3, <1>8, <2>1, <2>2 DEF CheckElement
    <2>4. PICK entry : entry = OnEntry(nodes, i)
      OBVIOUS
    <2>5. /\ entry.scope = Append(s, "event") /\ entry.expr = Handler(n.on, s)
          /\ entry.role = "handler"
      BY <1>3, <2>4 DEF OnEntry
    <2>6. Resolves(entry.expr, Range(s) \cup {"event"})
      BY <2>3, <2>5 DEF HandlerOk
    <2> QED  BY <1>5, <2>1, <2>4, <2>5, <2>6, BoundHandler
  <1>12. ASSUME o.key > 0 PROVE Bound(json, o.key, Append(s, n.item))
    <2>1. n.key # NoExpr /\ json.table[o.key] = KeyEntry(nodes, i)
      BY <1>3, <1>7, <1>12 DEF NodeOut, EntryIs
    <2>2. n.tag = "for"
      BY <1>5, <2>1 DEF Formed
    <2>3. PICK t : t = Append(s, n.item)
      OBVIOUS
    <2>4. /\ n.item \notin Range(s) /\ n.item # "state" /\ n.item # "event"
          /\ Resolves(n.key, Range(t))
      BY <1>3, <1>5, <1>8, <2>2, <2>3, ForScope DEF CheckFor
    <2>5. t \in Seq(Items(nodes))
      <3>1. n.item \in Items(nodes)
        BY <1>3, <1>4 DEF Items
      <3> QED  BY <1>5, <2>3, <3>1
    <2>6. Clear(t)
      BY <1>5, <2>3, <2>4, AppendNames DEF Clear
    <2>7. PICK entry : entry = KeyEntry(nodes, i)
      OBVIOUS
    <2>8. entry.scope = t /\ entry.expr = n.key /\ entry.role # "handler"
      <3>1. "key" # "handler"
        OBVIOUS
      <3> QED  BY <1>3, <2>3, <2>7, <3>1 DEF KeyEntry
    <2>9. Bound(json, o.key, t)
      BY <2>1, <2>4, <2>5, <2>6, <2>7, <2>8, BoundIs
    <2> QED  BY <2>3, <2>9
  <1> QED  BY <1>1, <1>4, <1>6, <1>7, <1>9, <1>10, <1>11, <1>12 DEF Sound

-----------------------------------------------------------------------------
(* The VM ends: it is in no more than three bodies, and each step goes     *)
(* further in one of them, which a number in base B counts.                *)
LEMMA StackShort ==
    ASSUME NEW nodes, Tree(nodes), NEW json, SameTree(nodes, json.nodes),
           \A c \in DOMAIN Props : ~ReachesItself(json, c),
           NEW f, StackOk(nodes, f)
    PROVE  Len(f) \in 1 .. 3
  <1>1. PICK n \in Nat : n = Len(f) /\ n > 0
    BY DEF StackOk, Lists
  <1>2. ASSUME NEW q \in 2 .. n - 1
        PROVE  nodes[f[q].node].tag \in UsesOf(json, nodes[f[q - 1].node].tag)
    <2>1. q \in 1 .. Len(f) /\ q \in 1 .. Len(f) - 1 /\ q # 1
      BY <1>1
    <2>2. PICK i : i = f[q].node
      OBVIOUS
    <2>3. i \in DOMAIN nodes /\ nodes[i].tag \in DOMAIN Props
      BY <2>1, <2>2 DEF StackOk, FrameOk
    <2>4. PlacesOf(nodes)[i].home = nodes[f[q - 1].node].tag
      BY <2>1, <2>2 DEF StackOk, HomeAt
    <2>5. Contexts(json.nodes)[i].home = nodes[f[q - 1].node].tag
      <3>1. Contexts(json.nodes)[i] = ContextOf(PlacesOf(nodes)[i])
        BY <2>3, ContextsAre
      <3>2. PICK a, h, r : a = PlacesOf(nodes)[i].parent /\ h = PlacesOf(nodes)[i].home
                           /\ r = PlacesOf(nodes)[i].repeated
        OBVIOUS
      <3>3. ContextOf(PlacesOf(nodes)[i]) = [parent |-> a, home |-> h, repeated |-> r]
        BY <3>2 DEF ContextOf, Context
      <3> QED  BY <2>4, <3>1, <3>2, <3>3
    <2>6. i \in DOMAIN json.nodes /\ json.nodes[i].tag = nodes[i].tag
      BY <2>3 DEF SameTree
    <2> QED  BY <2>2, <2>3, <2>5, <2>6 DEF UsesOf
  <1>3. ASSUME n >= 4 PROVE FALSE
    <2>1. PICK c, d, e : c = nodes[f[1].node].tag /\ d = nodes[f[2].node].tag /\ e = nodes[f[3].node].tag
      OBVIOUS
    <2>2. {c, d, e} \subseteq DOMAIN Props
      <3>1. 1 \in 1 .. Len(f) - 1 /\ 2 \in 1 .. Len(f) - 1 /\ 3 \in 1 .. Len(f) - 1
        BY <1>1, <1>3
      <3> QED  BY <2>1, <3>1 DEF StackOk
    <2>3. d \in UsesOf(json, c) /\ e \in UsesOf(json, d)
      <3>1. 2 \in 2 .. n - 1 /\ 3 \in 2 .. n - 1 /\ 2 - 1 = 1 /\ 3 - 1 = 2
        BY <1>1, <1>3
      <3> QED  BY <1>2, <2>1, <3>1
    <2>4. c # d /\ d # e /\ c # e
      BY <2>2, <2>3 DEF ReachesItself
    <2> QED  BY <2>2, <2>4, PropsAre
  <1> QED  BY <1>1, <1>3

NodeAt(f, q) == IF q <= Len(f) THEN f[q].node ELSE 0
Weigh(a, b, c, B) == a * (B * B) + b * B + c
Measure(f, B) == Weigh(NodeAt(f, 1), NodeAt(f, 2), NodeAt(f, 3), B)

LEMMA DigitBounds ==
    ASSUME NEW B \in Nat \ {0}, NEW b \in 0 .. B - 1, NEW c \in 0 .. B - 1
    PROVE  b * B + c >= 0 /\ b * B + c < B * B
  <1>1. b + 1 <= B /\ b \in Nat
    OBVIOUS
  <1>2. (b + 1) * B <= B * B
    BY <1>1
  <1>3. (b + 1) * B = b * B + B
    BY <1>1
  <1>4. b * B \in Nat /\ B * B \in Nat
    BY <1>1
  <1> QED  BY <1>2, <1>3, <1>4

LEMMA DigitRises ==
    ASSUME NEW B \in Nat \ {0}, NEW a \in 0 .. B - 1, NEW b \in 0 .. B - 1, NEW c \in 0 .. B - 1,
           NEW j \in 0 .. B - 1
    PROVE  /\ a < j => Weigh(a, b, c, B) < Weigh(j, 0, 0, B)
           /\ b < j => Weigh(a, b, c, B) < Weigh(a, j, 0, B)
           /\ c < j => Weigh(a, b, c, B) < Weigh(a, b, j, B)
           /\ Weigh(a, b, c, B) \in Int
           /\ Weigh(a, b, c, B) < B * B * B
           /\ a > 0 => Weigh(a, b, c, B) > 0
  <1>1. PICK Q \in Nat : Q = B * B
    OBVIOUS
  <1>2. b * B + c >= 0 /\ b * B + c < Q
    BY <1>1, DigitBounds
  <1>3. a \in Nat /\ b \in Nat /\ c \in Nat /\ j \in Nat /\ b * B \in Nat /\ a * Q \in Nat /\ j * Q \in Nat
        /\ j * B \in Nat
    BY <1>1
  <1>4. ASSUME a < j PROVE Weigh(a, b, c, B) < Weigh(j, 0, 0, B)
    <2>1. (a + 1) * Q <= j * Q
      <3>1. a + 1 <= j
        BY <1>3, <1>4
      <3> QED  BY <1>3, <3>1
    <2>2. (a + 1) * Q = a * Q + Q
      BY <1>3
    <2>3. Weigh(j, 0, 0, B) = j * Q
      <3>1. 0 * B = 0
        OBVIOUS
      <3> QED  BY <1>1, <1>3, <3>1 DEF Weigh
    <2>4. Weigh(a, b, c, B) = a * Q + (b * B + c)
      BY <1>1, <1>3 DEF Weigh
    <2> QED  BY <1>2, <1>3, <2>1, <2>2, <2>3, <2>4
  <1>5. ASSUME b < j PROVE Weigh(a, b, c, B) < Weigh(a, j, 0, B)
    <2>1. (b + 1) * B <= j * B
      <3>1. b + 1 <= j
        BY <1>3, <1>5
      <3> QED  BY <1>3, <3>1
    <2>2. (b + 1) * B = b * B + B
      BY <1>3
    <2>3. Weigh(a, j, 0, B) = a * Q + j * B
      BY <1>1, <1>3 DEF Weigh
    <2>4. Weigh(a, b, c, B) = a * Q + b * B + c
      BY <1>1 DEF Weigh
    <2>5. c < B
      OBVIOUS
    <2> QED  BY <1>3, <2>1, <2>2, <2>3, <2>4, <2>5
  <1>6. ASSUME c < j PROVE Weigh(a, b, c, B) < Weigh(a, b, j, B)
    <2>1. Weigh(a, b, j, B) = a * Q + b * B + j
      BY <1>1 DEF Weigh
    <2>2. Weigh(a, b, c, B) = a * Q + b * B + c
      BY <1>1 DEF Weigh
    <2> QED  BY <1>3, <1>6, <2>1, <2>2
  <1>7. Weigh(a, b, c, B) = a * Q + (b * B + c) /\ Weigh(a, b, c, B) \in Int
    BY <1>1, <1>3 DEF Weigh
  <1>8. Weigh(a, b, c, B) < B * B * B
    <2>1. a + 1 <= B
      OBVIOUS
    <2>2. (a + 1) * Q <= B * Q
      BY <1>3, <2>1
    <2>3. (a + 1) * Q = a * Q + Q
      BY <1>3
    <2>4. B * B * B = B * Q /\ B * Q \in Nat
      BY <1>1
    <2> QED  BY <1>2, <1>3, <1>7, <2>2, <2>3, <2>4
  <1>9. ASSUME a > 0 PROVE Weigh(a, b, c, B) > 0
    <2>1. a * Q > 0
      <3>1. Q > 0
        BY <1>1
      <3> QED  BY <1>3, <1>9, <3>1
    <2> QED  BY <1>2, <1>3, <1>7, <2>1
  <1> QED  BY <1>4, <1>5, <1>6, <1>7, <1>8, <1>9

LEMMA NodesAt ==
    ASSUME NEW nodes, Tree(nodes), NEW f, StackOk(nodes, f), NEW B, B = Len(nodes) + 1
    PROVE  /\ B \in Nat \ {0}
           /\ \A q \in Nat \ {0} : NodeAt(f, q) \in 0 .. B - 1
           /\ NodeAt(f, 1) > 0
  <1>1. Len(nodes) \in Nat /\ DOMAIN nodes = 1 .. Len(nodes) /\ Len(f) \in Nat /\ Len(f) > 0
    BY DEF Tree, StackOk, Lists
  <1>2. \A q \in 1 .. Len(f) : f[q].node \in 1 .. Len(nodes)
    BY <1>1 DEF StackOk, FrameOk
  <1>3. ASSUME NEW q \in Nat \ {0} PROVE NodeAt(f, q) \in 0 .. B - 1
    <2>1. CASE q <= Len(f)
      <3>1. q \in 1 .. Len(f)
        BY <1>1, <2>1
      <3> QED  BY <1>1, <1>2, <2>1, <3>1 DEF NodeAt
    <2>2. CASE ~(q <= Len(f))
      BY <1>1, <2>2 DEF NodeAt
    <2> QED  BY <2>1, <2>2
  <1>4. NodeAt(f, 1) > 0
    <2>1. 1 \in 1 .. Len(f) /\ 1 <= Len(f)
      BY <1>1
    <2> QED  BY <1>1, <1>2, <2>1 DEF NodeAt
  <1> QED  BY <1>1, <1>3, <1>4

LEMMA MoveRises ==
    ASSUME NEW nodes, Tree(nodes), NEW f, StackOk(nodes, f), NEW g, MovesTo(nodes, f, g),
           Len(f) \in 1 .. 3, Len(g) \in 1 .. 3, NEW B, B = Len(nodes) + 1
    PROVE  Measure(f, B) < Measure(g, B)
  <1>1. PICK b \in 0 .. Len(f), j \in DOMAIN nodes :
          /\ g = Append(SubSeq(f, 1, b), FrameOf(nodes, j))
          /\ b < Len(f) => j > f[b + 1].node
    BY DEF MovesTo
  <1>2. PICK s, fr : s = SubSeq(f, 1, b) /\ fr = FrameOf(nodes, j)
    OBVIOUS
  <1>2a. fr.node = j
    BY <1>2 DEF FrameOf, FrameAt
  <1>3. Lists(s) /\ Len(s) = b /\ b \in Nat /\ \A i \in 1 .. b : s[i] = f[i]
    <2>1. Lists(f)
      BY DEF StackOk
    <2> QED  BY <1>2, <2>1, Prefix
  <1>4. Len(g) = b + 1 /\ g[b + 1] = fr /\ \A i \in 1 .. b : g[i] = f[i]
    <2>1. Extends(s, g) /\ Len(g) = b + 1 /\ g[b + 1] = fr
      BY <1>1, <1>2, <1>3, Appended
    <2> QED  BY <1>3, <2>1 DEF Extends
  <1>5. b \in 0 .. 2
    BY <1>3, <1>4
  <1>6. /\ NodeAt(g, b + 1) = j
        /\ \A i \in 1 .. b : NodeAt(g, i) = NodeAt(f, i)
        /\ \A i \in b + 2 .. 3 : NodeAt(g, i) = 0
    <2>1. NodeAt(g, b + 1) = j
      BY <1>2a, <1>3, <1>4 DEF NodeAt
    <2>2. \A i \in 1 .. b : NodeAt(g, i) = NodeAt(f, i)
      <3>1. \A i \in 1 .. b : i <= Len(f) /\ i <= Len(g)
        BY <1>3, <1>4
      <3> QED  BY <1>4, <3>1 DEF NodeAt
    <2>3. \A i \in b + 2 .. 3 : NodeAt(g, i) = 0
      BY <1>3, <1>4 DEF NodeAt
    <2> QED  BY <2>1, <2>2, <2>3
  <1>7. NodeAt(f, b + 1) < j
    <2>1. j \in Nat /\ j > 0
      BY DEF Tree
    <2> QED  BY <1>1, <1>3, <2>1 DEF NodeAt
  <1>8. /\ B \in Nat \ {0} /\ j \in 0 .. B - 1
        /\ NodeAt(f, 1) \in 0 .. B - 1 /\ NodeAt(f, 2) \in 0 .. B - 1 /\ NodeAt(f, 3) \in 0 .. B - 1
    <2>1. j \in 0 .. B - 1
      BY DEF Tree
    <2> QED  BY <2>1, NodesAt
  <1>9. PICK x, y, z : x = NodeAt(f, 1) /\ y = NodeAt(f, 2) /\ z = NodeAt(f, 3)
    OBVIOUS
  <1>10. Measure(f, B) = Weigh(x, y, z, B)
    BY <1>9 DEF Measure
  <1>11. CASE b = 0
    <2>1. NodeAt(g, 1) = j /\ NodeAt(g, 2) = 0 /\ NodeAt(g, 3) = 0 /\ x < j
      BY <1>6, <1>7, <1>9, <1>11
    <2>2. Weigh(x, y, z, B) < Weigh(j, 0, 0, B)
      BY <1>8, <1>9, <2>1, DigitRises
    <2> QED  BY <1>10, <2>1, <2>2 DEF Measure
  <1>12. CASE b = 1
    <2>1. NodeAt(g, 1) = x /\ NodeAt(g, 2) = j /\ NodeAt(g, 3) = 0 /\ y < j
      BY <1>6, <1>7, <1>9, <1>12
    <2>2. Weigh(x, y, z, B) < Weigh(x, j, 0, B)
      BY <1>8, <1>9, <2>1, DigitRises
    <2> QED  BY <1>10, <2>1, <2>2 DEF Measure
  <1>13. CASE b = 2
    <2>1. NodeAt(g, 1) = x /\ NodeAt(g, 2) = y /\ NodeAt(g, 3) = j /\ z < j
      BY <1>6, <1>7, <1>9, <1>13
    <2>2. Weigh(x, y, z, B) < Weigh(x, y, j, B)
      BY <1>8, <1>9, <2>1, DigitRises
    <2> QED  BY <1>10, <2>1, <2>2 DEF Measure
  <1> QED  BY <1>5, <1>11, <1>12, <1>13

LEMMA InstancesRise ==
    ASSUME NEW nodes, Tree(nodes), CheckDocument(nodes), NEW json, json = Emit(nodes),
           \A c \in DOMAIN Props : ~ReachesItself(json, c), NEW B, B = Len(nodes) + 1
    PROVE  \A k \in Nat : \A m \in Instances(json)[k] :
             StackOk(nodes, m.frames) /\ Measure(m.frames, B) > k
  <1>1. SameTree(nodes, json.nodes)
    BY EmittedTree
  <1>2. PICK to : to = Instances(json)
    OBVIOUS
  <1>3. /\ to[0] = Made(ViewNodes(json.nodes), <<>>, "box", <<>>, <<>>)
        /\ \A k \in Nat \ {0} : to[k] = UNION {MadeOf(json, m) : m \in to[k - 1]}
    BY <1>2, InstancesStep
  <1>4. ASSUME NEW f, StackOk(nodes, f) PROVE Measure(f, B) \in Int /\ Measure(f, B) > 0
    <2>1. /\ B \in Nat \ {0} /\ NodeAt(f, 1) > 0
          /\ NodeAt(f, 1) \in 0 .. B - 1 /\ NodeAt(f, 2) \in 0 .. B - 1 /\ NodeAt(f, 3) \in 0 .. B - 1
      BY <1>4, NodesAt
    <2>2. PICK x, y, z : x = NodeAt(f, 1) /\ y = NodeAt(f, 2) /\ z = NodeAt(f, 3)
      OBVIOUS
    <2>3. Weigh(x, y, z, B) \in Int /\ Weigh(x, y, z, B) > 0
      BY <2>1, <2>2, DigitRises
    <2> QED  BY <2>2, <2>3 DEF Measure
  <1> DEFINE S == {k \in Nat : \A m \in to[k] : StackOk(nodes, m.frames) /\ Measure(m.frames, B) > k}
  <1>5. ASSUME NEW k \in Nat, 0 .. k - 1 \subseteq S PROVE k \in S
    <2>1. SUFFICES ASSUME NEW m \in to[k]
                   PROVE  StackOk(nodes, m.frames) /\ Measure(m.frames, B) > k
      OBVIOUS
    <2>2. CASE k = 0
      BY <1>1, <1>3, <1>4, <2>1, <2>2, FirstStack
    <2>3. CASE k # 0
      <3>1. PICK before \in to[k - 1] : m \in MadeOf(json, before)
        BY <1>3, <2>1, <2>3
      <3>2. StackOk(nodes, before.frames) /\ Measure(before.frames, B) > k - 1
        <4>1. k - 1 \in S
          BY <1>5, <2>3
        <4> QED  BY <3>1, <4>1
      <3>3. MovesTo(nodes, before.frames, m.frames)
        BY <1>1, <3>1, <3>2, MadeMoves
      <3>4. StackOk(nodes, m.frames)
        BY <3>2, <3>3, StackMoves
      <3>5. Len(before.frames) \in 1 .. 3 /\ Len(m.frames) \in 1 .. 3
        BY <1>1, <3>2, <3>4, StackShort
      <3>6. Measure(before.frames, B) < Measure(m.frames, B)
        BY <3>2, <3>3, <3>5, MoveRises
      <3>7. Measure(before.frames, B) \in Int /\ Measure(m.frames, B) \in Int
        BY <1>4, <3>2, <3>4
      <3> QED  BY <3>2, <3>4, <3>6, <3>7
    <2> QED  BY <2>2, <2>3
  <1>6. S = Nat
    <2>1. S \in SUBSET Nat
      OBVIOUS
    <2> HIDE DEF S
    <2> QED  BY <1>5, <2>1, StrongInduction
  <1> QED  BY <1>2, <1>6

LEMMA CompiledIsSound ==
    ASSUME NEW nodes, Tree(nodes), Compiles(nodes), NEW json, json = Emit(nodes)
    PROVE  /\ Steps(json) \in Nat /\ Instances(json)[Steps(json)] = {}
           /\ \A k \in Nat : \A m \in Instances(json)[k] : Sound(json, m)
  <1>1. CheckDocument(nodes) /\ \A c \in DOMAIN Props : ~ReachesItself(json, c)
    BY DEF Compiles
  <1>2. PICK B : B = Len(nodes) + 1
    OBVIOUS
  <1>3. \A k \in Nat : \A m \in Instances(json)[k] :
          StackOk(nodes, m.frames) /\ Measure(m.frames, B) > k
    BY <1>1, <1>2, InstancesRise
  <1>4. SameTree(nodes, json.nodes) /\ B \in Nat \ {0}
    BY <1>2, EmittedTree DEF Tree
  <1>5. Steps(json) = B * B * B /\ B * B * B \in Nat
    <2>1. Len(json.nodes) + 1 = B
      BY <1>2, <1>4 DEF SameTree
    <2> QED  BY <1>4, <2>1 DEF Steps
  <1>6. ASSUME NEW m \in Instances(json)[Steps(json)] PROVE FALSE
    <2>1. PICK f : f = m.frames
      OBVIOUS
    <2>2. StackOk(nodes, f) /\ Measure(f, B) > B * B * B
      BY <1>3, <1>5, <1>6, <2>1
    <2>3. NodeAt(f, 1) \in 0 .. B - 1 /\ NodeAt(f, 2) \in 0 .. B - 1 /\ NodeAt(f, 3) \in 0 .. B - 1
      BY <1>2, <2>2, NodesAt
    <2>4. PICK x, y, z : x = NodeAt(f, 1) /\ y = NodeAt(f, 2) /\ z = NodeAt(f, 3)
      OBVIOUS
    <2>5. Weigh(x, y, z, B) < B * B * B /\ Weigh(x, y, z, B) \in Int
      BY <1>4, <2>3, <2>4, DigitRises
    <2>6. Measure(f, B) = Weigh(x, y, z, B)
      BY <2>4 DEF Measure
    <2> QED  BY <1>5, <2>2, <2>5, <2>6
  <1>7. \A k \in Nat : \A m \in Instances(json)[k] : Sound(json, m)
    BY <1>1, <1>3, StackSound
  <1> QED  BY <1>5, <1>6, <1>7

(* Whatever the author writes, a view that compiles (ocml.rs:283           *)
(* `compile`) makes only nodes that are sound, with the functions of       *)
(* bundle.rs:762 `table_entry`, and the VM comes to its end, as no         *)
(* component reaches itself (compiled_view.rs:345).                        *)
THEOREM CompiledViewsAreSound == TreeSpec => []InstancesSound
  <1>1. TreeInv => InstancesSound
    <2>1. SUFFICES ASSUME TreeInv, Compiles(view.nodes)
                   PROVE  LET json == Emit(view.nodes)
                              made == Instances(json) IN
                          \E k \in 0 .. Steps(json) :
                            made[k] = {} /\ \A j \in 0 .. k : \A m \in made[j] : Sound(json, m)
      BY DEF InstancesSound
    <2>2. PICK json, made : json = Emit(view.nodes) /\ made = Instances(json)
      OBVIOUS
    <2>3. /\ Steps(json) \in Nat /\ made[Steps(json)] = {}
          /\ \A k \in Nat : \A m \in made[k] : Sound(json, m)
      BY <2>1, <2>2, CompiledIsSound DEF TreeInv
    <2>4. Steps(json) \in 0 .. Steps(json) /\ \A j \in 0 .. Steps(json) : j \in Nat
      BY <2>3
    <2> QED  BY <2>2, <2>3, <2>4
  <1> QED  BY <1>1, TreeInvariant, PTL
=============================================================================
