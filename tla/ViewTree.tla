------------------------------ MODULE ViewTree ------------------------------
(***************************************************************************)
(* A view from its source to its nodes: the check of `view.ocml` and the   *)
(* emission of `view.json` (overcrow-widget-format, ocml.rs), the          *)
(* validation of what was emitted by the host (overcrow-widget-schema,     *)
(* compiled_view.rs), the functions of the table (bundle.rs), and, outside *)
(* this repository, the nodes the VM makes of the tree.                    *)
(*                                                                         *)
(* A tree is its nodes in the order of the document, the order in which    *)
(* each of these walks it; a node knows the one it is directly under. The  *)
(* document's own nodes are its two `component`s, then what stands for the *)
(* rest of it, "view". An expression is the names it reads and calls.      *)
(* Left out: values of attributes, texts, assets, anchors, the limits of   *)
(* sizes and depths, and the text controls of a form. The errors are one.  *)
(***************************************************************************)
EXTENDS Naturals, Sequences, FiniteSets, Functions

CONSTANTS
    ScopeNames,        \* names of items and properties
    LogicFunctions,    \* names the logic exports
    NoRef,
    MaxNodes           \* bound: nodes written
ASSUME ScopeNamesAssumption == {"x", "y"} \subseteq ScopeNames
ASSUME MaxNodesAssumption == MaxNodes \in Nat

VARIABLE view          \* the source written so far: its nodes, and how many more
treeVars == view

ReadsName(name) == [reads |-> {name}, calls |-> {}]
CallsName(name, of) == [reads |-> of, calls |-> {name}]
NoExpr == [reads |-> {}, calls |-> {}]

\* `box` is any element of flow content, `text` has inline content, `span`
\* text, `icon` none.
ElementNames == {"box", "text", "span", "icon"}
Branches == {"if", "else-if", "else"}
Props == [c \in {"c1", "c2"} |-> IF c = "c1" THEN <<"x">> ELSE <<>>]
Tag(name) == [tag |-> name, ref |-> NoRef, expr |-> NoExpr, on |-> NoExpr, item |-> "",
              key |-> NoExpr, under |-> 0]
Declared(c) == [Tag("component") EXCEPT !.item = c]
\* The content model that applies in them is that of what they are in.
Transparent == Branches \cup {"slot"} \cup DOMAIN Props
Accepts(parent, child) ==
    \/ parent = "box" /\ child # "span"
    \/ parent = "text" /\ child \in {"span", "icon"}

Children(nodes, i) == {j \in DOMAIN nodes : nodes[j].under = i}
Body(nodes, c) ==
    UNION {Children(nodes, r) : r \in {r \in DOMAIN nodes : nodes[r].tag = "component" /\ nodes[r].item = c}}
ViewNodes(nodes) == UNION {Children(nodes, r) : r \in {r \in DOMAIN nodes : nodes[r].tag = "view"}}
\* Node j comes just before node i among those under the same one.
Precedes(nodes, j, i) ==
    /\ j < i /\ nodes[j].under = nodes[i].under
    /\ \A k \in j + 1 .. i - 1 : nodes[k].under # nodes[i].under
RefsUnique(nodes) ==
    \A i, j \in DOMAIN nodes : i # j /\ nodes[i].ref # NoRef => nodes[i].ref # nodes[j].ref

-----------------------------------------------------------------------------
(* The check of the source: where each node is placed, and what it must be *)
(* there.                                                                  *)
Place(parent, scope, home, repeated) ==
    [parent |-> parent, scope |-> scope, home |-> home, repeated |-> repeated]
Outside == Place("none", <<>>, "", FALSE)

\* Mutant of ForPlace: what is under a `for` is not taken as repeated.
ForPlaceOnce(n, place) == [place EXCEPT !.scope = Append(@, n.item)]
ForPlace(n, place) == [place EXCEPT !.scope = Append(@, n.item), !.repeated = TRUE]

\* The place of what is under a node.
Nested(n, place) ==
    CASE n.tag = "component" -> Place("box", Props[n.item], n.item, TRUE)
      [] n.tag = "view" -> Place("box", <<>>, "view", FALSE)
      [] n.tag = "for" -> ForPlace(n, place)
      [] n.tag \in ElementNames -> [place EXCEPT !.parent = n.tag]
      [] n.tag \in Transparent -> place

\* The places of the first k nodes.
PlacesTo(nodes) ==
    LET to[k \in Nat] ==
          IF k = 0 THEN <<>>
          ELSE LET u == nodes[k].under IN
               Append(to[k - 1], IF u = 0 THEN Outside ELSE Nested(nodes[u], to[k - 1][u]))
    IN  to
PlacesOf(nodes) == PlacesTo(nodes)[Len(nodes)]

Resolves(expr, names) ==
    /\ expr.reads \subseteq names \cup {"state"}
    /\ expr.calls \cap (names \cup {"state"}) = {}

\* The name of a function is a call of it with the event.
Handler(expr, scope) ==
    IF expr.calls = {} /\ expr.reads \cap (Range(scope) \cup {"state"}) = {}
    THEN [reads |-> {"event"}, calls |-> expr.reads] ELSE expr
HandlerOk(expr, scope) ==
    LET call == Handler(expr, scope) IN
    call.calls # {} /\ Resolves(call, Range(scope) \cup {"event"})

CheckFor(n, place) ==
    /\ Resolves(n.expr, Range(place.scope))
    /\ n.item \notin Range(place.scope) \cup {"state", "event"}
    /\ Resolves(n.key, Range(ForPlace(n, place).scope))

CheckUse(n, place) ==
    /\ place.parent = "box"
    /\ n.item # "" => n.item \in Range(Props[n.tag])
    /\ Resolves(n.expr, Range(place.scope))

CheckElement(nodes, i, place) ==
    LET n == nodes[i] IN
    /\ Accepts(place.parent, n.tag)
    /\ n.ref # NoRef => ~place.repeated
    /\ Resolves(n.expr, Range(place.scope))
    /\ n.on # NoExpr => HandlerOk(n.on, place.scope)
    /\ Children(nodes, i) # {} => n.tag \in {"box", "text"}

\* `else-if` and `else` follow the branch they are the other case of.
CheckBranch(nodes, i, place) ==
    /\ nodes[i].tag # "if" =>
         \E j \in DOMAIN nodes : Precedes(nodes, j, i) /\ nodes[j].tag \in {"if", "else-if"}
    /\ Resolves(nodes[i].expr, Range(place.scope))

CheckNode(nodes, i, place) ==
    LET n == nodes[i] IN
    CASE n.tag \in {"component", "view"} -> TRUE
      [] n.tag \in Branches -> CheckBranch(nodes, i, place)
      [] n.tag = "for" -> CheckFor(n, place)
      [] n.tag = "slot" ->
           place.home \in DOMAIN Props /\ place.parent = "box" /\ Children(nodes, i) = {}
      [] n.tag \in ElementNames -> CheckElement(nodes, i, place)
      [] n.tag \in DOMAIN Props -> CheckUse(n, place)

OneSlot(nodes, places) ==
    \A i, j \in DOMAIN nodes :
        nodes[i].tag = "slot" /\ nodes[j].tag = "slot" /\ places[i].home = places[j].home => i = j

CheckDocument(nodes) ==
    LET places == PlacesOf(nodes) IN
    /\ \A i \in DOMAIN nodes : CheckNode(nodes, i, places[i])
    /\ OneSlot(nodes, places)
    /\ RefsUnique(nodes)

-----------------------------------------------------------------------------
(* The emission: the nodes put out, the table and the names in scope.      *)
PutExpression(e, role, expr) ==
    [e EXCEPT !.table = Append(@, [role |-> role, expr |-> expr, scope |->
        IF role = "handler" THEN Append(e.scope, "event") ELSE e.scope])]

\* The entry of an expression, 0 for none.
Given(e, role, expr) == IF expr = NoExpr THEN e ELSE PutExpression(e, role, expr)
GivenHandler(e, on) == IF on = NoExpr THEN e ELSE PutExpression(e, "handler", Handler(on, e.scope))
EntryOf(e, expr) == IF expr = NoExpr THEN 0 ELSE Len(e.table)
Pushed(e, name) == [e EXCEPT !.scope = Append(@, name)]
\* Mutant of Popped: an item stays in scope after its `for`.
PoppedNever(scope, fors) == scope
Popped(scope, fors) == SubSeq(scope, 1, Len(scope) - Cardinality(fors))

\* The `for`s the emitter leaves before it comes to node k.
ForsLeft(nodes, k) ==
    {i \in nodes[k].under + 1 .. k - 1 :
        nodes[i].tag = "for" /\ \A j \in i + 1 .. k - 1 : nodes[j].under >= i}
ScopeAt(nodes, e, k) ==
    IF nodes[k].tag = "component" THEN Props[nodes[k].item]
    ELSE IF nodes[k].tag = "view" THEN <<>> ELSE Popped(e.scope, ForsLeft(nodes, k))

RoleOf(tag) ==
    CASE tag = "for" -> "list" [] tag \in Branches -> "test" [] tag \in ElementNames -> "attribute"
      [] tag \in DOMAIN Props -> "prop"
Compiled(n, bind, on, key) ==
    [tag |-> n.tag, ref |-> n.ref, bind |-> bind, on |-> on, item |-> n.item, key |-> key,
     under |-> n.under]

EmitNode(nodes, e, k) ==
    LET n == nodes[k]
        s1 == Given([e EXCEPT !.scope = ScopeAt(nodes, e, k)], RoleOf(n.tag), n.expr)
        s2 == IF n.tag = "for" THEN PutExpression(Pushed(s1, n.item), "key", n.key)
              ELSE GivenHandler(s1, n.on) IN
    [s2 EXCEPT !.out =
        Append(@, Compiled(n, EntryOf(s1, n.expr), EntryOf(s2, n.on), EntryOf(s2, n.key)))]
Emitting(nodes) ==
    LET to[k \in Nat] ==
          IF k = 0 THEN [out |-> <<>>, table |-> <<>>, scope |-> <<>>]
          ELSE EmitNode(nodes, to[k - 1], k)
    IN  to
Emit(nodes) ==
    LET e == Emitting(nodes)[Len(nodes)] IN [nodes |-> e.out, table |-> e.table]

\* The function of an entry: the names it binds, in order, and those of them
\* it takes from the VM's scope; `state` is its parameter.
TableEntry(entry) ==
    [binds |-> <<"state">> \o entry.scope,
     takes |-> IF entry.role = "handler" THEN SubSeq(entry.scope, 1, Len(entry.scope) - 1)
               ELSE entry.scope]

-----------------------------------------------------------------------------
(* The host's validation of what was emitted, and the cycles it refuses.   *)
Context(parent, home, repeated) == [parent |-> parent, home |-> home, repeated |-> repeated]

NestedContext(n, context) ==
    CASE n.tag = "component" -> Context("box", n.item, TRUE)
      [] n.tag = "view" -> Context("box", "view", FALSE)
      [] n.tag = "for" -> [context EXCEPT !.repeated = TRUE]
      [] n.tag \in ElementNames -> [context EXCEPT !.parent = n.tag]
      [] n.tag \in Transparent -> context

ContextsTo(nodes) ==
    LET to[k \in Nat] ==
          IF k = 0 THEN <<>>
          ELSE LET u == nodes[k].under IN
               Append(to[k - 1], IF u = 0 THEN Context("none", "", FALSE)
                                 ELSE NestedContext(nodes[u], to[k - 1][u]))
    IN  to
Contexts(nodes) == ContextsTo(nodes)[Len(nodes)]

\* The branches of an `if` are one node: only the last may have no test.
ValidBranch(nodes, i) ==
    nodes[i].tag # "if" =>
        \E j \in DOMAIN nodes :
            Precedes(nodes, j, i) /\ nodes[j].tag \in Branches /\ nodes[j].bind > 0
ValidElement(nodes, i, context) ==
    /\ Accepts(context.parent, nodes[i].tag)
    /\ nodes[i].ref # NoRef => ~context.repeated
    /\ Children(nodes, i) # {} => nodes[i].tag \in {"box", "text"}

ValidNode(json, i, context) ==
    LET n == json.nodes[i] IN
    /\ {n.bind, n.on, n.key} \subseteq 0 .. Len(json.table)
    /\ CASE n.tag \in {"component", "view"} -> TRUE
         [] n.tag \in Branches -> ValidBranch(json.nodes, i)
         [] n.tag = "for" -> n.bind > 0 /\ n.key > 0
         [] n.tag = "slot" ->
              /\ context.home \in DOMAIN Props /\ context.parent = "box"
              /\ Children(json.nodes, i) = {}
         [] n.tag \in ElementNames -> ValidElement(json.nodes, i, context)
         [] n.tag \in DOMAIN Props ->
              /\ context.parent = "box"
              /\ n.bind > 0 => n.item \in Range(Props[n.tag])

ValidView(json) ==
    LET contexts == Contexts(json.nodes) IN
    /\ \A i \in DOMAIN json.nodes : ValidNode(json, i, contexts[i])
    /\ OneSlot(json.nodes, contexts)
    /\ RefsUnique(json.nodes)

UsesOf(json, c) ==
    LET contexts == Contexts(json.nodes) IN
    {json.nodes[i].tag : i \in {i \in DOMAIN json.nodes : contexts[i].home = c}} \cap DOMAIN Props
\* Mutant of ReachesItself: only a component used by its own body.
ReachesItselfAtOnce(json, c) == c \in UsesOf(json, c)
ReachesItself(json, c) ==
    c \in UsesOf(json, c) \cup UNION {UsesOf(json, d) : d \in UsesOf(json, c)}

Compiles(nodes) ==
    LET json == Emit(nodes) IN
    CheckDocument(nodes) /\ ValidView(json) /\ \A c \in DOMAIN Props : ~ReachesItself(json, c)

-----------------------------------------------------------------------------
(* The nodes of the VM: a `for` twice, every branch, a component's body    *)
(* with its properties, and at its slot the children of the use, in the    *)
(* names of the use. The VM is at a node of the view, in it at a node of   *)
(* the body of the component used there, and so on.                        *)
FrameAt(i, parent, scope) == [node |-> i, parent |-> parent, scope |-> scope]
Top(frames) == frames[Len(frames)]
Below(frames) == SubSeq(frames, 1, Len(frames) - 1)
Instance(frames, rounds) == [frames |-> frames, rounds |-> rounds]
Rounds == {1, 2}

\* What is made next of `made`: the nodes of `inside`, in a frame on `below`.
Made(inside, below, parent, scope, rounds) ==
    {Instance(Append(below, FrameAt(j, parent, scope)), rounds) : j \in inside}

MadeOf(json, made) ==
    LET frame == Top(made.frames)
        n == json.nodes[frame.node]
        below == Below(made.frames)
        inside == Children(json.nodes, frame.node) IN
    CASE n.tag \in ElementNames -> Made(inside, below, n.tag, frame.scope, made.rounds)
      [] n.tag \in Branches -> Made(inside, below, frame.parent, frame.scope, made.rounds)
      [] n.tag = "for" ->
           UNION {Made(inside, below, frame.parent, Append(frame.scope, n.item),
                       Append(made.rounds, round)) : round \in Rounds}
      [] n.tag = "slot" ->
           IF below = <<>> THEN {}
           ELSE Made(Children(json.nodes, Top(below).node), Below(below), frame.parent,
                     Top(below).scope, made.rounds)
      [] n.tag \in DOMAIN Props ->
           Made(Body(json.nodes, n.tag), made.frames, frame.parent, Props[n.tag], made.rounds)

\* What is made in k steps from the top of the view.
Instances(json) ==
    LET to[k \in Nat] ==
          IF k = 0 THEN Made(ViewNodes(json.nodes), <<>>, "box", <<>>, <<>>)
          ELSE UNION {MadeOf(json, made) : made \in to[k - 1]}
    IN  to
\* The VM is never in more than three bodies, each time further in one.
Steps(json) == LET size == Len(json.nodes) + 1 IN size * size * size

-----------------------------------------------------------------------------
(* An author who writes the components and then the view, node by node. A  *)
(* document the check refuses is refused whatever is written after, so the *)
(* author writes on only what it accepts.                                  *)
NamesTried == ScopeNames \cup LogicFunctions \cup {"event"}
Repeat(item, key) == [Tag("for") EXCEPT !.item = item, !.expr = ReadsName("state"), !.key = ReadsName(key)]
Forms ==
    {Tag(name) : name \in {"box", "span", "slot", "else", "c1", "c2"}}
    \cup {[Tag("text") EXCEPT !.ref = "r"]}
    \cup {[Tag("icon") EXCEPT !.expr = ReadsName(name)] : name \in NamesTried}
    \cup {[Tag("icon") EXCEPT !.expr = CallsName(name, {})] : name \in ScopeNames}
    \cup {[Tag("icon") EXCEPT !.on = ReadsName(name)] : name \in NamesTried}
    \cup {[Tag("if") EXCEPT !.expr = ReadsName("state")]}
    \cup {[Tag("c1") EXCEPT !.item = "x", !.expr = ReadsName(name)] : name \in ScopeNames}
    \cup {Repeat(names[1], names[2]) : names \in ScopeNames \X ScopeNames}

\* A node is still open when all that follows is in it.
Open(nodes, i) == i \in DOMAIN nodes /\ \A j \in i + 1 .. Len(nodes) : nodes[j].under >= i

\* The second component is written: it uses the first, or repeats its slot.
SecondBodies ==
    {<<>>, <<[Tag("c1") EXCEPT !.under = 1]>>,
     <<[Repeat("y", "y") EXCEPT !.under = 1], [Tag("slot") EXCEPT !.under = 2]>>}
TreeInit ==
    \E body \in SecondBodies :
        view = [nodes |-> <<Declared("c2")>> \o body \o <<Declared("c1")>>, left |-> MaxNodes]
NextPart ==
    /\ \A i \in DOMAIN view.nodes : view.nodes[i].tag # "view"
    /\ view' = [view EXCEPT !.nodes = Append(@, Tag("view"))]
WriteNode ==
    /\ view.left > 0
    /\ \E n \in Forms, i \in {i \in DOMAIN view.nodes : Open(view.nodes, i)} :
         view' = [nodes |-> Append(view.nodes, [n EXCEPT !.under = i]), left |-> view.left - 1]
    /\ CheckDocument(view'.nodes)
TreeNext == NextPart \/ WriteNode
TreeSpec == TreeInit /\ [][TreeNext]_treeVars

TreeTypeOK ==
    /\ view.left \in 0 .. MaxNodes
    /\ \A i \in DOMAIN view.nodes :
         [view.nodes[i] EXCEPT !.under = 0] \in Forms \cup {Tag("view")} \cup {Declared(c) : c \in DOMAIN Props}
-----------------------------------------------------------------------------
Written == \E i \in DOMAIN view.nodes : view.nodes[i].under # 0

(* ocml.rs:328 "The emitter writes only the shapes the validator accepts": *)
(* the two checks are written twice, on two trees, and agree.              *)
ValidatorAgrees == Written /\ CheckDocument(view.nodes) => ValidView(Emit(view.nodes))

(* What the VM makes of a view that compiles: it ends; every node is where *)
(* its parent takes it, through components and slots; a function of the    *)
(* table binds the names the VM gives at that place, each once, and no     *)
(* more; what it reads is bound and what it calls is not hidden.           *)
Bound(json, index, scope) ==
    LET entry == json.table[index]
        function == TableEntry(entry) IN
    /\ function.takes = scope
    /\ IsInjective(function.binds)
    /\ entry.expr.reads \subseteq Range(function.binds)
    /\ entry.expr.calls \cap Range(function.binds) = {}
Sound(json, made) ==
    LET frame == Top(made.frames)
        n == json.nodes[frame.node] IN
    /\ n.tag \in ElementNames => Accepts(frame.parent, n.tag)
    /\ n.bind > 0 => Bound(json, n.bind, frame.scope)
    /\ n.on > 0 => Bound(json, n.on, frame.scope)
    /\ n.key > 0 => Bound(json, n.key, Append(frame.scope, n.item))
InstancesSound ==
    Written /\ Compiles(view.nodes) =>
      LET json == Emit(view.nodes)
          made == Instances(json) IN
      \E k \in 0 .. Steps(json) :
        made[k] = {} /\ \A j \in 0 .. k : \A m \in made[j] : Sound(json, m)

(* view.md:175 "unique in the view, and refused inside a `for` or a        *)
(* component, where it would name several nodes": of the nodes made.       *)
RefIsOneNode ==
    LET json == Emit(view.nodes)
        made == UNION {Instances(json)[k] : k \in 0 .. Len(json.nodes)}
        RefOf(m) == json.nodes[Top(m.frames).node].ref IN
    Compiles(view.nodes) => \A m, o \in made : m # o /\ RefOf(m) # NoRef => RefOf(m) # RefOf(o)
=============================================================================
